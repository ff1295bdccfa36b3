-------------------------- MODULE FencedMigration ---------------------------
(***************************************************************************)
(* k8s/mlflow/auth/fenced_migration.py: jobs that migrate the Auth schema  *)
(* under a MySQL advisory lock, each on a single physical session that is  *)
(* never reconnected.  MySQL commits implicitly at every DDL statement, a  *)
(* session outlives the job that opened it until the server notices, and   *)
(* the statement it was running may still take effect.                     *)
(***************************************************************************)
EXTENDS Naturals, Sequences, FiniteSets

CONSTANTS
    Jobs,        \* executions of the script
    None,
    Script,      \* all statements of all revisions, in order: [rev, op] records,
                 \* op \in {"ddl", "dml", "stamp"}; the stamp ends a revision
    Approved     \* checkpoints.json: the schema states a job may start from

All == 1..Len(Script)
HEAD == Script[Len(Script)].rev

ASSUME ScriptAssumption ==
    /\ None \notin Jobs /\ None # 0
    /\ Len(Script) > 0
    /\ Script \in Seq([rev : 1..Len(Script), op : {"ddl", "dml", "stamp"}])

\* The revisions form one line, and the last statement of each is its only stamp.
ASSUME LineAssumption ==
    /\ Script[1].rev = 1 /\ Script[Len(Script)].op = "stamp"
    /\ \A n \in 1..(Len(Script) - 1) :
          Script[n + 1].rev = Script[n].rev + IF Script[n].op = "stamp" THEN 1 ELSE 0
    /\ \A m, n \in All :
          m < n => /\ Script[m].rev <= Script[n].rev
                   /\ Script[m].op = "stamp" => Script[m].rev < Script[n].rev

\* A checkpoint is what the script leaves behind after some revision.
ASSUME CheckpointAssumption ==
    \A s \in Approved :
        \E n \in All : s = [i \in 1..n |-> i] /\ Script[n].op = "stamp"

VARIABLES
    allowEmpty,\* policy.allow_empty
    pc,        \* where each job stands
    result,    \* exit code of each job
    rev,       \* revision its loop has reached
    next,      \* statement alembic runs next for it
    session,   \* its server session: "none", "open", "orphan" or "gone"
    inflight,  \* statement the session is executing, 0 if none
    pending,   \* statements it executed but did not commit
    lock,      \* the job whose session owns the advisory lock
    durable,   \* committed statements, in the order they took effect
    reported   \* snapshots emitted with "step_complete"

jobVars == <<pc, result, rev, next, allowEmpty>>
serverVars == <<session, inflight, pending, lock, durable>>
vars == <<jobVars, serverVars, reported>>

\* The version table of a schema: the last revision stamped in it.
Version(state) ==
    LET stamped == {Script[state[i]].rev :
                       i \in {n \in 1..Len(state) : Script[state[n]].op = "stamp"}}
    IN IF stamped = {} THEN 0 ELSE CHOOSE r \in stamped : \A s \in stamped : s <= r

First(r) == CHOOSE n \in All : Script[n].rev = r /\ \A m \in All : Script[m].rev = r => n <= m

Init ==
    /\ allowEmpty \in BOOLEAN
    /\ pc = [j \in Jobs |-> "new"] /\ result = [j \in Jobs |-> None]
    /\ rev = [j \in Jobs |-> 0] /\ next = [j \in Jobs |-> 0]
    /\ session = [j \in Jobs |-> "none"]
    /\ inflight = [j \in Jobs |-> 0] /\ pending = [j \in Jobs |-> <<>>]
    /\ lock = None
    /\ durable \in {<<>>} \cup Approved
    /\ reported = {}

----------------------------------------------------------------------------
Goto(j, point) == pc' = [pc EXCEPT ![j] = point] /\ UNCHANGED allowEmpty

\* main() returns or raises; closing the connection tells the server nothing it
\* must act on at once.
Ends(j, code) ==
    /\ Goto(j, "done")
    /\ result' = [result EXCEPT ![j] = code]
    /\ session' = [session EXCEPT ![j] = IF @ = "open" THEN "orphan" ELSE @]
    /\ UNCHANGED <<rev, next, inflight, pending, durable>>

Stays == UNCHANGED <<result, session>>

Connect(j) ==
    /\ pc[j] = "new"
    /\ Goto(j, "connected")
    /\ session' = [session EXCEPT ![j] = "open"]
    /\ UNCHANGED <<result, rev, next, inflight, pending, lock, durable, reported>>

\* The client's next statement needs the session; without one it raises, and
\* the engine's creator refuses to connect a second time.
Alive(j) == session[j] = "open" /\ inflight[j] = 0

BugWaitForLock(j) ==
    /\ pc[j] = "connected" /\ Alive(j)
    /\ lock = None
    /\ lock' = j
    /\ Goto(j, "locked") /\ Stays
    /\ UNCHANGED <<rev, next, inflight, pending, durable, reported>>
BugIgnoreLockResult(j) ==
    /\ pc[j] = "connected" /\ Alive(j)
    /\ lock' = IF lock = None THEN j ELSE lock
    /\ Goto(j, "locked") /\ Stays
    /\ UNCHANGED <<rev, next, inflight, pending, durable, reported>>

\* GET_LOCK(key, 0) never waits.
TakeLock(j) ==
    /\ pc[j] = "connected" /\ Alive(j)
    /\ \/ /\ lock = None
          /\ lock' = j
          /\ Goto(j, "locked") /\ Stays
          /\ UNCHANGED <<rev, next, inflight, pending, durable>>
       \/ lock # None /\ Ends(j, 20) /\ UNCHANGED lock
    /\ UNCHANGED reported

Proceed(j) ==
    /\ rev' = [rev EXCEPT ![j] = Version(durable) + 1]
    /\ Goto(j, "step") /\ Stays
    /\ UNCHANGED <<next, inflight, pending, durable>>

BugApproveAny(j) ==
    /\ pc[j] = "locked" /\ Alive(j)
    /\ Proceed(j)
    /\ UNCHANGED <<lock, reported>>
BugSkipRevision(j) ==
    /\ pc[j] = "locked" /\ Alive(j)
    /\ durable = <<>> \/ durable \in Approved
    /\ rev' = [rev EXCEPT ![j] = Version(durable) + 2]
    /\ Goto(j, "step") /\ Stays
    /\ UNCHANGED <<next, inflight, pending, durable, lock, reported>>

\* Snapshot under the lock, compared with the approved checkpoints; the loop
\* starts after the revision the snapshot shows.
Preflight(j) ==
    /\ pc[j] = "locked" /\ Alive(j)
    /\ \/ durable = <<>> /\ ~allowEmpty /\ Ends(j, 1)
       \/ durable # <<>> /\ durable \notin Approved /\ Ends(j, 30)
       \/ durable = <<>> /\ allowEmpty /\ Proceed(j)
       \/ durable \in Approved /\ Proceed(j)
    /\ UNCHANGED <<lock, reported>>

\* IS_USED_LOCK, then alembic's upgrade(cfg, revision): it reads the version
\* table itself and runs what is missing up to that revision.
EnterStep(j) ==
    /\ pc[j] = "step" /\ Alive(j)
    /\ rev[j] <= HEAD
    /\ IF lock # j
       THEN Ends(j, 1) /\ UNCHANGED next
       ELSE /\ IF Version(durable) >= rev[j]
               THEN Goto(j, "commit") /\ UNCHANGED next
               ELSE /\ Goto(j, "upgrade")
                    /\ next' = [next EXCEPT ![j] = First(Version(durable) + 1)]
            /\ Stays
            /\ UNCHANGED <<rev, inflight, pending, durable>>
    /\ UNCHANGED <<lock, reported>>

\* before_cursor_execute asks the server for the lock's owner before each write.
Issue(j) ==
    /\ pc[j] = "upgrade" /\ Alive(j)
    /\ IF lock # j
       THEN Ends(j, 1)
       ELSE /\ inflight' = [inflight EXCEPT ![j] = next[j]]
            /\ next' = [next EXCEPT ![j] = @ + 1]
            /\ Goto(j, IF Script[next[j]] = [rev |-> rev[j], op |-> "stamp"]
                       THEN "commit" ELSE "upgrade")
            /\ Stays
            /\ UNCHANGED <<rev, pending, durable>>
    /\ UNCHANGED <<lock, reported>>

Commit(j) ==
    /\ durable' = durable \o pending[j]
    /\ pending' = [pending EXCEPT ![j] = <<>>]

BugReportBeforeCommit(j) ==
    /\ pc[j] = "commit" /\ Alive(j)
    /\ reported' = reported \cup {durable \o pending[j]}
    /\ Goto(j, "report") /\ Stays
    /\ UNCHANGED <<rev, next, inflight, pending, lock, durable>>
CommitStep(j) ==
    /\ pc[j] = "commit" /\ Alive(j)
    /\ Commit(j)
    /\ Goto(j, "report") /\ Stays
    /\ UNCHANGED <<rev, next, inflight, lock, reported>>

\* The snapshot is read and emitted on the strength of that commit.
ReportStep(j) ==
    /\ pc[j] = "report" /\ Alive(j)
    /\ reported' = reported \cup {durable \o pending[j]}
    /\ rev' = [rev EXCEPT ![j] = @ + 1]
    /\ Goto(j, "step") /\ Stays
    /\ UNCHANGED <<next, inflight, pending, lock, durable>>

\* The loop is over: commit, RELEASE_LOCK must return 1.
Release(j) ==
    /\ pc[j] = "step" /\ Alive(j)
    /\ rev[j] > HEAD
    /\ Ends(j, IF lock = j THEN 0 ELSE 1)
    /\ lock' = IF lock = j THEN None ELSE lock
    /\ UNCHANGED reported

\* A statement fails, read_timeout passes while the server is still executing
\* it, or the Job is killed: exit code 1 (or none), nothing is undone.
Abort(j) ==
    /\ pc[j] \notin {"new", "done"}
    /\ Ends(j, 1)
    /\ UNCHANGED <<lock, reported>>

\* The two that must happen: no session, or no answer within read_timeout.
NoticeFailure(j) == ~Alive(j) /\ Abort(j)

----------------------------------------------------------------------------
(* The MySQL server *)

Execute(j) ==
    /\ inflight[j] # 0
    /\ inflight' = [inflight EXCEPT ![j] = 0]
    /\ IF Script[inflight[j]].op = "ddl"
       THEN /\ durable' = durable \o pending[j] \o <<inflight[j]>>
            /\ pending' = [pending EXCEPT ![j] = <<>>]
       ELSE /\ pending' = [pending EXCEPT ![j] = Append(@, inflight[j])]
            /\ UNCHANGED durable
    /\ UNCHANGED <<jobVars, session, lock, reported>>

\* The server ends a session, because the client went away or for reasons of
\* its own: rollback, and the lock is free.
EndSession(j) ==
    /\ session[j] \in {"open", "orphan"}
    /\ session' = [session EXCEPT ![j] = "gone"]
    /\ inflight' = [inflight EXCEPT ![j] = 0]
    /\ pending' = [pending EXCEPT ![j] = <<>>]
    /\ lock' = IF lock = j THEN None ELSE lock
    /\ UNCHANGED <<jobVars, durable, reported>>

JobSteps(j) ==
    \/ Connect(j) \/ TakeLock(j) \/ Preflight(j) \/ EnterStep(j) \/ Issue(j)
    \/ CommitStep(j) \/ ReportStep(j) \/ Release(j) \/ NoticeFailure(j)

Next == \E j \in Jobs : JobSteps(j) \/ Abort(j) \/ Execute(j) \/ EndSession(j)

\* A started job keeps going and its reads time out; the server owes nothing,
\* and in particular may keep a dead client's session for as long as it likes.
Spec == Init /\ [][Next]_vars /\ \A j \in Jobs : WF_vars(JobSteps(j))

----------------------------------------------------------------------------
\* Whatever jobs overlap, die or are cut off in the middle of a statement, each
\* statement of the migration takes effect at most once and in order: what a
\* dead job left half done, even after its death, is never run over.
AppliedOnceInOrder == \A i \in 1..Len(durable) : durable[i] = i

\* Two jobs never work on the schema at the same time: not while the session of
\* a dead job still executes or could still be committed to.
Engaged(j) ==
    \/ inflight[j] # 0 \/ pending[j] # <<>>
    \/ session[j] = "open" /\ pc[j] \in {"step", "upgrade", "commit", "report"}
OneWriter == \A j, k \in Jobs : Engaged(j) /\ Engaged(k) => j = k

\* A job that exits with 0 leaves the whole migration behind, committed.
SuccessMeansHead ==
    \A j \in Jobs : result[j] = 0 => Version(durable) = HEAD /\ Len(durable) = Len(Script)

\* A snapshot that was reported as a completed step, and may be approved as a
\* checkpoint, ends a revision and can no longer be rolled back.
ReportsAreDurable ==
    \A s \in reported :
        /\ Script[s[Len(s)]].op = "stamp"
        /\ Len(s) <= Len(durable) /\ SubSeq(durable, 1, Len(s)) = s

\* Every job comes to an end without waiting for another one, even if the
\* server keeps the lock of a job that died.
EveryJobEnds == \A j \in Jobs : <>(pc[j] = "done")

\* Overlapping, dying and reporting jobs together carry out one migration: the
\* schema only ever moves forward along the script, a completed step is reported
\* when it is durable, and success when nothing is left.
Log == INSTANCE MigrationLog WITH
    Length <- Len(Script),
    Checkpoints <- {n \in All : Script[n].op = "stamp"},
    applied <- Len(durable),
    acknowledged <- {Len(s) : s \in reported},
    succeeded <- {j \in Jobs : result[j] = 0}

ImplementsLog == Log!Spec
=============================================================================
