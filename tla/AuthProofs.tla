----------------------------- MODULE AuthProofs -----------------------------
(***************************************************************************)
(* The Auth rollout, for any number of jobs, migrations and bootstraps     *)
(* alike, and every script.  First the migration: the server's advisory    *)
(* lock is enough to keep two jobs from working on the schema, although a  *)
(* job can die while its session goes on executing, and the schema follows *)
(* the script.  Then the rollout around it: the administrator that         *)
(* overlapping jobs agree on, and what is known of the schema when users   *)
(* are created and MLflow is started.                                      *)
(***************************************************************************)
EXTENDS AuthServer, SequenceTheorems, WellFoundedInduction, TLAPS

SessionType ==
    /\ pc \in [Jobs -> {"new", "connected", "locked", "step", "upgrade", "commit",
                        "report", "done"}]
    /\ session \in [Jobs -> {"none", "open", "orphan", "gone"}]
    /\ inflight = [j \in Jobs |-> inflight[j]]
    /\ pending = [j \in Jobs |-> pending[j]]
    /\ lock \in Jobs \cup {None}

\* A session that still executes, holds uncommitted statements, or belongs to a
\* job past the lock is alive at the server and owns the lock; between two
\* revisions nothing is left to commit, so the lock can be given up.
Fence(j) ==
    /\ session[j] = "none" => pc[j] \in {"new", "done"}
    /\ session[j] \in {"none", "gone"} => inflight[j] = 0 /\ pending[j] = <<>>
    /\ pc[j] \in {"new", "connected", "locked", "step", "report"} =>
           inflight[j] = 0 /\ pending[j] = <<>>
    /\ inflight[j] # 0 \/ pending[j] # <<>> => lock = j
    /\ session[j] = "open" /\ pc[j] \in {"locked", "step", "upgrade", "commit", "report"} =>
           lock = j

IInv == SessionType /\ \A j \in Jobs : Fence(j)

LEMMA InitIInv == Init => IInv
  BY ScriptAssumption DEF Init, IInv, SessionType, Fence

\* What one job's step does to its own part of the state, the lock included, is
\* all that matters if the parts of the others stay and the lock was not theirs.
OthersStay(j) ==
    /\ \A k \in Jobs \ {j} :
        /\ pc'[k] = pc[k] /\ session'[k] = session[k]
        /\ inflight'[k] = inflight[k] /\ pending'[k] = pending[k]
    /\ lock' = lock \/ lock \in {j, None}

LEMMA OthersKeepTheirs ==
    ASSUME IInv, NEW j \in Jobs, SessionType', Fence(j)', OthersStay(j)
    PROVE  IInv'
  <1>1. ASSUME NEW k \in Jobs \ {j} PROVE Fence(k)'
    <2>1. Fence(k)
      BY DEF IInv
    <2>2. k # None
      BY ScriptAssumption
    <2> QED BY <2>1, <2>2 DEF Fence, OthersStay
  <1> QED BY <1>1 DEF IInv

\* The steps of the job.
LEMMA JobPreserves ==
    ASSUME IInv, NEW j \in Jobs, JobSteps(j) \/ Abort(j)
    PROVE  IInv'
  <1>0. SessionType /\ Fence(j)
    BY DEF IInv
  <1> USE ScriptAssumption, <1>0 DEF SessionType, Fence, Goto, Ends, Stays, Alive
  <1>1. CASE Connect(j)
    <2>1. SessionType'
      BY <1>1 DEF Connect
    <2>2. Fence(j)'
      BY <1>1 DEF Connect
    <2>3. OthersStay(j)
      BY <1>1 DEF Connect, OthersStay
    <2> QED BY <2>1, <2>2, <2>3, OthersKeepTheirs
  <1>2. CASE TakeLock(j)
    <2>1. SessionType'
      BY <1>2 DEF TakeLock
    <2>2. Fence(j)'
      BY <1>2 DEF TakeLock
    <2>3. OthersStay(j)
      BY <1>2 DEF TakeLock, OthersStay
    <2> QED BY <2>1, <2>2, <2>3, OthersKeepTheirs
  <1>3. CASE Preflight(j)
    <2>1. SessionType'
      BY <1>3 DEF Preflight, Proceed
    <2>2. Fence(j)'
      BY <1>3 DEF Preflight, Proceed
    <2>3. OthersStay(j)
      BY <1>3 DEF Preflight, Proceed, OthersStay
    <2> QED BY <2>1, <2>2, <2>3, OthersKeepTheirs
  <1>4. CASE EnterStep(j)
    <2>1. SessionType'
      BY <1>4 DEF EnterStep
    <2>2. Fence(j)'
      BY <1>4 DEF EnterStep
    <2>3. OthersStay(j)
      BY <1>4 DEF EnterStep, OthersStay
    <2> QED BY <2>1, <2>2, <2>3, OthersKeepTheirs
  <1>5. CASE Issue(j)
    <2>1. SessionType'
      BY <1>5 DEF Issue
    <2>2. Fence(j)'
      BY <1>5 DEF Issue
    <2>3. OthersStay(j)
      BY <1>5 DEF Issue, OthersStay
    <2> QED BY <2>1, <2>2, <2>3, OthersKeepTheirs
  <1>6. CASE CommitStep(j)
    <2>1. SessionType'
      BY <1>6 DEF CommitStep, Commit
    <2>2. Fence(j)'
      BY <1>6 DEF CommitStep, Commit
    <2>3. OthersStay(j)
      BY <1>6 DEF CommitStep, Commit, OthersStay
    <2> QED BY <2>1, <2>2, <2>3, OthersKeepTheirs
  <1>7. CASE ReportStep(j)
    <2>1. SessionType'
      BY <1>7 DEF ReportStep
    <2>2. Fence(j)'
      BY <1>7 DEF ReportStep
    <2>3. OthersStay(j)
      BY <1>7 DEF ReportStep, OthersStay
    <2> QED BY <2>1, <2>2, <2>3, OthersKeepTheirs
  <1>8. CASE Release(j)
    <2>1. SessionType'
      BY <1>8 DEF Release
    <2>2. Fence(j)'
      BY <1>8 DEF Release
    <2>3. OthersStay(j)
      BY <1>8 DEF Release, OthersStay
    <2> QED BY <2>1, <2>2, <2>3, OthersKeepTheirs
  <1>9. CASE Abort(j)
    <2>1. SessionType'
      BY <1>9 DEF Abort
    <2>2. Fence(j)'
      BY <1>9 DEF Abort
    <2>3. OthersStay(j)
      BY <1>9 DEF Abort, OthersStay
    <2> QED BY <2>1, <2>2, <2>3, OthersKeepTheirs
  <1> QED
    BY <1>1, <1>2, <1>3, <1>4, <1>5, <1>6, <1>7, <1>8, <1>9 DEF JobSteps, NoticeFailure

\* The steps of the server: executing a statement keeps the session's lock, and
\* ending the session rolls back whatever the lock protected.
LEMMA ServerPreserves ==
    ASSUME IInv, NEW j \in Jobs, Execute(j) \/ EndSession(j)
    PROVE  IInv'
  <1>0. SessionType /\ Fence(j)
    BY DEF IInv
  <1> USE ScriptAssumption, <1>0 DEF SessionType, Fence, jobVars
  <1>1. CASE Execute(j)
    <2>1. SessionType'
      BY <1>1 DEF Execute
    <2>2. Fence(j)'
      BY <1>1 DEF Execute
    <2>3. OthersStay(j)
      BY <1>1 DEF Execute, OthersStay
    <2> QED BY <2>1, <2>2, <2>3, OthersKeepTheirs
  <1>2. CASE EndSession(j)
    <2>1. SessionType'
      BY <1>2 DEF EndSession
    <2>2. Fence(j)'
      BY <1>2 DEF EndSession
    <2>3. OthersStay(j)
      BY <1>2 DEF EndSession, OthersStay
    <2> QED BY <2>1, <2>2, <2>3, OthersKeepTheirs
  <1> QED BY <1>1, <1>2

\* fenced_migration.py, GET_LOCK and the single session: the fence holds in
\* every reachable state.
THEOREM FenceHolds == Spec => []IInv
  <1>1. Init => IInv
    BY InitIInv
  <1>2. IInv /\ [Next]_vars => IInv'
    <2> SUFFICES ASSUME IInv, [Next]_vars PROVE IInv'
      OBVIOUS
    <2>1. CASE UNCHANGED vars
      BY <2>1 DEF vars, jobVars, serverVars, IInv, SessionType, Fence
    <2> QED BY <2>1, JobPreserves, ServerPreserves DEF Next
  <1> QED BY <1>1, <1>2, PTL DEF Spec

\* fenced_migration.py: two jobs are never engaged in the schema together.
THEOREM SingleWriter == Spec => []OneWriter
  <1>1. IInv => OneWriter
    <2> SUFFICES ASSUME IInv, NEW j \in Jobs, NEW k \in Jobs, Engaged(j), Engaged(k)
                 PROVE  j = k
      BY DEF OneWriter
    <2>1. lock = j /\ lock = k
      BY DEF IInv, Fence, Engaged
    <2> QED BY <2>1
  <1> QED BY <1>1, FenceHolds, PTL
----------------------------------------------------------------------------
(* The order of the statements *)

\* What alembic would run next in a schema that the first n statements made is
\* revision r, from its first statement on.
NextIs(n, r) ==
    \/ n = 0 /\ r = 1
    \/ n \in All /\ Script[n].op = "stamp" /\ r = Script[n].rev + 1

StampOf(n, r) == n \in All /\ Script[n] = [rev |-> r, op |-> "stamp"]

\* The last statement that job j has executed or is executing.
Position(j) == Len(durable) + Len(pending[j]) + IF inflight[j] = 0 THEN 0 ELSE 1

OrderType ==
    /\ durable \in Seq(Nat) /\ pending \in [Jobs -> Seq(Nat)]
    /\ inflight \in [Jobs -> Nat]
    /\ rev \in [Jobs -> Nat] /\ next \in [Jobs -> Nat]
    /\ result \in [Jobs -> {None, 0, 1, 20, 30}]

\* The statements of a job continue those that are durable, and where its loop
\* stands tells which of them come next.
Order(j) ==
    /\ \A i \in 1..Len(pending[j]) : pending[j][i] = Len(durable) + i
    /\ inflight[j] # 0 => inflight[j] = Len(durable) + Len(pending[j]) + 1
    /\ Position(j) <= Len(Script)
    /\ session[j] = "open" =>
        /\ pc[j] = "step" => NextIs(Len(durable), rev[j])
        /\ pc[j] = "upgrade" => /\ next[j] = Position(j) + 1 /\ next[j] \in All
                                /\ Script[next[j]].rev = rev[j]
        /\ pc[j] = "commit" => StampOf(Position(j), rev[j])
        /\ pc[j] = "report" => StampOf(Len(durable), rev[j])
    /\ result[j] = 0 => Len(durable) = Len(Script)

\* Durable and reported states are what the script makes, one after the other.
StateInv ==
    /\ AppliedOnceInOrder /\ Len(durable) <= Len(Script)
    /\ \A s \in reported :
        /\ s \in Seq(Nat) /\ Len(s) \in All /\ Len(s) <= Len(durable)
        /\ Script[Len(s)].op = "stamp"
        /\ \A i \in 1..Len(s) : s[i] = i

OrderInv == IInv /\ OrderType /\ StateInv /\ \A j \in Jobs : Order(j)

----------------------------------------------------------------------------
(* The script *)

LEMMA StatementShape ==
    \A n \in All : /\ Script[n].rev \in 1..Len(Script)
                   /\ Script[n] = [rev |-> Script[n].rev, op |-> Script[n].op]
  <1> DEFINE Statements == [rev : 1..Len(Script), op : {"ddl", "dml", "stamp"}]
  <1>1. Script \in Seq(Statements)
    BY ScriptAssumption
  <1>2. \A x \in Statements : x.rev \in 1..Len(Script) /\ x = [rev |-> x.rev, op |-> x.op]
    OBVIOUS
  <1> HIDE DEF Statements
  <1>3. \A n \in All : Script[n] \in Statements
    BY <1>1 DEF All
  <1> QED BY <1>2, <1>3

LEMMA ScriptFacts ==
    /\ Len(Script) \in Nat \ {0} /\ HEAD \in Nat \ {0}
    /\ \A n \in All : Script[n].rev \in Nat \ {0}
  <1>1. Len(Script) \in Nat \ {0}
    BY ScriptAssumption
  <1>2. \A n \in All : Script[n].rev \in Nat \ {0}
    <2>1. \A n \in All : Script[n].rev \in 1..Len(Script)
      BY StatementShape, Zenon
    <2> QED BY <1>1, <2>1
  <1>3. Len(Script) \in All
    BY <1>1 DEF All
  <1> QED BY <1>1, <1>2, <1>3 DEF HEAD

\* The first statement of a revision follows the stamp of the one before.
LEMMA FirstOfRevision ==
    ASSUME NEW n \in Nat, n <= Len(Script), NEW r \in Nat, NextIs(n, r), r <= HEAD
    PROVE  n + 1 \in All /\ Script[n + 1].rev = r /\ First(r) = n + 1
  <1>1. n + 1 \in All
    BY ScriptFacts DEF NextIs, HEAD, All
  <1>2. Script[n + 1].rev = r
    <2>1. CASE n = 0 /\ r = 1
      BY <2>1, LineAssumption
    <2>2. CASE n \in All /\ Script[n].op = "stamp" /\ r = Script[n].rev + 1
      <3>1. n \in 1..(Len(Script) - 1)
        BY <1>1, <2>2, ScriptFacts DEF All
      <3> QED BY <2>2, <3>1, LineAssumption
    <2> QED BY <2>1, <2>2 DEF NextIs
  <1>3. \A m \in All : Script[m].rev = r => n + 1 <= m
    <2> SUFFICES ASSUME NEW m \in All, Script[m].rev = r, m <= n PROVE FALSE
      BY DEF All
    <2>1. n \in All /\ r = Script[n].rev + 1
      BY DEF NextIs, All
    <2>2. Script[m].rev <= Script[n].rev
      BY <2>1, ScriptFacts, LineAssumption DEF All
    <2> QED BY <2>1, <2>2, ScriptFacts
  <1>4. ASSUME NEW k \in All, Script[k].rev = r,
               \A m \in All : Script[m].rev = r => k <= m
        PROVE  k = n + 1
    BY <1>1, <1>2, <1>3, <1>4 DEF All
  <1> QED BY <1>1, <1>2, <1>3, <1>4 DEF First

\* The version table of a schema that whole revisions made.
LEMMA VersionOfRevisions ==
    ASSUME NEW s \in Seq(Nat), \A i \in 1..Len(s) : s[i] = i, Len(s) <= Len(Script),
           NEW r, NextIs(Len(s), r)
    PROVE  Version(s) \in Nat /\ Version(s) + 1 = r
  <1> DEFINE stamped == {Script[s[i]].rev :
                            i \in {n \in 1..Len(s) : Script[s[n]].op = "stamp"}}
  <1>1. Version(s) = IF stamped = {} THEN 0
                     ELSE CHOOSE v \in stamped : \A w \in stamped : w <= v
    BY DEF Version
  <1>2. CASE Len(s) = 0
    <2>1. r = 1
      BY <1>2 DEF NextIs, All
    <2>2. stamped = {}
      BY <1>2
    <2> QED BY <1>1, <2>1, <2>2
  <1>3. CASE Len(s) # 0
    <2>1. /\ Len(s) \in All /\ Script[Len(s)].op = "stamp" /\ r = Script[Len(s)].rev + 1
          /\ Script[Len(s)].rev \in Nat
      BY <1>3, ScriptFacts DEF NextIs
    <2>2. Len(s) \in 1..Len(s) /\ s[Len(s)] = Len(s)
      BY <1>3
    <2>3. Script[Len(s)].rev \in stamped
      BY <2>1, <2>2
    <2>4. ASSUME NEW w \in stamped PROVE w \in Nat /\ w <= Script[Len(s)].rev
      <3>1. PICK i \in 1..Len(s) : w = Script[i].rev
        OBVIOUS
      <3>2. i \in All /\ (i < Len(s) \/ i = Len(s))
        BY <3>1 DEF All
      <3> QED BY <2>1, <3>1, <3>2, ScriptFacts, LineAssumption
    <2> HIDE DEF stamped
    <2>5. (CHOOSE v \in stamped : \A w \in stamped : w <= v) = Script[Len(s)].rev
      <3>1. ASSUME NEW v \in stamped, \A w \in stamped : w <= v
            PROVE  v = Script[Len(s)].rev
        BY <2>1, <2>3, <2>4, <3>1
      <3> QED BY <2>3, <2>4, <3>1
    <2> QED BY <1>1, <2>1, <2>3, <2>5
  <1> QED BY <1>2, <1>3

LEMMA Concatenation ==
    ASSUME NEW s \in Seq(Nat), NEW t \in Seq(Nat),
           \A i \in 1..Len(s) : s[i] = i, \A i \in 1..Len(t) : t[i] = Len(s) + i
    PROVE  /\ s \o t \in Seq(Nat) /\ Len(s \o t) = Len(s) + Len(t)
           /\ \A i \in 1..Len(s \o t) : (s \o t)[i] = i
  <1>1. /\ s \o t \in Seq(Nat) /\ Len(s \o t) = Len(s) + Len(t)
        /\ \A i \in 1..(Len(s) + Len(t)) :
               (s \o t)[i] = IF i <= Len(s) THEN s[i] ELSE t[i - Len(s)]
    OBVIOUS
  <1>2. ASSUME NEW i \in 1..(Len(s) + Len(t)) PROVE (s \o t)[i] = i
    <2>1. CASE i <= Len(s)
      BY <1>1, <2>1
    <2>2. CASE i > Len(s)
      <3>1. i - Len(s) \in 1..Len(t)
        BY <2>2
      <3> QED BY <1>1, <2>2, <3>1
    <2> QED BY <2>1, <2>2
  <1> QED BY <1>1, <1>2

----------------------------------------------------------------------------
(* Every step keeps the order *)

LEMMA InitOrder == Init => OrderInv
  <1> SUFFICES ASSUME Init PROVE OrderInv
    OBVIOUS
  <1>1. /\ durable \in Seq(Nat) /\ Len(durable) <= Len(Script)
        /\ \A i \in 1..Len(durable) : durable[i] = i
    <2>1. CASE durable = <<>>
      BY <2>1, ScriptFacts
    <2>2. CASE durable \in Approved
      <3>1. PICK n \in All : durable = [i \in 1..n |-> i]
        BY <2>2, CheckpointAssumption
      <3>2. n \in Nat /\ n <= Len(Script)
        BY ScriptFacts DEF All
      <3>3. durable \in Seq(Nat) /\ Len(durable) = n
        BY <3>1, <3>2
      <3> QED BY <3>1, <3>2, <3>3
    <2> QED BY <2>1, <2>2 DEF Init
  <1>2. OrderType
    BY <1>1 DEF Init, OrderType
  <1>3. StateInv
    BY <1>1 DEF Init, StateInv, AppliedOnceInOrder
  <1>4. ASSUME NEW j \in Jobs PROVE Order(j)
    BY <1>1, ScriptAssumption DEF Init, Order, Position
  <1> QED BY <1>2, <1>3, <1>4, InitIInv DEF OrderInv

\* A step of job j or its session leaves the order of the others alone: if it
\* makes statements durable it holds the lock, and the others are at rest.
RestStays(j) ==
    /\ \A k \in Jobs \ {j} :
        /\ pc'[k] = pc[k] /\ session'[k] = session[k]
        /\ inflight'[k] = inflight[k] /\ pending'[k] = pending[k]
        /\ rev'[k] = rev[k] /\ next'[k] = next[k] /\ result'[k] = result[k]
    /\ durable' = durable \/ lock = j
    /\ Len(durable) <= Len(durable')

LEMMA OthersKeepOrder ==
    ASSUME OrderInv, NEW j \in Jobs, IInv', OrderType', StateInv', Order(j)', RestStays(j)
    PROVE  OrderInv'
  <1>1. ASSUME NEW k \in Jobs \ {j} PROVE Order(k)'
    <2>1. /\ pc'[k] = pc[k] /\ session'[k] = session[k]
          /\ inflight'[k] = inflight[k] /\ pending'[k] = pending[k]
          /\ rev'[k] = rev[k] /\ next'[k] = next[k] /\ result'[k] = result[k]
      BY DEF RestStays
    <2>2. Order(k) /\ Fence(k) /\ k # j
      BY DEF OrderInv, IInv
    <2>3. CASE durable' = durable
      BY <2>1, <2>2, <2>3 DEF Order, Position
    <2>4. CASE lock = j
      <3>1. inflight[k] = 0 /\ pending[k] = <<>>
        BY <2>2, <2>4 DEF Fence
      <3>2. session[k] = "open" => pc[k] \notin {"step", "upgrade", "commit", "report"}
        BY <2>2, <2>4 DEF Fence
      <3>3. /\ Len(durable) \in Nat /\ Len(durable)' \in Nat /\ Len(Script) \in Nat
            /\ Len(durable) <= Len(durable)' /\ Len(durable)' <= Len(Script)
        BY ScriptFacts DEF OrderInv, OrderType, StateInv, RestStays
      <3>4. result'[k] = 0 => Len(durable)' = Len(Script)
        BY <2>1, <2>2, <3>3 DEF Order
      <3>5. Len(pending[k]) = 0
        BY <3>1
      <3> QED BY <2>1, <3>1, <3>2, <3>3, <3>4, <3>5 DEF Order, Position
    <2> QED BY <2>3, <2>4 DEF RestStays
  <1> QED BY <1>1 DEF OrderInv

LEMMA FenceStep == IInv /\ [Next]_vars => IInv'
  <1> SUFFICES ASSUME IInv, [Next]_vars PROVE IInv'
    OBVIOUS
  <1>1. CASE UNCHANGED vars
    BY <1>1 DEF vars, jobVars, serverVars, IInv, SessionType, Fence
  <1> QED BY <1>1, JobPreserves, ServerPreserves DEF Next

\* Steps of a job that leave the tables as they are.
LEMMA JobKeepsOrder ==
    ASSUME OrderInv, IInv', NEW j \in Jobs,
           Connect(j) \/ TakeLock(j) \/ Preflight(j) \/ EnterStep(j) \/ Issue(j)
               \/ ReportStep(j) \/ Release(j) \/ Abort(j)
    PROVE  OrderInv'
  <1>0. OrderType /\ StateInv /\ Order(j) /\ Fence(j) /\ SessionType
    BY DEF OrderInv, IInv
  <1>a. /\ Len(durable) \in Nat /\ Len(pending[j]) \in Nat /\ inflight[j] \in Nat
        /\ Len(Script) \in Nat
    BY <1>0, ScriptFacts DEF OrderType
  <1> USE <1>0 DEF SessionType, OrderType, Goto, Ends, Stays, Alive
  <1>b. ASSUME durable' = durable, reported' = reported PROVE StateInv'
    BY <1>b DEF StateInv, AppliedOnceInOrder
  <1>e. ASSUME NEW c \in {1, 20, 30}, Ends(j, c), reported' = reported PROVE OrderInv'
    <2>1. /\ pc'[j] = "done" /\ result'[j] = c /\ session'[j] # "open"
          /\ UNCHANGED <<rev, next, inflight, pending, durable>>
      BY <1>e
    <2>2. OrderType' /\ StateInv'
      BY <1>b, <1>e
    <2>3. RestStays(j)
      BY <1>a, <1>e DEF RestStays
    <2>4. Order(j)'
      <3>1. /\ pending'[j] = pending[j] /\ inflight'[j] = inflight[j]
            /\ Position(j)' = Position(j)
        BY <2>1 DEF Position
      <3>2. result'[j] # 0
        BY <2>1
      <3> QED BY ONLY <1>0, <2>1, <3>1, <3>2 DEF Order
    <2> QED BY <2>2, <2>3, <2>4, OthersKeepOrder
  <1>1. CASE Connect(j)
    <2>1. OrderType' /\ StateInv' /\ RestStays(j)
      BY <1>1, <1>a, <1>b DEF Connect, RestStays
    <2>2. Order(j)'
      BY <1>1 DEF Connect, Order, Position
    <2> QED BY <2>1, <2>2, OthersKeepOrder
  <1>2. CASE TakeLock(j)
    <2>1. CASE Ends(j, 20)
      BY <1>2, <1>e, <2>1 DEF TakeLock
    <2>2. CASE /\ pc' = [pc EXCEPT ![j] = "locked"]
               /\ UNCHANGED <<result, session, rev, next, inflight, pending, durable, reported>>
      <3>1. OrderType' /\ StateInv' /\ RestStays(j)
        BY <1>a, <1>b, <2>2 DEF RestStays
      <3>2. Order(j)'
        BY <2>2 DEF Order, Position
      <3> QED BY <3>1, <3>2, OthersKeepOrder
    <2> QED BY <1>2, <2>1, <2>2 DEF TakeLock
  <1>3. CASE Preflight(j)
    <2>1. CASE Proceed(j) /\ (durable = <<>> \/ durable \in Approved)
      <3>1. NextIs(Len(durable), Version(durable) + 1) /\ Version(durable) + 1 \in Nat
        <4>1. PICK r \in Nat : NextIs(Len(durable), r)
          <5>1. CASE durable = <<>>
            BY <5>1 DEF NextIs
          <5>2. CASE durable \in Approved
            <6>1. PICK n \in All : durable = [i \in 1..n |-> i] /\ Script[n].op = "stamp"
              BY <5>2, CheckpointAssumption
            <6>2. Len(durable) = n
              BY <6>1, ScriptFacts DEF All
            <6>3. Script[n].rev + 1 \in Nat
              BY ScriptFacts
            <6> QED BY <6>1, <6>2, <6>3 DEF NextIs
          <5> QED BY <2>1, <5>1, <5>2
        <4>2. Version(durable) + 1 = r
          BY <4>1, VersionOfRevisions DEF StateInv, AppliedOnceInOrder
        <4> QED BY <4>1, <4>2
      <3>2. OrderType' /\ StateInv' /\ RestStays(j)
        BY <1>3, <1>a, <1>b, <2>1, <3>1 DEF Preflight, Proceed, RestStays
      <3>3. Order(j)'
        BY <1>3, <2>1, <3>1 DEF Preflight, Proceed, Order, Position
      <3> QED BY <3>2, <3>3, OthersKeepOrder
    <2>2. CASE Ends(j, 1) \/ Ends(j, 30)
      BY <1>3, <1>e, <2>2 DEF Preflight
    <2> QED BY <1>3, <2>1, <2>2 DEF Preflight
  <1>4. CASE EnterStep(j)
    <2>1. CASE lock # j
      BY <1>4, <1>e, <2>1 DEF EnterStep
    <2>2. CASE lock = j
      <3>1. NextIs(Len(durable), rev[j]) /\ rev[j] \in Nat /\ rev[j] <= HEAD
        BY <1>4 DEF EnterStep, Order
      <3>2. Version(durable) \in Nat /\ Version(durable) + 1 = rev[j]
        BY <3>1, VersionOfRevisions DEF StateInv, AppliedOnceInOrder
      <3>3. /\ Len(durable) + 1 \in All /\ Script[Len(durable) + 1].rev = rev[j]
            /\ First(rev[j]) = Len(durable) + 1
        BY <1>a, <3>1, FirstOfRevision DEF StateInv
      <3>4. /\ pc' = [pc EXCEPT ![j] = "upgrade"]
            /\ next' = [next EXCEPT ![j] = Len(durable) + 1]
            /\ UNCHANGED <<result, session, rev, inflight, pending, durable, reported>>
        <4>1. ~(Version(durable) >= rev[j])
          BY <3>1, <3>2
        <4> QED BY <1>4, <2>2, <3>2, <3>3, <4>1 DEF EnterStep
      <3>5. OrderType' /\ StateInv' /\ RestStays(j)
        BY <1>a, <1>b, <3>4 DEF RestStays
      <3>6. inflight[j] = 0 /\ Len(pending[j]) = 0
        BY <1>4 DEF EnterStep, Fence
      <3>7. Order(j)'
        BY <1>a, <3>3, <3>4, <3>6 DEF Order, Position
      <3> QED BY <3>5, <3>7, OthersKeepOrder
    <2> QED BY <2>1, <2>2
  <1>5. CASE Issue(j)
    <2>1. CASE lock # j
      BY <1>5, <1>e, <2>1 DEF Issue
    <2>2. CASE lock = j
      <3> DEFINE n == next[j]
      <3>1. /\ n = Len(durable) + Len(pending[j]) + 1 /\ n \in All /\ Script[n].rev = rev[j]
            /\ n # 0 /\ n \in Nat
        BY <1>5, <1>a DEF Issue, Order, Position, All
      <3>2. /\ inflight' = [inflight EXCEPT ![j] = n] /\ next' = [next EXCEPT ![j] = n + 1]
            /\ pc' = [pc EXCEPT ![j] = IF Script[n] = [rev |-> rev[j], op |-> "stamp"]
                                       THEN "commit" ELSE "upgrade"]
            /\ UNCHANGED <<result, session, rev, pending, durable, reported>>
        BY <1>5, <2>2 DEF Issue
      <3>3. OrderType' /\ StateInv' /\ RestStays(j)
        BY <1>a, <1>b, <3>1, <3>2 DEF RestStays
      <3>4. Position(j)' = n
        BY <1>a, <3>1, <3>2 DEF Position
      <3>5. Script[n] # [rev |-> rev[j], op |-> "stamp"] =>
                n + 1 \in All /\ Script[n + 1].rev = rev[j]
        <4> SUFFICES ASSUME Script[n] # [rev |-> rev[j], op |-> "stamp"]
                     PROVE  n + 1 \in All /\ Script[n + 1].rev = rev[j]
          OBVIOUS
        <4>1. Script[n].op # "stamp"
          BY <3>1, StatementShape
        <4>2. n \in 1..(Len(Script) - 1)
          BY <3>1, <4>1, LineAssumption, ScriptFacts DEF All
        <4>3. Script[n + 1].rev = Script[n].rev + 0
          BY <4>1, <4>2, LineAssumption
        <4> QED BY <3>1, <4>2, <4>3, ScriptFacts DEF All
      <3>6. n <= Len(Script)
        BY <3>1 DEF All
      <3> HIDE DEF n
      <3>7. Order(j)'
        <4>1. pc'[j] = "commit" => StampOf(n, rev[j])
          BY <3>1, <3>2 DEF StampOf
        <4>2. pc'[j] = "upgrade" => n + 1 \in All /\ Script[n + 1].rev = rev[j]
          BY <3>2, <3>5
        <4>3. /\ pc'[j] \in {"commit", "upgrade"} /\ next'[j] = n + 1 /\ inflight'[j] = n
              /\ durable' = durable /\ pending' = pending /\ rev'[j] = rev[j]
              /\ result' = result
          BY <3>2
        <4> QED BY <3>1, <3>4, <3>6, <4>1, <4>2, <4>3 DEF Order
      <3> QED BY <3>3, <3>7, OthersKeepOrder
    <2> QED BY <2>1, <2>2
  <1>6. CASE ReportStep(j)
    <2>1. inflight[j] = 0 /\ pending[j] = <<>> /\ StampOf(Len(durable), rev[j])
      BY <1>6 DEF ReportStep, Fence, Order
    <2>2. durable \o pending[j] = durable
      BY <2>1
    <2>3. StateInv'
      <3>1. durable' = durable /\ reported' = reported \cup {durable}
        BY <1>6, <2>2 DEF ReportStep
      <3>2. Len(durable) \in All /\ Script[Len(durable)].op = "stamp"
        BY <2>1 DEF StampOf
      <3>3. AppliedOnceInOrder /\ durable \in Seq(Nat)
        BY ONLY <1>0 DEF StateInv, OrderType
      <3>4. \A i \in 1..Len(durable) : durable[i] = i
        BY <3>3 DEF AppliedOnceInOrder
      <3>5. AppliedOnceInOrder' /\ Len(durable') <= Len(Script)
        BY ONLY <1>0, <3>1 DEF StateInv, AppliedOnceInOrder
      <3>6. \A s \in reported :
               /\ s \in Seq(Nat) /\ Len(s) \in All /\ Len(s) <= Len(durable)
               /\ Script[Len(s)].op = "stamp"
               /\ \A i \in 1..Len(s) : s[i] = i
        BY ONLY <1>0 DEF StateInv
      <3> QED BY ONLY <1>a, <3>1, <3>2, <3>3, <3>4, <3>5, <3>6 DEF StateInv
    <2>4. OrderType' /\ RestStays(j)
      BY <1>6, <1>a DEF ReportStep, RestStays
    <2>5. NextIs(Len(durable), rev[j] + 1)
      BY <2>1 DEF NextIs, StampOf
    <2>6. Order(j)'
      BY <1>6, <2>1, <2>5 DEF ReportStep, Order, Position
    <2> QED BY <2>3, <2>4, <2>6, OthersKeepOrder
  <1>7. CASE Release(j)
    <2>1. NextIs(Len(durable), rev[j]) /\ rev[j] > HEAD /\ rev[j] \in Nat
      BY <1>7 DEF Release, Order
    <2>2. Len(durable) = Len(Script)
      <3>1. /\ Len(durable) \in All /\ Script[Len(durable)].op = "stamp"
            /\ Script[Len(durable)].rev >= HEAD
        BY <2>1, ScriptFacts DEF NextIs
      <3>2. Len(Script) \in All
        BY ScriptFacts DEF All
      <3>3. ~(Len(durable) < Len(Script))
        BY <3>1, <3>2, LineAssumption, ScriptFacts DEF HEAD
      <3> QED BY <1>a, <3>1, <3>3 DEF All
    <2>3. OrderType' /\ StateInv' /\ RestStays(j)
      BY <1>7, <1>a, <1>b DEF Release, RestStays
    <2>4. Order(j)'
      BY <1>7, <2>2 DEF Release, Order, Position
    <2> QED BY <2>3, <2>4, OthersKeepOrder
  <1>8. CASE Abort(j)
    BY <1>8, <1>e DEF Abort
  <1> QED BY <1>1, <1>2, <1>3, <1>4, <1>5, <1>6, <1>7, <1>8

\* Steps that make statements durable, or end them.
LEMMA TablesKeepOrder ==
    ASSUME OrderInv, IInv', NEW j \in Jobs, CommitStep(j) \/ Execute(j) \/ EndSession(j)
    PROVE  OrderInv'
  <1>0. OrderType /\ StateInv /\ Order(j) /\ Fence(j) /\ SessionType
    BY DEF OrderInv, IInv
  <1>a. /\ Len(durable) \in Nat /\ Len(pending[j]) \in Nat /\ inflight[j] \in Nat
        /\ Len(Script) \in Nat /\ durable \in Seq(Nat) /\ pending[j] \in Seq(Nat)
    BY <1>0, ScriptFacts DEF OrderType
  <1> USE <1>0 DEF SessionType
  <1>b. ASSUME durable' \in Seq(Nat), Len(durable') <= Len(Script),
               Len(durable) <= Len(durable'), \A i \in 1..Len(durable') : durable'[i] = i,
               reported' = reported
        PROVE  StateInv'
    <2>1. \A s \in reported : Len(s) \in Nat /\ Len(s) <= Len(durable')
      BY <1>a, <1>b DEF StateInv, All
    <2> QED BY <1>b, <2>1 DEF StateInv, AppliedOnceInOrder
  <1>c. /\ durable \o pending[j] \in Seq(Nat)
        /\ Len(durable \o pending[j]) = Len(durable) + Len(pending[j])
        /\ \A i \in 1..Len(durable \o pending[j]) : (durable \o pending[j])[i] = i
    BY <1>a, Concatenation DEF Order, StateInv, AppliedOnceInOrder
  <1>1. CASE CommitStep(j)
    <2>1. /\ inflight[j] = 0 /\ durable' = durable \o pending[j]
          /\ pending' = [pending EXCEPT ![j] = <<>>]
          /\ pc' = [pc EXCEPT ![j] = "report"]
          /\ StampOf(Len(durable) + Len(pending[j]), rev[j]) \/ session[j] # "open"
          /\ UNCHANGED <<result, session, rev, next, inflight, reported>>
      BY <1>1, <1>a DEF CommitStep, Commit, Alive, Goto, Stays, Order, Position
    <2>2. lock = j
      BY <1>1 DEF CommitStep, Alive, Fence
    <2>3. Len(durable') <= Len(Script) /\ Len(durable) <= Len(durable')
      BY <1>a, <1>c, <2>1 DEF Order, Position
    <2>4. StateInv'
      BY <1>b, <1>c, <2>1, <2>3
    <2>5. OrderType' /\ RestStays(j)
      BY <1>c, <2>1, <2>2, <2>3 DEF OrderType, RestStays
    <2>6. Order(j)'
      <3>1. pending'[j] = <<>> /\ inflight'[j] = 0 /\ Len(durable') = Len(durable) + Len(pending[j])
        BY <1>c, <2>1 DEF OrderType
      <3>2. pc'[j] = "report" /\ (session'[j] = "open" => StampOf(Len(durable'), rev'[j]))
        BY <2>1, <3>1
      <3>3. result'[j] = 0 => Len(durable') = Len(Script)
        BY <1>a, <2>1, <2>3 DEF Order
      <3>4. Len(durable') \in Nat /\ Len(pending'[j]) = 0
        BY <1>a, <3>1
      <3> QED BY <2>3, <3>1, <3>2, <3>3, <3>4 DEF Order, Position
    <2> QED BY <2>4, <2>5, <2>6, OthersKeepOrder
  <1>2. CASE Execute(j)
    <2> DEFINE n == inflight[j]
    <2>1. /\ n = Len(durable) + Len(pending[j]) + 1 /\ n \in Nat /\ n # 0
          /\ n <= Len(Script) /\ inflight' = [inflight EXCEPT ![j] = 0]
          /\ UNCHANGED <<pc, result, rev, next, session, reported>>
      BY <1>2, <1>a DEF Execute, jobVars, Order, Position
    <2>2. /\ lock = j
          /\ pc[j] \notin {"new", "connected", "locked", "step", "report"}
      BY <2>1 DEF Fence
    <2>3. Position(j) = n
      BY <1>a, <2>1 DEF Position
    <2>4. CASE Script[n].op = "ddl"
      <3>1. /\ durable' = durable \o pending[j] \o <<n>>
            /\ pending' = [pending EXCEPT ![j] = <<>>]
        BY <1>2, <2>4 DEF Execute
      <3>2. <<n>> \in Seq(Nat) /\ Len(<<n>>) = 1 /\ <<n>>[1] = n
        BY <2>1
      <3>3. \A i \in 1..Len(<<n>>) : <<n>>[i] = Len(durable \o pending[j]) + i
        BY <1>a, <1>c, <2>1, <3>2
      <3>4. /\ durable' \in Seq(Nat) /\ Len(durable') = n
            /\ \A i \in 1..Len(durable') : durable'[i] = i
        <4>1. /\ (durable \o pending[j]) \o <<n>> \in Seq(Nat)
              /\ Len((durable \o pending[j]) \o <<n>>) = Len(durable \o pending[j]) + Len(<<n>>)
              /\ \A i \in 1..Len((durable \o pending[j]) \o <<n>>) :
                     ((durable \o pending[j]) \o <<n>>)[i] = i
          BY <1>c, <3>2, <3>3, Concatenation
        <4> HIDE DEF n
        <4> QED BY <1>c, <2>1, <3>1, <3>2, <4>1
      <3> HIDE DEF n
      <3>5. Len(durable) <= Len(durable') /\ Len(durable') <= Len(Script)
        BY <1>a, <2>1, <3>4
      <3>6. StateInv'
        BY <1>b, <2>1, <3>4, <3>5
      <3>7. OrderType' /\ RestStays(j)
        BY <2>1, <2>2, <3>1, <3>4, <3>5 DEF OrderType, RestStays
      <3>8. /\ pending'[j] = <<>> /\ Len(pending'[j]) = 0 /\ inflight'[j] = 0
            /\ Position(j)' = n
        BY <2>1, <3>1, <3>4 DEF OrderType, Position
      <3>9. result'[j] = 0 => Len(durable') = Len(Script)
        BY <1>a, <2>1, <3>5 DEF Order
      <3> QED
        <4>1. Order(j)'
          BY <2>1, <2>2, <2>3, <3>8, <3>9 DEF Order
        <4> QED BY <3>6, <3>7, <4>1, OthersKeepOrder
    <2>5. CASE Script[n].op # "ddl"
      <3>1. pending' = [pending EXCEPT ![j] = Append(pending[j], n)] /\ durable' = durable
        BY <1>2, <2>5 DEF Execute
      <3>2. /\ pending'[j] = Append(pending[j], n)
            /\ Append(pending[j], n) \in Seq(Nat)
            /\ Len(Append(pending[j], n)) = Len(pending[j]) + 1
            /\ \A i \in 1..(Len(pending[j]) + 1) :
                   Append(pending[j], n)[i] = IF i <= Len(pending[j]) THEN pending[j][i] ELSE n
        BY <1>a, <2>1, <3>1 DEF OrderType
      <3> HIDE DEF n
      <3>3. StateInv'
        BY <2>1, <3>1 DEF StateInv, AppliedOnceInOrder
      <3>4. OrderType' /\ RestStays(j)
        BY <1>a, <2>1, <3>1, <3>2 DEF OrderType, RestStays
      <3>5. ASSUME NEW i \in 1..Len(pending'[j]) PROVE pending'[j][i] = Len(durable') + i
        <4>1. i \in 1..(Len(pending[j]) + 1)
          BY <3>2
        <4>2. CASE i <= Len(pending[j])
          <5>1. pending[j][i] = Len(durable) + i
            BY <1>a, <4>1, <4>2 DEF Order
          <5> QED BY <3>1, <3>2, <4>1, <4>2, <5>1
        <4>3. CASE i = Len(pending[j]) + 1
          <5>1. pending'[j][i] = n
            BY <1>a, <3>2, <4>1, <4>3
          <5> QED BY <1>a, <2>1, <3>1, <4>3, <5>1
        <4> QED BY <1>a, <4>1, <4>2, <4>3
      <3>6. inflight'[j] = 0 /\ Position(j)' = n
        BY <1>a, <2>1, <3>1, <3>2 DEF OrderType, Position
      <3>7. Order(j)'
        BY <2>1, <2>2, <2>3, <3>1, <3>5, <3>6 DEF Order
      <3> QED BY <3>3, <3>4, <3>7, OthersKeepOrder
    <2> QED BY <2>4, <2>5
  <1>3. CASE EndSession(j)
    <2>1. /\ inflight' = [inflight EXCEPT ![j] = 0] /\ pending' = [pending EXCEPT ![j] = <<>>]
          /\ session' = [session EXCEPT ![j] = "gone"]
          /\ UNCHANGED <<pc, result, rev, next, durable, reported>>
      BY <1>3 DEF EndSession, jobVars
    <2>2. StateInv'
      BY <2>1 DEF StateInv, AppliedOnceInOrder
    <2>3. OrderType' /\ RestStays(j)
      BY <1>a, <2>1 DEF OrderType, RestStays
    <2>4. /\ pending'[j] = <<>> /\ Len(pending'[j]) = 0 /\ inflight'[j] = 0
          /\ session'[j] = "gone"
      BY <2>1 DEF OrderType
    <2>5. Order(j)'
      BY <1>a, <2>1, <2>4 DEF Order, Position, StateInv
    <2> QED BY <2>2, <2>3, <2>5, OthersKeepOrder
  <1> QED BY <1>1, <1>2, <1>3

LEMMA OrderStep == OrderInv /\ [Next]_vars => OrderInv'
  <1> SUFFICES ASSUME OrderInv, [Next]_vars PROVE OrderInv'
    OBVIOUS
  <1>1. IInv'
    BY FenceStep DEF OrderInv
  <1>2. CASE UNCHANGED vars
    <2>1. OrderType' /\ StateInv'
      BY <1>2 DEF vars, jobVars, serverVars, OrderInv, OrderType, StateInv, AppliedOnceInOrder
    <2>2. \A j \in Jobs : Order(j)'
      BY <1>2 DEF vars, jobVars, serverVars, OrderInv, Order, Position
    <2> QED BY <1>1, <2>1, <2>2 DEF OrderInv
  <1> QED BY <1>1, <1>2, JobKeepsOrder, TablesKeepOrder DEF Next, JobSteps, NoticeFailure

\* fenced_migration.py, the whole job: what is durable is a beginning of the
\* script and every job continues it, in every reachable state.
THEOREM OrderHolds == Spec => []OrderInv
  <1> QED BY InitOrder, OrderStep, PTL DEF Spec

\* fenced_migration.py: no statement takes effect twice or out of order, for any
\* number of jobs and any line of revisions.
THEOREM OnceInOrder == Spec => []AppliedOnceInOrder
  <1>1. OrderInv => AppliedOnceInOrder
    BY DEF OrderInv, StateInv
  <1> QED BY <1>1, OrderHolds, PTL

\* fenced_migration.py, the snapshot after each step: it stays a beginning of
\* the durable state.
THEOREM ReportsStay == Spec => []ReportsAreDurable
  <1>1. OrderInv => ReportsAreDurable
    <2> SUFFICES ASSUME OrderInv, NEW s \in reported
                 PROVE  /\ Script[s[Len(s)]].op = "stamp"
                        /\ Len(s) <= Len(durable) /\ SubSeq(durable, 1, Len(s)) = s
      BY DEF ReportsAreDurable
    <2>1. /\ s \in Seq(Nat) /\ Len(s) \in Nat /\ Len(s) # 0 /\ Len(s) <= Len(durable)
          /\ Script[Len(s)].op = "stamp" /\ \A i \in 1..Len(s) : s[i] = i
          /\ durable \in Seq(Nat) /\ \A i \in 1..Len(durable) : durable[i] = i
      BY DEF OrderInv, OrderType, StateInv, AppliedOnceInOrder, All
    <2>2. s[Len(s)] = Len(s)
      BY <2>1
    <2>3. SubSeq(durable, 1, Len(s)) = s
      <3> DEFINE beginning == SubSeq(durable, 1, Len(s))
      <3>1. /\ beginning \in Seq(Nat) /\ Len(beginning) = Len(s)
            /\ \A i \in 1..Len(s) : beginning[i] = durable[i]
        BY <2>1
      <3>2. \A i \in 1..Len(s) : beginning[i] = s[i]
        BY <2>1, <3>1
      <3> HIDE DEF beginning
      <3>3. beginning = s
        BY ONLY <2>1, <3>1, <3>2, SeqEqual
      <3> QED BY <3>3 DEF beginning
    <2> QED BY <2>1, <2>2, <2>3
  <1> QED BY <1>1, OrderHolds, PTL

----------------------------------------------------------------------------
(* The head revision *)

Complete == Len(durable) = Len(Script)

\* What is durable stays, so a complete schema remains complete.
LEMMA CompleteStays == OrderInv /\ [Next]_vars /\ Complete => Complete'
  <1> SUFFICES ASSUME OrderInv, [Next]_vars, Complete PROVE Complete'
    OBVIOUS
  <1>1. OrderInv'
    BY OrderStep
  <1>2. Len(durable) <= Len(durable')
    <2>1. CASE durable' = durable
      BY <2>1 DEF OrderInv, OrderType
    <2>2. ASSUME NEW j \in Jobs, CommitStep(j) PROVE Len(durable) <= Len(durable')
      <3>1. durable' = durable \o pending[j] /\ durable \in Seq(Nat) /\ pending[j] \in Seq(Nat)
        BY <2>2 DEF CommitStep, Commit, OrderInv, OrderType
      <3> QED BY <3>1
    <2>3. ASSUME NEW j \in Jobs, Execute(j) PROVE Len(durable) <= Len(durable')
      <3> DEFINE n == inflight[j]
      <3>1. /\ durable' = durable \/ durable' = durable \o pending[j] \o <<n>>
            /\ durable \in Seq(Nat) /\ pending[j] \in Seq(Nat) /\ n \in Nat
        BY <2>3 DEF Execute, OrderInv, OrderType
      <3> HIDE DEF n
      <3> QED BY <3>1
    <2>4. CASE UNCHANGED vars
      BY <2>1, <2>4 DEF vars, serverVars
    <2>5. ASSUME NEW j \in Jobs,
                 Connect(j) \/ TakeLock(j) \/ Preflight(j) \/ EnterStep(j) \/ Issue(j)
                     \/ ReportStep(j) \/ Release(j) \/ Abort(j) \/ EndSession(j)
          PROVE  durable' = durable
      BY <2>5 DEF Connect, TakeLock, Preflight, Proceed, EnterStep, Issue, ReportStep,
                  Release, Abort, EndSession, Ends
    <2> QED BY <2>1, <2>2, <2>3, <2>4, <2>5 DEF Next, JobSteps, NoticeFailure
  <1>3. Len(durable) \in Nat /\ Len(durable)' \in Nat /\ Len(durable)' <= Len(Script)
    BY <1>1 DEF OrderInv, OrderType, StateInv
  <1> QED BY <1>2, <1>3, ScriptFacts DEF Complete

LEMMA CompleteIsHead == OrderInv /\ Complete => Version(durable) = HEAD
  <1> SUFFICES ASSUME OrderInv, Complete PROVE Version(durable) = HEAD
    OBVIOUS
  <1>1. Len(Script) \in All
    BY ScriptFacts DEF All
  <1>2. NextIs(Len(durable), HEAD + 1)
    BY <1>1, LineAssumption DEF Complete, NextIs, HEAD
  <1>3. Version(durable) \in Nat /\ Version(durable) + 1 = HEAD + 1
    BY <1>2, VersionOfRevisions DEF OrderInv, OrderType, StateInv, AppliedOnceInOrder
  <1> QED BY <1>3, ScriptFacts

\* Only the last statement stamps the head revision.
LEMMA HeadIsComplete == OrderInv /\ Version(durable) = HEAD => Complete
  <1> SUFFICES ASSUME OrderInv, Version(durable) = HEAD PROVE Complete
    OBVIOUS
  <1> DEFINE stamped == {Script[durable[i]].rev :
                            i \in {n \in 1..Len(durable) : Script[durable[n]].op = "stamp"}}
  <1>1. /\ durable \in Seq(Nat) /\ Len(durable) \in Nat /\ Len(durable) <= Len(Script)
        /\ \A i \in 1..Len(durable) : durable[i] = i /\ i \in All
    BY ScriptFacts DEF OrderInv, OrderType, StateInv, AppliedOnceInOrder, All
  <1>2. HEAD = IF stamped = {} THEN 0
               ELSE CHOOSE v \in stamped : \A w \in stamped : w <= v
    BY DEF Version
  <1>3. \A v \in stamped : v \in Nat /\ v <= Len(Script)
    <2> SUFFICES ASSUME NEW i \in 1..Len(durable) PROVE Script[durable[i]].rev \in 1..Len(Script)
      BY ScriptFacts
    <2>1. durable[i] \in All
      BY <1>1
    <2> QED BY <2>1, StatementShape, Zenon
  <1>4. stamped # {} => \E v \in stamped : \A w \in stamped : w <= v
    <2> HIDE DEF stamped
    <2> SUFFICES ASSUME stamped # {} PROVE \E v \in stamped : \A w \in stamped : w <= v
      OBVIOUS
    <2> DEFINE more == {p \in Nat \X Nat : p[1] < p[2]}
               rest == {Len(Script) - v : v \in stamped}
    <2>1. rest \subseteq Nat /\ rest # {}
      BY <1>3, ScriptFacts
    <2>2. IsWellFoundedOn(more, Nat)
      BY NatLessThanWellFounded DEF OpToRel
    <2>3. PICK x \in rest : \A y \in rest : <<y, x>> \notin more
      BY <2>1, <2>2, WFMin
    <2>4. PICK v \in stamped : x = Len(Script) - v
      OBVIOUS
    <2>5. ASSUME NEW w \in stamped PROVE w <= v
      <3>1. Len(Script) - w \in rest /\ Len(Script) - w \in Nat /\ x \in Nat
        BY <2>1
      <3>2. ~(Len(Script) - w < x)
        BY <2>3, <3>1
      <3> QED BY <1>3, <2>4, <3>2, ScriptFacts
    <2> QED BY <2>5
  <1>5. HEAD \in stamped
    <2> HIDE DEF stamped
    <2> QED BY <1>2, <1>4, ScriptFacts
  <1>6. PICK i \in 1..Len(durable) : Script[i].op = "stamp" /\ Script[i].rev = HEAD
    BY <1>1, <1>5
  <1>7. Len(Script) \in All /\ i \in All
    BY <1>1, ScriptFacts DEF All
  <1>8. ~(i < Len(Script))
    BY <1>6, <1>7, LineAssumption, ScriptFacts DEF HEAD
  <1> QED BY <1>1, <1>7, <1>8, ScriptFacts DEF Complete, All

\* fenced_migration.py, exit code 0: the whole script is committed, and stays.
THEOREM SuccessIsComplete == Spec => []SuccessMeansHead
  <1>1. OrderInv => SuccessMeansHead
    BY CompleteIsHead DEF OrderInv, Order, Complete, SuccessMeansHead
  <1> QED BY <1>1, OrderHolds, PTL

----------------------------------------------------------------------------
(* Refinement: all jobs together carry out one migration *)

\* A job has an exit code only when it is over, and nothing follows it.
Final == \A j \in Jobs : result[j] # None => pc[j] = "done"

LEMMA FinalStep == OrderInv /\ Final /\ [Next]_vars => Final'
  <1> SUFFICES ASSUME OrderInv, Final, [Next]_vars PROVE Final'
    OBVIOUS
  <1>a. pc \in [Jobs -> {"new", "connected", "locked", "step", "upgrade", "commit",
                         "report", "done"}]
        /\ result \in [Jobs -> {None, 0, 1, 20, 30}]
    BY DEF OrderInv, IInv, SessionType, OrderType
  <1> USE <1>a DEF Final
  <1>1. ASSUME NEW j \in Jobs, NEW c, Ends(j, c) PROVE Final'
    BY <1>1 DEF Ends, Goto
  <1>2. ASSUME NEW j \in Jobs, NEW p, Goto(j, p), pc[j] # "done", result' = result
        PROVE  Final'
    BY <1>2 DEF Goto
  <1>3. ASSUME NEW j \in Jobs, JobSteps(j) \/ Abort(j) PROVE Final'
    <2>1. CASE Connect(j) \/ TakeLock(j)
      BY <1>1, <1>2, <2>1 DEF Connect, TakeLock, Stays
    <2>2. CASE Preflight(j)
      BY <1>1, <1>2, <2>2 DEF Preflight, Proceed, Stays
    <2>3. CASE EnterStep(j)
      BY <1>1, <1>2, <2>3 DEF EnterStep, Stays
    <2>4. CASE Issue(j)
      BY <1>1, <1>2, <2>4 DEF Issue, Stays
    <2>5. CASE CommitStep(j) \/ ReportStep(j)
      BY <1>2, <2>5 DEF CommitStep, ReportStep, Stays
    <2>6. CASE Release(j) \/ Abort(j)
      BY <1>1, <2>6 DEF Release, Abort
    <2> QED BY <1>3, <2>1, <2>2, <2>3, <2>4, <2>5, <2>6 DEF JobSteps, NoticeFailure
  <1>4. ASSUME NEW j \in Jobs, Execute(j) \/ EndSession(j) PROVE Final'
    BY <1>4 DEF Execute, EndSession, jobVars
  <1>5. CASE UNCHANGED vars
    BY <1>5 DEF vars, jobVars
  <1> QED BY <1>3, <1>4, <1>5 DEF Next

\* A report adds the state that is durable at that moment, which ends a revision.
LEMMA ReportAcknowledges ==
    ASSUME OrderInv, NEW j \in Jobs, ReportStep(j)
    PROVE  Log!Next
  <1>1. /\ pc[j] = "report" /\ session[j] = "open" /\ durable' = durable /\ result' = result
        /\ reported' = reported \cup {durable \o pending[j]}
    BY DEF ReportStep, Alive, Stays
  <1>2. Fence(j) /\ Order(j) /\ OrderType
    BY DEF OrderInv, IInv
  <1>3. durable \o pending[j] = durable
    <2>1. pending[j] = <<>>
      BY <1>1, <1>2 DEF Fence
    <2>2. durable \in Seq(Nat)
      BY <1>2 DEF OrderType
    <2> QED BY <2>1, <2>2
  <1>4. Len(durable) \in All /\ Script[Len(durable)].op = "stamp"
    BY <1>1, <1>2 DEF Order, StampOf
  <1>5. {Len(s) : s \in reported'} = {Len(s) : s \in reported} \cup {Len(durable)}
    BY <1>1, <1>3
  <1>6. Log!Acknowledge
    BY <1>1, <1>4, <1>5 DEF Log!Acknowledge
  <1> QED BY <1>6 DEF Log!Next

\* A job that ends well finds the script applied.
LEMMA EndOfJob ==
    ASSUME OrderInv, OrderInv', Final, NEW j \in Jobs, pc[j] # "done",
           NEW c \in {0, 1, 20, 30}, Ends(j, c), reported' = reported
    PROVE  Log!Next \/ UNCHANGED Log!logVars
  <1>1. /\ durable' = durable /\ result' = [result EXCEPT ![j] = c]
        /\ result \in [Jobs -> {None, 0, 1, 20, 30}]
    BY DEF Ends, OrderInv, OrderType
  <1>2. CASE c = 0
    <2>1. result'[j] = 0
      BY <1>1, <1>2
    <2>2. Len(durable) = Len(Script)
      BY <1>1, <2>1 DEF OrderInv, Order
    <2>3. {k \in Jobs : result'[k] = 0} = {k \in Jobs : result[k] = 0} \cup {j}
      BY <1>1, <1>2
    <2>4. Log!Succeed(j)
      BY <1>1, <2>2, <2>3 DEF Log!Succeed
    <2> QED BY <2>4 DEF Log!Next
  <1>3. CASE c # 0
    <2>1. result[j] # 0
      BY ScriptAssumption DEF Final
    <2>2. {k \in Jobs : result'[k] = 0} = {k \in Jobs : result[k] = 0}
      BY <1>1, <1>3, <2>1
    <2> QED BY <1>1, <2>2 DEF Log!logVars
  <1> QED BY <1>2, <1>3

\* What becomes durable comes after what was.
LEMMA StatementsApply ==
    ASSUME OrderInv, OrderInv', NEW j \in Jobs, CommitStep(j) \/ Execute(j)
    PROVE  Log!Next \/ UNCHANGED Log!logVars
  <1>1. result' = result /\ reported' = reported
    BY DEF CommitStep, Execute, Stays, jobVars
  <1>2. /\ durable \in Seq(Nat) /\ pending[j] \in Seq(Nat) /\ inflight[j] \in Nat
        /\ Len(durable') \in Nat /\ Len(durable') <= Len(Script)
    BY DEF OrderInv, OrderType, StateInv
  <1>3. Len(durable) <= Len(durable')
    BY <1>2 DEF CommitStep, Commit, Execute
  <1>4. CASE Len(durable') = Len(durable)
    BY <1>1, <1>4 DEF Log!logVars
  <1>5. CASE Len(durable') # Len(durable)
    <2>1. Len(durable') \in (Len(durable) + 1)..Len(Script)
      BY <1>2, <1>3, <1>5, ScriptFacts
    <2> QED BY <1>1, <2>1 DEF Log!Next, Log!Apply
  <1> QED BY <1>4, <1>5

LEMMA StepsOfLog == OrderInv /\ Final /\ [Next]_vars => [Log!Next]_(Log!logVars)
  <1> SUFFICES ASSUME OrderInv, Final, [Next]_vars
               PROVE  Log!Next \/ UNCHANGED Log!logVars
    OBVIOUS
  <1>a. OrderInv'
    BY OrderStep
  <1> USE <1>a
  <1>1. ASSUME UNCHANGED <<durable, result, reported>> PROVE UNCHANGED Log!logVars
    BY <1>1 DEF Log!logVars
  <1>2. ASSUME NEW j \in Jobs, JobSteps(j) \/ Abort(j)
        PROVE  Log!Next \/ UNCHANGED Log!logVars
    <2>1. CASE Connect(j)
      BY <1>1, <2>1 DEF Connect
    <2>2. CASE TakeLock(j)
      BY <1>1, <2>2, EndOfJob DEF TakeLock, Stays
    <2>3. CASE Preflight(j)
      BY <1>1, <2>3, EndOfJob DEF Preflight, Proceed, Stays
    <2>4. CASE EnterStep(j)
      BY <1>1, <2>4, EndOfJob DEF EnterStep, Stays
    <2>5. CASE Issue(j)
      BY <1>1, <2>5, EndOfJob DEF Issue, Stays
    <2>6. CASE CommitStep(j)
      BY <2>6, StatementsApply
    <2>7. CASE ReportStep(j)
      BY <2>7, ReportAcknowledges
    <2>8. CASE Release(j)
      BY <2>8, EndOfJob DEF Release
    <2>9. CASE Abort(j)
      BY <2>9, EndOfJob DEF Abort
    <2> QED BY <1>2, <2>1, <2>2, <2>3, <2>4, <2>5, <2>6, <2>7, <2>8, <2>9
            DEF JobSteps, NoticeFailure
  <1>3. ASSUME NEW j \in Jobs, Execute(j) PROVE Log!Next \/ UNCHANGED Log!logVars
    BY <1>3, StatementsApply
  <1>4. ASSUME NEW j \in Jobs, EndSession(j) PROVE Log!Next \/ UNCHANGED Log!logVars
    BY <1>1, <1>4 DEF EndSession, jobVars
  <1>5. CASE UNCHANGED vars
    BY <1>1, <1>5 DEF vars, jobVars, serverVars
  <1> QED BY <1>2, <1>3, <1>4, <1>5 DEF Next

LEMMA StartsAsLog == Init => Log!Init /\ Final
  <1> SUFFICES ASSUME Init PROVE Log!Init /\ Final
    OBVIOUS
  <1>1. Len(durable) \in {0} \cup {n \in All : Script[n].op = "stamp"}
    <2>1. CASE durable = <<>>
      BY <2>1
    <2>2. CASE durable \in Approved
      <3>1. PICK n \in All : durable = [i \in 1..n |-> i] /\ Script[n].op = "stamp"
        BY <2>2, CheckpointAssumption
      <3>2. Len(durable) = n
        BY <3>1, ScriptFacts DEF All
      <3> QED BY <3>1, <3>2
    <2> QED BY <2>1, <2>2 DEF Init
  <1>2. {Len(s) : s \in reported} = {} /\ {j \in Jobs : result[j] = 0} = {}
    BY ScriptAssumption DEF Init
  <1> QED BY <1>1, <1>2 DEF Init, Final, Log!Init

\* fenced_migration.py: jobs that overlap, die and are cut off carry out together
\* what one undisturbed migration would, with every report and success in its place.
THEOREM MigrationImplementsLog == Spec => ImplementsLog
  <1>1. Init => OrderInv /\ Final /\ Log!Init
    BY InitOrder, StartsAsLog
  <1>2. OrderInv /\ Final /\ [Next]_vars => OrderInv' /\ Final' /\ [Log!Next]_(Log!logVars)
    BY OrderStep, FinalStep, StepsOfLog
  <1> QED BY <1>1, <1>2, PTL DEF Spec, ImplementsLog, Log!Spec

----------------------------------------------------------------------------
(* The rollout around the migration *)

\* One row at most carries the administrator's name, and a job that exits with 0
\* has seen its own password in it.
AdminInv ==
    /\ exit \in [Bootstraps -> {None, 0, 1}]
    /\ boot \in [Bootstraps -> {"new", "create", "verify", "done"}]
    /\ \A u, w \in users : u.name = Admin /\ w.name = Admin => u = w
    /\ \A b \in Bootstraps : exit[b] = 0 => Row(b) \in users

LEMMA InitAdmin == RolloutInit => AdminInv
  <1> SUFFICES ASSUME RolloutInit PROVE AdminInv
    OBVIOUS
  <1>1. None # 0
    BY BootstrapAssumption
  <1>2. \/ users = {} \/ users = {ClientRow}
        \/ \E b \in Bootstraps : users = {Row(b), ClientRow}
    BY DEF RolloutInit, BootstrapInit
  <1>3. ClientRow.name # Admin
    BY BootstrapAssumption DEF ClientRow
  <1> QED BY <1>1, <1>2, <1>3 DEF RolloutInit, BootstrapInit, AdminInv

\* Of a job's steps only MLflow's creation adds a row, and only if there is none
\* with the name; 0 is returned on the strength of a read.
LEMMA BootstrapPreserves ==
    ASSUME AdminInv, NEW b \in Bootstraps,
           CheckUsers(b) \/ CreateAdmin(b) \/ VerifyAdmin(b) \/ BootstrapFails(b)
    PROVE  AdminInv'
  <1> USE DEF AdminInv, Exits
  <1>1. \A c \in Bootstraps : Row(c)' = Row(c)
    BY DEF Row
  <1>2. CASE CheckUsers(b)
    BY <1>1, <1>2 DEF CheckUsers, LookAtUsers
  <1>3. CASE CreateAdmin(b)
    <2>1. users \subseteq users'
      BY <1>3 DEF CreateAdmin
    <2>2. \A u, w \in users' : u.name = Admin /\ w.name = Admin => u = w
      BY <1>3 DEF CreateAdmin
    <2>3. /\ exit' \in [Bootstraps -> {None, 0, 1}]
          /\ boot' \in [Bootstraps -> {"new", "create", "verify", "done"}]
      BY <1>3 DEF CreateAdmin
    <2>4. \A c \in Bootstraps : exit'[c] = 0 => exit[c] = 0
      BY <1>3 DEF CreateAdmin
    <2> QED BY <1>1, <2>1, <2>2, <2>3, <2>4
  <1>4. CASE VerifyAdmin(b)
    BY <1>1, <1>4 DEF VerifyAdmin
  <1>5. CASE BootstrapFails(b)
    BY <1>1, <1>5 DEF BootstrapFails
  <1> QED BY <1>2, <1>3, <1>4, <1>5

\* Everything else leaves users and jobs alone.
LEMMA OthersPreserve == AdminInv /\ UNCHANGED bootVars => AdminInv'
  BY DEF AdminInv, bootVars, Row

\* bootstrap_admin.py: passwords of successful jobs agree in every reachable
\* state of the whole rollout.
THEOREM AgreedAdministrator == RolloutSpec => []SuccessesAgree
  <1>1. RolloutInit => AdminInv
    BY InitAdmin
  <1>2. AdminInv /\ [RolloutNext]_RolloutVars => AdminInv'
    <2> SUFFICES ASSUME AdminInv, [RolloutNext]_RolloutVars PROVE AdminInv'
      OBVIOUS
    <2>1. CASE BootstrapSteps
      BY <2>1, BootstrapPreserves DEF BootstrapSteps
    <2>2. CASE UNCHANGED bootVars
      BY <2>2, OthersPreserve
    <2>3. CASE MainSteps
      BY <2>3, <2>2 DEF MainSteps, LoadPolicy, VerifyTables, VerifyRevisionAndUsers,
             VerifyTracking, Rejected, Spawn, InstallHandlers, Relayed, Moves, jobsState
    <2>4. CASE StartWorker \/ Terminate \/ Kill \/ \E p \in Members : MemberEnds(p)
      BY <2>4, <2>2 DEF StartWorker, Terminate, Kill, MemberEnds, jobsState
    <2>5. CASE MigrationSteps
      BY <2>5, <2>2 DEF MigrationSteps
    <2>6. CASE UNCHANGED RolloutVars
      BY <2>6, <2>2 DEF RolloutVars, jobsState
    <2> QED BY <2>1, <2>3, <2>4, <2>5, <2>6 DEF RolloutNext
  <1>3. AdminInv => SuccessesAgree
    BY DEF AdminInv, SuccessesAgree, Row
  <1> QED BY <1>1, <1>2, <1>3, PTL DEF RolloutSpec

----------------------------------------------------------------------------
(* Check and use are apart, and nothing in between takes back what was seen *)

\* The order of the migration survives its composition, a bootstrap that is
\* past its check has seen the complete schema, and so has main().
RolloutInv ==
    /\ OrderInv
    /\ boot \in [Bootstraps -> {"new", "create", "verify", "done"}]
    /\ \A b \in Bootstraps : boot[b] \in {"create", "verify"} => Complete
    /\ server \in {"tracking", "admitted", "spawned", "relay"} =>
           Complete /\ SoleAdministrator

LEMMA InitRollout == RolloutInit => RolloutInv
  BY InitOrder DEF RolloutInit, BootstrapInit, RolloutInv

\* MLflow's creation can only add the administrator that is the sole one.
LEMMA BootstrapKeepsRollout ==
    ASSUME RolloutInv, NEW b \in Bootstraps, UNCHANGED <<vars, serverState>>,
           CheckUsers(b) \/ CreateAdmin(b) \/ VerifyAdmin(b) \/ BootstrapFails(b)
    PROVE  RolloutInv'
  <1>1. OrderInv' /\ Complete' = Complete /\ server' = server
    <2>1. OrderInv'
      BY OrderStep DEF RolloutInv
    <2> QED BY <2>1 DEF vars, serverVars, serverState, Complete
  <1>2. /\ boot' \in [Bootstraps -> {"new", "create", "verify", "done"}]
        /\ \A c \in Bootstraps : boot'[c] \in {"create", "verify"} => Complete
    <2>1. CASE CheckUsers(b)
      <3>1. AtHead => Complete
        BY HeadIsComplete DEF RolloutInv, AtHead
      <3> QED BY <2>1, <3>1 DEF CheckUsers, LookAtUsers, Exits, RolloutInv
    <2>2. CASE CreateAdmin(b)
      BY <2>2 DEF CreateAdmin, Exits, RolloutInv
    <2>3. CASE VerifyAdmin(b)
      BY <2>3 DEF VerifyAdmin, Exits, RolloutInv
    <2>4. CASE BootstrapFails(b)
      BY <2>4 DEF BootstrapFails, Exits, RolloutInv
    <2> QED BY <2>1, <2>2, <2>3, <2>4
  <1>3. SoleAdministrator => SoleAdministrator'
    <2>1. CASE users' = users
      BY <2>1 DEF SoleAdministrator
    <2>2. CASE users' = users \cup {Row(b)}
      <3>1. Row(b).name = Admin /\ Row(b).admin = TRUE
        BY DEF Row
      <3> QED BY <2>2, <3>1 DEF SoleAdministrator
    <2> QED BY <2>1, <2>2 DEF CheckUsers, CreateAdmin, VerifyAdmin, BootstrapFails
  <1> QED BY <1>1, <1>2, <1>3 DEF RolloutInv

LEMMA MainKeepsRollout ==
    ASSUME RolloutInv, UNCHANGED jobsState,
           MainSteps \/ StartWorker \/ Terminate \/ Kill
               \/ (\E p \in Members : MemberEnds(p)) \/ UNCHANGED serverState
    PROVE  RolloutInv'
  <1>1. OrderInv' /\ Complete' = Complete /\ SoleAdministrator' = SoleAdministrator
        /\ boot' = boot
    <2>1. OrderInv'
      BY OrderStep DEF RolloutInv, jobsState
    <2> QED BY <2>1 DEF jobsState, bootVars, vars, serverVars, Complete, SoleAdministrator
  <1>2. server' \in {"tracking", "admitted", "spawned", "relay"} =>
            Complete /\ SoleAdministrator
    <2>1. CASE VerifyRevisionAndUsers
      BY <2>1, HeadIsComplete DEF VerifyRevisionAndUsers, AtHead, RolloutInv
    <2>2. CASE LoadPolicy \/ VerifyTables \/ Rejected \/ Relayed
      BY <2>2 DEF LoadPolicy, VerifyTables, Rejected, Relayed, Moves, Ended
    <2>3. CASE VerifyTracking \/ Spawn \/ InstallHandlers
      BY <2>3 DEF VerifyTracking, Spawn, InstallHandlers, Moves, RolloutInv
    <2>4. CASE \/ StartWorker \/ Terminate \/ Kill
               \/ (\E p \in Members : MemberEnds(p)) \/ UNCHANGED serverState
      BY <2>4 DEF StartWorker, Terminate, Kill, Ended, MemberEnds, serverState, RolloutInv
    <2> QED BY <2>1, <2>2, <2>3, <2>4 DEF MainSteps
  <1> QED BY <1>1, <1>2 DEF RolloutInv

LEMMA MigrationKeepsRollout ==
    ASSUME RolloutInv, MigrationSteps, UNCHANGED serverState
    PROVE  RolloutInv'
  <1>1. OrderInv' /\ (Complete => Complete')
    BY OrderStep, CompleteStays DEF RolloutInv, MigrationSteps
  <1>2. UNCHANGED <<server, boot, users>>
    BY DEF MigrationSteps, bootVars, serverState
  <1> QED BY <1>1, <1>2 DEF RolloutInv, SoleAdministrator

LEMMA RolloutStep == RolloutInv /\ [RolloutNext]_RolloutVars => RolloutInv'
  <1> SUFFICES ASSUME RolloutInv, [RolloutNext]_RolloutVars PROVE RolloutInv'
    OBVIOUS
  <1>1. CASE MainSteps \/ StartWorker \/ Terminate \/ Kill \/ \E p \in Members : MemberEnds(p)
    <2>1. UNCHANGED jobsState
      BY <1>1 DEF MainSteps, LoadPolicy, VerifyTables, VerifyRevisionAndUsers, VerifyTracking,
             Rejected, Spawn, InstallHandlers, Relayed, Moves, StartWorker, Terminate, Kill,
             MemberEnds
    <2> QED BY <1>1, <2>1, MainKeepsRollout
  <1>2. CASE MigrationSteps /\ UNCHANGED serverState
    BY <1>2, MigrationKeepsRollout
  <1>3. CASE BootstrapSteps /\ UNCHANGED serverState
    <2>1. UNCHANGED <<vars, serverState>>
      BY <1>3 DEF BootstrapSteps, CheckUsers, CreateAdmin, VerifyAdmin, BootstrapFails
    <2> QED BY <1>3, <2>1, BootstrapKeepsRollout DEF BootstrapSteps
  <1>4. CASE UNCHANGED RolloutVars
    BY <1>4, MainKeepsRollout DEF RolloutVars
  <1> QED BY <1>1, <1>2, <1>3, <1>4 DEF RolloutNext

\* bootstrap_admin.py, auth_server.py: what was seen of the schema stays true
\* for as long as it is relied on.
THEOREM RolloutHolds == RolloutSpec => []RolloutInv
  <1> QED BY InitRollout, RolloutStep, PTL DEF RolloutSpec

\* Every step of the rollout is a step of the migration or leaves it alone.
LEMMA RolloutDrivesMigration == [RolloutNext]_RolloutVars => [Next]_vars
  <1> SUFFICES ASSUME [RolloutNext]_RolloutVars PROVE [Next]_vars
    OBVIOUS
  <1>1. CASE MainSteps \/ StartWorker \/ Terminate \/ Kill \/ \E p \in Members : MemberEnds(p)
    <2>1. UNCHANGED jobsState
      BY <1>1 DEF MainSteps, LoadPolicy, VerifyTables, VerifyRevisionAndUsers, VerifyTracking,
             Rejected, Spawn, InstallHandlers, Relayed, Moves, StartWorker, Terminate, Kill,
             MemberEnds
    <2> QED BY <2>1 DEF jobsState
  <1>2. CASE MigrationSteps /\ UNCHANGED serverState
    BY <1>2 DEF MigrationSteps
  <1>3. CASE BootstrapSteps /\ UNCHANGED serverState
    BY <1>3 DEF BootstrapSteps, CheckUsers, CreateAdmin, VerifyAdmin, BootstrapFails
  <1>4. CASE UNCHANGED RolloutVars
    BY <1>4 DEF RolloutVars, jobsState
  <1> QED BY <1>1, <1>2, <1>3, <1>4 DEF RolloutNext

\* auth_server.py, bootstrap_admin.py: what bootstraps, guard and server do around
\* the jobs leaves the migration the one migration that it is.
THEOREM RolloutImplementsLog == RolloutSpec => ImplementsLog
  <1>1. RolloutInit => RolloutInv /\ Final /\ Log!Init
    BY InitRollout, StartsAsLog DEF RolloutInit, BootstrapInit
  <1>2. RolloutInv /\ Final /\ [RolloutNext]_RolloutVars
            => RolloutInv' /\ Final' /\ [Log!Next]_(Log!logVars)
    BY RolloutStep, RolloutDrivesMigration, FinalStep, StepsOfLog DEF RolloutInv
  <1> QED BY <1>1, <1>2, PTL DEF RolloutSpec, ImplementsLog, Log!Spec

\* auth_server.py, prepare() before Popen: MLflow is started and runs on the
\* complete schema, in which the configured administrator, and nobody else, is
\* an administrator; there may be other users.
THEOREM ServedComplete == RolloutSpec => []ServesOnlyOnHead
  <1>1. RolloutInv => ServesOnlyOnHead
    BY CompleteIsHead DEF RolloutInv, ServesOnlyOnHead, AtHead, Complete
  <1> QED BY <1>1, RolloutHolds, PTL

\* bootstrap_admin.py, the check before bootstrap_admin_user: no user is created
\* in a schema that is not completely migrated.
THEOREM UsersCreatedComplete == RolloutSpec => UsersOnlyOnHead
  <1>1. RolloutInv /\ [RolloutNext]_RolloutVars =>
            [users' # users => AtHead /\ Len(durable) = Len(Script)]_<<vars, bootVars>>
    <2> SUFFICES ASSUME RolloutInv, RolloutNext, users' # users
                 PROVE  AtHead /\ Len(durable) = Len(Script)
      BY DEF RolloutVars, jobsState
    <2>1. PICK b \in Bootstraps : CreateAdmin(b)
      BY DEF RolloutNext, MainSteps, LoadPolicy, VerifyTables, VerifyRevisionAndUsers,
             VerifyTracking, Rejected, Spawn, InstallHandlers, Relayed, Moves, StartWorker,
             Terminate, Kill, MemberEnds, jobsState, bootVars, MigrationSteps,
             BootstrapSteps, CheckUsers, VerifyAdmin, BootstrapFails
    <2>2. Complete
      BY <2>1 DEF CreateAdmin, RolloutInv
    <2> QED BY <2>2, CompleteIsHead DEF RolloutInv, AtHead, Complete
  <1> QED BY <1>1, RolloutHolds, PTL DEF RolloutSpec, UsersOnlyOnHead
=============================================================================
