----------------------------- MODULE AuthServer -----------------------------
(***************************************************************************)
(* k8s/mlflow/auth/auth_server.py and runtime_guard.py: the container that *)
(* verifies the Auth schema while migration and bootstrap jobs may still   *)
(* be at work, starts MLflow as a child in a process group of its own and  *)
(* forwards SIGTERM to it.  Composed with both jobs.                       *)
(***************************************************************************)
EXTENDS AuthBootstrap

Members == {"leader", "worker"}  \* `mlflow server` and the process it starts

VARIABLES
    server,      \* where main() stands, or "down" between two containers
    group,       \* processes of the child's group that are alive
    signalled,   \* members that were sent a signal
    term         \* "no", "lost" or "forwarded": the kubelet's SIGTERM to main()

serverState == <<server, group, signalled, term>>
jobsState == <<vars, bootVars>>

RolloutInit ==
    /\ BootstrapInit
    /\ server = "down" /\ group = {} /\ signalled = {} /\ term = "no"

Moves(point) == server' = point /\ UNCHANGED <<group, signalled, term, jobsState>>

Ended == server' = "down" /\ group' = {} /\ signalled' = {} /\ term' = "no"

----------------------------------------------------------------------------
(* prepare() *)

LoadPolicy == server = "down" /\ Moves("tables")

\* One SHOW CREATE TABLE after the other, each showing the latest DDL.
VerifyTables ==
    /\ server = "tables"
    /\ \A n \in All : Script[n].op = "ddl" => \E i \in DOMAIN durable : durable[i] = n
    /\ Moves("users")

SoleAdministrator == {u.name : u \in {w \in users : w.admin}} = {Admin}

BugTrustTables ==
    /\ server = "users"
    /\ SoleAdministrator
    /\ Moves("tracking")

\* Revision and users, read in one snapshot.
VerifyRevisionAndUsers ==
    /\ server = "users"
    /\ AtHead
    /\ SoleAdministrator
    /\ Moves("tracking")

VerifyTracking == server = "tracking" /\ Moves("admitted")

\* Any requirement not met, or any error: the process exits with 1.
Rejected ==
    /\ server \in {"tables", "users", "tracking", "admitted"}
    /\ Ended /\ UNCHANGED jobsState

----------------------------------------------------------------------------
(* main() *)

Spawn ==
    /\ server = "admitted"
    /\ server' = "spawned" /\ group' = {"leader"}
    /\ UNCHANGED <<signalled, term, jobsState>>

InstallHandlers == server = "spawned" /\ Moves("relay")

BugSignalLeader ==
    IF server = "relay" /\ "leader" \in group
    THEN term' = "forwarded" /\ signalled' = {"leader"}
    ELSE term' = "lost" /\ UNCHANGED signalled

\* forward(): to the whole group, unless poll() finds the leader dead.  PID 1
\* ignores a SIGTERM for which it has no handler yet.
Forward ==
    IF server = "relay" /\ "leader" \in group
    THEN term' = "forwarded" /\ signalled' = group
    ELSE term' = "lost" /\ UNCHANGED signalled

\* End of file on the pipe every member holds open, then wait().
Relayed ==
    /\ server = "relay" /\ group = {}
    /\ Ended /\ UNCHANGED jobsState

----------------------------------------------------------------------------
(* MLflow and the kubelet *)

StartWorker ==
    /\ "leader" \in group \ signalled /\ "worker" \notin group
    /\ group' = group \cup {"worker"}
    /\ UNCHANGED <<server, signalled, term, jobsState>>

MemberEnds(p) ==
    /\ p \in group
    /\ group' = group \ {p} /\ signalled' = signalled \ {p}
    /\ UNCHANGED <<server, term, jobsState>>

\* A member obeys a signal.
Obeys(p) == p \in signalled /\ MemberEnds(p)

Terminate ==
    /\ server # "down" /\ term = "no"
    /\ Forward
    /\ UNCHANGED <<server, group, jobsState>>

\* The grace period is over: the whole container ends with its first process.
Kill ==
    /\ term # "no"
    /\ Ended /\ UNCHANGED jobsState

MainSteps ==
    \/ LoadPolicy \/ VerifyTables \/ VerifyRevisionAndUsers \/ VerifyTracking \/ Rejected
    \/ Spawn \/ InstallHandlers \/ Relayed

RolloutNext ==
    \/ MainSteps \/ StartWorker \/ Terminate \/ Kill
    \/ \E p \in Members : MemberEnds(p)
    \/ MigrationSteps /\ UNCHANGED serverState
    \/ BootstrapSteps /\ UNCHANGED serverState

RolloutVars == <<jobsState, serverState>>

\* main() keeps going and a signalled process ends; nothing is assumed of the
\* jobs, of MLflow otherwise, or of the kubelet.
RolloutSpec ==
    /\ RolloutInit /\ [][RolloutNext]_RolloutVars
    /\ WF_RolloutVars(MainSteps)
    /\ \A p \in Members : WF_RolloutVars(Obeys(p))

----------------------------------------------------------------------------
\* MLflow never runs, and is never about to, on an Auth schema whose migration
\* has not committed its last statement, or for another administrator than the
\* configured one, whatever the jobs do during and after the verification.
ServesOnlyOnHead ==
    server \in {"admitted", "spawned", "relay"} =>
        /\ AtHead /\ Len(durable) = Len(Script)
        /\ SoleAdministrator

\* A SIGTERM that was forwarded ends every process of the group and main() with
\* them: the container does not have to wait for SIGKILL.
ForwardedTermEnds == term = "forwarded" ~> server = "down"
=============================================================================
