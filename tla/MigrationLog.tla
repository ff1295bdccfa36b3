---------------------------- MODULE MigrationLog ----------------------------
(***************************************************************************)
(* What the Auth schema migration promises, whoever carries it out: the    *)
(* statements of the script take effect from the first to the last, none   *)
(* is ever taken back, a checkpoint is acknowledged while it is exactly    *)
(* what has been applied, and a job succeeds only when all of it has been. *)
(* Abstract specification of `FencedMigration`                             *)
(* (k8s/mlflow/auth/fenced_migration.py).                                  *)
(***************************************************************************)
EXTENDS Naturals

CONSTANTS
    Jobs,        \* those that may carry the migration out
    Length,      \* statements of the script
    Checkpoints  \* numbers of statements at which a revision is complete

VARIABLES
    applied,       \* how many statements are in effect for good
    acknowledged,  \* checkpoints that somebody was told of
    succeeded      \* jobs that have reported success

logVars == <<applied, acknowledged, succeeded>>

\* The schema may have been migrated in part before.
Init ==
    /\ applied \in {0} \cup Checkpoints
    /\ acknowledged = {} /\ succeeded = {}

Apply ==
    /\ applied' \in (applied + 1)..Length
    /\ UNCHANGED <<acknowledged, succeeded>>

Acknowledge ==
    /\ applied \in Checkpoints
    /\ acknowledged' = acknowledged \cup {applied}
    /\ UNCHANGED <<applied, succeeded>>

Succeed(j) ==
    /\ applied = Length
    /\ succeeded' = succeeded \cup {j}
    /\ UNCHANGED <<applied, acknowledged>>

Next == Apply \/ Acknowledge \/ \E j \in Jobs : Succeed(j)

Spec == Init /\ [][Next]_logVars
=============================================================================
