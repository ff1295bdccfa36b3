---------------------------- MODULE DumpArchive -----------------------------
(***************************************************************************)
(* What backup and restore promise of one pair of paths, however many runs *)
(* race for them: a dump is archived as a whole or not at all; what can be *)
(* restored is that dump; nothing that is at a path is ever replaced; and  *)
(* success is reported only by the run that put there what is there.       *)
(* Abstract specification of `BackupRestore` (tools/mlflow_backup_s3.py).  *)
(***************************************************************************)

CONSTANTS
    Backups, Restores,  \* the runs of the two commands
    Dumps,              \* what may be archived
    Other               \* what somebody else may put at one of the paths

VARIABLES
    archived,   \* {} or what the manifest stands for: {a dump} or {Other}
    restored,   \* {} or what is at the output path: {a dump} or {Other}
    claims,     \* runs that have published and not given up since
    succeeded   \* those that have reported success

archiveVars == <<archived, restored, claims, succeeded>>

Init == archived = {} /\ restored = {} /\ claims = {} /\ succeeded = {}

Archive(b) ==
    /\ archived = {}
    /\ \E d \in Dumps : archived' = {d}
    /\ claims' = claims \cup {b}
    /\ UNCHANGED <<restored, succeeded>>

Restore(r) ==
    /\ restored = {}
    /\ archived # {} /\ archived \subseteq Dumps
    /\ restored' = archived
    /\ claims' = claims \cup {r}
    /\ UNCHANGED <<archived, succeeded>>

Succeed(r) ==
    /\ r \in claims
    /\ succeeded' = succeeded \cup {r}
    /\ UNCHANGED <<archived, restored, claims>>

\* A run that has published may still crash, or fail to clean up behind itself.
GiveUp(r) ==
    /\ r \in claims \ succeeded
    /\ claims' = claims \ {r}
    /\ UNCHANGED <<archived, restored, succeeded>>

Occupy ==
    /\ \/ archived = {} /\ archived' = {Other} /\ UNCHANGED restored
       \/ restored = {} /\ restored' = {Other} /\ UNCHANGED archived
    /\ UNCHANGED <<claims, succeeded>>

Next ==
    \/ \E b \in Backups : Archive(b)
    \/ \E r \in Restores : Restore(r)
    \/ \E r \in Backups \cup Restores : Succeed(r) \/ GiveUp(r)
    \/ Occupy

Spec == Init /\ [][Next]_archiveVars
=============================================================================
