------------------------- MODULE MCFencedMigration --------------------------
(***************************************************************************)
(* Three jobs and two revisions, the second with a data migration in it;   *)
(* the states after each revision are approved checkpoints.                *)
(***************************************************************************)
EXTENDS FencedMigration, TLC

MCScript == <<[rev |-> 1, op |-> "ddl"], [rev |-> 1, op |-> "stamp"],
              [rev |-> 2, op |-> "ddl"], [rev |-> 2, op |-> "dml"],
              [rev |-> 2, op |-> "ddl"], [rev |-> 2, op |-> "stamp"]>>
MCApproved == {<<1, 2>>, <<1, 2, 3, 4, 5, 6>>}
=============================================================================
