---------------------------- MODULE MCAuthServer ----------------------------
(***************************************************************************)
(* One migration that may die in the middle of its second revision, three  *)
(* bootstraps with two passwords, and a server that is restarted.          *)
(***************************************************************************)
EXTENDS AuthServer, TLC

MCScript == <<[rev |-> 1, op |-> "ddl"], [rev |-> 1, op |-> "stamp"],
              [rev |-> 2, op |-> "ddl"], [rev |-> 2, op |-> "dml"],
              [rev |-> 2, op |-> "stamp"]>>
MCApproved == {<<1, 2>>, <<1, 2, 3, 4, 5>>}
MCPasswordOf == "b1" :> "old" @@ "b2" :> "new" @@ "b3" :> "new"
=============================================================================
