--------------------------- MODULE InferenceLease ---------------------------
(***************************************************************************)
(* What the write-free verifier promises its host application: a lease     *)
(* that is opened at most once, runs out by age or is closed, during which *)
(* computations run strictly one at a time, and whose resources are given  *)
(* back only once no computation is running - or are abandoned, when the   *)
(* host gives up waiting.  Abstract specification of `WriteFreeVerifier`   *)
(* (backend/write_free_verifier.py).                                       *)
(***************************************************************************)
EXTENDS Naturals

CONSTANT Term    \* age at which the lease runs out

VARIABLES
    lease,   \* "unopened", "open", "closed", "returned" or "abandoned"
    age,     \* time since it was opened
    busy     \* a computation is running

leaseVars == <<lease, age, busy>>

Init == lease = "unopened" /\ age = 0 /\ busy = FALSE

Open ==
    /\ lease = "unopened"
    /\ lease' = "open"
    /\ UNCHANGED <<age, busy>>

Grow ==
    /\ lease # "unopened"
    /\ age' = age + 1
    /\ UNCHANGED <<lease, busy>>

Begin ==
    /\ lease = "open"
    /\ age < Term
    /\ ~busy
    /\ busy' = TRUE
    /\ UNCHANGED <<lease, age>>

End ==
    /\ busy
    /\ busy' = FALSE
    /\ UNCHANGED <<lease, age>>

Close ==
    /\ lease \in {"unopened", "open"}
    /\ lease' = "closed"
    /\ UNCHANGED <<age, busy>>

Return ==
    /\ lease = "closed"
    /\ ~busy
    /\ lease' = "returned"
    /\ UNCHANGED <<age, busy>>

Abandon ==
    /\ lease = "closed"
    /\ lease' = "abandoned"
    /\ UNCHANGED <<age, busy>>

Next == Open \/ Grow \/ Begin \/ End \/ Close \/ Return \/ Abandon

Safety == Init /\ [][Next]_leaseVars
=============================================================================
