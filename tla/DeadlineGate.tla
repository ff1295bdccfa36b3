---------------------------- MODULE DeadlineGate ----------------------------
(***************************************************************************)
(* What a bounded startup promises, independent of how it retries: stages  *)
(* are passed one by one, a stage is only ever passed strictly before the  *)
(* deadline, and a rejection is final.  Decided is what to wait for.       *)
(* Abstract specification of `Startup` (backend/startup.py).               *)
(***************************************************************************)
EXTENDS Naturals

CONSTANTS
    Stages,    \* number of stages to pass
    Deadline   \* first instant at which nothing may pass any more

VARIABLES
    time,      \* the clock the deadline is measured on
    passed,    \* stages passed so far
    verdict    \* "open", "ready" or "rejected"

gateVars == <<time, passed, verdict>>

Init ==
    /\ time = 0
    /\ passed = 0
    /\ verdict = "open"

Elapse ==
    /\ time' = time + 1
    /\ UNCHANGED <<passed, verdict>>

Pass ==
    /\ verdict = "open"
    /\ time < Deadline
    /\ passed < Stages
    /\ passed' = passed + 1
    /\ verdict' = IF passed + 1 = Stages THEN "ready" ELSE "open"
    /\ UNCHANGED time

Reject ==
    /\ verdict = "open"
    /\ verdict' = "rejected"
    /\ UNCHANGED <<time, passed>>

Next == Elapse \/ Pass \/ Reject

Safety == Init /\ [][Next]_gateVars

Decided == verdict # "open"
=============================================================================
