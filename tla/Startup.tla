------------------------------ MODULE Startup -------------------------------
(***************************************************************************)
(* backend/startup.py: one retry controller and one wall-clock budget      *)
(* shared by every startup phase.  Plan is the sequence of                 *)
(* `startup.run(phase, operation, classify)` calls a program makes; the    *)
(* state is the frame of the call in progress.  The clock moves between    *)
(* any two reads of `remaining()`, so each read is a step of its own.      *)
(***************************************************************************)
EXTENDS Integers, Sequences

CONSTANTS
    Plan,            \* sequence of [phase, io] records, one per run() call
    MaxAttempts,     \* Policy.max_attempts
    Budget,          \* Policy.budget_seconds, in ticks
    BaseDelay,       \* Policy.base_delay, in ticks
    MaxDelay,        \* Policy.max_delay, in ticks
    TicksPerSecond,  \* clock resolution: registry timeouts are whole seconds
    MaxClock         \* bound on the modelled clock

PHASES == {"configuration", "registry_lookup", "artifact_download",
           "model_load", "db_contract"}

\* What the operation does: pure local work, an MLflow call inside
\* registry_transport, or a database attempt behind the timeout adapters.
Media == {"local", "registry", "database"}

\* Policy.__post_init__, and the phases run() supports.
ASSUME PolicyAssumption ==
    /\ MaxAttempts \in 1..3
    /\ Budget \in Nat /\ Budget > 0
    /\ BaseDelay \in Nat /\ MaxDelay \in Nat /\ BaseDelay <= MaxDelay

ASSUME PlanAssumption ==
    /\ Plan \in Seq([phase : PHASES, io : Media])
    /\ Len(Plan) > 0
    /\ TicksPerSecond \in Nat /\ TicksPerSecond > 0
    /\ MaxClock \in Nat

VARIABLES
    now,        \* clock() - started
    call,       \* index in Plan of the run() in progress
    attempt,    \* its `attempt`
    pc,         \* where run() stands
    failure,    \* classification of the last failed attempt
    reason,     \* reason of the StartupError that ended startup
    wake,       \* when the sleep in progress is due to end
    raised,     \* history: what the last operation begun has raised
    lateCalls   \* history: operations that began after the deadline

vars == <<now, call, attempt, pc, failure, reason, wake, raised, lateCalls>>

Points == {"check", "enter", "calling", "judge", "backoff", "sleeping",
           "accept", "ready", "failed"}

----------------------------------------------------------------------------
\* remaining()
BugRemainingRenewed == Budget
Remaining == IF now < Budget THEN Budget - now ELSE 0

\* The smallest allowance timeout(cap, whole_seconds) does not reject.
LeastAllowance(io) ==
    CASE io = "local" -> 0
      [] io = "registry" -> TicksPerSecond
      [] io = "database" -> 1

\* min(base_delay * 2 ** (attempt - 1), max_delay), for the attempts Policy allows
Doubling == <<1, 2, 4>>
BugDelayUncapped(k) == BaseDelay * Doubling[k]
Delay(k) ==
    LET d == BaseDelay * Doubling[k] IN IF d <= MaxDelay THEN d ELSE MaxDelay

Medium == Plan[call].io

StartupFails(kind, why) ==
    /\ pc' = "failed"
    /\ failure' = kind
    /\ reason' = why
    /\ UNCHANGED <<now, call, attempt, wake, lateCalls>>

Goto(point) ==
    /\ pc' = point
    /\ UNCHANGED <<now, call, attempt, failure, reason, wake, lateCalls>>

----------------------------------------------------------------------------
Init ==
    /\ now = 0 /\ call = 1 /\ attempt = 1
    /\ pc = "check" /\ failure = "none" /\ reason = "none"
    /\ wake = 0 /\ raised = "none" /\ lateCalls = 0

\* The head of the loop: no attempt is begun once the budget is gone.
CheckBudget ==
    /\ pc = "check"
    /\ IF Remaining = 0
       THEN StartupFails("guard", "deadline_exceeded")
       ELSE Goto("enter")
    /\ UNCHANGED raised

\* operation() begins.  registry_transport and the database adapters take a
\* snapshot of the allowance first and raise StartupError when none is left.
EnterOperation ==
    /\ pc = "enter"
    /\ IF Remaining < LeastAllowance(Medium)
       THEN StartupFails("guard", "deadline_exceeded") /\ raised' = "guard"
       ELSE /\ pc' = "calling" /\ raised' = "none"
            /\ lateCalls' = lateCalls + (IF now >= Budget THEN 1 ELSE 0)
            /\ UNCHANGED <<now, call, attempt, failure, reason, wake>>

OperationReturns == pc = "calling" /\ Goto("accept") /\ UNCHANGED raised

\* An exception that classification turns into a Failure.  Without a classifier
\* (configuration, model_load) every failure is permanent.
MayFailAs(kind) == kind = "permanent" \/ Medium # "local"

OperationRaises(kind) ==
    /\ pc = "calling"
    /\ MayFailAs(kind)
    /\ failure' = kind /\ raised' = kind
    /\ pc' = "judge"
    /\ UNCHANGED <<now, call, attempt, reason, wake, lateCalls>>

\* The bug that `except StartupError` in validate_database and run() prevents.
BugGuardIsClassified ==
    /\ pc = "calling"
    /\ Medium = "database"
    /\ failure' = "retryable" /\ raised' = "guard"
    /\ pc' = "judge"
    /\ UNCHANGED <<now, call, attempt, reason, wake, lateCalls>>

\* StartupError raised inside a database attempt: a later timeout(10) found
\* nothing left, or the driver does not have the expected timeout fields.
\* run() passes it through: never retried, never reclassified.
AdapterRejects ==
    /\ pc = "calling"
    /\ Medium = "database"
    /\ \/ Remaining = 0 /\ StartupFails("guard", "deadline_exceeded")
       \/ StartupFails("guard", "permanent_or_unknown")
    /\ raised' = "guard"

BugOneAttemptTooMany ==
    /\ pc = "judge"
    /\ IF failure # "retryable" THEN StartupFails(failure, "permanent_or_unknown")
       ELSE IF Remaining = 0 THEN StartupFails(failure, "deadline_exceeded")
       ELSE IF attempt > MaxAttempts
            THEN StartupFails(failure, "attempts_exhausted") ELSE Goto("backoff")
    /\ UNCHANGED raised

JudgeFailure ==
    /\ pc = "judge"
    /\ \/ failure # "retryable" /\ StartupFails(failure, "permanent_or_unknown")
       \/ /\ failure = "retryable"
          /\ \/ Remaining = 0 /\ StartupFails(failure, "deadline_exceeded")
             \/ /\ Remaining > 0 /\ attempt = MaxAttempts
                /\ StartupFails(failure, "attempts_exhausted")
             \/ Remaining > 0 /\ attempt < MaxAttempts /\ Goto("backoff")
    /\ UNCHANGED raised

\* The second read of remaining() decides whether the delay still fits.
ScheduleRetry ==
    /\ pc = "backoff"
    /\ IF Delay(attempt) >= Remaining
       THEN StartupFails(failure, "deadline_exceeded")
       ELSE /\ pc' = "sleeping"
            /\ wake' = now + Delay(attempt)
            /\ UNCHANGED <<now, call, attempt, failure, reason, lateCalls>>
    /\ UNCHANGED raised

\* sleep() may overrun: waking is possible at any time from `wake` on.
Wake ==
    /\ pc = "sleeping"
    /\ now >= wake
    /\ attempt' = attempt + 1
    /\ pc' = "check"
    /\ UNCHANGED <<now, call, failure, reason, wake, raised, lateCalls>>

\* The next run() starts with a fresh frame; the last one ends startup.
PhaseReady ==
    /\ IF call = Len(Plan)
       THEN pc' = "ready" /\ UNCHANGED <<call, attempt, failure>>
       ELSE pc' = "check" /\ call' = call + 1 /\ attempt' = 1 /\ failure' = "none"
    /\ UNCHANGED <<now, reason, wake, raised, lateCalls>>

\* A success that arrives after the deadline is rejected all the same.
BugAcceptLate == pc = "accept" /\ PhaseReady
AcceptResult ==
    /\ pc = "accept"
    /\ IF Remaining = 0
       THEN StartupFails("guard", "deadline_exceeded") /\ UNCHANGED raised
       ELSE PhaseReady

Tick ==
    /\ now < MaxClock
    /\ now' = now + 1
    /\ UNCHANGED <<call, attempt, pc, failure, reason, wake, raised, lateCalls>>

Finish == OperationReturns \/ AdapterRejects
              \/ \E kind \in {"retryable", "permanent"} : OperationRaises(kind)

Controller == CheckBudget \/ EnterOperation \/ JudgeFailure \/ ScheduleRetry
                 \/ Wake \/ AcceptResult

Next == Tick \/ Controller \/ Finish

\* The process keeps running and time passes.  Nothing is assumed of operations:
\* the controller does not interrupt one, and one that hangs hangs the start.
Fairness == WF_vars(Tick) /\ WF_vars(Controller)

Spec == Init /\ [][Next]_vars /\ Fairness

----------------------------------------------------------------------------
TypeOK ==
    /\ now \in Nat
    /\ call \in 1..Len(Plan)
    /\ attempt \in 1..MaxAttempts
    /\ pc \in Points
    /\ failure \in {"none", "guard", "retryable", "permanent"}
    /\ reason \in {"none", "deadline_exceeded", "permanent_or_unknown",
                   "attempts_exhausted"}
    /\ wake \in Nat
    /\ raised \in {"none", "guard", "retryable", "permanent"}
    /\ lateCalls \in Nat

\* However many phases and attempts startup goes through, at most one operation
\* begins after the shared budget is spent, and then startup is on its way to
\* failing: neither a retry nor a later phase ever gives it a second one.
AtMostOneLateCall ==
    /\ lateCalls <= 1
    /\ lateCalls = 1 => now >= Budget /\ pc \in {"calling", "judge", "accept", "failed"}

\* An operation is repeated only within its own call, inside the budget, and after
\* it raised something transient: a permanent failure ends startup, and so does a
\* StartupError of a transport guard, which is not classified on the way out.
RetryOnlyTransient ==
    [][attempt' > attempt =>
          /\ call' = call /\ raised = "retryable"
          /\ Medium # "local" /\ wake < Budget]_vars

\* Startup never gives up for lack of time while a whole second and the longest
\* permitted backoff would both still have fitted into the budget.
NeverGivesUpEarly ==
    reason = "deadline_exceeded" =>
        \/ now + MaxDelay >= Budget
        \/ now + TicksPerSecond > Budget

Gate == INSTANCE DeadlineGate WITH
    Stages <- Len(Plan),
    Deadline <- Budget,
    time <- now,
    passed <- IF pc = "ready" THEN call ELSE call - 1,
    verdict <- CASE pc = "ready" -> "ready"
                 [] pc = "failed" -> "rejected"
                 [] OTHER -> "open"

\* The retry controller implements the deadline gate: results are accepted in
\* order and only before the deadline, and failure is final.  If moreover every
\* operation ends that is begun, which backend/startup.py does not promise by
\* itself, a verdict is reached.
ImplementsGate ==
    /\ Gate!Safety
    /\ []<>(pc # "calling") => <>Gate!Decided
=============================================================================
