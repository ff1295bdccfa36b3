--------------------------- MODULE StartupProofs ----------------------------
(***************************************************************************)
(* Safety of startup.  First the retry controller, for every plan, policy  *)
(* and clock; then the start of the application, which is the controller   *)
(* with the plan of backend/main.py and what its steps allocate, next to   *)
(* any number of executions of the schema tool.                            *)
(***************************************************************************)
EXTENDS SchemaStartup, FiniteSetTheorems, TLAPS

\* What the frame of a call must satisfy, beyond its type, for the properties
\* to be inductive: what is judged is what was raised, and an attempt about to be
\* repeated failed transiently, in an operation that can fail so, with an attempt
\* left and an end inside the budget.
FrameInv ==
    /\ pc \in {"judge", "backoff", "sleeping"} => raised = failure
    /\ pc \in {"judge", "backoff", "sleeping"} /\ failure = "retryable"
           => Medium # "local"
    /\ pc \in {"backoff", "sleeping"} => failure = "retryable" /\ attempt < MaxAttempts
    /\ pc = "sleeping" => wake < Budget

IInv == TypeOK /\ FrameInv /\ AtMostOneLateCall /\ NeverGivesUpEarly

----------------------------------------------------------------------------
\* remaining() is a natural number, zero exactly from the deadline on.
LEMMA RemainingIsNat ==
    ASSUME now \in Nat
    PROVE  /\ Remaining \in Nat
           /\ Remaining = 0 <=> now >= Budget
           /\ Remaining > 0 => Remaining = Budget - now
  BY PolicyAssumption DEF Remaining

\* The backoff delay never exceeds the policy's cap.
LEMMA DelayIsCapped ==
    ASSUME NEW k \in 1..MaxAttempts
    PROVE  Delay(k) \in Nat /\ Delay(k) <= MaxDelay
  <1>1. Doubling[k] \in Nat
    BY PolicyAssumption DEF Doubling
  <1>2. BaseDelay * Doubling[k] \in Nat
    BY <1>1, PolicyAssumption
  <1> QED BY <1>2, PolicyAssumption DEF Delay

\* The call in progress is one of the plan's.
LEMMA MediumIsKnown ==
    ASSUME call \in 1..Len(Plan) PROVE Medium \in Media
  <1>1. ASSUME NEW S, Plan \in Seq(S) PROVE Plan[call] \in S
    BY <1>1
  <1>2. Plan[call] \in [phase : PHASES, io : Media]
    BY <1>1, PlanAssumption
  <1> QED BY <1>2 DEF Medium

LEMMA InitIInv == Init => IInv
  BY PolicyAssumption, PlanAssumption
  DEF Init, IInv, TypeOK, FrameInv, AtMostOneLateCall, NeverGivesUpEarly, Points

----------------------------------------------------------------------------
\* Every step of the controller keeps the frame's invariant: one step per action.
LEMMA NextIInv == IInv /\ [Next]_vars => IInv'
  <1> SUFFICES ASSUME IInv, [Next]_vars PROVE IInv'
    OBVIOUS
  <1>a. /\ Remaining \in Nat
        /\ Remaining = 0 <=> now >= Budget
        /\ Remaining > 0 => Remaining = Budget - now
        /\ Medium \in Media
    BY RemainingIsNat, MediumIsKnown DEF IInv, TypeOK
  <1> USE PolicyAssumption, PlanAssumption, <1>a
      DEF IInv, TypeOK, FrameInv, AtMostOneLateCall, NeverGivesUpEarly, Points
  <1>1. CASE Tick
    BY <1>1 DEF Tick, Medium
  <1>2. CASE CheckBudget
    BY <1>2 DEF CheckBudget, StartupFails, Goto, Medium
  <1>3. CASE EnterOperation
    <2>1. Remaining < LeastAllowance(Medium) =>
             now + TicksPerSecond > Budget
      BY DEF LeastAllowance, Media
    <2> QED BY <1>3, <2>1 DEF EnterOperation, StartupFails, Medium
  <1>4. CASE JudgeFailure
    BY <1>4 DEF JudgeFailure, StartupFails, Goto, Medium
  <1>5. CASE ScheduleRetry
    <2>1. Delay(attempt) \in Nat /\ Delay(attempt) <= MaxDelay
      BY DelayIsCapped
    <2>2. CASE Delay(attempt) >= Remaining
      BY <1>5, <2>1, <2>2 DEF ScheduleRetry, StartupFails, Medium
    <2>3. CASE ~(Delay(attempt) >= Remaining)
      BY <1>5, <2>1, <2>3 DEF ScheduleRetry, Medium
    <2> QED BY <2>2, <2>3
  <1>6. CASE Wake
    BY <1>6 DEF Wake, Medium
  <1>7. CASE AcceptResult
    <2>1. CASE Remaining = 0
      BY <1>7, <2>1 DEF AcceptResult, StartupFails, Medium
    <2>2. CASE Remaining # 0
      BY <1>7, <2>2 DEF AcceptResult, PhaseReady, Medium
    <2> QED BY <2>1, <2>2
  <1>8. CASE OperationReturns
    BY <1>8 DEF OperationReturns, Goto, Medium
  <1>9. CASE AdapterRejects
    BY <1>9 DEF AdapterRejects, StartupFails, Medium
  <1>10. ASSUME NEW kind \in {"retryable", "permanent"}, OperationRaises(kind)
         PROVE  IInv'
    BY <1>10 DEF OperationRaises, MayFailAs, Medium
  <1>11. CASE UNCHANGED vars
    BY <1>11 DEF vars, Medium
  <1> QED
    BY <1>1, <1>2, <1>3, <1>4, <1>5, <1>6, <1>7, <1>8, <1>9, <1>10, <1>11
    DEF Next, Controller, Finish

\* The controller's type and frame invariant hold in every reachable state.
THEOREM InductiveInvariant == Spec => []IInv
  BY InitIInv, NextIInv, PTL DEF Spec

\* Type correctness of the retry controller, for every plan and policy.
THEOREM TypeCorrect == Spec => []TypeOK
  <1>1. IInv => TypeOK
    BY DEF IInv
  <1> QED BY <1>1, InductiveInvariant, PTL

\* startup.run never begins a second operation after the shared deadline.
THEOREM LateCallsBounded == Spec => []AtMostOneLateCall
  <1>1. IInv => AtMostOneLateCall
    BY DEF IInv
  <1> QED BY <1>1, InductiveInvariant, PTL

\* A deadline_exceeded verdict is never premature.
THEOREM GivesUpOnTime == Spec => []NeverGivesUpEarly
  <1>1. IInv => NeverGivesUpEarly
    BY DEF IInv
  <1> QED BY <1>1, InductiveInvariant, PTL

\* Only transient failures of I/O operations are retried, inside the budget.
THEOREM RetriesAreTransient == Spec => RetryOnlyTransient
  <1> DEFINE Retry == attempt' > attempt =>
                 /\ call' = call /\ raised = "retryable"
                 /\ Medium # "local" /\ wake < Budget
  <1>1. IInv /\ [Next]_vars => [Retry]_vars
    <2> SUFFICES ASSUME IInv, Next, attempt' > attempt PROVE Retry
      OBVIOUS
    <2>1. CASE Wake
      BY <2>1 DEF Wake, IInv, FrameInv
    <2>2. CASE AcceptResult
      BY <2>2 DEF AcceptResult, PhaseReady, StartupFails, IInv, TypeOK
    <2>3. CASE ~Wake /\ ~AcceptResult
      <3>1. attempt' = attempt
        BY <2>3 DEF Next, Controller, Finish, Tick, CheckBudget, EnterOperation,
             JudgeFailure, ScheduleRetry, OperationReturns, AdapterRejects,
             OperationRaises, StartupFails, Goto
      <3> QED BY <3>1 DEF IInv, TypeOK
    <2> QED BY <2>1, <2>2, <2>3
  <1> QED BY <1>1, InductiveInvariant, PTL DEF Spec, RetryOnlyTransient

----------------------------------------------------------------------------
\* Every step of the controller is a step of the deadline gate or leaves it alone.
LEMMA StepsOfGate == IInv /\ [Next]_vars => [Gate!Next]_(Gate!gateVars)
  <1> SUFFICES ASSUME IInv, [Next]_vars PROVE [Gate!Next]_(Gate!gateVars)
    OBVIOUS
  <1> USE RemainingIsNat, PlanAssumption DEF IInv, TypeOK
  <1>1. CASE Tick
    BY <1>1 DEF Tick, Gate!Next, Gate!Elapse
  <1>2. CASE AcceptResult
    <2>1. CASE Remaining = 0
      BY <1>2, <2>1 DEF AcceptResult, StartupFails, Gate!Next, Gate!Reject
    <2>2. CASE Remaining # 0
      <3>1. now < Budget /\ pc = "accept" /\ now' = now /\ PhaseReady
        BY <1>2, <2>2, PolicyAssumption DEF AcceptResult, PhaseReady
      <3>2. CASE call = Len(Plan)
        BY <3>1, <3>2 DEF PhaseReady, Gate!Next, Gate!Pass
      <3>3. CASE call # Len(Plan)
        BY <3>1, <3>3 DEF PhaseReady, Gate!Next, Gate!Pass
      <3> QED BY <3>2, <3>3
    <2> QED BY <2>1, <2>2
  <1>3. ASSUME NEW k \in {"none", "guard", "retryable", "permanent"}, NEW w,
               StartupFails(k, w), pc \notin {"ready", "failed"}
        PROVE  Gate!Next
    BY <1>3 DEF StartupFails, Gate!Next, Gate!Reject
  <1>4. ASSUME pc \notin {"ready", "failed"}, pc' \notin {"ready", "failed"},
               UNCHANGED <<now, call>>
        PROVE  UNCHANGED Gate!gateVars
    BY <1>4 DEF Gate!gateVars
  <1>5. CASE CheckBudget
    BY <1>5, <1>3, <1>4 DEF CheckBudget, Goto
  <1>6. CASE EnterOperation
    BY <1>6, <1>3, <1>4 DEF EnterOperation
  <1>7. CASE JudgeFailure
    BY <1>7, <1>3, <1>4 DEF JudgeFailure, Goto
  <1>8. CASE ScheduleRetry
    BY <1>8, <1>3, <1>4 DEF ScheduleRetry
  <1>9. CASE Wake
    BY <1>9, <1>4 DEF Wake
  <1>10. CASE OperationReturns
    BY <1>10, <1>4 DEF OperationReturns, Goto
  <1>11. CASE AdapterRejects
    BY <1>11, <1>3 DEF AdapterRejects
  <1>12. ASSUME NEW kind \in {"retryable", "permanent"}, OperationRaises(kind)
         PROVE  UNCHANGED Gate!gateVars
    BY <1>12, <1>4 DEF OperationRaises
  <1>13. CASE UNCHANGED vars
    BY <1>13 DEF vars, Gate!gateVars
  <1> QED
    BY <1>1, <1>2, <1>5, <1>6, <1>7, <1>8, <1>9, <1>10, <1>11, <1>12, <1>13
    DEF Next, Controller, Finish

LEMMA StartsAsOpenGate == Init => Gate!Init
  BY DEF Init, Gate!Init

\* Refinement: the controller starts as an open gate, and every step it takes
\* is a step of the deadline gate or leaves the gate as it is.
THEOREM ImplementsGateSafety == Spec => Gate!Safety
  BY StartsAsOpenGate, StepsOfGate, InductiveInvariant, PTL DEF Spec, Gate!Safety
----------------------------------------------------------------------------
(* The start of the application: the plan of backend/main.py *)

\* Which step of the start a call is, and what it talks to.
LEMMA PlanOfStart ==
    /\ Len(Plan) = 11
    /\ \A i \in 1..11 :
        /\ Steps[i] = "download" <=> i = 7
        /\ Steps[i] = "package" <=> i = 8
        /\ Steps[i] = "schema" <=> i = 10
        /\ Plan[i].io = "registry" <=> i \in {5, 7}
        /\ Plan[i].io = "database" <=> i = 10
  <1>1. Len(Steps) = 11
    BY DEF Steps
  <1>2. Len(Plan) = 11 /\ \A i \in 1..11 : Plan[i] = AppPlan[i]
    BY <1>1, AppPlanAssumption DEF AppPlan
  <1> QED BY <1>1, <1>2 DEF AppPlan, Steps

\* What the process around the controller says about the controller: it is idle
\* while the preflight engine is disposed of, and done once it is to publish.
HostInv ==
    /\ host \in {"run", "dispose", "verified", "published", "serving", "stopped", "exited"}
    /\ host = "run" => pc \notin {"ready", "failed"}
    /\ host = "dispose" => (pc = "failed" /\ call = 10) \/ (pc = "check" /\ call = 11)
    /\ host \in {"verified", "published", "serving", "stopped"} => pc = "ready"
    /\ host = "exited" => pc \in {"ready", "failed"}
    /\ pc = "ready" => call = 11

\* The directories: one from the start of an attempt to download (7) until it
\* fails or the package (8) is loaded, recorded for removal once it is complete.
Downloading == host = "run" /\ call = 7 /\ pc \in {"calling", "accept"}
Loading == host = "run" /\ call = 8

DirectoryInv ==
    /\ overrides => host = "run" /\ pc = "calling" /\ Medium = "registry"
    /\ Downloading => temps = {attempt}
    /\ Loading => temps = downloaded /\ \E d \in 1..MaxAttempts : downloaded = {d}
    /\ ~Downloading /\ ~Loading => temps = {}
    /\ Downloading /\ pc = "accept" => downloaded = {attempt}
    /\ host = "run" /\ call < 8 /\ ~(call = 7 /\ pc = "accept") => downloaded = {}

\* The latch is set only behind the last step, the model from the package on.
LatchInv ==
    /\ model \in BOOLEAN /\ complete \in BOOLEAN /\ overrides \in BOOLEAN
    /\ call > 8 => model
    /\ verifier \in BOOLEAN
    /\ complete => host \in {"published", "serving", "stopped"}
    /\ complete /\ host = "stopped" => ~verifier

AppInv == IInv /\ HostInv /\ DirectoryInv /\ LatchInv

\* The schema is never taken back, and nobody gets past a check of it in vain.
SchemaInv ==
    /\ tool \in [Tools -> {"new", "create", "validate", "validate created", "done"}]
    /\ outcome \in [Tools -> {Unset, "created", "verified_existing", "rejected"}]
    /\ \A t \in Tools : outcome[t] \in {"created", "verified_existing"} => Readable

ContractInv == call = 11 \/ (call = 10 /\ pc = "accept") => Readable

StartInv == AppInv /\ SchemaInv /\ ContractInv

----------------------------------------------------------------------------
\* Where the start stands tells the step and its medium.
LEMMA StepInProgress ==
    ASSUME call \in 1..Len(Plan)
    PROVE  /\ call \in 1..11
           /\ Step = "download" <=> call = 7
           /\ Step = "package" <=> call = 8
           /\ Step = "schema" <=> call = 10
           /\ Medium = "registry" <=> call \in {5, 7}
           /\ Medium = "database" <=> call = 10
  BY PlanOfStart DEF Step, Medium

\* A start moves the controller only as the controller moves itself, except that
\* disposing of the preflight engine may fail.
DisposalFails ==
    host = "dispose" /\ StartupFails("permanent", "permanent_or_unknown") /\ UNCHANGED raised

LEMMA StartDrivesController == AppNext => [Next]_vars \/ DisposalFails
  BY DEF AppNext, AppTick, AppSteps, Enter, Return, Raise, Decide, Accept, Dispose,
     Publish, StartVerifier, ShutdownHook, DisposalFails, Next, Controller, Finish

LEMMA FailedDisposal == IInv /\ HostInv /\ DisposalFails => IInv'
  BY DEF IInv, TypeOK, FrameInv, AtMostOneLateCall, NeverGivesUpEarly, Points,
     HostInv, DisposalFails, StartupFails, Medium, Remaining

LEMMA InitAppInv == AppInit => AppInv
  <1> SUFFICES ASSUME AppInit PROVE AppInv
    OBVIOUS
  <1>1. IInv
    BY InitIInv DEF AppInit
  <1>2. HostInv /\ LatchInv
    <2>1. HostInv
      BY DEF AppInit, Init, HostInv
    <2>2. ~(call > 8)
      BY DEF AppInit, Init
    <2> QED BY <2>1, <2>2 DEF AppInit, LatchInv
  <1>3. DirectoryInv
    BY DEF AppInit, Init, DirectoryInv, Downloading, Loading
  <1> QED BY <1>1, <1>2, <1>3 DEF AppInv

\* The process follows the controller.
LEMMA HostFollows ==
    ASSUME HostMoves
    PROVE  /\ Step = "schema" /\ StepOver => host' = "dispose"
           /\ ~(Step = "schema" /\ StepOver) =>
                 /\ pc' = "failed" => host' = "exited"
                 /\ pc' = "ready" => host' = "verified"
                 /\ pc' \notin {"ready", "failed"} => host' = "run"
  BY DEF HostMoves

\* What is left of the directories after a step of the controller.
LEMMA Cleanup ==
    ASSUME NEW dirs
    PROVE  /\ pc' = "failed" \/ (Step = "package" /\ StepOver) =>
                  Released(dirs) = dirs \ downloaded
           /\ ~(pc' = "failed" \/ (Step = "package" /\ StepOver)) => Released(dirs) = dirs
  BY DEF Released

\* Every step of the start keeps what is known of it: one step per action.
LEMMA AppStepInv == AppInv /\ [AppNext]_<<vars, appVars>> => AppInv'
  <1> SUFFICES ASSUME AppInv, [AppNext]_<<vars, appVars>> PROVE AppInv'
    OBVIOUS
  <1>a. IInv'
    BY StartDrivesController, NextIInv, FailedDisposal DEF AppInv
  <1>b. /\ call \in 1..11 /\ now \in Nat /\ attempt \in 1..MaxAttempts /\ pc \in Points
        /\ pc' \in Points /\ call' \in 1..11
        /\ Step = "download" <=> call = 7
        /\ Step = "package" <=> call = 8
        /\ Step = "schema" <=> call = 10
        /\ Medium = "registry" <=> call \in {5, 7}
        /\ Medium = "database" <=> call = 10
        /\ Len(Plan) = 11
    BY <1>a, StepInProgress, PlanOfStart DEF AppInv, IInv, TypeOK
  <1>c. call' = call => Medium' = Medium
    BY DEF Medium
  <1> SUFFICES HostInv' /\ DirectoryInv' /\ LatchInv'
    BY <1>a DEF AppInv
  <1> USE <1>b, <1>c DEF AppInv, HostInv, DirectoryInv, LatchInv, Downloading, Loading
  <1>1. CASE AppTick \/ UNCHANGED <<vars, appVars>>
    <2>1. UNCHANGED <<call, attempt, pc, host, temps, downloaded, overrides, model, complete,
                      verifier>>
      BY <1>1 DEF AppTick, Tick, vars, appVars
    <2> QED BY <2>1
  <1>2. CASE Enter
    <2>1. /\ host = "run" /\ pc = "enter"
          /\ UNCHANGED <<call, attempt, downloaded, model, complete, verifier>>
      BY <1>2 DEF Enter, EnterOperation, StartupFails
    <2>2. CASE pc' = "calling"
      BY <1>2, <2>1, <2>2, HostFollows, Cleanup DEF Enter, StepOver
    <2>3. CASE pc' = "failed"
      BY <1>2, <2>1, <2>3, HostFollows, Cleanup DEF Enter, StepOver
    <2> QED BY <1>2, <2>2, <2>3 DEF Enter, EnterOperation, StartupFails
  <1>3. CASE Return
    <2>1. /\ host = "run" /\ pc = "calling" /\ pc' = "accept" /\ host' = "run"
          /\ overrides' = FALSE /\ UNCHANGED <<call, attempt, temps, model, complete, verifier>>
      BY <1>3, HostFollows DEF Return, OperationReturns, Goto, StepOver
    <2>2. CASE call = 7
      <3>1. downloaded' = {attempt}
        BY <1>3, <2>1, <2>2 DEF Return
      <3> QED BY <2>1, <2>2, <3>1
    <2>3. CASE call # 7
      <3>1. downloaded' = downloaded
        BY <1>3, <2>1, <2>3 DEF Return
      <3> QED BY <2>1, <2>3, <3>1
    <2> QED BY <2>2, <2>3
  <1>4. ASSUME NEW kind \in {"retryable", "permanent"}, Raise(kind)
        PROVE  HostInv' /\ DirectoryInv' /\ LatchInv'
    BY <1>4, HostFollows DEF Raise, OperationRaises, StepOver
  <1>5. CASE Decide
    <2>1. /\ host = "run" /\ pc \in {"check", "judge", "backoff", "sleeping", "calling"}
          /\ pc = "calling" => call = 10 /\ pc' = "failed"
          /\ pc' \in {"enter", "backoff", "sleeping", "check", "failed"}
          /\ UNCHANGED <<call, downloaded, overrides, model, complete, verifier>>
          /\ temps' = Released(temps) /\ HostMoves
      BY <1>5 DEF Decide, CheckBudget, JudgeFailure, ScheduleRetry, Wake, AdapterRejects,
           StartupFails, Goto
    <2>2. CASE pc' = "failed"
      BY <2>1, <2>2, HostFollows, Cleanup DEF StepOver
    <2>3. CASE pc' # "failed"
      BY <2>1, <2>3, HostFollows, Cleanup DEF StepOver
    <2> QED BY <2>2, <2>3
  <1>6. CASE Accept
    <2>1. /\ host = "run" /\ pc = "accept" /\ HostMoves /\ temps' = Released(temps)
          /\ model' = (model \/ (Step = "package" /\ call' # call))
          /\ UNCHANGED <<downloaded, overrides, complete, verifier>>
      BY <1>6 DEF Accept, AcceptResult
    <2>2. CASE pc' = "failed" /\ call' = call
      BY <2>1, <2>2, HostFollows, Cleanup DEF StepOver
    <2>3. CASE pc' = "check" /\ call' = call + 1 /\ call < 11
      <3>1. host' = IF call = 10 THEN "dispose" ELSE "run"
        BY <2>1, <2>3, HostFollows DEF StepOver
      <3>2. HostInv'
        BY <2>1, <2>3, <3>1
      <3>3. ~overrides'
        BY <2>1
      <3>4. temps' = IF call = 8 THEN temps \ downloaded ELSE temps
        BY <2>1, <2>3, Cleanup DEF StepOver
      <3>a. /\ call' # call
            /\ call' > 8 => Step = "package" \/ call > 8
        BY <2>3
      <3>b. /\ model' = (model \/ Step = "package") /\ ~complete'
        BY <2>1, <3>a
      <3>c. LatchInv'
        BY <2>1, <3>a, <3>b
      <3>5. CASE call < 7
        BY <2>1, <2>3, <3>1, <3>2, <3>c, <3>3, <3>4, <3>5
      <3>6. CASE call = 7
        BY <2>1, <2>3, <3>1, <3>2, <3>c, <3>3, <3>4, <3>6
      <3>7. CASE call = 8
        BY <2>1, <2>3, <3>1, <3>2, <3>c, <3>3, <3>4, <3>7
      <3>8. CASE call > 8
        BY <2>1, <2>3, <3>1, <3>2, <3>c, <3>3, <3>4, <3>8
      <3> QED BY <3>5, <3>6, <3>7, <3>8
    <2>4. CASE pc' = "ready" /\ call' = call /\ call = 11
      <3>1. host' = "verified"
        BY <2>1, <2>4, HostFollows DEF StepOver
      <3>2. temps' = {} /\ ~overrides'
        BY <2>1, <2>4, Cleanup DEF StepOver
      <3>a. call > 8
        BY <2>4
      <3>3. model' = TRUE /\ ~complete'
        BY <2>1, <2>4, <3>a
      <3>4. HostInv' /\ DirectoryInv'
        BY <2>4, <3>1, <3>2
      <3>5. LatchInv'
        BY <2>1, <3>1, <3>3
      <3> QED BY <3>4, <3>5
    <2> QED BY <1>6, <2>2, <2>3, <2>4 DEF Accept, AcceptResult, StartupFails, PhaseReady
  <1>7. CASE Dispose
    BY <1>7 DEF Dispose, StartupFails, vars
  <1>8. CASE StartVerifier
    BY <1>8 DEF StartVerifier, vars
  <1>9. CASE ShutdownHook
    BY <1>9 DEF ShutdownHook, vars
  <1>10. CASE Publish
    BY <1>10 DEF Publish, vars
  <1> QED BY <1>1, <1>2, <1>3, <1>4, <1>5, <1>6, <1>7, <1>8, <1>9, <1>10 DEF AppNext, AppSteps

----------------------------------------------------------------------------
(* The start of the application next to the schema tool *)

LEMMA InitStartInv == SchemaStartupInit => StartInv
  <1> SUFFICES ASSUME SchemaStartupInit PROVE StartInv
    OBVIOUS
  <1>1. AppInv
    BY InitAppInv DEF SchemaStartupInit
  <1>2. SchemaInv
    BY ToolsAssumption DEF SchemaStartupInit, SchemaInitial, SchemaInv
  <1>3. ContractInv
    BY DEF SchemaStartupInit, AppInit, Init, ContractInv
  <1> QED BY <1>1, <1>2, <1>3 DEF StartInv

\* Whatever the tools do, a table that can be read stays so.
LEMMA SchemaStepInv == SchemaInv /\ SchemaNext => SchemaInv' /\ (Readable => Readable')
  <1> SUFFICES ASSUME SchemaInv, SchemaNext PROVE SchemaInv' /\ (Readable => Readable')
    OBVIOUS
  <1> USE ToolsAssumption DEF SchemaInv, Readable
  <1>1. ASSUME NEW t \in Tools, Inspect(t) PROVE SchemaInv' /\ (Readable => Readable')
    BY <1>1 DEF Inspect
  <1>2. ASSUME NEW t \in Tools, CreateTable(t) PROVE SchemaInv' /\ (Readable => Readable')
    BY <1>2 DEF CreateTable
  <1>3. ASSUME NEW t \in Tools, Validate(t) PROVE SchemaInv' /\ (Readable => Readable')
    BY <1>3 DEF Validate, ToolEnds
  <1>4. ASSUME NEW t \in Tools, Reject(t) PROVE SchemaInv' /\ (Readable => Readable')
    BY <1>4 DEF Reject, ToolEnds
  <1>5. CASE Occupy
    BY <1>5 DEF Occupy
  <1> QED BY <1>1, <1>2, <1>3, <1>4, <1>5 DEF SchemaNext

\* The application gets to the step behind the check of the schema, or to the end
\* of that check, only from there or by reading the table.
LEMMA ContractStep ==
    ASSUME AppInv, AppNext, ContractInv, ValidateDatabase,
           call' = 11 \/ (call' = 10 /\ pc' = "accept")
    PROVE  Readable
  <1>a. call \in 1..11 /\ pc \in Points /\ (Step = "schema" <=> call = 10) /\ Len(Plan) = 11
    BY StepInProgress, PlanOfStart DEF AppInv, IInv, TypeOK
  <1> USE <1>a
  <1>1. CASE Accept
    BY <1>1 DEF Accept, AcceptResult, PhaseReady, StartupFails, ContractInv
  <1>2. CASE Return
    BY <1>2 DEF Return, OperationReturns, Goto, ValidateDatabase, ContractInv
  <1>3. CASE Enter
    BY <1>3 DEF Enter, EnterOperation, StartupFails, ContractInv
  <1>4. CASE Decide
    BY <1>4 DEF Decide, CheckBudget, JudgeFailure, ScheduleRetry, Wake, AdapterRejects,
       StartupFails, Goto, ContractInv
  <1>5. ASSUME NEW kind \in {"retryable", "permanent"}, Raise(kind) PROVE Readable
    BY <1>5 DEF Raise, OperationRaises, ContractInv
  <1>6. CASE AppTick \/ Dispose \/ Publish \/ StartVerifier \/ ShutdownHook
    BY <1>6 DEF AppTick, Tick, Dispose, StartupFails, Publish, StartVerifier, ShutdownHook, vars,
       ContractInv
  <1> QED BY <1>1, <1>2, <1>3, <1>4, <1>5, <1>6 DEF AppNext, AppSteps

LEMMA StartStepInv ==
    StartInv /\ [SchemaStartupNext]_<<startVars, schemaVars>> => StartInv'
  <1> SUFFICES ASSUME StartInv, [SchemaStartupNext]_<<startVars, schemaVars>>
               PROVE  StartInv'
    OBVIOUS
  <1> USE DEF StartInv
  <1>1. CASE AppNext /\ ValidateDatabase /\ UNCHANGED schemaVars
    <2>1. AppInv'
      BY <1>1, AppStepInv
    <2>2. SchemaInv' /\ (Readable <=> Readable')
      BY <1>1 DEF schemaVars, SchemaInv, Readable
    <2>3. ContractInv'
      BY <1>1, <2>2, ContractStep DEF ContractInv
    <2> QED BY <2>1, <2>2, <2>3
  <1>2. CASE UNCHANGED startVars
    <2>1. AppInv'
      BY <1>2, AppStepInv DEF startVars
    <2>2. SchemaInv' /\ (Readable => Readable')
      <3>1. CASE SchemaNext
        BY <3>1, SchemaStepInv
      <3>2. CASE UNCHANGED schemaVars
        BY <3>2 DEF schemaVars, SchemaInv, Readable
      <3>3. CASE AppNext /\ ValidateDatabase /\ UNCHANGED schemaVars
        BY <3>3 DEF schemaVars, SchemaInv, Readable
      <3> QED BY <3>1, <3>2, <3>3 DEF SchemaStartupNext
    <2>3. UNCHANGED <<call, pc>>
      BY <1>2 DEF startVars, vars
    <2>4. ContractInv'
      BY <2>2, <2>3 DEF ContractInv
    <2> QED BY <2>1, <2>2, <2>4
  <1> QED BY <1>1, <1>2 DEF SchemaStartupNext

\* In every reachable state of a start the controller, the process, the temporary
\* directories, the latch and the schema agree on how far the start has come.
THEOREM StartInvariant == SchemaStartupSpec => []StartInv
  BY InitStartInv, StartStepInv, PTL DEF SchemaStartupSpec

\* No temporary directory and no transport override outlives the step of the
\* loader that needs it, on any path, and a package is read from one that exists.
THEOREM ResourcesAreReturned == SchemaStartupSpec => []NothingOutlivesItsStep
  <1>1. StartInv => NothingOutlivesItsStep
    <2> SUFFICES ASSUME StartInv PROVE NothingOutlivesItsStep
      OBVIOUS
    <2> USE DEF StartInv, AppInv, DirectoryInv, Downloading, Loading
    <2>a. /\ Step = "download" <=> call = 7
          /\ Step = "package" <=> call = 8
      BY StepInProgress DEF IInv, TypeOK
    <2>1. temps = {} \/ \E d : temps = {d}
      OBVIOUS
    <2>2. Cardinality(temps) <= 1
      <3>1. CASE temps = {}
        BY <3>1, FS_EmptySet
      <3>2. ASSUME NEW d, temps = {d} PROVE Cardinality(temps) = 1
        BY <3>2, FS_Singleton
      <3> QED BY <2>1, <3>1, <3>2
    <2> QED BY <2>a, <2>2 DEF NothingOutlivesItsStep
  <1> QED BY <1>1, StartInvariant, PTL

\* startup_complete is set only behind the last accepted step and with a model,
\* never in a process that exits over a failure, and no longer once a process with
\* an enabled verifier has begun to stop.
THEOREM NeverReadyTooEarly == SchemaStartupSpec => []ReadyOnlyWhenPublished
  <1>1. StartInv => ReadyOnlyWhenPublished
    <2> SUFFICES ASSUME StartInv, complete PROVE ReadyOnlyWhenPublished
      BY DEF ReadyOnlyWhenPublished
    <2>1. pc = "ready" /\ host \in {"published", "serving", "stopped"}
      BY DEF StartInv, AppInv, HostInv, LatchInv
    <2>2. call > 8
      BY <2>1 DEF StartInv, AppInv, HostInv
    <2> QED BY <2>1, <2>2 DEF StartInv, AppInv, LatchInv, ReadyOnlyWhenPublished
  <1> QED BY <1>1, StartInvariant, PTL

\* A start that is overdue, its deadline gone with a step still to be accepted,
\* stays so: it cannot publish any more.
Overdue == now >= Budget /\ pc # "ready" /\ ~complete

LEMMA OverdueIsFinal ==
    ASSUME StartInv, [SchemaStartupNext]_<<startVars, schemaVars>>, Overdue
    PROVE  Overdue'
  <1> USE DEF StartInv, AppInv, Overdue
  <1>1. now \in Nat /\ host \notin {"verified", "published"}
    BY DEF IInv, TypeOK, HostInv
  <1>2. [Next]_vars \/ DisposalFails \/ UNCHANGED vars
    BY StartDrivesController DEF SchemaStartupNext, startVars
  <1>3. now' >= Budget
    BY <1>1, <1>2, PolicyAssumption
    DEF vars, DisposalFails, Next, Controller, Finish, Tick, CheckBudget, EnterOperation,
        JudgeFailure, ScheduleRetry, Wake, AcceptResult, PhaseReady, OperationReturns,
        AdapterRejects, OperationRaises, StartupFails, Goto
  <1>4. pc' # "ready"
    <2>1. Remaining = 0
      BY <1>1, PolicyAssumption DEF Remaining
    <2> QED BY <1>2, <2>1
        DEF vars, DisposalFails, Next, Controller, Finish, Tick, CheckBudget, EnterOperation,
            JudgeFailure, ScheduleRetry, Wake, AcceptResult, OperationReturns,
            AdapterRejects, OperationRaises, StartupFails, Goto
  <1>5. ~complete'
    BY <1>1 DEF SchemaStartupNext, startVars, schemaVars, appVars, AppNext, AppTick, AppSteps,
       Enter, Return, Raise, Decide, Accept, Dispose, Publish, StartVerifier, ShutdownHook,
       LatchInv
  <1> QED BY <1>3, <1>4, <1>5

\* startup_complete is set with a model and with no temporary directory left, and
\* never once the deadline has passed before the last step was accepted, however
\* long the disposal of the preflight engine takes.
THEOREM PublishesInTime == SchemaStartupSpec => PublishedInTime
  <1> DEFINE Equipped == complete' /\ ~complete => model /\ temps = {}
             Late == now >= Budget /\ Undecided
  <1>1. StartInv /\ [SchemaStartupNext]_<<startVars, schemaVars>>
            => [Equipped]_<<vars, appVars>>
    <2> SUFFICES ASSUME StartInv, SchemaStartupNext, complete', ~complete
                 PROVE  model /\ temps = {}
      BY DEF startVars, schemaVars
    <2>1. Publish
      BY DEF SchemaStartupNext, startVars, appVars, AppNext, AppTick, AppSteps, Enter, Return,
         Raise, Decide, Accept, Dispose, StartVerifier, ShutdownHook,
         StartInv, AppInv, LatchInv
    <2>2. host = "verified" /\ call = 11
      BY <2>1 DEF Publish, StartInv, AppInv, HostInv
    <2>3. temps = {}
      BY <2>2 DEF StartInv, AppInv, DirectoryInv, Downloading, Loading
    <2>4. call > 8
      BY <2>2
    <2> QED BY <2>3, <2>4 DEF StartInv, AppInv, LatchInv
  <1>2. StartInv /\ Late => Overdue
    BY DEF StartInv, AppInv, HostInv, LatchInv, Undecided, Overdue
  <1>3. StartInv /\ Overdue /\ [SchemaStartupNext]_<<startVars, schemaVars>> => Overdue'
    BY OverdueIsFinal
  <1>4. Overdue => ~complete
    BY DEF Overdue
  <1>5. SchemaStartupSpec => [][Equipped]_<<vars, appVars>>
    BY <1>1, StartInvariant, PTL DEF SchemaStartupSpec
  <1>6. SchemaStartupSpec => [](Late => []~complete)
    BY <1>2, <1>3, <1>4, StartInvariant, PTL DEF SchemaStartupSpec
  <1> QED BY <1>5, <1>6, PTL DEF PublishedInTime

\* A schema tool that exits with 0 and an application that is ready can rely on a
\* complete table, for any number of overlapping executions of the tool.
THEOREM SchemaIsUsable == SchemaStartupSpec => []UsableWhenClaimed
  <1>1. StartInv => UsableWhenClaimed
    <2> SUFFICES ASSUME StartInv PROVE UsableWhenClaimed
      OBVIOUS
    <2>1. complete => call = 11
      BY DEF StartInv, AppInv, HostInv, LatchInv
    <2> QED BY <2>1 DEF StartInv, SchemaInv, ContractInv, UsableWhenClaimed
  <1> QED BY <1>1, StartInvariant, PTL

\* The application's start implements the deadline gate, with the disposal of the
\* preflight engine as one more way of being rejected: eleven results are accepted
\* in order, each before the deadline, and a failure is final.
THEOREM StartImplementsGate == SchemaStartupSpec => Gate!Safety
  <1>1. SchemaStartupInit => Gate!Init
    BY StartsAsOpenGate DEF SchemaStartupInit, AppInit
  <1>2. StartInv /\ [SchemaStartupNext]_<<startVars, schemaVars>>
            => [Gate!Next]_(Gate!gateVars)
    <2> SUFFICES ASSUME StartInv, [SchemaStartupNext]_<<startVars, schemaVars>>
                 PROVE  [Gate!Next]_(Gate!gateVars)
      OBVIOUS
    <2>1. [Next]_vars \/ DisposalFails
      BY StartDrivesController DEF SchemaStartupNext, startVars
    <2>2. CASE [Next]_vars
      BY <2>2, StepsOfGate DEF StartInv, AppInv
    <2>3. CASE DisposalFails
      <3>1. CASE pc = "failed"
        BY <2>3, <3>1 DEF DisposalFails, StartupFails, Gate!gateVars
      <3>2. CASE pc = "check"
        BY <2>3, <3>2 DEF DisposalFails, StartupFails, Gate!Next, Gate!Reject
      <3> QED BY <2>3, <3>1, <3>2 DEF DisposalFails, StartInv, AppInv, HostInv
    <2> QED BY <2>1, <2>2, <2>3
  <1> QED BY <1>1, <1>2, StartInvariant, PTL DEF SchemaStartupSpec, Gate!Safety

\* The budget is one for the whole start: however its eleven calls fail and retry,
\* and whether the disposal fails, at most one operation begins too late, and no
\* verdict of exhausted time is premature.
THEOREM StartKeepsBudget == SchemaStartupSpec => [](AtMostOneLateCall /\ NeverGivesUpEarly)
  <1>1. StartInv => AtMostOneLateCall /\ NeverGivesUpEarly
    BY DEF StartInv, AppInv, IInv
  <1> QED BY <1>1, StartInvariant, PTL
=============================================================================
