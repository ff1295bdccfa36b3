--------------------------- MODULE VerifierProofs ---------------------------
(***************************************************************************)
(* Safety of the write-free verifier for any set of requests and limits.   *)
(***************************************************************************)
EXTENDS WriteFreeVerifier, FiniteSetTheorems, TLAPS

\* Where the lifecycle stands determines whether work can still be running:
\* stop() waits for the one calculation that held the slot when it looked, and
\* only a cancellation of that wait lets cleanup begin before it is over.
LifecycleInv ==
    /\ active = (pc = "active")
    /\ cut => pc \in {"unlink", "rmdir", "stopped"}
    /\ pc = "await_calc" => \A r \in Requests : Busy(r) => r = drained
    /\ pc \in {"unlink", "rmdir", "stopped"} /\ ~cut => \A r \in Requests : ~Busy(r)

\* Files without interference: the steps of start() find what the ones before
\* them created and recorded, a recorded socket can be reached for removal, and
\* removal leaves only what was never recorded.
FilesInv ==
    /\ pc \in {"open", "bind", "inspect"} => path # "none"
    /\ ~tampered =>
         /\ path # "foreign" /\ entry.own # "foreign"
         /\ pc \in {"open", "bind", "inspect"} => "dir" \in held
         /\ pc \in {"bind", "inspect"} => "fd" \in held
         /\ pc = "inspect" => entry.own = "own"
         /\ "socket" \in held => "fd" \in held
         /\ pc \in {"rmdir", "stopped"} /\ "socket" \in held => entry.own = "none"
         /\ pc = "stopped" /\ "dir" \in held /\ entry.own = "none" => path = "none"

IInv == TypeOK /\ OneCalculation /\ LifecycleInv /\ FilesInv

LEMMA InitIInv == Init => IInv
  <1> SUFFICES ASSUME Init PROVE IInv
    OBVIOUS
  <1>1. entry \in [{"own", "foreign"} -> {"none", "own", "foreign"}]
    BY DEF Init
  <1>2. TypeOK
    <2>1. tampered \in BOOLEAN
      BY DEF Init
    <2>2. /\ req \in [Requests -> {"unsent", "body", "dispatch", "awaiting", "answered",
                                   "rejected", "cancelled"}]
          /\ calc \in [Requests -> {"none", "queued", "native", "returned", "done", "closed"}]
      BY DEF Init
    <2>3. /\ counted \in Nat /\ age \in 0..MaxSeconds
          /\ slot \in Requests \cup {None} /\ drained \in Requests \cup {None}
          /\ held \subseteq {"dir", "fd", "socket"} /\ path \in {"none", "own", "foreign"}
      BY LimitsAssumption DEF Init
    <2>4. /\ pc = "new" /\ ready \in BOOLEAN /\ active \in BOOLEAN
          /\ stopAsked \in BOOLEAN /\ cut \in BOOLEAN /\ server = "none"
      BY DEF Init
    <2> QED BY <1>1, <2>1, <2>2, <2>3, <2>4 DEF TypeOK
  <1>3. OneCalculation /\ LifecycleInv
    BY DEF Init, OneCalculation, LifecycleInv, Busy
  <1>4. FilesInv
    BY DEF Init, FilesInv
  <1> QED BY <1>2, <1>3, <1>4 DEF IInv

----------------------------------------------------------------------------
\* Steps that only move the lifecycle or the files leave the requests alone.
LEMMA StartPreserves == IInv /\ StartSteps => IInv'
  <1> SUFFICES ASSUME IInv, StartSteps PROVE IInv'
    OBVIOUS
  <1> USE LimitsAssumption
      DEF IInv, TypeOK, OneCalculation, LifecycleInv, FilesInv, Busy, Stopping,
          Proceed, EnterStop, hostVars, workVars, fileVars
  <1>1. CASE Begin
    BY <1>1 DEF Begin
  <1>2. CASE MakeDirectory
    BY <1>2 DEF MakeDirectory
  <1>3. CASE OpenDirectory
    BY <1>3 DEF OpenDirectory
  <1>4. CASE BindSocket
    <2>1. TypeOK'
      <3>1. path \in {"own", "foreign"}
        BY <1>4 DEF BindSocket
      <3>2. entry' \in [{"own", "foreign"} -> {"none", "own", "foreign"}]
        BY <1>4, <3>1 DEF BindSocket
      <3> QED BY <1>4, <3>2 DEF BindSocket
    <2>2. OneCalculation' /\ LifecycleInv'
      BY <1>4 DEF BindSocket
    <2>3. FilesInv'
      <3>1. CASE path = "own"
        BY <1>4, <3>1 DEF BindSocket
      <3>2. CASE path = "foreign"
        BY <1>4, <3>2 DEF BindSocket
      <3> QED BY <1>4, <3>1, <3>2 DEF BindSocket
    <2> QED BY <2>1, <2>2, <2>3
  <1>5. CASE InspectSocket
    <2>1. TypeOK'
      BY <1>5 DEF InspectSocket
    <2>2. OneCalculation' /\ LifecycleInv'
      BY <1>5 DEF InspectSocket
    <2>3. FilesInv'
      BY <1>5 DEF InspectSocket
    <2> QED BY <2>1, <2>2, <2>3
  <1>6. CASE RecheckIdentities
    BY <1>6 DEF RecheckIdentities
  <1>7. CASE ServerStarted
    BY <1>7 DEF ServerStarted
  <1>8. CASE StartFails
    BY <1>8 DEF StartFails
  <1> QED
    BY <1>1, <1>2, <1>3, <1>4, <1>5, <1>6, <1>7, <1>8 DEF StartSteps

LEMMA ServerPreserves == IInv /\ (ServerSteps \/ ServerCrashes) => IInv'
  <1> SUFFICES ASSUME IInv, ServerSteps \/ ServerCrashes PROVE IInv'
    OBVIOUS
  <1> USE LimitsAssumption
      DEF IInv, TypeOK, OneCalculation, LifecycleInv, FilesInv, Busy,
          hostVars, workVars, fileVars
  <1>1. CASE ServerListens
    BY <1>1 DEF ServerListens
  <1>2. CASE ServerDrains
    BY <1>2 DEF ServerDrains
  <1>3. CASE ServerExits
    BY <1>3 DEF ServerExits, CancelPending, Pending
  <1>4. CASE ServerCrashes
    BY <1>4 DEF ServerCrashes
  <1> QED BY <1>1, <1>2, <1>3, <1>4 DEF ServerSteps

LEMMA StopPreserves == IInv /\ (Shutdown \/ StopSteps \/ StopCancelled) => IInv'
  <1> SUFFICES ASSUME IInv, Shutdown \/ StopSteps \/ StopCancelled PROVE IInv'
    OBVIOUS
  <1> USE LimitsAssumption
      DEF IInv, TypeOK, OneCalculation, LifecycleInv, FilesInv, Busy, Stopping,
          Proceed, hostVars, workVars, fileVars
  <1>1. CASE Shutdown
    BY <1>1 DEF Shutdown
  <1>2. CASE ServerStopped
    BY <1>2 DEF ServerStopped, LookAtSlot
  <1>3. CASE CalculationDrained
    BY <1>3 DEF CalculationDrained
  <1>4. CASE UnlinkSocket
    BY <1>4 DEF UnlinkSocket
  <1>5. CASE RemoveDirectory
    BY <1>5 DEF RemoveDirectory
  <1>6. CASE StopCancelled
    <2>1. CASE LookAtSlot
      BY <1>6, <2>1 DEF LookAtSlot
    <2>2. CASE pc = "await_calc" /\ pc' = "unlink" /\ cut' = TRUE
      BY <1>6, <2>2 DEF StopCancelled, LookAtSlot
    <2> QED BY <1>6, <2>1, <2>2 DEF StopCancelled
  <1> QED BY <1>1, <1>2, <1>3, <1>4, <1>5, <1>6 DEF StopSteps

LEMMA EnvironmentPreserves == IInv /\ (Tick \/ Interfere \/ UNCHANGED vars) => IInv'
  <1> SUFFICES ASSUME IInv, Tick \/ Interfere \/ UNCHANGED vars PROVE IInv'
    OBVIOUS
  <1> USE LimitsAssumption
      DEF IInv, TypeOK, OneCalculation, LifecycleInv, FilesInv, Busy,
          hostVars, workVars, fileVars
  <1>1. CASE Tick
    BY <1>1 DEF Tick
  <1>2. CASE Interfere
    <2>1. CASE path' = "foreign" /\ UNCHANGED entry
      BY <1>2, <2>1 DEF Interfere
    <2>2. CASE path = "own" /\ entry' = [entry EXCEPT !.own = "foreign"] /\ UNCHANGED path
      BY <1>2, <2>2 DEF Interfere
    <2> QED BY <1>2, <2>1, <2>2 DEF Interfere
  <1>3. CASE UNCHANGED vars
    BY <1>3 DEF vars
  <1> QED BY <1>1, <1>2, <1>3

LEMMA RequestPreserves ==
    ASSUME IInv, NEW r \in Requests,
           Arrive(r) \/ RequestSteps(r) \/ CancelRequest(r)
    PROVE  IInv'
  <1> USE LimitsAssumption
      DEF IInv, TypeOK, OneCalculation, LifecycleInv, FilesInv, Busy, Settle,
          hostVars, fileVars
  <1>1. CASE Arrive(r)
    BY <1>1 DEF Arrive
  <1>2. CASE ReceiveBody(r)
    BY <1>2 DEF ReceiveBody
  <1>3. CASE Verify(r)
    <2>1. CASE Settle(r, "rejected") /\ UNCHANGED <<hostVars, server, age, counted, fileVars>>
      BY <2>1
    <2>2. ASSUME active, ~InferenceActive,
                 req' = [req EXCEPT ![r] = "awaiting"],
                 calc' = [calc EXCEPT ![r] = "queued"], slot' = r,
                 UNCHANGED <<hostVars, server, age, counted, fileVars>>
          PROVE  IInv'
      <3>1. TypeOK'
        BY <2>2
      <3>2. OneCalculation'
        BY <2>2 DEF InferenceActive
      <3>3. LifecycleInv' /\ FilesInv'
        BY <2>2
      <3> QED BY <3>1, <3>2, <3>3
    <2> QED BY <1>3, <2>1, <2>2 DEF Verify, Running
  <1>4. CASE Answer(r)
    BY <1>4 DEF Answer
  <1>5. CASE CancelRequest(r)
    BY <1>5 DEF CancelRequest
  <1> QED BY <1>1, <1>2, <1>3, <1>4, <1>5 DEF RequestSteps

LEMMA CalculationPreserves ==
    ASSUME IInv, NEW r \in Requests, Calculation(r) PROVE IInv'
  <1> USE LimitsAssumption
      DEF IInv, TypeOK, OneCalculation, LifecycleInv, FilesInv, Busy, Advance,
          hostVars, fileVars
  <1>1. CASE ThreadStarts(r)
    BY <1>1 DEF ThreadStarts
  <1>2. CASE ThreadEnds(r)
    BY <1>2 DEF ThreadEnds
  <1>3. CASE TaskDone(r)
    BY <1>3 DEF TaskDone
  <1>4. CASE CalculationFinished(r)
    BY <1>4 DEF CalculationFinished
  <1> QED BY <1>1, <1>2, <1>3, <1>4 DEF Calculation

LEMMA NextIInv == IInv /\ [Next]_vars => IInv'
  BY StartPreserves, ServerPreserves, StopPreserves, EnvironmentPreserves,
     RequestPreserves, CalculationPreserves DEF Next

THEOREM InductiveInvariant == Spec => []IInv
  BY InitIInv, NextIInv, PTL DEF Spec

\* Type correctness of the verifier.
THEOREM TypeCorrect == Spec => []TypeOK
  <1>1. IInv => TypeOK
    BY DEF IInv
  <1> QED BY <1>1, InductiveInvariant, PTL

\* Never two calculations at once, whatever is cancelled and in which order
\* completions, callbacks and new requests are handled.
THEOREM SingleFlight == Spec => []OneCalculation
  <1>1. IInv => OneCalculation
    BY DEF IInv
  <1> QED BY <1>1, InductiveInvariant, PTL

\* An undisturbed verifier that has stopped has removed everything it identified.
THEOREM CleansUp == Spec => []NothingLeftBehind
  <1>1. IInv => NothingLeftBehind
    BY DEF IInv, FilesInv, NothingLeftBehind
  <1> QED BY <1>1, InductiveInvariant, PTL

\* No step of the verifier touches a directory or file of somebody else.
THEOREM ForeignKept == Spec => ForeignFilesKept
  <1> DEFINE Kept == /\ path = "foreign" => path' = "foreign"
                     /\ entry.own = "foreign" => entry'.own = "foreign"
  <1>1. IInv /\ [Next]_vars => [Kept]_vars
    <2> SUFFICES ASSUME IInv, Next PROVE Kept
      OBVIOUS
    <2> USE DEF IInv, TypeOK, FilesInv
    <2>1. CASE MakeDirectory
      BY <2>1 DEF MakeDirectory
    <2>2. CASE BindSocket
      <3>1. path \in {"own", "foreign"}
        BY <2>2 DEF BindSocket
      <3> QED BY <2>2, <3>1 DEF BindSocket
    <2>3. CASE UnlinkSocket
      BY <2>3 DEF UnlinkSocket
    <2>4. CASE RemoveDirectory
      BY <2>4 DEF RemoveDirectory
    <2>5. CASE Interfere
      BY <2>5 DEF Interfere
    <2>6. CASE UNCHANGED <<path, entry>>
      BY <2>6
    <2>7. \/ MakeDirectory \/ BindSocket \/ UnlinkSocket \/ RemoveDirectory \/ Interfere
          \/ UNCHANGED <<path, entry>>
      BY DEF Next, StartSteps, ServerSteps, StopSteps, Calculation, RequestSteps,
         Begin, OpenDirectory, InspectSocket, RecheckIdentities, ServerStarted,
         StartFails, ServerListens, ServerDrains, ServerExits, ServerCrashes, Shutdown,
         ServerStopped, LookAtSlot, StopCancelled, CalculationDrained, Tick, Arrive, ReceiveBody, Verify, Answer,
         CancelRequest, ThreadStarts, ThreadEnds, TaskDone, CalculationFinished,
         Advance, Settle, fileVars
    <2> QED BY <2>1, <2>2, <2>3, <2>4, <2>5, <2>6, <2>7
  <1> QED BY <1>1, InductiveInvariant, PTL DEF Spec, ForeignFilesKept

----------------------------------------------------------------------------
\* The quota is about requests that were admitted and may still get, or already
\* got, a calculation.  Their number follows the counter while it is within the
\* limit and does not grow beyond it; Requests itself need not be finite.
Holding == {r \in Requests : calc[r] # "none" \/ req[r] \in {"body", "dispatch"}}

QuotaInv ==
    /\ IsFiniteSet(Holding)
    /\ Cardinality(Holding) <= counted
    /\ Cardinality(Holding) <= MaxRequests

\* Every step but an arrival leaves the counter alone and admits nobody.
LEMMA OnlyArrivalsAdmit ==
    ASSUME TypeOK, [Next]_vars, \A r \in Requests : ~Arrive(r)
    PROVE  Holding' \subseteq Holding /\ counted' = counted
  <1>1. CASE UNCHANGED vars
    BY <1>1 DEF vars, workVars, Holding
  <1>2. CASE StartSteps \/ ServerListens \/ ServerDrains \/ ServerCrashes \/ Shutdown
                \/ StopSteps \/ StopCancelled \/ Tick \/ Interfere
    BY <1>2 DEF StartSteps, Begin, MakeDirectory, OpenDirectory, BindSocket, InspectSocket,
        RecheckIdentities, ServerStarted, StartFails, ServerListens, ServerDrains,
        ServerCrashes, Shutdown, StopSteps, ServerStopped, LookAtSlot, StopCancelled,
        CalculationDrained, Proceed, UnlinkSocket,
        RemoveDirectory, Tick, Interfere, workVars, Holding
  <1>3. CASE ServerExits
    BY <1>3 DEF ServerExits, CancelPending, Holding, TypeOK
  <1>4. ASSUME NEW r \in Requests, RequestSteps(r) \/ CancelRequest(r)
        PROVE  Holding' \subseteq Holding /\ counted' = counted
    BY <1>4 DEF RequestSteps, ReceiveBody, Verify, Answer, CancelRequest, Settle,
        Holding, TypeOK
  <1>5. ASSUME NEW r \in Requests, Calculation(r)
        PROVE  Holding' \subseteq Holding /\ counted' = counted
    BY <1>5 DEF Calculation, ThreadStarts, ThreadEnds, TaskDone, CalculationFinished,
        Advance, Holding, TypeOK
  <1> QED BY <1>1, <1>2, <1>3, <1>4, <1>5 DEF Next, ServerSteps

LEMMA QuotaStep == TypeOK /\ QuotaInv /\ [Next]_vars => QuotaInv'
  <1> SUFFICES ASSUME TypeOK, QuotaInv, [Next]_vars PROVE QuotaInv'
    OBVIOUS
  <1>1. counted \in Nat /\ MaxRequests \in Nat /\ Cardinality(Holding) \in Nat
    BY LimitsAssumption, FS_CardinalityType DEF TypeOK, QuotaInv
  <1>2. ASSUME Holding' \subseteq Holding, counted' \in Nat, counted' >= counted
        PROVE  QuotaInv'
    <2>1. /\ IsFiniteSet(Holding')
          /\ Cardinality(Holding') <= Cardinality(Holding)
          /\ Cardinality(Holding') \in Nat
      BY <1>2, FS_Subset, FS_CardinalityType DEF QuotaInv
    <2> QED BY <1>1, <1>2, <2>1 DEF QuotaInv
  <1>3. ASSUME NEW r \in Requests, Arrive(r) PROVE QuotaInv'
    <2>1. counted' = counted + 1
      BY <1>3 DEF Arrive
    <2>2. CASE req' = [req EXCEPT ![r] = "rejected"] /\ UNCHANGED calc
      <3>1. Holding' \subseteq Holding
        BY <2>2 DEF Holding, TypeOK
      <3> QED BY <1>1, <1>2, <2>1, <3>1
    <2>3. CASE req' = [req EXCEPT ![r] = "body"] /\ UNCHANGED calc /\ counted' <= MaxRequests
      <3>1. Holding' = Holding \cup {r}
        BY <2>3 DEF Holding, TypeOK
      <3>2. /\ IsFiniteSet(Holding \cup {r})
            /\ Cardinality(Holding \cup {r}) <= Cardinality(Holding) + 1
        BY <1>1, FS_AddElement DEF QuotaInv
      <3>3. Cardinality(Holding \cup {r}) \in Nat
        BY <3>2, FS_CardinalityType
      <3> QED BY <1>1, <2>1, <2>3, <3>1, <3>2, <3>3 DEF QuotaInv
    <2>4. CASE ~Running \/ counted' > MaxRequests \/ age >= MaxSeconds
      BY <1>3, <2>2, <2>4 DEF Arrive, Settle
    <2>5. CASE ~(~Running \/ counted' > MaxRequests \/ age >= MaxSeconds)
      <3>1. counted' <= MaxRequests
        BY <1>1, <2>1, <2>5
      <3> QED BY <1>3, <2>3, <2>5, <3>1 DEF Arrive, Settle
    <2> QED BY <2>4, <2>5
  <1> QED BY <1>1, <1>2, <1>3, OnlyArrivalsAdmit

\* However bodies, rejections and cancellations interleave, no more than
\* MAX_REQUESTS requests are ever calculated for.
THEOREM QuotaRespected == Spec => []QuotaHolds
  <1>1. Init => QuotaInv
    <2> SUFFICES ASSUME Init PROVE QuotaInv
      OBVIOUS
    <2>1. Holding = {}
      BY DEF Init, Holding
    <2> QED BY <2>1, FS_EmptySet, LimitsAssumption DEF Init, QuotaInv
  <1>2. TypeOK /\ QuotaInv => QuotaHolds
    <2> SUFFICES ASSUME TypeOK, QuotaInv PROVE QuotaHolds
      OBVIOUS
    <2> DEFINE Calculated == {r \in Requests : calc[r] # "none"}
    <2>1. Calculated \subseteq Holding
      BY DEF Holding
    <2>2. /\ Cardinality(Calculated) <= Cardinality(Holding)
          /\ Cardinality(Calculated) \in Nat /\ Cardinality(Holding) \in Nat
      BY <2>1, FS_Subset, FS_CardinalityType DEF QuotaInv
    <2> QED BY <2>2, LimitsAssumption DEF QuotaInv, QuotaHolds
  <1> QED BY <1>1, <1>2, QuotaStep, TypeCorrect, PTL DEF Spec

----------------------------------------------------------------------------
\* Refinement.  Only four kinds of step change what the lease shows: start and
\* stop move LeaseState, a request begins work, a task's end finishes it.
LEMMA LifecycleRefines ==
    ASSUME IInv, StartSteps \/ Shutdown \/ StopSteps \/ StopCancelled
    PROVE  [Lease!Next]_(Lease!leaseVars)
  <1>1. calc' = calc /\ age' = age
    BY DEF StartSteps, StopSteps, Begin, MakeDirectory, OpenDirectory, BindSocket,
       InspectSocket, RecheckIdentities, ServerStarted, StartFails, Shutdown,
       ServerStopped, LookAtSlot, StopCancelled, CalculationDrained, UnlinkSocket,
       RemoveDirectory, workVars
  <1>2. AnyBusy' = AnyBusy
    BY <1>1 DEF AnyBusy, Busy
  <1>3. \/ LeaseState' = LeaseState
        \/ LeaseState = "unopened" /\ LeaseState' = "open"
        \/ LeaseState \in {"unopened", "open"} /\ LeaseState' = "closed"
        \/ LeaseState = "closed" /\ LeaseState' = "returned" /\ CalculationDrained
        \/ LeaseState = "closed" /\ LeaseState' = "abandoned"
    BY DEF IInv, LifecycleInv, LeaseState, StartSteps, StopSteps, Begin, MakeDirectory, OpenDirectory,
       BindSocket, InspectSocket, RecheckIdentities, ServerStarted, StartFails,
       Shutdown, ServerStopped, LookAtSlot, StopCancelled, CalculationDrained,
       UnlinkSocket, RemoveDirectory, Proceed, EnterStop
  <1>4. CalculationDrained => ~AnyBusy
    BY LimitsAssumption DEF IInv, LifecycleInv, CalculationDrained, AnyBusy, Busy, TypeOK
  <1> QED
    BY <1>1, <1>2, <1>3, <1>4
    DEF Lease!Next, Lease!leaseVars, Lease!Open, Lease!Close, Lease!Return, Lease!Abandon

LEMMA WorkRefines ==
    ASSUME IInv, NEW r \in Requests,
           Arrive(r) \/ RequestSteps(r) \/ CancelRequest(r) \/ Calculation(r)
    PROVE  [Lease!Next]_(Lease!leaseVars)
  <1>1. pc' = pc /\ age' = age
    BY DEF RequestSteps, Calculation, Arrive, ReceiveBody, Verify, Answer, CancelRequest,
       ThreadStarts, ThreadEnds, TaskDone, CalculationFinished, Advance, hostVars
  <1>2. LeaseState' = LeaseState
    BY <1>1 DEF LeaseState
  <1>3. CASE calc' = calc
    <2>1. AnyBusy' = AnyBusy
      BY <1>3 DEF AnyBusy, Busy
    <2> QED BY <1>1, <1>2, <2>1 DEF Lease!leaseVars
  <1>4. CASE Verify(r) /\ calc' # calc
    <2>1. /\ active /\ age < MaxSeconds /\ ~InferenceActive
          /\ calc' = [calc EXCEPT ![r] = "queued"]
      BY <1>4 DEF Verify, Settle, Running
    <2>2. LeaseState = "open"
      BY <2>1 DEF IInv, LifecycleInv, LeaseState
    <2>3. ~AnyBusy
      BY <2>1, LimitsAssumption DEF IInv, OneCalculation, InferenceActive, AnyBusy, Busy
    <2>4. AnyBusy'
      BY <2>1 DEF IInv, TypeOK, AnyBusy, Busy
    <2>5. AnyBusy' = TRUE
      BY <2>4 DEF AnyBusy
    <2> QED
      BY <1>1, <1>2, <2>1, <2>2, <2>3, <2>5 DEF Lease!Next, Lease!Begin
  <1>5. CASE ThreadStarts(r) \/ ThreadEnds(r)
    <2>1. Busy(r) /\ Busy(r)'
      BY <1>5 DEF ThreadStarts, ThreadEnds, Advance, Busy, IInv, TypeOK
    <2>2. AnyBusy' = AnyBusy
      BY <2>1 DEF AnyBusy
    <2> QED BY <1>1, <1>2, <2>2 DEF Lease!leaseVars
  <1>6. CASE TaskDone(r)
    <2>1. Busy(r) /\ ~Busy(r)' /\ \A q \in Requests \ {r} : Busy(q)' <=> Busy(q)
      BY <1>6 DEF TaskDone, Advance, Busy, IInv, TypeOK
    <2>2. AnyBusy /\ ~AnyBusy'
      BY <2>1 DEF IInv, OneCalculation, AnyBusy
    <2>3. AnyBusy' = FALSE
      BY <2>2 DEF AnyBusy
    <2> QED BY <1>1, <1>2, <2>2, <2>3 DEF Lease!Next, Lease!End
  <1>7. CASE CalculationFinished(r)
    <2>1. \A q \in Requests : Busy(q)' <=> Busy(q)
      BY <1>7 DEF CalculationFinished, Advance, Busy, IInv, TypeOK
    <2>2. AnyBusy' = AnyBusy
      BY <2>1 DEF AnyBusy
    <2> QED BY <1>1, <1>2, <2>2 DEF Lease!leaseVars
  <1> QED
    BY <1>3, <1>4, <1>5, <1>6, <1>7
    DEF RequestSteps, Calculation, Arrive, ReceiveBody, Answer, CancelRequest, Settle

\* The verifier implements the lease it promises, for any number of requests.
THEOREM ImplementsLeaseForAll == Spec => ImplementsLease
  <1>1. Init => Lease!Init
    <2> SUFFICES ASSUME Init PROVE Lease!Init
      OBVIOUS
    <2>1. LeaseState = "unopened" /\ age = 0
      BY DEF Init, LeaseState
    <2>2. ~AnyBusy
      BY DEF Init, AnyBusy, Busy
    <2>3. AnyBusy = FALSE
      BY <2>2 DEF AnyBusy
    <2> QED BY <2>1, <2>3 DEF Lease!Init
  <1>2. IInv /\ [Next]_vars => [Lease!Next]_(Lease!leaseVars)
    <2> DEFINE Maps == [Lease!Next]_(Lease!leaseVars)
    <2> SUFFICES ASSUME IInv, [Next]_vars PROVE Maps
      OBVIOUS
    <2>1. CASE Tick
      <3>1. LeaseState' = LeaseState /\ AnyBusy' = AnyBusy /\ LeaseState # "unopened"
        BY <2>1 DEF Tick, hostVars, workVars, LeaseState, AnyBusy, Busy, IInv, TypeOK, Stopping
      <3> QED BY <2>1, <3>1 DEF Tick, Lease!Next, Lease!Grow
    <2>2. CASE UNCHANGED <<pc, age, calc>>
      <3>1. LeaseState' = LeaseState /\ AnyBusy' = AnyBusy
        BY <2>2 DEF LeaseState, AnyBusy, Busy
      <3> QED BY <2>2, <3>1 DEF Lease!leaseVars
    <2>3. CASE ServerSteps \/ ServerCrashes
      <3>1. UNCHANGED <<pc, age, calc>>
        BY <2>3 DEF ServerSteps, ServerListens, ServerDrains, ServerExits,
           ServerCrashes, hostVars, workVars
      <3> QED BY <2>2, <3>1
    <2>4. CASE Interfere \/ UNCHANGED vars
      <3>1. UNCHANGED <<pc, age, calc>>
        BY <2>4 DEF Interfere, hostVars, workVars, vars
      <3> QED BY <2>2, <3>1
    <2>5. CASE StartSteps \/ Shutdown \/ StopSteps \/ StopCancelled
      BY <2>5, LifecycleRefines
    <2>6. ASSUME NEW r \in Requests,
                 Arrive(r) \/ RequestSteps(r) \/ CancelRequest(r) \/ Calculation(r)
          PROVE  Maps
      BY <2>6, WorkRefines
    <2> HIDE DEF Maps
    <2> QED BY <2>1, <2>3, <2>4, <2>5, <2>6 DEF Next
  <1> QED
    BY <1>1, <1>2, InductiveInvariant, PTL DEF Spec, ImplementsLease, Lease!Safety
=============================================================================
