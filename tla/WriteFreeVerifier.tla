------------------------- MODULE WriteFreeVerifier --------------------------
(***************************************************************************)
(* backend/write_free_verifier.py with the hooks of backend/main.py that   *)
(* start and stop it: an auxiliary HTTP server on a private Unix socket,   *)
(* sharing the application's event loop and model.  Event-loop callbacks   *)
(* interleave between awaits; the calculation runs on a worker thread;     *)
(* other processes may touch the socket's directory.                       *)
(***************************************************************************)
EXTENDS Naturals, FiniteSets

CONSTANTS
    Requests,      \* HTTP requests that clients may send
    None,          \* Python's None
    MaxRequests,   \* MAX_REQUESTS
    MaxSeconds     \* MAX_SECONDS, in ticks

ASSUME LimitsAssumption ==
    /\ None \notin Requests
    /\ MaxRequests \in Nat
    /\ MaxSeconds \in Nat

VARIABLES
    pc,           \* where start(), serving and stop() stand
    ready,        \* app.state.startup_complete, read through ready_provider
    active,       \* _active
    server,       \* state of _server_task
    stopAsked,    \* _server.should_exit
    age,          \* _clock() - _started_at, capped at MaxSeconds
    counted,      \* _requests
    req,          \* state of each request's task
    calc,         \* state of the asyncio task each request created, if any
    slot,         \* _inference_task
    drained,      \* `task` of stop(): the calculation it waits for
    cut,          \* CancelledError ended stop()'s wait for it
    held,         \* identities recorded: "dir", "fd", "socket"
    path,         \* whose directory SOCKET_DIRECTORY names
    entry,        \* what inference.sock is inside our and inside a foreign directory
    tampered      \* another process has interfered (at most once)

hostVars == <<pc, ready, active, stopAsked, drained, cut>>
workVars == <<counted, req, calc, slot>>
fileVars == <<held, path, entry, tampered>>
vars == <<hostVars, server, age, workVars, fileVars>>

Stopping == {"await_server", "await_calc", "unlink", "rmdir", "stopped"}

Init ==
    /\ pc = "new" /\ ready = TRUE /\ active = FALSE /\ stopAsked = FALSE
    /\ drained = None /\ cut = FALSE /\ server = "none" /\ age = 0
    /\ counted = 0
    /\ req = [r \in Requests |-> "unsent"]
    /\ calc = [r \in Requests |-> "none"]
    /\ slot = None
    /\ held = {}
    /\ path \in {"none", "foreign"}          \* a stale directory may be there
    /\ entry = [own |-> "none", foreign |-> "none"]
    /\ tampered = (path = "foreign")

----------------------------------------------------------------------------
(* start() *)

\* stop() up to its first await: no new work, and the server is asked to exit.
BugStopForgetsServer ==
    /\ pc' = "await_server"
    /\ active' = FALSE
    /\ UNCHANGED <<ready, stopAsked, drained, cut>>
EnterStop ==
    /\ pc' = "await_server"
    /\ active' = FALSE
    /\ stopAsked' = TRUE
    /\ UNCHANGED <<ready, drained, cut>>

Proceed(point) ==
    /\ pc' = point
    /\ UNCHANGED <<ready, active, stopAsked, drained, cut>>

\* Worker, readiness and model checks; any of them may reject the start.
Begin ==
    /\ pc = "new"
    /\ Proceed("mkdir") \/ EnterStop
    /\ UNCHANGED <<server, age, workVars, fileVars>>

\* mkdir never adopts an existing directory; the new one's identity is kept,
\* unless it cannot be inspected or is not as it was asked for.  Here and below
\* every system call may also fail on its own account.
MakeDirectory ==
    /\ pc = "mkdir"
    /\ \/ path = "none" /\ path' = "own" /\ held' = {"dir"} /\ Proceed("open")
       \/ path = "none" /\ path' = "own" /\ UNCHANGED held /\ EnterStop
       \/ UNCHANGED <<path, held>> /\ EnterStop
    /\ UNCHANGED <<server, age, workVars, entry, tampered>>

OpenDirectory ==
    /\ pc = "open"
    /\ held' \in {held, held \cup {"fd"}}
    /\ \/ path = "own" /\ "fd" \in held' /\ Proceed("bind")
       \/ EnterStop
    /\ UNCHANGED <<server, age, workVars, path, entry, tampered>>

\* bind() resolves the path, not the directory descriptor.
BindSocket ==
    /\ pc = "bind"
    /\ \/ /\ entry[path] = "none"
          /\ entry' = [entry EXCEPT ![path] = "own"]
          /\ Proceed("inspect")
       \/ UNCHANGED entry /\ EnterStop
    /\ UNCHANGED <<server, age, workVars, held, path, tampered>>

\* stat() through the descriptor: our socket's identity, or a failure.
InspectSocket ==
    /\ pc = "inspect"
    /\ \/ entry.own = "own" /\ held' = held \cup {"socket"} /\ Proceed("recheck")
       \/ UNCHANGED held /\ EnterStop
    /\ UNCHANGED <<server, age, workVars, path, entry, tampered>>

\* After chmod: socket and directory are still the ones that were created.
RecheckIdentities ==
    /\ pc = "recheck"
    /\ \/ entry.own = "own" /\ path = "own" /\ Proceed("waiting") /\ server' = "starting"
       \/ EnterStop /\ UNCHANGED server
    /\ UNCHANGED <<age, workVars, fileVars>>

\* The poll of `started`, which stays set when the server fails after it was
\* up: start() succeeds in that case too.
ServerStarted ==
    /\ pc = "waiting"
    /\ server \in {"listening", "failed"}
    /\ pc' = "active"
    /\ active' = TRUE
    /\ UNCHANGED <<ready, stopAsked, drained, cut, server, age, workVars, fileVars>>

\* The server ended without ever having started, or the poll timed out.
StartFails ==
    /\ pc = "waiting"
    /\ EnterStop
    /\ UNCHANGED <<server, age, workVars, fileVars>>

----------------------------------------------------------------------------
(* The uvicorn server's own task, on the same loop *)

ServerListens ==
    /\ server = "starting"
    /\ server' = IF stopAsked THEN "dead" ELSE "listening"
    /\ UNCHANGED <<hostVars, age, workVars, fileVars>>

ServerCrashes ==
    /\ server \in {"starting", "listening"}
    /\ server' = IF server = "listening" THEN "failed" ELSE "dead"
    /\ UNCHANGED <<hostVars, age, workVars, fileVars>>

ServerDrains ==
    /\ server = "listening"
    /\ stopAsked
    /\ server' = "draining"
    /\ UNCHANGED <<hostVars, age, workVars, fileVars>>

Pending == {r \in Requests : req[r] \in {"body", "dispatch", "awaiting"}}

\* timeout_graceful_shutdown: what is still pending is cancelled.
CancelPending == req' = [r \in Requests |-> IF r \in Pending THEN "cancelled" ELSE req[r]]

ServerExits ==
    /\ server = "draining"
    /\ server' = "dead"
    /\ CancelPending
    /\ UNCHANGED <<hostVars, age, counted, calc, slot, fileVars>>

----------------------------------------------------------------------------
(* One HTTP request: _RequestBoundary, then _verify *)

Running == active /\ server \in {"starting", "listening", "draining"}

Settle(r, state) ==
    /\ req' = [req EXCEPT ![r] = state]
    /\ UNCHANGED <<calc, slot>>

\* Counting and the checks that follow contain no await.
BugCheckBeforeCount(r) ==
    /\ server = "listening"
    /\ req[r] = "unsent"
    /\ counted' = counted + 1
    /\ Settle(r, IF ~Running \/ counted > MaxRequests \/ age >= MaxSeconds
                 THEN "rejected" ELSE "body")
    /\ UNCHANGED <<hostVars, server, age, fileVars>>

Arrive(r) ==
    /\ server = "listening"
    /\ req[r] = "unsent"
    /\ counted' = counted + 1
    /\ Settle(r, IF ~Running \/ counted' > MaxRequests \/ age >= MaxSeconds
                 THEN "rejected" ELSE "body")
    /\ UNCHANGED <<hostVars, server, age, fileVars>>

\* The body is complete, or: disconnect (no response), too large, too slow.
ReceiveBody(r) ==
    /\ req[r] = "body"
    /\ Settle(r, "dispatch") \/ Settle(r, "rejected")
    /\ UNCHANGED <<hostVars, server, age, counted, fileVars>>

InferenceActive ==
    slot # None /\ calc[slot] \in {"queued", "native", "returned"}

\* _verify up to its first await; a body that fails validation is rejected too.
BugVerifyTrustsAdmission(r) ==
    /\ req[r] = "dispatch"
    /\ \/ Settle(r, "rejected")
       \/ /\ ~InferenceActive
          /\ req' = [req EXCEPT ![r] = "awaiting"]
          /\ calc' = [calc EXCEPT ![r] = "queued"]
          /\ slot' = r
    /\ UNCHANGED <<hostVars, server, age, counted, fileVars>>

Verify(r) ==
    /\ req[r] = "dispatch"
    /\ \/ Settle(r, "rejected")
       \/ /\ Running /\ age < MaxSeconds /\ ready /\ ~InferenceActive
          /\ req' = [req EXCEPT ![r] = "awaiting"]
          /\ calc' = [calc EXCEPT ![r] = "queued"]
          /\ slot' = r
    /\ UNCHANGED <<hostVars, server, age, counted, fileVars>>

\* The caller goes away; the shielded calculation is left running.
CancelRequest(r) ==
    /\ req[r] \in {"body", "dispatch", "awaiting"}
    /\ Settle(r, "cancelled")
    /\ UNCHANGED <<hostVars, server, age, counted, fileVars>>

\* The response: the result, or 503 when the calculation raised.
Answer(r) ==
    /\ req[r] = "awaiting"
    /\ calc[r] = "closed"
    /\ Settle(r, "answered")
    /\ UNCHANGED <<hostVars, server, age, counted, fileVars>>

----------------------------------------------------------------------------
(* The calculation: worker thread, its completion on the loop, the callback *)

Advance(r, from, to) ==
    /\ calc[r] = from
    /\ calc' = [calc EXCEPT ![r] = to]
    /\ UNCHANGED <<hostVars, server, age, counted, req, fileVars>>

ThreadStarts(r) == Advance(r, "queued", "native") /\ UNCHANGED slot
ThreadEnds(r)   == Advance(r, "native", "returned") /\ UNCHANGED slot
TaskDone(r)     == Advance(r, "returned", "done") /\ UNCHANGED slot

\* _calculation_finished clears the slot only if it still holds this task.
BugCallbackClears(r) == Advance(r, "done", "closed") /\ slot' = None
CalculationFinished(r) ==
    /\ Advance(r, "done", "closed")
    /\ slot' = IF slot = r THEN None ELSE slot

----------------------------------------------------------------------------
(* The application's shutdown hook, and the rest of stop() *)

Shutdown ==
    /\ pc = "active"
    /\ ready' = FALSE
    /\ pc' = "await_server"
    /\ active' = FALSE
    /\ stopAsked' = TRUE
    /\ UNCHANGED <<drained, cut, server, age, workVars, fileVars>>

\* The wait for the server is over; `task` is read from the slot.
LookAtSlot ==
    /\ pc = "await_server"
    /\ pc' = "await_calc"
    /\ drained' = slot
    /\ UNCHANGED <<ready, active, stopAsked, cut, server, age, workVars, fileVars>>

ServerStopped == server \in {"none", "dead", "failed"} /\ LookAtSlot

CalculationDrained ==
    /\ pc = "await_calc"
    /\ drained # None => calc[drained] \in {"done", "closed"}
    /\ Proceed("unlink")
    /\ UNCHANGED <<server, age, workVars, fileVars>>

\* The task that runs stop() is cancelled.  While it waits for the server the
\* CancelledError is swallowed, and stop() goes on although the server may still
\* be up; while it waits for the calculation it leaves through the `finally`.
BugCancelSkipsDrain ==
    /\ pc = "await_server" /\ server # "none"
    /\ Proceed("unlink")
    /\ UNCHANGED <<server, age, workVars, fileVars>>
StopCancelled ==
    \/ server # "none" /\ LookAtSlot
    \/ /\ pc = "await_calc" /\ drained # None
       /\ pc' = "unlink" /\ cut' = TRUE
       /\ UNCHANGED <<ready, active, stopAsked, drained, server, age, workVars, fileVars>>

\* _cleanup: only inodes whose identity was recorded, only if still the same.
BugUnlinkByName ==
    /\ pc = "unlink"
    /\ entry' = IF "fd" \in held THEN [entry EXCEPT !.own = "none"] ELSE entry
    /\ Proceed("rmdir")
    /\ UNCHANGED <<server, age, workVars, held, path, tampered>>

UnlinkSocket ==
    /\ pc = "unlink"
    /\ entry' = IF {"fd", "socket"} \subseteq held /\ entry.own = "own"
                THEN [entry EXCEPT !.own = "none"] ELSE entry
    /\ Proceed("rmdir")
    /\ UNCHANGED <<server, age, workVars, held, path, tampered>>

\* start()'s caller, or the shutdown hook before it, has also closed the gate.
BugRemoveOnlyIfSocket ==
    /\ pc = "rmdir"
    /\ path' = IF "socket" \in held /\ path = "own" /\ entry.own = "none"
               THEN "none" ELSE path
    /\ pc' = "stopped" /\ ready' = FALSE
    /\ UNCHANGED <<active, stopAsked, drained, cut, server, age, workVars, held, entry, tampered>>

RemoveDirectory ==
    /\ pc = "rmdir"
    /\ path' = IF "dir" \in held /\ path = "own" /\ entry.own = "none"
               THEN "none" ELSE path
    /\ pc' = "stopped"
    /\ ready' = FALSE
    /\ UNCHANGED <<active, stopAsked, drained, cut, server, age, workVars, held, entry, tampered>>

----------------------------------------------------------------------------
(* The environment *)

Tick ==
    /\ pc \notin {"new", "mkdir", "open", "bind", "inspect", "recheck", "waiting"}
    /\ age < MaxSeconds
    /\ age' = age + 1
    /\ UNCHANGED <<hostVars, server, workVars, fileVars>>

\* Another process replaces our directory, or the entry in it, once, by something
\* that is not a socket of the application's own user.  Between
\* the identity check and the removal of cleanup there is nothing to detect it
\* with: interference is modelled up to the beginning of cleanup.
Interfere ==
    /\ ~tampered
    /\ pc \notin {"unlink", "rmdir", "stopped"}
    /\ tampered' = TRUE
    /\ \/ path \in {"none", "own"} /\ path' = "foreign" /\ UNCHANGED entry
       \/ path = "own" /\ entry' = [entry EXCEPT !.own = "foreign"] /\ UNCHANGED path
    /\ UNCHANGED <<hostVars, server, age, workVars, held>>

----------------------------------------------------------------------------
StartSteps == Begin \/ MakeDirectory \/ OpenDirectory \/ BindSocket \/ InspectSocket
                 \/ RecheckIdentities \/ ServerStarted \/ StartFails
ServerSteps == ServerListens \/ ServerDrains \/ ServerExits
StopSteps == ServerStopped \/ CalculationDrained \/ UnlinkSocket \/ RemoveDirectory
Calculation(r) == ThreadStarts(r) \/ ThreadEnds(r) \/ TaskDone(r) \/ CalculationFinished(r)
RequestSteps(r) == ReceiveBody(r) \/ Verify(r) \/ Answer(r)

Next ==
    \/ StartSteps \/ ServerSteps \/ ServerCrashes \/ Shutdown \/ StopSteps
    \/ StopCancelled \/ Tick \/ Interfere
    \/ \E r \in Requests : Arrive(r) \/ RequestSteps(r) \/ CancelRequest(r) \/ Calculation(r)

\* The event loop runs every ready callback, calculations end, uvicorn's
\* shutdown is bounded by its graceful timeout.  Clients owe nothing, and the
\* application need not ever be shut down.
Fairness ==
    /\ WF_vars(StartSteps) /\ WF_vars(ServerSteps) /\ WF_vars(StopSteps)
    /\ \A r \in Requests : WF_vars(Calculation(r)) /\ WF_vars(RequestSteps(r))

Spec == Init /\ [][Next]_vars
FairSpec == Spec /\ Fairness

----------------------------------------------------------------------------
TypeOK ==
    /\ pc \in {"new", "mkdir", "open", "bind", "inspect", "recheck", "waiting", "active"}
                 \cup Stopping
    /\ ready \in BOOLEAN /\ active \in BOOLEAN /\ stopAsked \in BOOLEAN /\ cut \in BOOLEAN
    /\ server \in {"none", "starting", "listening", "draining", "dead", "failed"}
    /\ age \in 0..MaxSeconds
    /\ counted \in Nat
    /\ req \in [Requests -> {"unsent", "body", "dispatch", "awaiting", "answered",
                             "rejected", "cancelled"}]
    /\ calc \in [Requests -> {"none", "queued", "native", "returned", "done", "closed"}]
    /\ slot \in Requests \cup {None} /\ drained \in Requests \cup {None}
    /\ held \subseteq {"dir", "fd", "socket"}
    /\ path \in {"none", "own", "foreign"}
    /\ entry \in [{"own", "foreign"} -> {"none", "own", "foreign"}]
    /\ tampered \in BOOLEAN

Busy(r) == calc[r] \in {"queued", "native", "returned"}

\* The slot names the calculation that runs, so there is never a second one:
\* not after its caller was cancelled, nor when the callback of an earlier
\* calculation runs late.
OneCalculation == \A r \in Requests : Busy(r) => slot = r

\* At most MAX_REQUESTS requests ever get as far as a calculation, however
\* their bodies and rejections interleave.
QuotaHolds == Cardinality({r \in Requests : calc[r] # "none"}) <= MaxRequests

\* Nobody else's directory or file is ever removed or overwritten.
ForeignFilesKept ==
    [][/\ path = "foreign" => path' = "foreign"
       /\ entry.own = "foreign" => entry'.own = "foreign"]_vars

\* If nobody interfered, a start that failed at any step and an orderly
\* shutdown both undo what start() recorded: an identified socket is gone, and
\* so is the directory, unless a socket that could not be inspected is in it.
NothingLeftBehind ==
    pc = "stopped" /\ ~tampered =>
        /\ "socket" \in held => entry.own = "none"
        /\ "dir" \in held /\ entry.own = "none" => path = "none"

LeaseState ==
    CASE pc = "active" -> "open"
      [] pc \in {"await_server", "await_calc"} -> "closed"
      [] pc \in {"unlink", "rmdir", "stopped"} -> IF cut THEN "abandoned" ELSE "returned"
      [] OTHER -> "unopened"

AnyBusy == \E r \in Requests : Busy(r)

Lease == INSTANCE InferenceLease WITH
    Term <- MaxSeconds, lease <- LeaseState, busy <- AnyBusy

\* The verifier implements the lease: one calculation at a time, none after
\* expiry or after stop began, and cleanup only when none is running, unless
\* stop() was cancelled during its wait for exactly that; a cancellation while
\* it waits for the server does not shorten the second wait.
ImplementsLease == Lease!Safety

\* A shutdown, or a failed start, completes, whatever clients do meanwhile.
StopCompletes == (pc = "await_server") ~> (pc = "stopped")
=============================================================================
