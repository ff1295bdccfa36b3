------------------------ MODULE MeasurementPipeline -------------------------
(***************************************************************************)
(* simulator/main.py feeding POST /predict of backend/main.py.  The        *)
(* simulator sends one measurement at a time and goes on after a response, *)
(* an error or its 5 s timeout; the handler of a request it has given up   *)
(* keeps running on its worker thread, so handlers overlap.  The process   *)
(* may crash; the database keeps what was committed.                       *)
(***************************************************************************)
EXTENDS Naturals, Sequences, FiniteSets

CONSTANTS
    Measurements,  \* how many measurements the simulator generates (bound)
    Servers,       \* SERVER_COUNT
    Anomalies,     \* the measurements that the model labels ANOMALY
    None,
    MaxCrashes     \* bound on process crashes

ASSUME PipelineAssumption ==
    /\ Measurements \in Nat /\ Servers \in Nat \ {0} /\ MaxCrashes \in Nat
    /\ Anomalies \subseteq 1..Measurements
    /\ None \notin 1..Measurements

M == 1..Measurements
ServerOf(m) == ((m - 1) % Servers) + 1

\* Gauges are set one by one, in this order.
Gauges == <<"cpu", "memory", "temperature", "power">>

VARIABLES
    current,    \* measurement the simulator is sending, 0 before the first
    waiting,    \* it waits for the response
    outcome,    \* what it printed for each measurement: "none", "ok" or "error"
    handler,    \* state of the /predict handler of each measurement
    row,        \* id its INSERT was given, 0 if none
    stored,     \* committed rows, [id, m]
    nextId,     \* the table's AUTO_INCREMENT
    predictions,\* datacenter_predictions_total, by label
    anomalies,  \* datacenter_anomalies_total
    gauge,      \* last measurement written to each gauge of each server
    lostAcks,   \* history: commits whose confirmation was lost, this process
    base,       \* history: rows that were stored when this process started
    crashes

simVars == <<current, waiting, outcome>>
dbVars == <<row, stored, nextId>>
metricVars == <<predictions, anomalies, gauge>>
history == <<lostAcks, base, crashes>>
vars == <<simVars, handler, dbVars, metricVars, history>>

NoMetrics == [s \in 1..Servers |-> [g \in 1..Len(Gauges) |-> None]]

Init ==
    /\ current = 0 /\ waiting = FALSE
    /\ outcome = [m \in M |-> "none"]
    /\ handler = [m \in M |-> "none"]
    /\ row = [m \in M |-> 0]
    /\ stored = {} /\ nextId = 1
    /\ predictions = [ANOMALY |-> 0, NORMAL |-> 0] /\ anomalies = 0
    /\ gauge = NoMetrics
    /\ lostAcks = 0 /\ base = 0 /\ crashes = 0

----------------------------------------------------------------------------
(* The simulator *)

Send ==
    /\ ~waiting
    /\ current < Measurements
    /\ current' = current + 1
    /\ waiting' = TRUE
    /\ handler' = [handler EXCEPT ![current + 1] = "sent"]
    /\ UNCHANGED <<outcome, dbVars, metricVars, history>>

Settle(printed) ==
    /\ waiting' = FALSE
    /\ outcome' = [outcome EXCEPT ![current] = printed]

ReceiveResponse ==
    /\ waiting
    /\ handler[current] \in {"ok", "failed"}
    /\ Settle(IF handler[current] = "ok" THEN "ok" ELSE "error")
    /\ UNCHANGED <<current, handler, dbVars, metricVars, history>>

\* 5 s pass without a response, or the connection breaks: printed, not resent.
BugResend ==
    /\ waiting
    /\ handler[current] # "sent"
    /\ handler' = [handler EXCEPT ![current] = "sent"]
    /\ UNCHANGED <<simVars, dbVars, metricVars, history>>
BugWaitForever == FALSE /\ UNCHANGED vars

GiveUp ==
    /\ waiting
    /\ Settle("error")
    /\ UNCHANGED <<current, handler, dbVars, metricVars, history>>

----------------------------------------------------------------------------
(* The handler of POST /predict, on a worker thread *)

Moves(m, from, to) ==
    /\ handler[m] = from
    /\ handler' = [handler EXCEPT ![m] = to]

Label(m) == IF m \in Anomalies THEN "ANOMALY" ELSE "NORMAL"

BugCountInsideTransaction(m) ==
    /\ Moves(m, "sent", "inserted")
    /\ row' = [row EXCEPT ![m] = nextId]
    /\ nextId' = nextId + 1
    /\ predictions' = [predictions EXCEPT ![Label(m)] = @ + 1]
    /\ anomalies' = anomalies + (IF m \in Anomalies THEN 1 ELSE 0)
    /\ UNCHANGED <<simVars, stored, gauge, history>>

\* infer() and the INSERT inside `with engine.begin()`; the id is given out here.
Insert(m) ==
    /\ Moves(m, "sent", "inserted")
    /\ row' = [row EXCEPT ![m] = nextId]
    /\ nextId' = nextId + 1
    /\ UNCHANGED <<simVars, stored, metricVars, history>>

\* No connection, a failed statement or a rejected commit: rolled back, 503.
SaveFails(m) ==
    /\ \/ Moves(m, "sent", "failed")
       \/ Moves(m, "inserted", "failed")
    /\ UNCHANGED <<simVars, dbVars, metricVars, history>>

\* engine.connect() in place of engine.begin(): nothing is ever committed.
BugNoCommit(m) ==
    /\ Moves(m, "inserted", "saved")
    /\ UNCHANGED <<simVars, dbVars, metricVars, history>>

Commit(m) ==
    /\ Moves(m, "inserted", "saved")
    /\ stored' = stored \cup {[id |-> row[m], m |-> m]}
    /\ UNCHANGED <<simVars, row, nextId, metricVars, history>>

\* The commit takes effect but its confirmation is lost: 503 all the same.
CommitUnconfirmed(m) ==
    /\ Moves(m, "inserted", "failed")
    /\ stored' = stored \cup {[id |-> row[m], m |-> m]}
    /\ lostAcks' = lostAcks + 1
    /\ UNCHANGED <<simVars, row, nextId, metricVars, base, crashes>>

\* The counters are incremented one after the other; other handlers, a scrape or
\* the end of the process can come between.
CountPrediction(m) ==
    /\ Moves(m, "saved", IF m \in Anomalies THEN "counted" ELSE "gauge1")
    /\ predictions' = [predictions EXCEPT ![Label(m)] = @ + 1]
    /\ UNCHANGED <<simVars, dbVars, anomalies, gauge, history>>

CountAnomaly(m) ==
    /\ Moves(m, "counted", "gauge1")
    /\ anomalies' = anomalies + 1
    /\ UNCHANGED <<simVars, dbVars, predictions, gauge, history>>

GaugePoint == <<"gauge1", "gauge2", "gauge3", "gauge4", "ok">>

SetGauge(m) == \E g \in 1..Len(Gauges) :
    /\ Moves(m, GaugePoint[g], GaugePoint[g + 1])
    /\ gauge' = [gauge EXCEPT ![ServerOf(m)][g] = m]
    /\ UNCHANGED <<simVars, dbVars, predictions, anomalies, history>>

\* The process dies: handlers and metrics are gone, open transactions roll back.
InFlight == {m \in M : handler[m] \notin {"none", "ok", "failed"}}

Crash ==
    /\ crashes < MaxCrashes
    /\ crashes' = crashes + 1
    /\ handler' = [m \in M |-> IF m \in InFlight THEN "failed" ELSE handler[m]]
    /\ predictions' = [ANOMALY |-> 0, NORMAL |-> 0] /\ anomalies' = 0
    /\ gauge' = NoMetrics
    /\ lostAcks' = 0 /\ base' = Cardinality(stored)
    /\ UNCHANGED <<simVars, dbVars>>

Simulator == Send \/ ReceiveResponse \/ GiveUp
Handler(m) == Insert(m) \/ SaveFails(m) \/ Commit(m) \/ CommitUnconfirmed(m)
                 \/ CountPrediction(m) \/ CountAnomaly(m) \/ SetGauge(m)

Next == Simulator \/ Crash \/ \E m \in M : Handler(m)

\* Only the simulator's own steps are fair: a database or a handler may hang.
Spec == Init /\ [][Next]_vars /\ WF_vars(Simulator)

----------------------------------------------------------------------------
IsStored(m) == \E r \in stored : r.m = m

\* A measurement is stored at most once, and one that was reported OK is stored:
\* a timeout may hide a stored row from the simulator but never doubles it.
StoredOnceIfReported ==
    /\ \A r, s \in stored : r.m = s.m \/ r.id = s.id => r = s
    /\ \A m \in M : outcome[m] = "ok" => IsStored(m)

\* Since its start, the process counted at most the rows it stored, and of the
\* predictions it counted at most the anomalies have raised the alarm: at no moment
\* does either counter run ahead.  Once no handler is in flight the only uncounted
\* rows are those it answered 503 for, and every anomaly it counted has raised the
\* alarm.  (A scrape collects them one after the other and may see them otherwise.)
MetricsMatchRows ==
    LET counted == predictions.ANOMALY + predictions.NORMAL
        added == Cardinality(stored) - base
    IN /\ counted <= added
       /\ anomalies <= predictions.ANOMALY
       /\ InFlight = {} => /\ counted + lostAcks = added
                            /\ anomalies = predictions.ANOMALY

\* Every gauge shows a stored measurement of its own server.
GaugesShowStoredRows ==
    \A s \in 1..Servers, g \in 1..Len(Gauges) :
        gauge[s][g] # None => ServerOf(gauge[s][g]) = s /\ IsStored(gauge[s][g])

\* The simulator gets through its measurements even if a handler hangs.
SimulatorProceeds == <>(current = Measurements /\ ~waiting)

\* What the gauges' help texts say ("Latest CPU usage", ...): once no handler is
\* in flight, a server's gauges show its latest measurement that was counted.
GaugesShowLatest ==
    InFlight = {} /\ crashes = 0 =>
        \A s \in 1..Servers, g \in 1..Len(Gauges) :
            \A m \in M : handler[m] = "ok" /\ ServerOf(m) = s => gauge[s][g] >= m

\* Handlers that overlap, hang, die or are given up together behave as one feed:
\* each measurement is recorded once or not at all, counted once or not at all,
\* raises the alarm only when it is counted, is told only when it is recorded and
\* shown only when nothing is owed for it, and no record is ever taken back.
Feed == INSTANCE MeasurementFeed WITH
    Home <- [m \in M |-> ServerOf(m)],
    Dials <- 1..Len(Gauges),
    Nothing <- NoMetrics,
    taken <- current,
    table <- stored,
    told <- {m \in M : outcome[m] = "ok"},
    owed <- {m \in M : handler[m] = "saved"},
    due <- {m \in M : handler[m] = "counted"},
    counted <- predictions.ANOMALY + predictions.NORMAL,
    alarms <- anomalies,
    shown <- gauge

ImplementsFeed == Feed!Spec
=============================================================================
