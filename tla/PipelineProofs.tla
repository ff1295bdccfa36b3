--------------------------- MODULE PipelineProofs ---------------------------
(***************************************************************************)
(* Proofs about MeasurementPipeline, for any number of measurements,       *)
(* servers and crashes: no row is doubled or lost behind a reported OK,    *)
(* the counters agree with the table, and gauges show stored rows.         *)
(***************************************************************************)
EXTENDS MeasurementPipeline, FiniteSetTheorems, TLAPS

HandlerStates == {"none", "sent", "inserted", "saved", "counted", "gauge1", "gauge2",
                  "gauge3", "gauge4", "ok", "failed"}

\* States of a handler whose row is known to be committed.
Confirmed == {"saved", "counted", "gauge1", "gauge2", "gauge3", "gauge4", "ok"}

TypeInv ==
    /\ current \in 0..Measurements
    /\ waiting \in BOOLEAN
    /\ waiting => current \in M
    /\ outcome \in [M -> {"none", "ok", "error"}]
    /\ handler \in [M -> HandlerStates]
    /\ row \in [M -> Nat]
    /\ nextId \in Nat \ {0}
    /\ stored \subseteq [id : Nat, m : M]
    /\ gauge \in [1..Servers -> [1..4 -> M \cup {None}]]

MetricTypes ==
    /\ predictions \in [ANOMALY : Nat, NORMAL : Nat]
    /\ anomalies \in Nat
    /\ lostAcks \in Nat
    /\ base \in Nat

\* A row has the id its INSERT was given, no two inserts were given the same,
\* and nothing is stored for a handler that has not got as far as its commit.
RowInv ==
    /\ \A m \in M : m > current => handler[m] = "none"
    /\ \A m \in M : handler[m] = "inserted" => row[m] # 0
    /\ \A m \in M : row[m] < nextId
    /\ \A m, n \in M : row[m] # 0 /\ m # n => row[m] # row[n]
    /\ \A r \in stored : r.id = row[r.m] /\ row[r.m] # 0
    /\ \A m \in M : handler[m] \in {"none", "sent", "inserted"} => ~IsStored(m)
    /\ \A m \in M : handler[m] \in Confirmed => IsStored(m)
    /\ \A m \in M : outcome[m] = "ok" => IsStored(m)

\* The handlers that have come to some point of their code.
At(point) == {m \in M : handler[m] = point}

\* Every row of this process is counted, about to be, or was answered with 503;
\* every anomaly that is counted has raised the alarm or is about to.
CountInv ==
    /\ IsFiniteSet(stored)
    /\ Cardinality(stored) = base + predictions.ANOMALY + predictions.NORMAL
                                + lostAcks + Cardinality(At("saved"))
    /\ predictions.ANOMALY = anomalies + Cardinality(At("counted"))

IInv == TypeInv /\ MetricTypes /\ RowInv /\ GaugesShowStoredRows /\ CountInv

----------------------------------------------------------------------------
(* Handlers and the points they have come to *)

LEMMA GaugesAreFour == Len(Gauges) = 4
PROOF BY DEF Gauges

LEMMA HandlerMoves ==
    ASSUME TypeInv, NEW m \in M, NEW from, NEW to \in HandlerStates, Moves(m, from, to)
    PROVE  /\ handler' \in [M -> HandlerStates]
           /\ handler[m] = from /\ handler'[m] = to
           /\ \A n \in M \ {m} : handler'[n] = handler[n]
PROOF BY DEF Moves, TypeInv

LEMMA AtIsFinite ==
    ASSUME TypeInv, NEW point
    PROVE  IsFiniteSet(At(point)) /\ Cardinality(At(point)) \in Nat
PROOF
  <1>1. IsFiniteSet(M)
    BY PipelineAssumption, FS_Interval DEF M
  <1>2. At(point) \subseteq M
    BY DEF At
  <1> QED
    BY <1>1, <1>2, FS_Subset, FS_CardinalityType

LEMMA AtStays ==
    ASSUME NEW point, \A m \in M : handler[m] = point <=> handler'[m] = point
    PROVE  At(point)' = At(point)
PROOF BY DEF At

\* A handler that moves enters the set of the point it comes to ...
LEMMA AtGrows ==
    ASSUME TypeInv, NEW m \in M, NEW from, NEW to \in HandlerStates \ {from},
           Moves(m, from, to)
    PROVE  /\ At(to)' = At(to) \cup {m}
           /\ Cardinality(At(to)') = Cardinality(At(to)) + 1
PROOF
  <1>1. At(to)' = At(to) \cup {m} /\ m \notin At(to)
    BY HandlerMoves DEF At
  <1> QED
    BY <1>1, AtIsFinite, FS_AddElement

\* ... and leaves that of the point it comes from; all others stay as they are.
LEMMA AtShrinks ==
    ASSUME TypeInv, NEW m \in M, NEW from, NEW to \in HandlerStates \ {from},
           Moves(m, from, to)
    PROVE  /\ At(from)' = At(from) \ {m}
           /\ Cardinality(At(from)) = Cardinality(At(from)') + 1
           /\ Cardinality(At(from)') \in Nat
PROOF
  <1>1. /\ At(from) = At(from)' \cup {m} /\ m \notin At(from)'
        /\ At(from)' \subseteq At(from) /\ At(from)' = At(from) \ {m}
    BY HandlerMoves DEF At
  <1>2. IsFiniteSet(At(from)')
    BY <1>1, AtIsFinite, FS_Subset
  <1> QED
    BY <1>1, <1>2, FS_AddElement, FS_CardinalityType

LEMMA AtOthersStay ==
    ASSUME TypeInv, NEW m \in M, NEW from, NEW to \in HandlerStates,
           Moves(m, from, to), NEW point, point # from, point # to
    PROVE  At(point)' = At(point)
PROOF BY HandlerMoves DEF At

----------------------------------------------------------------------------
(* Rows *)

\* RowInv survives a step that stores nothing, reports nothing new as OK, and
\* takes no handler back to before its commit or past it.
LEMMA RowsKeep ==
    ASSUME TypeInv, RowInv, UNCHANGED <<row, stored, nextId>>,
           current' >= current,
           \A m \in M : m > current' => handler'[m] = "none",
           \A m \in M : handler'[m] = "inserted" => handler[m] = "inserted",
           \A m \in M : handler'[m] \in {"none", "sent"} => handler[m] \in {"none", "sent"},
           \A m \in M : handler'[m] \in Confirmed => handler[m] \in Confirmed,
           \A m \in M : outcome'[m] = "ok" => outcome[m] = "ok" \/ handler[m] = "ok"
    PROVE  RowInv'
PROOF
  <1>1. \A m \in M : IsStored(m)' <=> IsStored(m)
    BY DEF IsStored
  <1> QED
    BY <1>1 DEF RowInv, Confirmed

\* What is stored with a commit.
LEMMA CommitStores ==
    ASSUME TypeInv, RowInv, CountInv, NEW m \in M, handler[m] = "inserted",
           stored' = stored \cup {[id |-> row[m], m |-> m]}
    PROVE  /\ stored' \subseteq [id : Nat, m : M]
           /\ IsFiniteSet(stored') /\ Cardinality(stored') = Cardinality(stored) + 1
           /\ \A n \in M : IsStored(n)' <=> IsStored(n) \/ n = m
           /\ \A r \in stored' : r.id = row[r.m] /\ row[r.m] # 0
PROOF
  <1> DEFINE new == [id |-> row[m], m |-> m]
  <1>1. new \in [id : Nat, m : M] /\ new.id = row[m] /\ new.m = m
    BY DEF TypeInv
  <1>2. ~IsStored(m)
    BY DEF RowInv
  <1>3. new \notin stored
    BY <1>1, <1>2 DEF IsStored
  <1>4. IsFiniteSet(stored') /\ Cardinality(stored') = Cardinality(stored) + 1
    BY <1>3, FS_AddElement DEF CountInv
  <1>5. stored' \subseteq [id : Nat, m : M]
    BY <1>1 DEF TypeInv
  <1> HIDE DEF new
  <1>6. stored' = stored \cup {new}
    BY DEF new
  <1>7. \A n \in M : IsStored(n)' <=> IsStored(n) \/ n = m
    BY <1>1, <1>6 DEF IsStored
  <1>8. \A r \in stored' : r.id = row[r.m] /\ row[r.m] # 0
    BY <1>1, <1>6 DEF RowInv
  <1> QED
    BY <1>4, <1>5, <1>7, <1>8

\* RowInv survives a commit, whether or not the handler learns of it.
LEMMA RowsCommit ==
    ASSUME TypeInv, RowInv, CountInv, NEW m \in M, NEW to \in {"saved", "failed"},
           Moves(m, "inserted", to),
           stored' = stored \cup {[id |-> row[m], m |-> m]},
           UNCHANGED <<simVars, row, nextId>>
    PROVE  RowInv'
PROOF
  <1>1. /\ handler[m] = "inserted" /\ handler'[m] = to
        /\ \A n \in M \ {m} : handler'[n] = handler[n]
    BY HandlerMoves DEF HandlerStates
  <1>2. /\ \A n \in M : IsStored(n)' <=> IsStored(n) \/ n = m
        /\ \A r \in stored' : r.id = row[r.m] /\ row[r.m] # 0
    BY <1>1, CommitStores
  <1>3. \A n \in M : n > current' => handler'[n] = "none"
    BY <1>1 DEF RowInv, simVars
  <1>4. \A n \in M : handler'[n] = "inserted" => row'[n] # 0
    BY <1>1 DEF RowInv
  <1>5. \A n \in M : /\ handler'[n] \in {"none", "sent", "inserted"} => ~IsStored(n)'
                     /\ handler'[n] \in Confirmed => IsStored(n)'
                     /\ outcome'[n] = "ok" => IsStored(n)'
    BY <1>1, <1>2 DEF RowInv, Confirmed, simVars
  <1> QED
    BY <1>2, <1>3, <1>4, <1>5 DEF RowInv

\* RowInv survives the INSERT, which takes the next id.
LEMMA RowsInsert ==
    ASSUME TypeInv, RowInv, NEW m \in M, Insert(m)
    PROVE  RowInv'
PROOF
  <1>1. /\ handler[m] = "sent" /\ handler'[m] = "inserted"
        /\ \A n \in M \ {m} : handler'[n] = handler[n]
    BY HandlerMoves DEF Insert, HandlerStates
  <1>2. /\ row'[m] = nextId /\ \A n \in M \ {m} : row'[n] = row[n]
        /\ nextId' = nextId + 1 /\ UNCHANGED <<current, outcome, stored>>
    BY DEF Insert, TypeInv, simVars
  <1>3. \A n \in M : row[n] \in Nat /\ row[n] < nextId
    BY DEF TypeInv, RowInv
  <1>4. nextId \in Nat /\ nextId # 0
    BY DEF TypeInv
  <1>5. \A n \in M : row'[n] < nextId'
    BY <1>2, <1>3, <1>4
  <1>6. \A k, n \in M : row'[k] # 0 /\ k # n => row'[k] # row'[n]
    BY <1>2, <1>3, <1>4 DEF RowInv
  <1>7. ~IsStored(m) /\ \A n \in M : IsStored(n)' <=> IsStored(n)
    BY <1>1, <1>2 DEF RowInv, IsStored
  <1>8. \A r \in stored' : r.id = row'[r.m] /\ row'[r.m] # 0
    BY <1>2, <1>7 DEF RowInv, IsStored, TypeInv
  <1>9. \A n \in M : /\ n > current' => handler'[n] = "none"
                     /\ handler'[n] = "inserted" => row'[n] # 0
    BY <1>1, <1>2, <1>4 DEF RowInv
  <1>10. \A n \in M : /\ handler'[n] \in {"none", "sent", "inserted"} => ~IsStored(n)'
                      /\ handler'[n] \in Confirmed => IsStored(n)'
                      /\ outcome'[n] = "ok" => IsStored(n)'
    BY <1>1, <1>2, <1>7 DEF RowInv, Confirmed
  <1> QED
    BY <1>5, <1>6, <1>8, <1>9, <1>10 DEF RowInv

----------------------------------------------------------------------------
(* The steps *)

\* A gauge keeps showing a stored row: rows are never deleted.
LEMMA GaugesKeep ==
    ASSUME GaugesShowStoredRows, UNCHANGED gauge, stored \subseteq stored'
    PROVE  GaugesShowStoredRows'
PROOF BY DEF GaugesShowStoredRows, IsStored

\* The simulator: its steps change no row, no counter and no gauge.
LEMMA SimulatorKeeps ==
    ASSUME IInv, Simulator
    PROVE  IInv'
PROOF
  <1>0. /\ TypeInv /\ MetricTypes /\ RowInv /\ CountInv /\ GaugesShowStoredRows
        /\ Measurements \in Nat
    BY PipelineAssumption DEF IInv
  <1>1. /\ UNCHANGED <<row, stored, nextId, predictions, anomalies, gauge, lostAcks, base>>
    BY DEF Simulator, Send, ReceiveResponse, GiveUp, dbVars, metricVars, history
  <1>2. GaugesShowStoredRows' /\ MetricTypes'
    BY <1>0, <1>1, GaugesKeep DEF MetricTypes
  <1>3. CASE Send
    <2>1. current + 1 \in M /\ current \in Nat
      BY <1>0, <1>3 DEF Send, TypeInv, M
    <2>2. /\ current' = current + 1 /\ waiting' = TRUE /\ outcome' = outcome
          /\ handler'[current + 1] = "sent"
          /\ \A m \in M \ {current + 1} : handler'[m] = handler[m]
      BY <1>0, <1>3, <2>1 DEF Send, TypeInv
    <2>3. handler[current + 1] = "none"
      BY <1>0, <2>1 DEF RowInv
    <2>4. handler' \in [M -> HandlerStates]
      BY <1>0, <1>3 DEF Send, TypeInv, HandlerStates
    <2>5. TypeInv'
      BY <1>0, <1>1, <2>1, <2>2, <2>4 DEF TypeInv, M
    <2>6. At("saved")' = At("saved") /\ At("counted")' = At("counted")
      BY <2>2, <2>3, AtStays
    <2>7. \A m \in M : m > current' => m > current /\ m # current + 1
      BY <2>1, <2>2 DEF M
    <2>8. RowInv'
      <3>1. \A m \in M : m > current' => handler'[m] = "none"
        BY <1>0, <2>2, <2>7 DEF RowInv
      <3>2. \A m \in M :
               /\ handler'[m] = "inserted" => handler[m] = "inserted"
               /\ handler'[m] \in {"none", "sent"} => handler[m] \in {"none", "sent"}
               /\ handler'[m] \in Confirmed => handler[m] \in Confirmed
        BY <2>2, <2>3 DEF Confirmed
      <3>3. current' >= current
        BY <2>1, <2>2
      <3> QED
        BY <1>0, <1>1, <2>2, <3>1, <3>2, <3>3, RowsKeep
    <2> QED
      BY <1>0, <1>1, <1>2, <2>5, <2>6, <2>8 DEF IInv, CountInv
  <1>4. CASE ReceiveResponse \/ GiveUp
    <2>1. UNCHANGED <<current, handler>> /\ waiting' = FALSE /\ current \in M
          /\ current' >= current
      BY <1>0, <1>4 DEF ReceiveResponse, GiveUp, Settle, TypeInv, M
    <2>2. TypeInv'
      BY <1>0, <1>1, <1>4, <2>1 DEF ReceiveResponse, GiveUp, Settle, TypeInv
    <2>3. \A m \in M : outcome'[m] = "ok" => outcome[m] = "ok" \/ handler[m] = "ok"
      BY <1>0, <1>4, <2>1 DEF ReceiveResponse, GiveUp, Settle, TypeInv
    <2>4. RowInv'
      <3>1. \A m \in M : m > current' => handler'[m] = "none"
        BY <1>0, <2>1 DEF RowInv
      <3> QED
        BY <1>0, <1>1, <2>1, <2>3, <3>1, RowsKeep
    <2>5. At("saved")' = At("saved") /\ At("counted")' = At("counted")
      BY <2>1 DEF At
    <2> QED
      BY <1>0, <1>1, <1>2, <2>2, <2>4, <2>5 DEF IInv, CountInv
  <1> QED
    BY <1>3, <1>4 DEF Simulator

\* A handler's step that stores nothing and that is neither a commit nor the
\* counting: it goes to a later state, or fails.
LEMMA MoveKeepsRows ==
    ASSUME TypeInv, RowInv, NEW m \in M, NEW from, NEW to \in HandlerStates,
           Moves(m, from, to), UNCHANGED <<simVars, row, stored, nextId>>,
           \/ from \in {"sent", "inserted"} /\ to = "failed"
           \/ from \in Confirmed /\ to \in Confirmed
    PROVE  RowInv'
PROOF
  <1>1. /\ handler[m] = from /\ handler'[m] = to
        /\ \A n \in M \ {m} : handler'[n] = handler[n]
    BY HandlerMoves
  <1>2. \A n \in M : n > current' => handler'[n] = "none"
    <2> SUFFICES ASSUME NEW n \in M, n > current' PROVE handler'[n] = "none"
      OBVIOUS
    <2>1. handler[n] = "none"
      BY DEF RowInv, simVars
    <2> QED
      BY <1>1, <2>1 DEF Confirmed
  <1>3. \A n \in M :
           /\ handler'[n] = "inserted" => handler[n] = "inserted"
           /\ handler'[n] \in {"none", "sent"} => handler[n] \in {"none", "sent"}
           /\ handler'[n] \in Confirmed => handler[n] \in Confirmed
    BY <1>1 DEF Confirmed
  <1>4. current' >= current /\ outcome' = outcome
    BY DEF simVars, TypeInv
  <1> QED
    BY <1>2, <1>3, <1>4, RowsKeep

LEMMA MoveKeepsTypes ==
    ASSUME TypeInv, NEW m \in M, NEW from, NEW to \in HandlerStates,
           Moves(m, from, to), UNCHANGED <<simVars, row, nextId, gauge>>,
           stored' \subseteq [id : Nat, m : M]
    PROVE  TypeInv'
PROOF
  <1>1. handler' \in [M -> HandlerStates]
    BY HandlerMoves
  <1> QED
    BY <1>1 DEF TypeInv, simVars

LEMMA InsertKeeps ==
    ASSUME IInv, NEW m \in M, Insert(m)
    PROVE  IInv'
PROOF
  <1>0. TypeInv /\ MetricTypes /\ RowInv /\ CountInv /\ GaugesShowStoredRows
    BY DEF IInv
  <1>1. handler' \in [M -> HandlerStates] /\ handler[m] = "sent" /\ handler'[m] = "inserted"
        /\ \A n \in M \ {m} : handler'[n] = handler[n]
    BY <1>0, HandlerMoves DEF Insert, HandlerStates
  <1>2. TypeInv'
    BY <1>0, <1>1 DEF Insert, TypeInv, simVars, metricVars
  <1>3. RowInv'
    BY <1>0, RowsInsert
  <1>4. At("saved")' = At("saved") /\ At("counted")' = At("counted")
    BY <1>1, AtStays
  <1>5. GaugesShowStoredRows'
    BY <1>0, GaugesKeep DEF Insert, metricVars
  <1> QED
    BY <1>0, <1>2, <1>3, <1>4, <1>5
    DEF IInv, Insert, MetricTypes, CountInv, metricVars, history

LEMMA SaveFailsKeeps ==
    ASSUME IInv, NEW m \in M, SaveFails(m)
    PROVE  IInv'
PROOF
  <1>0. TypeInv /\ MetricTypes /\ RowInv /\ CountInv /\ GaugesShowStoredRows
    BY DEF IInv
  <1>1. PICK from \in {"sent", "inserted"} : Moves(m, from, "failed")
    BY DEF SaveFails
  <1>2. UNCHANGED <<simVars, row, stored, nextId, predictions, anomalies, gauge,
                    lostAcks, base>>
    BY DEF SaveFails, dbVars, metricVars, history
  <1>3. TypeInv'
    BY <1>0, <1>1, <1>2, MoveKeepsTypes DEF HandlerStates, TypeInv
  <1>4. RowInv'
    <2>1. "failed" \in HandlerStates
      BY DEF HandlerStates
    <2>2. UNCHANGED <<simVars, row, stored, nextId>>
      BY <1>2
    <2>3. from \in {"sent", "inserted"}
      BY <1>1
    <2> QED
      BY <1>0, <1>1, <2>1, <2>2, <2>3, MoveKeepsRows
  <1>5. At("saved")' = At("saved") /\ At("counted")' = At("counted")
    <2>1. /\ handler[m] = from /\ handler'[m] = "failed"
          /\ \A n \in M \ {m} : handler'[n] = handler[n]
      BY <1>0, <1>1, HandlerMoves DEF HandlerStates
    <2> QED
      BY <1>1, <2>1, AtStays
  <1> QED
    BY <1>0, <1>2, <1>3, <1>4, <1>5, GaugesKeep DEF IInv, MetricTypes, CountInv

\* A commit adds one row; either the handler goes on to count it, or the
\* confirmation is lost.
LEMMA CommitKeeps ==
    ASSUME IInv, NEW m \in M, Commit(m) \/ CommitUnconfirmed(m)
    PROVE  IInv'
PROOF
  <1>0. TypeInv /\ MetricTypes /\ RowInv /\ CountInv /\ GaugesShowStoredRows
    BY DEF IInv
  <1>1. PICK to \in {"saved", "failed"} :
           /\ Moves(m, "inserted", to)
           /\ to = "saved" => lostAcks' = lostAcks
           /\ to = "failed" => lostAcks' = lostAcks + 1
    BY DEF Commit, CommitUnconfirmed, history
  <1>2. /\ stored' = stored \cup {[id |-> row[m], m |-> m]}
        /\ UNCHANGED <<simVars, row, nextId, predictions, anomalies, gauge, base>>
    BY DEF Commit, CommitUnconfirmed, metricVars, history
  <1>3. /\ handler[m] = "inserted" /\ handler'[m] = to
        /\ \A n \in M \ {m} : handler'[n] = handler[n]
    BY <1>0, <1>1, HandlerMoves DEF HandlerStates
  <1>4. /\ stored' \subseteq [id : Nat, m : M]
        /\ IsFiniteSet(stored') /\ Cardinality(stored') = Cardinality(stored) + 1
        /\ Cardinality(stored) \in Nat
    BY <1>0, <1>2, <1>3, CommitStores, FS_CardinalityType DEF CountInv
  <1>5. TypeInv'
    BY <1>0, <1>1, <1>2, <1>4, MoveKeepsTypes DEF HandlerStates
  <1>6. RowInv'
    BY <1>0, <1>1, <1>2, RowsCommit
  <1>7. GaugesShowStoredRows'
    BY <1>0, <1>2, GaugesKeep
  <1>8. lostAcks' \in Nat /\ MetricTypes'
    BY <1>0, <1>1, <1>2 DEF MetricTypes
  <1>9. CountInv'
    <2>1. predictions.ANOMALY \in Nat /\ predictions.NORMAL \in Nat
      BY <1>0 DEF MetricTypes
    <2>2. CASE to = "saved"
      <3>1. /\ Cardinality(At("saved")') = Cardinality(At("saved")) + 1
            /\ Cardinality(At("saved")) \in Nat /\ At("counted")' = At("counted")
        BY <1>0, <1>1, <2>2, AtGrows, AtOthersStay, AtIsFinite DEF HandlerStates
      <3> QED
        BY <1>0, <1>1, <1>2, <1>4, <2>1, <2>2, <3>1 DEF CountInv, MetricTypes
    <2>3. CASE to = "failed"
      <3>1. /\ At("saved")' = At("saved") /\ At("counted")' = At("counted")
            /\ Cardinality(At("saved")) \in Nat
        BY <1>0, <1>3, <2>3, AtStays, AtIsFinite
      <3> QED
        BY <1>0, <1>1, <1>2, <1>4, <2>1, <2>3, <3>1 DEF CountInv, MetricTypes
    <2> QED
      BY <2>2, <2>3
  <1> QED
    BY <1>5, <1>6, <1>7, <1>8, <1>9 DEF IInv

\* The counters: a handler leaves "saved" with the prediction counted, and an
\* anomaly comes to "counted", which it leaves with the alarm raised.
LEMMA CountPredictionKeeps ==
    ASSUME IInv, NEW m \in M, CountPrediction(m)
    PROVE  IInv'
PROOF
  <1>0. TypeInv /\ MetricTypes /\ RowInv /\ CountInv /\ GaugesShowStoredRows
    BY DEF IInv
  <1>1. PICK to \in {"counted", "gauge1"} :
           /\ Moves(m, "saved", to)
           /\ to = "counted" <=> m \in Anomalies
    BY DEF CountPrediction
  <1>2. UNCHANGED <<simVars, row, stored, nextId, anomalies, gauge, lostAcks, base>>
    BY DEF CountPrediction, dbVars, history
  <1>a. /\ to \in HandlerStates \ {"saved"} /\ "saved" \in Confirmed /\ to \in Confirmed
        /\ "counted" # "saved"
    BY DEF HandlerStates, Confirmed
  <1>3. TypeInv'
    BY <1>0, <1>1, <1>2, <1>a, MoveKeepsTypes DEF TypeInv
  <1>4. RowInv'
    <2>1. UNCHANGED <<simVars, row, stored, nextId>>
      BY <1>2
    <2> QED
      BY <1>0, <1>1, <1>a, <2>1, MoveKeepsRows
  <1>5. /\ Cardinality(At("saved")) = Cardinality(At("saved")') + 1
        /\ Cardinality(At("saved")') \in Nat
    BY <1>0, <1>1, <1>a, AtShrinks
  <1>6. GaugesShowStoredRows'
    BY <1>0, <1>2, GaugesKeep
  <1>7. Cardinality(At("saved")) \in Nat /\ Cardinality(At("counted")) \in Nat
    BY <1>0, AtIsFinite
  <1>8. MetricTypes' /\ CountInv'
    <2>1. CASE m \in Anomalies
      <3>1. /\ predictions'.ANOMALY = predictions.ANOMALY + 1
            /\ predictions'.NORMAL = predictions.NORMAL
            /\ predictions' \in [ANOMALY : Nat, NORMAL : Nat]
        BY <1>0, <2>1 DEF CountPrediction, Label, MetricTypes
      <3>2. Cardinality(At("counted")') = Cardinality(At("counted")) + 1
        <4>1. "counted" \in HandlerStates \ {"saved"} /\ Moves(m, "saved", "counted")
          BY <1>1, <1>a, <2>1
        <4> QED
          BY <1>0, <4>1, AtGrows
      <3> QED
        BY <1>0, <1>2, <1>5, <1>7, <3>1, <3>2 DEF CountInv, MetricTypes
    <2>2. CASE m \notin Anomalies
      <3>1. /\ predictions'.ANOMALY = predictions.ANOMALY
            /\ predictions'.NORMAL = predictions.NORMAL + 1
            /\ predictions' \in [ANOMALY : Nat, NORMAL : Nat]
        BY <1>0, <2>2 DEF CountPrediction, Label, MetricTypes
      <3>2. At("counted")' = At("counted")
        <4>1. "gauge1" \in HandlerStates /\ Moves(m, "saved", "gauge1")
          BY <1>1, <1>a, <2>2
        <4> QED
          BY <1>0, <4>1, AtOthersStay
      <3> QED
        BY <1>0, <1>2, <1>5, <1>7, <3>1, <3>2 DEF CountInv, MetricTypes
    <2> QED
      BY <2>1, <2>2
  <1> QED
    BY <1>3, <1>4, <1>6, <1>8 DEF IInv

LEMMA CountAnomalyKeeps ==
    ASSUME IInv, NEW m \in M, CountAnomaly(m)
    PROVE  IInv'
PROOF
  <1>0. TypeInv /\ MetricTypes /\ RowInv /\ CountInv /\ GaugesShowStoredRows
    BY DEF IInv
  <1>1. Moves(m, "counted", "gauge1") /\ anomalies' = anomalies + 1
    BY DEF CountAnomaly
  <1>2. UNCHANGED <<simVars, row, stored, nextId, predictions, gauge, lostAcks, base>>
    BY DEF CountAnomaly, dbVars, history
  <1>a. /\ "gauge1" \in HandlerStates \ {"counted"}
        /\ "counted" \in Confirmed /\ "gauge1" \in Confirmed
    BY DEF HandlerStates, Confirmed
  <1>3. TypeInv'
    BY <1>0, <1>1, <1>2, <1>a, MoveKeepsTypes DEF TypeInv
  <1>4. RowInv'
    <2>1. UNCHANGED <<simVars, row, stored, nextId>>
      BY <1>2
    <2> QED
      BY <1>0, <1>1, <1>a, <2>1, MoveKeepsRows
  <1>5. /\ Cardinality(At("counted")) = Cardinality(At("counted")') + 1
        /\ Cardinality(At("counted")') \in Nat
    BY <1>0, <1>1, <1>a, AtShrinks
  <1>6. At("saved")' = At("saved")
    BY <1>0, <1>1, <1>a, AtOthersStay
  <1>7. GaugesShowStoredRows'
    BY <1>0, <1>2, GaugesKeep
  <1>8. MetricTypes' /\ CountInv'
    BY <1>0, <1>1, <1>2, <1>5, <1>6 DEF CountInv, MetricTypes
  <1> QED
    BY <1>3, <1>4, <1>7, <1>8 DEF IInv

\* A gauge is only set for a measurement whose row is committed.
LEMMA SetGaugeKeeps ==
    ASSUME IInv, NEW m \in M, SetGauge(m)
    PROVE  IInv'
PROOF
  <1>0. TypeInv /\ MetricTypes /\ RowInv /\ CountInv /\ GaugesShowStoredRows
    BY DEF IInv
  <1>1. PICK g \in 1..4 :
           /\ Moves(m, GaugePoint[g], GaugePoint[g + 1])
           /\ gauge' = [gauge EXCEPT ![ServerOf(m)][g] = m]
           /\ UNCHANGED <<simVars, dbVars, predictions, anomalies, history>>
    BY GaugesAreFour DEF SetGauge
  <1>2. /\ GaugePoint[g] \in Confirmed /\ GaugePoint[g + 1] \in Confirmed
        /\ GaugePoint[g] \notin {"saved", "counted"}
        /\ GaugePoint[g + 1] \notin {"saved", "counted"}
        /\ GaugePoint[g + 1] \in HandlerStates
    BY DEF GaugePoint, Confirmed, HandlerStates
  <1>3. /\ handler[m] = GaugePoint[g] /\ handler'[m] = GaugePoint[g + 1]
        /\ \A n \in M \ {m} : handler'[n] = handler[n]
        /\ handler' \in [M -> HandlerStates]
    BY <1>0, <1>1, <1>2, HandlerMoves
  <1>4. ServerOf(m) \in 1..Servers
    BY PipelineAssumption DEF ServerOf, M
  <1>5. gauge' \in [1..Servers -> [1..4 -> M \cup {None}]]
    BY <1>0, <1>1, <1>4 DEF TypeInv
  <1>6. TypeInv'
    BY <1>0, <1>1, <1>3, <1>5 DEF TypeInv, simVars, dbVars
  <1>7. RowInv'
    <2>1. UNCHANGED <<simVars, row, stored, nextId>>
      BY <1>1 DEF dbVars
    <2> QED
      BY <1>0, <1>1, <1>2, <2>1, MoveKeepsRows
  <1>8. At("saved")' = At("saved") /\ At("counted")' = At("counted")
    BY <1>2, <1>3, AtStays
  <1>9. GaugesShowStoredRows'
    <2>1. IsStored(m)
      BY <1>0, <1>2, <1>3 DEF RowInv
    <2>2. \A n : IsStored(n)' <=> IsStored(n)
      BY <1>1 DEF IsStored, dbVars
    <2>3. \A s \in 1..Servers, h \in 1..4 :
             \/ gauge'[s][h] = gauge[s][h]
             \/ gauge'[s][h] = m /\ s = ServerOf(m)
      BY <1>0, <1>1, <1>4 DEF TypeInv
    <2> QED
      BY <1>0, <2>1, <2>2, <2>3, GaugesAreFour DEF GaugesShowStoredRows
  <1>10. MetricTypes' /\ CountInv'
    BY <1>0, <1>1, <1>8 DEF MetricTypes, CountInv, dbVars, history
  <1> QED
    BY <1>6, <1>7, <1>9, <1>10 DEF IInv

\* The rows outlive the process; everything else starts again from nothing.
LEMMA CrashKeeps ==
    ASSUME IInv, Crash
    PROVE  IInv'
PROOF
  <1>0. TypeInv /\ MetricTypes /\ RowInv /\ CountInv
    BY DEF IInv
  <1>1. /\ UNCHANGED <<simVars, row, stored, nextId>>
        /\ predictions' = [ANOMALY |-> 0, NORMAL |-> 0] /\ anomalies' = 0
        /\ gauge' = NoMetrics /\ lostAcks' = 0 /\ base' = Cardinality(stored)
    BY DEF Crash, dbVars
  <1>2. \A m \in M : handler'[m] = IF m \in InFlight THEN "failed" ELSE handler[m]
    BY DEF Crash
  <1>3. gauge' \in [1..Servers -> [1..4 -> M \cup {None}]]
    BY <1>1, GaugesAreFour DEF NoMetrics
  <1>4. handler' \in [M -> HandlerStates]
    BY <1>0 DEF Crash, TypeInv, HandlerStates
  <1>5. TypeInv'
    BY <1>0, <1>1, <1>3, <1>4 DEF TypeInv, simVars
  <1>6. RowInv'
    <2>1. \A m \in M : m > current' => handler'[m] = "none"
      BY <1>0, <1>1, <1>2 DEF RowInv, InFlight, simVars
    <2>2. \A m \in M :
             /\ handler'[m] = "inserted" => handler[m] = "inserted"
             /\ handler'[m] \in {"none", "sent"} => handler[m] \in {"none", "sent"}
             /\ handler'[m] \in Confirmed => handler[m] \in Confirmed
      BY <1>2 DEF Confirmed
    <2>3. current' >= current /\ outcome' = outcome
      BY <1>0, <1>1 DEF simVars, TypeInv
    <2> QED
      BY <1>0, <1>1, <2>1, <2>2, <2>3, RowsKeep
  <1>7. GaugesShowStoredRows'
    BY <1>1 DEF GaugesShowStoredRows, NoMetrics
  <1>8. At("saved")' = {} /\ At("counted")' = {}
    BY <1>2 DEF At, InFlight
  <1>9. /\ Cardinality(At("saved")') = 0 /\ Cardinality(At("counted")') = 0
        /\ Cardinality(stored) \in Nat
    BY <1>0, <1>8, FS_EmptySet, FS_CardinalityType DEF CountInv
  <1>10. MetricTypes' /\ CountInv'
    BY <1>0, <1>1, <1>9 DEF MetricTypes, CountInv
  <1> QED
    BY <1>5, <1>6, <1>7, <1>10 DEF IInv

----------------------------------------------------------------------------
\* simulator/main.py and predict() of backend/main.py: handlers, rows, counters
\* and gauges fit together in every reachable state.
THEOREM InductiveInvariant == Spec => []IInv
PROOF
  <1>1. Init => IInv
    <2> SUFFICES ASSUME Init PROVE IInv
      OBVIOUS
    <2>1. TypeInv
      <3>1. gauge \in [1..Servers -> [1..4 -> M \cup {None}]]
        BY GaugesAreFour DEF Init, NoMetrics
      <3>2. current \in 0..Measurements /\ handler \in [M -> HandlerStates]
        BY PipelineAssumption DEF Init, HandlerStates
      <3>3. outcome \in [M -> {"none", "ok", "error"}] /\ row \in [M -> Nat]
            /\ nextId \in Nat \ {0}
        BY DEF Init
      <3>4. waiting \in BOOLEAN /\ (waiting => current \in M)
        BY DEF Init
      <3>5. stored \subseteq [id : Nat, m : M]
        BY DEF Init
      <3> QED
        BY <3>1, <3>2, <3>3, <3>4, <3>5 DEF TypeInv
    <2>2. RowInv
      BY DEF Init, RowInv, Confirmed, IsStored
    <2>3. GaugesShowStoredRows
      BY DEF Init, NoMetrics, GaugesShowStoredRows
    <2>4. At("saved") = {} /\ At("counted") = {}
      BY DEF Init, At
    <2>5. MetricTypes /\ CountInv
      BY <2>4, FS_EmptySet DEF Init, MetricTypes, CountInv
    <2> QED
      BY <2>1, <2>2, <2>3, <2>5 DEF IInv
  <1>2. IInv /\ [Next]_vars => IInv'
    <2> SUFFICES ASSUME IInv, [Next]_vars PROVE IInv'
      OBVIOUS
    <2>1. CASE UNCHANGED vars
      BY <2>1 DEF vars, simVars, dbVars, metricVars, history, IInv, TypeInv, MetricTypes,
                  RowInv, GaugesShowStoredRows, CountInv, IsStored, At
    <2> QED
      BY <2>1, SimulatorKeeps, CrashKeeps, InsertKeeps, SaveFailsKeeps, CommitKeeps,
         CountPredictionKeeps, CountAnomalyKeeps, SetGaugeKeeps
      DEF Next, Handler
  <1> QED
    BY <1>1, <1>2, PTL DEF Spec

\* predict(), the INSERT in engine.begin(): handlers that overlap and answers
\* that are lost never double a row, and what the simulator printed as OK is in
\* the table.
THEOREM StoredOnce == Spec => []StoredOnceIfReported
PROOF
  <1>1. IInv => StoredOnceIfReported
    <2> SUFFICES ASSUME TypeInv, RowInv PROVE StoredOnceIfReported
      BY DEF IInv
    <2>1. ASSUME NEW r \in stored, NEW s \in stored, r.m = s.m \/ r.id = s.id
          PROVE  r = s
      <3>1. /\ r \in [id : Nat, m : M] /\ s \in [id : Nat, m : M]
            /\ r.id = row[r.m] /\ s.id = row[s.m] /\ row[r.m] # 0
        BY DEF TypeInv, RowInv
      <3>2. r.m = s.m
        BY <2>1, <3>1 DEF RowInv
      <3> QED
        BY <3>1, <3>2
    <2> QED
      BY <2>1 DEF StoredOnceIfReported, RowInv
  <1> QED
    BY <1>1, InductiveInvariant, PTL

\* predict(), the counters after the transaction: they never run ahead of the
\* table, nor the alarms ahead of the counted anomalies; with no handler in between
\* they fall behind it only by the rows whose confirmation was lost.
THEOREM CountersMatch == Spec => []MetricsMatchRows
PROOF
  <1>1. IInv => MetricsMatchRows
    <2> SUFFICES ASSUME TypeInv, MetricTypes, CountInv PROVE MetricsMatchRows
      BY DEF IInv
    <2>1. Cardinality(At("saved")) \in Nat /\ Cardinality(At("counted")) \in Nat
      BY AtIsFinite
    <2>2. InFlight = {} => Cardinality(At("saved")) = 0 /\ Cardinality(At("counted")) = 0
      <3>1. At("saved") \subseteq InFlight /\ At("counted") \subseteq InFlight
        BY DEF At, InFlight
      <3> QED
        BY <3>1, FS_EmptySet
    <2>3. /\ predictions.ANOMALY \in Nat /\ predictions.NORMAL \in Nat
          /\ lostAcks \in Nat /\ base \in Nat /\ anomalies \in Nat
      BY DEF MetricTypes
    <2> QED
      BY <2>1, <2>2, <2>3 DEF MetricsMatchRows, CountInv
  <1> QED
    BY <1>1, InductiveInvariant, PTL

\* predict(), the gauges: one shows nothing that is not stored, and nothing of
\* another server.
THEOREM GaugesAreStored == Spec => []GaugesShowStoredRows
PROOF
  <1>1. IInv => GaugesShowStoredRows
    BY DEF IInv
  <1> QED
    BY <1>1, InductiveInvariant, PTL

----------------------------------------------------------------------------
(* All handlers together are one feed *)

\* Nothing was printed for the measurement the simulator waits for, nor for any
\* it has not sent yet; so what it prints never takes back an OK.
Unprinted ==
    \A m \in M : m > current \/ (m = current /\ waiting) => outcome[m] = "none"

LEMMA UnprintedStep ==
    ASSUME IInv, Unprinted, [Next]_vars
    PROVE  Unprinted'
PROOF
  <1>0. TypeInv
    BY DEF IInv
  <1>1. CASE Send
    <2>1. current \in Nat /\ current' = current + 1 /\ outcome' = outcome
      BY <1>0, <1>1 DEF Send, TypeInv
    <2>2. \A m \in M : m > current' \/ m = current' => m > current
      BY <2>1 DEF M
    <2> QED
      BY <2>1, <2>2 DEF Unprinted
  <1>2. CASE ReceiveResponse \/ GiveUp
    <2>1. /\ UNCHANGED current /\ waiting' = FALSE
          /\ \A m \in M : m # current => outcome'[m] = outcome[m]
      BY <1>0, <1>2 DEF ReceiveResponse, GiveUp, Settle, TypeInv
    <2>2. \A m \in M : m > current => m # current
      BY <1>0 DEF TypeInv, M
    <2> QED
      BY <2>1, <2>2 DEF Unprinted
  <1>3. CASE UNCHANGED simVars
    BY <1>3 DEF Unprinted, simVars
  <1>4. ASSUME NEW m \in M, Handler(m) PROVE UNCHANGED simVars
    BY <1>4 DEF Handler, Insert, SaveFails, Commit, CommitUnconfirmed, CountPrediction,
       CountAnomaly, SetGauge
  <1>5. ASSUME Crash \/ UNCHANGED vars PROVE UNCHANGED simVars
    BY <1>5 DEF Crash, vars
  <1> QED
    BY <1>1, <1>2, <1>3, <1>4, <1>5 DEF Next, Simulator

\* The simulator's steps: a measurement is taken, its sender is told, or not.
LEMMA SimulatorFeeds ==
    ASSUME IInv, Unprinted, Simulator
    PROVE  Feed!Next \/ UNCHANGED Feed!feedVars
PROOF
  <1>0. TypeInv /\ RowInv
    BY DEF IInv
  <1>1. UNCHANGED <<stored, predictions, anomalies, gauge>>
    BY DEF Simulator, Send, ReceiveResponse, GiveUp, dbVars, metricVars
  <1>2. CASE Send
    <2>1. current' = current + 1 /\ outcome' = outcome
      BY <1>2 DEF Send
    <2>2. current + 1 \in M
      BY <1>0, <1>2, PipelineAssumption DEF Send, TypeInv, M
    <2>3. /\ handler'[current + 1] = "sent" /\ handler[current + 1] = "none"
          /\ \A m \in M \ {current + 1} : handler'[m] = handler[m]
      BY <1>0, <1>2, <2>2 DEF Send, TypeInv, RowInv
    <2>4. /\ {m \in M : handler'[m] = "saved"} = {m \in M : handler[m] = "saved"}
          /\ {m \in M : handler'[m] = "counted"} = {m \in M : handler[m] = "counted"}
      BY <2>3
    <2>5. Feed!Take
      BY <1>1, <2>1, <2>4 DEF Feed!Take
    <2> QED
      BY <2>5 DEF Feed!Next
  <1>3. CASE ReceiveResponse \/ GiveUp
    <2>1. /\ UNCHANGED <<current, handler>> /\ current \in M /\ outcome[current] = "none"
          /\ \A m \in M \ {current} : outcome'[m] = outcome[m]
      BY <1>0, <1>3 DEF ReceiveResponse, GiveUp, Settle, TypeInv, Unprinted
    <2>2. CASE outcome'[current] = "ok"
      <3>1. handler[current] = "ok"
        BY <1>0, <1>3, <2>1, <2>2 DEF ReceiveResponse, GiveUp, Settle, TypeInv
      <3>2. IsStored(current)
        BY <1>0, <2>1, <3>1 DEF RowInv, Confirmed
      <3>3. {m \in M : outcome'[m] = "ok"} = {m \in M : outcome[m] = "ok"} \cup {current}
        BY <2>1, <2>2
      <3>4. PICK m \in M : m = current
        BY <2>1
      <3>5. Feed!Tell(m)
        BY <1>1, <2>1, <3>2, <3>3, <3>4 DEF Feed!Tell, Feed!Recorded, IsStored
      <3> QED
        BY <3>5 DEF Feed!Next
    <2>3. CASE outcome'[current] # "ok"
      <3>1. {m \in M : outcome'[m] = "ok"} = {m \in M : outcome[m] = "ok"}
        BY <2>1, <2>3
      <3> QED
        BY <1>1, <2>1, <3>1 DEF Feed!feedVars
    <2> QED
      BY <2>2, <2>3
  <1> QED
    BY <1>2, <1>3 DEF Simulator

\* A commit records one measurement, whether or not the handler learns of it.
LEMMA CommitFeeds ==
    ASSUME IInv, NEW m \in M, Commit(m) \/ CommitUnconfirmed(m)
    PROVE  Feed!Next
PROOF
  <1>0. TypeInv /\ RowInv
    BY DEF IInv
  <1>1. PICK to \in {"saved", "failed"} : Moves(m, "inserted", to)
    BY DEF Commit, CommitUnconfirmed
  <1>2. /\ stored' = stored \cup {[id |-> row[m], m |-> m]}
        /\ UNCHANGED <<current, outcome, predictions, anomalies, gauge>>
    BY DEF Commit, CommitUnconfirmed, simVars, metricVars
  <1>3. /\ handler[m] = "inserted" /\ handler'[m] = to
        /\ \A n \in M \ {m} : handler'[n] = handler[n]
    BY <1>0, <1>1, HandlerMoves DEF HandlerStates
  <1>4. m <= current /\ row[m] # 0 /\ ~IsStored(m)
    BY <1>0, <1>3 DEF RowInv, TypeInv, M
  <1>5. \A s \in stored : s.id # row[m]
    <2> SUFFICES ASSUME NEW s \in stored, s.id = row[m] PROVE FALSE
      OBVIOUS
    <2>1. s.m \in M /\ s.id = row[s.m] /\ s.m # m
      BY <1>0, <1>4 DEF RowInv, TypeInv, IsStored
    <2> QED
      BY <1>0, <1>4, <2>1 DEF RowInv
  <1>6. {n \in M : handler'[n] = "saved"} \in
           {{n \in M : handler[n] = "saved"}, {n \in M : handler[n] = "saved"} \cup {m}}
    <2>1. CASE to = "saved"
      <3>1. {n \in M : handler'[n] = "saved"} = {n \in M : handler[n] = "saved"} \cup {m}
        BY <1>3, <2>1
      <3> QED
        BY <3>1
    <2>2. CASE to = "failed"
      <3>1. {n \in M : handler'[n] = "saved"} = {n \in M : handler[n] = "saved"}
        BY <1>3, <2>2
      <3> QED
        BY <3>1
    <2> QED
      BY <2>1, <2>2
  <1>a. {n \in M : handler'[n] = "counted"} = {n \in M : handler[n] = "counted"}
    BY <1>3
  <1>7. \E r \in stored' : stored' = stored \cup {r} /\ r.m = m /\ \A s \in stored : s.id # r.id
    <2> DEFINE new == [id |-> row[m], m |-> m]
    <2>1. new \in stored' /\ stored' = stored \cup {new} /\ new.m = m /\ new.id = row[m]
      BY <1>2
    <2> HIDE DEF new
    <2> QED
      BY <1>5, <2>1
  <1>8. Feed!Record(m)
    BY <1>2, <1>4, <1>6, <1>7, <1>a DEF Feed!Record, Feed!Recorded, IsStored
  <1> QED
    BY <1>8 DEF Feed!Next

LEMMA CountFeeds ==
    ASSUME IInv, NEW m \in M, CountPrediction(m)
    PROVE  Feed!Next
PROOF
  <1>0. TypeInv /\ MetricTypes
    BY DEF IInv
  <1>1. PICK to \in {"counted", "gauge1"} :
           Moves(m, "saved", to) /\ (to = "counted" <=> m \in Anomalies)
    BY DEF CountPrediction
  <1>2. /\ handler[m] = "saved" /\ handler'[m] = to
        /\ \A n \in M \ {m} : handler'[n] = handler[n]
    BY <1>0, <1>1, HandlerMoves DEF HandlerStates
  <1>3. UNCHANGED <<current, outcome, stored, anomalies, gauge>>
    BY DEF CountPrediction, simVars, dbVars
  <1>4. {n \in M : handler'[n] = "saved"} = {n \in M : handler[n] = "saved"} \ {m}
    BY <1>2
  <1>5. {n \in M : handler'[n] = "counted"}
           = IF m \in Anomalies THEN {n \in M : handler[n] = "counted"} \cup {m}
                                ELSE {n \in M : handler[n] = "counted"}
    <2>1. CASE m \in Anomalies
      <3>1. {n \in M : handler'[n] = "counted"} = {n \in M : handler[n] = "counted"} \cup {m}
        BY <1>1, <1>2, <2>1
      <3> QED
        BY <2>1, <3>1
    <2>2. CASE m \notin Anomalies
      <3>1. {n \in M : handler'[n] = "counted"} = {n \in M : handler[n] = "counted"}
        BY <1>1, <1>2, <2>2
      <3> QED
        BY <2>2, <3>1
    <2> QED
      BY <2>1, <2>2
  <1>6. predictions'.ANOMALY + predictions'.NORMAL
           = (predictions.ANOMALY + predictions.NORMAL) + 1
    <2>1. CASE m \in Anomalies
      BY <1>0, <2>1 DEF CountPrediction, Label, MetricTypes
    <2>2. CASE m \notin Anomalies
      BY <1>0, <2>2 DEF CountPrediction, Label, MetricTypes
    <2> QED
      BY <2>1, <2>2
  <1>7. Feed!Count(m)
    BY <1>2, <1>3, <1>4, <1>5, <1>6 DEF Feed!Count
  <1> QED
    BY <1>7 DEF Feed!Next

LEMMA AlarmFeeds ==
    ASSUME IInv, NEW m \in M, CountAnomaly(m)
    PROVE  Feed!Next
PROOF
  <1>0. TypeInv
    BY DEF IInv
  <1>1. /\ handler[m] = "counted" /\ handler'[m] = "gauge1"
        /\ \A n \in M \ {m} : handler'[n] = handler[n]
    BY <1>0, HandlerMoves DEF CountAnomaly, HandlerStates
  <1>2. /\ UNCHANGED <<current, outcome, stored, predictions, gauge>>
        /\ anomalies' = anomalies + 1
    BY DEF CountAnomaly, simVars, dbVars
  <1>3. /\ {n \in M : handler'[n] = "saved"} = {n \in M : handler[n] = "saved"}
        /\ {n \in M : handler'[n] = "counted"} = {n \in M : handler[n] = "counted"} \ {m}
    BY <1>1
  <1>4. Feed!Alarm(m)
    BY <1>1, <1>2, <1>3 DEF Feed!Alarm
  <1> QED
    BY <1>4 DEF Feed!Next

LEMMA GaugeFeeds ==
    ASSUME IInv, NEW m \in M, SetGauge(m)
    PROVE  Feed!Next
PROOF
  <1>0. TypeInv /\ RowInv
    BY DEF IInv
  <1>1. PICK g \in 1..Len(Gauges) :
           /\ Moves(m, GaugePoint[g], GaugePoint[g + 1])
           /\ gauge' = [gauge EXCEPT ![ServerOf(m)][g] = m]
           /\ UNCHANGED <<simVars, dbVars, predictions, anomalies, history>>
    BY DEF SetGauge
  <1>2. /\ GaugePoint[g] \in Confirmed /\ GaugePoint[g] \notin {"saved", "counted"}
        /\ GaugePoint[g + 1] \notin {"saved", "counted"}
        /\ GaugePoint[g + 1] \in HandlerStates
    BY <1>1, GaugesAreFour DEF GaugePoint, Confirmed, HandlerStates
  <1>3. /\ handler[m] = GaugePoint[g] /\ handler'[m] = GaugePoint[g + 1]
        /\ \A n \in M \ {m} : handler'[n] = handler[n]
    BY <1>0, <1>1, <1>2, HandlerMoves
  <1>4. /\ {n \in M : handler'[n] = "saved"} = {n \in M : handler[n] = "saved"}
        /\ {n \in M : handler'[n] = "counted"} = {n \in M : handler[n] = "counted"}
    BY <1>2, <1>3
  <1>5. IsStored(m) /\ handler[m] \notin {"saved", "counted"}
    BY <1>0, <1>2, <1>3 DEF RowInv
  <1>6. UNCHANGED <<current, outcome, stored, predictions, anomalies>>
    BY <1>1 DEF simVars, dbVars
  <1>7. Feed!Show(m, g)
    BY <1>1, <1>4, <1>5, <1>6 DEF Feed!Show, Feed!Recorded, IsStored
  <1> QED
    BY <1>1, <1>7 DEF Feed!Next

LEMMA CrashFeeds ==
    ASSUME IInv, Crash
    PROVE  Feed!Next
PROOF
  <1>1. /\ UNCHANGED <<current, outcome, stored>> /\ gauge' = NoMetrics /\ anomalies' = 0
        /\ predictions'.ANOMALY + predictions'.NORMAL = 0
    BY DEF Crash, simVars, dbVars
  <1>2. \A m \in M : handler'[m] = IF m \in InFlight THEN "failed" ELSE handler[m]
    BY DEF Crash
  <1>3. {m \in M : handler'[m] = "saved"} = {} /\ {m \in M : handler'[m] = "counted"} = {}
    BY <1>2 DEF InFlight
  <1>4. Feed!Restart
    BY <1>1, <1>3 DEF Feed!Restart
  <1> QED
    BY <1>4 DEF Feed!Next

LEMMA StepsOfFeed ==
    ASSUME IInv, Unprinted, [Next]_vars
    PROVE  Feed!Next \/ UNCHANGED Feed!feedVars
PROOF
  <1>0. TypeInv
    BY DEF IInv
  <1>1. ASSUME NEW m \in M, Insert(m) \/ SaveFails(m)
        PROVE  UNCHANGED Feed!feedVars
    <2>1. UNCHANGED <<current, outcome, stored, predictions, anomalies, gauge>>
      BY <1>1 DEF Insert, SaveFails, simVars, dbVars, metricVars
    <2>2. /\ handler[m] \notin {"saved", "counted"} /\ handler'[m] \notin {"saved", "counted"}
          /\ \A n \in M \ {m} : handler'[n] = handler[n]
      BY <1>0, <1>1, HandlerMoves DEF Insert, SaveFails, HandlerStates
    <2>3. /\ {n \in M : handler'[n] = "saved"} = {n \in M : handler[n] = "saved"}
          /\ {n \in M : handler'[n] = "counted"} = {n \in M : handler[n] = "counted"}
      BY <2>2
    <2> QED
      BY <2>1, <2>3 DEF Feed!feedVars
  <1>2. CASE UNCHANGED vars
    BY <1>2 DEF vars, simVars, dbVars, metricVars, Feed!feedVars
  <1> QED
    BY <1>1, <1>2, SimulatorFeeds, CommitFeeds, CountFeeds, AlarmFeeds, GaugeFeeds, CrashFeeds
    DEF Next, Handler

\* simulator/main.py and predict() of backend/main.py: however handlers overlap, hang
\* and die, each measurement is recorded at most once, told and shown only when it
\* is recorded, counted at most once and raises the alarm only when it was counted,
\* and no record is taken back.
THEOREM PipelineImplementsFeed == Spec => ImplementsFeed
PROOF
  <1>1. Init => Feed!Init /\ Unprinted
    BY DEF Init, Feed!Init, Unprinted
  <1>2. IInv /\ Unprinted /\ [Next]_vars => Unprinted'
    BY UnprintedStep
  <1>3. IInv /\ Unprinted /\ [Next]_vars => [Feed!Next]_(Feed!feedVars)
    BY StepsOfFeed
  <1> QED
    BY <1>1, <1>2, <1>3, InductiveInvariant, PTL DEF Spec, ImplementsFeed, Feed!Spec
=============================================================================
