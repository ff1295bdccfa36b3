--------------------------- MODULE AnalysisProofs ---------------------------
(***************************************************************************)
(* The analysis of measurements, for any servers, window, limit and table: *)
(* the two statements of build_analysis_context agree with each other      *)
(* whatever is inserted between them, and one request runs one workflow.   *)
(***************************************************************************)
EXTENDS AnalysisRun, FiniteSetTheorems, TLAPS

\* What the table may hold: finitely many rows, no two with the same id.
Row == [id : Nat, server : Servers, at : Nat, anomaly : BOOLEAN]

Table(S) ==
    /\ IsFiniteSet(S) /\ S \subseteq Row
    /\ \A r, s \in S : r.id = s.id => r = s

\* The ids handed out so far are no more than the rows.
TableInv ==
    /\ Table(rows) /\ Table(snapshot)
    /\ \A r \in rows : r.id <= Cardinality(rows)

\* What a request knows is what its snapshot says, from the statement on that read it.
Answered == status = "503"
ReadInv ==
    /\ pc # "idle" /\ ~Answered =>
          /\ summary.samples = Cardinality(Matching(snapshot))
          /\ summary.anomalies = Cardinality(AnomaliesIn(snapshot))
          /\ \A r \in Matching(snapshot) : r.at <= summary.latest
    /\ pc \notin {"idle", "counted"} /\ ~Answered => recent = Newest(snapshot)
    /\ recent = <<>> \/ recent = Newest(snapshot)
    /\ pc = "idle" => recent = <<>>

\* How far the request has come with its workflow.
WorkflowInv ==
    /\ pc \in {"idle", "counted", "context", "post", "running", "answered", "rejected",
               "done"}
    /\ pc # "done" => status = "none"
    /\ started \in {0, 1} /\ succeeded \in {0, 1}
    /\ pc \in {"idle", "counted", "context", "post"} => started = 0
    /\ pc \in {"post", "running", "answered", "rejected"} => summary.samples > 0
    /\ started = 1 => summary.samples > 0
    /\ pc = "answered" \/ status = "succeeded" => succeeded = 1
    /\ pc \in {"idle", "counted", "context", "post", "running", "rejected"} => succeeded = 0

IInv == TableInv /\ ReadInv /\ WorkflowInv

----------------------------------------------------------------------------
(* ORDER BY measured_at DESC, id DESC *)

\* Of two rows one goes before the other, never both, and the order is transitive.
LEMMA NewerOrdersRows ==
    ASSUME NEW r \in Row, NEW s \in Row
    PROVE  /\ r.id # s.id => Newer(r, s) \/ Newer(s, r)
           /\ ~(Newer(r, s) /\ Newer(s, r))
           /\ \A x \in Row : Newer(x, s) /\ Newer(s, r) => Newer(x, r)
  BY DEF Row, Newer

\* A row that goes before another has fewer rows ahead of it.
LEMMA AheadGrows ==
    ASSUME NEW S, Table(S), NEW r \in S, NEW s \in S, Newer(s, r)
    PROVE  /\ Cardinality(Ahead(s, S)) \in Nat /\ Cardinality(Ahead(r, S)) \in Nat
           /\ Cardinality(Ahead(s, S)) < Cardinality(Ahead(r, S))
  <1>1. Ahead(s, S) \subseteq Ahead(r, S)
    BY NewerOrdersRows DEF Table, Ahead
  <1>2. s \in Ahead(r, S) /\ s \notin Ahead(s, S)
    BY NewerOrdersRows DEF Table, Ahead
  <1>3. IsFiniteSet(Ahead(r, S))
    BY FS_Subset DEF Table, Ahead
  <1>4. IsFiniteSet(Ahead(s, S)) /\ Cardinality(Ahead(s, S)) <= Cardinality(Ahead(r, S))
        /\ Cardinality(Ahead(s, S)) # Cardinality(Ahead(r, S))
    BY <1>1, <1>2, <1>3, FS_Subset
  <1> QED BY <1>3, <1>4, FS_CardinalityType

\* No two rows have the same place, so every place in the result is taken.
LEMMA PlacesAreTaken ==
    ASSUME NEW S, Table(S), NEW k \in 0..(Cardinality(S) - 1)
    PROVE  \E r \in S : Cardinality(Ahead(r, S)) = k
  <1> DEFINE n == Cardinality(S)
             place == [r \in S |-> Cardinality(Ahead(r, S))]
  <1>1. n \in Nat
    BY FS_CardinalityType DEF Table
  <1>2. ASSUME NEW r \in S PROVE Cardinality(Ahead(r, S)) \in 0..(n - 1)
    <2>1. Ahead(r, S) \subseteq S \ {r}
      BY NewerOrdersRows DEF Table, Ahead
    <2>2. IsFiniteSet(S \ {r}) /\ Cardinality(S \ {r}) = n - 1
      BY FS_RemoveElement DEF Table
    <2>3. IsFiniteSet(Ahead(r, S)) /\ Cardinality(Ahead(r, S)) <= n - 1
      BY <2>1, <2>2, FS_Subset
    <2>4. Cardinality(Ahead(r, S)) \in Nat
      BY <2>3, FS_CardinalityType
    <2> QED BY <1>1, <2>3, <2>4
  <1>3. ASSUME NEW r \in S, NEW s \in S, place[r] = place[s] PROVE r = s
    <2>1. ~Newer(r, s) /\ ~Newer(s, r)
      BY <1>3, AheadGrows
    <2>2. r.id = s.id
      BY <2>1, NewerOrdersRows DEF Table
    <2> QED BY <2>2 DEF Table
  <1>4. place \in Injection(S, 0..(n - 1))
    BY <1>2, <1>3 DEF Injection, IsInjective
  <1>5. IsFiniteSet(0..(n - 1)) /\ Cardinality(0..(n - 1)) = n
    BY <1>1, FS_Interval
  <1>6. place \in Surjection(S, 0..(n - 1))
    BY <1>4, <1>5, FS_Injection
  <1> QED BY <1>6 DEF Surjection

\* A nonempty table has a latest measurement.
LEMMA LatestExists ==
    ASSUME NEW S, Table(S), S # {}
    PROVE  \E r \in S : \A s \in S : s.at <= r.at
  <1>1. Cardinality(S) \in Nat /\ Cardinality(S) # 0
    BY FS_CardinalityType, FS_EmptySet DEF Table
  <1>2. PICK r \in S : Cardinality(Ahead(r, S)) = 0
    BY <1>1, PlacesAreTaken
  <1>3. IsFiniteSet(Ahead(r, S))
    BY FS_Subset DEF Table, Ahead
  <1>4. \A s \in S : ~Newer(s, r)
    BY <1>2, <1>3, FS_EmptySet DEF Ahead
  <1> QED BY <1>4 DEF Table, Row, Newer

\* A selection from a table is one.
LEMMA Selections ==
    ASSUME NEW S, Table(S)
    PROVE  /\ Table(Matching(S)) /\ Table(AnomaliesIn(S))
           /\ AnomaliesIn(S) \subseteq Matching(S)
           /\ Cardinality(Matching(S)) \in Nat /\ Cardinality(AnomaliesIn(S)) \in Nat
           /\ Cardinality(AnomaliesIn(S)) <= Cardinality(Matching(S))
  <1>1. AnomaliesIn(S) \subseteq Matching(S) /\ Matching(S) \subseteq S
    BY DEF AnomaliesIn, Matching
  <1>2. IsFiniteSet(Matching(S)) /\ IsFiniteSet(AnomaliesIn(S))
        /\ Cardinality(AnomaliesIn(S)) <= Cardinality(Matching(S))
    BY <1>1, FS_Subset DEF Table
  <1> QED BY <1>1, <1>2, FS_CardinalityType DEF Table

\* The second statement: the rows in their places, and all that are left out behind.
LEMMA NewestIsOrdered ==
    ASSUME NEW T, Table(T)
    PROVE  /\ Newest(T) \in Seq(AnomaliesIn(T))
           /\ Len(Newest(T)) = Listed(AnomaliesIn(T)) /\ Listed(AnomaliesIn(T)) \in Nat
           /\ \A i, j \in 1..Len(Newest(T)) : i < j => Newer(Newest(T)[i], Newest(T)[j])
           /\ Len(Newest(T)) > 0 =>
                \A r \in AnomaliesIn(T) \ {Newest(T)[i] : i \in 1..Len(Newest(T))} :
                    Newer(Newest(T)[Len(Newest(T))], r)
  <1> DEFINE S == AnomaliesIn(T)
             n == Listed(S)
             row(i) == CHOOSE r \in S : Cardinality(Ahead(r, S)) = i - 1
  <1>1. Table(S) /\ Cardinality(S) \in Nat
    BY Selections
  <1>2. n \in Nat /\ n <= Cardinality(S)
    BY <1>1, AnalysisAssumption DEF Listed
  <1>3. Newest(T) = [i \in 1..n |-> row(i)]
    BY DEF Newest
  <1> HIDE DEF S
  <1>4. ASSUME NEW i \in 1..n PROVE row(i) \in S /\ Cardinality(Ahead(row(i), S)) = i - 1
    <2>1. i - 1 \in 0..(Cardinality(S) - 1)
      BY <1>1, <1>2
    <2>2. \E r \in S : Cardinality(Ahead(r, S)) = i - 1
      BY <1>1, <2>1, PlacesAreTaken
    <2> QED BY <2>2
  <1> HIDE DEF n, row
  <1>5. Newest(T) \in Seq(S) /\ Len(Newest(T)) = n /\ \A i \in 1..n : Newest(T)[i] = row(i)
    BY <1>2, <1>3, <1>4
  <1>6. ASSUME NEW i \in 1..n, NEW r \in S, r # row(i), ~Newer(row(i), r)
        PROVE  /\ Cardinality(Ahead(r, S)) \in Nat
               /\ Cardinality(Ahead(r, S)) < i - 1
    <2>1. Newer(r, row(i))
      BY <1>1, <1>4, <1>6, NewerOrdersRows DEF Table
    <2> QED BY <1>1, <1>4, <2>1, AheadGrows
  <1>7. ASSUME NEW i \in 1..n, NEW j \in 1..n, i < j PROVE Newer(row(i), row(j))
    <2>1. row(j) # row(i) /\ Cardinality(Ahead(row(j), S)) = j - 1 /\ row(j) \in S
      BY <1>2, <1>4, <1>7
    <2> QED BY <1>2, <1>6, <1>7, <2>1
  <1>8. ASSUME n > 0, NEW r \in S, \A i \in 1..n : r # row(i)
        PROVE  Newer(row(n), r)
    <2> SUFFICES ASSUME ~Newer(row(n), r) PROVE FALSE
      OBVIOUS
    <2> DEFINE k == Cardinality(Ahead(r, S)) + 1
    <2>1. k \in 1..n
      BY <1>2, <1>6, <1>8
    <2>2. ~Newer(r, row(k)) /\ ~Newer(row(k), r)
      <3>1. row(k) \in S /\ Cardinality(Ahead(row(k), S)) = Cardinality(Ahead(r, S))
        BY <1>2, <1>4, <1>6, <1>8, <2>1
      <3> QED BY <1>1, <3>1, AheadGrows
    <2>3. r = row(k)
      BY <1>1, <1>4, <2>1, <2>2, NewerOrdersRows DEF Table
    <2> QED BY <1>8, <2>1, <2>3
  <1> QED BY <1>2, <1>5, <1>7, <1>8 DEF S, n

----------------------------------------------------------------------------
(* The request *)

LEMMA InitIInv == Init => IInv
  <1> SUFFICES ASSUME Init PROVE IInv
    OBVIOUS
  <1>1. TableInv
    BY FS_EmptySet DEF Init, TableInv, Table
  <1>2. ReadInv /\ WorkflowInv
    BY DEF Init, ReadInv, WorkflowInv, Answered
  <1> QED BY <1>1, <1>2 DEF IInv

\* A row with the next id keeps the ids apart.
LEMMA InsertKeepsTable == TableInv /\ InsertRow => TableInv'
  <1> SUFFICES ASSUME TableInv, InsertRow PROVE TableInv'
    OBVIOUS
  <1>1. PICK s \in Servers, t \in Times, a \in BOOLEAN :
           rows' = rows \cup {[id |-> Cardinality(rows) + 1, server |-> s, at |-> t,
                               anomaly |-> a]}
    BY DEF InsertRow
  <1> DEFINE new == [id |-> Cardinality(rows) + 1, server |-> s, at |-> t, anomaly |-> a]
  <1>2. Cardinality(rows) \in Nat
    BY FS_CardinalityType DEF TableInv, Table
  <1>3. new \in Row /\ new.id = Cardinality(rows) + 1
    BY <1>2, AnalysisAssumption DEF Row
  <1>4. new \notin rows
    BY <1>2, <1>3 DEF TableInv
  <1>5. IsFiniteSet(rows') /\ Cardinality(rows') = Cardinality(rows) + 1
    BY <1>1, <1>4, FS_AddElement DEF TableInv, Table
  <1> HIDE DEF new
  <1>6. rows' = rows \cup {new}
    BY <1>1 DEF new
  <1>7. ASSUME NEW r \in rows PROVE r \in Row /\ r.id \in Nat /\ r.id <= Cardinality(rows)
    BY DEF TableInv, Table, Row
  <1>8. \A r, q \in rows' : r.id = q.id => r = q
    <2> SUFFICES ASSUME NEW r \in rows', NEW q \in rows', r.id = q.id PROVE r = q
      OBVIOUS
    <2>1. CASE r \in rows /\ q \in rows
      BY <2>1 DEF TableInv, Table
    <2>2. CASE r = new \/ q = new
      BY <1>2, <1>3, <1>6, <1>7, <2>2
    <2> QED BY <1>6, <2>1, <2>2
  <1>9. \A r \in rows' : r \in Row /\ r.id <= Cardinality(rows')
    BY <1>2, <1>3, <1>5, <1>6, <1>7
  <1> QED BY <1>5, <1>8, <1>9 DEF InsertRow, TableInv, Table

\* The steps that read or write no table.
LEMMA QuietSteps ==
    ASSUME UNCHANGED <<server, snapshot, summary, recent>>, ReadInv,
           pc' = "idle" => pc = "idle", pc = "idle" => pc' = "idle" \/ Answered',
           pc' \notin {"idle", "counted"} => pc \notin {"idle", "counted"} \/ Answered',
           Answered => Answered'
    PROVE  ReadInv'
  <1>1. Matching(snapshot)' = Matching(snapshot) /\ AnomaliesIn(snapshot)' = AnomaliesIn(snapshot)
    BY DEF Matching, AnomaliesIn
  <1>2. Newest(snapshot)' = Newest(snapshot)
    BY <1>1 DEF Newest
  <1> QED BY <1>1, <1>2 DEF ReadInv

\* Every step keeps the invariant: one step per action.
LEMMA NextIInv == IInv /\ [Next]_vars => IInv'
  <1> SUFFICES ASSUME IInv, [Next]_vars PROVE IInv'
    OBVIOUS
  <1> USE DEF IInv
  <1>1. CASE InsertRow
    <2>1. UNCHANGED <<pc, server, snapshot, summary, recent, started, succeeded, status>>
      BY <1>1 DEF InsertRow
    <2>2. ReadInv'
      BY <2>1, QuietSteps DEF Answered
    <2>3. WorkflowInv'
      BY <2>1 DEF WorkflowInv
    <2> QED BY <1>1, <2>2, <2>3, InsertKeepsTable
  <1>2. CASE SelectSummary
    <2>1. /\ pc = "idle" /\ pc' = "counted" /\ snapshot' = rows
          /\ UNCHANGED <<rows, server, recent, started, succeeded, status>>
          /\ Table(rows) /\ recent = <<>>
      BY <1>2 DEF SelectSummary, TableInv, ReadInv
    <2>2. TableInv'
      BY <2>1 DEF TableInv, Table
    <2>3. /\ Matching(snapshot)' = Matching(rows) /\ AnomaliesIn(snapshot)' = AnomaliesIn(rows)
      BY <2>1 DEF Matching, AnomaliesIn
    <2>4. /\ summary'.samples = Cardinality(Matching(rows))
          /\ summary'.anomalies = Cardinality(AnomaliesIn(rows))
      BY <1>2 DEF SelectSummary
    <2>5. ASSUME NEW r \in Matching(rows) PROVE r.at <= summary'.latest
      <3>1. Table(Matching(rows)) /\ Matching(rows) # {}
        BY <2>1, <2>5, Selections
      <3> DEFINE times == {q.at : q \in Matching(rows)}
                 Latest(t) == \A q \in Matching(rows) : q.at <= t
      <3>2. summary'.latest = CHOOSE t \in times : Latest(t)
        BY <1>2, <3>1 DEF SelectSummary
      <3>3. \E t \in times : Latest(t)
        BY <3>1, LatestExists
      <3>4. Latest(summary'.latest)
        BY <3>2, <3>3
      <3> QED BY <3>4
    <2>6. ReadInv'
      BY <2>1, <2>3, <2>4, <2>5 DEF ReadInv
    <2>7. WorkflowInv'
      BY <2>1 DEF WorkflowInv
    <2> QED BY <2>2, <2>6, <2>7
  <1>3. CASE SelectRecent
    <2>1. /\ pc = "counted" /\ pc' = "context" /\ recent' = Newest(snapshot)
          /\ UNCHANGED <<rows, server, snapshot, summary, started, succeeded, status>>
      BY <1>3 DEF SelectRecent
    <2>2. /\ Matching(snapshot)' = Matching(snapshot)
          /\ AnomaliesIn(snapshot)' = AnomaliesIn(snapshot)
      BY <2>1 DEF Matching, AnomaliesIn
    <2>3. Newest(snapshot)' = Newest(snapshot)
      BY <2>2 DEF Newest
    <2>4. ReadInv'
      BY <2>1, <2>2, <2>3 DEF ReadInv, Answered
    <2>5. TableInv' /\ WorkflowInv'
      BY <2>1 DEF TableInv, Table, WorkflowInv
    <2> QED BY <2>4, <2>5
  <1>4. CASE DatabaseFails \/ Prepare \/ WorkflowStarts \/ WorkflowEnds \/ TimesOut
               \/ RequestFails \/ CheckResponse \/ UNCHANGED vars
    <2> USE DEF DatabaseFails, Prepare, WorkflowStarts, WorkflowEnds, TimesOut,
                RequestFails, CheckResponse, Ends, vars
    <2>1. TableInv'
      BY <1>4 DEF TableInv, Table
    <2>2. WorkflowInv'
      BY <1>4 DEF WorkflowInv
    <2>3. /\ UNCHANGED <<server, snapshot, summary, recent>>
          /\ pc' = "idle" => pc = "idle"
          /\ pc = "idle" => pc' = "idle" \/ Answered'
          /\ pc' \notin {"idle", "counted"} => pc \notin {"idle", "counted"} \/ Answered'
          /\ Answered => Answered'
      BY <1>4 DEF WorkflowInv, Answered
    <2> QED BY <2>1, <2>2, <2>3, QuietSteps
  <1> QED BY <1>1, <1>2, <1>3, <1>4 DEF Next

\* Request, snapshot and table agree in every reachable state.
THEOREM InductiveInvariant == Spec => []IInv
  BY InitIInv, NextIInv, PTL DEF Spec

\* build_analysis_context: count, list and latest time of the context describe one
\* and the same table, however many rows arrive between the two statements.
THEOREM ContextIsConsistent == Spec => []ContextConsistent
  <1>1. IInv => ContextConsistent
    <2> SUFFICES ASSUME IInv, pc \notin {"idle", "counted"}, ~Answered
                 PROVE  /\ Len(recent) = Listed(AnomaliesIn(snapshot))
                        /\ summary.anomalies = Cardinality(AnomaliesIn(snapshot))
                        /\ summary.anomalies <= summary.samples
                        /\ \A i \in 1..Len(recent) : /\ recent[i].at >= Now - Window
                                                     /\ recent[i].at <= summary.latest
      BY DEF ContextConsistent, Listed, Answered
    <2>1. Table(snapshot) /\ recent = Newest(snapshot)
      BY DEF IInv, TableInv, ReadInv
    <2>2. /\ recent \in Seq(AnomaliesIn(snapshot))
          /\ Len(recent) = Listed(AnomaliesIn(snapshot))
      BY <2>1, NewestIsOrdered
    <2>3. /\ summary.anomalies = Cardinality(AnomaliesIn(snapshot))
          /\ summary.anomalies <= summary.samples
      BY <2>1, Selections DEF IInv, ReadInv
    <2>4. ASSUME NEW i \in 1..Len(recent)
          PROVE  recent[i].at >= Now - Window /\ recent[i].at <= summary.latest
      <3>1. recent[i] \in Matching(snapshot)
        BY <2>1, <2>2, Selections
      <3>2. recent[i].at <= summary.latest
        BY <3>1 DEF IInv, ReadInv
      <3>3. recent[i].at >= Now - Window
        BY <3>1 DEF Matching
      <3> QED BY <3>2, <3>3
    <2> QED BY <2>2, <2>3, <2>4
  <1> QED BY <1>1, InductiveInvariant, PTL

\* The anomalies of the context are the newest ones, newest first, for any table
\* and any limit.
THEOREM ListsTheNewest == Spec => []RecentAreNewest
  <1>1. IInv => RecentAreNewest
    <2> SUFFICES ASSUME IInv PROVE RecentAreNewest
      OBVIOUS
    <2>1. CASE recent = <<>>
      BY <2>1 DEF RecentAreNewest
    <2>2. CASE recent = Newest(snapshot)
      <3>1. Table(snapshot)
        BY DEF IInv, TableInv
      <3> QED BY <2>2, <3>1, NewestIsOrdered DEF RecentAreNewest
    <2> QED BY <2>1, <2>2 DEF IInv, ReadInv
  <1> QED BY <1>1, InductiveInvariant, PTL

\* run_analysis: one workflow at most for a request, none without data, and no
\* success without one that succeeded.
THEOREM OneWorkflow == Spec => []OneWorkflowAtMost
  <1>1. IInv => OneWorkflowAtMost
    BY DEF IInv, WorkflowInv, OneWorkflowAtMost
  <1> QED BY <1>1, InductiveInvariant, PTL
=============================================================================
