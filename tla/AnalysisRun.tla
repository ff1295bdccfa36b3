---------------------------- MODULE AnalysisRun -----------------------------
(***************************************************************************)
(* POST /analysis/run: build_analysis_context of backend/main.py reads the *)
(* measurements with two SELECTs on one connection while rows keep being   *)
(* inserted, then run_analysis of backend/dify.py runs one Dify workflow.  *)
(***************************************************************************)
EXTENDS Naturals, Sequences, FiniteSets

CONSTANTS
    Servers,    \* server ids
    All,        \* the request names no server
    Window,     \* minutes
    Limit,      \* anomaly_limit
    Times,      \* measured_at values that occur, around the request's
    Now,        \* now_utc of the request
    MaxRows     \* bound on inserted rows

ASSUME AnalysisAssumption ==
    /\ All \notin Servers
    /\ Window \in Nat /\ Limit \in 1..20 /\ Now \in Nat /\ MaxRows \in Nat
    /\ Window <= Now /\ Times \subseteq Nat

VARIABLES
    rows,       \* the measurements table
    pc,         \* progress of the request
    server,     \* its server_id, or All
    snapshot,   \* what the open transaction sees
    summary,    \* result of the first SELECT
    recent,     \* result of the second, a sequence of rows
    started,    \* workflow executions Dify has begun for this request
    succeeded,  \* executions that ended with status "succeeded"
    status      \* what the client gets: "none", an HTTP error or "succeeded", "skipped"

vars == <<rows, pc, server, snapshot, summary, recent, started, succeeded, status>>

Init ==
    /\ rows = {} /\ pc = "idle"
    /\ server \in Servers \cup {All}
    /\ snapshot = {} /\ summary = [samples |-> 0, anomalies |-> 0, latest |-> 0]
    /\ recent = <<>> /\ started = 0 /\ succeeded = 0
    /\ status = "none"

\* A measurement is committed; measured_at is the client's, in any order.
InsertRow ==
    /\ Cardinality(rows) < MaxRows
    /\ \E s \in Servers, t \in Times, a \in BOOLEAN :
          rows' = rows \cup {[id |-> Cardinality(rows) + 1, server |-> s, at |-> t, anomaly |-> a]}
    /\ UNCHANGED <<pc, server, snapshot, summary, recent, started, succeeded, status>>

\* WHERE measured_at >= :since AND measured_at <= :until [AND server_id = :server_id]
Matching(table) ==
    {r \in table : r.at >= Now - Window /\ r.at <= Now /\ server \in {All, r.server}}

AnomaliesIn(table) == {r \in Matching(table) : r.anomaly}

Ends(answer) == pc' = "done" /\ status' = answer

DatabaseFails ==
    /\ pc \in {"idle", "counted"}
    /\ Ends("503")
    /\ UNCHANGED <<rows, server, snapshot, summary, recent, started, succeeded>>

\* The first statement opens the transaction and with it the snapshot
\* (REPEATABLE READ, the default of the MySQL engine the code connects to).
SelectSummary ==
    /\ pc = "idle"
    /\ snapshot' = rows
    /\ summary' = [samples   |-> Cardinality(Matching(rows)),
                   anomalies |-> Cardinality(AnomaliesIn(rows)),
                   latest    |-> IF Matching(rows) = {} THEN 0
                                 ELSE CHOOSE t \in {r.at : r \in Matching(rows)} :
                                         \A r \in Matching(rows) : r.at <= t]
    /\ pc' = "counted"
    /\ UNCHANGED <<rows, server, recent, started, succeeded, status>>

\* ORDER BY measured_at DESC, id DESC LIMIT :anomaly_limit: a row's place in the
\* result is the number of rows that go before it.
Newer(r, s) == r.at > s.at \/ (r.at = s.at /\ r.id > s.id)
Ahead(r, S) == {s \in S : Newer(s, r)}
Listed(S) == IF Cardinality(S) < Limit THEN Cardinality(S) ELSE Limit
BugOrderById(table) ==
    LET S == AnomaliesIn(table)
    IN [i \in 1..Listed(S) |-> CHOOSE r \in S : Cardinality({s \in S : s.id > r.id}) = i - 1]
Newest(table) ==
    LET S == AnomaliesIn(table)
    IN [i \in 1..Listed(S) |-> CHOOSE r \in S : Cardinality(Ahead(r, S)) = i - 1]

BugSecondConnection ==
    /\ pc = "counted"
    /\ recent' = Newest(rows)
    /\ pc' = "context"
    /\ UNCHANGED <<rows, server, snapshot, summary, started, succeeded, status>>
SelectRecent ==
    /\ pc = "counted"
    /\ recent' = Newest(snapshot)
    /\ pc' = "context"
    /\ UNCHANGED <<rows, server, snapshot, summary, started, succeeded, status>>

\* run_analysis: nothing to analyse, or no usable configuration.
Prepare ==
    /\ pc = "context"
    /\ \/ summary.samples = 0 /\ Ends("skipped")
       \/ summary.samples > 0 /\ Ends("503")
       \/ summary.samples > 0 /\ pc' = "post" /\ UNCHANGED status
    /\ UNCHANGED <<rows, server, snapshot, summary, recent, started, succeeded>>

\* The workflow starts once Dify has the request ...
WorkflowStarts ==
    /\ pc = "post"
    /\ started' = started + 1
    /\ pc' = "running"
    /\ UNCHANGED <<rows, server, snapshot, summary, recent, succeeded, status>>

\* ... and ends on its own, with a complete answer or without one.
WorkflowEnds ==
    /\ pc = "running"
    /\ \/ succeeded' = succeeded + 1 /\ pc' = "answered"
       \/ UNCHANGED succeeded /\ pc' = "rejected"
    /\ UNCHANGED <<rows, server, snapshot, summary, recent, started, status>>

\* The client's timeout may pass before, during or after the execution.
BugRetryOnTimeout ==
    /\ pc \in {"post", "running", "answered", "rejected"}
    /\ \/ pc' = "post" /\ started <= 2 /\ UNCHANGED status
       \/ Ends("504")
    /\ UNCHANGED <<rows, server, snapshot, summary, recent, started, succeeded>>
TimesOut ==
    /\ pc \in {"post", "running", "answered", "rejected"}
    /\ Ends("504")
    /\ UNCHANGED <<rows, server, snapshot, summary, recent, started, succeeded>>

\* Authentication, connection, HTTP and protocol errors; even the answer of an
\* execution that succeeded is refused when it is lost or cannot be used.
RequestFails ==
    /\ pc \in {"post", "running", "answered", "rejected"}
    /\ Ends("502")
    /\ UNCHANGED <<rows, server, snapshot, summary, recent, started, succeeded>>

\* A complete response passes the checks of status, run id and analysis_result.
CheckResponse ==
    /\ pc = "answered"
    /\ Ends("succeeded")
    /\ UNCHANGED <<rows, server, snapshot, summary, recent, started, succeeded>>

Next ==
    \/ InsertRow \/ DatabaseFails \/ SelectSummary \/ SelectRecent \/ Prepare
    \/ WorkflowStarts \/ WorkflowEnds \/ TimesOut \/ RequestFails \/ CheckResponse

Spec == Init /\ [][Next]_vars

----------------------------------------------------------------------------
\* The context is consistent in itself although rows arrive between its two
\* reads: it lists as many anomalies as it counts (up to the limit), all of them
\* within the window, none newer than the latest measurement it reports.
ContextConsistent ==
    pc \notin {"idle", "counted"} /\ status # "503" =>
        /\ Len(recent) = IF summary.anomalies < Limit THEN summary.anomalies ELSE Limit
        /\ \A i \in 1..Len(recent) :
              recent[i].at >= Now - Window /\ recent[i].at <= summary.latest
        /\ summary.anomalies <= summary.samples

\* The listed anomalies are the newest by time of measurement, newest first: one
\* that is left out is never newer than one that is listed.
RecentAreNewest ==
    /\ \A i, j \in 1..Len(recent) : i < j => Newer(recent[i], recent[j])
    /\ Len(recent) > 0 =>
          \A r \in AnomaliesIn(snapshot) \ {recent[i] : i \in 1..Len(recent)} :
              Newer(recent[Len(recent)], r)

\* One request runs at most one workflow, and none without data; a success is
\* reported only for an execution that succeeded.
OneWorkflowAtMost ==
    /\ started <= 1
    /\ started = 1 => summary.samples > 0
    /\ status = "succeeded" => succeeded = 1
=============================================================================
