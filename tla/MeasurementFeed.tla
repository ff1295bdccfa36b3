-------------------------- MODULE MeasurementFeed ---------------------------
(***************************************************************************)
(* What simulator, service and database promise together of a stream of    *)
(* measurements: each that was taken is recorded at most once and never    *)
(* lost again; what its sender is told was recorded is; each record is     *)
(* counted at most once, or never, if the service did not learn of it or   *)
(* restarted; an alarm is raised for nothing that was not counted; and a   *)
(* gauge shows nothing that is not recorded.                               *)
(* Abstract specification of `MeasurementPipeline`.                        *)
(***************************************************************************)
EXTENDS Naturals

CONSTANTS
    Home,       \* the server of each measurement
    Dials,      \* the gauges of a server
    Anomalies,  \* measurements that raise the alarm
    Nothing     \* all gauges of all servers, while they show nothing

VARIABLES
    taken,   \* how many measurements there are by now
    table,   \* rows of them, [id, m]
    told,    \* those whose sender knows that they are recorded
    owed,    \* those that this service has recorded and still has to count
    due,     \* those of them it has counted and still has to raise the alarm for
    counted, alarms,  \* what it has counted since it started
    shown    \* what its gauges show

feedVars == <<taken, table, told, owed, due, counted, alarms, shown>>

Recorded(m) == \E r \in table : r.m = m

Init ==
    /\ taken = 0 /\ table = {} /\ told = {} /\ owed = {} /\ due = {}
    /\ counted = 0 /\ alarms = 0 /\ shown = Nothing

Take ==
    /\ taken' = taken + 1
    /\ UNCHANGED <<table, told, owed, due, counted, alarms, shown>>

\* The service may not learn that it has recorded a measurement.
Record(m) ==
    /\ m <= taken /\ ~Recorded(m)
    /\ \E r \in table' : /\ table' = table \cup {r} /\ r.m = m
                         /\ \A s \in table : s.id # r.id
    /\ owed' \in {owed, owed \cup {m}}
    /\ UNCHANGED <<taken, told, due, counted, alarms, shown>>

Tell(m) ==
    /\ Recorded(m)
    /\ told' = told \cup {m}
    /\ UNCHANGED <<taken, table, owed, due, counted, alarms, shown>>

Count(m) ==
    /\ m \in owed
    /\ owed' = owed \ {m}
    /\ counted' = counted + 1
    /\ due' = IF m \in Anomalies THEN due \cup {m} ELSE due
    /\ UNCHANGED <<taken, table, told, alarms, shown>>

Alarm(m) ==
    /\ m \in due
    /\ due' = due \ {m}
    /\ alarms' = alarms + 1
    /\ UNCHANGED <<taken, table, told, owed, counted, shown>>

Show(m, dial) ==
    /\ Recorded(m) /\ m \notin owed \cup due
    /\ shown' = [shown EXCEPT ![Home[m]][dial] = m]
    /\ UNCHANGED <<taken, table, told, owed, due, counted, alarms>>

Restart ==
    /\ owed' = {} /\ due' = {} /\ counted' = 0 /\ alarms' = 0 /\ shown' = Nothing
    /\ UNCHANGED <<taken, table, told>>

Next ==
    \/ Take \/ Restart
    \/ \E m \in DOMAIN Home : \/ Record(m) \/ Tell(m) \/ Count(m) \/ Alarm(m)
                              \/ \E dial \in Dials : Show(m, dial)

Spec == Init /\ [][Next]_feedVars
=============================================================================
