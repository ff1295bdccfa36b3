----------------------------- MODULE SchemaInit -----------------------------
(***************************************************************************)
(* backend/initialize_schema.py and the contract of backend/schema.py: the *)
(* one-shot tool that creates the table measurements.  It runs in one      *)
(* engine.begin() block, but MySQL commits CREATE TABLE at once: what the  *)
(* tool does after it cannot take the table back.                          *)
(***************************************************************************)
CONSTANTS
    Tools,      \* executions of the tool
    Unset

ASSUME ToolsAssumption == Unset \notin {"created", "verified_existing", "rejected"}

VARIABLES
    schema,     \* "empty", "measurements", or "other" objects, which include a
                \* table of that name without all of its columns
    tool,       \* where each execution stands
    outcome     \* what initialize() returned, or "rejected"

schemaVars == <<schema, tool, outcome>>

SchemaInitial ==
    /\ schema \in {"empty", "measurements", "other"}
    /\ tool = [t \in Tools |-> "new"] /\ outcome = [t \in Tools |-> Unset]

ToolEnds(t, how) ==
    /\ tool' = [tool EXCEPT ![t] = "done"]
    /\ outcome' = [outcome EXCEPT ![t] = how]

\* validate_measurements: a SELECT of every column of the contract.
Readable == schema = "measurements"

\* The objects of the schema: none, or one table that has the right name.
Inspect(t) ==
    /\ tool[t] = "new"
    /\ tool' = [tool EXCEPT ![t] = IF schema = "empty" THEN "create" ELSE "validate"]
    /\ UNCHANGED <<schema, outcome>>

BugCreateIsEnough(t) ==
    /\ tool[t] = "create"
    /\ schema' = IF schema = "empty" THEN "measurements" ELSE schema
    /\ ToolEnds(t, "created")

\* CREATE TABLE IF NOT EXISTS: leaves alone what has appeared meanwhile.
CreateTable(t) ==
    /\ tool[t] = "create"
    /\ schema' = IF schema = "empty" THEN "measurements" ELSE schema
    /\ tool' = [tool EXCEPT ![t] = "validate created"]
    /\ UNCHANGED outcome

Validate(t) ==
    /\ Readable
    /\ \/ tool[t] = "validate" /\ ToolEnds(t, "verified_existing")
       \/ tool[t] = "validate created" /\ ToolEnds(t, "created")
    /\ UNCHANGED schema

\* A requirement is not met, a statement fails, or the process is killed; the
\* rollback has nothing to roll back.
Reject(t) ==
    /\ tool[t] # "done"
    /\ ToolEnds(t, "rejected")
    /\ UNCHANGED schema

\* Someone else creates objects in the empty schema.
Occupy == schema = "empty" /\ schema' = "other" /\ UNCHANGED <<tool, outcome>>

SchemaNext ==
    \/ \E t \in Tools : Inspect(t) \/ CreateTable(t) \/ Validate(t) \/ Reject(t)
    \/ Occupy
=============================================================================
