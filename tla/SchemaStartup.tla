--------------------------- MODULE SchemaStartup ----------------------------
(***************************************************************************)
(* The application starts while the schema tool may still be at work, or   *)
(* has died after its CREATE TABLE: AppStartup and SchemaInit composed     *)
(* over the schema that the "schema" step of the start reads.              *)
(***************************************************************************)
EXTENDS AppStartup, SchemaInit

startVars == <<vars, appVars>>

\* validate_database can only return if the table could be read; the errors
\* MySQL answers with otherwise (1146, 1054) are permanent ones.
ValidateDatabase ==
    host = "run" /\ Step = "schema" /\ pc = "calling" /\ pc' = "accept" => Readable

SchemaStartupInit == AppInit /\ SchemaInitial

SchemaStartupNext ==
    \/ AppNext /\ ValidateDatabase /\ UNCHANGED schemaVars
    \/ SchemaNext /\ UNCHANGED startVars

SchemaStartupSpec ==
    SchemaStartupInit /\ [][SchemaStartupNext]_<<startVars, schemaVars>>

----------------------------------------------------------------------------
\* Whoever says that the schema is usable can rely on it from then on, however
\* executions of the tool overlap each other, fail after their CREATE TABLE, or
\* meet objects of somebody else: a tool that exits with 0, and an application
\* that publishes readiness, do so only with a table that has every column.
UsableWhenClaimed ==
    /\ complete => Readable
    /\ \A t \in Tools : outcome[t] \in {"created", "verified_existing"} => Readable
=============================================================================
