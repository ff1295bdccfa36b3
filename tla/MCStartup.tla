----------------------------- MODULE MCStartup ------------------------------
(***************************************************************************)
(* The retry controller on a plan that mixes the three kinds of operation. *)
(***************************************************************************)
EXTENDS Startup

MCPlan == <<[phase |-> "configuration",     io |-> "local"],
            [phase |-> "artifact_download", io |-> "registry"],
            [phase |-> "model_load",        io |-> "local"],
            [phase |-> "db_contract",       io |-> "database"],
            [phase |-> "model_load",        io |-> "local"]>>
=============================================================================
