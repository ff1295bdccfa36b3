----------------------------- MODULE AppStartup -----------------------------
(***************************************************************************)
(* Start of the FastAPI application with MODEL_SOURCE=registry: the import *)
(* of backend/main.py (configuration, backend/model_loader.py) and its     *)
(* startup hooks, every step going through the retry controller of         *)
(* Startup.  Adds what the steps allocate and must give back: temporary    *)
(* directories, process-wide transport overrides, the preflight engine,    *)
(* and the latch that publishes readiness.                                 *)
(***************************************************************************)
EXTENDS Startup, FiniteSets

\* The run() calls of one start, in order.
Steps == <<"url", "engine", "target", "client", "lookup", "entry", "download",
           "package", "preflight", "schema", "publish">>

AppPlan ==
    [i \in 1..Len(Steps) |->
        CASE Steps[i] = "lookup"   -> [phase |-> "registry_lookup",   io |-> "registry"]
          [] Steps[i] = "download" -> [phase |-> "artifact_download", io |-> "registry"]
          [] Steps[i] = "schema"   -> [phase |-> "db_contract",       io |-> "database"]
          [] Steps[i] \in {"entry", "package", "publish"}
                                   -> [phase |-> "model_load",        io |-> "local"]
          [] OTHER                 -> [phase |-> "configuration",     io |-> "local"]]

ASSUME AppPlanAssumption == Plan = AppPlan

VARIABLES
    host,        \* "run", "dispose", "verified", "published", "serving", "stopped"
                 \* or "exited"
    temps,       \* temporary directories that exist, named by their attempt
    downloaded,  \* directories the loader is due to clean up
    overrides,   \* MLFLOW_* environment overrides and logging.disable in effect
    model,       \* the module-level `model` is set
    complete,    \* app.state.startup_complete
    verifier     \* the write-free verifier is enabled

appVars == <<host, temps, downloaded, overrides, model, complete, verifier>>

Step == Steps[call]

AppInit ==
    /\ Init
    /\ host = "run" /\ temps = {} /\ downloaded = {}
    /\ overrides = FALSE /\ model = FALSE /\ complete = FALSE
    /\ verifier \in BOOLEAN

\* run() has returned or raised.
StepOver == call' # call \/ pc' \in {"ready", "failed"}

\* The `finally` of _registry_steps, which encloses download and package.
Released(dirs) ==
    IF pc' = "failed" \/ (Step = "package" /\ StepOver) THEN dirs \ downloaded ELSE dirs

\* validate_database is followed by dispose(), whether it returned or raised.
HostMoves ==
    host' = IF Step = "schema" /\ StepOver THEN "dispose"
            ELSE CASE pc' = "failed" -> "exited"
                   [] pc' = "ready" -> "verified"
                   [] OTHER -> "run"

----------------------------------------------------------------------------
\* A download creates its directory before the transport guard; when the guard
\* rejects, the directory is removed on the way out.
Enter ==
    /\ host = "run"
    /\ EnterOperation
    /\ LET begun == pc' = "calling"
       IN /\ overrides' = (begun /\ Medium = "registry")
          /\ temps' = Released(IF begun /\ Step = "download"
                               THEN temps \cup {attempt} ELSE temps)
    /\ HostMoves
    /\ UNCHANGED <<downloaded, model, complete, verifier>>

\* tracked_download records the directory as soon as the download returns.
BugTrackAfterRun ==
    /\ host = "run"
    /\ OperationReturns
    /\ overrides' = FALSE
    /\ HostMoves
    /\ UNCHANGED <<temps, downloaded, model, complete, verifier>>

Return ==
    /\ host = "run"
    /\ OperationReturns
    /\ overrides' = FALSE
    /\ downloaded' = IF Step = "download" THEN downloaded \cup {attempt} ELSE downloaded
    /\ HostMoves
    /\ UNCHANGED <<temps, model, complete, verifier>>

Raise(kind) ==
    /\ host = "run"
    /\ OperationRaises(kind)
    /\ overrides' = FALSE
    /\ temps' = IF Step = "download" THEN temps \ {attempt} ELSE temps
    /\ HostMoves
    /\ UNCHANGED <<downloaded, model, complete, verifier>>

\* The decisions of the controller that touch no resource of their own.
Decide ==
    /\ host = "run"
    /\ CheckBudget \/ JudgeFailure \/ ScheduleRetry \/ Wake \/ AdapterRejects
    /\ temps' = Released(temps)
    /\ HostMoves
    /\ UNCHANGED <<downloaded, overrides, model, complete, verifier>>

\* run() has accepted a result.  The import of the module ends with its model set;
\* a start whose last result was accepted goes on to publish.
Accept ==
    /\ host = "run"
    /\ AcceptResult
    /\ temps' = Released(temps)
    /\ model' = (model \/ (Step = "package" /\ call' # call))
    /\ HostMoves
    /\ UNCHANGED <<downloaded, overrides, complete, verifier>>

\* No budget check behind the disposal: the start publishes once it has disposed.
BugPublishAfterDispose ==
    /\ host = "dispose"
    /\ host' = IF pc = "failed" THEN "exited" ELSE "verified"
    /\ UNCHANGED <<vars, temps, downloaded, overrides, model, complete, verifier>>

\* preflight.dispose(); its failure ends startup even after a valid schema.
Dispose ==
    /\ host = "dispose"
    /\ \/ /\ host' = IF pc = "failed" THEN "exited" ELSE "run"
          /\ UNCHANGED vars
       \/ /\ host' = "exited"
          /\ StartupFails("permanent", "permanent_or_unknown") /\ UNCHANGED raised
    /\ UNCHANGED <<temps, downloaded, overrides, model, complete, verifier>>

\* The latch, set behind the last run(): time has passed since its budget check.
Publish ==
    /\ host = "verified"
    /\ host' = "published"
    /\ complete' = TRUE
    /\ UNCHANGED <<vars, temps, downloaded, overrides, model, verifier>>

\* The second startup hook: a verifier that cannot start withdraws readiness.
BugKeepLatchOnVerifierFailure ==
    /\ host = "published"
    /\ host' = "serving" \/ (verifier /\ host' = "exited")
    /\ UNCHANGED <<vars, temps, downloaded, overrides, model, complete, verifier>>
StartVerifier ==
    /\ host = "published"
    /\ \/ host' = "serving" /\ UNCHANGED complete
       \/ verifier /\ host' = "exited" /\ complete' = FALSE
    /\ UNCHANGED <<vars, temps, downloaded, overrides, model, verifier>>

\* The shutdown hook: only an enabled verifier withdraws the latch.
ShutdownHook ==
    /\ host = "serving"
    /\ host' = "stopped"
    /\ complete' = (complete /\ ~verifier)
    /\ UNCHANGED <<vars, temps, downloaded, overrides, model, verifier>>

AppTick == Tick /\ UNCHANGED appVars

AppSteps ==
    \/ Enter \/ Return \/ Decide \/ Accept \/ Dispose \/ Publish \/ StartVerifier
    \/ \E kind \in {"retryable", "permanent"} : Raise(kind)

AppNext == AppTick \/ AppSteps \/ ShutdownHook

----------------------------------------------------------------------------
\* Nothing a step allocates outlives it on any path: the transport overrides
\* only during a registry call, one directory from the start of a download
\* attempt until it fails or the package is loaded, and the package is always
\* read from a directory that exists.
NothingOutlivesItsStep ==
    /\ overrides => host = "run" /\ pc = "calling" /\ Medium = "registry"
    /\ Cardinality(temps) <= 1
    /\ temps # {} => host = "run" /\ Step \in {"download", "package"}
    /\ host = "run" /\ Step = "package" => temps # {} /\ temps = downloaded

\* Readiness is published with a model and with everything used on the way given
\* back.  If the deadline passes while any part of the start is still to be
\* accepted, the disposal of the preflight engine after the last remote read
\* included, it is never published.  (It may still be published late: time can
\* pass between the last budget check and the latch, and nothing checks again.)
Undecided == host \in {"run", "dispose"}

PublishedInTime ==
    /\ [][complete' /\ ~complete => model /\ temps = {}]_<<vars, appVars>>
    /\ [](now >= Budget /\ Undecided => []~complete)

\* The latch is set only behind the last accepted step and in a process that has a
\* model.  A process that exits because a step or a startup hook has failed does
\* not keep it, and one with an enabled verifier gives it up before it stops the
\* verifier.  (It is set already while the second startup hook runs.)
ReadyOnlyWhenPublished ==
    complete =>
        /\ pc = "ready" /\ model
        /\ host \in {"published", "serving", "stopped"}
        /\ host = "stopped" => ~verifier
=============================================================================
