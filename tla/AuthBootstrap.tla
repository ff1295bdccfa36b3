--------------------------- MODULE AuthBootstrap ----------------------------
(***************************************************************************)
(* k8s/mlflow/auth/bootstrap_admin.py next to the migration: jobs that     *)
(* create the first administrator.  The look at the tables and MLflow's    *)
(* insert are separate transactions without a lock, a job can be killed    *)
(* anywhere, and a rotated secret gives two jobs different passwords for   *)
(* the same user name.                                                     *)
(***************************************************************************)
EXTENDS FencedMigration

CONSTANTS
    Bootstraps,  \* executions of the script
    PasswordOf,  \* MLFLOW_AUTH_ADMIN_PASSWORD of each
    Admin,       \* MLFLOW_AUTH_ADMIN_USERNAME, one secret shared with the server
    Client       \* a user that is no administrator

ASSUME BootstrapAssumption ==
    /\ Admin # Client
    /\ None \notin {PasswordOf[b] : b \in Bootstraps}
    /\ None \notin {0, 1}  \* exit codes

VARIABLES
    users,       \* committed rows of the table users
    boot,        \* where each bootstrap stands
    exit         \* its exit code

bootVars == <<users, boot, exit>>

Row(b) == [name |-> Admin, password |-> PasswordOf[b], admin |-> TRUE]
ClientRow == [name |-> Client, password |-> None, admin |-> FALSE]

AtHead == Version(durable) = HEAD

\* A schema of an earlier release can have its users already.
BootstrapInit ==
    /\ Init
    /\ boot = [b \in Bootstraps |-> "new"] /\ exit = [b \in Bootstraps |-> None]
    /\ users \in IF durable = <<>> THEN {{}}
                 ELSE {{}, {ClientRow}} \cup {{Row(b), ClientRow} : b \in Bootstraps}

Exits(b, c) ==
    /\ boot' = [boot EXCEPT ![b] = "done"]
    /\ exit' = [exit EXCEPT ![b] = c]

\* The outcome of looking at the rows named Admin and, if there are none, at
\* the number of all rows.
LookAtUsers(b) ==
    \/ Row(b) \in users /\ Exits(b, 0)
    \/ users # {} /\ Row(b) \notin users /\ Exits(b, 1)
    \/ users = {} /\ boot' = [boot EXCEPT ![b] = "create"] /\ UNCHANGED exit

BugCheckAnyRevision(b) ==
    /\ boot[b] = "new"
    /\ LookAtUsers(b)
    /\ UNCHANGED <<vars, users>>

\* Three SELECTs of one transaction, REPEATABLE READ: they see one state.
CheckUsers(b) ==
    /\ boot[b] = "new"
    /\ \/ ~AtHead /\ Exits(b, 1)
       \/ AtHead /\ LookAtUsers(b)
    /\ UNCHANGED <<vars, users>>

BugTrustCreation(b) ==
    /\ boot[b] = "create"
    /\ users' = IF \E u \in users : u.name = Admin THEN users ELSE users \cup {Row(b)}
    /\ Exits(b, 0)
    /\ UNCHANGED vars

\* MLflow's bootstrap_admin_user creates the user unless the name is taken, of
\* which it says nothing; it can fail before or after its commit.
CreateAdmin(b) ==
    /\ boot[b] = "create"
    /\ users' = IF \E u \in users : u.name = Admin THEN users ELSE users \cup {Row(b)}
    /\ \/ boot' = [boot EXCEPT ![b] = "verify"] /\ UNCHANGED exit
       \/ Exits(b, 1)
    /\ UNCHANGED vars

\* A fresh connection; .one() and require() raise unless it is this job's row.
VerifyAdmin(b) ==
    /\ boot[b] = "verify"
    /\ Exits(b, IF Row(b) \in users THEN 0 ELSE 1)
    /\ UNCHANGED <<vars, users>>

\* A read, the configuration file or the external call fails without an effect,
\* or the Job is killed at its deadline.
BootstrapFails(b) ==
    /\ boot[b] # "done"
    /\ Exits(b, 1)
    /\ UNCHANGED <<vars, users>>

BootstrapSteps ==
    \E b \in Bootstraps :
        CheckUsers(b) \/ CreateAdmin(b) \/ VerifyAdmin(b) \/ BootstrapFails(b)

MigrationSteps == Next /\ UNCHANGED bootVars

----------------------------------------------------------------------------
\* Of jobs with different passwords for the administrator at most one kind ever
\* exits with 0, however they overlap and whoever's insert came first: an
\* operator who saw a success can log in with the password of that job.
SuccessesAgree ==
    \A b, c \in Bootstraps :
        exit[b] = 0 /\ exit[c] = 0 => PasswordOf[b] = PasswordOf[c]

\* No job writes users into a schema that is still being migrated, or that a
\* dead migration left unfinished, although it checks the schema and writes later.
UsersOnlyOnHead ==
    [][users' # users => AtHead /\ Len(durable) = Len(Script)]_<<vars, bootVars>>
=============================================================================
