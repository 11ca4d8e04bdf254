---------------------------- MODULE BootstrapAuth ----------------------------
(***************************************************************************)
(* What a container of Flora Hive does when it starts (docker-entrypoint): *)
(* bootstrap:auth (internal/bootstrapauth) creates a system and registers  *)
(* an account at uServer-Auth, writing what it has learned to the env      *)
(* file; then app:serve starts, with the environment as it is by then.     *)
(* The container may die at any time and starts again.                     *)
(*                                                                         *)
(* A call to uServer-Auth is one step: it is answered, refused, or lost on *)
(* the way there or back.  A run without USERVER_AUTH_HOST or a system     *)
(* name ends before its first call and is left out, like one that is       *)
(* skipped.  A custom token is a token that uServer-Auth made.             *)
(***************************************************************************)
EXTENDS EnvFile, FiniteSets

CONSTANTS
    Unset,     \* not in the environment, which is not the same as empty
    None,      \* no system
    Lines,     \* lines the operator may write
    Targets,   \* where persisting goes: "dotenv", "elsewhere" or "off"
    Exports    \* environments a container may be given

ASSUME BootstrapConstants ==
    /\ Unset \notin Value
    /\ None \notin Value
    /\ Lines \subseteq Line
    /\ Targets \subseteq {"dotenv", "elsewhere", "off"}
    /\ Exports \subseteq [BootKey -> Value \cup {Unset}]

VARIABLES
    conf,      \* the environment the container is given
    file,      \* the env file
    system,    \* the token of the system at uServer-Auth
    accounts,  \* the users registered there
    pc,        \* where the process is
    run,       \* what it has read
    faults     \* observation: "torn", a write stopped half-way; "lost", the
               \* token of a new system could not be stored

remote == <<system, accounts>>
bootVars == <<conf, file, remote, pc, run, faults>>

Conf ==
    [create : BOOLEAN,   \* a creation token is set
     target : Targets,
     exported : Exports]

Run == [BootKey -> Value]
Nothing == [k \in BootKey |-> Blank]

Phase == {"down", "create", "persist token", "register", "persist all",
          "done", "failed", "serve"}

\* godotenv overrides nothing that is exported, not even an empty value, and
\* it reads .env, whatever file persisting goes to.
Read(k) ==
    IF conf.exported[k] # Unset THEN conf.exported[k]
    ELSE IF conf.target = "elsewhere" THEN Blank ELSE Dotenv(file, k)

-----------------------------------------------------------------------------
BootInit ==
    /\ conf \in Conf
    /\ \E n \in 0..MaxLines : file \in [1..n -> Lines]
    /\ system \in Own \cup {None}
    /\ accounts = {}
    /\ pc = "down"
    /\ run = Nothing
    /\ faults = {}

\* Faulty variant: a user without a name may be registered.
AfterSystemUnchecked(r) ==
    IF r.user = Blank /\ r.password = Blank THEN "done"
    ELSE IF r.token = Blank THEN "failed" ELSE "register"

\* What comes after the first phase for a run r.
AfterSystem(r) ==
    IF r.user = Blank /\ r.password = Blank THEN "done"
    ELSE IF Blank \in {r.user, r.password, r.token} THEN "failed" ELSE "register"

Start ==
    /\ pc = "down"
    /\ run' = [k \in BootKey |-> Read(k)]
    /\ pc' = IF conf.create THEN "create" ELSE AfterSystem(run')
    /\ UNCHANGED <<conf, file, remote, faults>>

\* 201 with a token.
SystemCreated ==
    /\ pc = "create"
    /\ system = None
    /\ system' = Made
    /\ run' = [run EXCEPT !.token = Made]
    /\ pc' = "persist token"
    /\ UNCHANGED <<conf, file, accounts, faults>>

\* Faulty variant: a system that exists is an error.
SystemExistsFails ==
    /\ pc = "create"
    /\ system # None
    /\ pc' = "failed"
    /\ UNCHANGED <<conf, file, remote, run, faults>>

\* 409: the token is the one that was read, if any.
SystemExists ==
    /\ pc = "create"
    /\ system # None
    /\ pc' = AfterSystem(run)
    /\ UNCHANGED <<conf, file, remote, run, faults>>

\* The call, or its answer, is lost or of no use; a 201 may have no token.
CreateFails ==
    /\ pc = "create"
    /\ \/ UNCHANGED <<system, faults>> /\ pc' = "failed"
       \/ /\ system = None
          /\ system' = Made
          /\ faults' = faults \cup {"lost"}
          /\ pc' \in {"failed", AfterSystem(run)}
    /\ UNCHANGED <<conf, file, accounts, run>>

\* 201 or 409.
Registered ==
    /\ pc = "register"
    /\ run.token = system
    /\ accounts' = accounts \cup {run.user}
    /\ pc' = "persist all"
    /\ UNCHANGED <<conf, file, system, run, faults>>

RegisterFails ==
    /\ pc = "register"
    /\ accounts' \in {accounts} \cup {accounts \cup {u} : u \in
                          {v \in {run.user} : run.token = system}}
    /\ pc' = "failed"
    /\ UNCHANGED <<conf, file, system, run, faults>>

-----------------------------------------------------------------------------
(* persistBootstrapEnv. *)

\* Not even tried, or every key has a value already.
NothingToWrite(up) == conf.target = "off" \/ FilterUpdates(file, up) = {}

NewFile(up) == Upsert(file, up, FilterUpdates(file, up))

Written(up) ==
    /\ \/ NothingToWrite(up) /\ UNCHANGED file
       \/ ~NothingToWrite(up) /\ file' = NewFile(up)

\* os.WriteFile empties the file before it writes.
Torn(up) ==
    /\ ~NothingToWrite(up)
    /\ \E n \in {0} \cup DOMAIN NewFile(up) : file' = CutAfter(NewFile(up), n)
    /\ faults' = faults \cup {"torn", "lost"}

\* Faulty variant: the token is left to the second phase.
PersistTokenLater ==
    /\ pc = "persist token"
    /\ file' = file
    /\ faults' = IF NothingToWrite([token |-> run.token]) THEN faults \cup {"lost"} ELSE faults
    /\ pc' = AfterSystem(run)
    /\ UNCHANGED <<conf, remote, run>>

\* The new token is not stored where another value is, nor where the file
\* cannot be read or written; the run goes on.
PersistToken ==
    LET up == [token |-> run.token]
    IN  /\ pc = "persist token"
        /\ \/ /\ Written(up)
              /\ faults' = IF NothingToWrite(up) THEN faults \cup {"lost"} ELSE faults
           \/ UNCHANGED file /\ faults' = faults \cup {"lost"}
           \/ Torn(up)
        /\ pc' = AfterSystem(run)
        /\ UNCHANGED <<conf, remote, run>>

PersistAll ==
    /\ pc = "persist all"
    /\ \/ Written(run) /\ UNCHANGED faults
       \/ UNCHANGED <<file, faults>>
       \/ Torn(run)
    /\ pc' = "done"
    /\ UNCHANGED <<conf, remote, run>>

-----------------------------------------------------------------------------
\* app:serve, whether or not bootstrap:auth has failed.
Serve ==
    /\ pc \in {"done", "failed"}
    /\ run' = [Nothing EXCEPT !.token = Read("token")]
    /\ pc' = "serve"
    /\ UNCHANGED <<conf, file, remote, faults>>

\* The container dies, or is restarted.
Crash ==
    /\ pc # "down"
    /\ pc' = "down"
    /\ run' = Nothing
    /\ faults' = IF pc = "persist token" THEN faults \cup {"lost"} ELSE faults
    /\ UNCHANGED <<conf, file, remote>>

BootNext ==
    \/ Start \/ SystemCreated \/ SystemExists \/ CreateFails
    \/ Registered \/ RegisterFails \/ PersistToken \/ PersistAll
    \/ Serve \/ Crash

BootSpec == BootInit /\ [][BootNext]_bootVars

-----------------------------------------------------------------------------
BootTypeOK ==
    /\ conf \in Conf
    /\ DOMAIN file \subseteq Slot
    /\ file \in [DOMAIN file -> Line]
    /\ system \in Real \cup {None}
    /\ accounts \subseteq Value \ {Blank}
    /\ pc \in Phase
    /\ run \in Run
    /\ faults \subseteq {"torn", "lost"}

\* bootstrap_auth.go:18 and run.go:126: the token of a new system is stored
\* before anything else can fail, survives everything later runs write, and
\* is what the server starts with (unless the environment exports another, or
\* the token is one that is not read as it was written).
TokenKept ==
    system = Made /\ "lost" \notin faults /\ Loaded[Made] = Made =>
        /\ pc = "persist token" \/ Dotenv(file, "token") = Made
        /\ pc = "persist token" => run.token = Made
        /\ pc = "serve" /\ conf.target = "dotenv" /\ conf.exported.token = Unset
              => run.token = Made

\* bootstrap_auth.go:18: what is persisted goes where keys are empty or
\* placeholders.  Once a process would read a real value for a key from the
\* file, it always will, unless a write stops half-way.
NeverOverwritten ==
    [][\A k \in Key : "torn" \notin faults' /\ Dotenv(file, k) \in Real
          => Dotenv(file', k) = Dotenv(file, k)]_bootVars

\* The operator has given all that bootstrap:auth needs, and uServer-Auth
\* makes tokens that are read as they were written.
SetUp ==
    /\ conf.create
    /\ conf.target = "dotenv"
    /\ conf.exported.token = Unset
    /\ Loaded[Made] = Made
    /\ Read("user") # Blank /\ Read("password") # Blank
    /\ system # None => Read("token") = system

\* run.go:126 and 157: a container that is set up never presents another token
\* than the system's to register with, whichever run has created the system.
RegistersWithItsToken ==
    SetUp => []("lost" \notin faults /\ pc = "register" => run.token = system)

\* A container that is started again and again registers its account,
\* whatever was lost or refused before, as long as no token of a new system
\* was lost.
Converges ==
    SetUp /\ []("lost" \notin faults) /\ []<>(pc = "down") => <>(pc = "persist all")

\* The steps of the process are taken, and a call that is made again and
\* again is answered some time.
BootFairness ==
    /\ WF_bootVars(Start)
    /\ SF_bootVars(SystemCreated)
    /\ SF_bootVars(SystemExists)
    /\ SF_bootVars(Registered)
    /\ SF_bootVars(PersistToken)

=============================================================================
