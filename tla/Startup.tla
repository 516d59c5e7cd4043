------------------------------ MODULE Startup ------------------------------
(***************************************************************************)
(* A program starts: the configuration is loaded, merged with the          *)
(* environment and the command line, validated and saved again, and the    *)
(* server then prepares its directory, its database, TLS and its socket    *)
(* (runServerApplication, startServer).  The command line client does the  *)
(* first part in its own way (prepareConfig), asks for its directory, and  *)
(* goes on when the configuration cannot be saved.                         *)
(*                                                                         *)
(* What the files hold survives the process, which may be killed between   *)
(* any two steps; any operation on a file may fail.  A start that is       *)
(* refused before the first write changes nothing and is not a step.       *)
(* A loss of power is not modelled: the two stores sync nothing.           *)
(***************************************************************************)
EXTENDS Integers

CONSTANTS
  Environment,   \* program -> what its environment may give: functions field -> value
  Arguments,     \* program -> what its command line may give
  Secret,        \* the files with a password -> the password, perhaps none
  Statements,    \* how many statements the schema has
  MaxStarts,     \* bound: starts of the program
  MaxFaults      \* bound: failing operations and crashes

ASSUME StartupAssumption ==
  /\ Statements \in Nat \ {0}
  /\ {MaxStarts, MaxFaults} \subseteq Nat

VARIABLES
  program,           \* "server" or "cli"
  conf, tmp, bak,    \* config.json, config.json.tmp, config.json.bak
  applied,           \* the statements of the schema the database file holds
  pc,                \* how far the process has come
  config,            \* its configuration
  plain,             \* it was given nothing but perhaps a password
  handle,            \* database_ is open
  statement,         \* the statements this process has executed
  saved,             \* the configuration of the last save that succeeded
  lost,              \* a write failed at the closing of the file, and nobody looked
  starts, faults

files == <<conf, tmp, bak>>
process == <<config, plain>>
database == <<applied, handle, statement>>
ghosts == <<saved, lost>>
vars == <<program, files, process, database, ghosts, pc, starts, faults>>

Absent == [missing |-> TRUE]
Torn == [broken |-> TRUE]

Fault == faults < MaxFaults /\ faults' = faults + 1
NoFault == UNCHANGED faults

-----------------------------------------------------------------------------
(* The configuration *)

\* ServerAppConfig, CliAppConfig; addr stands for the port, or the host and the port,
\* secret for a file that can be read, cert for the certificate and its key
Defaults == [addr |-> "default", user |-> "", pass |-> "", secret |-> "", dir |-> "",
             cert |-> "", tls |-> TRUE, dev |-> FALSE, insecure |-> FALSE]

\* options are settings, the flags among them are Boolean, and only the client knows
\* --insecure (parseCommandLine, applyEnvironment, parseArgs)
ASSUME OptionsAssumption ==
  \A p \in {"server", "cli"} : \A options \in Environment[p] \cup Arguments[p] :
    /\ DOMAIN options \subseteq DOMAIN Defaults
    /\ \A f \in {"tls", "dev", "insecure"} \cap DOMAIN options : options[f] \in BOOLEAN
    /\ "insecure" \in DOMAIN options => p = "cli"

\* plausible slip: the address is not written
Persisted_NoAddress(c) == [c EXCEPT !.pass = "", !.addr = "default"]

\* what save() writes: never the password
Persisted(c) == [c EXCEPT !.pass = "", !.insecure = c.dev /\ @]

\* load() of both stores: a file that is missing or cannot be parsed is no configuration,
\* nor is one that cannot be opened (Start)
Load == IF conf \in {Absent, Torn} THEN Defaults ELSE conf

\* readSecretFile, and the reading of the file in prepareConfig
ReadSecret(file) == Secret[file]

\* the defaults of a development profile
Developed(c) == [c EXCEPT !.user = IF c.dev /\ @ = "" THEN "admin" ELSE @,
                          !.pass = IF c.dev /\ @ = "" THEN "admin" ELSE @]

\* applyEnvironment, and the options of the command line in the same way
Given(options, c) ==
  [f \in DOMAIN options \cup DOMAIN c |-> IF f \in DOMAIN options THEN options[f] ELSE c[f]]

\* parseCommandLine: the command line over the environment over the file
ServerMerged(loaded, env, args) == Given(args, Given(env, loaded))

\* validateConfiguration: the file of the secret wins over any password
ServerConfig(loaded, env, args) ==
  LET c == ServerMerged(loaded, env, args)
  IN Developed([c EXCEPT !.pass = IF c.secret # "" THEN ReadSecret(c.secret) ELSE @])

\* the conditions of validateConfiguration and of the end of parseCommandLine
ServerAccepts(c, args) ==
  /\ c.user # "" /\ c.pass # ""
  /\ c.dev \/ c.tls
  /\ c.tls => c.cert # ""
  /\ "pass" \in DOMAIN args => c.dev

\* parseArgs: an option given with its default value cannot be told from one not given
Told(args) == [f \in {f \in DOMAIN args : args[f] # Defaults[f]} |-> args[f]]

\* prepareConfig, up to its checks: TLS is on again unless --development is given now
CliConfig(loaded, env, args) ==
  LET told == Told(args)
      c == Given(told, loaded)
  IN Developed([c EXCEPT !.tls = "dev" \notin DOMAIN told,
                         !.pass = IF c.secret # "" THEN ReadSecret(c.secret)
                                  ELSE IF "pass" \in DOMAIN env THEN env.pass ELSE @])

\* the checks of prepareConfig
CliAccepts(c, args) ==
  /\ c.user # "" /\ c.pass # ""
  /\ c.dev \/ c.tls
  /\ c.insecure => c.dev
  /\ "pass" \in DOMAIN args => c.dev

\* main, runServerApplication up to the save
Start(loaded, env, args) ==
  /\ pc = "down" /\ starts < MaxStarts
  /\ starts' = starts + 1
  /\ IF loaded = Load THEN NoFault ELSE Fault
  /\ IF program = "server"
     THEN /\ config' = ServerConfig(loaded, env, args)
          /\ ServerAccepts(config', args)
          /\ pc' = "write"
     ELSE /\ config' = CliConfig(loaded, env, args)
          /\ CliAccepts(config', args)
          /\ pc' = "directory"
  /\ plain' = (DOMAIN env \cup DOMAIN args \subseteq {"pass"})
  /\ UNCHANGED <<program, files, database, ghosts>>

\* ensureDirectoryInteractive: the directory that is set exists or is made, unless it
\* cannot be, or a person does not want it
EnsureDirectory(dir) == IF config.dir \in {"", dir} THEN NoFault ELSE Fault

\* the two loops of prepareConfig: a person names directories until one is there
AskDirectory(dir) ==
  /\ pc = "directory"
  /\ EnsureDirectory(dir)
  /\ config' = [config EXCEPT !.dir = dir]
  /\ pc' = "write"
  /\ UNCHANGED <<program, files, plain, database, ghosts, starts>>

-----------------------------------------------------------------------------
(* save() *)

\* save() returned false: fatal for the server, a message for the client
SaveFailed ==
  /\ Fault
  /\ pc' = IF program = "server" THEN "down" ELSE "serving"
  /\ UNCHANGED ghosts

\* the temporary file cannot be opened or written or, for the client, closed
WriteFails == tmp' \in {tmp, Torn} /\ SaveFailed

\* the server does not look whether closing the temporary file wrote all of it
WriteLost ==
  /\ program = "server" /\ Fault
  /\ tmp' = Torn /\ pc' = "backup"
  /\ lost' = TRUE /\ UNCHANGED saved

\* the temporary file
Write ==
  /\ pc = "write"
  /\ \/ tmp' = Persisted(config) /\ pc' = "backup" /\ NoFault /\ UNCHANGED ghosts
     \/ WriteFails
     \/ WriteLost
  /\ UNCHANGED <<program, conf, bak, process, database, starts>>

\* plausible slip: the configuration is removed without having been copied
Backup_Skipped ==
  /\ pc = "backup"
  /\ pc' = "remove" /\ NoFault
  /\ UNCHANGED <<program, files, process, database, ghosts, starts>>

\* copy_file(destination, backup), if there is a destination
Backup ==
  /\ pc = "backup"
  /\ \/ /\ pc' = "remove" /\ NoFault
        /\ bak' = IF conf = Absent THEN bak ELSE conf
        /\ UNCHANGED <<tmp, ghosts>>
     \/ /\ conf # Absent /\ SaveFailed
        /\ bak' \in {bak, Torn}
        /\ tmp' = IF program = "server" THEN Absent ELSE tmp
  /\ UNCHANGED <<program, conf, process, database, starts>>

\* remove(destination): the client does not look whether it worked
Remove ==
  /\ pc = "remove"
  /\ \/ conf' = Absent /\ pc' = "install" /\ NoFault /\ UNCHANGED <<tmp, ghosts>>
     \/ /\ program = "server" /\ conf # Absent /\ SaveFailed
        /\ tmp' = Absent /\ UNCHANGED conf
     \/ /\ program = "cli" /\ conf # Absent /\ Fault
        /\ pc' = "install" /\ UNCHANGED <<conf, tmp, ghosts>>
  /\ UNCHANGED <<program, bak, process, database, starts>>

\* rename(temporary, destination)
Install ==
  /\ pc = "install"
  /\ \/ /\ conf' = tmp /\ tmp' = Absent
        /\ pc' = IF program = "server" THEN "storage" ELSE "serving"
        /\ saved' = config
        /\ NoFault /\ UNCHANGED lost
     \/ SaveFailed /\ UNCHANGED <<conf, tmp>>
  /\ UNCHANGED <<program, bak, process, database, starts>>

-----------------------------------------------------------------------------
(* startServer *)

\* the process is over, and the database is closed
Ended == pc' = "down" /\ statement' = 0 /\ handle' = FALSE

\* plausible slip: the same server object is started again
StartFailed_Retries == pc' = "storage" /\ statement' = 0 /\ UNCHANGED handle

\* startServer returned false: main does not try again
StartFailed == Ended

\* ensureStorageDir and the opening in SqliteStorage::initialize, which takes an open
\* database for an initialised one
OpenStorage ==
  /\ pc = "storage"
  /\ \/ /\ pc' = IF handle THEN "tls" ELSE "schema"
        /\ handle' = TRUE /\ NoFault /\ UNCHANGED statement
     \/ Fault /\ StartFailed
  /\ UNCHANGED <<program, files, process, applied, ghosts, starts>>

\* executeSchema returns with the first failure, and initialize leaves the database open
SchemaFails == Fault /\ StartFailed /\ UNCHANGED applied

\* the statements of initialize: each is a transaction of its own, the number of the
\* version the last of them
ExecuteSchema ==
  /\ pc = "schema"
  /\ \/ /\ applied' = applied \cup {statement + 1}
        /\ statement' = statement + 1
        /\ pc' = IF statement + 1 = Statements THEN "tls" ELSE "schema"
        /\ NoFault /\ UNCHANGED handle
     \/ SchemaFails
  /\ UNCHANGED <<program, files, process, ghosts, starts>>

\* initializeTls
InitializeTls ==
  /\ pc = "tls"
  /\ \/ pc' = "listen" /\ NoFault /\ UNCHANGED <<statement, handle>>
     \/ config.tls /\ Fault /\ StartFailed
  /\ UNCHANGED <<program, files, process, applied, ghosts, starts>>

\* the rest of startServer: the socket, and the acceptor
Listen ==
  /\ pc = "listen"
  /\ \/ pc' = "serving" /\ NoFault /\ UNCHANGED <<statement, handle>>
     \/ Fault /\ StartFailed
  /\ UNCHANGED <<program, files, process, applied, ghosts, starts>>

\* signalHandler: a signal ends the loop of the program that serves
Stop ==
  /\ pc = "serving" /\ Ended
  /\ UNCHANGED <<program, files, process, applied, ghosts, starts, faults>>

\* the process is killed, perhaps in the middle of a file
Crash ==
  /\ pc # "down" /\ Fault /\ Ended
  /\ tmp' \in IF pc = "write" THEN {tmp, Torn} ELSE {tmp}
  /\ bak' \in IF pc = "backup" /\ conf # Absent THEN {bak, Torn} ELSE {bak}
  /\ UNCHANGED <<program, conf, process, applied, ghosts, starts>>

Init ==
  /\ program \in {"server", "cli"}
  /\ conf = Absent /\ tmp = Absent /\ bak = Absent
  /\ applied = {} /\ handle = FALSE /\ statement = 0
  /\ pc = "down" /\ config = Defaults /\ plain = FALSE
  /\ saved = Absent /\ lost = FALSE
  /\ starts = 0 /\ faults = 0

Next ==
  \/ \E loaded \in {Load, Defaults}, env \in Environment[program], args \in Arguments[program] :
       Start(loaded, env, args)
  \/ \E dir \in {"d", "e"} : AskDirectory(dir)
  \/ Write \/ Backup \/ Remove \/ Install
  \/ OpenStorage \/ ExecuteSchema \/ InitializeTls \/ Listen
  \/ Stop \/ Crash

Spec == Init /\ [][Next]_vars

-----------------------------------------------------------------------------
\* What was saved last is on the disk, whole, whenever the process is killed and whatever
\* fails: in config.json, or, between its removal and the renaming of the new one, in
\* config.json.bak - or the new configuration is in its place already.  The exception is
\* the server's own: it does not look whether the temporary file could be closed.
ConfigSurvives ==
  saved # Absent /\ ~lost =>
    \/ conf = Persisted(saved)
    \/ conf = Absent /\ bak = Persisted(saved)

\* A start that is given nothing but a password runs with what was saved last, or does not
\* run: it never comes up with the defaults in place of a configuration that was lost.
\* The client's TLS is the exception: it is on again at every start without --development.
PlainStart ==
  [][pc = "down" /\ pc' # "down" /\ plain' =>
       /\ saved # Absent
       /\ config' = [saved EXCEPT !.pass = config'.pass, !.tls = @ \/ program = "cli"]]_vars

\* A server that serves has the whole schema, although each of its statements is a
\* transaction of its own, a failing one leaves the database open and the next
\* initialize() takes an open database for a finished one.
SchemaComplete ==
  program = "server" /\ pc \in {"tls", "listen", "serving"} => applied = 1..Statements

=============================================================================
