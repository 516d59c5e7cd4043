------------------------ MODULE ConfigurationProofs ------------------------
(***************************************************************************)
(* Theorems about the configuration files and the start of the programs,   *)
(* for any options, number of statements, starts and faults.               *)
(***************************************************************************)
EXTENDS Configuration, Sequences, TLAPS

-----------------------------------------------------------------------------
(* What a save has done so far *)

\* while it is saved, the temporary file holds the whole new configuration
Prepared ==
  pc \in {"backup", "remove", "install"} /\ ~lost => tmp = Persisted(config)

\* and the old one is not removed before it is in the backup
BackedUp ==
  pc = "remove" /\ saved # Absent /\ ~lost => bak = Persisted(saved)

\* a configuration has a password, perhaps none, and so is never taken for a missing file
HasPassword(c) == "pass" \in DOMAIN c

Complete ==
  /\ HasPassword(config)
  /\ conf \in {Absent, Torn} \/ HasPassword(conf)
  /\ tmp \in {Absent, Torn} \/ HasPassword(tmp)
  /\ saved = Absent \/ HasPassword(saved)

SaveInv == Complete /\ Prepared /\ BackedUp /\ ConfigSurvives

(* The schema, statement by statement *)

\* a process that has not opened the database has executed nothing
Fresh == pc \notin {"schema", "tls", "listen", "serving"} => statement = 0 /\ ~handle

\* what this process has executed is in the file, with what others have
Executed ==
  /\ statement \in 0..Statements
  /\ applied \subseteq 1..Statements
  /\ 1..statement \subseteq applied

\* it goes on with TLS when nothing is left to execute
Whole ==
  /\ pc = "schema" => statement < Statements
  /\ pc \in {"tls", "listen"} => statement = Statements
  /\ pc = "serving" /\ program = "server" => statement = Statements

SchemaInv == Fresh /\ Executed /\ Whole

-----------------------------------------------------------------------------
\* The programs' settings next to those of the window: every behaviour of the whole is one
\* of the start and the saving alone.
THEOREM ConfigurationRefinesStartup == ConfigurationSpec => Spec
<1>1. ConfigurationInit => Init
  BY DEF ConfigurationInit
<1>2. [ConfigurationNext]_<<vars, windowVars>> => [Next]_vars
  BY DEF ConfigurationNext, StartupNext, WindowNext
<1>. QED  BY <1>1, <1>2, PTL DEF ConfigurationSpec, Spec

-----------------------------------------------------------------------------
\* What save() writes is as complete as what it is given, and neither is a missing file.
LEMMA PersistedIsComplete ==
  ASSUME NEW c, HasPassword(c)
  PROVE  HasPassword(Persisted(c)) /\ Persisted(c) # Absent /\ c # Absent
<1>1. DOMAIN Persisted(c) = DOMAIN c
  BY DEF Persisted
<1>2. "pass" \notin DOMAIN Absent
  BY DEF Absent
<1>. QED  BY <1>1, <1>2 DEF HasPassword

\* Whatever a start is given goes over a configuration that is complete (load, merging).
LEMMA MergedIsComplete ==
  ASSUME Complete, NEW loaded \in {Load, Defaults}, NEW env, NEW args
  PROVE  HasPassword(ServerConfig(loaded, env, args)) /\ HasPassword(CliConfig(loaded, env, args))
<1>1. HasPassword(loaded)
  <2>1. HasPassword(Load) /\ HasPassword(Defaults)
    BY DEF Load, Complete, HasPassword, Defaults
  <2>. QED  BY <2>1
<1>2. \A f, c : HasPassword(c) => HasPassword(Given(f, c))
  BY DEF HasPassword, Given
<1>3. \A c : HasPassword(c) => HasPassword(Developed(c))
  BY DEF HasPassword, Developed
<1>4. \A c, p : HasPassword(c) => HasPassword([c EXCEPT !.pass = p])
  BY DEF HasPassword
<1>5. \A c, t, p : HasPassword(c) => HasPassword([c EXCEPT !.tls = t, !.pass = p])
  BY DEF HasPassword
<1>6. HasPassword(ServerMerged(loaded, env, args))
  BY <1>1, <1>2 DEF ServerMerged
<1>7. HasPassword(ServerConfig(loaded, env, args))
  BY <1>3, <1>4, <1>6 DEF ServerConfig
<1>8. HasPassword(Given(Told(args), loaded))
  BY <1>1, <1>2
<1>9. HasPassword(CliConfig(loaded, env, args))
  BY <1>3, <1>5, <1>8 DEF CliConfig
<1>. QED  BY <1>7, <1>9

LEMMA SaveInit == Init => SaveInv
BY DEF Init, SaveInv, Complete, HasPassword, Defaults, Prepared, BackedUp, ConfigSurvives

\* Every step of a start and of save() keeps the configuration that was saved last in the
\* file or in its backup (ServerConfigStore::save, saveConfig).
LEMMA SaveStep == SaveInv /\ [Next]_vars => SaveInv'
<1>. SUFFICES ASSUME SaveInv, [Next]_vars PROVE SaveInv'
  OBVIOUS
<1>. USE DEF SaveInv, Complete, Prepared, BackedUp, ConfigSurvives
<1>0. /\ HasPassword(Persisted(config))
      /\ saved # Absent => Persisted(saved) # Absent
  BY PersistedIsComplete
<1>1. ASSUME NEW loaded \in {Load, Defaults}, NEW env \in Environment[program],
             NEW args \in Arguments[program], Start(loaded, env, args)
      PROVE  SaveInv'
  <2>1. HasPassword(config')
    BY <1>1, MergedIsComplete DEF Start
  <2>. QED  BY <1>1, <2>1 DEF Start, files, ghosts
<1>2. ASSUME NEW dir \in {"d", "e"}, AskDirectory(dir)
      PROVE  SaveInv'
  <2>1. HasPassword(config')
    BY <1>2 DEF AskDirectory, HasPassword
  <2>. QED  BY <1>2, <2>1 DEF AskDirectory, files, ghosts
<1>3. CASE Write
  BY <1>0, <1>3 DEF Write, WriteFails, WriteLost, SaveFailed, ghosts, process
<1>4. CASE Backup
  BY <1>0, <1>4 DEF Backup, SaveFailed, ghosts, process
<1>5. CASE Remove
  BY <1>0, <1>5 DEF Remove, SaveFailed, ghosts, process
<1>6. CASE Install
  BY <1>0, <1>6 DEF Install, SaveFailed, ghosts, process
<1>7. CASE OpenStorage \/ ExecuteSchema \/ InitializeTls \/ Listen
  BY <1>7 DEF OpenStorage, ExecuteSchema, InitializeTls, Listen, SchemaFails, StartFailed,
              Ended, files, process, ghosts
<1>8. CASE Stop
  BY <1>8 DEF Stop, Ended, files, process, ghosts
<1>9. CASE Crash
  BY <1>0, <1>9 DEF Crash, Ended, process, ghosts
<1>10. CASE UNCHANGED vars
  BY <1>10 DEF vars, files, process, ghosts
<1>. QED  BY <1>1, <1>2, <1>3, <1>4, <1>5, <1>6, <1>7, <1>8, <1>9, <1>10 DEF Next

\* What was saved last is on the disk, whole, in config.json or, while that is replaced, in
\* its backup, whenever the process is killed and whatever operation fails.
THEOREM ConfigurationSurvives == ConfigurationSpec => []ConfigSurvives
<1>1. SaveInv => ConfigSurvives
  BY DEF SaveInv
<1>2. Spec => []ConfigSurvives
  BY SaveInit, SaveStep, <1>1, PTL DEF Spec
<1>. QED  BY <1>2, ConfigurationRefinesStartup, PTL

-----------------------------------------------------------------------------
LEMMA SchemaInit == Init => SchemaInv
BY StartupAssumption DEF Init, SchemaInv, Fresh, Executed, Whole

\* Every step of a start keeps the account of the schema's statements (initialize).
LEMMA SchemaStep == SchemaInv /\ [Next]_vars => SchemaInv'
<1>. SUFFICES ASSUME SchemaInv, [Next]_vars PROVE SchemaInv'
  OBVIOUS
<1>. USE StartupAssumption DEF SchemaInv, Fresh, Executed, Whole
<1>1. ASSUME NEW loaded \in {Load, Defaults}, NEW env \in Environment[program],
             NEW args \in Arguments[program], Start(loaded, env, args)
      PROVE  SchemaInv'
  BY <1>1 DEF Start, database
<1>2. ASSUME NEW dir \in {"d", "e"}, AskDirectory(dir)
      PROVE  SchemaInv'
  BY <1>2 DEF AskDirectory, database
<1>3. CASE Write
  BY <1>3 DEF Write, WriteFails, WriteLost, SaveFailed, database
<1>4. CASE Backup
  BY <1>4 DEF Backup, SaveFailed, database
<1>5. CASE Remove
  BY <1>5 DEF Remove, SaveFailed, database
<1>6. CASE Install
  BY <1>6 DEF Install, SaveFailed, database
<1>7. CASE OpenStorage
  BY <1>7 DEF OpenStorage, StartFailed, Ended
<1>8. CASE ExecuteSchema
  <2>1. CASE SchemaFails
    BY <1>8, <2>1 DEF ExecuteSchema, SchemaFails, StartFailed, Ended
  <2>2. CASE ~SchemaFails
    <3>1. /\ applied' = applied \cup {statement + 1}
          /\ statement' = statement + 1
          /\ pc' = IF statement + 1 = Statements THEN "tls" ELSE "schema"
      BY <1>8, <2>2 DEF ExecuteSchema
    <3>2. pc = "schema" /\ statement + 1 \in 1..Statements
      BY <1>8 DEF ExecuteSchema
    <3>3. Executed'
      BY <3>1, <3>2
    <3>. QED  BY <3>1, <3>2, <3>3
  <2>. QED  BY <2>1, <2>2
<1>9. CASE InitializeTls
  BY <1>9 DEF InitializeTls, StartFailed, Ended
<1>10. CASE Listen
  BY <1>10 DEF Listen, StartFailed, Ended
<1>11. CASE Stop
  BY <1>11 DEF Stop, Ended
<1>12. CASE Crash
  BY <1>12 DEF Crash, Ended
<1>13. CASE UNCHANGED vars
  BY <1>13 DEF vars, database
<1>. QED
  BY <1>1, <1>2, <1>3, <1>4, <1>5, <1>6, <1>7, <1>8, <1>9, <1>10, <1>11, <1>12, <1>13 DEF Next

\* A server that has come past the opening of its database has the whole schema, however
\* often it was killed or failed in the middle of it before.
THEOREM SchemaIsComplete == ConfigurationSpec => []SchemaComplete
<1>1. SchemaInv => SchemaComplete
  BY StartupAssumption DEF SchemaInv, Executed, Whole, SchemaComplete
<1>2. Spec => []SchemaComplete
  BY SchemaInit, SchemaStep, <1>1, PTL DEF Spec
<1>. QED  BY <1>2, ConfigurationRefinesStartup, PTL

-----------------------------------------------------------------------------
(* What a start is given *)

\* the settings of a program, whatever they say
Shaped(c) ==
  /\ c = [f \in DOMAIN Defaults |-> c[f]]
  /\ c.tls \in BOOLEAN /\ c.dev \in BOOLEAN /\ c.insecure \in BOOLEAN
  /\ program = "server" => ~c.insecure

\* and settings a program runs with: it was neither refused for its user, nor for
\* --insecure without --development
Sound(c) ==
  /\ Shaped(c)
  /\ c.user # ""
  /\ c.insecure => c.dev

\* what is saved is sound, and the file has it, as far as it can be read at all
PlainInv ==
  /\ program \in {"server", "cli"}
  /\ pc # "down" => Sound(config)
  /\ saved # Absent => Sound(saved)
  /\ conf \notin {Absent, Torn} => saved # Absent /\ conf = Persisted(saved)
  /\ pc \in {"backup", "remove", "install"} => tmp \in {Persisted(config), Torn}

\* A configuration is what its settings are.
LEMMA SameSettings ==
  ASSUME NEW c, c = [f \in DOMAIN Defaults |-> c[f]],
         NEW d, d = [f \in DOMAIN Defaults |-> d[f]],
         \A f \in DOMAIN Defaults : c[f] = d[f]
  PROVE  c = d
OBVIOUS

\* Options are settings (parseCommandLine, applyEnvironment, parseArgs).
LEMMA GivenIsShaped ==
  ASSUME program \in {"server", "cli"}, NEW c, Shaped(c),
         NEW options \in Environment[program] \cup Arguments[program],
         NEW told, DOMAIN told \subseteq DOMAIN options,
         \A f \in DOMAIN told : told[f] = options[f]
  PROVE  Shaped(Given(told, c))
<1>. DEFINE g == Given(told, c)
<1>1. /\ DOMAIN told \subseteq DOMAIN Defaults
      /\ \A f \in {"tls", "dev", "insecure"} \cap DOMAIN told : told[f] \in BOOLEAN
      /\ "insecure" \in DOMAIN told => program = "cli"
  BY OptionsAssumption
<1>2. /\ DOMAIN c = DOMAIN Defaults
      /\ c.tls \in BOOLEAN /\ c.dev \in BOOLEAN /\ c.insecure \in BOOLEAN
      /\ program = "server" => ~c.insecure
  BY DEF Shaped
<1>3. g = [f \in DOMAIN Defaults |-> IF f \in DOMAIN told THEN told[f] ELSE c[f]]
  BY <1>1, <1>2 DEF Given
<1>4. {"tls", "dev", "insecure"} \subseteq DOMAIN Defaults
  BY DEF Defaults
<1>5. g = [f \in DOMAIN Defaults |-> g[f]]
  BY <1>3
<1>6. \A f \in {"tls", "dev", "insecure"} :
        g[f] = IF f \in DOMAIN told THEN told[f] ELSE c[f]
  BY <1>3, <1>4
<1>7. g.tls \in BOOLEAN /\ g.dev \in BOOLEAN /\ g.insecure \in BOOLEAN
  BY <1>1, <1>2, <1>6
<1>8. program = "server" => ~g.insecure
  BY <1>1, <1>2, <1>6
<1>. QED  BY <1>5, <1>7, <1>8 DEF Shaped

\* The password, TLS and the defaults of a development profile go over settings.
LEMMA ChangedIsShaped ==
  ASSUME NEW c, Shaped(c), NEW pass, NEW tls \in BOOLEAN
  PROVE  /\ Shaped([c EXCEPT !.pass = pass])
         /\ Shaped([c EXCEPT !.tls = tls, !.pass = pass])
         /\ Shaped(Developed(c))
BY DEF Shaped, Developed, Defaults

\* What can be read from the file are settings.
LEMMA LoadIsShaped ==
  ASSUME PlainInv
  PROVE  Shaped(Load) /\ Shaped(Defaults)
<1>1. CASE conf \in {Absent, Torn}
  BY <1>1 DEF Load, Shaped, Defaults
<1>2. CASE conf \notin {Absent, Torn}
  BY <1>2 DEF PlainInv, Load, Persisted, Sound, Shaped, Defaults
<1>. QED  BY <1>1, <1>2 DEF Shaped, Defaults

\* A program that starts runs with settings that are sound (validateConfiguration,
\* prepareConfig).
LEMMA StartIsSound ==
  ASSUME PlainInv, NEW loaded \in {Load, Defaults}, NEW env \in Environment[program],
         NEW args \in Arguments[program], Start(loaded, env, args)
  PROVE  Sound(config')
<1>1. program \in {"server", "cli"} /\ Shaped(loaded)
  BY LoadIsShaped DEF PlainInv
<1>2. CASE program = "server"
  <2>1. Shaped(Given(env, loaded))
    BY <1>1, GivenIsShaped
  <2>2. Shaped(ServerMerged(loaded, env, args))
    BY <1>1, <2>1, GivenIsShaped DEF ServerMerged
  <2>3. PICK c : c = ServerMerged(loaded, env, args)
    OBVIOUS
  <2>4. PICK pass : pass = IF c.secret # "" THEN ReadSecret(c.secret) ELSE c.pass
    OBVIOUS
  <2>5. ServerConfig(loaded, env, args) = Developed([c EXCEPT !.pass = pass])
    BY <2>3, <2>4 DEF ServerConfig
  <2>6. Shaped([c EXCEPT !.pass = pass])
    BY <2>2, <2>3, ChangedIsShaped
  <2>7. Shaped(config')
    BY <1>2, <2>5, <2>6, ChangedIsShaped DEF Start
  <2>. QED  BY <1>2, <2>7 DEF Start, ServerAccepts, Sound, Shaped
<1>3. CASE program = "cli"
  <2>1. Shaped(Given(Told(args), loaded))
    BY <1>1, GivenIsShaped DEF Told
  <2>2. PICK c : c = Given(Told(args), loaded)
    OBVIOUS
  <2>3. PICK pass : pass = IF c.secret # "" THEN ReadSecret(c.secret)
                           ELSE IF "pass" \in DOMAIN env THEN env.pass ELSE c.pass
    OBVIOUS
  <2>4. PICK tls \in BOOLEAN : tls = ("dev" \notin DOMAIN Told(args))
    OBVIOUS
  <2>5. CliConfig(loaded, env, args) = Developed([c EXCEPT !.tls = tls, !.pass = pass])
    BY <2>2, <2>3, <2>4 DEF CliConfig
  <2>6. Shaped([c EXCEPT !.tls = tls, !.pass = pass])
    BY <2>1, <2>2, ChangedIsShaped
  <2>7. Shaped(config')
    BY <1>3, <2>5, <2>6, ChangedIsShaped DEF Start
  <2>. QED  BY <1>3, <2>7 DEF Start, CliAccepts, Sound
<1>. QED  BY <1>1, <1>2, <1>3

\* A plain start of a sound configuration changes nothing but the password and, for the
\* client, TLS.
LEMMA StartIsPlain ==
  ASSUME PlainInv, NEW loaded \in {Load, Defaults}, NEW env \in Environment[program],
         NEW args \in Arguments[program], Start(loaded, env, args), plain'
  PROVE  /\ saved # Absent
         /\ config' = [saved EXCEPT !.pass = config'.pass, !.tls = @ \/ program = "cli"]
<1>1. program \in {"server", "cli"} /\ Shaped(loaded)
  BY LoadIsShaped DEF PlainInv
<1>2. DOMAIN env \subseteq {"pass"} /\ DOMAIN args \subseteq {"pass"}
  BY DEF Start
<1>a. PICK load : load = loaded
  OBVIOUS
<1>b. /\ load = [f \in DOMAIN Defaults |-> load[f]]
      /\ load.tls \in BOOLEAN /\ load.dev \in BOOLEAN
  BY <1>1, <1>a DEF Shaped
<1>c. \E c : /\ c = [f \in DOMAIN Defaults |-> c[f]]
             /\ \A f \in DOMAIN Defaults \ {"pass", "tls"} : c[f] = load[f]
             /\ c.tls = (load.tls \/ program = "cli")
             /\ config' = Developed(c)
  <2>1. CASE program = "server"
    <3>1. PICK c : c = ServerMerged(loaded, env, args)
      OBVIOUS
    <3>2. PICK pass : pass = IF c.secret # "" THEN ReadSecret(c.secret) ELSE c.pass
      OBVIOUS
    <3>3. config' = Developed([c EXCEPT !.pass = pass])
      BY <2>1, <3>1, <3>2 DEF Start, ServerConfig
    <3>4. /\ c = [f \in DOMAIN Defaults |-> c[f]]
          /\ \A f \in DOMAIN Defaults \ {"pass"} : c[f] = load[f]
      BY <1>2, <1>a, <1>b, <3>1 DEF ServerMerged, Given, Defaults
    <3>5. c.tls = (load.tls \/ program = "cli")
      BY <1>b, <2>1, <3>4 DEF Defaults
    <3>. QED  BY <3>3, <3>4, <3>5 DEF Defaults
  <2>2. CASE program = "cli"
    <3>1. PICK c : c = Given(Told(args), loaded)
      OBVIOUS
    <3>2. PICK pass : pass = IF c.secret # "" THEN ReadSecret(c.secret)
                             ELSE IF "pass" \in DOMAIN env THEN env.pass ELSE c.pass
      OBVIOUS
    <3>3. "dev" \notin DOMAIN Told(args) /\ DOMAIN Told(args) \subseteq {"pass"}
      BY <1>2 DEF Told
    <3>4. config' = Developed([c EXCEPT !.tls = "dev" \notin DOMAIN Told(args), !.pass = pass])
      BY <2>2, <3>1, <3>2 DEF Start, CliConfig
    <3>5. config' = Developed([c EXCEPT !.tls = TRUE, !.pass = pass])
      BY <3>3, <3>4
    <3>6. /\ c = [f \in DOMAIN Defaults |-> c[f]]
          /\ \A f \in DOMAIN Defaults \ {"pass"} : c[f] = load[f]
      BY <1>a, <1>b, <3>1, <3>3 DEF Given, Defaults
    <3>. QED  BY <2>2, <3>5, <3>6 DEF Defaults
  <2>. QED  BY <1>1, <2>1, <2>2
<1>d. PICK c : /\ c = [f \in DOMAIN Defaults |-> c[f]]
               /\ \A f \in DOMAIN Defaults \ {"pass", "tls"} : c[f] = load[f]
               /\ c.tls = (load.tls \/ program = "cli")
               /\ config' = Developed(c)
  BY <1>c
<1>3. \A f \in DOMAIN Defaults \ {"pass", "tls"} :
        config'[f] = Developed(loaded)[f]
  BY <1>a, <1>b, <1>d DEF Developed, Defaults
<1>4. config'.tls = (loaded.tls \/ program = "cli")
  BY <1>a, <1>d DEF Developed, Defaults
<1>5. loaded = Load /\ conf \notin {Absent, Torn}
  <2>1. SUFFICES ASSUME loaded = Defaults PROVE FALSE
    BY DEF Load
  <2>3. config'.user = ""
    BY <1>3, <2>1 DEF Developed, Defaults
  <2>. QED  BY <2>3, StartIsSound DEF Sound
<1>6. saved # Absent /\ loaded = Persisted(saved) /\ Sound(saved)
  BY <1>5 DEF PlainInv, Load
<1>7. \A f \in DOMAIN Defaults \ {"pass", "tls"} : config'[f] = saved[f]
  BY <1>3, <1>6 DEF Developed, Persisted, Sound, Shaped, Defaults
<1>8. config'.tls = (saved.tls \/ program = "cli")
  BY <1>4, <1>6 DEF Persisted, Sound, Shaped, Defaults
<1>. DEFINE d == [saved EXCEPT !.pass = config'.pass, !.tls = @ \/ program = "cli"]
<1>9. d = [f \in DOMAIN Defaults |-> d[f]]
  BY <1>6 DEF Sound, Shaped
<1>10. \A f \in DOMAIN Defaults : config'[f] = d[f]
  BY <1>6, <1>7, <1>8 DEF Sound, Shaped, Defaults
<1>11. config' = [f \in DOMAIN Defaults |-> config'[f]]
  BY StartIsSound DEF Sound, Shaped
<1>12. config' = d
  BY <1>9, <1>10, <1>11, SameSettings
<1>. QED  BY <1>6, <1>12

LEMMA PlainInit == Init => PlainInv
BY DEF Init, PlainInv

\* Every step keeps what is saved sound, and the file what was saved or unreadable.
LEMMA PlainStep == PlainInv /\ [Next]_vars => PlainInv'
<1>. SUFFICES ASSUME PlainInv, [Next]_vars PROVE PlainInv'
  OBVIOUS
<1>. USE DEF PlainInv
<1>0. program' = program
  BY DEF Next, Start, AskDirectory, Write, Backup, Remove, Install, OpenStorage,
         ExecuteSchema, InitializeTls, Listen, Stop, Crash, vars
<1>a. \A c : Sound(c) => Sound(c)'
  BY <1>0 DEF Sound, Shaped
<1>1. ASSUME NEW loaded \in {Load, Defaults}, NEW env \in Environment[program],
             NEW args \in Arguments[program], Start(loaded, env, args)
      PROVE  PlainInv'
  <2>1. Sound(config')
    BY <1>1, StartIsSound
  <2>. QED  BY <1>0, <1>1, <2>1 DEF Start, files, ghosts, Sound, Shaped
<1>2. ASSUME NEW dir \in {"d", "e"}, AskDirectory(dir)
      PROVE  PlainInv'
  <2>1. Sound(config')
    BY <1>2 DEF AskDirectory, Sound, Shaped, Defaults
  <2>. QED  BY <1>0, <1>2, <2>1 DEF AskDirectory, files, ghosts, Sound, Shaped
<1>3. CASE Write
  BY <1>0, <1>3 DEF Write, WriteFails, WriteLost, SaveFailed, ghosts, process, Sound, Shaped
<1>4. CASE Backup
  BY <1>0, <1>4 DEF Backup, SaveFailed, ghosts, process, Sound, Shaped
<1>5. CASE Remove
  BY <1>0, <1>5 DEF Remove, SaveFailed, ghosts, process, Sound, Shaped
<1>6. CASE Install
  <2>1. pc = "install" /\ config' = config /\ pc' \notin {"backup", "remove", "install"}
    BY <1>6 DEF Install, SaveFailed, process
  <2>2. Sound(config) /\ Sound(config)'
    BY <1>a, <2>1
  <2>3. CASE SaveFailed /\ UNCHANGED <<conf, tmp>>
    <3>1. conf' = conf /\ saved' = saved
      BY <2>3 DEF SaveFailed, ghosts
    <3>. QED  BY <1>0, <1>a, <2>1, <2>2, <3>1
  <2>4. CASE conf' = tmp /\ saved' = config
    <3>1. conf' \in {Persisted(config), Torn} /\ saved' # Absent
      BY <2>1, <2>2, <2>4 DEF Sound, Shaped, Absent, Defaults
    <3>. QED  BY <1>0, <2>1, <2>2, <2>4, <3>1
  <2>. QED  BY <1>6, <2>3, <2>4 DEF Install
<1>7. CASE OpenStorage \/ ExecuteSchema \/ InitializeTls \/ Listen
  BY <1>0, <1>7 DEF OpenStorage, ExecuteSchema, InitializeTls, Listen, SchemaFails,
                    StartFailed, Ended, files, process, ghosts, Sound, Shaped
<1>8. CASE Stop
  BY <1>0, <1>8 DEF Stop, Ended, files, process, ghosts, Sound, Shaped
<1>9. CASE Crash
  BY <1>0, <1>9 DEF Crash, Ended, process, ghosts, Sound, Shaped
<1>10. CASE UNCHANGED vars
  BY <1>10 DEF vars, files, process, ghosts, Sound, Shaped
<1>. QED  BY <1>1, <1>2, <1>3, <1>4, <1>5, <1>6, <1>7, <1>8, <1>9, <1>10 DEF Next

\* A start that is given nothing but a password runs with what was saved last, TLS of the
\* client excepted, or does not run.
THEOREM StartsArePlain == ConfigurationSpec => PlainStart
<1>1. PlainInv /\ [Next]_vars =>
        [pc = "down" /\ pc' # "down" /\ plain' =>
           /\ saved # Absent
           /\ config' = [saved EXCEPT !.pass = config'.pass,
                                      !.tls = @ \/ program = "cli"]]_vars
  <2>. SUFFICES ASSUME PlainInv, Next, pc = "down", pc' # "down", plain'
                PROVE  /\ saved # Absent
                       /\ config' = [saved EXCEPT !.pass = config'.pass,
                                                  !.tls = @ \/ program = "cli"]
    OBVIOUS
  <2>1. \E loaded \in {Load, Defaults}, env \in Environment[program],
             args \in Arguments[program] : Start(loaded, env, args)
    BY DEF Next, AskDirectory, Write, Backup, Remove, Install, OpenStorage,
           ExecuteSchema, InitializeTls, Listen, Stop, Crash
  <2>. QED  BY <2>1, StartIsPlain
<1>2. Spec => PlainStart
  BY PlainInit, PlainStep, <1>1, PTL DEF Spec, PlainStart
<1>. QED  BY <1>2, ConfigurationRefinesStartup, PTL

-----------------------------------------------------------------------------
(* The window and the dialog, whose configuration is called profiles here *)

Contents == [text : Text, pass : BOOLEAN]
ProfileSet == [id : Nat, text : Text, pass : BOOLEAN]

\* a list of profiles of which no two have the same id, and n ids were generated
Proper(ps, n) ==
  /\ ps \in Seq(ProfileSet) /\ ps # << >>
  /\ \A i \in DOMAIN ps : ps[i].id <= n
  /\ \A i, j \in DOMAIN ps : ps[i].id = ps[j].id => i = j

\* a configuration of the Qt clients
Holds(c, n) == DOMAIN c = {"profiles", "selected", "last"} /\ Proper(c.profiles, n)

IsDialog(d, n) ==
  /\ DOMAIN d = {"profiles", "selected", "last", "row", "lastRow", "editor", "touched"}
  /\ Proper(d.profiles, n)
  /\ d.editor \in Contents

\* between two events of the dialog the editor says what the profile of its row says
Tidy(d, n) ==
  /\ IsDialog(d, n)
  /\ d.row \in DOMAIN d.profiles /\ d.lastRow = d.row
  /\ d.editor = Window!Says(d.profiles[d.row])

\* the dialog has what the configuration has, unless the user has touched it
Agrees(ps, d) ==
  \A i \in DOMAIN ps, j \in DOMAIN d.profiles :
    d.profiles[j].id = ps[i].id /\ ps[i].id \notin d.touched => d.profiles[j] = ps[i]

\* the selector has the profiles of the configuration
InWindow ==
  /\ Holds(profiles, made)
  /\ list = Window!Ids(profiles.profiles)
  /\ shown \in DOMAIN profiles.profiles

\* and while the dialog is open the fields have not been typed in
InDialog ==
  /\ Tidy(dialog, made)
  /\ Agrees(profiles.profiles, dialog)
  /\ fields = Window!Says(profiles.profiles[shown])

\* the list in which one of the profiles says something else
Put(ps, i, says) == [ps EXCEPT ![i] = Window!Profile(ps[i].id, says)]

WindowInv ==
  /\ made \in Nat
  /\ fields \in Contents
  /\ file # Window!None => Holds(file, made)
  /\ Window!Running => InWindow
  /\ ~Window!Running => ~requested /\ ~Window!Modal
  /\ Window!Modal => InDialog
  /\ SentAsGiven

\* A list of profiles is a function on the places up to its length.
LEMMA ProperList ==
  ASSUME NEW n, NEW ps, Proper(ps, n)
  PROVE  /\ Len(ps) \in Nat \ {0} /\ DOMAIN ps = 1..Len(ps)
         /\ \A i \in DOMAIN ps : ps[i] \in ProfileSet
         /\ ps = [i \in DOMAIN ps |-> ps[i]]
         /\ Window!Ids(ps) \in Seq(Nat) /\ Len(Window!Ids(ps)) = Len(ps)
         /\ \A i \in DOMAIN ps : Window!Ids(ps)[i] = ps[i].id
<1>1. /\ Len(ps) \in Nat /\ DOMAIN ps = 1..Len(ps)
      /\ \A i \in DOMAIN ps : ps[i] \in ProfileSet
      /\ ps # << >> /\ ps \in [1..Len(ps) -> ProfileSet]
  BY DEF Proper
<1>2. Len(ps) # 0
  BY <1>1
<1>3. Window!Ids(ps) = [i \in 1..Len(ps) |-> ps[i].id]
  BY <1>1 DEF Window!Ids
<1>4. \A i \in 1..Len(ps) : ps[i].id \in Nat
  BY <1>1 DEF ProfileSet
<1>. QED  BY <1>1, <1>2, <1>3, <1>4

\* What a profile says is what its fields say.
LEMMA SaysOfProfile ==
  ASSUME NEW id \in Nat, NEW says \in Contents
  PROVE  /\ Window!Profile(id, says) \in ProfileSet
         /\ Window!Profile(id, says).id = id
         /\ Window!Says(Window!Profile(id, says)) = says
BY DEF Contents, ProfileSet, Window!Profile, Window!Says

\* and a profile is its id and what it says.
LEMMA ProfileOfSays ==
  ASSUME NEW p \in ProfileSet
  PROVE  /\ Window!Says(p) \in Contents
         /\ Window!Profile(p.id, Window!Says(p)) = p
         /\ p.id \in Nat
BY DEF Contents, ProfileSet, Window!Profile, Window!Says

\* findProfileById finds the only profile with an id, or nothing.
LEMMA PlaceFound ==
  ASSUME NEW n, NEW ps, Proper(ps, n), NEW id
  PROVE  /\ \A i \in DOMAIN ps : ps[i].id = id => Window!PlaceOf(id, Window!Ids(ps)) = i
         /\ (\A i \in DOMAIN ps : ps[i].id # id) => Window!PlaceOf(id, Window!Ids(ps)) = 0
         /\ Window!Contains(Window!Ids(ps), id) <=> \E i \in DOMAIN ps : ps[i].id = id
<1>. DEFINE ids == Window!Ids(ps)
            places == {i \in 1..Len(ids) : ids[i] = id}
<1>1. /\ Len(ids) = Len(ps) /\ DOMAIN ps = 1..Len(ids) /\ Len(ids) \in Nat
      /\ \A i \in DOMAIN ps : ids[i] = ps[i].id
  BY ProperList
<1>2. Window!Contains(ids, id) <=> \E i \in DOMAIN ps : ps[i].id = id
  BY <1>1 DEF Window!Contains
<1>3. ASSUME NEW i \in DOMAIN ps, ps[i].id = id
      PROVE  Window!PlaceOf(id, ids) = i
  <2>1. places = {i}
    BY <1>1, <1>3 DEF Proper
  <2>2. Window!PlaceOf(id, ids) = Window!Min(places)
    BY <1>2, <1>3, <2>1 DEF Window!PlaceOf, Window!SelectInSeq
  <2>3. Window!Min({i}) = i
    BY <1>1 DEF Window!Min
  <2>. QED  BY <2>1, <2>2, <2>3
<1>4. (\A i \in DOMAIN ps : ps[i].id # id) => Window!PlaceOf(id, ids) = 0
  BY <1>2 DEF Window!PlaceOf
<1>. QED  BY <1>2, <1>3, <1>4

\* A profile that says something else is still the same profile.
LEMMA PutIsProper ==
  ASSUME NEW n, NEW ps, Proper(ps, n), NEW i \in DOMAIN ps, NEW says \in Contents
  PROVE  /\ Proper(Put(ps, i, says), n) /\ DOMAIN Put(ps, i, says) = DOMAIN ps
         /\ Window!Ids(Put(ps, i, says)) = Window!Ids(ps)
         /\ Put(ps, i, says)[i].id = ps[i].id /\ Window!Says(Put(ps, i, says)[i]) = says
         /\ \A j \in DOMAIN ps : j # i => Put(ps, i, says)[j] = ps[j]
         /\ Window!Says(ps[i]) = says => Put(ps, i, says) = ps
<1>. DEFINE qs == Put(ps, i, says)
<1>1. /\ Len(ps) \in Nat \ {0} /\ DOMAIN ps = 1..Len(ps)
      /\ \A j \in DOMAIN ps : ps[j] \in ProfileSet
      /\ ps = [j \in DOMAIN ps |-> ps[j]]
  BY ProperList
<1>2. PICK p : p = Window!Profile(ps[i].id, says)
  OBVIOUS
<1>3. ps[i].id \in Nat
  BY <1>1, ProfileOfSays
<1>4. p \in ProfileSet /\ p.id = ps[i].id /\ Window!Says(p) = says
  BY <1>2, <1>3, SaysOfProfile
<1>5. qs = [j \in DOMAIN ps |-> IF j = i THEN p ELSE ps[j]]
  BY <1>1, <1>2 DEF Put
<1>. HIDE DEF qs
<1>6. qs \in Seq(ProfileSet) /\ DOMAIN qs = DOMAIN ps /\ qs # << >>
  BY <1>1, <1>4, <1>5
<1>7. \A j \in DOMAIN ps : qs[j].id = ps[j].id
  BY <1>4, <1>5
<1>8. Proper(qs, n)
  BY <1>6, <1>7 DEF Proper
<1>9. Window!Ids(qs) = Window!Ids(ps)
  BY <1>6, <1>7 DEF Window!Ids
<1>10. ASSUME Window!Says(ps[i]) = says PROVE qs = ps
  <2>1. p = ps[i]
    BY <1>1, <1>2, <1>10, ProfileOfSays
  <2>. QED  BY <1>1, <1>5, <2>1
<1>. QED  BY <1>4, <1>5, <1>6, <1>7, <1>8, <1>9, <1>10 DEF qs

\* ps is qs but for the profile that is shown, if it is among them, which says what the
\* fields say
Refreshed(ps, qs) ==
  /\ DOMAIN ps = DOMAIN qs
  /\ \A i \in DOMAIN qs :
       /\ ps[i].id = qs[i].id
       /\ qs[i].id = Window!ShownId => Window!Says(ps[i]) = fields
       /\ qs[i].id # Window!ShownId => ps[i] = qs[i]

\* syncProfileFromUi puts the fields into the profile with the id that is shown, and
\* nowhere else.
LEMMA SyncedIs ==
  ASSUME NEW n, NEW c, Holds(c, n), fields \in Contents
  PROVE  /\ Holds(Window!Synced(c), n)
         /\ Window!Ids(Window!Synced(c).profiles) = Window!Ids(c.profiles)
         /\ Window!Synced(c).selected = c.selected /\ Window!Synced(c).last = c.last
         /\ DOMAIN Window!Synced(c).profiles = DOMAIN c.profiles
         /\ Refreshed(Window!Synced(c).profiles, c.profiles)
<1>1. PICK id : id = Window!ShownId
  OBVIOUS
<1>2. PICK ps : ps = c.profiles
  OBVIOUS
<1>3. Proper(ps, n) /\ DOMAIN c = {"profiles", "selected", "last"}
  BY <1>2 DEF Holds
<1>4. PICK place : place = Window!PlaceOf(id, Window!Ids(ps))
  OBVIOUS
<1>5. Window!Synced(c) = IF place = 0 THEN c
                         ELSE [c EXCEPT !.profiles[place] = Window!Profile(id, fields)]
  BY <1>1, <1>2, <1>4 DEF Window!Synced
<1>6. CASE \A i \in DOMAIN ps : ps[i].id # id
  <2>1. Window!Synced(c) = c
    BY <1>3, <1>4, <1>5, <1>6, PlaceFound
  <2>. QED  BY <1>1, <1>2, <1>6, <2>1 DEF Refreshed
<1>7. ASSUME NEW i \in DOMAIN ps, ps[i].id = id
      PROVE  /\ Holds(Window!Synced(c), n)
             /\ Window!Ids(Window!Synced(c).profiles) = Window!Ids(ps)
             /\ Window!Synced(c).selected = c.selected /\ Window!Synced(c).last = c.last
             /\ DOMAIN Window!Synced(c).profiles = DOMAIN ps
             /\ Refreshed(Window!Synced(c).profiles, ps)
  <2>1. place = i
    BY <1>3, <1>4, <1>7, PlaceFound
  <2>2. i # 0
    BY <1>3, ProperList
  <2>a. PICK says \in Contents : says = fields
    OBVIOUS
  <2>3. PICK qs : qs = Put(ps, i, says)
    OBVIOUS
  <2>4. Window!Synced(c) = [c EXCEPT !.profiles = qs]
    BY <1>2, <1>5, <1>7, <2>a, <2>1, <2>2, <2>3 DEF Put
  <2>5. /\ Window!Synced(c).profiles = qs
        /\ Window!Synced(c).selected = c.selected /\ Window!Synced(c).last = c.last
        /\ DOMAIN Window!Synced(c) = {"profiles", "selected", "last"}
    BY <1>3, <2>4
  <2>6. /\ Proper(qs, n) /\ DOMAIN qs = DOMAIN ps
        /\ Window!Ids(qs) = Window!Ids(ps)
        /\ qs[i].id = ps[i].id /\ Window!Says(qs[i]) = says
        /\ \A j \in DOMAIN ps : j # i => qs[j] = ps[j]
    BY <1>3, <2>3, PutIsProper
  <2>7. \A j \in DOMAIN ps : ps[j].id = id => j = i
    BY <1>3, <1>7 DEF Proper
  <2>8. Refreshed(qs, ps)
    BY <1>1, <1>7, <2>a, <2>6, <2>7 DEF Refreshed
  <2>. QED  BY <2>5, <2>6, <2>8 DEF Holds
<1>. QED  BY <1>2, <1>6, <1>7

\* saveSettings puts the fields into the profile that is shown and selects it, if there is
\* such a profile.
LEMMA SavedIs ==
  ASSUME NEW n, NEW c, Holds(c, n), fields \in Contents
  PROVE  /\ Holds(Window!Saved(c), n)
         /\ Window!Saved(c).profiles = Window!Synced(c).profiles
         /\ (\E i \in DOMAIN c.profiles : c.profiles[i].id = Window!ShownId)
              => Window!Saved(c).selected = Window!ShownId
<1>1. PICK s : s = Window!Synced(c)
  OBVIOUS
<1>2. Holds(s, n)
  BY <1>1, SyncedIs
<1>3. PICK id : id = Window!ShownId
  OBVIOUS
<1>4. PICK place : place = Window!PlaceOf(id, Window!Ids(c.profiles))
  OBVIOUS
<1>5. Window!Saved(c) = IF place = 0 THEN s ELSE [s EXCEPT !.selected = id]
  BY <1>1, <1>3, <1>4 DEF Window!Saved
<1>6. Holds(Window!Saved(c), n) /\ Window!Saved(c).profiles = s.profiles
  BY <1>2, <1>5 DEF Holds
<1>7. ASSUME NEW i \in DOMAIN c.profiles, c.profiles[i].id = id
      PROVE  Window!Saved(c).selected = id
  <2>1. place = i /\ i # 0
    BY <1>4, <1>7, PlaceFound, ProperList DEF Holds
  <2>. QED  BY <1>2, <1>5, <2>1 DEF Holds
<1>. QED  BY <1>1, <1>3, <1>6, <1>7

\* What save() writes has the same profiles, without their passwords.
LEMMA StoredHolds ==
  ASSUME NEW n, NEW c, Holds(c, n)
  PROVE  Holds(Window!Stored(c), n)
<1>1. PICK ps : ps = c.profiles
  OBVIOUS
<1>2. Proper(ps, n) /\ DOMAIN c = {"profiles", "selected", "last"}
  BY <1>1 DEF Holds
<1>3. PICK qs : qs = [i \in DOMAIN ps |-> Window!WithoutPassword(ps[i])]
  OBVIOUS
<1>4. Window!Stored(c) = [c EXCEPT !.profiles = qs]
  BY <1>1, <1>3 DEF Window!Stored
<1>5. \A p \in ProfileSet : /\ Window!WithoutPassword(p) \in ProfileSet
                            /\ Window!WithoutPassword(p).id = p.id
  BY DEF ProfileSet, Window!WithoutPassword
<1>6. Len(ps) \in Nat \ {0} /\ DOMAIN ps = 1..Len(ps) /\ \A i \in DOMAIN ps : ps[i] \in ProfileSet
  BY <1>2, ProperList
<1>7. qs \in Seq(ProfileSet) /\ qs # << >> /\ DOMAIN qs = DOMAIN ps
  BY <1>3, <1>5, <1>6
<1>8. \A i \in DOMAIN ps : qs[i].id = ps[i].id
  BY <1>3, <1>5, <1>6
<1>9. Proper(qs, n)
  BY <1>2, <1>7, <1>8 DEF Proper
<1>. QED  BY <1>2, <1>4, <1>9 DEF Holds

\* When the selector is filled from a configuration, the window shows one of its profiles
\* and the fields say what it says; it is the profile that was asked for, if there is one.
LEMMA AppliedToUi ==
  ASSUME NEW n, NEW c, Holds(c, n), NEW id, Window!ApplyConfigToUi(c, id)
  PROVE  /\ Holds(profiles', n) /\ profiles'.profiles = c.profiles
         /\ list' = Window!Ids(c.profiles) /\ list' # << >>
         /\ shown' \in DOMAIN c.profiles
         /\ fields' = Window!Says(c.profiles[shown']) /\ fields' \in Contents
         /\ (\E i \in DOMAIN c.profiles : c.profiles[i].id = id)
              => c.profiles[shown'].id = id
<1>1. Proper(c.profiles, n) /\ DOMAIN c = {"profiles", "selected", "last"}
  BY DEF Holds
<1>2. PICK place : place = Window!PlaceOf(id, Window!Ids(c.profiles))
  OBVIOUS
<1>3. Window!Shows(c, IF place = 0 THEN 1 ELSE place) /\ list' = Window!Ids(c.profiles)
  BY <1>2 DEF Window!ApplyConfigToUi, Window!SelectProfileById
<1>4. /\ place \in DOMAIN c.profiles \cup {0}
      /\ (\E i \in DOMAIN c.profiles : c.profiles[i].id = id)
           => place \in DOMAIN c.profiles /\ c.profiles[place].id = id
  BY <1>1, <1>2, PlaceFound
<1>5. 0 \notin DOMAIN c.profiles /\ 1 \in DOMAIN c.profiles /\ list' # << >>
  BY <1>1, <1>3, ProperList
<1>6. shown' \in DOMAIN c.profiles /\ shown' = IF place = 0 THEN 1 ELSE place
  BY <1>3, <1>4, <1>5 DEF Window!Shows
<1>7. /\ fields' = Window!Says(c.profiles[shown'])
      /\ profiles' = [c EXCEPT !.selected = c.profiles[shown'].id]
  BY <1>3, <1>6 DEF Window!Shows
<1>8. fields' \in Contents
  BY <1>1, <1>6, <1>7, ProperList, ProfileOfSays
<1>. QED  BY <1>1, <1>3, <1>4, <1>5, <1>6, <1>7, <1>8 DEF Holds

\* saveEditorToProfile puts what the editor says into one profile of the dialog, if there
\* is such a row.
LEMMA EditorSavedIs ==
  ASSUME NEW n, NEW d, IsDialog(d, n), NEW i
  PROVE  LET e == Window!EditorSaved(d, i) IN
         /\ IsDialog(e, n)
         /\ e.profiles = IF i \in DOMAIN d.profiles THEN Put(d.profiles, i, d.editor)
                         ELSE d.profiles
         /\ e.touched = d.touched /\ e.editor = d.editor
         /\ e.row = d.row /\ e.lastRow = d.lastRow
<1>1. CASE i \notin DOMAIN d.profiles
  BY <1>1 DEF Window!EditorSaved
<1>2. CASE i \in DOMAIN d.profiles
  <2>1. PICK ps : ps = Put(d.profiles, i, d.editor)
    OBVIOUS
  <2>2. Window!EditorSaved(d, i) =
          [d EXCEPT !.profiles = ps, !.selected = d.profiles[i].id]
    BY <1>2, <2>1 DEF Window!EditorSaved, Put
  <2>3. Proper(ps, n)
    BY <1>2, <2>1, PutIsProper DEF IsDialog
  <2>. QED  BY <1>2, <2>1, <2>2, <2>3 DEF IsDialog
<1>. QED  BY <1>1, <1>2

\* what is left of the profiles when another row is selected
Left(d) ==
  IF d.lastRow \in DOMAIN d.profiles THEN Put(d.profiles, d.lastRow, d.editor) ELSE d.profiles

\* onProfileSelectionChanged saves the editor to the row it was filled from.
LEMMA RowSelectedIs ==
  ASSUME NEW n, NEW d, IsDialog(d, n), NEW i
  PROVE  LET e == Window!RowSelected(d, i) IN
         /\ IsDialog(e, n)
         /\ e.profiles = Left(d) /\ e.touched = d.touched /\ e.lastRow = i
         /\ i \in DOMAIN d.profiles => Tidy(e, n)
<1>1. PICK s : s = Window!EditorSaved(d, d.lastRow)
  OBVIOUS
<1>2. IsDialog(s, n) /\ s.profiles = Left(d) /\ s.touched = d.touched
  BY <1>1, EditorSavedIs DEF Left
<1>3. DOMAIN Left(d) = DOMAIN d.profiles
  BY PutIsProper DEF IsDialog, Left
<1>4. PICK t : t = [s EXCEPT !.row = i, !.lastRow = i]
  OBVIOUS
<1>5. /\ IsDialog(t, n) /\ t.profiles = Left(d) /\ t.touched = d.touched
      /\ t.lastRow = i /\ t.row = i
  BY <1>2, <1>4 DEF IsDialog
<1>6. Window!RowSelected(d, i) =
        IF i \notin DOMAIN t.profiles THEN t
        ELSE [t EXCEPT !.editor = Window!Says(t.profiles[i])]
  BY <1>1, <1>4 DEF Window!RowSelected, Window!EditorLoaded
<1>7. CASE i \notin DOMAIN t.profiles
  BY <1>3, <1>5, <1>6, <1>7
<1>8. CASE i \in DOMAIN t.profiles
  <2>1. PICK says : says = Window!Says(t.profiles[i])
    OBVIOUS
  <2>2. says \in Contents
    BY <1>5, <1>8, <2>1, ProperList, ProfileOfSays DEF IsDialog
  <2>3. Window!RowSelected(d, i) = [t EXCEPT !.editor = says]
    BY <1>6, <1>8, <2>1
  <2>. QED  BY <1>5, <1>8, <2>1, <2>2, <2>3 DEF IsDialog, Tidy
<1>. QED  BY <1>7, <1>8

\* populateProfiles does so once, and selects a row of the list.
LEMMA RepopulatedIs ==
  ASSUME NEW n, NEW d, IsDialog(d, n), NEW i \in DOMAIN d.profiles
  PROVE  LET e == Window!Repopulated(d, i) IN
         Tidy(e, n) /\ e.profiles = Left(d) /\ e.touched = d.touched
<1>1. PICK c : c = Window!RowSelected(d, 0)
  OBVIOUS
<1>2. IsDialog(c, n) /\ c.profiles = Left(d) /\ c.touched = d.touched /\ c.lastRow = 0
  BY <1>1, RowSelectedIs
<1>3. DOMAIN c.profiles = DOMAIN d.profiles
  BY <1>2, PutIsProper DEF IsDialog, Left
<1>4. 0 \notin DOMAIN c.profiles
  BY <1>2, ProperList DEF IsDialog
<1>5. Left(c) = c.profiles
  BY <1>2, <1>4 DEF Left
<1>6. Window!Repopulated(d, i) = Window!RowSelected(c, i)
  BY <1>1 DEF Window!Repopulated
<1>. QED  BY <1>2, <1>3, <1>5, <1>6, RowSelectedIs

\* In a tidy dialog there is nothing to save.
LEMMA TidyIsLeft ==
  ASSUME NEW n, NEW d, Tidy(d, n)
  PROVE  /\ Left(d) = d.profiles
         /\ Window!EditorSaved(d, d.row).profiles = d.profiles
<1>1. /\ Proper(d.profiles, n) /\ d.row \in DOMAIN d.profiles /\ d.lastRow = d.row
      /\ d.editor \in Contents /\ Window!Says(d.profiles[d.row]) = d.editor
  BY DEF Tidy, IsDialog
<1>2. Put(d.profiles, d.row, d.editor) = d.profiles
  BY <1>1, PutIsProper
<1>3. Window!EditorSaved(d, d.row).profiles = d.profiles
  BY <1>1, <1>2, EditorSavedIs DEF Tidy
<1>. QED  BY <1>1, <1>2, <1>3 DEF Left

\* A list with one profile less.
LEMMA RemovedIs ==
  ASSUME NEW n, NEW ps, Proper(ps, n), NEW i \in DOMAIN ps, Len(ps) > 1
  PROVE  LET qs == Window!RemoveAt(ps, i) IN
         /\ Proper(qs, n)
         /\ Len(qs) \in DOMAIN qs /\ DOMAIN qs \subseteq DOMAIN ps
         /\ \A j \in DOMAIN qs : qs[j] = IF j < i THEN ps[j] ELSE ps[j + 1]
         /\ \A j \in DOMAIN qs : j + 1 \in DOMAIN ps
<1>1. /\ Len(ps) \in Nat /\ DOMAIN ps = 1..Len(ps) /\ ps \in Seq(ProfileSet)
      /\ \A j \in DOMAIN ps : ps[j] \in ProfileSet
  BY ProperList DEF Proper
<1>2. PICK a : a = SubSeq(ps, 1, i - 1)
  OBVIOUS
<1>3. a \in Seq(ProfileSet) /\ Len(a) = i - 1 /\ \A j \in 1..(i - 1) : a[j] = ps[j]
  BY <1>1, <1>2
<1>4. PICK b : b = SubSeq(ps, i + 1, Len(ps))
  OBVIOUS
<1>5. /\ b \in Seq(ProfileSet) /\ Len(b) = Len(ps) - i
      /\ \A j \in 1..(Len(ps) - i) : b[j] = ps[i + j]
  BY <1>1, <1>4
<1>6. PICK qs : qs = a \o b
  OBVIOUS
<1>7. /\ qs \in Seq(ProfileSet) /\ Len(qs) = Len(ps) - 1 /\ DOMAIN qs = 1..(Len(ps) - 1)
  <2>1. qs \in Seq(ProfileSet) /\ Len(qs) = Len(a) + Len(b)
    BY <1>3, <1>5, <1>6
  <2>2. Len(qs) = Len(ps) - 1
    BY <1>1, <1>3, <1>5, <2>1
  <2>. QED  BY <2>1, <2>2
<1>8. \A j \in DOMAIN qs : qs[j] = IF j < i THEN ps[j] ELSE ps[j + 1]
  <2>1. SUFFICES ASSUME NEW j \in 1..(Len(ps) - 1)
                 PROVE  qs[j] = IF j < i THEN ps[j] ELSE ps[j + 1]
    BY <1>7
  <2>2. CASE j < i
    BY <1>1, <1>3, <1>5, <1>6, <2>2
  <2>3. CASE ~(j < i)
    <3>1. j - (i - 1) \in 1..(Len(ps) - i)
      BY <1>1, <2>3
    <3>2. qs[j] = b[j - (i - 1)]
      BY <1>1, <1>3, <1>5, <1>6, <2>3
    <3>. QED  BY <1>1, <1>5, <2>3, <3>1, <3>2
  <2>. QED  BY <2>2, <2>3
<1>9. \A j \in DOMAIN qs : j \in DOMAIN ps /\ j + 1 \in DOMAIN ps
  BY <1>1, <1>7
<1>10. \A j \in DOMAIN qs : qs[j].id <= n
  BY <1>8, <1>9 DEF Proper
<1>11. \A j, k \in DOMAIN qs : qs[j].id = qs[k].id => j = k
  <2>1. SUFFICES ASSUME NEW j \in DOMAIN qs, NEW k \in DOMAIN qs, qs[j].id = qs[k].id
                 PROVE  j = k
    OBVIOUS
  <2>2. (IF j < i THEN j ELSE j + 1) = (IF k < i THEN k ELSE k + 1)
    BY <1>8, <1>9, <2>1 DEF Proper
  <2>. QED  BY <1>1, <1>7, <2>2
<1>12. qs # << >> /\ Len(qs) \in DOMAIN qs
  BY <1>1, <1>7
<1>. QED  BY <1>2, <1>4, <1>6, <1>7, <1>8, <1>9, <1>10, <1>11, <1>12 DEF Proper, Window!RemoveAt

\* The list with a new profile at its end.
LEMMA AppendedIs ==
  ASSUME NEW n \in Nat, NEW ps, Proper(ps, n)
  PROVE  LET qs == Append(ps, Window!Profile(n + 1, Window!Blank)) IN
         /\ Proper(qs, n + 1)
         /\ Len(qs) \in DOMAIN qs /\ DOMAIN ps \subseteq DOMAIN qs
         /\ \A j \in DOMAIN qs : IF j \in DOMAIN ps THEN qs[j] = ps[j] ELSE qs[j].id = n + 1
<1>1. /\ Len(ps) \in Nat /\ DOMAIN ps = 1..Len(ps) /\ ps \in Seq(ProfileSet)
      /\ \A j \in DOMAIN ps : ps[j] \in ProfileSet
  BY ProperList DEF Proper
<1>2. Window!Blank \in Contents
  BY ProfilesAssumption DEF Contents, Window!Blank
<1>3. PICK p : p = Window!Profile(n + 1, Window!Blank)
  OBVIOUS
<1>4. p \in ProfileSet /\ p.id = n + 1
  BY <1>2, <1>3, SaysOfProfile
<1>5. PICK qs : qs = Append(ps, p)
  OBVIOUS
<1>6. /\ qs \in Seq(ProfileSet) /\ Len(qs) = Len(ps) + 1 /\ DOMAIN qs = 1..(Len(ps) + 1)
      /\ qs[Len(ps) + 1] = p
      /\ \A j \in DOMAIN ps : qs[j] = ps[j]
  BY <1>1, <1>4, <1>5
<1>7. \A j \in DOMAIN ps : ps[j].id \in Nat /\ ps[j].id <= n
  BY <1>1, ProfileOfSays DEF Proper
<1>8. \A j \in DOMAIN qs : IF j \in DOMAIN ps THEN qs[j] = ps[j] ELSE qs[j].id = n + 1
  BY <1>1, <1>4, <1>6
<1>9. \A j \in DOMAIN qs : qs[j].id <= n + 1
  BY <1>7, <1>8
<1>10. \A j, k \in DOMAIN qs : qs[j].id = qs[k].id => j = k
  <2>1. SUFFICES ASSUME NEW j \in DOMAIN qs, NEW k \in DOMAIN qs, qs[j].id = qs[k].id
                 PROVE  j = k
    OBVIOUS
  <2>2. CASE j \in DOMAIN ps /\ k \in DOMAIN ps
    BY <1>8, <2>1, <2>2 DEF Proper
  <2>3. CASE j \notin DOMAIN ps /\ k \notin DOMAIN ps
    BY <1>1, <1>6, <2>3
  <2>4. CASE (j \in DOMAIN ps) # (k \in DOMAIN ps)
    BY <1>7, <1>8, <2>1, <2>4
  <2>. QED  BY <2>2, <2>3, <2>4
<1>11. qs # << >> /\ Len(qs) \in DOMAIN qs /\ DOMAIN ps \subseteq DOMAIN qs
  BY <1>1, <1>6
<1>. QED  BY <1>3, <1>5, <1>6, <1>8, <1>9, <1>10, <1>11 DEF Proper

\* More ids may have been generated than those of a list.
LEMMA MoreWereMade ==
  ASSUME NEW n \in Nat, NEW m \in Nat, n <= m
  PROVE  /\ \A ps : Proper(ps, n) => Proper(ps, m)
         /\ \A c : Holds(c, n) => Holds(c, m)
<1>1. \A ps : Proper(ps, n) => Proper(ps, m)
  <2>1. SUFFICES ASSUME NEW ps, Proper(ps, n) PROVE Proper(ps, m)
    OBVIOUS
  <2>2. \A i \in DOMAIN ps : ps[i].id \in Nat
    BY <2>1, ProperList, ProfileOfSays
  <2>. QED  BY <2>1, <2>2 DEF Proper
<1>. QED  BY <1>1 DEF Holds

LEMMA WindowInit == ConfigurationInit => WindowInv
<1>. SUFFICES ASSUME Window!Init PROVE WindowInv
  BY DEF ConfigurationInit
<1>1. Window!Blank \in Contents
  BY ProfilesAssumption DEF Window!Blank, Contents
<1>2. SentAsGiven
  BY DEF Window!Init, SentAsGiven, Window!SentAsGiven
<1>. QED  BY <1>1, <1>2 DEF Window!Init, WindowInv, Window!Running, Window!Modal

\* What every step of the window that leaves the selector and the dialog alone has to show.
LEMMA Refilled ==
  ASSUME InWindow, list' = list, shown' \in DOMAIN profiles.profiles,
         made' = made, Holds(profiles', made),
         Window!Ids(profiles'.profiles) = Window!Ids(profiles.profiles),
         DOMAIN profiles'.profiles = DOMAIN profiles.profiles
  PROVE  InWindow'
BY DEF InWindow

\* The id the selector shows is that of the profile at its place.
LEMMA ShownIs ==
  ASSUME InWindow
  PROVE  /\ Window!ShownId = profiles.profiles[shown].id
         /\ Proper(profiles.profiles, made)
         /\ DOMAIN list = DOMAIN profiles.profiles /\ list # << >>
BY ProperList DEF InWindow, Holds, Window!ShownId, Window!Ids

\* When the fields say what the profile says, there is nothing to take over.
LEMMA NothingToSync ==
  ASSUME NEW c, Holds(c, made), InWindow, fields \in Contents,
         c.profiles = profiles.profiles,
         fields = Window!Says(profiles.profiles[shown])
  PROVE  Window!Synced(c).profiles = c.profiles
<1>1. PICK ps : ps = Window!Synced(c).profiles
  OBVIOUS
<1>2. Proper(ps, made) /\ DOMAIN ps = DOMAIN c.profiles /\ Proper(c.profiles, made)
  BY <1>1, SyncedIs DEF Holds
<1>a. Refreshed(ps, c.profiles)
  BY <1>1, SyncedIs
<1>3. ASSUME NEW i \in DOMAIN ps PROVE ps[i] = c.profiles[i]
  <2>1. ps[i] \in ProfileSet /\ c.profiles[i] \in ProfileSet
    BY <1>2, ProperList
  <2>2. CASE c.profiles[i].id = Window!ShownId
    <3>1. i = shown
      BY <1>2, <2>2, ShownIs DEF Proper, InWindow
    <3>2. ps[i].id = c.profiles[i].id /\ Window!Says(ps[i]) = fields
      BY <1>2, <1>a, <2>2 DEF Refreshed
    <3>. QED  BY <2>1, <3>1, <3>2, ProfileOfSays
  <2>3. CASE c.profiles[i].id # Window!ShownId
    BY <1>2, <1>a, <2>3 DEF Refreshed
  <2>. QED  BY <2>2, <2>3
<1>4. ps = [i \in DOMAIN ps |-> ps[i]] /\ c.profiles = [i \in DOMAIN ps |-> c.profiles[i]]
  BY <1>2, ProperList
<1>. QED  BY <1>1, <1>3, <1>4

\* The first start, and every other one, reads a configuration or makes one.
LEMMA StartsFromFile ==
  ASSUME WindowInv, NEW autostart \in BOOLEAN, Window!Start(autostart)
  PROVE  WindowInv'
<1>1. /\ ~Window!Running /\ ~requested /\ requested' = FALSE /\ dialog = Window!None
      /\ dialog' = dialog /\ file' = file
      /\ made \in Nat /\ made' = IF made = 0 THEN 1 ELSE made
  BY DEF WindowInv, Window!Start, Window!Modal, Window!connection
<1>2. made' \in Nat /\ made <= made' /\ 1 <= made'
  BY <1>1
<1>3. PICK n \in Nat : n = made'
  BY <1>2
<1>4. PICK c : c = Window!Loaded
  OBVIOUS
<1>5. Holds(c, n)
  <2>1. CASE file # Window!None
    BY <1>1, <1>2, <1>3, <1>4, <2>1, MoreWereMade DEF WindowInv, Window!Loaded
  <2>2. CASE file = Window!None
    <3>1. PICK p : p = Window!Profile(1, Window!Blank)
      OBVIOUS
    <3>2. p \in ProfileSet /\ p.id = 1
      BY <3>1, SaysOfProfile, ProfilesAssumption DEF Contents, Window!Blank
    <3>3. PICK ps : ps = <<p>>
      OBVIOUS
    <3>4. ps \in Seq(ProfileSet) /\ ps # << >> /\ DOMAIN ps = {1} /\ ps[1] = p
      BY <3>2, <3>3
    <3>5. Proper(ps, n)
      BY <1>2, <1>3, <3>2, <3>4 DEF Proper
    <3>6. c = [profiles |-> ps, selected |-> 1, last |-> 0]
      BY <1>4, <2>2, <3>1, <3>3 DEF Window!Loaded, Window!Default
    <3>. QED  BY <3>5, <3>6 DEF Holds
  <2>. QED  BY <2>1, <2>2
<1>6. PICK id : id = Window!Preferred(c, autostart)
  OBVIOUS
<1>7. Window!ApplyConfigToUi(c, id)
  BY <1>4, <1>6 DEF Window!Start
<1>8. /\ Holds(profiles', n) /\ profiles'.profiles = c.profiles
      /\ list' = Window!Ids(c.profiles) /\ list' # << >>
      /\ shown' \in DOMAIN c.profiles
      /\ fields' \in Contents
  BY <1>5, <1>7, AppliedToUi
<1>9. InWindow'
  BY <1>3, <1>8 DEF InWindow
<1>10. file' # Window!None => Holds(file', made')
  BY <1>1, <1>2, MoreWereMade DEF WindowInv
<1>11. SentAsGiven'
  BY <1>1 DEF SentAsGiven, Window!SentAsGiven
<1>. QED  BY <1>1, <1>2, <1>8, <1>9, <1>10, <1>11 DEF WindowInv, Window!Running, Window!Modal, Window!None

\* saveSettings from the event loop: nothing that is shown changes.
LEMMA SettingsSaved ==
  ASSUME WindowInv, Window!Running, NEW c, Holds(c, made),
         Window!Ids(c.profiles) = list, DOMAIN c.profiles = DOMAIN profiles.profiles,
         profiles' = Window!Saved(c), file' \in {Window!Stored(Window!Saved(c)), file},
         list' = list, shown' = shown, made' = made
  PROVE  InWindow' /\ (file' # Window!None => Holds(file', made'))
<1>1. InWindow /\ fields \in Contents /\ (file # Window!None => Holds(file, made))
  BY DEF WindowInv
<1>2. PICK s : s = Window!Saved(c)
  OBVIOUS
<1>3. Holds(s, made) /\ s.profiles = Window!Synced(c).profiles
  BY <1>1, <1>2, SavedIs
<1>4. /\ Window!Ids(Window!Synced(c).profiles) = Window!Ids(c.profiles)
      /\ DOMAIN Window!Synced(c).profiles = DOMAIN c.profiles
  BY <1>1, SyncedIs
<1>5. InWindow'
  BY <1>1, <1>2, <1>3, <1>4 DEF InWindow
<1>6. Holds(Window!Stored(s), made)
  BY <1>3, StoredHolds
<1>7. file' \in {Window!Stored(s), file}
  BY <1>2
<1>. QED  BY <1>1, <1>5, <1>6, <1>7

\* The events of the window while the dialog is closed.
LEMMA WindowEvents ==
  ASSUME WindowInv,
         \/ \E text \in Text : Window!Type([text |-> text, pass |-> TRUE])
         \/ \E i \in DOMAIN list : Window!Pick(i)
         \/ Window!SaveNow \/ Window!ClickConnect \/ Window!ClickDisconnect
  PROVE  WindowInv'
<1>. USE DEF Window!Running, Window!Modal, SentAsGiven, Window!SentAsGiven
<1>1. /\ Window!Running /\ ~Window!Modal /\ dialog' = dialog /\ list' = list /\ made' = made
      /\ InWindow /\ fields \in Contents /\ made \in Nat
      /\ file # Window!None => Holds(file, made)
  BY DEF WindowInv, Window!Type, Window!Pick, Window!SaveNow, Window!ClickConnect,
         Window!ClickDisconnect, Window!window
<1>2. Window!Running' /\ ~Window!Modal'
  BY <1>1
<1>3. SUFFICES /\ fields' \in Contents /\ InWindow' /\ SentAsGiven'
               /\ file' # Window!None => Holds(file', made)
  BY <1>1, <1>2 DEF WindowInv
<1>4. ASSUME NEW text \in Text, Window!Type([text |-> text, pass |-> TRUE])
      PROVE  /\ fields' \in Contents /\ InWindow' /\ SentAsGiven'
             /\ file' # Window!None => Holds(file', made)
  <2>1. [text |-> text, pass |-> TRUE] \in Contents
    BY DEF Contents
  <2>. QED  BY <1>1, <1>4, <2>1 DEF Window!Type, InWindow
<1>5. ASSUME NEW i \in DOMAIN list, Window!Pick(i)
      PROVE  /\ fields' \in Contents /\ InWindow' /\ SentAsGiven'
             /\ file' # Window!None => Holds(file', made)
  <2>1. i \in DOMAIN profiles.profiles /\ profiles.profiles[i] \in ProfileSet
    BY <1>1, ShownIs, ProperList
  <2>2. /\ shown' = i /\ fields' = Window!Says(profiles.profiles[i]) /\ file' = file
        /\ profiles' = [profiles EXCEPT !.selected = profiles.profiles[i].id]
        /\ changed' = TRUE
    BY <1>5 DEF Window!Pick, Window!Shows
  <2>3. Holds(profiles', made) /\ profiles'.profiles = profiles.profiles
    BY <1>1, <2>2 DEF InWindow, Holds
  <2>. QED  BY <1>1, <2>1, <2>2, <2>3, ProfileOfSays DEF InWindow
<1>6. CASE Window!SaveNow
  <2>1. /\ profiles' = Window!Saved(profiles) /\ shown' = shown /\ fields' = fields
        /\ file' \in {Window!Stored(Window!Saved(profiles)), file}
        /\ requested' = requested /\ changed' = changed /\ given' = given
    BY <1>6 DEF Window!SaveNow, Window!SaveSettings, Window!connection
  <2>2. InWindow' /\ (file' # Window!None => Holds(file', made'))
    BY <1>1, <2>1, SettingsSaved DEF InWindow
  <2>. QED  BY <1>1, <2>1, <2>2 DEF WindowInv
<1>7. CASE Window!ClickConnect
  <2>1. PICK c : c = Window!Synced(profiles)
    OBVIOUS
  <2>2. /\ Holds(c, made) /\ Window!Ids(c.profiles) = list
        /\ DOMAIN c.profiles = DOMAIN profiles.profiles
    BY <1>1, <2>1, SyncedIs DEF InWindow
  <2>3. shown' = shown /\ fields' = fields /\ ~requested
    BY <1>7 DEF Window!ClickConnect
  <2>4. CASE Window!SaveSettings(Window!Synced(profiles)) /\ given' = fields
    <3>1. profiles' = Window!Saved(c) /\ file' \in {Window!Stored(Window!Saved(c)), file}
      BY <2>1, <2>4 DEF Window!SaveSettings
    <3>2. InWindow' /\ (file' # Window!None => Holds(file', made'))
      BY <1>1, <2>2, <2>3, <3>1, SettingsSaved
    <3>. QED  BY <1>1, <2>3, <2>4, <3>2
  <2>5. CASE profiles' = Window!Synced(profiles) /\ UNCHANGED <<file, requested>>
    BY <1>1, <2>1, <2>2, <2>3, <2>5 DEF InWindow
  <2>. QED  BY <1>7, <2>4, <2>5 DEF Window!ClickConnect
<1>8. CASE Window!ClickDisconnect
  BY <1>1, <1>8 DEF Window!ClickDisconnect, Window!window, InWindow
<1>. QED  BY <1>4, <1>5, <1>6, <1>7, <1>8

\* The events that also come while the dialog is open: the tray, the hotkey and the
\* connection.
LEMMA OutsideEvents ==
  ASSUME WindowInv,
         \/ Window!SwitchToNext \/ Window!Authenticated \/ Window!Rejected
         \/ Window!ConnectionLost
  PROVE  WindowInv'
<1>. USE DEF Window!Running, Window!Modal, SentAsGiven, Window!SentAsGiven
<1>1. CASE Window!Rejected \/ Window!ConnectionLost
  BY <1>1 DEF Window!Rejected, Window!ConnectionLost, Window!window, WindowInv, InWindow,
              InDialog
<1>2. CASE Window!SwitchToNext
  <2>1. /\ InWindow /\ fields \in Contents /\ made \in Nat /\ Window!Running
        /\ file # Window!None => Holds(file, made)
        /\ Window!Modal => InDialog
    BY <1>2 DEF WindowInv, Window!SwitchToNext
  <2>2. PICK i : i = (shown % Len(list)) + 1
    OBVIOUS
  <2>3. PICK c : c = [profiles EXCEPT !.selected = profiles.profiles[i].id]
    OBVIOUS
  <2>4. /\ shown' = i /\ fields' = Window!Says(profiles.profiles[i]) /\ profiles' = c
        /\ file' \in {Window!Stored(c), file} /\ changed' = TRUE
        /\ list' = list /\ dialog' = dialog /\ made' = made
    BY <1>2, <2>2, <2>3 DEF Window!SwitchToNext
  <2>5. Proper(profiles.profiles, made) /\ Len(list) = Len(profiles.profiles)
    BY <2>1, ProperList DEF InWindow, Holds
  <2>6. shown \in Nat /\ Len(list) \in Nat \ {0} /\ DOMAIN profiles.profiles = 1..Len(list)
    BY <2>1, <2>5, ProperList DEF InWindow
  <2>7. i \in DOMAIN profiles.profiles
    BY <2>2, <2>6
  <2>8. fields' \in Contents
    BY <2>4, <2>5, <2>7, ProperList, ProfileOfSays
  <2>9. Holds(c, made) /\ c.profiles = profiles.profiles
    BY <2>1, <2>3 DEF InWindow, Holds
  <2>10. Holds(Window!Stored(c), made)
    BY <2>9, StoredHolds
  <2>11. InWindow'
    BY <2>1, <2>4, <2>7, <2>9 DEF InWindow
  <2>12. InDialog => InDialog'
    BY <2>4, <2>9 DEF InDialog
  <2>. QED  BY <2>1, <2>4, <2>8, <2>10, <2>11, <2>12 DEF WindowInv
<1>3. CASE Window!Authenticated
  <2>1. /\ InWindow /\ fields \in Contents /\ made \in Nat /\ Window!Running
        /\ file # Window!None => Holds(file, made)
        /\ Window!Modal => InDialog
    BY <1>3 DEF WindowInv, Window!Authenticated
  <2>2. PICK c : c = [profiles EXCEPT
                        !.last = IF Window!PlaceOf(Window!ShownId,
                                                   Window!Ids(profiles.profiles)) = 0
                                 THEN @ ELSE Window!ShownId]
    OBVIOUS
  <2>3. /\ profiles' = Window!Saved(c) /\ file' \in {Window!Stored(Window!Saved(c)), file}
        /\ list' = list /\ shown' = shown /\ fields' = fields /\ dialog' = dialog
        /\ made' = made /\ requested' = requested /\ given' = given /\ changed' = changed
    BY <1>3, <2>2 DEF Window!Authenticated, Window!SaveSettings
  <2>4. Holds(c, made) /\ c.profiles = profiles.profiles
    BY <2>1, <2>2 DEF InWindow, Holds
  <2>5. InWindow' /\ (file' # Window!None => Holds(file', made'))
    BY <2>1, <2>3, <2>4, SettingsSaved DEF InWindow
  <2>6. InDialog => InDialog'
    <3>1. SUFFICES ASSUME InDialog PROVE InDialog'
      OBVIOUS
    <3>2. Window!Synced(c).profiles = profiles.profiles
      BY <2>1, <2>4, <3>1, NothingToSync DEF InDialog
    <3>3. profiles'.profiles = profiles.profiles
      BY <2>1, <2>3, <2>4, <3>2, SavedIs
    <3>. QED  BY <2>3, <3>1, <3>3 DEF InDialog
  <2>. QED  BY <2>1, <2>3, <2>5, <2>6 DEF WindowInv
<1>. QED  BY <1>1, <1>2, <1>3

\* What every event in the dialog has to show.
LEMMA DialogChanged ==
  ASSUME WindowInv, NEW d, Window!InDialog(d), Window!Modal, made' \in Nat, made <= made',
         Tidy(d, made'), Agrees(profiles.profiles, d)
  PROVE  WindowInv'
<1>1. /\ dialog' = d /\ file' = file /\ profiles' = profiles /\ list' = list
      /\ shown' = shown /\ fields' = fields /\ requested' = requested /\ given' = given
      /\ changed' = changed
  BY DEF Window!InDialog, Window!window, Window!connection
<1>2. /\ Window!Running /\ InWindow /\ InDialog /\ made \in Nat /\ fields \in Contents
      /\ SentAsGiven
  BY DEF WindowInv
<1>3. Holds(profiles, made') /\ (file # Window!None => Holds(file, made'))
  BY <1>2, MoreWereMade DEF InWindow, WindowInv
<1>4. InWindow'
  BY <1>1, <1>2, <1>3 DEF InWindow
<1>5. InDialog'
  BY <1>1, <1>2 DEF InDialog
<1>6. SentAsGiven'
  BY <1>1, <1>2 DEF SentAsGiven, Window!SentAsGiven
<1>7. Window!Running'
  BY <1>1, <1>2 DEF Window!Running
<1>. QED  BY <1>1, <1>2, <1>3, <1>4, <1>5, <1>6, <1>7 DEF WindowInv

\* The dialog opens with what the window shows taken over.
LEMMA DialogOpens ==
  ASSUME WindowInv, Window!OpenSettings
  PROVE  WindowInv'
<1>1. /\ InWindow /\ fields \in Contents /\ made \in Nat /\ Window!Running /\ SentAsGiven
      /\ file # Window!None => Holds(file, made)
  BY DEF WindowInv, Window!OpenSettings
<1>2. PICK c : c = Window!Synced(profiles)
  OBVIOUS
<1>3. PICK row : row = Window!FirstRow(c)
  OBVIOUS
<1>4. PICK d : d = [profiles |-> c.profiles, selected |-> c.selected, last |-> c.last,
                    row |-> row, lastRow |-> row, editor |-> Window!Says(c.profiles[row]),
                    touched |-> {}]
  OBVIOUS
<1>5. /\ profiles' = c /\ dialog' = d /\ file' = file /\ list' = list /\ shown' = shown
      /\ fields' = fields /\ made' = made
      /\ requested' = requested /\ given' = given /\ changed' = changed
  BY <1>2, <1>3, <1>4 DEF Window!OpenSettings, Window!connection
<1>6. /\ Holds(c, made) /\ Window!Ids(c.profiles) = list
      /\ DOMAIN c.profiles = DOMAIN profiles.profiles
  BY <1>1, <1>2, SyncedIs DEF InWindow
<1>7. Proper(c.profiles, made)
  BY <1>6 DEF Holds
<1>8. row \in DOMAIN c.profiles
  <2>1. PICK place : place = Window!PlaceOf(c.selected, Window!Ids(c.profiles))
    OBVIOUS
  <2>2. place \in DOMAIN c.profiles \cup {0}
    BY <1>7, <2>1, PlaceFound
  <2>3. 1 \in DOMAIN c.profiles
    BY <1>7, ProperList
  <2>. QED  BY <1>3, <2>1, <2>2, <2>3 DEF Window!FirstRow
<1>9. Window!Says(c.profiles[row]) \in Contents
  BY <1>7, <1>8, ProperList, ProfileOfSays
<1>10. Tidy(d, made)
  BY <1>4, <1>7, <1>8, <1>9 DEF Tidy, IsDialog
<1>11. Agrees(c.profiles, d)
  BY <1>4, <1>7 DEF Agrees, Proper
<1>12. fields = Window!Says(c.profiles[shown])
  <2>1. shown \in DOMAIN profiles.profiles
        /\ profiles.profiles[shown].id = Window!ShownId
    BY <1>1, ShownIs DEF InWindow
  <2>2. Holds(profiles, made)
    BY <1>1 DEF InWindow
  <2>3. Refreshed(c.profiles, profiles.profiles)
    BY <1>1, <1>2, <2>2, SyncedIs
  <2>. QED  BY <2>1, <2>3 DEF Refreshed
<1>13. InWindow'
  BY <1>1, <1>5, <1>6 DEF InWindow
<1>14. InDialog'
  BY <1>5, <1>10, <1>11, <1>12 DEF InDialog
<1>15. SentAsGiven' /\ Window!Running'
  BY <1>1, <1>5 DEF SentAsGiven, Window!SentAsGiven, Window!Running
<1>. QED  BY <1>1, <1>5, <1>13, <1>14, <1>15 DEF WindowInv

\* The events in the dialog: whatever is selected, typed, added and removed, a profile that
\* is not touched stays what it is.
LEMMA DialogEvents ==
  ASSUME WindowInv,
         \/ \E i \in 1..MaxProfiles : Window!SelectRow(i)
         \/ \E text \in Text : Window!EditField([text |-> text, pass |-> TRUE])
         \/ Window!AddProfile \/ Window!RemoveProfile
  PROVE  WindowInv'
<1>1. Window!Modal
  BY DEF Window!SelectRow, Window!EditField, Window!AddProfile, Window!RemoveProfile
<1>2. /\ made \in Nat /\ InWindow /\ Tidy(dialog, made)
      /\ Agrees(profiles.profiles, dialog)
  BY <1>1 DEF WindowInv, InDialog
<1>3. PICK n \in Nat : n = made
  BY <1>2
<1>4. PICK d : d = dialog
  OBVIOUS
<1>5. PICK ps : ps = profiles.profiles
  OBVIOUS
<1>6. /\ Tidy(d, n) /\ IsDialog(d, n) /\ Proper(d.profiles, n) /\ d.editor \in Contents
      /\ d.row \in DOMAIN d.profiles /\ d.lastRow = d.row
      /\ Agrees(ps, d) /\ Proper(ps, n)
  BY <1>2, <1>3, <1>4, <1>5 DEF Tidy, IsDialog, InWindow, Holds
<1>7. Left(d) = d.profiles /\ Window!EditorSaved(d, d.row).profiles = d.profiles
  BY <1>6, TidyIsLeft
<1>8. ASSUME NEW i \in 1..MaxProfiles, Window!SelectRow(i)
      PROVE  WindowInv'
  <2>1. i \in DOMAIN d.profiles /\ Window!InDialog(Window!RowSelected(d, i)) /\ made' = made
    BY <1>4, <1>8 DEF Window!SelectRow
  <2>2. PICK e : e = Window!RowSelected(d, i)
    OBVIOUS
  <2>3. Tidy(e, n) /\ e.profiles = d.profiles /\ e.touched = d.touched
    BY <1>6, <1>7, <2>1, <2>2, RowSelectedIs
  <2>4. Agrees(ps, e)
    BY <1>6, <2>3 DEF Agrees
  <2>5. Window!InDialog(e)
    BY <2>1, <2>2
  <2>. QED  BY <1>1, <1>2, <1>3, <1>5, <2>1, <2>3, <2>4, <2>5, DialogChanged
<1>9. ASSUME NEW text \in Text, Window!EditField([text |-> text, pass |-> TRUE])
      PROVE  WindowInv'
  <2>1. PICK says \in Contents : says = [text |-> text, pass |-> TRUE]
    BY DEF Contents
  <2>2. PICK c : c = [d EXCEPT !.editor = says,
                               !.touched = @ \cup {d.profiles[d.row].id}]
    OBVIOUS
  <2>3. /\ IsDialog(c, n) /\ c.profiles = d.profiles /\ c.editor = says
        /\ c.touched = d.touched \cup {d.profiles[d.row].id}
        /\ c.row = d.row /\ c.lastRow = d.row
    BY <1>6, <2>2 DEF IsDialog
  <2>4. PICK e : e = Window!EditorSaved(c, d.row)
    OBVIOUS
  <2>5. Window!InDialog(e) /\ made' = made
    BY <1>4, <1>9, <2>1, <2>2, <2>4 DEF Window!EditField
  <2>6. /\ IsDialog(e, n) /\ e.profiles = Put(d.profiles, d.row, says)
        /\ e.touched = d.touched \cup {d.profiles[d.row].id}
        /\ e.editor = says /\ e.row = d.row /\ e.lastRow = d.row
    BY <1>6, <2>3, <2>4, EditorSavedIs
  <2>7. /\ DOMAIN e.profiles = DOMAIN d.profiles
        /\ Window!Says(e.profiles[d.row]) = says
        /\ e.profiles[d.row].id = d.profiles[d.row].id
        /\ \A j \in DOMAIN d.profiles : j # d.row => e.profiles[j] = d.profiles[j]
    BY <1>6, <2>6, PutIsProper
  <2>8. Tidy(e, n)
    BY <1>6, <2>6, <2>7 DEF Tidy
  <2>9. Agrees(ps, e)
    BY <1>6, <2>6, <2>7 DEF Agrees
  <2>. QED  BY <1>1, <1>2, <1>3, <1>5, <2>5, <2>8, <2>9, DialogChanged
<1>10. CASE Window!AddProfile
  <2>1. PICK c : c = Window!EditorSaved(d, d.row)
    OBVIOUS
  <2>2. IsDialog(c, n) /\ c.profiles = d.profiles /\ c.touched = d.touched
        /\ c.lastRow = d.row /\ c.editor = d.editor
    BY <1>6, <1>7, <2>1, EditorSavedIs
  <2>3. PICK qs : qs = Append(d.profiles, Window!Profile(n + 1, Window!Blank))
    OBVIOUS
  <2>4. /\ Proper(qs, n + 1) /\ Len(qs) \in DOMAIN qs /\ DOMAIN d.profiles \subseteq DOMAIN qs
        /\ \A j \in DOMAIN qs :
             IF j \in DOMAIN d.profiles THEN qs[j] = d.profiles[j] ELSE qs[j].id = n + 1
    BY <1>6, <2>3, AppendedIs
  <2>5. PICK b : b = [c EXCEPT !.profiles = qs]
    OBVIOUS
  <2>6. /\ IsDialog(b, n + 1) /\ b.profiles = qs /\ b.touched = d.touched
        /\ b.lastRow = d.row /\ b.editor = d.editor
    BY <2>2, <2>4, <2>5 DEF IsDialog
  <2>7. PICK e : e = Window!Repopulated(b, Len(qs))
    OBVIOUS
  <2>8. Window!InDialog(e) /\ made' = made + 1
    <3>1. [c EXCEPT !.profiles = Append(@, Window!Profile(made + 1, Window!Blank))] = b
      BY <1>3, <2>2, <2>3, <2>5 DEF IsDialog
    <3>2. PICK a : a = [Window!EditorSaved(dialog, dialog.row) EXCEPT
                         !.profiles = Append(@, Window!Profile(made + 1, Window!Blank))]
      OBVIOUS
    <3>3. Window!InDialog(Window!Repopulated(a, Len(a.profiles))) /\ made' = made + 1
      BY <1>10, <3>2 DEF Window!AddProfile
    <3>4. a = b
      BY <1>4, <2>1, <3>1, <3>2
    <3>. QED  BY <2>6, <2>7, <3>3, <3>4
  <2>9. d.row \in DOMAIN qs /\ qs[d.row] = d.profiles[d.row]
    BY <1>6, <2>4
  <2>10. Left(b) = qs
    <3>1. Window!Says(qs[d.row]) = d.editor
      BY <1>6, <2>9 DEF Tidy
    <3>. QED  BY <1>6, <2>4, <2>6, <2>9, <3>1, PutIsProper DEF Left
  <2>11. Tidy(e, n + 1) /\ e.profiles = qs /\ e.touched = d.touched
    BY <2>4, <2>6, <2>7, <2>10, RepopulatedIs
  <2>12. Agrees(ps, e)
    <3>1. SUFFICES ASSUME NEW i \in DOMAIN ps, NEW j \in DOMAIN qs, qs[j].id = ps[i].id,
                          ps[i].id \notin d.touched
                   PROVE  qs[j] = ps[i]
      BY <2>11 DEF Agrees
    <3>2. ps[i].id # n + 1
      BY <1>6, ProperList, ProfileOfSays DEF Proper
    <3>3. j \in DOMAIN d.profiles /\ qs[j] = d.profiles[j]
      BY <2>4, <3>1, <3>2
    <3>. QED  BY <1>6, <3>1, <3>3 DEF Agrees
  <2>13. Tidy(e, made') /\ made' \in Nat /\ made <= made'
    BY <1>3, <2>8, <2>11
  <2>. QED  BY <1>1, <1>5, <2>8, <2>12, <2>13, DialogChanged
<1>11. CASE Window!RemoveProfile
  <2>1. PICK i : i = d.row
    OBVIOUS
  <2>2. PICK qs : qs = Window!RemoveAt(d.profiles, i)
    OBVIOUS
  <2>3. Len(d.profiles) > 1 /\ made' = made
    BY <1>4, <1>11 DEF Window!RemoveProfile
  <2>4. /\ Proper(qs, n) /\ Len(qs) \in DOMAIN qs /\ DOMAIN qs \subseteq DOMAIN d.profiles
        /\ \A j \in DOMAIN qs :
             qs[j] = IF j < i THEN d.profiles[j] ELSE d.profiles[j + 1]
        /\ \A j \in DOMAIN qs : j + 1 \in DOMAIN d.profiles
    <3>1. PICK old : old = d.profiles
      OBVIOUS
    <3>2. Proper(old, n) /\ i \in DOMAIN old /\ Len(old) > 1
      BY <1>6, <2>1, <2>3, <3>1
    <3>3. LET rest == Window!RemoveAt(old, i) IN
          /\ Proper(rest, n) /\ Len(rest) \in DOMAIN rest /\ DOMAIN rest \subseteq DOMAIN old
          /\ \A j \in DOMAIN rest : rest[j] = IF j < i THEN old[j] ELSE old[j + 1]
          /\ \A j \in DOMAIN rest : j + 1 \in DOMAIN old
      BY <3>2, RemovedIs
    <3>4. qs = Window!RemoveAt(old, i)
      BY <2>2, <3>1
    <3>. QED  BY <3>1, <3>3, <3>4
  <2>5. PICK next : next = IF i \in DOMAIN qs THEN {qs[i].id} ELSE {}
    OBVIOUS
  <2>6. PICK b : b = [d EXCEPT !.profiles = qs, !.touched = @ \cup next]
    OBVIOUS
  <2>7. /\ IsDialog(b, n) /\ b.profiles = qs /\ b.touched = d.touched \cup next
        /\ b.lastRow = i /\ b.editor = d.editor
    BY <1>6, <2>1, <2>4, <2>6 DEF IsDialog
  <2>8. PICK row : row = IF i \in DOMAIN qs THEN i ELSE Len(qs)
    OBVIOUS
  <2>9. PICK e : e = Window!Repopulated(b, row)
    OBVIOUS
  <2>10. Window!InDialog(e)
    BY <1>4, <1>11, <2>1, <2>2, <2>5, <2>6, <2>8, <2>9 DEF Window!RemoveProfile
  <2>11. Tidy(e, n) /\ e.profiles = Left(b) /\ e.touched = d.touched \cup next
    BY <2>4, <2>7, <2>8, <2>9, RepopulatedIs
  <2>12. /\ DOMAIN e.profiles = DOMAIN qs
         /\ \A j \in DOMAIN qs : /\ e.profiles[j].id = qs[j].id
                                 /\ qs[j].id \notin next => e.profiles[j] = qs[j]
    <3>1. CASE i \notin DOMAIN qs
      BY <2>7, <2>11, <3>1 DEF Left
    <3>2. CASE i \in DOMAIN qs
      <4>1. e.profiles = Put(qs, i, d.editor)
        BY <2>7, <2>11, <3>2 DEF Left
      <4>2. /\ DOMAIN e.profiles = DOMAIN qs /\ e.profiles[i].id = qs[i].id
            /\ \A j \in DOMAIN qs : j # i => e.profiles[j] = qs[j]
        <5>1. PICK says \in Contents : says = d.editor
          BY <1>6
        <5>2. Proper(qs, n) /\ i \in DOMAIN qs /\ e.profiles = Put(qs, i, says)
          BY <2>4, <3>2, <4>1, <5>1
        <5>. QED  BY <5>2, PutIsProper
      <4>. QED  BY <2>5, <3>2, <4>2
    <3>. QED  BY <3>1, <3>2
  <2>13. Agrees(ps, e)
    <3>1. SUFFICES ASSUME NEW k \in DOMAIN ps, NEW j \in DOMAIN qs,
                          e.profiles[j].id = ps[k].id,
                          ps[k].id \notin d.touched, ps[k].id \notin next
                   PROVE  e.profiles[j] = ps[k]
      BY <2>11, <2>12 DEF Agrees
    <3>2. e.profiles[j] = qs[j] /\ qs[j].id = ps[k].id
      BY <2>12, <3>1
    <3>3. \E m \in DOMAIN d.profiles : qs[j] = d.profiles[m]
      BY <2>4
    <3>. QED  BY <1>6, <3>1, <3>2, <3>3 DEF Agrees
  <2>. QED  BY <1>1, <1>2, <1>3, <1>5, <2>3, <2>10, <2>11, <2>13, DialogChanged
<1>. QED  BY <1>8, <1>9, <1>10, <1>11

\* What the dialog returns has its profiles, and no others.
LEMMA AcceptedIs ==
  ASSUME NEW n, Tidy(dialog, n)
  PROVE  Holds(Window!Accepted, n) /\ Window!Accepted.profiles = dialog.profiles
<1>1. PICK d : d = dialog
  OBVIOUS
<1>2. Window!EditorSaved(d, d.row).profiles = d.profiles /\ Proper(d.profiles, n)
  BY <1>1, TidyIsLeft DEF Tidy, IsDialog
<1>3. PICK e : e = Window!EditorSaved(d, d.row)
  OBVIOUS
<1>4. Window!Accepted = [profiles |-> e.profiles, selected |-> e.selected, last |-> e.last]
  BY <1>1, <1>3 DEF Window!Accepted
<1>. QED  BY <1>1, <1>2, <1>3, <1>4 DEF Holds

\* What onOpenSettings saves and shows when the dialog is accepted: the profiles of the
\* dialog, with the fields in that with the id that was shown, which stays shown if it is
\* still there.
LEMMA AcceptIs ==
  ASSUME WindowInv, Window!Accept
  PROVE  /\ InWindow' /\ fields' \in Contents /\ (file' # Window!None => Holds(file', made'))
         /\ DOMAIN profiles'.profiles = DOMAIN dialog.profiles
         /\ \A i \in DOMAIN dialog.profiles :
              /\ profiles'.profiles[i].id = dialog.profiles[i].id
              /\ dialog.profiles[i].id = Window!ShownId
                   => Window!Says(profiles'.profiles[i]) = fields
              /\ dialog.profiles[i].id # Window!ShownId
                   => profiles'.profiles[i] = dialog.profiles[i]
         /\ ~changed' => fields' = fields /\ ~changed
         /\ dialog' = Window!None /\ list' # << >> /\ UNCHANGED <<made, requested, given>>
<1>1. /\ Window!Modal /\ InWindow /\ InDialog /\ fields \in Contents /\ made \in Nat
      /\ file # Window!None => Holds(file, made)
  BY DEF WindowInv, Window!Accept
<1>2. PICK a : a = Window!Accepted
  OBVIOUS
<1>3. Holds(a, made) /\ a.profiles = dialog.profiles
  BY <1>1, <1>2, AcceptedIs DEF InDialog
<1>4. PICK c : c = Window!Saved(a)
  OBVIOUS
<1>5. PICK id : id = Window!ShownId
  OBVIOUS
<1>6. /\ Holds(c, made) /\ c.profiles = Window!Synced(a).profiles
      /\ (\E i \in DOMAIN a.profiles : a.profiles[i].id = id) => c.selected = id
  BY <1>1, <1>3, <1>4, <1>5, SavedIs
<1>7. Refreshed(Window!Synced(a).profiles, a.profiles)
  BY <1>1, <1>3, SyncedIs
<1>8. /\ DOMAIN c.profiles = DOMAIN a.profiles
      /\ \A i \in DOMAIN a.profiles :
           /\ c.profiles[i].id = a.profiles[i].id
           /\ a.profiles[i].id = id => Window!Says(c.profiles[i]) = fields
           /\ a.profiles[i].id # id => c.profiles[i] = a.profiles[i]
  BY <1>5, <1>6, <1>7 DEF Refreshed
<1>9. /\ file' \in {Window!Stored(c), file} /\ Window!ApplyConfigToUi(c, c.selected)
      /\ changed' = (changed \/ ~Window!Contains(Window!Ids(c.profiles), id))
      /\ dialog' = Window!None /\ made' = made /\ requested' = requested /\ given' = given
  BY <1>2, <1>4, <1>5 DEF Window!Accept, Window!connection
<1>10. PICK selected : selected = c.selected
  OBVIOUS
<1>11. /\ Holds(profiles', made) /\ profiles'.profiles = c.profiles
       /\ list' = Window!Ids(c.profiles) /\ list' # << >>
       /\ shown' \in DOMAIN c.profiles
       /\ fields' = Window!Says(c.profiles[shown']) /\ fields' \in Contents
       /\ (\E i \in DOMAIN c.profiles : c.profiles[i].id = selected)
            => c.profiles[shown'].id = selected
  <2>1. PICK n : n = made
    OBVIOUS
  <2>2. Holds(c, n) /\ Window!ApplyConfigToUi(c, selected)
    BY <1>6, <1>9, <1>10, <2>1
  <2>. QED  BY <2>1, <2>2, AppliedToUi
<1>12. InWindow'
  BY <1>9, <1>11 DEF InWindow
<1>13. file' # Window!None => Holds(file', made')
  BY <1>1, <1>6, <1>9, StoredHolds
<1>14. ASSUME ~changed' PROVE fields' = fields /\ ~changed
  <2>1. ~changed /\ Window!Contains(Window!Ids(c.profiles), id)
    BY <1>9, <1>14
  <2>2. \E i \in DOMAIN c.profiles : c.profiles[i].id = id
    BY <1>6, <2>1, PlaceFound DEF Holds
  <2>3. selected = id
    BY <1>6, <1>8, <1>10, <2>2
  <2>4. c.profiles[shown'].id = id
    BY <1>11, <2>2, <2>3
  <2>. QED  BY <1>8, <1>11, <2>1, <2>4
<1>. QED  BY <1>3, <1>5, <1>8, <1>9, <1>11, <1>12, <1>13, <1>14

\* The dialog is left, or the program.
LEMMA DialogCloses ==
  ASSUME WindowInv, Window!Accept \/ Window!Cancel \/ Window!Exit
  PROVE  WindowInv'
<1>. USE DEF Window!Running, Window!Modal, SentAsGiven, Window!SentAsGiven
<1>1. CASE Window!Accept
  <2>1. /\ InWindow' /\ fields' \in Contents /\ (file' # Window!None => Holds(file', made'))
        /\ ~changed' => fields' = fields /\ ~changed
        /\ dialog' = Window!None /\ list' # << >> /\ UNCHANGED <<made, requested, given>>
    BY <1>1, AcceptIs
  <2>2. SentAsGiven'
    BY <2>1 DEF WindowInv
  <2>. QED  BY <2>1, <2>2 DEF WindowInv
<1>2. CASE Window!Cancel
  BY <1>2 DEF Window!Cancel, Window!window, Window!connection, WindowInv, InWindow
<1>3. CASE Window!Exit
  <2>1. Window!Blank \in Contents
    BY ProfilesAssumption DEF Contents, Window!Blank
  <2>. QED  BY <1>3, <2>1 DEF Window!Exit, WindowInv
<1>. QED  BY <1>1, <1>2, <1>3

\* Every step keeps the three places that hold the profiles in agreement.
LEMMA WindowStep ==
  WindowInv /\ [ConfigurationNext]_<<vars, windowVars>> => WindowInv'
<1>. SUFFICES ASSUME WindowInv, [ConfigurationNext]_<<vars, windowVars>> PROVE WindowInv'
  OBVIOUS
<1>1. CASE UNCHANGED windowVars
  BY <1>1 DEF windowVars, WindowInv, InWindow, InDialog, Window!Running, Window!Modal,
              SentAsGiven, Window!SentAsGiven
<1>2. CASE Window!Next
  BY <1>2, StartsFromFile, WindowEvents, OutsideEvents, DialogOpens, DialogEvents,
     DialogCloses DEF Window!Next
<1>. QED  BY <1>1, <1>2 DEF ConfigurationNext, StartupNext, WindowNext

\* Every attempt of a Qt client sends the credentials it was given at the click on connect,
\* unless the user has typed or chosen another profile since: the dialog and every saving
\* of the configuration leave the fields of the profile that is shown alone.
THEOREM CredentialsAreSentAsGiven == ConfigurationSpec => []SentAsGiven
<1>1. WindowInv => SentAsGiven
  BY DEF WindowInv
<1>. QED  BY WindowInit, WindowStep, <1>1, PTL DEF ConfigurationSpec

\* The settings dialog leaves alone what the user leaves alone in it.
LEMMA DialogKeeps ==
  ASSUME WindowInv, Window!Accept, NEW i \in DOMAIN profiles.profiles,
         Window!Contains(Window!Ids(dialog.profiles), profiles.profiles[i].id),
         profiles.profiles[i].id \notin dialog.touched
  PROVE  Window!Contains(profiles'.profiles, profiles.profiles[i])
<1>1. InWindow /\ InDialog
  BY DEF WindowInv, Window!Accept
<1>2. PICK p : p = profiles.profiles[i]
  OBVIOUS
<1>3. /\ Proper(profiles.profiles, made) /\ Proper(dialog.profiles, made)
      /\ Agrees(profiles.profiles, dialog)
      /\ fields = Window!Says(profiles.profiles[shown])
  BY <1>1 DEF InWindow, InDialog, Holds, Tidy, IsDialog
<1>4. PICK j \in DOMAIN dialog.profiles : dialog.profiles[j].id = p.id
  BY <1>2, <1>3, PlaceFound
<1>5. dialog.profiles[j] = p
  BY <1>2, <1>3, <1>4 DEF Agrees
<1>6. PICK qs : qs = profiles'.profiles
  OBVIOUS
<1>7. /\ DOMAIN qs = DOMAIN dialog.profiles /\ qs[j].id = p.id
      /\ p.id = Window!ShownId => Window!Says(qs[j]) = fields
      /\ p.id # Window!ShownId => qs[j] = p
  BY <1>4, <1>5, <1>6, AcceptIs
<1>8. Proper(qs, made')
  BY <1>6, AcceptIs DEF InWindow, Holds
<1>9. qs[j] \in ProfileSet /\ p \in ProfileSet /\ j \in DOMAIN qs /\ DOMAIN qs = 1..Len(qs)
  <2>1. PICK n : n = made'
    OBVIOUS
  <2>2. Proper(qs, n)
    BY <1>8, <2>1
  <2>. QED  BY <1>2, <1>3, <1>4, <1>7, <2>2, ProperList
<1>10. qs[j] = p
  <2>1. CASE p.id = Window!ShownId
    <3>1. i = shown
      BY <1>1, <1>2, <1>3, <2>1, ShownIs DEF Proper, InWindow
    <3>2. Window!Says(qs[j]) = Window!Says(p) /\ qs[j].id = p.id
      BY <1>2, <1>3, <1>7, <2>1, <3>1
    <3>. QED  BY <1>9, <3>2, ProfileOfSays
  <2>. QED  BY <1>7, <2>1
<1>. QED  BY <1>2, <1>6, <1>9, <1>10 DEF Window!Contains

\* When the settings dialog is accepted, every profile that was neither typed in nor
\* removed, nor came to the place of a removed one, is what it was, whatever rows were
\* selected, added and removed, and whatever the connection saved under the open dialog.
THEOREM DialogLeavesAlone == ConfigurationSpec => UntouchedKept
<1>1. WindowInv /\ [ConfigurationNext]_<<vars, windowVars>> =>
        [Window!Accept =>
           \A i \in DOMAIN profiles.profiles :
             LET p == profiles.profiles[i] IN
             /\ Window!Contains(Window!Ids(dialog.profiles), p.id)
             /\ p.id \notin dialog.touched
             => Window!Contains(profiles'.profiles, p)]_Window!vars
  BY DialogKeeps
<1>. QED  BY WindowInit, WindowStep, <1>1, PTL
          DEF ConfigurationSpec, UntouchedKept, Window!UntouchedKept

=============================================================================
