------------------------------- MODULE Server -------------------------------
(***************************************************************************)
(* The start command (internal/cmd, internal/server) and what the services *)
(* do before their loops.  The configuration is read, then Start launches  *)
(* one goroutine per service and waits five seconds for an error of it; a  *)
(* service creates the tables it is the first to use, and an error         *)
(* returned by its OnStart goes to a channel that is read during those     *)
(* seconds only.                                                           *)
(*                                                                         *)
(* External: gorm creates a table and its indexes in separate statements;  *)
(* somebody starts the process again when it is down, and may change its   *)
(* configuration before.                                                   *)
(***************************************************************************)
EXTENDS Config

Services == {"indexer", "bridge", "eps"}
Tables   == {"deposit_history", "btc_index", "eps_history"}

VARIABLES
  conf,       \* the bitcoin.toml with its keys and the ENABLE_EPS the process found
  enabled,    \* the services switched on in the configuration it read
  main,       \* where the command is, or the service it waits for
  status,     \* what the last process ended with, for its supervisor to see
  svc,        \* the next thing the goroutine of each service does
  indexing,   \* the services inside AutoMigrate, between its two statements
  schema      \* how much of each table exists

vars == <<conf, enabled, main, status, svc, indexing, schema>>

\* OnStart up to the loop: the chain height (latest), tables by their names,
\* the position (row).  A failed service waits for its error to be read.
TypeOK ==
  /\ conf \in [file : Files, tag : Values \cup {Absent}, keys : SUBSET {"indexer", "eps"}]
  /\ enabled \subseteq {"indexer", "eps"}
  /\ main \in Services \cup {"down", "setup", "serving"}
  /\ status \in {"none", "0", "1", "2", "killed"}
  /\ DOMAIN svc = Services
  /\ svc["indexer"] \in {"off", "latest", "deposit_history", "btc_index", "row",
                         "loop", "failed"}
  /\ svc["bridge"] \in {"off", "loop"}
  /\ svc["eps"] \in {"off", "eps_history", "loop", "failed"}
  /\ indexing \subseteq {s \in Services : svc[s] \in Tables}
  /\ schema \in [Tables -> {"none", "created", "indexed"}]

AllOff == [s \in Services |-> "off"]

Init ==
  /\ conf = [file |-> "missing", tag |-> Absent, keys |-> {}]
  /\ enabled = {} /\ main = "down" /\ status = "none"
  /\ svc = AllOff /\ indexing = {}
  /\ schema = [t \in Tables |-> "none"]

-----------------------------------------------------------------------------
(* The command up to Start: its configuration, the database, the logger.   *)

IsOn(file, s) == Load(file, s) = "true"

\* The services bitcoin.toml has a key for.
Keys(i, e) == (IF i.line = Absent THEN {} ELSE {"indexer"})
              \cup (IF e.line = Absent THEN {} ELSE {"eps"})

\* Tables stay as they are, also half made.
Exit(code) == /\ main' = "down" /\ status' = code
              /\ svc' = AllOff /\ indexing' = {}
              /\ UNCHANGED <<conf, enabled, schema>>

Execute ==
  /\ main = "down"
  /\ \E file \in Files, i \in EnableIndexer, e \in EnableEps :
       /\ "bad" \notin {Load(file, i), Load(file, e)}
       /\ conf' = [file |-> file, tag |-> e.tag, keys |-> Keys(i, e)]
       /\ enabled' = (IF IsOn(file, i) THEN {"indexer"} ELSE {})
                      \cup (IF IsOn(file, e) THEN {"eps"} ELSE {})
  /\ main' = "setup" /\ status' = "none"
  /\ UNCHANGED <<svc, indexing, schema>>

\* A configuration that cannot be read: PreRunE returns the error.
ExecuteErr ==
  /\ main = "down"
  /\ \E file \in Files, i \in EnableIndexer, e \in EnableEps :
       "bad" \in {Load(file, i), Load(file, e)}
  /\ Exit("1")

\* So it does without indexer.toml in order or without the database.
SetupErr == main = "setup" /\ Exit("1")

\* logger.Init does not like the level or the format of indexer.toml.
SetupPanic == main = "setup" /\ Exit("2")

-----------------------------------------------------------------------------
(* Start.                                                                  *)

FirstPlace(s) == CASE s = "indexer" -> "latest"
                   [] s = "bridge"  -> "loop"
                   [] s = "eps"     -> "eps_history"

\* The services started after s, or first, one at most.
FollowersNoEps(s) == IF s = "indexer" THEN {"bridge"} ELSE {}  \* mutant
Followers(s) == CASE s = "indexer" -> {"bridge"}
                  [] s = "bridge" /\ "eps" \in enabled -> {"eps"}
                  [] s = "setup" /\ "indexer" \in enabled -> {"indexer"}
                  [] s = "setup" /\ "indexer" \notin enabled -> enabled
                  [] OTHER -> {}

\* Five seconds are over, whatever the service has done in them.
WindowAwaits(s) == s \in Services => svc[s] = "loop"  \* mutant
Window(s) == TRUE

\* The next service is launched, or there is none.
GoOn ==
  /\ main \in Services \cup {"setup"} /\ Window(main)
  /\ LET next == Followers(main)
     IN  \/ next = {} /\ main' = "serving" /\ UNCHANGED svc
         \/ \E s \in next : main' = s /\ svc' = [svc EXCEPT ![s] = FirstPlace(s)]
  /\ UNCHANGED <<conf, enabled, status, indexing, schema>>

\* Start returns an error, and Run logs it.
Logged == "0"

\* The error of the service it waits for.
ReturnErr == main \in Services /\ svc[main] = "failed" /\ Exit(Logged)

\* The next service cannot be made from its configuration, or the bitcoin node
\* does not answer.
NewErr == main \in Services \cup {"setup"} /\ Followers(main) # {} /\ Exit(Logged)

\* A signal is waited for only now.
Quit == main = "serving" /\ Exit("0")

\* A signal before, or the machine.
Kill == main # "down" /\ Exit("killed")

\* A panic in one of the goroutines.
Panic == svc # AllOff /\ Exit("2")

-----------------------------------------------------------------------------
(* OnStart of the services.                                                *)

NextPlaceWrong(place) ==  \* mutant
  CASE place = "latest"          -> "deposit_history"
    [] place = "deposit_history" -> "btc_index"
    [] place \in {"btc_index", "eps_history"} -> "row"
    [] place = "row"             -> "loop"
NextPlace(place) == CASE place = "latest"          -> "deposit_history"
                      [] place = "deposit_history" -> "btc_index"
                      [] place = "btc_index"       -> "row"
                      [] place \in {"row", "eps_history"} -> "loop"

GoTo(s, place) == /\ svc' = [svc EXCEPT ![s] = place]
                  /\ indexing' = indexing \ {s}
                  /\ UNCHANGED <<conf, enabled, main, status>>

\* The height of the chain; the position, whose row may be inserted.
Call(s) == /\ svc[s] \in {"latest", "row"}
           /\ GoTo(s, NextPlace(svc[s]))
           /\ UNCHANGED schema

HasTable(t) == schema[t] # "none"

SkipTable(s) == /\ svc[s] \in Tables /\ HasTable(svc[s]) /\ s \notin indexing
                /\ GoTo(s, NextPlace(svc[s]))
                /\ UNCHANGED schema

\* HasTable has no error to return: a query that fails finds no table.  The
\* second one, in AutoMigrate, finds it, and the indexes are looked at.
MissTable(s) == /\ svc[s] \in Tables /\ HasTable(svc[s]) /\ s \notin indexing
                /\ indexing' = indexing \cup {s}
                /\ UNCHANGED <<conf, enabled, main, status, svc, schema>>

CreateTable(s) ==
  /\ svc[s] \in Tables /\ ~HasTable(svc[s])
  /\ schema' = [schema EXCEPT ![svc[s]] = "created"]
  /\ indexing' = indexing \cup {s}
  /\ UNCHANGED <<conf, enabled, main, status, svc>>

CreateIndexes(s) ==
  /\ s \in indexing
  /\ schema' = [schema EXCEPT ![svc[s]] = "indexed"]
  /\ GoTo(s, NextPlace(svc[s]))

\* Any of the calls fails: OnStart returns the error.
AfterErrLogged(place) == NextPlace(place)  \* mutant
AfterErr(place) == "failed"

Fail(s) == /\ svc[s] \notin {"off", "loop", "failed"}
           /\ GoTo(s, AfterErr(svc[s]))
           /\ UNCHANGED schema

OnStart(s) == \/ Call(s) \/ Fail(s)
              \/ SkipTable(s) \/ MissTable(s) \/ CreateTable(s) \/ CreateIndexes(s)

-----------------------------------------------------------------------------
Next == \/ Execute \/ ExecuteErr \/ SetupErr \/ SetupPanic
        \/ GoOn \/ ReturnErr \/ NewErr
        \/ Quit \/ Kill \/ Panic
        \/ \E s \in Services : OnStart(s)

Spec == Init /\ [][Next]_vars

\* The timers fire.  Nothing is assumed of the node, the database and signals.
FairSpec == Spec /\ WF_vars(main \in Services /\ GoOn)

-----------------------------------------------------------------------------
(* Properties.                                                             *)

\* No goroutine is left of a process that is down, and a process that serves
\* has launched what its configuration asks for: the bridge with the indexer.
LaunchedAsConfigured ==
  /\ main = "down" => svc = AllOff
  /\ main = "serving" => /\ svc["indexer"] # "off" <=> "indexer" \in enabled
                         /\ svc["bridge"]  # "off" <=> "indexer" \in enabled
                         /\ svc["eps"]     # "off" <=> "eps" \in enabled

\* The variable the documentation names decides as long as there is no file: a
\* process that came to serve with such a configuration runs what it says.
DocumentedVariableDecides ==
  main = "serving" /\ conf.file = "missing" =>
    (svc["eps"] # "off" <=> conf.tag = "true")

\* With a bitcoin.toml no variable switches on what the file has no key for,
\* neither the documented one nor the one viper derives from the key; the bridge
\* has the key of the indexer (LoadBitcoinConfig, Start).
ServicesHaveKeys ==
  main = "serving" /\ conf.file = "there" =>
    /\ svc["indexer"] # "off" \/ svc["bridge"] # "off" => "indexer" \in conf.keys
    /\ svc["eps"] # "off" => "eps" \in conf.keys

\* A service reaches its loop only with its tables there, whatever earlier
\* processes left behind when they were killed between two statements.
LoopHasTables ==
  /\ svc["indexer"] = "loop" => HasTable("deposit_history") /\ HasTable("btc_index")
  /\ svc["eps"] = "loop" => HasTable("eps_history")

\* Starting ends: however long the calls of a service take, the process comes
\* to serve, or it is stopped.
StartEnds == main \in Services ~> main \in {"serving", "down"}

-----------------------------------------------------------------------------
(* The inductive invariant: what Start and OnStart have done to get there. *)

Runs(s) == svc[s] # "off"

\* The services launched while Start waits for one of them, or for none.
StageInv ==
  /\ main \in {"down", "setup"} => svc = AllOff
  /\ main \in Services => Runs(main) /\ Followers(main) \cap {s \in Services : Runs(s)} = {}
  /\ main \in {"indexer", "bridge"} => "indexer" \in enabled /\ Runs("indexer") /\ ~Runs("eps")
  /\ main \in {"eps", "serving"} => /\ Runs("indexer") <=> "indexer" \in enabled
                                    /\ Runs("bridge")  <=> "indexer" \in enabled
                                    /\ Runs("eps")     <=> "eps" \in enabled

\* What was read of the configuration is what the process goes by.
ConfInv ==
  main # "down" => /\ conf.file = "missing" => ("eps" \in enabled <=> conf.tag = "true")
                   /\ conf.file = "there" => enabled \subseteq conf.keys

\* A place of OnStart comes after the tables before it.
TablesInv ==
  /\ svc["indexer"] \in {"btc_index", "row", "loop"} => HasTable("deposit_history")
  /\ svc["indexer"] \in {"row", "loop"} => HasTable("btc_index")
  /\ svc["eps"] = "loop" => HasTable("eps_history")
  /\ \A s \in indexing : HasTable(svc[s])

\* What every step preserves and the properties above follow from.
IInv == TypeOK /\ StageInv /\ ConfInv /\ TablesInv

-----------------------------------------------------------------------------
(* Claims of the code that do not hold.                                    *)

\* "assume server started successfully" (start.go): no service of a process
\* that serves has failed to start.
ServingMeansStarted == main = "serving" => \A s \in Services : svc[s] # "failed"

\* The unique index of deposit_history on btc_tx_hash (model/deposit.go) is
\* there before the indexer inserts rows.
LoopHasIndexes == svc["indexer"] = "loop" => schema["deposit_history"] = "indexed"
=============================================================================
