---------------------------- MODULE ServerProofs ----------------------------
(***************************************************************************)
(* What holds of the start command and of the services up to their loops   *)
(* holds of any number of restarts, with any configuration each time.      *)
(***************************************************************************)
EXTENDS Server, TLAPS

-----------------------------------------------------------------------------
(* The services launched so far, and what ends all of them.                *)

LEMMA InitInv == Init => IInv
BY DEF Init, IInv, TypeOK, StageInv, ConfInv, TablesInv, AllOff, Services, Tables,
   HasTable, Files, Values, Absent

\* However a process ends, nothing of it but the tables is left.
LEMMA ExitInv == ASSUME IInv, NEW code \in {"0", "1", "2", "killed"}, Exit(code)
                 PROVE  IInv'
BY DEF Exit, IInv, TypeOK, StageInv, ConfInv, TablesInv, AllOff, Services, Tables, HasTable

\* The variable decides where there is no file (Load, FromEnv).
LEMMA NoFileVariableDecides ==
  ASSUME NEW e \in EnableEps
  PROVE  IsOn("missing", e) <=> e.tag = "true"
BY DEF IsOn, Load, FromEnv, Zero, Absent, EnableEps, Setting

\* A setting of the file that is on has a key there (Load, FromFile).
LEMMA FileNeedsKey ==
  ASSUME NEW s, IsOn("there", s)
  PROVE  s.line # Absent
BY DEF IsOn, Load, FromFile, Zero, Absent

LEMMA ExecuteInv == IInv /\ Execute => IInv'
<1> SUFFICES ASSUME IInv, Execute PROVE IInv'
  OBVIOUS
<1>1. PICK file \in Files, i \in EnableIndexer, e \in EnableEps :
        /\ conf' = [file |-> file, tag |-> e.tag, keys |-> Keys(i, e)]
        /\ enabled' = (IF IsOn(file, i) THEN {"indexer"} ELSE {})
                      \cup (IF IsOn(file, e) THEN {"eps"} ELSE {})
  BY DEF Execute
<1>2. main = "down" /\ main' = "setup" /\ status' = "none"
      /\ UNCHANGED <<svc, indexing, schema>>
  BY DEF Execute
<1>3. e.tag \in Values \cup {Absent}
  BY DEF EnableEps, Setting
<1>4. TypeOK'
  <2>1. conf' \in [file : Files, tag : Values \cup {Absent}, keys : SUBSET {"indexer", "eps"}]
    <3>1. Keys(i, e) \in SUBSET {"indexer", "eps"}
      BY DEF Keys
    <3> QED BY <1>1, <1>3, <3>1
  <2>2. enabled' \subseteq {"indexer", "eps"}
    BY <1>1
  <2> QED BY <1>2, <2>1, <2>2 DEF IInv, TypeOK
<1>5. StageInv'
  BY <1>2 DEF IInv, StageInv, Services
<1>6. ConfInv'
  <2>1. conf'.file = file /\ conf'.tag = e.tag /\ conf'.keys = Keys(i, e)
    BY <1>1
  <2>2. /\ "eps" \in enabled' <=> IsOn(file, e)
        /\ "indexer" \in enabled' <=> IsOn(file, i)
        /\ enabled' \subseteq {"indexer", "eps"}
    BY <1>1
  <2>3. ASSUME file = "missing" PROVE "eps" \in enabled' <=> conf'.tag = "true"
    BY <2>1, <2>2, <2>3, NoFileVariableDecides
  <2>4. ASSUME file = "there" PROVE enabled' \subseteq conf'.keys
    <3>1. "indexer" \in enabled' => "indexer" \in Keys(i, e)
      BY <2>2, <2>4, FileNeedsKey DEF Keys
    <3>2. "eps" \in enabled' => "eps" \in Keys(i, e)
      BY <2>2, <2>4, FileNeedsKey DEF Keys
    <3> QED BY <2>1, <2>2, <3>1, <3>2
  <2> QED BY <2>1, <2>3, <2>4 DEF ConfInv
<1>7. TablesInv'
  BY <1>2 DEF IInv, TablesInv, HasTable
<1> QED BY <1>4, <1>5, <1>6, <1>7 DEF IInv

\* Start launches the service that comes next and no other.
LEMMA GoOnInv == IInv /\ GoOn => IInv'
<1> SUFFICES ASSUME IInv, GoOn PROVE IInv'
  OBVIOUS
<1> USE DEF IInv
<1>1. main \in Services \cup {"setup"} /\ UNCHANGED <<conf, enabled, status, indexing, schema>>
  BY DEF GoOn
<1>2. main \in {"setup", "indexer", "bridge", "eps"}
  BY <1>1 DEF Services
<1>3. ConfInv'
  BY <1>1, <1>2 DEF ConfInv
<1>4. CASE Followers(main) = {} /\ main' = "serving" /\ UNCHANGED svc
  <2>1. TypeOK'
    BY <1>1, <1>4 DEF TypeOK
  <2>2. StageInv'
    <3>1. CASE main = "setup"
      <4>1. enabled = {} /\ svc = AllOff
        BY <1>4, <3>1 DEF Followers, TypeOK, StageInv
      <4> QED BY <1>1, <1>4, <4>1 DEF StageInv, Services, Runs, AllOff
    <3>2. main # "indexer"
      BY <1>4 DEF Followers
    <3>3. CASE main = "bridge"
      <4>1. "eps" \notin enabled
        BY <1>4, <3>3 DEF Followers
      <4> QED BY <1>1, <1>4, <3>3, <4>1 DEF StageInv, Services, Runs
    <3>4. CASE main = "eps"
      BY <1>1, <1>4, <3>4 DEF StageInv, Services, Runs
    <3> QED BY <1>2, <3>1, <3>2, <3>3, <3>4
  <2>3. TablesInv'
    BY <1>1, <1>4 DEF TablesInv, HasTable
  <2> QED BY <1>3, <2>1, <2>2, <2>3
<1>5. ASSUME NEW s \in Followers(main), main' = s, svc' = [svc EXCEPT ![s] = FirstPlace(s)]
      PROVE  IInv'
  <2>1. \/ main = "setup" /\ s = "indexer" /\ "indexer" \in enabled
        \/ main = "setup" /\ s = "eps" /\ "indexer" \notin enabled /\ "eps" \in enabled
        \/ main = "indexer" /\ s = "bridge"
        \/ main = "bridge" /\ s = "eps" /\ "eps" \in enabled
    BY <1>2, <1>5 DEF Followers, TypeOK
  <2>2. s \in Services /\ svc[s] = "off"
    BY <2>1 DEF StageInv, Followers, Services, AllOff, Runs
  <2>3. /\ DOMAIN svc' = Services /\ svc'[s] = FirstPlace(s)
        /\ \A t \in Services \ {s} : svc'[t] = svc[t]
    BY <1>5, <2>2 DEF TypeOK
  <2>4. s \notin indexing
    BY <2>2 DEF TypeOK, Tables
  <2>5. TypeOK'
    BY <1>1, <1>5, <2>1, <2>2, <2>3, <2>4 DEF TypeOK, FirstPlace, Services, Tables
  <2>6. StageInv'
    <3>1. FirstPlace(s) # "off"
      BY <2>1 DEF FirstPlace
    <3> QED BY <1>1, <1>5, <2>1, <2>2, <2>3, <3>1
            DEF StageInv, Runs, Services, Followers, AllOff
  <2>7. TablesInv'
    <3>1. \A t \in indexing' : t \in Services /\ svc'[t] = svc[t]
      BY <1>1, <2>3, <2>4 DEF TypeOK
    <3> QED BY <1>1, <2>1, <2>3, <3>1 DEF TablesInv, HasTable, FirstPlace, Services
  <2> QED BY <1>3, <2>5, <2>6, <2>7
<1> QED BY <1>4, <1>5 DEF GoOn

-----------------------------------------------------------------------------
(* OnStart.  A service that runs goes on running, whatever it does.        *)

LEMMA StageKept ==
  ASSUME TypeOK, StageInv, ConfInv, UNCHANGED <<conf, enabled, main, status>>,
         DOMAIN svc' = Services,
         \A s \in Services : svc'[s] = svc[s] \/ (svc[s] # "off" /\ svc'[s] # "off"),
         \E s \in Services : svc[s] # "off"
  PROVE  StageInv' /\ ConfInv'
<1>1. svc # AllOff
  BY DEF AllOff
<1>2. \A s \in Services : Runs(s)' <=> Runs(s)
  BY DEF Runs
<1>3. \A p : Followers(p)' = Followers(p)
  BY DEF Followers
<1> QED BY <1>1, <1>2, <1>3 DEF StageInv, ConfInv, Services

\* A service moves on, its table there, or fails.
LEMMA GoToInv ==
  ASSUME IInv, NEW s \in Services, NEW place, GoTo(s, place),
         svc[s] \notin {"off", "loop", "failed"},
         \/ place = "failed"
         \/ place = NextPlace(svc[s]) /\ (svc[s] \in Tables => schema'[svc[s]] # "none"),
         schema' \in [Tables -> {"none", "created", "indexed"}],
         \A t \in Tables : HasTable(t) => HasTable(t)'
  PROVE  IInv'
<1> USE DEF IInv
<1>1. /\ svc' = [svc EXCEPT ![s] = place] /\ indexing' = indexing \ {s}
      /\ UNCHANGED <<conf, enabled, main, status>>
  BY DEF GoTo
<1>2. /\ DOMAIN svc' = Services /\ svc'[s] = place
      /\ \A t \in Services \ {s} : svc'[t] = svc[t]
  BY <1>1 DEF TypeOK
<1>3. \/ s = "indexer" /\ svc[s] \in {"latest", "deposit_history", "btc_index", "row"}
      \/ s = "eps" /\ svc[s] = "eps_history"
  BY DEF TypeOK, Services
<1>4. TypeOK'
  <2>1. indexing' \subseteq {t \in Services : svc'[t] \in Tables}
    BY <1>1, <1>2 DEF TypeOK
  <2> QED BY <1>1, <1>2, <1>3, <2>1 DEF TypeOK, NextPlace, Services
<1>5. place # "off"
  BY <1>3 DEF NextPlace
<1>6. StageInv' /\ ConfInv'
  <2>1. \A t \in Services : svc'[t] = svc[t] \/ (svc[t] # "off" /\ svc'[t] # "off")
    BY <1>2, <1>5
  <2>2. \E t \in Services : svc[t] # "off"
    OBVIOUS
  <2> QED BY <1>1, <1>2, <2>1, <2>2, StageKept
<1>7. TablesInv'
  <2>1. \A t \in indexing' : svc'[t] = svc[t] /\ svc[t] \in Tables /\ HasTable(svc[t])
    BY <1>1, <1>2 DEF TypeOK, TablesInv
  <2>2. \A t \in indexing' : schema'[svc'[t]] # "none"
    BY <2>1 DEF HasTable
  <2>3. /\ svc'["indexer"] \in {"btc_index", "row", "loop"} => HasTable("deposit_history")'
        /\ svc'["indexer"] \in {"row", "loop"} => HasTable("btc_index")'
        /\ svc'["eps"] = "loop" => HasTable("eps_history")'
    BY <1>2, <1>3 DEF TablesInv, NextPlace, HasTable, Tables, Services
  <2> QED BY <2>2, <2>3 DEF TablesInv, HasTable
<1> QED BY <1>4, <1>6, <1>7

LEMMA CallInv == ASSUME IInv, NEW s \in Services, Call(s) PROVE IInv'
<1>1. /\ svc[s] \in {"latest", "row"} /\ GoTo(s, NextPlace(svc[s])) /\ UNCHANGED schema
      /\ svc[s] \notin Tables
  BY DEF Call, Tables
<1> QED BY <1>1, GoToInv DEF IInv, TypeOK, HasTable

LEMMA SkipTableInv == ASSUME IInv, NEW s \in Services, SkipTable(s) PROVE IInv'
<1>1. /\ svc[s] \in Tables /\ GoTo(s, NextPlace(svc[s])) /\ UNCHANGED schema
      /\ svc[s] \notin {"off", "loop", "failed"}
      /\ schema'[svc[s]] # "none"
  BY DEF SkipTable, Tables, HasTable
<1> QED BY <1>1, GoToInv DEF IInv, TypeOK, HasTable

LEMMA MissTableInv == ASSUME IInv, NEW s \in Services, MissTable(s) PROVE IInv'
<1> USE DEF IInv
<1>1. /\ svc[s] \in Tables /\ HasTable(svc[s]) /\ indexing' = indexing \cup {s}
      /\ UNCHANGED <<conf, enabled, main, status, svc, schema>>
  BY DEF MissTable
<1>2. TypeOK'
  BY <1>1 DEF TypeOK
<1>3. StageInv' /\ ConfInv'
  <2>1. DOMAIN svc' = Services /\ svc' = svc /\ svc[s] # "off"
    BY <1>1 DEF TypeOK, Tables
  <2> QED BY <1>1, <2>1, StageKept
<1>4. TablesInv'
  BY <1>1 DEF TablesInv, HasTable
<1> QED BY <1>2, <1>3, <1>4

LEMMA CreateTableInv == ASSUME IInv, NEW s \in Services, CreateTable(s) PROVE IInv'
<1> USE DEF IInv
<1>1. /\ svc[s] \in Tables /\ schema' = [schema EXCEPT ![svc[s]] = "created"]
      /\ indexing' = indexing \cup {s}
      /\ UNCHANGED <<conf, enabled, main, status, svc>>
  BY DEF CreateTable
<1>2. /\ schema' \in [Tables -> {"none", "created", "indexed"}]
      /\ HasTable(svc[s])' /\ \A t \in Tables : HasTable(t) => HasTable(t)'
  BY <1>1 DEF TypeOK, HasTable
<1>3. TypeOK'
  BY <1>1, <1>2 DEF TypeOK
<1>4. StageInv' /\ ConfInv'
  <2>1. DOMAIN svc' = Services /\ svc' = svc /\ svc[s] # "off"
    BY <1>1 DEF TypeOK, Tables
  <2> QED BY <1>1, <2>1, StageKept
<1>5. TablesInv'
  <2>1. \A t \in indexing : svc[t] \in Tables /\ HasTable(svc[t])
    BY DEF TypeOK, TablesInv
  <2>2. \A t \in indexing' : schema'[svc'[t]] # "none"
    BY <1>1, <1>2, <2>1 DEF HasTable
  <2> QED BY <1>1, <1>2, <2>2 DEF TablesInv, Tables, HasTable
<1> QED BY <1>3, <1>4, <1>5

LEMMA CreateIndexesInv == ASSUME IInv, NEW s \in Services, CreateIndexes(s) PROVE IInv'
<1>1. /\ s \in indexing /\ schema' = [schema EXCEPT ![svc[s]] = "indexed"]
      /\ GoTo(s, NextPlace(svc[s]))
  BY DEF CreateIndexes
<1>2. svc[s] \in Tables /\ svc[s] \notin {"off", "loop", "failed"}
  BY <1>1 DEF IInv, TypeOK, Tables
<1>3. /\ schema' \in [Tables -> {"none", "created", "indexed"}]
      /\ schema'[svc[s]] # "none" /\ \A t \in Tables : HasTable(t) => HasTable(t)'
  BY <1>1, <1>2 DEF IInv, TypeOK, HasTable
<1> QED BY <1>1, <1>2, <1>3, GoToInv

LEMMA FailInv == ASSUME IInv, NEW s \in Services, Fail(s) PROVE IInv'
<1>1. /\ svc[s] \notin {"off", "loop", "failed"} /\ GoTo(s, "failed") /\ UNCHANGED schema
  BY DEF Fail, AfterErr
<1> QED BY <1>1, GoToInv DEF IInv, TypeOK, HasTable

-----------------------------------------------------------------------------
LEMMA Step == IInv /\ [Next]_vars => IInv'
<1> SUFFICES ASSUME IInv, [Next]_vars PROVE IInv'
  OBVIOUS
<1>1. CASE Execute
  BY <1>1, ExecuteInv
<1>2. CASE ExecuteErr
  BY <1>2, ExitInv DEF ExecuteErr
<1>3. CASE SetupErr \/ SetupPanic
  BY <1>3, ExitInv DEF SetupErr, SetupPanic
<1>4. CASE GoOn
  BY <1>4, GoOnInv
<1>5. CASE ReturnErr \/ NewErr
  BY <1>5, ExitInv DEF ReturnErr, NewErr, Logged
<1>6. CASE Quit \/ Kill \/ Panic
  BY <1>6, ExitInv DEF Quit, Kill, Panic
<1>7. ASSUME NEW s \in Services, OnStart(s) PROVE IInv'
  BY <1>7, CallInv, SkipTableInv, MissTableInv, CreateTableInv, CreateIndexesInv, FailInv DEF OnStart
<1>8. CASE UNCHANGED vars
  BY <1>8 DEF vars, IInv, TypeOK, StageInv, ConfInv, TablesInv, Runs, Followers, HasTable
<1> QED BY <1>1, <1>2, <1>3, <1>4, <1>5, <1>6, <1>7, <1>8 DEF Next

\* Whatever is configured, killed and started again: the tables a service is
\* past are there, and the services launched are those Start has come to.
THEOREM Invariance == Spec => []IInv
BY InitInv, Step, PTL DEF Spec

\* Every variable keeps its type (Start and OnStart of the services).
THEOREM TypeCorrect == Spec => []TypeOK
<1>1. IInv => TypeOK
  BY DEF IInv
<1> QED BY <1>1, Invariance, PTL

\* A process that serves has launched what its configuration asks for, and one
\* that is down has left no goroutine (Start).
THEOREM LaunchesWhatIsConfigured == Spec => []LaunchedAsConfigured
<1>1. IInv => LaunchedAsConfigured
  BY DEF IInv, StageInv, LaunchedAsConfigured, Runs
<1> QED BY <1>1, Invariance, PTL

\* Without a bitcoin.toml the variable docs/ENVS.md names decides on EPS
\* (LoadBitcoinConfig, Start).
THEOREM VariableDecides == Spec => []DocumentedVariableDecides
<1>1. IInv => DocumentedVariableDecides
  BY DEF IInv, StageInv, ConfInv, DocumentedVariableDecides, Runs
<1> QED BY <1>1, Invariance, PTL

\* A service reaches its loop with its tables there, whatever earlier processes
\* left half made (HasTable and AutoMigrate in OnStart).
THEOREM LoopsHaveTables == Spec => []LoopHasTables
<1>1. IInv => LoopHasTables
  BY DEF IInv, TablesInv, LoopHasTables
<1> QED BY <1>1, Invariance, PTL

\* Beside a bitcoin.toml the environment switches on no service the file has no
\* key for (LoadBitcoinConfig, Start).
THEOREM KeysSwitchOn == Spec => []ServicesHaveKeys
<1>1. IInv => ServicesHaveKeys
  BY DEF IInv, StageInv, ConfInv, ServicesHaveKeys, Runs
<1> QED BY <1>1, Invariance, PTL
=============================================================================
