--------------------------- MODULE PipelineProofs ---------------------------
(***************************************************************************)
(* What holds of the three services together holds of any blocks, heights, *)
(* limits and faults.  Each service is shown to see of the others only     *)
(* what its own module allows, so that its own invariant goes on holding;  *)
(* the three invariants together say where every credit and every report   *)
(* came from.                                                              *)
(***************************************************************************)
EXTENDS Pipeline, FiniteSetTheorems, TLAPS

\* The services as the modules with their proofs have them.
IP == INSTANCE IndexerServiceRefinement WITH
        deposits <- DOMAIN rows, pc <- indexerPc, MaxCrashes <- MaxFaults

BP == INSTANCE BridgeDepositRefinement WITH
        Deposits <- Payments, pc <- bridgePc, faults <- sendFaults

EP == INSTANCE EpsServiceProofs WITH
        Deposits <- Payments, faults <- epsFaults,
        paid <- [d \in PaidByTransfer |-> [b2Tx |-> rows[d].b2Tx, eoaTx |-> rows[d].eoaTx]]

-----------------------------------------------------------------------------
(* The same definitions, by their names in the two instances.              *)

LEMMA SameParser ==
  /\ \A tx : Indexer!ListenOuts(tx) = ListenOuts(tx) /\ IP!ListenOuts(tx) = ListenOuts(tx)
  /\ \A tx : Indexer!Froms(tx) = Froms(tx) /\ IP!Froms(tx) = Froms(tx)
  /\ \A b, n : /\ Indexer!ParseResults(b, n) = ParseResults(b, n)
               /\ IP!ParseResults(b, n) = ParseResults(b, n)
               /\ Indexer!BlockFails(b, n) = IP!BlockFails(b, n)
<1>1. \A tx : /\ Indexer!ListenOuts(tx) = ListenOuts(tx) /\ IP!ListenOuts(tx) = ListenOuts(tx)
              /\ Indexer!Froms(tx) = Froms(tx) /\ IP!Froms(tx) = Froms(tx)
  BY DEF ListenOuts, Indexer!ListenOuts, IP!ListenOuts, Froms, Indexer!Froms, IP!Froms,
         InScripts, Indexer!InScripts, IP!InScripts
<1>2. \A tx : Indexer!TxFails(tx) = IP!TxFails(tx)
  BY <1>1 DEF Indexer!TxFails, IP!TxFails, Indexer!FromFails, IP!FromFails,
     Indexer!OutScripts, IP!OutScripts, Indexer!InScripts, IP!InScripts
<1>3. \A b, n : Indexer!Parsed(b, n) = Parsed(b, n) /\ IP!Parsed(b, n) = Parsed(b, n)
  BY DEF Parsed, Indexer!Parsed, IP!Parsed
<1>4. ASSUME NEW b, NEW n PROVE Indexer!BlockFails(b, n) = IP!BlockFails(b, n)
  BY <1>2, <1>3 DEF Indexer!BlockFails, IP!BlockFails
<1>5. ASSUME NEW b, NEW n
      PROVE  /\ Indexer!ParseResults(b, n) = ParseResults(b, n)
             /\ IP!ParseResults(b, n) = ParseResults(b, n)
  BY <1>1, <1>3 DEF ParseResults, Indexer!ParseResults, IP!ParseResults
<1> QED
  BY <1>1, <1>4, <1>5

LEMMA SameIndexer == /\ Indexer!Init => IP!Init
                     /\ Indexer!Next => IP!Next
                     /\ Indexer!Stop => IP!Stop
BY SameParser DEF Indexer!Init, IP!Init, Indexer!Next, IP!Next, Indexer!MineBlock,
   IP!MineBlock, Indexer!Start, IP!Start, Indexer!LoadRow, IP!LoadRow, Indexer!Resume,
   IP!Resume, Indexer!CreateRow, IP!CreateRow, Indexer!InsertRow, IP!InsertRow,
   Indexer!FirstRow, IP!FirstRow,
   Indexer!LoadErr, IP!LoadErr, Indexer!Stop, IP!Stop, Indexer!Refresh, IP!Refresh,
   Indexer!RefreshErr, IP!RefreshErr, Indexer!CaughtUp, IP!CaughtUp, Indexer!Advance,
   IP!Advance, Indexer!AdvancedBlock, IP!AdvancedBlock, Indexer!AdvancedTxIndex,
   IP!AdvancedTxIndex, Indexer!Parse, IP!Parse, Indexer!ParseErr, IP!ParseErr,
   Indexer!RewoundBlock, IP!RewoundBlock, Indexer!RewoundTxIndex, IP!RewoundTxIndex,
   Indexer!HandleResult, IP!HandleResult, Indexer!SkipSelf, IP!SkipSelf, Indexer!Save,
   IP!Save, Indexer!SaveErr, IP!SaveErr, Indexer!Panic, IP!Panic, Indexer!Savable,
   IP!Savable, Indexer!IsNext, IP!IsNext, Indexer!Before, IP!Before, Indexer!IsSelf,
   IP!IsSelf, Indexer!NoFrom, IP!NoFrom, Indexer!TxAt, IP!TxAt, Indexer!Handled,
   IP!Handled, Indexer!Insert, IP!Insert, Indexer!Recorded, IP!Recorded,
   Indexer!FinishBlock, IP!FinishBlock, Indexer!FinishBlockErr, IP!FinishBlockErr,
   Indexer!NextBlock, IP!NextBlock, Indexer!Crash, IP!Crash, Indexer!chainVars,
   IP!chainVars, Indexer!dbVars, IP!dbVars, Indexer!locals, IP!locals, Indexer!history,
   IP!history, Indexer!NoRow, IP!NoRow

LEMMA SameBridge == /\ Bridge!Init => BP!Init
                    /\ Bridge!Next => BP!Next
                    /\ Bridge!Die => BP!Die
BY DEF Bridge!Init, BP!Init, Bridge!Next, BP!Next, Bridge!AddDeposit, BP!AddDeposit,
   Bridge!NewRow, BP!NewRow, Bridge!MineNext, BP!MineNext, Bridge!Mine, BP!Mine,
   Bridge!Outcomes, BP!Outcomes, Bridge!Processed, BP!Processed,
   Bridge!Query, BP!Query, Bridge!QueryErr, BP!QueryErr,
   Bridge!ToHandle, BP!ToHandle, Bridge!Retryable, BP!Retryable, Bridge!Cardinality,
   BP!Cardinality, Bridge!Take, BP!Take, Bridge!BatchDone, BP!BatchDone,
   Bridge!HandleDeposit, BP!HandleDeposit, Bridge!SendRefused, BP!SendRefused,
   Bridge!Refusals, BP!Refusals, Bridge!Goto, BP!Goto, Bridge!SendErr, BP!SendErr,
   Bridge!Retried, BP!Retried, Bridge!Submit, BP!Submit, Bridge!LoseAnswer,
   BP!LoseAnswer, Bridge!Send, BP!Send, Bridge!WaitB2, BP!WaitB2,
   Bridge!WaitMinedStatuses, BP!WaitMinedStatuses, Bridge!AfterWait, BP!AfterWait,
   Bridge!TransferErr, BP!TransferErr, Bridge!Transfer, BP!Transfer, Bridge!WaitEoa,
   BP!WaitEoa, Bridge!EoaWaitStatuses, BP!EoaWaitStatuses, Bridge!Update, BP!Update,
   Bridge!Fits, BP!Fits, Bridge!NextInBatch, BP!NextInBatch, Bridge!UpdateErr,
   BP!UpdateErr, Bridge!Unrecorded, BP!Unrecorded, Bridge!Crash, BP!Crash, Bridge!Die,
   BP!Die, Bridge!NoTx, BP!NoTx, Bridge!DepositB2TxStatusSuccess,
   BP!DepositB2TxStatusSuccess, Bridge!DepositB2TxStatusPending,
   BP!DepositB2TxStatusPending, Bridge!DepositB2TxStatusFailed,
   BP!DepositB2TxStatusFailed, Bridge!DepositB2TxStatusWaitMinedFailed,
   BP!DepositB2TxStatusWaitMinedFailed, Bridge!DepositB2TxStatusTxHashExist,
   BP!DepositB2TxStatusTxHashExist, Bridge!DepositB2TxStatusWaitMinedStatusFailed,
   BP!DepositB2TxStatusWaitMinedStatusFailed,
   Bridge!DepositB2TxStatusInsufficientBalance, BP!DepositB2TxStatusInsufficientBalance,
   Bridge!DepositB2TxStatusContextDeadlineExceeded,
   BP!DepositB2TxStatusContextDeadlineExceeded,
   Bridge!DepositB2TxStatusFromAccountGasInsufficient,
   BP!DepositB2TxStatusFromAccountGasInsufficient, Bridge!DepositB2EoaTxStatusSuccess,
   BP!DepositB2EoaTxStatusSuccess, Bridge!DepositB2EoaTxStatusPending,
   BP!DepositB2EoaTxStatusPending, Bridge!DepositB2EoaTxStatusFailed,
   BP!DepositB2EoaTxStatusFailed, Bridge!DepositB2EoaTxStatusWaitMinedFailed,
   BP!DepositB2EoaTxStatusWaitMinedFailed,
   Bridge!DepositB2EoaTxStatusContextDeadlineExceeded,
   BP!DepositB2EoaTxStatusContextDeadlineExceeded

LEMMA SameEps == /\ Eps!Init => EP!Init
                 /\ \A d, b, e : Eps!Pay(d, b, e) => EP!Pay(d, b, e)
                 /\ Eps!Fill => EP!Fill
                 /\ Eps!Report => EP!Report
                 /\ Eps!Die => EP!Die
BY DEF Eps!Init, EP!Init, Eps!Pay, EP!Pay, Eps!Fill, EP!Fill, Eps!ListPaid, EP!ListPaid,
   Eps!FillDone, EP!FillDone, Eps!Save, EP!Save, Eps!SaveErr, EP!SaveErr, Eps!PassBy,
   EP!PassBy, Eps!Lookup, EP!Lookup, Eps!HasRow, EP!HasRow, Eps!NewEps, EP!NewEps,
   Eps!PositionOf, EP!PositionOf, Eps!Report, EP!Report, Eps!ListEps, EP!ListEps,
   Eps!ReportDone, EP!ReportDone, Eps!Reportable, EP!Reportable, Eps!Mark, EP!Mark,
   Eps!MarkErr, EP!MarkErr, Eps!Put, EP!Put, Eps!PutErr, EP!PutErr, Eps!TakeReport,
   EP!TakeReport, Eps!Accept, EP!Accept, Eps!Forget, EP!Forget, Eps!AfterErr,
   EP!AfterErr, Eps!Fault, EP!Fault, Eps!Die, EP!Die, Eps!fillVars, EP!fillVars,
   Eps!reportVars, EP!reportVars, Eps!serverVars, EP!serverVars, Eps!EspStatus,
   EP!EspStatus, Eps!EspStatusSuccess, EP!EspStatusSuccess

-----------------------------------------------------------------------------
(* The lemmas of the services, for this instance of theirs.                *)

LEMMA InstanceAssumptions ==
  /\ \A b \in Blocks : IP!IsBlock(b)
  /\ MaxHeight \in Nat /\ MaxFaults \in Nat
  /\ DepositRetry \in Nat \ {0} /\ SmallintMax \in Nat /\ DepositRetry <= SmallintMax
  /\ BatchLimit \in Nat \ {0}
  /\ BP!IsFiniteSet(Payments) /\ EP!IsFiniteSet(Payments)
BY BlocksAssumption, BoundsAssumption, LimitsAssumption, PaymentsAssumption
   DEF IsFiniteSet, BP!IsFiniteSet, EP!IsFiniteSet, IsBlock, IP!IsBlock, Tx, IP!Tx, InScript, IP!InScript, OutScript, IP!OutScript

LEMMA IndexerStep == ASSUME IP!IInv, [IP!Next]_(IP!vars) PROVE IP!IInv'
BY IP!NextStep, InstanceAssumptions

LEMMA IndexerStops ==
  ASSUME IP!IInv, IP!Stop, crashes' \in 0 .. MaxFaults,
         UNCHANGED <<chain, btcIndex, rows, origin, failed>>
  PROVE  IP!IInv'
BY IP!StopStep, InstanceAssumptions

LEMMA BridgeStep ==
  ASSUME BP!IInv, BP!OnRecord,
         [BP!Next]_(BP!vars) \/ (BP!Die /\ UNCHANGED sendFaults)
  PROVE  /\ BP!IInv' /\ BP!OnRecord'
         /\ UNCHANGED rows \/ \E d \in Payments : BP!Added(d) \/ BP!Updated(d)
<1>1. sendFaults \in 0 .. MaxFaults
  BY DEF BP!IInv, BP!TypeOK
<1>2. BP!IInv'
  <2>1. CASE [BP!Next]_(BP!vars)
    BY <2>1, BP!Inductive, InstanceAssumptions
  <2>2. CASE BP!Die /\ UNCHANGED sendFaults
    BY <1>1, <2>2, BP!DieStep, InstanceAssumptions
  <2> QED
    BY <2>1, <2>2
<1>3. BP!OnRecord'
  BY BP!OnRecordStep, InstanceAssumptions
<1>4. UNCHANGED rows \/ \E d \in Payments : BP!Added(d) \/ BP!Updated(d)
  BY BP!RowsMove, InstanceAssumptions
<1> QED
  BY <1>2, <1>3, <1>4

LEMMA EpsStep ==
  ASSUME EP!IInv,
         \/ \E d \in Payments : \E b, e \in Nat : EP!Pay(d, b, e)
         \/ EP!Fill \/ EP!Report
         \/ EP!Die /\ UNCHANGED epsFaults
         \/ UNCHANGED EP!vars
  PROVE  EP!IInv'
<1>1. epsFaults \in 0 .. MaxFaults
  BY DEF EP!IInv, EP!TypeOK
<1>2. ASSUME NEW d \in Payments, NEW b \in Nat, NEW e \in Nat, EP!Pay(d, b, e)
      PROVE  EP!IInv'
  BY <1>2, EP!PayStep, InstanceAssumptions
<1>3. CASE EP!Fill
  BY <1>3, EP!FillStep, InstanceAssumptions
<1>4. CASE EP!Report
  BY <1>4, EP!ReportStep, InstanceAssumptions
<1>5. CASE EP!Die /\ UNCHANGED epsFaults
  BY <1>1, <1>5, EP!DieStep, InstanceAssumptions
<1>6. CASE UNCHANGED EP!vars
  BY <1>6, EP!StutterStep, InstanceAssumptions
<1> QED
  BY <1>2, <1>3, <1>4, <1>5, <1>6

-----------------------------------------------------------------------------
(* What each service does is a step of its module, or nothing, for the     *)
(* others.                                                                 *)

LEMMA IndexerLoopSteps ==
  /\ IndexerLoop \/ MineBitcoin \/ (\E r \in pending : RecordErr(r)) => Indexer!Next
  /\ StartErr => Indexer!Next \/ UNCHANGED indexerVars
  /\ \A r \in pending : Record(r) \/ Panic(r) => Indexer!Next
BY DEF IndexerLoop, MineBitcoin, RecordErr, StartErr, Record, Panic, Indexer!Next,
   Indexer!HandleResult

LEMMA BridgeLoopSteps ==
  BridgeLoop \/ MineB2 => Bridge!Next /\ DOMAIN rows' = DOMAIN rows
<1>1. BridgeLoop \/ MineB2 => Bridge!Next
  BY DEF BridgeLoop, MineB2, Bridge!Next
<1>2. Bridge!HandleDeposit => DOMAIN rows' = DOMAIN rows
  BY DEF Bridge!HandleDeposit, Bridge!SendRefused, Bridge!SendErr, Bridge!Send,
         Bridge!WaitB2, Bridge!TransferErr, Bridge!Transfer, Bridge!WaitEoa,
         Bridge!Update, Bridge!UpdateErr, Bridge!Goto
<1>3. BridgeLoop \/ MineB2 => Bridge!HandleDeposit \/ UNCHANGED rows
  BY DEF BridgeLoop, MineB2, Bridge!Query, Bridge!QueryErr, Bridge!BatchDone, Bridge!Take,
         Bridge!MineNext, Bridge!Mine
<1> QED
  BY <1>1, <1>2, <1>3

\* The end of the process is the end of the bridge and of EpsService.
LEMMA ExitEnds ==
  Exit => /\ BP!Die /\ UNCHANGED sendFaults
          /\ EP!Die /\ UNCHANGED epsFaults
          /\ UNCHANGED rows
BY SameBridge, SameEps DEF Exit

\* What EpsService sees of a row that is added or updated.
LEMMA EpsSees ==
  ASSUME UNCHANGED epsVars,
         UNCHANGED rows \/ \E d \in Payments : BP!Added(d) \/ BP!Updated(d)
  PROVE  \/ UNCHANGED Eps!vars
         \/ \E d \in Payments : /\ Eps!Pay(d, rows'[d].b2Tx, rows'[d].eoaTx)
                                /\ d \in PaidByTransfer'
                                /\ rows'[d].b2Tx \in Nat /\ rows'[d].eoaTx \in Nat
<1> DEFINE told == [x \in PaidByTransfer |-> [b2Tx |-> rows[x].b2Tx, eoaTx |-> rows[x].eoaTx]]
<1> USE DEF epsVars, Eps!vars, Eps!fillVars, Eps!reportVars, Eps!serverVars, PaidByTransfer,
            Bridge!DepositB2EoaTxStatusSuccess, BP!DepositB2EoaTxStatusSuccess
<1>1. ASSUME told' = told PROVE UNCHANGED Eps!vars
  BY <1>1
<1>2. CASE UNCHANGED rows
  BY <1>1, <1>2
<1>3. ASSUME NEW d \in Payments, BP!Added(d) PROVE UNCHANGED Eps!vars
  <2>1. PaidByTransfer' = PaidByTransfer /\ \A x \in PaidByTransfer : rows'[x] = rows[x]
    BY <1>3 DEF BP!Added
  <2> QED
    BY <1>1, <2>1
<1>4. ASSUME NEW d \in Payments, BP!Updated(d), d \notin PaidByTransfer'
      PROVE  UNCHANGED Eps!vars
  <2>1. PaidByTransfer' = PaidByTransfer /\ \A x \in PaidByTransfer : rows'[x] = rows[x]
    BY <1>4 DEF BP!Updated
  <2> QED
    BY <1>1, <2>1
<1>5. ASSUME NEW d \in Payments, BP!Updated(d), d \in PaidByTransfer'
      PROVE  Eps!Pay(d, rows'[d].b2Tx, rows'[d].eoaTx)
  <2>1. /\ PaidByTransfer' = PaidByTransfer \cup {d} /\ d \notin PaidByTransfer
        /\ \A x \in PaidByTransfer : rows'[x] = rows[x] /\ x # d
    BY <1>5 DEF BP!Updated
  <2>2. told' = [x \in DOMAIN told \cup {d} |->
                   IF x = d THEN [b2Tx |-> rows'[d].b2Tx, eoaTx |-> rows'[d].eoaTx]
                            ELSE told[x]]
    BY <2>1
  <2> QED
    BY <2>1, <2>2 DEF Eps!Pay
<1> QED
  BY <1>2, <1>3, <1>4, <1>5 DEF BP!Updated

LEMMA EpsStepSeen ==
  ASSUME EP!IInv, UNCHANGED epsVars,
         UNCHANGED rows \/ \E d \in Payments : BP!Added(d) \/ BP!Updated(d)
  PROVE  EP!IInv'
<1>1. CASE UNCHANGED EP!vars
  BY <1>1, EpsStep
<1>2. ASSUME NEW d \in Payments, NEW b \in Nat, NEW e \in Nat, EP!Pay(d, b, e)
      PROVE  EP!IInv'
  BY <1>2, EpsStep
<1>3. UNCHANGED EP!vars \/ \E d \in Payments : \E b, e \in Nat : EP!Pay(d, b, e)
  BY EpsSees
     DEF Eps!Pay, EP!Pay, Eps!vars, EP!vars, Eps!fillVars, EP!fillVars, Eps!reportVars,
         EP!reportVars, Eps!serverVars, EP!serverVars
<1> QED
  BY <1>1, <1>2, <1>3

-----------------------------------------------------------------------------
(* The invariant of the whole.                                             *)

\* No two rows are for one transaction.
OneRowPerTx == \A d, e \in DOMAIN rows : d.block = e.block /\ d.index = e.index => d = e

PInv == /\ IP!IInv /\ BP!IInv /\ EP!IInv
        /\ OneRowPerTx /\ BP!OnRecord

LEMMA InitHolds == Init => PInv
<1> SUFFICES ASSUME Init PROVE PInv
  OBVIOUS
<1>1. IP!IInv
  BY SameIndexer, IP!InitStep, InstanceAssumptions DEF Init
<1>2. BP!IInv
  BY SameBridge, BP!Initially, InstanceAssumptions DEF Init
<1>3. EP!IInv
  BY SameEps, EP!InitHolds, InstanceAssumptions DEF Init
<1>4. DOMAIN rows = {} /\ DOMAIN txs = {}
  BY DEF Init, Bridge!Init
<1> QED
  BY <1>1, <1>2, <1>3, <1>4 DEF PInv, OneRowPerTx, BP!OnRecord

\* Where the indexer is when it handles a result.
LEMMA ResultIsPayment ==
  ASSUME IP!IInv, NEW r \in pending, Indexer!Savable(r)
  PROVE  [block |-> height, index |-> r.index, out |-> r.out] \in Payments
<1> DEFINE b == chain[height]
<1>1. indexerPc = "save" /\ IP!TypeOK /\ IP!HeightInv /\ IP!BlockInv /\ IP!SaveInv
  BY DEF Indexer!Savable, Indexer!IsNext, IP!IInv
<1>2. /\ chain \in Seq(Blocks) /\ Len(chain) \in Nat /\ Len(chain) <= MaxHeight
      /\ height \in Nat /\ latestBlock \in Nat /\ currentTxIndex \in Nat
  BY <1>1 DEF IP!TypeOK
<1>3. height >= 1 /\ height <= latestBlock /\ latestBlock <= Len(chain)
  BY <1>1, <1>2 DEF IP!BlockInv, IP!HeightInv
<1>4. height \in 1 .. MaxHeight /\ b \in Blocks
  BY <1>2, <1>3, BoundsAssumption
<1>5. r \in ParseResults(b, currentTxIndex)
  BY <1>1, SameParser DEF IP!SaveInv
<1>6. r \in ParseResults(b, 0)
  BY <1>2, <1>5 DEF ParseResults, Parsed
<1>7. MayBeSaved(b, r)
  BY DEF MayBeSaved, Indexer!Savable, Indexer!TxAt
<1> DEFINE new == [block |-> height, index |-> r.index, out |-> r.out]
           of(h, c) == {[block |-> h, index |-> q.index, out |-> q.out] :
                          q \in {p \in ParseResults(c, 0) : MayBeSaved(c, p)}}
<1>8. new \in of(height, b)
  <2> HIDE DEF b
  <2> QED
    BY <1>6, <1>7
<1>9. Payments = UNION {of(h, c) : h \in 1 .. MaxHeight, c \in Blocks}
  BY DEF Payments
<1> HIDE DEF new, of, b
<1>10. new \in Payments
  BY <1>4, <1>8, <1>9
<1> QED
  BY <1>10 DEF new

\* To the bridge, the insert is a deposit it has not had.
LEMMA RecordAdds ==
  ASSUME IP!IInv, OneRowPerTx, NEW r \in pending, Record(r)
  PROVE  \E d \in Payments : Bridge!AddDeposit(d) /\ OneRowPerTx'
<1> DEFINE d == [block |-> height, index |-> r.index, out |-> r.out]
<1>1. d \in Payments
  <2>1. d \in DOMAIN rows' /\ d \notin DOMAIN rows
    BY DEF Record, NewRows, Indexer!Insert, Indexer!Recorded
  <2>2. Indexer!Savable(r)
    BY <2>1 DEF Record, Indexer!Save, Indexer!SaveErr, Indexer!dbVars
  <2> QED
    BY <2>2, ResultIsPayment
<1>2. \A e \in DOMAIN rows : ~(e.block = d.block /\ e.index = d.index)
  BY DEF Record, Indexer!Insert, Indexer!Recorded
<1>3. rows' = [x \in DOMAIN rows \cup {d} |-> IF x = d THEN Bridge!NewRow ELSE rows[x]]
  BY DEF Record, NewRows
<1>4. Bridge!AddDeposit(d)
  BY <1>2, <1>3 DEF Bridge!AddDeposit, Record, bridgeVars
<1>5. OneRowPerTx'
  <2>1. DOMAIN rows' = DOMAIN rows \cup {d}
    BY <1>3
  <2> HIDE DEF d
  <2> QED
    BY <1>2, <2>1 DEF OneRowPerTx
<1> QED
  BY <1>1, <1>4, <1>5

\* Every step keeps the invariant.
LEMMA Inductive == PInv /\ [Next]_vars => PInv'
<1> SUFFICES ASSUME PInv, [Next]_vars PROVE PInv'
  OBVIOUS
<1>1. /\ IP!IInv /\ BP!IInv /\ EP!IInv /\ OneRowPerTx /\ BP!OnRecord
  BY DEF PInv
<1>2. ASSUME UNCHANGED indexerVars, DOMAIN rows' = DOMAIN rows PROVE IP!IInv'
  BY <1>1, <1>2, IndexerStep
     DEF indexerVars, IP!vars, IP!chainVars, IP!dbVars, IP!locals, IP!history
<1>3. ASSUME UNCHANGED <<rows, bridgeVars>> PROVE BP!IInv' /\ BP!OnRecord'
  BY <1>1, <1>3, BridgeStep DEF bridgeVars, BP!vars
<1>4. ASSUME UNCHANGED <<rows, epsVars>> PROVE EP!IInv'
  BY <1>1, <1>4, EpsStepSeen
<1>5. ASSUME DOMAIN rows' = DOMAIN rows PROVE OneRowPerTx'
  BY <1>1, <1>5 DEF OneRowPerTx
<1>6. ASSUME Exit
      PROVE  BP!IInv' /\ BP!OnRecord' /\ EP!IInv' /\ OneRowPerTx'
  BY <1>1, <1>5, <1>6, ExitEnds, BridgeStep, EpsStep
<1>7. ASSUME BP!Next, UNCHANGED epsVars
      PROVE  BP!IInv' /\ BP!OnRecord' /\ EP!IInv'
  BY <1>1, <1>7, BridgeStep, EpsStepSeen
<1>8. ASSUME Indexer!Next, IndexerAlone PROVE PInv'
  <2>1. UNCHANGED <<rows, bridgeVars, epsVars>>
    BY <1>8 DEF IndexerAlone
  <2>2. IP!IInv'
    BY <1>1, <1>8, SameIndexer, IndexerStep
  <2> QED
    BY <2>1, <2>2, <1>3, <1>4, <1>5 DEF PInv
<1>9. ASSUME UNCHANGED <<rows, indexerVars, bridgeVars, epsVars>> PROVE PInv'
  BY <1>2, <1>3, <1>4, <1>5, <1>9 DEF PInv
<1>10. CASE Boot \/ LaunchBridge \/ LaunchEps \/ UNCHANGED vars
  BY <1>9, <1>10 DEF Boot, LaunchBridge, LaunchEps, Launch, vars
<1>11. CASE Crash /\ crashes' + sendFaults' + epsFaults' <= MaxFaults
  <2>1. Exit /\ UNCHANGED <<rows, sendFaults, epsFaults>>
    BY <1>11 DEF Crash, Exit
  <2>2. crashes' \in 0 .. MaxFaults
    <3>1. crashes \in Nat /\ sendFaults \in Nat /\ epsFaults \in Nat
      BY <1>1 DEF IP!IInv, IP!TypeOK, BP!IInv, BP!TypeOK, EP!IInv, EP!TypeOK
    <3> QED
      BY <1>11, <2>1, <3>1, BoundsAssumption DEF Crash
  <2>3. IP!IInv'
    BY <1>1, <1>11, <2>1, <2>2, SameIndexer, IndexerStops DEF Crash
  <2> QED
    BY <1>6, <2>1, <2>3 DEF PInv
<1>12. CASE StartErr
  <2>1. UNCHANGED rows /\ (Exit \/ UNCHANGED <<bridgeVars, epsVars>>)
    BY <1>12 DEF StartErr, Exit
  <2>2. IP!IInv'
    BY <1>1, <1>2, <1>12, <2>1, IndexerLoopSteps, SameIndexer, IndexerStep
  <2> QED
    BY <1>3, <1>4, <1>5, <1>6, <2>1, <2>2 DEF PInv
<1>13. CASE IndexerLoop \/ MineBitcoin
  BY <1>8, <1>13, IndexerLoopSteps DEF IndexerLoop, MineBitcoin
<1>14. CASE HandleResult
  <2>1. PICK r \in pending : Record(r) \/ RecordErr(r) \/ Panic(r)
    BY <1>14 DEF HandleResult
  <2>2. CASE Record(r)
    <3>1. IP!IInv'
      BY <1>1, <2>2, IndexerLoopSteps, SameIndexer, IndexerStep
    <3>2. PICK d \in Payments : Bridge!AddDeposit(d) /\ OneRowPerTx'
      BY <1>1, <2>2, RecordAdds
    <3>3. BP!Next
      BY <3>2, SameBridge DEF Bridge!Next
    <3>4. UNCHANGED epsVars
      BY <2>2 DEF Record
    <3> QED
      BY <1>7, <3>1, <3>2, <3>3, <3>4 DEF PInv
  <2>3. CASE RecordErr(r)
    BY <1>8, <2>3, IndexerLoopSteps DEF RecordErr
  <2>4. CASE Panic(r)
    <3>1. IP!IInv'
      BY <1>1, <2>4, IndexerLoopSteps, SameIndexer, IndexerStep
    <3> QED
      BY <1>6, <2>4, <3>1 DEF Panic, PInv
  <2> QED
    BY <2>1, <2>2, <2>3, <2>4
<1>15. CASE BridgeLoop \/ MineB2
  <2>1. BP!Next /\ DOMAIN rows' = DOMAIN rows
    BY <1>15, BridgeLoopSteps, SameBridge
  <2>2. UNCHANGED indexerVars /\ UNCHANGED epsVars
    BY <1>15 DEF BridgeLoop, MineB2, BridgeAlone
  <2> QED
    BY <1>2, <1>5, <1>7, <2>1, <2>2 DEF PInv
<1>16. CASE EpsLoop
  <2>1. /\ UNCHANGED <<rows, indexerVars, bridgeVars>>
        /\ EP!Fill \/ EP!Report
    BY <1>16, SameEps DEF EpsLoop
  <2>2. EP!IInv'
    BY <1>1, <2>1, EpsStep
  <2> QED
    BY <1>2, <1>3, <1>5, <2>1, <2>2 DEF PInv
<1> QED
  BY <1>10, <1>11, <1>12, <1>13, <1>14, <1>15, <1>16 DEF Next

\* The invariants of the three services hold of them together, whatever ends
\* the process and when.
THEOREM Invariance == Spec => []PInv
BY InitHolds, Inductive, PTL DEF Spec

-----------------------------------------------------------------------------
(* What the services see of each other.                                    *)

LEMMA BridgeSees == PInv /\ [Next]_vars => [Bridge!Next \/ Bridge!Die]_(Bridge!vars)
<1> SUFFICES ASSUME PInv, [Next]_vars
             PROVE  Bridge!Next \/ Bridge!Die \/ UNCHANGED Bridge!vars
  OBVIOUS
<1>1. ASSUME UNCHANGED <<rows, bridgeVars>> PROVE UNCHANGED Bridge!vars
  BY <1>1 DEF bridgeVars, Bridge!vars
<1>2. CASE BridgeLoop \/ MineB2
  BY <1>2, BridgeLoopSteps
<1>3. ASSUME NEW r \in pending, Record(r) PROVE Bridge!Next
  <2>1. PICK d \in Payments : Bridge!AddDeposit(d)
    BY <1>3, RecordAdds DEF PInv
  <2> QED
    BY <2>1 DEF Bridge!Next
<1>4. ASSUME Exit PROVE Bridge!Die
  BY <1>4 DEF Exit
<1>5. CASE HandleResult
  BY <1>1, <1>3, <1>4, <1>5 DEF HandleResult, RecordErr, IndexerAlone, Panic
<1>6. CASE Crash \/ StartErr
  BY <1>1, <1>4, <1>6 DEF Crash, StartErr
<1>7. CASE Boot \/ LaunchBridge \/ LaunchEps \/ UNCHANGED vars
  BY <1>1, <1>7 DEF Boot, LaunchBridge, LaunchEps, Launch, vars
<1>8. CASE IndexerLoop \/ MineBitcoin \/ EpsLoop
  BY <1>1, <1>8 DEF IndexerLoop, MineBitcoin, EpsLoop, IndexerAlone
<1> QED
  BY <1>2, <1>5, <1>6, <1>7, <1>8 DEF Next

\* All the bridge sees of the others is rows that are added, each once, and the
\* end of the process (start.go, SaveParsedResult).
THEOREM BridgeIsInPlace == Spec => BridgeInPlace
<1>1. Init => Bridge!Init
  BY DEF Init
<1> QED
  BY <1>1, Invariance, BridgeSees, PTL DEF Spec, BridgeInPlace

LEMMA EpsSeesStep == PInv /\ [Next]_vars => [EpsNext]_(Eps!vars)
<1> SUFFICES ASSUME PInv, [Next]_vars PROVE EpsNext \/ UNCHANGED Eps!vars
  OBVIOUS
<1>1. ASSUME UNCHANGED epsVars,
             UNCHANGED rows \/ \E d \in Payments : BP!Added(d) \/ BP!Updated(d)
      PROVE  EpsNext \/ UNCHANGED Eps!vars
  BY <1>1, EpsSees DEF EpsNext
<1>2. ASSUME Exit PROVE EpsNext
  BY <1>2 DEF Exit, EpsNext
<1>3. CASE EpsLoop
  BY <1>3 DEF EpsLoop, EpsNext
<1>4. ASSUME Bridge!Next, UNCHANGED epsVars PROVE EpsNext \/ UNCHANGED Eps!vars
  BY <1>1, <1>4, SameBridge, BridgeStep DEF PInv
<1>5. ASSUME NEW r \in pending, Record(r) PROVE EpsNext \/ UNCHANGED Eps!vars
  <2>1. PICK d \in Payments : Bridge!AddDeposit(d)
    BY <1>5, RecordAdds DEF PInv
  <2>2. Bridge!Next /\ UNCHANGED epsVars
    BY <1>5, <2>1 DEF Bridge!Next, Record
  <2> QED
    BY <1>4, <2>2
<1>6. CASE BridgeLoop \/ MineB2
  BY <1>4, <1>6, BridgeLoopSteps DEF BridgeLoop, MineB2, BridgeAlone
<1>7. CASE HandleResult
  BY <1>1, <1>2, <1>5, <1>7 DEF HandleResult, RecordErr, IndexerAlone, Panic
<1>8. CASE Crash \/ StartErr
  BY <1>1, <1>2, <1>8 DEF Crash, StartErr
<1>9. CASE Boot \/ LaunchBridge \/ LaunchEps \/ UNCHANGED vars
  BY <1>1, <1>9 DEF Boot, LaunchBridge, LaunchEps, Launch, vars
<1>10. CASE IndexerLoop \/ MineBitcoin
  BY <1>1, <1>10 DEF IndexerLoop, MineBitcoin, IndexerAlone
<1> QED
  BY <1>3, <1>6, <1>7, <1>8, <1>9, <1>10 DEF Next

\* All EpsService sees of the bridge is deposits that come to be paid, once, and
\* are not changed again (HandleDeposit's update, the query of eps_service.go).
THEOREM EpsIsInPlace == Spec => EpsInPlace
<1>1. Init => Eps!Init
  BY DEF Init
<1> QED
  BY <1>1, Invariance, EpsSeesStep, PTL DEF Spec, EpsInPlace

-----------------------------------------------------------------------------
(* The promises.                                                           *)

\* The abstract specifications, by their names in the two instances.
LEMMA SameLog ==
  /\ IP!Log!LogInit => Indexer!Log!LogInit
  /\ [IP!Log!LogNext]_(IP!Log!logVars) => [Indexer!Log!LogNext]_(Indexer!Log!logVars)
BY DEF IP!Log!LogInit, Indexer!Log!LogInit, IP!Log!LogNext, Indexer!Log!LogNext,
   IP!Log!logVars, Indexer!Log!logVars, IP!Log!Grow, Indexer!Log!Grow, IP!Log!Begin,
   Indexer!Log!Begin, IP!Log!Unset, Indexer!Log!Unset, IP!Log!Close, Indexer!Log!Close,
   IP!Log!ReportedBefore, Indexer!Log!ReportedBefore, IP!Log!Past, Indexer!Log!Past,
   IP!Log!Record, Indexer!Log!Record, IP!Log!Report, Indexer!Log!Report, IP!Owed,
   Indexer!Owed, IP!TxIndexes, Indexer!TxIndexes, IP!IsPayment, Indexer!IsPayment,
   IP!IsSelf, Indexer!IsSelf, IP!TxAt, Indexer!TxAt, IP!ListenOuts, Indexer!ListenOuts,
   IP!Froms, Indexer!Froms, IP!InScripts, Indexer!InScripts

LEMMA SamePayout ==
  /\ BP!Payout!PayoutInit => Bridge!Payout!PayoutInit
  /\ [BP!Payout!PayoutNext]_(BP!Payout!payoutVars) =>
       [Bridge!Payout!PayoutNext]_(Bridge!Payout!payoutVars)
BY DEF BP!Payout!PayoutInit, Bridge!Payout!PayoutInit, BP!Payout!PayoutNext,
   Bridge!Payout!PayoutNext, BP!Payout!payoutVars, Bridge!Payout!payoutVars,
   BP!Payout!Fresh, Bridge!Payout!Fresh, BP!Payout!HideOne, Bridge!Payout!HideOne,
   BP!Payout!Order, Bridge!Payout!Order, BP!Payout!Hide, Bridge!Payout!Hide,
   BP!Payout!Transfer, Bridge!Payout!Transfer, BP!Payout!Revert, Bridge!Payout!Revert,
   BP!Payout!Close, Bridge!Payout!Close, BP!Payout!Cardinality,
   Bridge!Payout!Cardinality, BP!Sent, Bridge!Sent, BP!Terminal, Bridge!Terminal,
   BP!DepositB2TxStatusSuccess, Bridge!DepositB2TxStatusSuccess,
   BP!DepositB2TxStatusWaitMinedFailed, Bridge!DepositB2TxStatusWaitMinedFailed,
   BP!DepositB2TxStatusTxHashExist, Bridge!DepositB2TxStatusTxHashExist,
   BP!DepositB2TxStatusWaitMinedStatusFailed,
   Bridge!DepositB2TxStatusWaitMinedStatusFailed,
   BP!DepositB2TxStatusContextDeadlineExceeded,
   Bridge!DepositB2TxStatusContextDeadlineExceeded

LEMMA SameOutbox ==
  /\ EP!Outbox!OutboxInit => Eps!Outbox!OutboxInit
  /\ [EP!Outbox!OutboxNext]_(EP!Outbox!outboxVars) =>
       [Eps!Outbox!OutboxNext]_(Eps!Outbox!outboxVars)
BY DEF EP!Outbox!OutboxInit, Eps!Outbox!OutboxInit, EP!Outbox!OutboxNext,
   Eps!Outbox!OutboxNext, EP!Outbox!outboxVars, Eps!Outbox!outboxVars,
   EP!Outbox!FallDue, Eps!Outbox!FallDue, EP!Outbox!Deliver, Eps!Outbox!Deliver,
   EP!Outbox!HideOne, Eps!Outbox!HideOne, EP!Outbox!Hide, Eps!Outbox!Hide,
   EP!Outbox!Close, Eps!Outbox!Close, EP!Marked, Eps!Marked, EP!EspStatusSuccess,
   Eps!EspStatusSuccess

\* The others leave the tables of the indexer alone, and so does its end.
LEMMA IndexerMoves ==
  ASSUME PInv, [Next]_vars
  PROVE  IP!Next \/ UNCHANGED <<chain, btcIndex, DOMAIN rows, failed>>
<1>1. ASSUME UNCHANGED indexerVars, DOMAIN rows' = DOMAIN rows
      PROVE  UNCHANGED <<chain, btcIndex, DOMAIN rows, failed>>
  BY <1>1 DEF indexerVars
<1>2. CASE IndexerLoop \/ MineBitcoin
  BY <1>2, IndexerLoopSteps, SameIndexer
<1>3. CASE HandleResult
  BY <1>3, IndexerLoopSteps, SameIndexer DEF HandleResult
<1>4. CASE StartErr
  BY <1>1, <1>4, IndexerLoopSteps, SameIndexer DEF StartErr, Exit
<1>5. CASE Crash
  BY <1>5 DEF Crash, Exit
<1>6. CASE BridgeLoop \/ MineB2
  BY <1>1, <1>6, BridgeLoopSteps DEF BridgeLoop, MineB2, BridgeAlone
<1>7. CASE Boot \/ LaunchBridge \/ LaunchEps \/ EpsLoop \/ UNCHANGED vars
  BY <1>1, <1>7 DEF Boot, LaunchBridge, LaunchEps, Launch, EpsLoop, vars
<1> QED
  BY <1>2, <1>3, <1>4, <1>5, <1>6, <1>7 DEF Next

LEMMA MarkKept == Spec => []IP!MarkInv
<1>1. Init => IP!MarkInv
  BY SameIndexer, IP!MarkStart, InstanceAssumptions DEF Init
<1>2. PInv /\ IP!MarkInv /\ [Next]_vars => IP!MarkInv'
  <2> SUFFICES ASSUME PInv, IP!MarkInv, [Next]_vars PROVE IP!MarkInv'
    OBVIOUS
  <2>1. CASE IP!Next
    BY <2>1, IP!MarkStep, InstanceAssumptions
  <2>2. CASE UNCHANGED <<chain, btcIndex, DOMAIN rows, failed>>
    BY <2>2 DEF IP!MarkInv, IP!Recorded
  <2> QED
    BY <2>1, <2>2, IndexerMoves
<1> QED
  BY <1>1, <1>2, Invariance, PTL DEF Spec

LEMMA LogKept == Spec => Indexer!ImplementsPaymentLog
<1>1. Init => Indexer!Log!LogInit
  BY SameIndexer, SameLog, IP!LogStart, InstanceAssumptions DEF Init
<1>2. PInv /\ IP!MarkInv /\ [Next]_vars => [Indexer!Log!LogNext]_(Indexer!Log!logVars)
  <2> SUFFICES ASSUME PInv, IP!MarkInv, [Next]_vars
               PROVE  [IP!Log!LogNext]_(IP!Log!logVars)
    BY SameLog
  <2>1. CASE IP!Next
    BY <2>1, IP!LogStep, InstanceAssumptions DEF PInv
  <2>2. CASE UNCHANGED <<chain, btcIndex, DOMAIN rows, failed>>
    BY <2>2, IP!QuietStep, InstanceAssumptions
  <2> QED
    BY <2>1, <2>2, IndexerMoves
<1> QED
  BY <1>1, <1>2, MarkKept, Invariance, PTL
     DEF Spec, Indexer!ImplementsPaymentLog, Indexer!Log!LogSpec

LEMMA PayoutKept == Spec => Bridge!ImplementsPayout
<1>1. Init => Bridge!Payout!PayoutInit
  BY SameBridge, SamePayout, BP!PayoutStart, InstanceAssumptions DEF Init
<1>2. PInv /\ [Next]_vars => [Bridge!Payout!PayoutNext]_(Bridge!Payout!payoutVars)
  <2> SUFFICES ASSUME PInv, [Next]_vars PROVE BP!PayoutStep
    BY SamePayout DEF BP!PayoutStep
  <2>1. CASE Bridge!Die
    BY <2>1, SameBridge, BP!DyingStep, InstanceAssumptions DEF PInv
  <2>2. CASE Bridge!Next \/ UNCHANGED Bridge!vars
    <3>1. [BP!Next]_(BP!vars)
      BY <2>2, SameBridge DEF Bridge!vars, BP!vars
    <3> QED
      BY <3>1, BP!Simulation, InstanceAssumptions DEF PInv
  <2> QED
    BY <2>1, <2>2, BridgeSees
<1> QED
  BY <1>1, <1>2, Invariance, PTL DEF Spec, Bridge!ImplementsPayout, Bridge!Payout!PayoutSpec

LEMMA OutboxKept == Spec => Eps!ImplementsOutbox
<1>1. Init => Eps!Outbox!OutboxInit
  BY SameEps, SameOutbox, EP!OutboxStart, InstanceAssumptions DEF Init
<1>2. PInv /\ [Next]_vars => [Eps!Outbox!OutboxNext]_(Eps!Outbox!outboxVars)
  <2> SUFFICES ASSUME PInv, [Next]_vars PROVE [EP!Outbox!OutboxNext]_(EP!Outbox!outboxVars)
    BY SameOutbox
  <2>1. ASSUME NEW d \in PaidByTransfer', Eps!Pay(d, rows'[d].b2Tx, rows'[d].eoaTx)
        PROVE  EP!Outbox!OutboxNext
    <3>1. d \in Payments
      <4>1. BP!TypeOK'
        BY Inductive DEF PInv, BP!IInv
      <4> QED
        BY <4>1 DEF BP!TypeOK, PaidByTransfer
    <3> DEFINE told == [x \in PaidByTransfer |-> [b2Tx |-> rows[x].b2Tx, eoaTx |-> rows[x].eoaTx]]
    <3>2. (DOMAIN told)' = DOMAIN told \cup {d} /\ UNCHANGED <<eps, accepted, unmarked>>
      <4>1. \E f : told' = [x \in DOMAIN told \cup {d} |-> f[x]]
        BY <2>1 DEF Eps!Pay
      <4>2. UNCHANGED <<eps, accepted, unmarked>>
        BY <2>1 DEF Eps!Pay, Eps!serverVars
      <4> QED
        BY <4>1, <4>2
    <3>3. EP!Outbox!FallDue(d)
      BY <3>2 DEF EP!Outbox!FallDue, EP!Marked
    <3> QED
      BY <3>1, <3>3 DEF EP!Outbox!OutboxNext
  <2>2. CASE EP!Fill
    BY <2>2, EP!FillMaps, InstanceAssumptions DEF PInv
  <2>3. CASE EP!Report
    BY <2>3, EP!ReportMaps, InstanceAssumptions DEF PInv
  <2>4. CASE EP!Die
    BY <2>4, EP!DieMaps, InstanceAssumptions DEF PInv
  <2>5. CASE UNCHANGED Eps!vars
    <3>1. UNCHANGED EP!vars
      BY <2>5 DEF Eps!vars, EP!vars, Eps!fillVars, EP!fillVars, Eps!reportVars,
         EP!reportVars, Eps!serverVars, EP!serverVars
    <3> QED
      BY <3>1, EP!QuietMaps, InstanceAssumptions
  <2> QED
    BY <2>1, <2>2, <2>3, <2>4, <2>5, EpsSeesStep, SameEps DEF EpsNext
<1> QED
  BY <1>1, <1>2, Invariance, PTL DEF Spec, Eps!ImplementsOutbox, Eps!Outbox!OutboxSpec

\* What each service promises by itself it keeps in the process they share: the
\* log of payments, the payout and the outbox are implemented by all of it, with
\* its launches, panics and crashes (start.go and the three OnStart).
THEOREM ServicesKeepPromises == Spec => PromisesKept
BY LogKept, PayoutKept, OutboxKept DEF PromisesKept

-----------------------------------------------------------------------------
(* Where credits and reports come from.                                    *)

LEMMA RowsAreOwed == PInv => \A d \in DOMAIN rows : IsOwed(d)
BY SameParser DEF PInv, IP!IInv, IP!OnlyOwedRecorded, IsOwed, IP!Owes, Indexer!Owes,
   IP!TxIndexes, Indexer!TxIndexes, IP!IsPayment, Indexer!IsPayment, IP!TxAt,
   Indexer!TxAt, IP!IsSelf, Indexer!IsSelf

\* A deposit without a row was not paid.
LEMMA UnrecordedIsUnpaid ==
  ASSUME PInv, NEW d \in Payments, d \notin DOMAIN rows
  PROVE  Bridge!Credits(d) = 0
<1>1. \A k, s : Bridge!TxsOf(d, k, s) = {}
  BY DEF PInv, BP!OnRecord, Bridge!TxsOf, Bridge!Sent
<1>2. Bridge!Cardinality({}) = 0
  BY FS_EmptySet DEF Bridge!Cardinality, Cardinality
<1> QED
  BY <1>1, <1>2 DEF Bridge!Credits

LEMMA CreditsFit == PInv => \A d \in Payments : Bridge!Credits(d) <= 1 + lost[d]
<1> SUFFICES ASSUME PInv, NEW d \in Payments PROVE Bridge!Credits(d) <= 1 + lost[d]
  OBVIOUS
<1>1. BP!Credits(d) <= 1 + lost[d]
  BY BP!CreditsFit, InstanceAssumptions DEF PInv, BP!CreditsBounded
<1>2. Bridge!Credits(d) = BP!Credits(d)
  BY DEF Bridge!Credits, BP!Credits, Bridge!TxsOf, BP!TxsOf, Bridge!Sent, BP!Sent,
         Bridge!Cardinality, BP!Cardinality
<1> QED
  BY <1>1, <1>2

\* Nothing is paid that was not paid to the bridge, and a bitcoin transaction is
\* paid once but for the transactions its row lost track of.
THEOREM OnlyOwedIsPaid == Spec => []CreditsAreOwed
<1>1. PInv => CreditsAreOwed
  <2> SUFFICES ASSUME PInv PROVE CreditsAreOwed
    OBVIOUS
  <2>1. \A i \in DOMAIN txs : IsOwed(txs[i].dep)
    BY RowsAreOwed DEF PInv, BP!OnRecord
  <2>2. ASSUME NEW d \in Payments, NEW e \in Payments, d # e,
               d.block = e.block, d.index = e.index, Bridge!Credits(d) > 0
        PROVE  Bridge!Credits(e) = 0
    <3>1. d \in DOMAIN rows
      BY <2>2, UnrecordedIsUnpaid
    <3>2. e \notin DOMAIN rows
      BY <2>2, <3>1 DEF PInv, OneRowPerTx
    <3> QED
      BY <3>2, UnrecordedIsUnpaid
  <2> QED
    BY <2>1, <2>2, CreditsFit DEF CreditsAreOwed
<1> QED
  BY <1>1, Invariance, PTL

\* What the EPS server was told is a payment whose deposit was reverted and whose
\* transfer was mined.
THEOREM OnlyTransfersAreReported == Spec => []ReportsAreTrue
<1>1. PInv => ReportsAreTrue
  <2> SUFFICES ASSUME PInv, NEW d \in Payments, accepted[d] > 0
               PROVE  /\ IsOwed(d)
                      /\ \E i, j \in DOMAIN txs : /\ Bridge!Mined(i, d, "deposit", "reverted")
                                                  /\ Bridge!Mined(j, d, "transfer", "ok")
    BY DEF ReportsAreTrue
  <2>1. d \in DOMAIN rows /\ rows[d].eoaStatus = Bridge!DepositB2EoaTxStatusSuccess
    <3>1. EP!PaidInv
      BY DEF PInv, EP!IInv
    <3>2. d \in PaidByTransfer
      BY <3>1 DEF EP!PaidInv
    <3> QED
      BY <3>2 DEF PaidByTransfer
  <2>2. BP!Truthful(d, rows[d])
    BY <2>1 DEF PInv, BP!IInv, BP!RowMatchesChain
  <2>3. /\ BP!Mined(rows[d].b2Tx, d, "deposit", "reverted")
        /\ BP!Mined(rows[d].eoaTx, d, "transfer", "ok")
    BY <2>1, <2>2 DEF BP!Truthful, Bridge!DepositB2EoaTxStatusSuccess,
       BP!DepositB2EoaTxStatusSuccess
  <2>4. /\ Bridge!Mined(rows[d].b2Tx, d, "deposit", "reverted")
        /\ Bridge!Mined(rows[d].eoaTx, d, "transfer", "ok")
        /\ rows[d].b2Tx \in DOMAIN txs /\ rows[d].eoaTx \in DOMAIN txs
    BY <2>3 DEF BP!Mined, Bridge!Mined, BP!TxsOf, Bridge!TxsOf, BP!Sent, Bridge!Sent
  <2> QED
    BY <2>1, <2>4, RowsAreOwed
<1> QED
  BY <1>1, Invariance, PTL

-----------------------------------------------------------------------------
(* The process.                                                            *)

\* A process that is down runs nothing.
Launched == /\ launched \subseteq {"indexer", "bridge", "eps"}
            /\ launched = {} => indexerPc = "down" /\ bridgePc = "idle"

LEMMA LaunchedStep == Launched /\ [Next]_vars => Launched'
<1> SUFFICES ASSUME Launched, [Next]_vars PROVE Launched'
  OBVIOUS
<1>1. ASSUME UNCHANGED launched, launched # {} PROVE Launched'
  BY <1>1 DEF Launched
<1>2. ASSUME UNCHANGED <<launched, indexerPc, bridgePc>> PROVE Launched'
  BY <1>2 DEF Launched
<1>3. ASSUME Exit, indexerPc' = "down" PROVE Launched'
  BY <1>3 DEF Exit, Bridge!Die, Launched
<1>4. CASE Boot \/ LaunchBridge \/ LaunchEps
  BY <1>4 DEF Boot, LaunchBridge, LaunchEps, Launch, Launched
<1>5. CASE Crash
  BY <1>3, <1>5 DEF Crash, Indexer!Stop
<1>6. CASE StartErr
  <2>1. indexerPc' = "down"
    BY <1>6 DEF StartErr, Indexer!LoadErr, Indexer!Stop, indexerVars
  <2>2. \/ Exit
        \/ launched' = launched \ {"indexer"} /\ launched' # {}
    BY <1>6 DEF StartErr
  <2> QED
    BY <1>3, <2>1, <2>2 DEF Launched
<1>7. CASE HandleResult
  <2>1. PICK r \in pending : "indexer" \in launched /\ (Record(r) \/ RecordErr(r) \/ Panic(r))
    BY <1>7 DEF HandleResult
  <2>2. CASE Panic(r)
    BY <1>3, <2>2 DEF Panic, Indexer!Panic, Indexer!Stop
  <2> QED
    BY <1>1, <2>1, <2>2 DEF Record, RecordErr, IndexerAlone
<1>8. CASE IndexerLoop \/ BridgeLoop \/ EpsLoop
  BY <1>1, <1>8 DEF IndexerLoop, BridgeLoop, EpsLoop, IndexerAlone, BridgeAlone
<1>9. CASE MineBitcoin \/ MineB2 \/ UNCHANGED vars
  BY <1>2, <1>9 DEF MineBitcoin, MineB2, IndexerAlone, BridgeAlone, bridgeVars, indexerVars,
     Indexer!MineBlock, Bridge!MineNext, Bridge!Mine, vars
<1> QED
  BY <1>4, <1>5, <1>6, <1>7, <1>8, <1>9 DEF Next

\* Every variable of every service keeps its type, and a process that is down
\* runs none of them.
THEOREM TypeCorrect == Spec => []TypeOK
<1>1. Init => Launched
  BY DEF Init, Launched, Indexer!Init, Bridge!Init
<1>2. PInv /\ Launched => TypeOK
  <2> SUFFICES ASSUME PInv, Launched PROVE TypeOK
    OBVIOUS
  <2>1. IP!TypeOK /\ BP!TypeOK /\ EP!TypeOK
    BY DEF PInv, IP!IInv, BP!IInv, EP!IInv
  <2>2. Indexer!TypeOK
    BY <2>1 DEF IP!TypeOK, Indexer!TypeOK, IP!NoRow, Indexer!NoRow, IP!Results, Indexer!Results
  <2>3. Bridge!TypeOK
    BY <2>1 DEF BP!TypeOK, Bridge!TypeOK, BP!Row, Bridge!Row, BP!B2Tx, Bridge!B2Tx
  <2>4. Eps!TypeOK
    BY <2>1 DEF EP!TypeOK, Eps!TypeOK, EP!EpsRow, Eps!EpsRow, EP!EspStatus, Eps!EspStatus,
       EP!EspStatusSuccess, Eps!EspStatusSuccess
  <2> QED
    BY <2>2, <2>3, <2>4 DEF TypeOK, Launched
<1> QED
  BY <1>1, <1>2, LaunchedStep, Invariance, PTL DEF Spec

=============================================================================
