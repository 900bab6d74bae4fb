------------------------------- MODULE Pipeline -------------------------------
(***************************************************************************)
(* One process of b2-indexer with all of its services, over the whole life *)
(* of a payment: the indexer records it in deposit_history, the bridge     *)
(* pays it on the B2 chain, and EpsService reports the ones paid by a      *)
(* transfer.  The services share the tables and the process: Start         *)
(* (internal/server/start.go) launches them one after the other, and what  *)
(* kills one of them by a panic, a signal or a crash kills all.            *)
(*                                                                         *)
(* A row of deposit_history is the indexer's by its key, the bridge's by   *)
(* its statuses, and one EpsService looks for by its eoa status.  The      *)
(* tables are there; making them is in Server.                             *)
(***************************************************************************)
EXTENDS BlockParser, FiniteSets

CONSTANTS Blocks, MaxHeight,                        \* as in IndexerService
          DepositRetry, SmallintMax, BatchLimit,    \* as in BridgeDeposit
          MaxFaults,                                \* bound: faults, of all kinds
          MaxFailed                                 \* bound: payments logged as failed

ASSUME BlocksAssumption == \A b \in Blocks : IsBlock(b)
ASSUME BoundsAssumption == /\ MaxHeight \in Nat
                            /\ MaxFaults \in Nat /\ MaxFailed \in Nat
ASSUME LimitsAssumption ==
  /\ DepositRetry \in Nat \ {0} /\ SmallintMax \in Nat /\ DepositRetry <= SmallintMax
  /\ BatchLimit \in Nat \ {0}

VARIABLES
  launched,      \* the services of the process; none: it is down
  chain, btcIndex, indexerPc, latestBlock, currentBlock, currentTxIndex, height,
  pending, origin, failed, crashes,                        \* IndexerService
  rows, txs, bridgePc, batch, dep, row, lost, sendFaults,  \* BridgeDeposit
  eps, fillPc, toFill, filling, reportPc, toReport, reporting,
  accepted, unmarked, epsFaults                            \* EpsService

indexerVars == <<chain, btcIndex, indexerPc, latestBlock, currentBlock, currentTxIndex,
                 height, pending, origin, failed, crashes>>
bridgeVars  == <<txs, bridgePc, batch, dep, row, lost, sendFaults>>
epsVars     == <<eps, fillPc, toFill, filling, reportPc, toReport, reporting,
                 accepted, unmarked, epsFaults>>
vars == <<launched, rows, indexerVars, bridgeVars, epsVars>>

Indexer == INSTANCE IndexerService WITH
             deposits <- DOMAIN rows, pc <- indexerPc, MaxCrashes <- MaxFaults

\* The rows deposit_history can come to have.
MayBeSaved(b, r) == LET tx == b[r.index + 1] IN ~Indexer!IsSelf(tx) /\ ~Indexer!NoFrom(tx)

Payments ==
  UNION {{[block |-> h, index |-> r.index, out |-> r.out] :
            r \in {q \in ParseResults(b, 0) : MayBeSaved(b, q)}} :
           h \in 1 .. MaxHeight, b \in Blocks}

ASSUME PaymentsAssumption == IsFiniteSet(Payments) /\ Payments # {}

Bridge == INSTANCE BridgeDeposit WITH
            Deposits <- Payments, pc <- bridgePc, faults <- sendFaults

\* The query of EpsService: eoa status success.
PaidByTransfer == {d \in DOMAIN rows :
                     rows[d].eoaStatus = Bridge!DepositB2EoaTxStatusSuccess}

Eps == INSTANCE EpsService WITH
         Deposits <- Payments, faults <- epsFaults,
         paid <- [d \in PaidByTransfer |-> [b2Tx |-> rows[d].b2Tx, eoaTx |-> rows[d].eoaTx]]

TypeOK == /\ launched \subseteq {"indexer", "bridge", "eps"}
          /\ launched = {} => indexerPc = "down" /\ bridgePc = "idle"
          /\ Indexer!TypeOK /\ Bridge!TypeOK /\ Eps!TypeOK

Somewhere == CHOOSE d \in Payments : TRUE

Init == /\ launched = {}
        /\ dep = Somewhere /\ filling = Somewhere
        /\ Bridge!Init /\ Indexer!Init /\ Eps!Init

-----------------------------------------------------------------------------
(* The process.                                                            *)

\* Start with indexer and eps enabled: a service, five seconds, the next one.
Launch(s) == launched' = launched \cup {s} /\ UNCHANGED <<rows, indexerVars, bridgeVars, epsVars>>

Boot         == launched = {} /\ Launch("indexer")
LaunchBridge == launched # {} /\ "bridge" \notin launched /\ Launch("bridge")
LaunchEps    == "bridge" \in launched /\ "eps" \notin launched /\ Launch("eps")

BridgeLives ==  \* mutant: the process is said to end, the bridge goes on
  launched' = {} /\ UNCHANGED <<rows, bridgeVars, epsFaults>> /\ Eps!Die
\* What of the bridge and of EpsService ends with the process.
Exit == /\ launched' = {}
        /\ UNCHANGED rows /\ Bridge!Die /\ Eps!Die
        /\ UNCHANGED <<sendFaults, epsFaults>>

\* A signal, or the machine: amidst whatever the services do.
Crash == /\ launched # {}
         /\ crashes' = crashes + 1
         /\ Indexer!Stop
         /\ UNCHANGED <<chain, btcIndex, origin, failed>>
         /\ Exit

-----------------------------------------------------------------------------
(* The services.                                                           *)

IndexerAlone == UNCHANGED <<launched, rows, bridgeVars, epsVars>>

IndexerLoop ==
  /\ "indexer" \in launched
  /\ IndexerAlone
  /\ \/ Indexer!Start \/ Indexer!LoadRow \/ Indexer!CreateRow
     \/ Indexer!Refresh \/ Indexer!RefreshErr \/ Indexer!Advance
     \/ Indexer!Parse \/ Indexer!ParseErr
     \/ Indexer!FinishBlock \/ Indexer!FinishBlockErr
     \/ \E r \in pending : Indexer!SkipSelf(r)

\* OnStart returns an error.  While Start waits for the indexer it ends the
\* process; later nobody reads it, and the others go on without the indexer.
StartErr ==
  /\ "indexer" \in launched
  /\ IF launched = {"indexer"}
       THEN Exit
       ELSE /\ launched' = launched \ {"indexer"}
            /\ UNCHANGED <<rows, bridgeVars, epsVars>>
  /\ \/ Indexer!LoadErr
     \/ indexerPc = "down" /\ UNCHANGED indexerVars

\* The table with the row the indexer writes: all but its key is the default.
NewRows(r) ==
  LET d == [block |-> height, index |-> r.index, out |-> r.out]
  IN  [x \in DOMAIN rows \cup {d} |-> IF x = d THEN Bridge!NewRow ELSE rows[x]]

\* It is there, whether or not the answer to the commit arrives.
Record(r) ==
  /\ rows' = NewRows(r)
  /\ Indexer!Insert(r)
  /\ Indexer!Save(r) \/ Indexer!SaveErr(r)
  /\ UNCHANGED <<launched, bridgeVars, epsVars>>

\* It is not.
RecordErr(r) == IndexerAlone /\ Indexer!SaveErr(r)

\* A panic in the goroutine of the indexer ends the process.
Panic(r) == Exit /\ Indexer!Panic(r)

HandleResult == "indexer" \in launched /\ \E r \in pending : Record(r) \/ RecordErr(r) \/ Panic(r)

BridgeAlone == UNCHANGED <<launched, indexerVars, epsVars>>

BridgeLoop == /\ "bridge" \in launched
              /\ BridgeAlone
              /\ \/ Bridge!Query \/ Bridge!QueryErr \/ Bridge!BatchDone
                 \/ \E d \in batch : Bridge!Take(d)
                 \/ Bridge!HandleDeposit

EpsLoop == /\ "eps" \in launched
           /\ UNCHANGED <<launched, rows, indexerVars, bridgeVars>>
           /\ Eps!Fill \/ Eps!Report

\* The two chains.
MineBitcoin == IndexerAlone /\ Indexer!MineBlock
MineB2      == Bridge!MineNext /\ BridgeAlone

-----------------------------------------------------------------------------
Next == /\ \/ Boot \/ LaunchBridge \/ LaunchEps \/ Crash \/ StartErr
           \/ IndexerLoop \/ HandleResult \/ BridgeLoop \/ EpsLoop
           \/ MineBitcoin \/ MineB2
        /\ crashes' + sendFaults' + epsFaults' <= MaxFaults
        /\ Cardinality(failed') <= MaxFailed

Spec == Init /\ [][Next]_vars

-----------------------------------------------------------------------------
(* Properties.                                                             *)

\* The bitcoin chain owes deposit d to its sender.
IsOwed(d) == /\ Indexer!Owes(d.block, d.index)
             /\ d.out \in ListenOuts(Indexer!TxAt(d.block, d.index))
             /\ ~Indexer!IsSelf(Indexer!TxAt(d.block, d.index))

\* Nothing is paid on the B2 chain, by contract or by transfer, that was not
\* paid to the bridge on the bitcoin chain; and one bitcoin transaction is paid
\* once, and once more at most for every transaction its rows lost track of.
\* Restarts of the indexer amidst a payment, a panic of it included, keep this.
CreditsAreOwed ==
  /\ \A i \in DOMAIN txs : IsOwed(txs[i].dep)
  /\ \A h \in DOMAIN chain : \A k \in Indexer!TxIndexes(h) :
       LET ofTx == {d \in Payments : d.block = h /\ d.index = k}
       IN  \A d \in ofTx : Bridge!Credits(d) > 0 =>
             /\ Bridge!Credits(d) <= 1 + lost[d]
             /\ \A e \in ofTx \ {d} : Bridge!Credits(e) = 0

\* What the EPS server was told, across three services and their restarts, is
\* a payment to the bridge whose deposit was reverted and whose transfer was
\* mined: no status of a row, its defaults included, lets another one through.
ReportsAreTrue ==
  \A d \in Payments : accepted[d] > 0 =>
    /\ IsOwed(d)
    /\ \E i, j \in DOMAIN txs : /\ Bridge!Mined(i, d, "deposit", "reverted")
                                /\ Bridge!Mined(j, d, "transfer", "ok")

\* The services keep out of each other's way: all the bridge sees of the
\* indexer is rows that are added, never one it has had before, and the end of
\* the process, whoever caused it.
BridgeInPlace == Bridge!Init /\ [][Bridge!Next \/ Bridge!Die]_(Bridge!vars)

\* All EpsService sees of the bridge is deposits that come to be paid: none is
\* paid twice, or taken back, or changed once EpsService may have read it.
EpsNext == \/ \E d \in PaidByTransfer' : Eps!Pay(d, rows'[d].b2Tx, rows'[d].eoaTx)
           \/ Eps!Fill \/ Eps!Report \/ Eps!Die
EpsInPlace == Eps!Init /\ [][EpsNext]_(Eps!vars)

\* Each service keeps its promise among the others: the position of the indexer
\* moves with its records, the bridge sends a second time only what was hidden
\* from it, and so does EpsService, whichever of them ended the process and when.
PromisesKept == /\ Indexer!ImplementsPaymentLog
                /\ Bridge!ImplementsPayout
                /\ Eps!ImplementsOutbox
=============================================================================
