---------------------- MODULE BridgeDepositRefinement ----------------------
(***************************************************************************)
(* BridgeDeposit implements DepositPayout, for all deposits, limits and    *)
(* faults: each step of HandleDeposit, of the chain and of a crash is a    *)
(* step of the payout or leaves it alone.                                  *)
(***************************************************************************)
EXTENDS BridgeDepositProofs

USE LimitsAssumption, DepositsAssumption
USE DEF DepositB2TxStatusSuccess, DepositB2TxStatusPending, DepositB2TxStatusFailed,
        DepositB2TxStatusWaitMinedFailed, DepositB2TxStatusTxHashExist,
        DepositB2TxStatusWaitMinedStatusFailed, DepositB2TxStatusInsufficientBalance,
        DepositB2TxStatusContextDeadlineExceeded,
        DepositB2TxStatusFromAccountGasInsufficient,
        DepositB2EoaTxStatusPending, NoTx

Orders == [d \in Deposits |-> Sent(d, "deposit")]
Transfers == [d \in Deposits |-> Sent(d, "transfer")]
Reverted == {i \in DOMAIN txs : txs[i].state = "reverted"}
Closed == {d \in DOMAIN rows : rows[d].status \in Terminal}

PayoutStep == [Payout!PayoutNext]_(Payout!payoutVars)

LEMMA SameCardinality == \A S : Payout!Cardinality(S) = Cardinality(S)
BY DEF Payout!Cardinality, Cardinality

\* The actions of the payout, said of what implements it.
LEMMA OrderAction ==
  ASSUME NEW d \in Deposits, d \notin Closed, Cardinality(Orders[d]) = lost[d],
         NEW t \in Orders'[d], Payout!Fresh(t), Orders' = [Orders EXCEPT ![d] = @ \cup {t}],
         lost' = lost \/ lost' = [lost EXCEPT ![d] = @ + 1],
         UNCHANGED <<Transfers, Reverted, Closed>>
  PROVE  Payout!Order(d)
BY SameCardinality DEF Payout!Order, Payout!HideOne, Orders, Transfers, Reverted, Closed

LEMMA HideAction ==
  ASSUME NEW d \in Deposits, d \notin Closed, Cardinality(Orders[d]) > lost[d],
         lost' = [lost EXCEPT ![d] = @ + 1],
         UNCHANGED <<Orders, Transfers, Reverted, Closed>>
  PROVE  Payout!Hide(d)
BY SameCardinality DEF Payout!Hide, Payout!HideOne, Orders, Transfers, Reverted, Closed

LEMMA TransferAction ==
  ASSUME NEW d \in Deposits, d \notin Closed,
         Cardinality(Transfers[d]) < Cardinality(Orders[d] \cap Reverted),
         NEW t \in Transfers'[d], Payout!Fresh(t),
         Transfers' = [Transfers EXCEPT ![d] = @ \cup {t}],
         UNCHANGED <<Orders, Reverted, lost, Closed>>
  PROVE  Payout!Transfer(d)
BY SameCardinality DEF Payout!Transfer, Orders, Transfers, Reverted, Closed

LEMMA CloseAction ==
  ASSUME NEW d, Closed' = Closed \cup {d}, UNCHANGED <<Orders, Transfers, Reverted, lost>>
  PROVE  Payout!Close(d)
BY DEF Payout!Close, Orders, Transfers, Reverted, Closed

LEMMA Quiet ==
  ASSUME UNCHANGED <<rows, txs, lost>>
  PROVE  UNCHANGED <<Orders, Transfers, Reverted, lost, Closed>>
BY DEF Orders, Transfers, Reverted, Closed, Sent

LEMMA QuietStep ==
  ASSUME UNCHANGED <<rows, txs, lost>>
  PROVE  PayoutStep
BY Quiet DEF PayoutStep, Payout!payoutVars, Orders, Transfers, Reverted, Closed

\* The deposit at hand may be paid for.
LEMMA HandledIsOpen ==
  ASSUME IInv, pc \notin {"idle", "batch"}
  PROVE  dep \in Deposits /\ dep \notin Closed
BY Handling DEF Closed, Retryable, Terminal

LEMMA FreshNonce ==
  ASSUME IInv
  PROVE  Payout!Fresh(Len(txs) + 1)
<1>1. Len(txs) + 1 \notin DOMAIN txs
  BY TxsType DEF IInv
<1> QED
  BY <1>1 DEF Payout!Fresh, Sent

\* What sending a transaction does to the payout.
LEMMA SubmittedPayout ==
  ASSUME IInv, pc \notin {"idle", "batch"}, UNCHANGED <<rows, batch, dep>>,
         NEW kind \in {"deposit", "transfer"}, Submit(kind)
  PROVE  /\ Reverted' = Reverted /\ Closed' = Closed
         /\ kind = "deposit" =>
              /\ Orders' = [Orders EXCEPT ![dep] = @ \cup {Len(txs) + 1}]
              /\ Transfers' = Transfers
         /\ kind = "transfer" =>
              /\ Transfers' = [Transfers EXCEPT ![dep] = @ \cup {Len(txs) + 1}]
              /\ Orders' = Orders
<1> DEFINE n == Len(txs) + 1
<1>1. dep \in Deposits
  BY Handling
<1>2. /\ n \notin DOMAIN txs /\ DOMAIN txs' = DOMAIN txs \cup {n}
      /\ \A i \in DOMAIN txs : txs'[i] = txs[i]
      /\ txs'[n] = [dep |-> dep, kind |-> kind, state |-> "sent"]
  BY <1>1, Submitted DEF IInv
<1> HIDE DEF n
<1>3. Closed' = Closed
  BY DEF Closed
<1>4. Reverted' = Reverted
  BY <1>2 DEF Reverted
<1>5. /\ \A d, k : d # dep \/ k # kind => Sent(d, k)' = Sent(d, k)
      /\ Sent(dep, kind)' = Sent(dep, kind) \cup {n}
  BY Submitting DEF n
<1>6. ASSUME NEW d \in Deposits
      PROVE  Sent(d, kind)' = IF d = dep THEN Sent(d, kind) \cup {n} ELSE Sent(d, kind)
  BY <1>5
<1>7. CASE kind = "deposit"
  <2>1. Transfers' = Transfers
    BY <1>5, <1>7 DEF Transfers
  <2>2. Orders' = [Orders EXCEPT ![dep] = @ \cup {n}]
    BY <1>1, <1>6, <1>7 DEF Orders
  <2> QED
    BY <1>3, <1>4, <1>7, <2>1, <2>2 DEF n
<1>8. CASE kind = "transfer"
  <2>1. Orders' = Orders
    BY <1>5, <1>8 DEF Orders
  <2>2. Transfers' = [Transfers EXCEPT ![dep] = @ \cup {n}]
    BY <1>1, <1>6, <1>8 DEF Transfers
  <2> QED
    BY <1>3, <1>4, <1>8, <2>1, <2>2 DEF n
<1> QED
  BY <1>7, <1>8

\* A deposit transaction is sent while none is known of.
LEMMA OrderStep ==
  ASSUME IInv, pc = "send", UNCHANGED <<rows, batch, dep>>, Submit("deposit"),
         lost' = lost \/ lost' = [lost EXCEPT ![dep] = @ + 1]
  PROVE  PayoutStep
<1>1. dep \in Deposits /\ dep \notin Closed
  BY HandledIsOpen
<1>2. ~Known(dep)
  <2>1. row = [rows[dep] EXCEPT !.eoaStatus = DepositB2EoaTxStatusPending]
    BY DEF IInv, CopyInv
  <2>2. row.b2Tx = rows[dep].b2Tx
    BY <2>1, Handling DEF Row
  <2> QED
    BY <2>2, Handling DEF Known
<1>3. Cardinality(Orders[dep]) = lost[dep]
  <2>1. Cardinality(Sent(dep, "deposit")) = lost[dep] + 0
    BY <1>1, <1>2 DEF IInv, SentInv
  <2>2. lost[dep] \in Nat
    BY <1>1 DEF IInv, TypeOK
  <2> QED
    BY <1>1, <2>1, <2>2 DEF Orders
<1>4. /\ Reverted' = Reverted /\ Closed' = Closed /\ Transfers' = Transfers
      /\ Orders' = [Orders EXCEPT ![dep] = @ \cup {Len(txs) + 1}]
  BY SubmittedPayout
<1>5. Len(txs) + 1 \in Orders'[dep]
  BY <1>1, <1>4 DEF Orders
<1>6. Payout!Order(dep)
  BY <1>1, <1>3, <1>4, <1>5, FreshNonce, OrderAction
<1> QED
  BY <1>1, <1>6 DEF PayoutStep, Payout!PayoutNext

\* A transfer is made for a deposit transaction that was reverted.
LEMMA TransferringStep ==
  ASSUME IInv, pc = "transfer", UNCHANGED <<rows, batch, dep, lost>>, Submit("transfer")
  PROVE  PayoutStep
<1>1. dep \in Deposits /\ dep \notin Closed
  BY HandledIsOpen
<1>2. Orders[dep] \cap Reverted = TxsOf(dep, "deposit", "reverted")
  BY <1>1 DEF Orders, Reverted, TxsOf, Sent
<1>3. Cardinality(Sent(dep, "transfer")) < Cardinality(TxsOf(dep, "deposit", "reverted"))
  <2> DEFINE T == TxsOf(dep, "deposit", "reverted")
  <2>1. row.b2Tx \in T /\ Uncompensated(dep) = {row.b2Tx}
    BY DEF IInv, CopyInv, Mined, Uncompensated
  <2>2. IsFiniteSet(T) /\ Cardinality(T) \in Nat /\ Cardinality(Sent(dep, "transfer")) \in Nat
    BY TxsOfFinite, SentFinite DEF IInv
  <2>3. Cardinality(T \ {row.b2Tx}) = Cardinality(T) - 1
    BY <2>1, <2>2, FS_RemoveElement
  <2>4. Cardinality(Sent(dep, "transfer")) <= Cardinality(T \ {row.b2Tx})
    BY <1>1, <2>1 DEF IInv, TransferInv
  <2> HIDE DEF T
  <2>5. Cardinality(Sent(dep, "transfer")) < Cardinality(T)
    BY <2>2, <2>3, <2>4
  <2> QED
    BY <2>5 DEF T
<1>4. /\ Reverted' = Reverted /\ Closed' = Closed /\ Orders' = Orders
      /\ Transfers' = [Transfers EXCEPT ![dep] = @ \cup {Len(txs) + 1}]
  BY SubmittedPayout
<1>5. Len(txs) + 1 \in Transfers'[dep]
  BY <1>1, <1>4 DEF Transfers
<1>6. Cardinality(Transfers[dep]) < Cardinality(Orders[dep] \cap Reverted)
  BY <1>1, <1>2, <1>3 DEF Transfers
<1>7. Payout!Transfer(dep)
  BY <1>1, <1>4, <1>5, <1>6, FreshNonce, TransferAction
<1> QED
  BY <1>1, <1>7 DEF PayoutStep, Payout!PayoutNext

\* A copy that knew of a transaction is forgotten.
LEMMA ForgettingStep ==
  ASSUME IInv, UNCHANGED <<rows, txs>>,
         \/ lost' = lost
         \/ pc \notin {"idle", "batch"} /\ lost' = [lost EXCEPT ![dep] = @ + Unrecorded]
  PROVE  PayoutStep
<1>1. CASE lost' = lost
  BY <1>1, QuietStep
<1>2. CASE pc \notin {"idle", "batch"} /\ lost' = [lost EXCEPT ![dep] = @ + Unrecorded]
  <2>1. /\ dep \in Deposits /\ dep \notin Closed /\ rows[dep].b2Tx = NoTx
        /\ lost \in [Deposits -> Nat] /\ InHand(dep)
    BY <1>2, Handling, HandledIsOpen DEF IInv, TypeOK
  <2>2. CASE row.b2Tx = NoTx
    <3>1. lost' = lost
      BY <1>2, <2>1, <2>2 DEF Unrecorded
    <3> QED
      BY <3>1, QuietStep
  <2>3. CASE row.b2Tx # NoTx
    <3>1. lost' = [lost EXCEPT ![dep] = @ + 1]
      BY <1>2, <2>1, <2>3 DEF Unrecorded
    <3>2. Cardinality(Sent(dep, "deposit")) = lost[dep] + 1
      BY <2>1, <2>3 DEF IInv, SentInv, Known
    <3>3. Cardinality(Orders[dep]) > lost[dep]
      BY <2>1, <3>2 DEF Orders
    <3>4. UNCHANGED <<Orders, Transfers, Reverted, Closed>>
      BY DEF Orders, Transfers, Reverted, Closed, Sent
    <3>5. Payout!Hide(dep)
      BY <2>1, <3>1, <3>3, <3>4, HideAction
    <3> QED
      BY <2>1, <3>5 DEF PayoutStep, Payout!PayoutNext
  <2> QED
    BY <2>2, <2>3
<1> QED
  BY <1>1, <1>2

LEMMA DyingStep == ASSUME IInv, Die PROVE PayoutStep
BY ForgettingStep DEF Die

LEMMA UpdatingStep == ASSUME IInv, Update PROVE PayoutStep
<1>1. /\ dep \in DOMAIN rows /\ dep \in Deposits /\ dep \notin Closed
      /\ rows' = [rows EXCEPT ![dep] = row] /\ UNCHANGED <<txs, lost>>
  BY Handling, HandledIsOpen DEF Update
<1>2. UNCHANGED <<Orders, Transfers, Reverted>>
  BY <1>1 DEF Orders, Transfers, Reverted, Sent
<1>3. Closed' = IF row.status \in Terminal THEN Closed \cup {dep} ELSE Closed
  BY <1>1 DEF Closed
<1>4. CASE row.status \in Terminal
  <2>1. PICK d \in Deposits : d = dep
    BY <1>1
  <2>2. Closed' = Closed \cup {d} /\ UNCHANGED <<Orders, Transfers, Reverted, lost>>
    BY <1>1, <1>2, <1>3, <1>4, <2>1
  <2>3. Payout!Close(d)
    BY <2>2, CloseAction
  <2> QED
    BY <2>3 DEF PayoutStep, Payout!PayoutNext
<1>5. CASE row.status \notin Terminal
  <2>1. UNCHANGED <<Orders, Transfers, Reverted, lost, Closed>>
    BY <1>1, <1>2, <1>3, <1>5
  <2> QED
    BY <2>1 DEF PayoutStep, Payout!payoutVars, Orders, Transfers, Reverted, Closed
<1> QED
  BY <1>4, <1>5

LEMMA AddingStep == ASSUME IInv, NEW d \in Deposits, AddDeposit(d) PROVE PayoutStep
<1>1. Closed' = Closed
  BY DEF AddDeposit, Closed, NewRow, Terminal
<1>2. UNCHANGED <<Orders, Transfers, Reverted, lost>>
  BY DEF AddDeposit, Orders, Transfers, Reverted, Sent
<1> QED
  BY <1>1, <1>2 DEF PayoutStep, Payout!payoutVars, Orders, Transfers, Reverted, Closed

LEMMA MiningStep == ASSUME IInv, NEW i \in DOMAIN txs, Mine(i) PROVE PayoutStep
<1>1. PICK o \in {"ok", "reverted"} : txs' = [txs EXCEPT ![i].state = o]
  BY DEF Mine, Outcomes
<1>2. /\ UNCHANGED <<rows, lost>> /\ txs[i].state = "sent" /\ txs[i] \in B2Tx
      /\ DOMAIN txs' = DOMAIN txs
      /\ \A j \in DOMAIN txs : j # i => txs'[j] = txs[j]
  BY <1>1, TxsType DEF Mine, IInv
<1>3. txs'[i].state = o
  BY <1>1, <1>2 DEF B2Tx
<1>4. /\ Closed' = Closed /\ Orders' = Orders /\ Transfers' = Transfers
  BY <1>2, MinedSets DEF Closed, Orders, Transfers, IInv
<1>5. CASE o = "ok"
  <2>1. Reverted' = Reverted
    BY <1>2, <1>3, <1>5 DEF Reverted
  <2> QED
    BY <1>2, <1>4, <2>1
       DEF PayoutStep, Payout!payoutVars, Orders, Transfers, Reverted, Closed
<1>6. CASE o = "reverted"
  <2>1. Reverted' = Reverted \cup {i}
    BY <1>2, <1>3, <1>6 DEF Reverted
  <2>2. ~Payout!Fresh(i)
    BY <1>2 DEF Payout!Fresh, Sent, B2Tx
  <2>3. Payout!Revert
    BY <1>2, <1>4, <2>1, <2>2 DEF Payout!Revert, Orders, Transfers, Reverted, Closed
  <2> QED
    BY <2>3 DEF PayoutStep, Payout!PayoutNext
<1> QED
  BY <1>5, <1>6

LEMMA Simulation == ASSUME IInv, [Next]_vars PROVE PayoutStep
<1>1. ASSUME NEW d \in Deposits, AddDeposit(d) PROVE PayoutStep
  BY <1>1, AddingStep
<1>2. CASE MineNext
  BY <1>2, MiningStep DEF MineNext
<1>3. CASE \/ Query \/ QueryErr \/ BatchDone \/ (\E d \in batch : Take(d))
           \/ SendRefused \/ WaitB2 \/ WaitEoa
  BY <1>3, QuietStep DEF Query, QueryErr, BatchDone, Take, SendRefused, WaitB2,
                         WaitEoa, Goto
<1>4. CASE Send
  BY <1>4, OrderStep DEF Send, Goto
<1>5. CASE SendErr
  BY <1>5, OrderStep, QuietStep DEF SendErr, Goto, LoseAnswer
<1>6. CASE Transfer
  BY <1>6, TransferringStep DEF Transfer, Goto
<1>7. CASE TransferErr
  BY <1>7, TransferringStep, QuietStep DEF TransferErr, Goto
<1>8. CASE Update
  BY <1>8, UpdatingStep
<1>9. CASE UpdateErr
  BY <1>9, ForgettingStep DEF UpdateErr
<1>10. CASE Crash
  BY <1>10, DyingStep DEF Crash
<1>11. CASE UNCHANGED vars
  BY <1>11, QuietStep DEF vars
<1> QED
  BY <1>1, <1>2, <1>3, <1>4, <1>5, <1>6, <1>7, <1>8, <1>9, <1>10, <1>11
     DEF Next, HandleDeposit

LEMMA PayoutStart == Init => Payout!PayoutInit
BY DEF Init, Payout!PayoutInit, Sent

\* Batches, statuses, retries, timeouts, lost answers and crashes come to this:
\* an order while none is known, a transfer for an order that was reverted,
\* nothing more once the deposit is closed.
THEOREM Refinement == Spec => ImplementsPayout
<1>1. IInv /\ [Next]_vars => [Payout!PayoutNext]_(Payout!payoutVars)
  BY Simulation DEF PayoutStep
<1> QED
  BY PayoutStart, <1>1, Invariance, PTL DEF Spec, ImplementsPayout, Payout!PayoutSpec
=============================================================================
