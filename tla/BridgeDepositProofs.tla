------------------------ MODULE BridgeDepositProofs ------------------------
(* The safety of BridgeDeposit for any deposits, limits and faults.        *)
EXTENDS BridgeDeposit, FiniteSetTheorems, SequenceTheorems, TLAPS

USE LimitsAssumption, DepositsAssumption
USE DEF DepositB2TxStatusSuccess, DepositB2TxStatusPending, DepositB2TxStatusFailed,
        DepositB2TxStatusWaitMinedFailed, DepositB2TxStatusTxHashExist,
        DepositB2TxStatusWaitMinedStatusFailed, DepositB2TxStatusInsufficientBalance,
        DepositB2TxStatusContextDeadlineExceeded,
        DepositB2TxStatusFromAccountGasInsufficient,
        DepositB2EoaTxStatusSuccess, DepositB2EoaTxStatusPending,
        DepositB2EoaTxStatusFailed, DepositB2EoaTxStatusWaitMinedFailed,
        DepositB2EoaTxStatusContextDeadlineExceeded, NoTx

-----------------------------------------------------------------------------
(* The transactions of the bridge account.                                 *)

LEMMA TxsType ==
  ASSUME TypeOK
  PROVE  /\ txs \in Seq(B2Tx) /\ Len(txs) \in Nat /\ DOMAIN txs = 1 .. Len(txs)
         /\ \A i \in DOMAIN txs : txs[i] \in B2Tx
BY DEF TypeOK

LEMMA SentFinite ==
  ASSUME TypeOK, NEW d, NEW kind
  PROVE  /\ IsFiniteSet(Sent(d, kind)) /\ Cardinality(Sent(d, kind)) \in Nat
         /\ Sent(d, kind) \subseteq DOMAIN txs
<1>1. IsFiniteSet(DOMAIN txs)
  BY TxsType, FS_Interval
<1>2. Sent(d, kind) \subseteq DOMAIN txs
  BY DEF Sent
<1> QED
  BY <1>1, <1>2, FS_Subset, FS_CardinalityType

\* What a new transaction changes: it has the next nonce and no outcome yet.
LEMMA Submitted ==
  ASSUME TypeOK, dep \in Deposits, NEW kind \in {"deposit", "transfer"}, Submit(kind)
  PROVE  LET n == Len(txs) + 1
         IN  /\ n \in Nat \ {NoTx} /\ n \notin DOMAIN txs
             /\ txs' \in Seq(B2Tx) /\ DOMAIN txs' = DOMAIN txs \cup {n}
             /\ \A i \in DOMAIN txs : txs'[i] = txs[i]
             /\ txs'[n] = [dep |-> dep, kind |-> kind, state |-> "sent"]
<1> DEFINE t == [dep |-> dep, kind |-> kind, state |-> "sent"]
<1>1. t \in B2Tx
  BY DEF B2Tx
<1>2. txs' = Append(txs, t)
  BY DEF Submit
<1> HIDE DEF t
<1>3. /\ txs' \in Seq(B2Tx) /\ Len(txs') = Len(txs) + 1
      /\ \A i \in 1 .. Len(txs) : txs'[i] = txs[i]
      /\ txs'[Len(txs) + 1] = t
  BY <1>1, <1>2, TxsType
<1> QED
  BY <1>3, TxsType DEF t

LEMMA SubmittedSets ==
  ASSUME TypeOK, dep \in Deposits, dep' = dep,
         NEW kind \in {"deposit", "transfer"}, Submit(kind)
  PROVE  /\ Sent(dep, kind)' = Sent(dep, kind) \cup {Len(txs) + 1}
         /\ Len(txs) + 1 \notin Sent(dep, kind)
         /\ \A d, k : d # dep \/ k # kind => Sent(d, k)' = Sent(d, k)
         /\ \A d, k : \A s \in {"ok", "reverted"} : TxsOf(d, k, s)' = TxsOf(d, k, s)
         /\ \A d : Processed(d) <=> Processed(d)'
<1> DEFINE n == Len(txs) + 1
<1>1. /\ n \notin DOMAIN txs /\ DOMAIN txs' = DOMAIN txs \cup {n}
      /\ \A i \in DOMAIN txs : txs'[i] = txs[i]
      /\ txs'[n] = [dep |-> dep, kind |-> kind, state |-> "sent"]
  BY Submitted
<1> HIDE DEF n
<1>2. txs'[n].dep = dep /\ txs'[n].kind = kind /\ txs'[n].state = "sent"
  BY <1>1
<1>3. n \notin Sent(dep, kind) /\ Sent(dep, kind)' = Sent(dep, kind) \cup {n}
  <2>1. \A d, k : Sent(d, k) \subseteq DOMAIN txs /\ Sent(d, k)' \subseteq DOMAIN txs'
    BY DEF Sent
  <2>2. \A i \in DOMAIN txs : i \in Sent(dep, kind)' <=> i \in Sent(dep, kind)
    BY <1>1 DEF Sent
  <2>3. n \in Sent(dep, kind)'
    BY <1>1, <1>2 DEF Sent
  <2> QED
    BY <1>1, <2>1, <2>2, <2>3
<1>6. ASSUME NEW d, NEW k, d # dep \/ k # kind
      PROVE  Sent(d, k)' = Sent(d, k)
  <2>1. \A i \in DOMAIN txs : i \in Sent(d, k)' <=> i \in Sent(d, k)
    BY <1>1 DEF Sent
  <2>2. n \notin Sent(d, k)'
    BY <1>2, <1>6 DEF Sent
  <2> QED
    BY <1>1, <2>1, <2>2 DEF Sent
<1>4. \A d, k : \A s \in {"ok", "reverted"} : TxsOf(d, k, s)' = TxsOf(d, k, s)
  BY <1>1, <1>2 DEF Sent, TxsOf
<1>5. \A d : Processed(d) <=> Processed(d)'
  BY <1>1, <1>2 DEF Processed
<1> QED
  BY <1>3, <1>4, <1>5, <1>6 DEF n

\* What mining changes: a transaction without an outcome gets one.
LEMMA MinedSets ==
  ASSUME TypeOK, NEW i \in DOMAIN txs, Mine(i)
  PROVE  /\ txs' \in Seq(B2Tx) /\ DOMAIN txs' = DOMAIN txs
         /\ \A d, k : Sent(d, k)' = Sent(d, k)
         /\ \A d, k : \A s \in {"ok", "reverted"} : TxsOf(d, k, s) \subseteq TxsOf(d, k, s)'
         /\ \A d : Processed(d) => Processed(d)'
<1>1. PICK o \in {"ok", "reverted"} : txs' = [txs EXCEPT ![i].state = o]
  BY DEF Mine, Outcomes
<1>2. \A j \in DOMAIN txs : txs[j] \in B2Tx
  BY TxsType
<1>3. DOMAIN txs' = DOMAIN txs
  BY <1>1
<1>4. /\ txs[i].state = "sent"
      /\ txs'[i].state = o /\ txs'[i].dep = txs[i].dep /\ txs'[i].kind = txs[i].kind
      /\ \A j \in DOMAIN txs : j # i => txs'[j] = txs[j]
  BY <1>1, <1>2 DEF Mine, B2Tx
<1>5. txs' \in Seq(B2Tx)
  BY <1>1, <1>2, TxsType DEF B2Tx
<1>6. \A d, k : Sent(d, k)' = Sent(d, k)
  BY <1>3, <1>4 DEF Sent
<1>7. \A d, k : \A s \in {"ok", "reverted"} : TxsOf(d, k, s) \subseteq TxsOf(d, k, s)'
  BY <1>3, <1>4, <1>6 DEF Sent, TxsOf
<1>8. \A d : Processed(d) => Processed(d)'
  BY <1>3, <1>4 DEF Processed
<1> QED
  BY <1>3, <1>5, <1>6, <1>7, <1>8

\* What is true of the chain stays true.
LEMMA TruthStays ==
  ASSUME \A d, k : \A s \in {"ok", "reverted"} : TxsOf(d, k, s) \subseteq TxsOf(d, k, s)',
         \A d : Processed(d) => Processed(d)'
  PROVE  /\ \A d, r : Truthful(d, r) => Truthful(d, r)'
         /\ \A d, k, i : \A s \in {"ok", "reverted"} : Mined(i, d, k, s) => Mined(i, d, k, s)'
BY DEF Truthful, Mined

-----------------------------------------------------------------------------
(* What the steps have in common.                                          *)

LEMMA Initially == Init => IInv
<1> SUFFICES ASSUME Init PROVE IInv
  OBVIOUS
<1> USE DEF Init, NewRow
<1>1. \A d, k : Sent(d, k) = {}
  BY DEF Sent
<1>2. TypeOK
  BY DEF TypeOK, Row
<1>3. RowMatchesChain /\ RetryDiscipline /\ RowInv /\ BatchInv /\ CopyInv
  BY DEF RowMatchesChain, RetryDiscipline, RowInv, BatchInv, CopyInv
<1>0. Cardinality({}) = 0
  BY FS_EmptySet
<1>4. SentInv
  <2>1. \A d \in Deposits : ~Known(d) /\ lost[d] = 0
    BY DEF Known, InHand
  <2>2. \A d : Cardinality(Sent(d, "deposit")) = 0
    BY <1>0, <1>1, Zenon
  <2> QED
    BY <2>1, <2>2 DEF SentInv
<1>5. \A d : TxsOf(d, "deposit", "reverted") \ Uncompensated(d) = {}
  BY <1>1 DEF TxsOf
<1>6. TransferInv
  <2>1. \A d : Cardinality(Sent(d, "transfer")) = 0
    BY <1>0, <1>1, Zenon
  <2>2. \A d : Cardinality(TxsOf(d, "deposit", "reverted") \ Uncompensated(d)) = 0
    BY <1>0, <1>5, Zenon
  <2> QED
    BY <2>1, <2>2 DEF TransferInv
<1> QED
  BY <1>2, <1>3, <1>4, <1>6 DEF IInv

\* While a deposit is handled its row is in the queue and knows of nothing.
LEMMA Handling ==
  ASSUME IInv, pc \notin {"idle", "batch"}
  PROVE  /\ dep \in DOMAIN rows /\ dep \in Deposits /\ dep \notin batch
         /\ rows[dep] \in Row /\ rows[dep].b2Tx = NoTx /\ rows[dep].status \in Retryable
         /\ rows[dep].retry <= SmallintMax
         /\ RetryFits(rows[dep])
         /\ InHand(dep) /\ \A d : d # dep => ~InHand(d)
BY DEF IInv, TypeOK, BatchInv, RowInv, QueuedIsOpen, ToHandle, InHand, RetryDiscipline

\* What one more truth about the chain does to the rows: nothing.
LEMMA RowsStay ==
  ASSUME IInv, rows' = rows,
         \A d, k : \A s \in {"ok", "reverted"} : TxsOf(d, k, s) \subseteq TxsOf(d, k, s)',
         \A d : Processed(d) => Processed(d)'
  PROVE  /\ RowMatchesChain' /\ RetryDiscipline' /\ RowInv' /\ ToHandle' = ToHandle
         /\ \A d, r : Truthful(d, r) => Truthful(d, r)'
<1>1. \A d, r : Truthful(d, r) => Truthful(d, r)'
  BY TruthStays
<1>2. RowMatchesChain'
  BY <1>1 DEF IInv, RowMatchesChain
<1>3. RetryDiscipline' /\ RowInv' /\ ToHandle' = ToHandle
  BY DEF IInv, RetryDiscipline, RetryFits, RowInv, QueuedIsOpen, ToHandle
<1> QED
  BY <1>1, <1>2, <1>3

LEMMA ChainStays ==
  ASSUME txs' = txs
  PROVE  /\ \A d, k : Sent(d, k)' = Sent(d, k)
         /\ \A d, k, s : TxsOf(d, k, s)' = TxsOf(d, k, s)
         /\ \A d : Processed(d)' <=> Processed(d)
BY DEF Sent, TxsOf, Processed

\* The transactions are accounted for while none is sent.
LEMMA AccountsStay ==
  ASSUME IInv,
         \A d, k : Sent(d, k)' = Sent(d, k),
         \A d, k : \A s \in {"ok", "reverted"} : TxsOf(d, k, s) \subseteq TxsOf(d, k, s)',
         DOMAIN txs' = DOMAIN txs,
         \A d \in Deposits : lost'[d] + (IF Known(d) THEN 1 ELSE 0)'
                             = lost[d] + (IF Known(d) THEN 1 ELSE 0),
         \A d \in Deposits : Uncompensated(d)' \subseteq Uncompensated(d)
  PROVE  SentInv' /\ TransferInv'
<1>1. SentInv'
  BY DEF IInv, SentInv
<1>2. ASSUME NEW d \in Deposits
      PROVE  Cardinality(Sent(d, "transfer")')
               <= Cardinality(TxsOf(d, "deposit", "reverted")' \ Uncompensated(d)')
  <2> DEFINE open == TxsOf(d, "deposit", "reverted") \ Uncompensated(d)
  <2>1. open \subseteq TxsOf(d, "deposit", "reverted")' \ Uncompensated(d)'
    OBVIOUS
  <2>2. IsFiniteSet(DOMAIN txs)
    BY TxsType, FS_Interval DEF IInv
  <2>3. TxsOf(d, "deposit", "reverted")' \subseteq DOMAIN txs
    BY DEF TxsOf, Sent
  <2>4. IsFiniteSet(TxsOf(d, "deposit", "reverted")' \ Uncompensated(d)')
    BY <2>2, <2>3, FS_Subset
  <2>5. /\ Cardinality(open) \in Nat
        /\ Cardinality(TxsOf(d, "deposit", "reverted")' \ Uncompensated(d)') \in Nat
        /\ Cardinality(open)
             <= Cardinality(TxsOf(d, "deposit", "reverted")' \ Uncompensated(d)')
    BY <2>1, <2>4, FS_Subset, FS_CardinalityType
  <2>6. Cardinality(Sent(d, "transfer")) \in Nat
    BY SentFinite DEF IInv
  <2>7. Cardinality(Sent(d, "transfer")) <= Cardinality(open)
    BY DEF IInv, TransferInv
  <2> HIDE DEF open
  <2> QED
    BY <2>5, <2>6, <2>7
<1>3. TransferInv'
  BY <1>2 DEF TransferInv
<1> QED
  BY <1>1, <1>3

-----------------------------------------------------------------------------
(* The steps that send nothing and write no row.                           *)

LEMMA QueryStep == IInv /\ (Query \/ QueryErr) => IInv'
<1> SUFFICES ASSUME IInv, Query \/ QueryErr PROVE IInv'
  OBVIOUS
<1>1. batch' \subseteq ToHandle /\ pc = "idle" /\ pc' = "batch" /\ dep' = dep /\ row' = row
  BY DEF Query, QueryErr
<1>2. UNCHANGED <<rows, txs, lost, faults>>
  BY DEF Query, QueryErr
<1>3. RowMatchesChain' /\ RetryDiscipline' /\ RowInv' /\ ToHandle' = ToHandle
  BY <1>2, ChainStays, RowsStay
<1>4. TypeOK'
  BY <1>1, <1>2 DEF IInv, TypeOK, ToHandle
<1>5. BatchInv' /\ CopyInv'
  BY <1>1, <1>3 DEF IInv, BatchInv, CopyInv
<1>6. SentInv' /\ TransferInv'
  BY <1>1, <1>2, ChainStays, AccountsStay DEF Known, InHand, Uncompensated
<1> QED
  BY <1>3, <1>4, <1>5, <1>6 DEF IInv

LEMMA TakeStep == ASSUME NEW d PROVE IInv /\ Take(d) => IInv'
<1> SUFFICES ASSUME IInv, Take(d) PROVE IInv'
  OBVIOUS
<1>1. /\ pc = "batch" /\ pc' = "send" /\ d \in batch /\ batch' = batch \ {d} /\ dep' = d
      /\ row' = [rows[d] EXCEPT !.eoaStatus = DepositB2EoaTxStatusPending]
  BY DEF Take
<1>2. UNCHANGED <<rows, txs, lost, faults>>
  BY DEF Take
<1>3. RowMatchesChain' /\ RetryDiscipline' /\ RowInv' /\ ToHandle' = ToHandle
  BY <1>2, ChainStays, RowsStay
<1>4. d \in ToHandle /\ d \in DOMAIN rows /\ rows[d] \in Row
  BY <1>1 DEF IInv, BatchInv, ToHandle, TypeOK
<1>5. row' \in Row /\ row'.b2Tx = rows[d].b2Tx
  BY <1>1, <1>4 DEF Row
<1>6. TypeOK'
  BY <1>1, <1>2, <1>4, <1>5 DEF IInv, TypeOK
<1>7. BatchInv' /\ CopyInv'
  BY <1>1, <1>2, <1>3, <1>4 DEF IInv, BatchInv, CopyInv
<1>8. \A e : Known(e)' <=> Known(e)
  BY <1>1, <1>2, <1>4, <1>5 DEF Known, InHand
<1>9. SentInv' /\ TransferInv'
  BY <1>1, <1>2, <1>8, ChainStays, AccountsStay DEF Uncompensated
<1> QED
  BY <1>3, <1>6, <1>7, <1>9 DEF IInv

LEMMA BatchDoneStep == IInv /\ BatchDone => IInv'
<1> SUFFICES ASSUME IInv, BatchDone PROVE IInv'
  OBVIOUS
<1>1. pc = "batch" /\ pc' = "idle" /\ UNCHANGED <<rows, txs, batch, dep, row, lost, faults>>
  BY DEF BatchDone
<1>2. RowMatchesChain' /\ RetryDiscipline' /\ RowInv' /\ ToHandle' = ToHandle
  BY <1>1, ChainStays, RowsStay
<1>3. TypeOK'
  BY <1>1 DEF IInv, TypeOK
<1>4. BatchInv' /\ CopyInv'
  BY <1>1, <1>2 DEF IInv, BatchInv, CopyInv
<1>5. SentInv' /\ TransferInv'
  BY <1>1, ChainStays, AccountsStay DEF Known, InHand, Uncompensated
<1> QED
  BY <1>2, <1>3, <1>4, <1>5 DEF IInv

\* HandleDeposit goes on without a word to the chain: all that is left to show
\* is what the new copy stands for.
LEMMA CopyChanges ==
  ASSUME IInv, pc \notin {"idle", "batch"},
         UNCHANGED <<rows, txs, batch, dep, lost, faults>>,
         row' \in Row, row'.b2Tx = row.b2Tx,
         pc' \in {"transfer", "update"}, pc' = "transfer" => pc = "waitB2",
         CopyInv'
  PROVE  IInv'
<1>1. RowMatchesChain' /\ RetryDiscipline' /\ RowInv' /\ ToHandle' = ToHandle
  BY ChainStays, RowsStay
<1>2. TypeOK'
  BY DEF IInv, TypeOK
<1>3. BatchInv'
  BY <1>1 DEF IInv, BatchInv
<1>4. \A d : Known(d)' <=> Known(d)
  BY DEF Known, InHand
<1>5. \A d : Uncompensated(d)' \subseteq Uncompensated(d)
  BY DEF Uncompensated
<1>6. SentInv' /\ TransferInv'
  BY <1>4, <1>5, ChainStays, AccountsStay
<1> QED
  BY <1>1, <1>2, <1>3, <1>6 DEF IInv

LEMMA SendRefusedStep == IInv /\ SendRefused => IInv'
<1> SUFFICES ASSUME IInv, SendRefused PROVE IInv'
  OBVIOUS
<1>1. /\ pc = "send" /\ pc' = "update"
      /\ UNCHANGED <<rows, txs, batch, dep, lost, faults>>
  BY DEF SendRefused, Goto
<1>2. PICK s \in Refusals : row' = [row EXCEPT !.status = s]
  BY DEF SendRefused
<1>3. /\ s \in {4, 6, 8} /\ (s = 4 => Processed(dep))
  BY DEF Refusals
<1>4. row \in Row /\ row.b2Tx = NoTx /\ row.eoaStatus = DepositB2EoaTxStatusPending
  BY <1>1, Handling DEF IInv, CopyInv, TypeOK, Row
<1>5. row' \in Row /\ row'.b2Tx = NoTx /\ row'.status = s /\ row'.eoaStatus = row.eoaStatus
  BY <1>2, <1>3, <1>4 DEF Row
<1>6. CopyInv'
  <2>1. Truthful(dep, row)'
    BY <1>1, <1>3, <1>4, <1>5, ChainStays DEF Truthful
  <2>2. RetryFits(row)' /\ QueuedIsOpen(row)'
    BY <1>3, <1>5 DEF RetryFits, QueuedIsOpen
  <2> QED
    BY <1>1, <2>1, <2>2 DEF CopyInv
<1> QED
  BY <1>1, <1>4, <1>5, <1>6, CopyChanges

LEMMA TwoFields ==
  ASSUME NEW r \in Row, NEW s \in 0 .. 8, NEW n \in Nat
  PROVE  /\ [r EXCEPT !.retry = n, !.status = s] \in Row
         /\ [r EXCEPT !.status = s, !.b2Tx = n] \in Row
BY DEF Row

\* One more try: the counter and the status agree, and nothing is known to be out.
LEMMA Retrying ==
  ASSUME IInv, pc = "send", row' = Retried(row)
  PROVE  /\ row \in Row /\ row.b2Tx = NoTx
         /\ row' \in Row /\ row'.b2Tx = NoTx
         /\ row'.status \in {1, 2} /\ row'.eoaStatus = DepositB2EoaTxStatusPending
         /\ RetryFits(row')
<1>1. row \in Row /\ row.b2Tx = NoTx /\ row.eoaStatus = DepositB2EoaTxStatusPending
  BY Handling DEF IInv, CopyInv, TypeOK, Row
<1>2. /\ row'.b2Tx = row.b2Tx /\ row'.eoaStatus = row.eoaStatus
      /\ row'.retry = row.retry + 1 /\ row.retry \in Nat
      /\ row'.status = IF row.retry + 1 >= DepositRetry THEN 2 ELSE 1
  BY <1>1 DEF Retried, Row
<1>3. row' \in Row
  <2>1. PICK s \in {1, 2} : row' = [row EXCEPT !.retry = row.retry + 1, !.status = s]
    BY <1>1 DEF Retried
  <2>2. row.retry + 1 \in Nat /\ s \in 0 .. 8
    BY <1>2
  <2>3. [row EXCEPT !.retry = row.retry + 1, !.status = s] \in Row
    BY <1>1, <2>2, TwoFields, Zenon
  <2> QED
    BY <2>1, <2>3
<1>4. RetryFits(row')
  BY <1>2 DEF RetryFits
<1> QED
  BY <1>1, <1>2, <1>3, <1>4

LEMMA WaitB2Step == IInv /\ WaitB2 => IInv'
<1> SUFFICES ASSUME IInv, WaitB2 PROVE IInv'
  OBVIOUS
<1>1. pc = "waitB2" /\ UNCHANGED <<rows, txs, batch, dep, lost, faults>>
  BY DEF WaitB2, Goto
<1>2. PICK s \in WaitMinedStatuses(txs[row.b2Tx].state) :
        row' = [row EXCEPT !.status = s] /\ pc' = AfterWait(s)
  BY DEF WaitB2, Goto
<1>3. /\ row \in Row /\ row.b2Tx \in Sent(dep, "deposit")
      /\ row.eoaStatus = DepositB2EoaTxStatusPending
  BY <1>1 DEF IInv, CopyInv, TypeOK
<1>4. /\ s \in {0, 3, 5, 7}
      /\ s = 0 => txs[row.b2Tx].state = "ok"
      /\ s = 5 => txs[row.b2Tx].state = "reverted"
      /\ pc' = IF s = 5 THEN "transfer" ELSE "update"
  BY <1>2 DEF WaitMinedStatuses, AfterWait
<1>5. /\ row' \in Row /\ row'.b2Tx = row.b2Tx /\ row'.status = s
      /\ row'.eoaStatus = DepositB2EoaTxStatusPending
  BY <1>2, <1>3, <1>4 DEF Row
<1>6. /\ s = 0 => Mined(row.b2Tx, dep, "deposit", "ok")
      /\ s = 5 => Mined(row.b2Tx, dep, "deposit", "reverted")
  BY <1>3, <1>4 DEF Mined, TxsOf
<1>7. CopyInv'
  <2>1. \A k, o : Mined(row.b2Tx, dep, k, o) => Mined(row.b2Tx, dep, k, o)'
    BY <1>1, <1>5, ChainStays DEF Mined
  <2>2. Truthful(dep, row)'
    BY <1>1, <1>4, <1>5, <1>6, <2>1 DEF Truthful
  <2>3. pc' = "update" => RetryFits(row)' /\ QueuedIsOpen(row)'
    BY <1>4, <1>5 DEF RetryFits, QueuedIsOpen, Retryable
  <2> QED
    BY <1>4, <1>5, <1>6, <2>1, <2>2, <2>3 DEF CopyInv
<1> QED
  BY <1>1, <1>4, <1>5, <1>7, CopyChanges

LEMMA WaitEoaStep == IInv /\ WaitEoa => IInv'
<1> SUFFICES ASSUME IInv, WaitEoa PROVE IInv'
  OBVIOUS
<1>1. pc = "waitEoa" /\ pc' = "update" /\ UNCHANGED <<rows, txs, batch, dep, lost, faults>>
  BY DEF WaitEoa, Goto
<1>2. PICK s \in EoaWaitStatuses(txs[row.eoaTx].state) : row' = [row EXCEPT !.eoaStatus = s]
  BY DEF WaitEoa
<1>3. /\ row \in Row /\ row.eoaTx \in Sent(dep, "transfer")
      /\ row.status = DepositB2TxStatusWaitMinedStatusFailed
      /\ Mined(row.b2Tx, dep, "deposit", "reverted")
  BY <1>1 DEF IInv, CopyInv, TypeOK
<1>4. s \in {0, 3, 7} /\ (s = 0 => Mined(row.eoaTx, dep, "transfer", "ok"))
  BY <1>2, <1>3 DEF EoaWaitStatuses, Mined, TxsOf
<1>5. /\ row' \in Row /\ row'.b2Tx = row.b2Tx /\ row'.status = row.status
      /\ row'.eoaStatus = s /\ row'.eoaTx = row.eoaTx
  BY <1>2, <1>3, <1>4 DEF Row
<1>6. Truthful(dep, row)'
  BY <1>1, <1>3, <1>4, <1>5, ChainStays DEF Truthful, Mined
<1>7. CopyInv'
  BY <1>1, <1>3, <1>5, <1>6 DEF CopyInv, RetryFits, QueuedIsOpen, Retryable
<1> QED
  BY <1>1, <1>5, <1>7, CopyChanges

-----------------------------------------------------------------------------
(* The steps that send a transaction.                                      *)

\* What every one of them leaves as it was.
LEMMA Submitting ==
  ASSUME IInv, pc \notin {"idle", "batch"}, UNCHANGED <<rows, batch, dep>>,
         NEW kind \in {"deposit", "transfer"}, Submit(kind)
  PROVE  /\ RowMatchesChain' /\ RetryDiscipline' /\ RowInv' /\ ToHandle' = ToHandle
         /\ \A d, r : Truthful(d, r) => Truthful(d, r)'
         /\ \A d, k : d # dep \/ k # kind => Sent(d, k)' = Sent(d, k)
         /\ \A d, k : \A s \in {"ok", "reverted"} : TxsOf(d, k, s)' = TxsOf(d, k, s)
         /\ Sent(dep, kind)' = Sent(dep, kind) \cup {Len(txs) + 1}
         /\ Len(txs) + 1 \in Nat \ {NoTx} /\ Len(txs) + 1 \notin DOMAIN txs
         /\ Cardinality(Sent(dep, kind)') = Cardinality(Sent(dep, kind)) + 1
         /\ Cardinality(Sent(dep, kind)) \in Nat
         /\ txs' \in Seq(B2Tx)
         /\ ~ (row.b2Tx = Len(txs) + 1 /\ pc \in {"waitB2", "transfer"})
<1>1. TypeOK /\ dep \in Deposits /\ dep' = dep
  BY Handling DEF IInv
<1>2. /\ Sent(dep, kind)' = Sent(dep, kind) \cup {Len(txs) + 1}
      /\ Len(txs) + 1 \notin Sent(dep, kind)
      /\ \A d, k : d # dep \/ k # kind => Sent(d, k)' = Sent(d, k)
      /\ \A d, k : \A s \in {"ok", "reverted"} : TxsOf(d, k, s)' = TxsOf(d, k, s)
      /\ \A d : Processed(d) <=> Processed(d)'
  BY <1>1, SubmittedSets
<1>3. RowMatchesChain' /\ RetryDiscipline' /\ RowInv' /\ ToHandle' = ToHandle
      /\ \A d, r : Truthful(d, r) => Truthful(d, r)'
  BY <1>2, RowsStay
<1>4. /\ txs' \in Seq(B2Tx) /\ Len(txs) + 1 \in Nat \ {NoTx} /\ Len(txs) + 1 \notin DOMAIN txs
  BY <1>1, Submitted
<1>5. /\ Cardinality(Sent(dep, kind)) \in Nat
      /\ Cardinality(Sent(dep, kind)') = Cardinality(Sent(dep, kind)) + 1
  <2>1. IsFiniteSet(Sent(dep, kind)) /\ Cardinality(Sent(dep, kind)) \in Nat
    BY <1>1, SentFinite
  <2>2. Cardinality(Sent(dep, kind) \cup {Len(txs) + 1}) = Cardinality(Sent(dep, kind)) + 1
    BY <1>2, <2>1, FS_AddElement
  <2> QED
    BY <1>2, <2>1, <2>2
<1>6. pc \in {"waitB2", "transfer"} => row.b2Tx \in DOMAIN txs
  BY DEF IInv, CopyInv, Mined, TxsOf, Sent
<1> QED
  BY <1>2, <1>3, <1>4, <1>5, <1>6

LEMMA SendStep == IInv /\ Send => IInv'
<1> SUFFICES ASSUME IInv, Send PROVE IInv'
  OBVIOUS
<1> DEFINE n == Len(txs) + 1
<1>1. /\ pc = "send" /\ pc' = "waitB2" /\ UNCHANGED <<rows, batch, dep, lost, faults>>
      /\ Submit("deposit")
      /\ row' = [row EXCEPT !.status = DepositB2TxStatusSuccess, !.b2Tx = n]
  BY DEF Send, Goto
<1>2. /\ RowMatchesChain' /\ RetryDiscipline' /\ RowInv' /\ ToHandle' = ToHandle
      /\ \A d, k : d # dep \/ k # "deposit" => Sent(d, k)' = Sent(d, k)
      /\ \A d, k : \A s \in {"ok", "reverted"} : TxsOf(d, k, s)' = TxsOf(d, k, s)
      /\ Sent(dep, "deposit")' = Sent(dep, "deposit") \cup {n}
      /\ n \in Nat \ {NoTx} /\ n \notin DOMAIN txs
      /\ Cardinality(Sent(dep, "deposit")') = Cardinality(Sent(dep, "deposit")) + 1
      /\ Cardinality(Sent(dep, "deposit")) \in Nat /\ txs' \in Seq(B2Tx)
  BY <1>1, Submitting
<1> HIDE DEF n
<1>3. /\ row \in Row /\ row.b2Tx = NoTx /\ row.eoaStatus = DepositB2EoaTxStatusPending
      /\ dep \in DOMAIN rows /\ dep \in Deposits /\ rows[dep].b2Tx = NoTx
  BY <1>1, Handling DEF IInv, CopyInv, TypeOK, Row
<1>4. row' \in Row /\ row'.b2Tx = n /\ row'.eoaStatus = row.eoaStatus
  <2>1. [row EXCEPT !.status = DepositB2TxStatusSuccess, !.b2Tx = n] \in Row
    <3>1. DepositB2TxStatusSuccess \in 0 .. 8 /\ n \in Nat
      BY <1>2
    <3> QED
      BY <1>3, <3>1, TwoFields, Zenon
  <2> QED
    BY <1>1, <1>2, <1>3, <2>1 DEF Row
<1>5. TypeOK'
  BY <1>1, <1>2, <1>4 DEF IInv, TypeOK
<1>6. BatchInv'
  BY <1>1, <1>2 DEF IInv, BatchInv
<1>7. CopyInv'
  BY <1>1, <1>2, <1>3, <1>4 DEF CopyInv
<1>8. SentInv'
  <2>1. ~Known(dep) /\ Known(dep)'
    BY <1>1, <1>2, <1>3, <1>4 DEF Known, InHand
  <2>2. \A d : d # dep => (Known(d)' <=> Known(d))
    BY <1>1 DEF Known, InHand
  <2>3. lost[dep] \in Nat
    BY <1>3 DEF IInv, TypeOK
  <2> QED
    BY <1>1, <1>2, <2>1, <2>2, <2>3 DEF IInv, SentInv
<1>9. TransferInv'
  <2>1. \A d : TxsOf(d, "deposit", "reverted")' \ Uncompensated(d)'
               = TxsOf(d, "deposit", "reverted") \ Uncompensated(d)
    <3>1. \A d : Uncompensated(d) = {} /\ Uncompensated(d)' \subseteq {n}
      BY <1>1, <1>4 DEF Uncompensated
    <3>2. \A d : n \notin TxsOf(d, "deposit", "reverted")
      BY <1>2 DEF TxsOf, Sent
    <3> QED
      BY <1>2, <3>1, <3>2
  <2>2. \A d : Sent(d, "transfer")' = Sent(d, "transfer")
    BY <1>2
  <2> QED
    BY <2>1, <2>2 DEF IInv, TransferInv
<1> QED
  BY <1>2, <1>5, <1>6, <1>7, <1>8, <1>9 DEF IInv

LEMMA SendErrStep == IInv /\ SendErr => IInv'
<1> SUFFICES ASSUME IInv, SendErr PROVE IInv'
  OBVIOUS
<1>1. /\ pc = "send" /\ pc' = "update" /\ UNCHANGED <<rows, batch, dep>>
      /\ row' = Retried(row)
  BY DEF SendErr, Goto
<1>2. /\ row \in Row /\ row.b2Tx = NoTx /\ row' \in Row /\ row'.b2Tx = NoTx
      /\ row'.status \in {1, 2} /\ row'.eoaStatus = DepositB2EoaTxStatusPending
      /\ RetryFits(row')
  BY <1>1, Retrying
<1>3. CopyInv'
  BY <1>1, <1>2 DEF CopyInv, Truthful, QueuedIsOpen, RetryFits
<1>4. CASE UNCHANGED <<txs, lost, faults>>
  BY <1>1, <1>2, <1>3, <1>4, CopyChanges
<1>5. CASE Submit("deposit") /\ LoseAnswer
  <2>1. /\ RowMatchesChain' /\ RetryDiscipline' /\ RowInv' /\ ToHandle' = ToHandle
        /\ \A d, k : d # dep \/ k # "deposit" => Sent(d, k)' = Sent(d, k)
        /\ \A d, k : \A s \in {"ok", "reverted"} : TxsOf(d, k, s)' = TxsOf(d, k, s)
        /\ Cardinality(Sent(dep, "deposit")') = Cardinality(Sent(dep, "deposit")) + 1
        /\ Cardinality(Sent(dep, "deposit")) \in Nat /\ txs' \in Seq(B2Tx)
    BY <1>1, <1>5, Submitting
  <2>2. /\ dep \in DOMAIN rows /\ dep \in Deposits /\ rows[dep].b2Tx = NoTx
        /\ lost[dep] \in Nat /\ lost \in [Deposits -> Nat]
    BY <1>1, Handling DEF IInv, TypeOK
  <2>3. /\ lost' = [lost EXCEPT ![dep] = @ + 1] /\ faults' \in 0 .. MaxFaults
    BY <1>5 DEF LoseAnswer, IInv, TypeOK
  <2>4. lost' \in [Deposits -> Nat]
    BY <2>2, <2>3
  <2>5. TypeOK'
    BY <1>1, <1>2, <2>1, <2>3, <2>4 DEF IInv, TypeOK
  <2>6. BatchInv'
    BY <1>1, <2>1 DEF IInv, BatchInv
  <2>7. \A d : Known(d)' <=> Known(d)
    BY <1>1, <1>2 DEF Known, InHand
  <2>8. ~Known(dep)
    BY <1>2, <2>2 DEF Known
  <2>9. SentInv'
    <3>1. \A d \in Deposits : Cardinality(Sent(d, "deposit"))
                              = lost[d] + (IF Known(d) THEN 1 ELSE 0)
      BY DEF IInv, SentInv
    <3>2. lost'[dep] = lost[dep] + 1 /\ \A d \in Deposits : d # dep => lost'[d] = lost[d]
      BY <2>2, <2>3
    <3>3. ASSUME NEW d \in Deposits, d = dep
          PROVE  Cardinality(Sent(d, "deposit")')
                   = lost'[d] + (IF Known(d)' THEN 1 ELSE 0)
      <4>1. ~Known(d)' /\ Cardinality(Sent(d, "deposit")) = lost[d]
        BY <2>7, <2>8, <2>2, <3>1, <3>3
      <4>2. Cardinality(Sent(d, "deposit")') = Cardinality(Sent(d, "deposit")) + 1
        BY <1>1, <2>1, <3>3
      <4> QED
        BY <2>2, <3>2, <3>3, <4>1, <4>2
    <3>4. ASSUME NEW d \in Deposits, d # dep
          PROVE  Cardinality(Sent(d, "deposit")')
                   = lost'[d] + (IF Known(d)' THEN 1 ELSE 0)
      BY <2>1, <2>7, <3>1, <3>2, <3>4
    <3> QED
      BY <1>1, <3>3, <3>4 DEF SentInv
  <2>10. TransferInv'
    <3>1. \A d : Uncompensated(d)' = Uncompensated(d)
      BY <1>1 DEF Uncompensated
    <3> QED
      BY <2>1, <3>1 DEF IInv, TransferInv
  <2> QED
    BY <1>3, <2>1, <2>5, <2>6, <2>9, <2>10 DEF IInv
<1> QED
  BY <1>4, <1>5 DEF SendErr

\* A transfer uses up one deposit transaction that was reverted.
LEMMA Transferring ==
  ASSUME IInv, pc = "transfer", pc' \in {"waitEoa", "update"},
         UNCHANGED <<rows, batch, dep, lost>>, Submit("transfer"),
         row'.b2Tx = row.b2Tx
  PROVE  SentInv' /\ TransferInv'
<1>1. /\ \A d, k : d # dep \/ k # "transfer" => Sent(d, k)' = Sent(d, k)
      /\ \A d, k : \A s \in {"ok", "reverted"} : TxsOf(d, k, s)' = TxsOf(d, k, s)
      /\ Cardinality(Sent(dep, "transfer")') = Cardinality(Sent(dep, "transfer")) + 1
  BY Submitting
<1>2. SentInv'
  <2>1. \A d : Known(d)' <=> Known(d)
    BY DEF Known, InHand
  <2>2. \A d : Sent(d, "deposit")' = Sent(d, "deposit")
    BY <1>1
  <2> QED
    BY <2>1, <2>2 DEF IInv, SentInv
<1>3. \A d : Uncompensated(d)' = {}
  BY DEF Uncompensated
<1>4. ASSUME NEW d \in Deposits
      PROVE  Cardinality(Sent(d, "transfer")')
               <= Cardinality(TxsOf(d, "deposit", "reverted")' \ Uncompensated(d)')
  <2> DEFINE T == TxsOf(d, "deposit", "reverted")
  <2>1. T' = T /\ T' \ Uncompensated(d)' = T
    BY <1>1, <1>3
  <2>2. Cardinality(Sent(d, "transfer")) <= Cardinality(T \ Uncompensated(d))
    BY DEF IInv, TransferInv
  <2>3. IsFiniteSet(T)
    <3>1. T \subseteq Sent(d, "deposit") /\ IsFiniteSet(Sent(d, "deposit"))
      BY SentFinite DEF TxsOf, IInv
    <3> QED
      BY <3>1, FS_Subset
  <2>4. Cardinality(T) \in Nat /\ Cardinality(Sent(d, "transfer")) \in Nat
    BY <2>3, FS_CardinalityType, SentFinite DEF IInv
  <2>5. CASE d = dep
    <3>1. Uncompensated(d) = {row.b2Tx} /\ row.b2Tx \in T
      BY <2>5 DEF Uncompensated, IInv, CopyInv, Mined
    <3>2. Cardinality(T \ {row.b2Tx}) = Cardinality(T) - 1
      BY <2>3, <3>1, FS_RemoveElement
    <3>3. Cardinality(Sent(d, "transfer")') = Cardinality(Sent(d, "transfer")) + 1
      BY <1>1, <2>5
    <3>4. Cardinality(T \ Uncompensated(d)) = Cardinality(T) - 1
      BY <3>1, <3>2
    <3>5. Cardinality(TxsOf(d, "deposit", "reverted")' \ Uncompensated(d)') = Cardinality(T)
      BY <2>1
    <3> HIDE DEF T
    <3> QED
      BY <2>2, <2>4, <3>3, <3>4, <3>5
  <2>6. CASE d # dep
    <3>1. Uncompensated(d) = {} /\ T \ Uncompensated(d) = T
      BY <2>6 DEF Uncompensated
    <3>2. Sent(d, "transfer")' = Sent(d, "transfer")
      BY <1>1, <2>6
    <3> QED
      BY <2>1, <2>2, <3>1, <3>2
  <2> QED
    BY <2>5, <2>6
<1>5. TransferInv'
  BY <1>4 DEF TransferInv
<1> QED
  BY <1>2, <1>5

LEMMA TransferStep == IInv /\ Transfer => IInv'
<1> SUFFICES ASSUME IInv, Transfer PROVE IInv'
  OBVIOUS
<1> DEFINE n == Len(txs) + 1
<1>1. /\ pc = "transfer" /\ pc' = "waitEoa" /\ UNCHANGED <<rows, batch, dep, lost, faults>>
      /\ Submit("transfer") /\ row' = [row EXCEPT !.eoaTx = n]
  BY DEF Transfer, Goto
<1>2. /\ RowMatchesChain' /\ RetryDiscipline' /\ RowInv' /\ ToHandle' = ToHandle
      /\ \A d, k : \A s \in {"ok", "reverted"} : TxsOf(d, k, s)' = TxsOf(d, k, s)
      /\ Sent(dep, "transfer")' = Sent(dep, "transfer") \cup {n}
      /\ n \in Nat /\ txs' \in Seq(B2Tx)
  BY <1>1, Submitting
<1> HIDE DEF n
<1>3. /\ row \in Row /\ row.status = DepositB2TxStatusWaitMinedStatusFailed
      /\ row.eoaStatus = DepositB2EoaTxStatusPending
      /\ Mined(row.b2Tx, dep, "deposit", "reverted")
  BY <1>1 DEF IInv, CopyInv, TypeOK
<1>4. /\ row' \in Row /\ row'.b2Tx = row.b2Tx /\ row'.status = row.status
      /\ row'.eoaStatus = row.eoaStatus /\ row'.eoaTx = n
  BY <1>1, <1>2, <1>3 DEF Row
<1>5. TypeOK'
  BY <1>1, <1>2, <1>4 DEF IInv, TypeOK
<1>6. BatchInv'
  BY <1>1, <1>2 DEF IInv, BatchInv
<1>7. CopyInv'
  BY <1>1, <1>2, <1>3, <1>4 DEF CopyInv, Mined
<1>8. SentInv' /\ TransferInv'
  BY <1>1, <1>4, Transferring
<1> QED
  BY <1>2, <1>5, <1>6, <1>7, <1>8 DEF IInv

LEMMA TransferErrStep == IInv /\ TransferErr => IInv'
<1> SUFFICES ASSUME IInv, TransferErr PROVE IInv'
  OBVIOUS
<1>1. /\ pc = "transfer" /\ pc' = "update" /\ UNCHANGED <<rows, batch, dep, lost>>
      /\ row' = [row EXCEPT !.eoaStatus = DepositB2EoaTxStatusFailed]
  BY DEF TransferErr, Goto
<1>2. /\ row \in Row /\ row.status = DepositB2TxStatusWaitMinedStatusFailed
      /\ Mined(row.b2Tx, dep, "deposit", "reverted")
  BY <1>1 DEF IInv, CopyInv, TypeOK
<1>3. /\ row' \in Row /\ row'.b2Tx = row.b2Tx /\ row'.status = row.status
      /\ row'.eoaStatus = DepositB2EoaTxStatusFailed
  BY <1>1, <1>2 DEF Row
<1>4. Truthful(dep, row') /\ RetryFits(row') /\ QueuedIsOpen(row')
  BY <1>2, <1>3 DEF Truthful, RetryFits, QueuedIsOpen, Retryable
<1>5. CASE UNCHANGED <<txs, faults>>
  <2>1. CopyInv'
    BY <1>1, <1>4, <1>5, ChainStays DEF CopyInv, Truthful, RetryFits, QueuedIsOpen, Mined
  <2> QED
    BY <1>1, <1>3, <1>5, <2>1, CopyChanges
<1>6. CASE Submit("transfer") /\ faults < MaxFaults /\ faults' = faults + 1
  <2>1. /\ RowMatchesChain' /\ RetryDiscipline' /\ RowInv' /\ ToHandle' = ToHandle
        /\ \A d, r : Truthful(d, r) => Truthful(d, r)'
        /\ \A d, k : \A s \in {"ok", "reverted"} : TxsOf(d, k, s)' = TxsOf(d, k, s)
        /\ txs' \in Seq(B2Tx)
    BY <1>1, <1>6, Submitting
  <2>2. TypeOK'
    BY <1>1, <1>3, <1>6, <2>1 DEF IInv, TypeOK
  <2>3. BatchInv'
    BY <1>1, <2>1 DEF IInv, BatchInv
  <2>4. CopyInv'
    BY <1>1, <1>2, <1>3, <1>4, <2>1 DEF CopyInv, Truthful, RetryFits, QueuedIsOpen, Mined
  <2>5. SentInv' /\ TransferInv'
    BY <1>1, <1>3, <1>6, Transferring
  <2> QED
    BY <2>1, <2>2, <2>3, <2>4, <2>5 DEF IInv
<1> QED
  BY <1>5, <1>6 DEF TransferErr

-----------------------------------------------------------------------------
(* The steps that end the handling of a deposit.                           *)

LEMMA UpdateStep == IInv /\ Update => IInv'
<1> SUFFICES ASSUME IInv, Update PROVE IInv'
  OBVIOUS
<1>1. /\ pc = "update" /\ pc' = "batch" /\ row.retry <= SmallintMax
      /\ rows' = [rows EXCEPT ![dep] = row] /\ row' = NewRow
      /\ UNCHANGED <<txs, batch, dep, lost, faults>>
  BY DEF Update, Fits, NextInBatch
<1>2. /\ dep \in DOMAIN rows /\ dep \notin batch /\ rows[dep].b2Tx = NoTx /\ row \in Row
      /\ Truthful(dep, row) /\ RetryFits(row) /\ QueuedIsOpen(row)
  BY <1>1, Handling DEF IInv, CopyInv, TypeOK
<1>3. /\ DOMAIN rows' = DOMAIN rows /\ rows'[dep] = row
      /\ \A d \in DOMAIN rows : d # dep => rows'[d] = rows[d]
  BY <1>1, <1>2
<1>4. TypeOK'
  <2>1. rows' \in [DOMAIN rows -> Row] /\ NewRow \in Row
    BY <1>1, <1>2 DEF IInv, TypeOK, NewRow, Row
  <2> QED
    BY <1>1, <1>3, <2>1 DEF IInv, TypeOK
<1>5. \A d, r : Truthful(d, r) => Truthful(d, r)'
  BY <1>1, ChainStays, TruthStays
<1>6. RowMatchesChain'
  BY <1>2, <1>3, <1>5 DEF IInv, RowMatchesChain
<1>7. RetryDiscipline' /\ RowInv'
  BY <1>2, <1>3 DEF IInv, RetryDiscipline, RowInv, RetryFits, QueuedIsOpen
<1>8. BatchInv' /\ CopyInv'
  BY <1>1, <1>2, <1>3 DEF IInv, BatchInv, CopyInv, ToHandle
<1>9. \A d : Known(d)' <=> Known(d)
  BY <1>1, <1>2, <1>3 DEF Known, InHand
<1>10. SentInv' /\ TransferInv'
  BY <1>1, <1>9, ChainStays, AccountsStay DEF Uncompensated
<1> QED
  BY <1>4, <1>6, <1>7, <1>8, <1>10 DEF IInv

\* The copy at hand is forgotten; what it knew of is lost.
LEMMA Forgetting ==
  ASSUME IInv, UNCHANGED <<rows, txs, dep>>, batch' \subseteq batch,
         pc' \in {"idle", "batch"}, row' = NewRow, faults' \in 0 .. MaxFaults,
         \/ pc \in {"idle", "batch"} /\ lost' = lost
         \/ pc \notin {"idle", "batch"} /\ lost' = [lost EXCEPT ![dep] = @ + Unrecorded]
  PROVE  IInv'
<1>1. RowMatchesChain' /\ RetryDiscipline' /\ RowInv' /\ ToHandle' = ToHandle
  BY ChainStays, RowsStay
<1>2. lost' \in [Deposits -> Nat]
  BY DEF IInv, TypeOK, Unrecorded
<1>3. TypeOK'
  <2>1. NewRow \in Row
    BY DEF NewRow, Row
  <2> QED
    BY <1>2, <2>1 DEF IInv, TypeOK
<1>4. BatchInv' /\ CopyInv'
  BY <1>1 DEF IInv, BatchInv, CopyInv
<1>5. ASSUME NEW d \in Deposits
      PROVE  lost'[d] + (IF Known(d)' THEN 1 ELSE 0) = lost[d] + (IF Known(d) THEN 1 ELSE 0)
  <2>1. lost[d] \in Nat
    BY DEF IInv, TypeOK
  <2>2. CASE InHand(d)
    <3>1. /\ d = dep /\ d \in DOMAIN rows /\ rows[d].b2Tx = NoTx
          /\ lost'[d] = lost[d] + (IF row.b2Tx # NoTx THEN 1 ELSE 0)
      BY <2>2, Handling DEF InHand, Unrecorded, IInv, TypeOK
    <3>2. ~Known(d)' /\ (Known(d) <=> row.b2Tx # NoTx)
      BY <2>2, <3>1 DEF Known, InHand
    <3> QED
      BY <2>1, <3>1, <3>2
  <2>3. CASE ~InHand(d)
    <3>1. lost'[d] = lost[d]
      BY <2>3 DEF InHand, IInv, TypeOK
    <3>2. Known(d)' <=> Known(d)
      BY <2>3 DEF Known, InHand
    <3> QED
      BY <3>1, <3>2
  <2> QED
    BY <2>2, <2>3
<1>6. SentInv' /\ TransferInv'
  <2>1. \A d : Uncompensated(d)' = {}
    BY DEF Uncompensated
  <2> QED
    BY <1>5, <2>1, ChainStays, AccountsStay
<1> QED
  BY <1>1, <1>3, <1>4, <1>6 DEF IInv

LEMMA UpdateErrStep == IInv /\ UpdateErr => IInv'
<1> SUFFICES ASSUME IInv, UpdateErr PROVE IInv'
  OBVIOUS
<1>1. /\ pc = "update" /\ pc' = "batch" /\ row' = NewRow
      /\ lost' = [lost EXCEPT ![dep] = @ + Unrecorded]
      /\ UNCHANGED <<rows, txs, batch, dep>>
  BY DEF UpdateErr, NextInBatch
<1>2. faults' \in 0 .. MaxFaults
  BY DEF UpdateErr, IInv, TypeOK
<1> QED
  BY <1>1, <1>2, Forgetting

LEMMA DieStep == IInv /\ Die /\ faults' \in 0 .. MaxFaults => IInv'
<1> SUFFICES ASSUME IInv, Die, faults' \in 0 .. MaxFaults PROVE IInv'
  OBVIOUS
<1>1. /\ pc' = "idle" /\ batch' = {} /\ row' = NewRow /\ UNCHANGED <<rows, txs, dep>>
      /\ \/ pc \in {"idle", "batch"} /\ lost' = lost
         \/ pc \notin {"idle", "batch"} /\ lost' = [lost EXCEPT ![dep] = @ + Unrecorded]
  BY DEF Die
<1> QED
  BY <1>1, Forgetting

-----------------------------------------------------------------------------
(* The indexer and the B2 chain.                                           *)

LEMMA AddDepositStep == ASSUME NEW d \in Deposits PROVE IInv /\ AddDeposit(d) => IInv'
<1> SUFFICES ASSUME IInv, AddDeposit(d) PROVE IInv'
  OBVIOUS
<1>1. /\ d \notin DOMAIN rows /\ DOMAIN rows' = DOMAIN rows \cup {d}
      /\ rows'[d] = NewRow /\ \A e \in DOMAIN rows : rows'[e] = rows[e]
      /\ UNCHANGED <<txs, pc, batch, dep, row, lost, faults>>
  BY DEF AddDeposit
<1>2. NewRow \in Row /\ NewRow.retry = 0
  BY DEF NewRow, Row
<1>3. TypeOK'
  <2>1. rows' \in [DOMAIN rows' -> Row]
    BY <1>1, <1>2 DEF AddDeposit, IInv, TypeOK
  <2> QED
    BY <1>1, <1>2, <2>1 DEF IInv, TypeOK
<1>4. \A e, r : Truthful(e, r) => Truthful(e, r)'
  BY <1>1, ChainStays, TruthStays
<1>5. RowMatchesChain'
  <2>1. Truthful(d, NewRow)'
    BY DEF Truthful, NewRow
  <2> QED
    BY <1>1, <1>4, <2>1 DEF IInv, RowMatchesChain
<1>6. RetryDiscipline' /\ RowInv'
  BY <1>1 DEF IInv, RetryDiscipline, RetryFits, RowInv, QueuedIsOpen, NewRow
<1>7. pc \notin {"idle", "batch"} => dep \in DOMAIN rows
  BY DEF IInv, TypeOK
<1>8. BatchInv' /\ CopyInv'
  <2>1. ToHandle \subseteq ToHandle'
    BY <1>1 DEF ToHandle
  <2>2. BatchInv'
    BY <1>1, <2>1 DEF IInv, BatchInv
  <2>3. CopyInv'
    BY <1>1, <1>4, <1>7, ChainStays
       DEF IInv, CopyInv, RetryFits, QueuedIsOpen, Mined
  <2> QED
    BY <2>2, <2>3
<1>9. \A e : Known(e)' <=> Known(e)
  BY <1>1, <1>7 DEF Known, InHand, NewRow
<1>10. SentInv' /\ TransferInv'
  BY <1>1, <1>9, ChainStays, AccountsStay DEF Uncompensated
<1> QED
  BY <1>3, <1>5, <1>6, <1>8, <1>10 DEF IInv

LEMMA MineStep == ASSUME NEW i \in DOMAIN txs PROVE IInv /\ Mine(i) => IInv'
<1> SUFFICES ASSUME IInv, Mine(i) PROVE IInv'
  OBVIOUS
<1>1. UNCHANGED <<rows, pc, batch, dep, row, lost, faults>>
  BY DEF Mine
<1>2. /\ txs' \in Seq(B2Tx) /\ DOMAIN txs' = DOMAIN txs
      /\ \A d, k : Sent(d, k)' = Sent(d, k)
      /\ \A d, k : \A s \in {"ok", "reverted"} : TxsOf(d, k, s) \subseteq TxsOf(d, k, s)'
      /\ \A d : Processed(d) => Processed(d)'
  BY MinedSets DEF IInv
<1>3. /\ RowMatchesChain' /\ RetryDiscipline' /\ RowInv' /\ ToHandle' = ToHandle
      /\ \A d, r : Truthful(d, r) => Truthful(d, r)'
  BY <1>1, <1>2, RowsStay
<1>4. TypeOK'
  BY <1>1, <1>2 DEF IInv, TypeOK
<1>5. BatchInv'
  BY <1>1, <1>3 DEF IInv, BatchInv
<1>6. CopyInv'
  BY <1>1, <1>2, <1>3 DEF IInv, CopyInv, RetryFits, QueuedIsOpen, Mined
<1>7. SentInv' /\ TransferInv'
  BY <1>1, <1>2, AccountsStay DEF Known, InHand, Uncompensated
<1> QED
  BY <1>3, <1>4, <1>5, <1>6, <1>7 DEF IInv

-----------------------------------------------------------------------------
(* Every step keeps the invariant.                                         *)

LEMMA Inductive == IInv /\ [Next]_vars => IInv'
<1> SUFFICES ASSUME IInv, [Next]_vars PROVE IInv'
  OBVIOUS
<1>1. ASSUME NEW d \in Deposits, AddDeposit(d) PROVE IInv'
  BY <1>1, AddDepositStep
<1>2. ASSUME NEW i \in DOMAIN txs, Mine(i) PROVE IInv'
  BY <1>2, MineStep
<1>3. ASSUME NEW d \in batch, Take(d) PROVE IInv'
  BY <1>3, TakeStep
<1>4. CASE HandleDeposit
  BY <1>4, SendRefusedStep, SendErrStep, SendStep, WaitB2Step, TransferErrStep,
     TransferStep, WaitEoaStep, UpdateStep, UpdateErrStep DEF HandleDeposit
<1>5. CASE Crash
  <2>1. faults' \in 0 .. MaxFaults
    BY <1>5 DEF Crash, IInv, TypeOK
  <2> QED
    BY <1>5, <2>1, DieStep DEF Crash
<1>6. CASE UNCHANGED vars
  <2>1. /\ UNCHANGED <<rows, txs, pc, batch, dep, row, lost, faults>>
    BY <1>6 DEF vars
  <2>2. RowMatchesChain' /\ RetryDiscipline' /\ RowInv' /\ ToHandle' = ToHandle
        /\ \A d, r : Truthful(d, r) => Truthful(d, r)'
    BY <2>1, ChainStays, RowsStay
  <2>3. TypeOK' /\ BatchInv'
    BY <2>1, <2>2 DEF IInv, TypeOK, BatchInv
  <2>4. CopyInv'
    BY <2>1, <2>2, ChainStays DEF IInv, CopyInv, Mined, RetryFits, QueuedIsOpen
  <2>5. SentInv' /\ TransferInv'
    BY <2>1, ChainStays, AccountsStay DEF Known, InHand, Uncompensated
  <2> QED
    BY <2>2, <2>3, <2>4, <2>5 DEF IInv
<1> QED
  BY <1>1, <1>2, <1>3, <1>4, <1>5, <1>6, QueryStep, BatchDoneStep DEF Next, MineNext

\* Whatever the deposits, the limits and the number of crashes, lost answers
\* and failed updates: the copy at hand tells the truth about the chain, and
\* every transaction sent is known to a row, to the copy or counted as lost.
THEOREM Invariance == Spec => []IInv
BY Initially, Inductive, PTL DEF Spec

-----------------------------------------------------------------------------
(* What follows from it.                                                   *)

\* The variables keep their types; the retry counter stays in its column.
THEOREM TypeCorrect == Spec => []TypeOK
<1>1. IInv => TypeOK
  BY DEF IInv
<1> QED
  BY <1>1, Invariance, PTL

\* No crash, timeout or retry makes a row claim what the chain does not show.
THEOREM RowsTellTheTruth == Spec => []RowMatchesChain
<1>1. IInv => RowMatchesChain
  BY DEF IInv
<1> QED
  BY <1>1, Invariance, PTL

\* A row is marked failed when its failed calls reach the limit, not before.
THEOREM RetriesAreCounted == Spec => []RetryDiscipline
<1>1. IInv => RetryDiscipline
  BY DEF IInv
<1> QED
  BY <1>1, Invariance, PTL

\* The bridge account makes up for reverted transactions only, once for each.
THEOREM TransfersMakeUp == Spec => []TransferOnlyAfterRevert
<1>1. IInv => TransferOnlyAfterRevert
  <2> SUFFICES ASSUME IInv, NEW d \in Deposits
               PROVE  Cardinality(Sent(d, "transfer"))
                        <= Cardinality(TxsOf(d, "deposit", "reverted"))
    BY DEF TransferOnlyAfterRevert
  <2> DEFINE T == TxsOf(d, "deposit", "reverted")
  <2>1. IsFiniteSet(T)
    <3>1. T \subseteq Sent(d, "deposit") /\ IsFiniteSet(Sent(d, "deposit"))
      BY SentFinite DEF TxsOf, IInv
    <3> QED
      BY <3>1, FS_Subset
  <2>2. Cardinality(T \ Uncompensated(d)) <= Cardinality(T)
    BY <2>1, FS_Subset
  <2>3. Cardinality(T \ Uncompensated(d)) \in Nat /\ Cardinality(T) \in Nat
    BY <2>1, FS_Subset, FS_CardinalityType
  <2>4. /\ Cardinality(Sent(d, "transfer")) \in Nat
        /\ Cardinality(Sent(d, "transfer")) <= Cardinality(T \ Uncompensated(d))
    BY SentFinite DEF IInv, TransferInv
  <2> HIDE DEF T
  <2>5. Cardinality(Sent(d, "transfer")) <= Cardinality(T)
    BY <2>2, <2>3, <2>4
  <2> QED
    BY <2>5 DEF T
<1> QED
  BY <1>1, Invariance, PTL

\* What the service may send for has nothing out, unless it was lost.
THEOREM RetriesSendNothingTwice == Spec => []RetryableIsUnsent
<1>1. IInv => RetryableIsUnsent
  <2> SUFFICES ASSUME IInv, NEW d \in ToHandle, lost[d] = 0, ~InHand(d), NEW i \in DOMAIN txs
               PROVE  txs[i].dep # d
    BY DEF RetryableIsUnsent
  <2>1. d \in DOMAIN rows /\ d \in Deposits /\ rows[d].b2Tx = NoTx
    BY DEF IInv, TypeOK, RowInv, QueuedIsOpen, ToHandle
  <2>2. ~Known(d)
    BY <2>1 DEF Known
  <2>3. Cardinality(Sent(d, "deposit")) = 0
    BY <2>1, <2>2 DEF IInv, SentInv
  <2>4. Sent(d, "deposit") = {}
    BY <2>3, SentFinite, FS_EmptySet DEF IInv
  <2>5. TxsOf(d, "deposit", "reverted") \ Uncompensated(d) = {}
    BY <2>4 DEF TxsOf
  <2>6. Cardinality(Sent(d, "transfer")) = 0
    <3>1. Cardinality({}) = 0
      BY FS_EmptySet
    <3>2. Cardinality(TxsOf(d, "deposit", "reverted") \ Uncompensated(d)) = 0
      BY <2>5, <3>1
    <3>3. Cardinality(Sent(d, "transfer")) \in Nat
      BY SentFinite DEF IInv
    <3>4. Cardinality(Sent(d, "transfer"))
            <= Cardinality(TxsOf(d, "deposit", "reverted") \ Uncompensated(d))
      BY <2>1 DEF IInv, TransferInv
    <3> QED
      BY <3>2, <3>3, <3>4
  <2>7. Sent(d, "transfer") = {}
    BY <2>6, SentFinite, FS_EmptySet DEF IInv
  <2>8. txs[i].kind \in {"deposit", "transfer"}
    BY TxsType DEF IInv, B2Tx
  <2> QED
    BY <2>4, <2>7, <2>8 DEF Sent
<1> QED
  BY <1>1, Invariance, PTL

\* The transactions of a deposit with one outcome are finitely many.
LEMMA TxsOfFinite ==
  ASSUME TypeOK, NEW d, NEW k, NEW s
  PROVE  /\ IsFiniteSet(TxsOf(d, k, s)) /\ Cardinality(TxsOf(d, k, s)) \in Nat
         /\ Cardinality(TxsOf(d, k, s)) <= Cardinality(Sent(d, k))
<1>1. TxsOf(d, k, s) \subseteq Sent(d, k) /\ IsFiniteSet(Sent(d, k))
  BY SentFinite DEF TxsOf
<1> QED
  BY <1>1, FS_Subset, FS_CardinalityType

\* Each transfer answers for a transaction that was reverted, and those are not
\* credits.
LEMMA CreditsFit == IInv => CreditsBounded
<1>1. ASSUME IInv, NEW d \in Deposits PROVE Credits(d) <= 1 + lost[d]
  <2> DEFINE S == Sent(d, "deposit")
             O == TxsOf(d, "deposit", "ok")
             R == TxsOf(d, "deposit", "reverted")
  <2>1. TypeOK
    BY <1>1 DEF IInv
  <2>2. /\ IsFiniteSet(O) /\ Cardinality(O) \in Nat
        /\ IsFiniteSet(R) /\ Cardinality(R) \in Nat
        /\ IsFiniteSet(S) /\ Cardinality(S) \in Nat
    BY <2>1, TxsOfFinite, SentFinite
  <2>3. O \cap R = {} /\ O \cup R \subseteq S
    BY DEF TxsOf
  <2>4. Cardinality(O \cup R) = Cardinality(O) + Cardinality(R)
    <3>1. Cardinality(O \cap R) = 0
      BY <2>3, FS_EmptySet
    <3>2. Cardinality(O \cup R) = Cardinality(O) + Cardinality(R) - Cardinality(O \cap R)
      BY <2>2, FS_Union
    <3> HIDE DEF O, R
    <3> QED
      BY <2>2, <3>1, <3>2
  <2>5. Cardinality(O \cup R) <= Cardinality(S)
    BY <2>2, <2>3, FS_Subset
  <2>6. Cardinality(S) <= 1 + lost[d] /\ lost[d] \in Nat
    BY <1>1 DEF IInv, TypeOK, SentInv
  <2>7. Cardinality(R \ Uncompensated(d)) <= Cardinality(R)
    BY <2>2, FS_Subset
  <2>8. Cardinality(R \ Uncompensated(d)) \in Nat
    BY <2>2, FS_Subset, FS_CardinalityType
  <2>9. /\ Cardinality(TxsOf(d, "transfer", "ok")) \in Nat
        /\ Cardinality(TxsOf(d, "transfer", "ok")) <= Cardinality(Sent(d, "transfer"))
        /\ Cardinality(Sent(d, "transfer")) \in Nat
    BY <2>1, TxsOfFinite, SentFinite
  <2>10. Cardinality(Sent(d, "transfer")) <= Cardinality(R \ Uncompensated(d))
    BY <1>1 DEF IInv, TransferInv
  <2>11. Credits(d) = Cardinality(O) + Cardinality(TxsOf(d, "transfer", "ok"))
    BY DEF Credits
  <2> HIDE DEF S, O, R
  <2> QED
    BY <2>2, <2>4, <2>5, <2>6, <2>7, <2>8, <2>9, <2>10, <2>11
<1> QED
  BY <1>1 DEF CreditsBounded

\* A deposit is paid at most once more than it has lost transactions.
THEOREM CreditsAreBounded == Spec => []CreditsBounded
BY CreditsFit, Invariance, PTL

\* Only the end of HandleDeposit writes a row, and it handles rows in the queue.
THEOREM TerminalRowsStay == Spec => TerminalStable
<1>1. IInv /\ [Next]_vars =>
        [\A d \in DOMAIN rows : rows[d].status \in Terminal => rows'[d] = rows[d]]_vars
  <2> SUFFICES ASSUME IInv, Next, NEW d \in DOMAIN rows, rows[d].status \in Terminal
               PROVE  rows'[d] = rows[d]
    BY DEF vars
  <2>1. CASE Update
    <3>1. pc = "update" /\ rows' = [rows EXCEPT ![dep] = row]
      BY <2>1 DEF Update
    <3>2. rows[dep].status \in Retryable
      BY <3>1, Handling
    <3>3. d # dep
      BY <3>2 DEF Retryable, Terminal
    <3> QED
      BY <3>1, <3>3
  <2>2. ASSUME NEW e, AddDeposit(e) PROVE rows'[d] = rows[d]
    BY <2>2 DEF AddDeposit
  <2>3. CASE HandleDeposit /\ ~Update
    BY <2>3 DEF HandleDeposit, SendRefused, SendErr, Send, WaitB2, TransferErr, Transfer,
                WaitEoa, UpdateErr, Goto
  <2>4. CASE MineNext \/ Query \/ QueryErr \/ BatchDone \/ Crash \/ \E e \in batch : Take(e)
    BY <2>4 DEF MineNext, Mine, Query, QueryErr, BatchDone, Crash, Die, Take
  <2> QED
    BY <2>1, <2>2, <2>3, <2>4 DEF Next
<1> QED
  BY <1>1, Invariance, PTL DEF Spec, TerminalStable

-----------------------------------------------------------------------------
(* Only faults lose transactions.                                          *)

\* What a fault or the next deposit may do to the count of losses.
LEMMA LossStays ==
  ASSUME IInv, FaultInv, faults' \in Nat,
         \/ lost' = lost /\ faults' >= faults
         \/ \E n \in {0, 1} : /\ lost' = [lost EXCEPT ![dep] = @ + n]
                              /\ faults' >= faults + n
  PROVE  \A d \in Deposits : lost'[d] <= faults'
<1>1. lost \in [Deposits -> Nat] /\ faults \in Nat
  BY DEF IInv, TypeOK
<1>2. ASSUME NEW d \in Deposits, NEW n \in {0, 1}, lost' = [lost EXCEPT ![dep] = @ + n],
             faults' >= faults + n
      PROVE  lost'[d] <= faults'
  <2>1. lost'[d] <= lost[d] + n /\ lost[d] \in Nat /\ lost'[d] \in Nat
    BY <1>1, <1>2
  <2> QED
    BY <1>1, <1>2, <2>1 DEF FaultInv
<1> QED
  BY <1>1, <1>2 DEF FaultInv

LEMMA FaultStep == ASSUME IInv, FaultInv, [Next]_vars PROVE FaultInv'
<1> DEFINE Losses == \A d \in Deposits : lost'[d] <= faults'
<1>1. /\ TypeOK /\ faults \in Nat /\ MaxFaults \in Nat /\ lost \in [Deposits -> Nat]
      /\ row \in Row
  BY DEF IInv, TypeOK
<1>2. ASSUME UNCHANGED <<lost, faults>> PROVE Losses
  BY <1>1, <1>2, LossStays
<1>3. ASSUME row' = NewRow, Losses PROVE FaultInv'
  BY <1>3 DEF FaultInv, NewRow
<1>4. ASSUME row'.b2Tx = row.b2Tx, row'.retry = row.retry, Losses PROVE FaultInv'
  BY <1>4 DEF FaultInv, Fits
<1>5. Unrecorded \in {0, 1}
  BY DEF Unrecorded
<1>6. pc = "send" => row.b2Tx = NoTx /\ row.retry <= SmallintMax
  <2> SUFFICES ASSUME pc = "send" PROVE row.b2Tx = NoTx /\ row.retry <= SmallintMax
    OBVIOUS
  <2>1. row = [rows[dep] EXCEPT !.eoaStatus = DepositB2EoaTxStatusPending]
    BY DEF IInv, CopyInv
  <2>2. rows[dep] \in Row /\ rows[dep].b2Tx = NoTx /\ rows[dep].retry <= SmallintMax
    BY Handling
  <2> QED
    BY <2>1, <2>2 DEF Row
<1>7. ASSUME NEW d \in batch, Take(d) PROVE FaultInv'
  <2>1. d \in DOMAIN rows /\ rows[d] \in Row /\ rows[d].b2Tx = NoTx
    BY DEF IInv, TypeOK, BatchInv, ToHandle, RowInv, QueuedIsOpen
  <2>2. row'.b2Tx = NoTx
    BY <1>7, <2>1 DEF Take, Row
  <2>3. Losses
    BY <1>2, <1>7 DEF Take
  <2> QED
    BY <2>2, <2>3 DEF FaultInv
<1>8. CASE SendRefused \/ WaitB2 \/ WaitEoa \/ Transfer
  <2>1. Losses
    BY <1>2, <1>8 DEF SendRefused, WaitB2, WaitEoa, Transfer
  <2>2. row'.b2Tx = row.b2Tx /\ row'.retry = row.retry
    BY <1>1, <1>8 DEF SendRefused, WaitB2, WaitEoa, Transfer, Row
  <2> QED
    BY <1>4, <2>1, <2>2
<1>9. CASE Send
  <2>1. Losses
    BY <1>2, <1>9 DEF Send
  <2>2. row'.retry = row.retry
    BY <1>1, <1>9 DEF Send, Row
  <2> QED
    BY <1>6, <1>9, <2>1, <2>2 DEF FaultInv, Fits, Send
<1>10. CASE SendErr
  <2>1. row'.b2Tx = NoTx
    BY <1>1, <1>6, <1>10 DEF SendErr, Retried, Row
  <2>2. CASE UNCHANGED <<lost, faults>>
    BY <1>2, <2>1, <2>2 DEF FaultInv
  <2>3. CASE LoseAnswer
    <3>1. lost' = [lost EXCEPT ![dep] = @ + 1] /\ faults' >= faults + 1 /\ faults' \in Nat
      BY <1>1, <2>3 DEF LoseAnswer
    <3>2. Losses
      BY <3>1, LossStays
    <3> QED
      BY <2>1, <3>2 DEF FaultInv
  <2> QED
    BY <1>10, <2>2, <2>3 DEF SendErr
<1>11. CASE TransferErr
  <2>1. row'.b2Tx = row.b2Tx /\ row'.retry = row.retry
    BY <1>1, <1>11 DEF TransferErr, Row
  <2>2. lost' = lost /\ faults' >= faults /\ faults' \in Nat
    BY <1>1, <1>11 DEF TransferErr
  <2> QED
    BY <1>4, <2>1, <2>2, LossStays
<1>12. CASE Update
  BY <1>2, <1>3, <1>12 DEF Update, NextInBatch
<1>13. CASE UpdateErr
  <2>1. rows[dep].b2Tx = NoTx
    BY <1>13, Handling DEF UpdateErr
  <2>2. ~Fits(row) => Unrecorded = 0
    BY <2>1 DEF FaultInv, Unrecorded
  <2>3. /\ lost' = [lost EXCEPT ![dep] = @ + Unrecorded]
        /\ faults' >= faults + Unrecorded /\ faults' \in Nat
    <3>1. CASE Fits(row)
      BY <1>1, <1>5, <1>13, <3>1 DEF UpdateErr
    <3>2. CASE ~Fits(row)
      BY <1>1, <1>13, <2>2, <3>2 DEF UpdateErr
    <3> QED
      BY <3>1, <3>2
  <2>4. Losses
    BY <1>5, <2>3, LossStays
  <2> QED
    BY <1>3, <1>13, <2>4 DEF UpdateErr, NextInBatch
<1>14. CASE Crash
  <2>1. /\ \/ lost' = lost
           \/ lost' = [lost EXCEPT ![dep] = @ + Unrecorded]
        /\ faults' = faults + 1
    BY <1>14 DEF Crash, Die
  <2>2. faults' >= faults /\ faults' >= faults + Unrecorded /\ faults' \in Nat
    BY <1>1, <1>5, <2>1
  <2>3. Losses
    BY <1>5, <2>1, <2>2, LossStays
  <2> QED
    BY <1>3, <1>14, <2>3 DEF Crash, Die
<1>15. CASE UNCHANGED <<row, lost, faults>>
  BY <1>2, <1>4, <1>15
<1> QED
  BY <1>7, <1>8, <1>9, <1>10, <1>11, <1>12, <1>13, <1>14, <1>15
     DEF Next, HandleDeposit, AddDeposit, MineNext, Mine, Query, QueryErr, BatchDone, vars

LEMMA FaultsHold == Spec => [](IInv /\ FaultInv)
<1>1. Init => FaultInv
  BY DEF Init, FaultInv, NewRow
<1> QED
  BY <1>1, FaultStep, Invariance, PTL DEF Spec

\* Whatever is paid more than once, a crash, a lost answer or a failed update of
\* the database has come first, once for each time (HandleDeposit).
THEOREM FaultsPayAgain == Spec => []CreditsNeedFaults
<1>1. IInv /\ FaultInv => CreditsNeedFaults
  <2> SUFFICES ASSUME IInv, FaultInv, NEW d \in Deposits PROVE Credits(d) <= 1 + faults
    BY DEF CreditsNeedFaults
  <2>1. /\ Credits(d) <= 1 + lost[d] /\ lost[d] <= faults
        /\ lost[d] \in Nat /\ faults \in Nat
    BY CreditsFit DEF CreditsBounded, FaultInv, IInv, TypeOK
  <2>2. Credits(d) \in Nat
    BY TxsOfFinite DEF Credits, IInv
  <2> QED
    BY <2>1, <2>2
<1> QED
  BY <1>1, FaultsHold, PTL

\* The claim of bridge.go, that a deposit is not processed repeatedly, is true
\* of a service that meets no fault.
THEOREM OncePaidWithoutFaults ==
  ASSUME MaxFaults = 0
  PROVE  Spec => []AtMostOneCredit
<1>1. TypeOK /\ CreditsNeedFaults => AtMostOneCredit
  BY DEF TypeOK, CreditsNeedFaults, AtMostOneCredit
<1> QED
  BY <1>1, FaultsPayAgain, TypeCorrect, PTL

-----------------------------------------------------------------------------
(* What the other services may rely on, step by step.                      *)

\* Every transaction is one for a deposit on record.
OnRecord == \A i \in DOMAIN txs : txs[i].dep \in DOMAIN rows

\* No row is ever deleted, and HandleDeposit sends for rows it has read.
LEMMA OnRecordStep ==
  ASSUME IInv, OnRecord, [Next]_vars \/ Die
  PROVE  OnRecord'
<1>1. DOMAIN rows \subseteq DOMAIN rows'
  BY DEF Next, vars, AddDeposit, MineNext, Mine, Query, QueryErr, BatchDone, Take,
         HandleDeposit, SendRefused, SendErr, Send, WaitB2, TransferErr, Transfer,
         WaitEoa, Update, UpdateErr, Goto, Crash, Die
<1>2. ASSUME NEW k, Submit(k), dep \in DOMAIN rows PROVE OnRecord'
  <2>1. /\ txs' = Append(txs, [dep |-> dep, kind |-> k, state |-> "sent"])
        /\ txs \in Seq(B2Tx)
    BY <1>2 DEF Submit, IInv, TypeOK
  <2>2. \A i \in DOMAIN txs' : \/ i \in DOMAIN txs /\ txs'[i] = txs[i]
                              \/ txs'[i].dep = dep
    BY <2>1
  <2> QED
    BY <1>1, <1>2, <2>2 DEF OnRecord
<1>3. ASSUME NEW i \in DOMAIN txs, Mine(i) PROVE OnRecord'
  <2>1. PICK o : txs' = [txs EXCEPT ![i].state = o]
    BY <1>3 DEF Mine
  <2>2. DOMAIN txs' = DOMAIN txs /\ \A j \in DOMAIN txs : txs'[j].dep = txs[j].dep
    BY <1>3, <2>1, TxsType DEF B2Tx, IInv, TypeOK
  <2> QED
    BY <1>1, <2>2 DEF OnRecord
<1>4. CASE UNCHANGED txs
  BY <1>1, <1>4 DEF OnRecord
<1>5. CASE HandleDeposit
  <2>1. \/ UNCHANGED txs
        \/ /\ pc \in {"send", "transfer"}
           /\ \E k \in {"deposit", "transfer"} : Submit(k)
    BY <1>5 DEF HandleDeposit, SendRefused, SendErr, Send, WaitB2, TransferErr, Transfer,
                WaitEoa, Update, UpdateErr
  <2>2. pc \in {"send", "transfer"} => dep \in DOMAIN rows
    BY DEF IInv, TypeOK
  <2> QED
    BY <1>2, <1>4, <2>1, <2>2
<1> QED
  BY <1>3, <1>4, <1>5 DEF Next, vars, AddDeposit, MineNext, Query, QueryErr,
                              BatchDone, Take, Crash, Die

\* A row is added unpaid, or changed while it is in the queue, unpaid; what it
\* then says of its transactions are numbers.
Added(d) == /\ d \notin DOMAIN rows /\ DOMAIN rows' = DOMAIN rows \cup {d}
            /\ rows'[d].eoaStatus # DepositB2EoaTxStatusSuccess
            /\ \A e \in DOMAIN rows : rows'[e] = rows[e]

Updated(d) == /\ d \in DOMAIN rows /\ DOMAIN rows' = DOMAIN rows
              /\ rows[d].eoaStatus # DepositB2EoaTxStatusSuccess
              /\ rows'[d].b2Tx \in Nat /\ rows'[d].eoaTx \in Nat
              /\ \A e \in DOMAIN rows \ {d} : rows'[e] = rows[e]

LEMMA RowsMove ==
  ASSUME IInv, [Next]_vars \/ Die
  PROVE  UNCHANGED rows \/ \E d \in Deposits : Added(d) \/ Updated(d)
<1>1. CASE Update
  <2>1. /\ pc = "update" /\ rows' = [rows EXCEPT ![dep] = row]
        /\ dep \in DOMAIN rows /\ dep \in Deposits /\ row \in Row
    BY <1>1 DEF Update, IInv, TypeOK
  <2>2. rows[dep].status \in Retryable
    BY <2>1, Handling
  <2>3. rows[dep].eoaStatus # DepositB2EoaTxStatusSuccess
    BY <2>1, <2>2 DEF IInv, RowMatchesChain, Truthful, Retryable
  <2>4. /\ DOMAIN rows' = DOMAIN rows /\ rows'[dep] = row
        /\ \A e \in DOMAIN rows \ {dep} : rows'[e] = rows[e]
        /\ row.b2Tx \in Nat /\ row.eoaTx \in Nat
    BY <2>1 DEF Row
  <2>5. Updated(dep)
    BY <2>1, <2>3, <2>4 DEF Updated
  <2> QED
    BY <2>1, <2>5
<1>2. ASSUME NEW d \in Deposits, AddDeposit(d) PROVE Added(d)
  BY <1>2 DEF AddDeposit, Added, NewRow
<1>3. CASE HandleDeposit /\ ~Update
  BY <1>3 DEF HandleDeposit, SendRefused, SendErr, Send, WaitB2, TransferErr, Transfer,
              WaitEoa, UpdateErr, Goto
<1>4. CASE \/ MineNext \/ Query \/ QueryErr \/ BatchDone \/ Crash \/ Die
           \/ \E e \in batch : Take(e)
  BY <1>4 DEF MineNext, Mine, Query, QueryErr, BatchDone, Crash, Die, Take
<1> QED
  BY <1>1, <1>2, <1>3, <1>4 DEF Next, vars
=============================================================================
