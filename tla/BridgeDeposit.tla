---------------------------- MODULE BridgeDeposit ----------------------------
(***************************************************************************)
(* BridgeDepositService (internal/logic/bitcoin/bridge_deposit_service.go) *)
(* and the part of Bridge (bridge.go) it calls: it reads the rows of       *)
(* deposit_history that are still to be paid, sends a deposit transaction  *)
(* to the bridge contract on the B2 chain for each, waits for it to be     *)
(* mined and, when it was reverted, transfers the amount from its own      *)
(* account instead; the outcome is written to the row at the end, once.    *)
(*                                                                         *)
(* External: the B2 chain and its node.  It mines the transactions of the  *)
(* bridge account in the order of their nonces, its contract reverts a     *)
(* deposit whose bitcoin hash it has already processed, and estimateGas    *)
(* tells what would happen on top of the latest block.  No transaction is  *)
(* dropped or replaced.  Amounts and addresses are left out.               *)
(***************************************************************************)
EXTENDS Naturals, Sequences, FiniteSets

CONSTANTS Deposits,       \* the bitcoin transactions the indexer records
          DepositRetry,   \* failed calls after which a row is marked failed
          SmallintMax,    \* the largest value column b2_tx_retry holds
          BatchLimit,     \* rows read in one query
          MaxFaults       \* bound: crashes, lost answers, failed updates

ASSUME LimitsAssumption ==
  /\ DepositRetry \in Nat \ {0} /\ SmallintMax \in Nat /\ DepositRetry <= SmallintMax
  /\ BatchLimit \in Nat \ {0} /\ MaxFaults \in Nat
ASSUME DepositsAssumption == IsFiniteSet(Deposits)

\* model/deposit.go
DepositB2TxStatusSuccess                    == 0
DepositB2TxStatusPending                    == 1
DepositB2TxStatusFailed                     == 2
DepositB2TxStatusWaitMinedFailed            == 3
DepositB2TxStatusTxHashExist                == 4
DepositB2TxStatusWaitMinedStatusFailed      == 5
DepositB2TxStatusInsufficientBalance        == 6
DepositB2TxStatusContextDeadlineExceeded    == 7
DepositB2TxStatusFromAccountGasInsufficient == 8

DepositB2EoaTxStatusSuccess                 == 0
DepositB2EoaTxStatusPending                 == 1
DepositB2EoaTxStatusFailed                  == 2
DepositB2EoaTxStatusWaitMinedFailed         == 3
DepositB2EoaTxStatusContextDeadlineExceeded == 7

VARIABLES
  rows,     \* table deposit_history: its rows, by bitcoin transaction
  txs,      \* the B2 transactions of the bridge account, by nonce
  pc,       \* where the service is
  batch,    \* the deposits of the batch that are still to be handled
  dep, row, \* the deposit at hand and the copy of its row (deposit)
  lost,     \* history: transactions sent that the row never came to know of
  faults    \* bound

vars == <<rows, txs, pc, batch, dep, row, lost, faults>>

NoTx == 0

Row == [status : 0 .. 8, retry : Nat, b2Tx : Nat,
        eoaStatus : {0, 1, 2, 3, 7}, eoaTx : Nat]

B2Tx == [dep : Deposits, kind : {"deposit", "transfer"},
         state : {"sent", "ok", "reverted"}]

NewRowNoDefault ==  \* mutant: the zero of the eoa status means success
  [status |-> DepositB2TxStatusPending, retry |-> 0, b2Tx |-> NoTx,
   eoaStatus |-> DepositB2EoaTxStatusSuccess, eoaTx |-> NoTx]

\* A row as IndexerService inserts it; gorm leaves the eoa status, zero, to the
\* default of its column.
NewRow == [status |-> DepositB2TxStatusPending, retry |-> 0, b2Tx |-> NoTx,
           eoaStatus |-> DepositB2EoaTxStatusPending, eoaTx |-> NoTx]

TypeOK ==
  /\ DOMAIN rows \subseteq Deposits
  /\ rows \in [DOMAIN rows -> Row]
  /\ \A d \in DOMAIN rows : rows[d].retry <= SmallintMax
  /\ txs \in Seq(B2Tx)
  /\ pc \in {"idle", "batch", "send", "waitB2", "transfer", "waitEoa", "update"}
  /\ batch \subseteq DOMAIN rows
  /\ pc \notin {"idle", "batch"} => dep \in DOMAIN rows
  /\ row \in Row
  /\ lost \in [Deposits -> Nat]
  /\ faults \in 0 .. MaxFaults

Init ==
  /\ rows = [d \in {} |-> NewRow]
  /\ txs = <<>>
  /\ pc = "idle"
  /\ batch = {}
  /\ dep \in Deposits /\ row = NewRow
  /\ lost = [d \in Deposits |-> 0]
  /\ faults = 0

-----------------------------------------------------------------------------
(* The indexer and the B2 chain.                                           *)

AddDeposit(d) ==
  /\ d \notin DOMAIN rows
  /\ rows' = [x \in DOMAIN rows \cup {d} |-> IF x = d THEN NewRow ELSE rows[x]]
  /\ UNCHANGED <<txs, pc, batch, dep, row, lost, faults>>

\* The contract has paid deposit d.
Processed(d) == \E i \in DOMAIN txs : /\ txs[i].dep = d
                                      /\ txs[i].kind = "deposit"
                                      /\ txs[i].state = "ok"

\* What executing transaction i may come to.  A revert may have any reason.
Outcomes(i) == IF txs[i].kind = "deposit" /\ Processed(txs[i].dep)
                 THEN {"reverted"}
                 ELSE {"ok", "reverted"}

Mine(i) ==
  /\ txs[i].state = "sent"
  /\ \A j \in 1 .. i - 1 : txs[j].state # "sent"
  /\ \E o \in Outcomes(i) : txs' = [txs EXCEPT ![i].state = o]
  /\ UNCHANGED <<rows, pc, batch, dep, row, lost, faults>>

MineNext == \E i \in DOMAIN txs : Mine(i)

-----------------------------------------------------------------------------
(* OnStart: a batch of rows every ten seconds.                             *)

RetryableTimedOut ==  \* mutant
  {DepositB2TxStatusPending, DepositB2TxStatusInsufficientBalance,
   DepositB2TxStatusFromAccountGasInsufficient, DepositB2TxStatusFailed,
   DepositB2TxStatusContextDeadlineExceeded}
RetryableExisting ==  \* mutant
  {DepositB2TxStatusPending, DepositB2TxStatusInsufficientBalance,
   DepositB2TxStatusFromAccountGasInsufficient, DepositB2TxStatusFailed,
   DepositB2TxStatusTxHashExist}
RetryableUnlessFailed ==  \* mutant
  {DepositB2TxStatusPending, DepositB2TxStatusInsufficientBalance,
   DepositB2TxStatusFromAccountGasInsufficient}
RetryableReverted ==  \* mutant
  {DepositB2TxStatusPending, DepositB2TxStatusInsufficientBalance,
   DepositB2TxStatusFromAccountGasInsufficient, DepositB2TxStatusFailed,
   DepositB2TxStatusWaitMinedStatusFailed}
Retryable == {DepositB2TxStatusPending, DepositB2TxStatusInsufficientBalance,
              DepositB2TxStatusFromAccountGasInsufficient, DepositB2TxStatusFailed}

ToHandle == {d \in DOMAIN rows : rows[d].status \in Retryable}

\* LIMIT without ORDER BY: any rows, as many as the limit allows.  The copies
\* the query made are those of Take: only this service changes these rows, and
\* it handles a row once per batch.
Query ==
  /\ pc = "idle"
  /\ batch' \in {b \in SUBSET ToHandle :
                   \/ b = ToHandle /\ Cardinality(b) <= BatchLimit
                   \/ Cardinality(b) = BatchLimit}
  /\ pc' = "batch"
  /\ UNCHANGED <<rows, txs, dep, row, lost, faults>>

\* An error is logged; what was read of the rows before it is handled.
QueryErr ==
  /\ pc = "idle"
  /\ batch' \in {b \in SUBSET ToHandle : Cardinality(b) <= BatchLimit}
  /\ pc' = "batch"
  /\ UNCHANGED <<rows, txs, dep, row, lost, faults>>

\* HandleDeposit starts: the copy gets the initial eoa status.
Take(d) ==
  /\ pc = "batch"
  /\ d \in batch
  /\ batch' = batch \ {d}
  /\ dep' = d
  /\ row' = [rows[d] EXCEPT !.eoaStatus = DepositB2EoaTxStatusPending]
  /\ pc' = "send"
  /\ UNCHANGED <<rows, txs, lost, faults>>

BatchDone ==
  /\ pc = "batch" /\ batch = {}
  /\ pc' = "idle"
  /\ UNCHANGED <<rows, txs, batch, dep, row, lost, faults>>

-----------------------------------------------------------------------------
(* HandleDeposit: the deposit transaction.                                 *)

Goto(label) == pc' = label /\ UNCHANGED <<rows, batch, dep>>

Submit(kind) == txs' = Append(txs, [dep |-> dep, kind |-> kind, state |-> "sent"])

\* The answer of the node to SendTransaction does not arrive.
LoseAnswer == /\ faults < MaxFaults
              /\ faults' = faults + 1
              /\ lost' = [lost EXCEPT ![dep] = @ + 1]

\* estimateGas fails with one of the errors sendTransaction knows; what the
\* accounts hold may be missing whether or not the deposit is processed.
Refusals == {DepositB2TxStatusInsufficientBalance,
             DepositB2TxStatusFromAccountGasInsufficient}
            \cup (IF Processed(dep) THEN {DepositB2TxStatusTxHashExist} ELSE {})

SendRefused ==
  /\ pc = "send"
  /\ \E s \in Refusals : row' = [row EXCEPT !.status = s]
  /\ Goto("update")
  /\ UNCHANGED <<txs, lost, faults>>

\* Any other error counts as one try.
RetriedBeyond(r) ==  \* mutant
  [r EXCEPT !.retry = @ + 1,
            !.status = IF r.retry + 1 > DepositRetry THEN DepositB2TxStatusFailed
                                                     ELSE DepositB2TxStatusPending]
Retried(r) ==
  [r EXCEPT !.retry = @ + 1,
            !.status = IF r.retry + 1 >= DepositRetry THEN DepositB2TxStatusFailed
                                                      ELSE DepositB2TxStatusPending]

SendErr ==
  /\ pc = "send"
  /\ row' = Retried(row)
  /\ Goto("update")
  /\ \/ UNCHANGED <<txs, lost, faults>>
     \/ ~Processed(dep) /\ Submit("deposit") /\ LoseAnswer

Send ==
  /\ pc = "send"
  /\ ~Processed(dep)
  /\ Submit("deposit")
  /\ row' = [row EXCEPT !.status = DepositB2TxStatusSuccess, !.b2Tx = Len(txs) + 1]
  /\ Goto("waitB2")
  /\ UNCHANGED <<lost, faults>>

\* WaitMined returned: what becomes of the status Success set above.
WaitMinedStatusesHasty(state) ==  \* mutant
  (IF state = "reverted" THEN {DepositB2TxStatusWaitMinedStatusFailed}
                         ELSE {DepositB2TxStatusSuccess})
  \cup {DepositB2TxStatusContextDeadlineExceeded, DepositB2TxStatusWaitMinedFailed}
WaitMinedStatuses(state) ==
  (CASE state = "ok" -> {DepositB2TxStatusSuccess}
     [] state = "reverted" -> {DepositB2TxStatusWaitMinedStatusFailed}
     [] OTHER -> {})
  \cup {DepositB2TxStatusContextDeadlineExceeded, DepositB2TxStatusWaitMinedFailed}

\* Only a revert is tried again, by a transfer.
AfterWaitAnyError(status) ==  \* mutant
  IF status # DepositB2TxStatusSuccess THEN "transfer" ELSE "update"
AfterWait(status) == IF status = DepositB2TxStatusWaitMinedStatusFailed
                       THEN "transfer" ELSE "update"

WaitB2 ==
  /\ pc = "waitB2"
  /\ \E s \in WaitMinedStatuses(txs[row.b2Tx].state) :
       /\ row' = [row EXCEPT !.status = s]
       /\ Goto(AfterWait(s))
  /\ UNCHANGED <<txs, lost, faults>>

-----------------------------------------------------------------------------
(* HandleDeposit: the eoa transfer.                                        *)

\* The call failed; the transfer may have been sent all the same.
TransferErr ==
  /\ pc = "transfer"
  /\ row' = [row EXCEPT !.eoaStatus = DepositB2EoaTxStatusFailed]
  /\ Goto("update")
  /\ UNCHANGED lost
  /\ \/ UNCHANGED <<txs, faults>>
     \/ Submit("transfer") /\ faults < MaxFaults /\ faults' = faults + 1

Transfer ==
  /\ pc = "transfer"
  /\ Submit("transfer")
  /\ row' = [row EXCEPT !.eoaTx = Len(txs) + 1]
  /\ Goto("waitEoa")
  /\ UNCHANGED <<lost, faults>>

EoaWaitStatuses(state) ==
  (IF state = "ok" THEN {DepositB2EoaTxStatusSuccess} ELSE {})
  \cup {DepositB2EoaTxStatusContextDeadlineExceeded, DepositB2EoaTxStatusWaitMinedFailed}

WaitEoa ==
  /\ pc = "waitEoa"
  /\ \E s \in EoaWaitStatuses(txs[row.eoaTx].state) : row' = [row EXCEPT !.eoaStatus = s]
  /\ Goto("update")
  /\ UNCHANGED <<txs, lost, faults>>

-----------------------------------------------------------------------------
(* HandleDeposit: the row is updated, all of its fields in one statement.  *)

\* This attempt sent a deposit transaction the row does not know of.
Unrecorded == IF row.b2Tx # rows[dep].b2Tx THEN 1 ELSE 0

FitsAlways(r) == r \in Row  \* mutant
Fits(r) == r.retry <= SmallintMax

NextInBatch == pc' = "batch" /\ row' = NewRow

Update ==
  /\ pc = "update"
  /\ Fits(row)
  /\ rows' = [rows EXCEPT ![dep] = row]
  /\ NextInBatch
  /\ UNCHANGED <<txs, batch, dep, lost, faults>>

\* The statement fails, because of the database or because the retry counter
\* does not fit its column: the row keeps its old fields.
UpdateErr ==
  /\ pc = "update"
  /\ IF Fits(row) THEN faults < MaxFaults /\ faults' = faults + 1
                  ELSE UNCHANGED faults
  /\ lost' = [lost EXCEPT ![dep] = @ + Unrecorded]
  /\ NextInBatch
  /\ UNCHANGED <<rows, txs, batch, dep>>

\* The process ends: the batch and the copy at hand are gone.
Die ==
  /\ lost' = IF pc \in {"idle", "batch"} THEN lost ELSE [lost EXCEPT ![dep] = @ + Unrecorded]
  /\ pc' = "idle" /\ batch' = {} /\ row' = NewRow
  /\ UNCHANGED <<rows, txs, dep>>

Crash ==
  /\ pc # "idle"
  /\ faults < MaxFaults /\ faults' = faults + 1
  /\ Die

-----------------------------------------------------------------------------
HandleDeposit == \/ SendRefused \/ SendErr \/ Send \/ WaitB2
                 \/ TransferErr \/ Transfer \/ WaitEoa
                 \/ Update \/ UpdateErr

Next == \/ \E d \in Deposits : AddDeposit(d)
        \/ MineNext
        \/ Query \/ QueryErr \/ BatchDone \/ \E d \in batch : Take(d)
        \/ HandleDeposit
        \/ Crash

Spec == Init /\ [][Next]_vars

\* The service never stops by itself; the database answers some of its queries;
\* of the attempts to send the transaction
\* of one deposit, tried again and again, some get through to the chain.
Settles(d) ==
  dep = d /\ (Send \/ (SendRefused /\ row'.status = DepositB2TxStatusTxHashExist))

Fairness ==
  /\ SF_vars(Query) /\ WF_vars(BatchDone) /\ WF_vars(\E d \in batch : Take(d))
  /\ WF_vars(HandleDeposit)
  /\ \A d \in Deposits : SF_vars(Settles(d))

FairSpec == Spec /\ Fairness

-----------------------------------------------------------------------------
(* Safety.                                                                 *)

Sent(d, kind) == {i \in DOMAIN txs : txs[i].dep = d /\ txs[i].kind = kind}

TxsOf(d, kind, state) == {i \in Sent(d, kind) : txs[i].state = state}

\* How often deposit d was paid on the B2 chain, one way or the other.
Credits(d) == Cardinality(TxsOf(d, "deposit", "ok")) + Cardinality(TxsOf(d, "transfer", "ok"))

\* Transaction i is of that kind and for d, and was mined with that outcome.
Mined(i, d, kind, state) == i \in TxsOf(d, kind, state)

\* What the fields r of deposit d say about the chain is true.
Truthful(d, r) ==
  /\ r.status = DepositB2TxStatusSuccess => Mined(r.b2Tx, d, "deposit", "ok")
  /\ r.status = DepositB2TxStatusTxHashExist => Processed(d)
  /\ r.status = DepositB2TxStatusWaitMinedStatusFailed =>
       Mined(r.b2Tx, d, "deposit", "reverted")
  /\ r.eoaStatus = DepositB2EoaTxStatusSuccess =>
       /\ r.status = DepositB2TxStatusWaitMinedStatusFailed
       /\ Mined(r.eoaTx, d, "transfer", "ok")

\* What a row says about the chain is true: a success was mined, an existing
\* hash was paid, a failed receipt is there, and the eoa transfer of a row
\* counts as paid only after the deposit was reverted (HandleDeposit).
RowMatchesChain == \A d \in DOMAIN rows : Truthful(d, rows[d])

\* The bridge account pays from its own pocket at most once for each deposit
\* transaction of that deposit which was mined and reverted: never after a
\* timeout, when the deposit may still be mined.
TransferOnlyAfterRevert ==
  \A d \in Deposits :
    Cardinality(Sent(d, "transfer")) <= Cardinality(TxsOf(d, "deposit", "reverted"))

\* A deposit is paid once, and once more at most for every deposit transaction
\* whose existence a crash, a lost answer or a failed update hid from its row.
\* Without such a loss reverts, timeouts and refused calls never pay twice.
CreditsBounded == \A d \in Deposits : Credits(d) <= 1 + lost[d]

\* It takes a fault to pay a deposit once more: refused and timed out calls,
\* reverts, and a retry counter that outgrew its column hide no transaction.
CreditsNeedFaults == \A d \in Deposits : Credits(d) <= 1 + faults

\* HandleDeposit has deposit d.
InHand(d) == dep = d /\ pc \notin {"idle", "batch"}

\* A row the service will send for (again) stands for a deposit without any
\* transaction on the chain or in the pool, unless one was lost: no timeout or
\* error path puts a deposit that was sent back into the queue.
RetryableIsUnsent ==
  \A d \in ToHandle :
    lost[d] = 0 /\ ~InHand(d) =>
      \A i \in DOMAIN txs : txs[i].dep # d

\* The retry counter and the status of the fields r agree.
RetryFits(r) == /\ r.status = DepositB2TxStatusPending => r.retry < DepositRetry
                /\ r.status = DepositB2TxStatusFailed => r.retry >= DepositRetry

\* The retry counter and the status agree: a row is marked failed exactly when
\* its failed calls reach the limit, whatever other refusals came in between.
RetryDiscipline == \A d \in DOMAIN rows : RetryFits(rows[d])

\* Paid, or left to a person.
Terminal == {DepositB2TxStatusSuccess, DepositB2TxStatusWaitMinedFailed,
             DepositB2TxStatusTxHashExist, DepositB2TxStatusWaitMinedStatusFailed,
             DepositB2TxStatusContextDeadlineExceeded}

\* A row that left the queue, paid or waiting for a person, is never changed.
TerminalStable ==
  [][\A d \in DOMAIN rows : rows[d].status \in Terminal => rows'[d] = rows[d]]_vars

-----------------------------------------------------------------------------
(* The inductive invariant: what the copy at hand stands for.              *)

\* A deposit in the queue has no transaction its row knows of.
QueuedIsOpen(r) == r.status \in Retryable => r.b2Tx = NoTx

RowInv == \A d \in DOMAIN rows : QueuedIsOpen(rows[d])

\* The rows of the batch are still as the query found them: in the queue.
BatchInv == /\ batch \subseteq ToHandle
            /\ pc \notin {"idle", "batch"} => dep \in ToHandle \ batch

\* How far HandleDeposit has got, and what it knows by then.
CopyInv ==
  /\ pc \in {"idle", "batch"} => row = NewRow
  /\ pc = "send" => row = [rows[dep] EXCEPT !.eoaStatus = DepositB2EoaTxStatusPending]
  /\ pc = "waitB2" => row.b2Tx \in Sent(dep, "deposit")
  /\ pc \in {"transfer", "waitEoa"} =>
       /\ row.status = DepositB2TxStatusWaitMinedStatusFailed
       /\ Mined(row.b2Tx, dep, "deposit", "reverted")
  /\ pc = "waitEoa" => row.eoaTx \in Sent(dep, "transfer")
  /\ pc \in {"waitB2", "transfer", "waitEoa"} => row.eoaStatus = DepositB2EoaTxStatusPending
  /\ pc = "update" => Truthful(dep, row) /\ RetryFits(row) /\ QueuedIsOpen(row)

\* The row of d, or the copy of it at hand, knows of a deposit transaction.
Known(d) == \/ d \in DOMAIN rows /\ rows[d].b2Tx # NoTx
            \/ InHand(d) /\ row.b2Tx # NoTx

\* Every deposit transaction is known or lost.
SentInv ==
  \A d \in Deposits :
    Cardinality(Sent(d, "deposit")) = lost[d] + (IF Known(d) THEN 1 ELSE 0)

\* The deposit transaction that no transfer has been made for yet.
Uncompensated(d) == IF dep = d /\ pc \in {"waitB2", "transfer"} THEN {row.b2Tx} ELSE {}

TransferInv ==
  \A d \in Deposits :
    Cardinality(Sent(d, "transfer"))
      <= Cardinality(TxsOf(d, "deposit", "reverted") \ Uncompensated(d))

\* What every step preserves and the invariants above follow from: what the
\* copy at hand knows of the chain, and every transaction accounted for.
IInv == /\ TypeOK
        /\ RowMatchesChain /\ RetryDiscipline
        /\ RowInv /\ BatchInv /\ CopyInv /\ SentInv /\ TransferInv

\* An attempt that sent its transaction has not counted a failed try, so that its
\* update fails only by a fault, and so does whatever else loses a transaction.
FaultInv == /\ row.b2Tx # NoTx => Fits(row)
            /\ \A d \in Deposits : lost[d] <= faults

-----------------------------------------------------------------------------
(* The bridge keeps the promise of DepositPayout.                          *)

Payout == INSTANCE DepositPayout WITH
            orders    <- [d \in Deposits |-> Sent(d, "deposit")],
            transfers <- [d \in Deposits |-> Sent(d, "transfer")],
            reverted  <- {i \in DOMAIN txs : txs[i].state = "reverted"},
            hidden    <- lost,
            closed    <- {d \in DOMAIN rows : rows[d].status \in Terminal}

\* Batches, retries, timeouts and crashes all implement a payout that sends a
\* second transaction for a deposit only when it does not know of the first,
\* transfers only for reverted ones, and then leaves the deposit alone.
ImplementsPayout == Payout!PayoutSpec

-----------------------------------------------------------------------------
(* Liveness.                                                               *)

\* Every deposit leaves the queue in the end, however often its calls were
\* refused and even after it was marked failed, as long as the rows in the
\* queue fit into one batch.
EveryDepositHandled ==
  \A d \in Deposits :
    d \in DOMAIN rows ~> d \in DOMAIN rows /\ rows[d].status \in Terminal

-----------------------------------------------------------------------------
(* A claim of the code that does not hold.                                 *)

\* "non-repeatable processing" (bridge.go): a bitcoin transaction is paid once.
AtMostOneCredit == \A d \in Deposits : Credits(d) <= 1
=============================================================================
