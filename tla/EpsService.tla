----------------------------- MODULE EpsService -----------------------------
(***************************************************************************)
(* EpsService (internal/logic/bitcoin/eps_service.go): one goroutine puts  *)
(* a row into eps_history for every deposit that was paid by an eoa        *)
(* transfer, another one reports the rows to the EPS server and marks them *)
(* reported.  They share nothing but the table, and each sleeps a minute   *)
(* between two passes.                                                     *)
(*                                                                         *)
(* External: the bridge, which marks deposits paid; the B2 chain; the EPS  *)
(* server, which may accept a report although the answer does not arrive.  *)
(* The amounts and addresses of a report are left out.                     *)
(***************************************************************************)
EXTENDS Naturals, Sequences, FiniteSets

CONSTANTS Deposits,    \* the rows of deposit_history
          MaxFaults    \* bound: crashes, lost answers, failed updates

ASSUME DepositsAreFinite == IsFiniteSet(Deposits)
ASSUME FaultsAreBounded == MaxFaults \in Nat

\* model/eps.go
EspStatus        == 1
EspStatusSuccess == 2

VARIABLES
  paid,       \* the B2 transactions of the deposits whose eoa transfer succeeded
  eps,        \* table eps_history, its rows by id
  fillPc, toFill, filling,        \* the first goroutine
  reportPc, toReport, reporting,  \* the second one
  accepted,   \* the server: the reports of a deposit it accepted
  unmarked,   \* history: those of them the row never came to know of
  faults      \* bound

fillVars   == <<fillPc, toFill, filling>>
reportVars == <<reportPc, toReport, reporting>>
serverVars == <<accepted, unmarked, faults>>
vars == <<paid, eps, fillVars, reportVars, serverVars>>

EpsRow == [deposit : Deposits, b2TxHash : Nat, position : Nat,
           status : {EspStatus, EspStatusSuccess}]

TypeOK ==
  /\ DOMAIN paid \subseteq Deposits
  /\ \A d \in DOMAIN paid : paid[d] \in [b2Tx : Nat, eoaTx : Nat]
  /\ eps \in Seq(EpsRow)
  /\ fillPc \in {"sleep", "next", "save"} /\ toFill \subseteq DOMAIN paid
  /\ fillPc = "save" => filling \in DOMAIN paid
  /\ reportPc \in {"sleep", "next", "mark"} /\ toReport \subseteq DOMAIN eps
  /\ reportPc = "mark" => reporting \in DOMAIN eps
  /\ accepted \in [Deposits -> Nat] /\ unmarked \in [Deposits -> Nat]
  /\ faults \in 0 .. MaxFaults

Init ==
  /\ paid = [d \in {} |-> [b2Tx |-> 0, eoaTx |-> 0]]
  /\ eps = <<>>
  /\ fillPc = "sleep" /\ toFill = {} /\ filling \in Deposits
  /\ reportPc = "sleep" /\ toReport = {} /\ reporting = 0
  /\ accepted = [d \in Deposits |-> 0] /\ unmarked = [d \in Deposits |-> 0]
  /\ faults = 0

Fault == faults < MaxFaults /\ faults' = faults + 1

-----------------------------------------------------------------------------
(* The bridge and the B2 chain.                                            *)

\* Deposit d, whose transaction b was reverted, is paid by the transfer e.
Pay(d, b, e) ==
  /\ d \notin DOMAIN paid
  /\ paid' = [x \in DOMAIN paid \cup {d} |->
                IF x = d THEN [b2Tx |-> b, eoaTx |-> e] ELSE paid[x]]
  /\ UNCHANGED <<eps, fillVars, reportVars, serverVars>>

\* The transactions of the bridge account, numbered as they come.
PayNext == LET n == 2 * Cardinality(DOMAIN paid)
           IN  \E d \in Deposits : Pay(d, n + 1, n + 2)

\* eth_getTransactionByHash: where the chain has the transaction of that hash.
PositionOf(hash) == hash

-----------------------------------------------------------------------------
(* The first goroutine fills the table.                                    *)

ListPaid ==
  /\ fillPc = "sleep"
  /\ toFill' = DOMAIN paid
  /\ fillPc' = "next"
  /\ UNCHANGED <<paid, eps, filling, reportVars, serverVars>>

HasRowUnreported(d) ==  \* mutant
  \E i \in DOMAIN eps : eps[i].deposit = d /\ eps[i].status = EspStatus
HasRow(d) == \E i \in DOMAIN eps : eps[i].deposit = d

\* The deposit has its row, or the query failed.
PassBy(d) ==
  /\ fillPc = "next" /\ d \in toFill
  /\ toFill' = toFill \ {d}
  /\ UNCHANGED <<paid, eps, fillPc, filling, reportVars, serverVars>>

Lookup(d) ==
  /\ fillPc = "next" /\ d \in toFill
  /\ ~HasRow(d)
  /\ toFill' = toFill \ {d}
  /\ filling' = d
  /\ fillPc' = "save"
  /\ UNCHANGED <<paid, eps, reportVars, serverVars>>

\* gorm leaves the status, zero, to the default of its column.
NewEpsNoDefault(d) ==  \* mutant
  [deposit |-> d, b2TxHash |-> paid[d].b2Tx,
   position |-> PositionOf(paid[d].eoaTx), status |-> 0]
NewEps(d) == [deposit |-> d, b2TxHash |-> paid[d].b2Tx,
              position |-> PositionOf(paid[d].eoaTx), status |-> EspStatus]

\* Whether the answer of the database arrives makes no difference.
Save ==
  /\ fillPc = "save"
  /\ eps' = Append(eps, NewEps(filling))
  /\ fillPc' = "next"
  /\ UNCHANGED <<paid, toFill, filling, reportVars, serverVars>>

\* The B2 node does not answer or does not know the transaction, or the row
\* could not be written.
SaveErr ==
  /\ fillPc = "save"
  /\ fillPc' = "next"
  /\ UNCHANGED <<paid, eps, toFill, filling, reportVars, serverVars>>

FillDone ==
  /\ fillPc = "next" /\ toFill = {}
  /\ fillPc' = "sleep"
  /\ UNCHANGED <<paid, eps, toFill, filling, reportVars, serverVars>>

Fill == \/ ListPaid \/ FillDone \/ Save \/ SaveErr
        \/ \E d \in toFill : PassBy(d) \/ Lookup(d)

-----------------------------------------------------------------------------
(* The second goroutine reports the rows.                                  *)

ReportableAlways  == DOMAIN eps  \* mutant
ReportableSuccess == {i \in DOMAIN eps : eps[i].status = EspStatusSuccess}  \* mutant
Reportable == {i \in DOMAIN eps : eps[i].status = EspStatus}

ListEps ==
  /\ reportPc = "sleep"
  /\ Reportable # {}
  /\ toReport' = Reportable
  /\ reportPc' = "next"
  /\ UNCHANGED <<paid, eps, fillVars, reporting, serverVars>>

Accept(i) == accepted' = [accepted EXCEPT ![eps[i].deposit] = @ + 1]

Forget(i) == unmarked' = [unmarked EXCEPT ![eps[i].deposit] = @ + 1]

TakeReport(i) == /\ reportPc = "next" /\ i \in toReport
                 /\ toReport' = toReport \ {i}
                 /\ reporting' = i
                 /\ UNCHANGED <<paid, eps, fillVars>>

Put(i) ==
  /\ TakeReport(i)
  /\ Accept(i)
  /\ reportPc' = "mark"
  /\ UNCHANGED <<unmarked, faults>>

\* Deposit returns an error: the server refused the report, or it accepted it
\* and the answer is lost.  The row is left to the next pass.
AfterErrMark == "mark"  \* mutant
AfterErr == "next"

PutErr(i) ==
  /\ TakeReport(i)
  /\ \/ UNCHANGED serverVars
     \/ Accept(i) /\ Forget(i) /\ Fault
  /\ reportPc' = AfterErr

Mark ==
  /\ reportPc = "mark"
  /\ eps' = [eps EXCEPT ![reporting].status = EspStatusSuccess]
  /\ reportPc' = "next"
  /\ UNCHANGED <<paid, fillVars, toReport, reporting, serverVars>>

MarkErr ==
  /\ reportPc = "mark"
  /\ Forget(reporting) /\ Fault
  /\ reportPc' = "next"
  /\ UNCHANGED <<paid, eps, fillVars, toReport, reporting, accepted>>

ReportDone ==
  /\ reportPc = "next" /\ toReport = {}
  /\ reportPc' = "sleep"
  /\ UNCHANGED <<paid, eps, fillVars, toReport, reporting, serverVars>>

Report == \/ ListEps \/ ReportDone \/ Mark \/ MarkErr
          \/ \E i \in toReport : Put(i) \/ PutErr(i)

-----------------------------------------------------------------------------
\* Both goroutines lose their locals; a report between Put and Mark is open.
Die ==
  /\ IF reportPc = "mark" THEN Forget(reporting) ELSE UNCHANGED unmarked
  /\ fillPc' = "sleep" /\ toFill' = {}
  /\ reportPc' = "sleep" /\ toReport' = {}
  /\ UNCHANGED <<paid, eps, filling, reporting, accepted>>

Crash == Fault /\ Die

Next == \/ PayNext
        \/ Fill
        \/ Report
        \/ Crash

Spec == Init /\ [][Next]_vars

\* The loops never end.  Of the calls made for one deposit again and again,
\* some succeed: the query, the node, the server and the update.
Fairness ==
  /\ WF_vars(Fill) /\ WF_vars(Report)
  /\ \A d \in Deposits : SF_vars(Lookup(d)) /\ SF_vars(filling = d /\ Save)
  /\ \A i \in 1 .. Cardinality(Deposits) : SF_vars(Put(i)) /\ SF_vars(reporting = i /\ Mark)

FairSpec == Spec /\ Fairness

-----------------------------------------------------------------------------
(* Properties.                                                             *)

\* A deposit gets one row: the lookup before the insert is enough, whatever
\* failed in earlier passes and whatever the other goroutine did to the row.
OneRowPerDeposit ==
  \A i, j \in DOMAIN eps : eps[i].deposit = eps[j].deposit => i = j

\* A row marked reported was accepted by the server; an error of the server or
\* of the connection never marks it (OnStart, Deposit).
ReportedWasAccepted ==
  \A i \in DOMAIN eps : eps[i].status = EspStatusSuccess => accepted[eps[i].deposit] > 0

\* The server accepts a deposit once, and once more for every acceptance that a
\* lost answer, a failed update or a crash hid from the row: at least once, and
\* twice only then.
AcceptedBounded == \A d \in Deposits : accepted[d] <= 1 + unmarked[d]

\* Every deposit paid by a transfer is reported in the end, although every
\* error is only logged.
EveryTransferReported ==
  \A d \in Deposits :
    d \in DOMAIN paid ~>
      \E i \in DOMAIN eps : eps[i].deposit = d /\ eps[i].status = EspStatusSuccess

-----------------------------------------------------------------------------
(* The abstract specification.                                             *)

Marked == {d \in Deposits :
             \E i \in DOMAIN eps : eps[i].deposit = d /\ eps[i].status = EspStatusSuccess}

Outbox == INSTANCE ReportOutbox WITH
            Messages <- Deposits, due <- DOMAIN paid, hidden <- unmarked, closed <- Marked

\* Two goroutines, a table and a server whose answers may be lost keep the
\* promise of an outbox.
ImplementsOutbox == Outbox!OutboxSpec

-----------------------------------------------------------------------------
(* The inductive invariant: what the locals of the goroutines stand for.   *)

FillInv == fillPc = "save" => ~HasRow(filling)

\* The copies of the second goroutine are not older than the table.
ReportInv ==
  /\ \A i \in toReport : eps[i].status = EspStatus
  /\ reportPc = "mark" => /\ reporting \notin toReport
                          /\ eps[reporting].status = EspStatus
                          /\ accepted[eps[reporting].deposit] > 0

\* The service knows of one acceptance: row or goroutine says so.
Known(d) == \E i \in DOMAIN eps :
              /\ eps[i].deposit = d
              /\ \/ eps[i].status = EspStatusSuccess
                 \/ reportPc = "mark" /\ reporting = i

AccountInv ==
  \A d \in Deposits : accepted[d] = unmarked[d] + (IF Known(d) THEN 1 ELSE 0)

\* Only deposits that were paid have rows, and only they are reported.
PaidInv == /\ \A i \in DOMAIN eps : eps[i].deposit \in DOMAIN paid
           /\ \A d \in Deposits : accepted[d] > 0 => d \in DOMAIN paid

\* What every step preserves and the three invariants above follow from: what
\* the copies of the goroutines still say of the table, and every acceptance
\* accounted for.
IInv == /\ TypeOK /\ FillInv /\ OneRowPerDeposit
        /\ ReportInv /\ ReportedWasAccepted /\ AccountInv /\ PaidInv

-----------------------------------------------------------------------------
(* A claim of the code that does not hold.                                 *)

\* b2_tx_hash is the "b2 network tx hash" of the transaction whose "b2 block
\* number" and "b2 transaction index" stand beside it (model/eps.go).
HashMatchesPosition ==
  \A i \in DOMAIN eps : PositionOf(eps[i].b2TxHash) = eps[i].position
=============================================================================
