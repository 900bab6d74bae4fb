-------------------------- MODULE EpsServiceProofs --------------------------
(* The safety of EpsService for any deposits and any number of faults.     *)
EXTENDS EpsService, FiniteSetTheorems, SequenceTheorems, TLAPS

USE DepositsAreFinite, FaultsAreBounded

LEMMA RowType ==
  ASSUME TypeOK
  PROVE  /\ \A i \in DOMAIN eps : eps[i] \in EpsRow
         /\ \A i \in DOMAIN eps : eps[i].deposit \in Deposits
         /\ \A i \in toReport : i \in DOMAIN eps
         /\ reportPc = "mark" => reporting \in DOMAIN eps
<1>1. \A i \in DOMAIN eps : eps[i] \in EpsRow
  BY DEF TypeOK
<1> QED
  BY <1>1 DEF TypeOK, EpsRow

LEMMA InitHolds == Init => IInv
<1> SUFFICES ASSUME Init PROVE IInv
  OBVIOUS
<1>1. eps \in Seq(EpsRow) /\ DOMAIN eps = {}
  BY DEF Init
<1>2. TypeOK
  BY <1>1 DEF Init, TypeOK, EpsRow
<1>3. FillInv /\ OneRowPerDeposit /\ ReportInv /\ ReportedWasAccepted /\ PaidInv
  BY <1>1 DEF Init, FillInv, OneRowPerDeposit, ReportInv, ReportedWasAccepted, PaidInv
<1>4. AccountInv
  BY <1>1 DEF Init, AccountInv, Known
<1> QED
  BY <1>2, <1>3, <1>4 DEF IInv

\* A new payment changes neither table nor goroutines.
LEMMA PayStep ==
  ASSUME IInv, NEW d \in Deposits, NEW b \in Nat, NEW e \in Nat, Pay(d, b, e)
  PROVE  IInv'
<1> USE DEF IInv
<1>1. TypeOK'
  BY DEF TypeOK, Pay, fillVars, reportVars, serverVars
<1>2. (FillInv /\ OneRowPerDeposit /\ ReportInv /\ ReportedWasAccepted /\ AccountInv)'
  BY DEF Pay, fillVars, reportVars, serverVars, FillInv, HasRow, OneRowPerDeposit,
         ReportInv, ReportedWasAccepted, AccountInv, Known
<1>3. PaidInv'
  BY DEF Pay, serverVars, PaidInv
<1> QED
  BY <1>1, <1>2, <1>3

LEMMA PayNextStep == ASSUME IInv, PayNext PROVE IInv'
<1>1. 2 * Cardinality(DOMAIN paid) \in Nat
  <2>1. IsFiniteSet(DOMAIN paid)
    BY FS_Subset DEF TypeOK, IInv
  <2> QED
    BY <2>1, FS_CardinalityType
<1>2. PICK d \in Deposits : Pay(d, 2 * Cardinality(DOMAIN paid) + 1,
                                   2 * Cardinality(DOMAIN paid) + 2)
  BY DEF PayNext
<1> QED
  BY <1>1, <1>2, PayStep

\* Steps of the first goroutine that leave the table alone.
LEMMA FillQuietStep ==
  ASSUME IInv,
         \/ ListPaid \/ FillDone \/ SaveErr
         \/ \E d \in toFill : PassBy(d) \/ Lookup(d)
  PROVE  IInv'
<1> USE DEF IInv, reportVars, serverVars
<1>1. UNCHANGED <<paid, eps, reportVars, serverVars>>
  BY DEF ListPaid, FillDone, SaveErr, PassBy, Lookup
<1>2. TypeOK'
  BY DEF TypeOK, ListPaid, FillDone, SaveErr, PassBy, Lookup
<1>3. FillInv'
  BY DEF TypeOK, FillInv, HasRow, ListPaid, FillDone, SaveErr, PassBy, Lookup
<1>4. (OneRowPerDeposit /\ ReportInv /\ ReportedWasAccepted /\ AccountInv /\ PaidInv)'
  BY <1>1 DEF OneRowPerDeposit, ReportInv, ReportedWasAccepted, AccountInv, Known, PaidInv
<1> QED
  BY <1>2, <1>3, <1>4

\* The insert: the lookup before it still holds.
LEMMA SaveStep == ASSUME IInv, Save PROVE IInv'
<1> USE DEF IInv, reportVars, serverVars
<1> DEFINE n == Len(eps) + 1
<1>1. /\ eps \in Seq(EpsRow) /\ NewEps(filling) \in EpsRow
      /\ eps' = Append(eps, NewEps(filling)) /\ fillPc' = "next"
      /\ UNCHANGED <<paid, toFill, filling, reportVars, serverVars>>
  BY DEF TypeOK, Save, NewEps, PositionOf, EpsRow
<1>2. /\ eps' \in Seq(EpsRow) /\ DOMAIN eps = 1 .. Len(eps) /\ DOMAIN eps' = 1 .. n
      /\ Len(eps) \in Nat
      /\ \A i \in DOMAIN eps : eps'[i] = eps[i]
      /\ eps'[n] = NewEps(filling)
  BY <1>1
<1>3. DOMAIN eps' = DOMAIN eps \cup {n} /\ n \notin DOMAIN eps
  BY <1>2
<1> HIDE DEF n
<1>4. TypeOK'
  BY <1>1, <1>2, <1>3 DEF TypeOK, EpsRow
<1>5. FillInv'
  BY <1>1 DEF FillInv
<1>6. /\ NewEps(filling).deposit = filling /\ NewEps(filling).status = EspStatus
      /\ \A i \in DOMAIN eps : eps[i].deposit # filling
      /\ EspStatus # EspStatusSuccess
  BY DEF NewEps, FillInv, HasRow, Save, EspStatus, EspStatusSuccess
<1>7. OneRowPerDeposit'
  BY <1>2, <1>3, <1>6 DEF OneRowPerDeposit
<1>8. (ReportInv /\ ReportedWasAccepted)'
  BY <1>1, <1>2, <1>3, <1>6 DEF TypeOK, ReportInv, ReportedWasAccepted
<1>9. \A d \in Deposits : Known(d)' <=> Known(d)
  BY <1>1, <1>2, <1>3, <1>6 DEF TypeOK, Known
<1>10. AccountInv'
  BY <1>1, <1>9 DEF AccountInv
<1>11. PaidInv'
  BY <1>1, <1>2, <1>3, <1>6 DEF PaidInv, TypeOK, Save
<1> QED
  BY <1>4, <1>5, <1>7, <1>8, <1>10, <1>11

\* Steps of the second goroutine between two reports.
LEMMA ReportQuietStep == ASSUME IInv, ListEps \/ ReportDone PROVE IInv'
<1> USE DEF IInv, fillVars, serverVars
<1>1. /\ UNCHANGED <<paid, eps, fillVars, serverVars>>
      /\ reportPc # "mark" /\ reportPc' # "mark"
  BY DEF ListEps, ReportDone
<1>2. TypeOK'
  BY DEF TypeOK, ListEps, ReportDone, Reportable
<1>3. ReportInv'
  BY <1>1 DEF ReportInv, ListEps, ReportDone, Reportable
<1>4. (FillInv /\ OneRowPerDeposit /\ ReportedWasAccepted /\ AccountInv /\ PaidInv)'
  BY <1>1 DEF FillInv, HasRow, OneRowPerDeposit, ReportedWasAccepted, AccountInv, Known, PaidInv
<1> QED
  BY <1>2, <1>3, <1>4

\* A row to be reported is not known to be accepted, nor is another row of its
\* deposit.
LEMMA OpenRow ==
  ASSUME IInv, NEW i \in toReport, reportPc = "next"
  PROVE  ~Known(eps[i].deposit)
BY DEF IInv, TypeOK, OneRowPerDeposit, ReportInv, Known, EspStatus, EspStatusSuccess

LEMMA PutStep == ASSUME IInv, NEW i \in toReport, Put(i) PROVE IInv'
<1> USE DEF IInv, fillVars
<1> DEFINE d == eps[i].deposit
<1>1. /\ i \in DOMAIN eps /\ d \in Deposits /\ reportPc = "next"
      /\ UNCHANGED <<paid, eps, fillVars, unmarked, faults>>
      /\ toReport' = toReport \ {i} /\ reporting' = i /\ reportPc' = "mark"
      /\ accepted' = [accepted EXCEPT ![d] = @ + 1]
  BY RowType DEF Put, TakeReport, Accept
<1>2. accepted \in [Deposits -> Nat] /\ unmarked \in [Deposits -> Nat]
  BY DEF TypeOK
<1>3. TypeOK'
  <2>1. accepted' \in [Deposits -> Nat]
    BY <1>1, <1>2
  <2> QED
    BY <1>1, <2>1 DEF TypeOK
<1>4. (FillInv /\ OneRowPerDeposit)'
  BY <1>1 DEF FillInv, HasRow, OneRowPerDeposit
<1>5. /\ accepted'[d] = accepted[d] + 1
      /\ \A e \in Deposits : accepted'[e] >= accepted[e]
      /\ \A e \in Deposits \ {d} : accepted'[e] = accepted[e]
  BY <1>1, <1>2
<1>6. ReportInv'
  BY <1>1, <1>2, <1>5 DEF ReportInv
<1>7. ReportedWasAccepted'
  BY <1>1, <1>2, <1>5, RowType DEF ReportedWasAccepted
<1>8. /\ ~Known(d) /\ Known(d)'
      /\ \A e \in Deposits \ {d} : Known(e) <=> Known(e)'
  BY <1>1, OpenRow DEF Known
<1>9. AccountInv'
  <2> SUFFICES ASSUME NEW e \in Deposits
               PROVE  accepted'[e] = unmarked'[e] + (IF Known(e)' THEN 1 ELSE 0)
    BY DEF AccountInv
  <2>1. accepted[e] = unmarked[e] + (IF Known(e) THEN 1 ELSE 0)
    BY DEF AccountInv
  <2>2. CASE e = d
    BY <1>1, <1>2, <1>5, <1>8, <2>1, <2>2
  <2>3. CASE e # d
    BY <1>1, <1>2, <1>5, <1>8, <2>1, <2>3
  <2> QED
    BY <2>2, <2>3
<1>10. PaidInv'
  BY <1>1, <1>2, <1>5 DEF PaidInv
<1> QED
  BY <1>3, <1>4, <1>6, <1>7, <1>9, <1>10

\* An acceptance nobody heard of is put down as such.
LEMMA PutErrStep == ASSUME IInv, NEW i \in toReport, PutErr(i) PROVE IInv'
<1> USE DEF IInv, fillVars
<1> DEFINE d == eps[i].deposit
<1>1. /\ i \in DOMAIN eps /\ d \in Deposits /\ reportPc = "next"
      /\ UNCHANGED <<paid, eps, fillVars>>
      /\ toReport' = toReport \ {i} /\ reporting' = i /\ reportPc' = "next"
  BY RowType DEF PutErr, TakeReport, AfterErr
<1>2. accepted \in [Deposits -> Nat] /\ unmarked \in [Deposits -> Nat]
  BY DEF TypeOK
<1>3. \/ UNCHANGED serverVars
      \/ /\ accepted' = [accepted EXCEPT ![d] = @ + 1]
         /\ unmarked' = [unmarked EXCEPT ![d] = @ + 1]
         /\ faults < MaxFaults /\ faults' = faults + 1
  BY DEF PutErr, Accept, Forget, Fault
<1>4. TypeOK'
  <2>1. accepted' \in [Deposits -> Nat] /\ unmarked' \in [Deposits -> Nat]
    BY <1>1, <1>2, <1>3 DEF serverVars
  <2>2. faults' \in 0 .. MaxFaults
    BY <1>3 DEF TypeOK, serverVars
  <2> QED
    BY <1>1, <2>1, <2>2 DEF TypeOK
<1>5. (FillInv /\ OneRowPerDeposit)'
  BY <1>1 DEF FillInv, HasRow, OneRowPerDeposit
<1>6. \A e \in Deposits : /\ accepted'[e] \in Nat /\ accepted'[e] >= accepted[e]
                          /\ accepted'[e] - unmarked'[e] = accepted[e] - unmarked[e]
  BY <1>1, <1>2, <1>3 DEF serverVars
<1>7. (ReportInv /\ ReportedWasAccepted)'
  BY <1>1, <1>2, <1>6, RowType DEF ReportInv, ReportedWasAccepted
<1>8. \A e \in Deposits : Known(e)' <=> Known(e)
  BY <1>1 DEF Known
<1>9. AccountInv'
  <2> SUFFICES ASSUME NEW e \in Deposits
               PROVE  accepted'[e] = unmarked'[e] + (IF Known(e)' THEN 1 ELSE 0)
    BY DEF AccountInv
  <2>1. accepted[e] = unmarked[e] + (IF Known(e) THEN 1 ELSE 0)
    BY DEF AccountInv
  <2>2. unmarked'[e] \in Nat
    BY <1>4 DEF TypeOK
  <2> QED
    BY <1>2, <1>6, <1>8, <2>1, <2>2
<1>10. PaidInv'
  <2>1. \A e \in Deposits \ {d} : accepted'[e] = accepted[e]
    BY <1>1, <1>2, <1>3 DEF serverVars
  <2> QED
    BY <1>1, <2>1 DEF PaidInv
<1> QED
  BY <1>4, <1>5, <1>7, <1>9, <1>10

LEMMA MarkStep == ASSUME IInv, Mark PROVE IInv'
<1> USE DEF IInv, fillVars, serverVars
<1>1. /\ reporting \in DOMAIN eps /\ eps \in Seq(EpsRow) /\ reportPc = "mark"
      /\ eps' = [eps EXCEPT ![reporting].status = EspStatusSuccess]
      /\ reportPc' = "next"
      /\ UNCHANGED <<paid, fillVars, toReport, reporting, serverVars>>
  BY DEF TypeOK, Mark
<1>2. /\ eps[reporting] \in EpsRow
      /\ [eps[reporting] EXCEPT !.status = EspStatusSuccess] \in EpsRow
      /\ eps' = [eps EXCEPT ![reporting] = [eps[reporting] EXCEPT !.status = EspStatusSuccess]]
  BY <1>1, RowType DEF EpsRow
<1>10. eps' \in Seq(EpsRow)
  BY <1>1, <1>2
<1>3. /\ DOMAIN eps' = DOMAIN eps
      /\ \A i \in DOMAIN eps : eps'[i].deposit = eps[i].deposit
      /\ \A i \in DOMAIN eps \ {reporting} : eps'[i] = eps[i]
      /\ eps'[reporting].status = EspStatusSuccess
  <2>1. /\ DOMAIN eps' = DOMAIN eps
        /\ \A i \in DOMAIN eps \ {reporting} : eps'[i] = eps[i]
        /\ eps'[reporting] = [eps[reporting] EXCEPT !.status = EspStatusSuccess]
    BY <1>1, <1>2
  <2>2. /\ eps'[reporting].status = EspStatusSuccess
        /\ eps'[reporting].deposit = eps[reporting].deposit
    BY <1>2, <2>1 DEF EpsRow
  <2> QED
    BY <2>1, <2>2
<1>4. TypeOK'
  BY <1>1, <1>3, <1>10 DEF TypeOK
<1>5. (FillInv /\ OneRowPerDeposit)'
  BY <1>1, <1>3 DEF FillInv, HasRow, OneRowPerDeposit
<1>6. ReportInv'
  BY <1>1, <1>3 DEF TypeOK, ReportInv
<1>7. ReportedWasAccepted'
  BY <1>1, <1>3 DEF ReportInv, ReportedWasAccepted
<1>8. \A d \in Deposits : Known(d)' <=> Known(d)
  BY <1>1, <1>3 DEF Known
<1>9. AccountInv'
  BY <1>1, <1>8 DEF AccountInv
<1>11. PaidInv'
  BY <1>1, <1>3 DEF PaidInv
<1> QED
  BY <1>4, <1>5, <1>6, <1>7, <1>9, <1>11

\* A report that was accepted and not marked, or any other state of the second
\* goroutine, is given up.
GiveUp ==
  /\ IF reportPc = "mark" THEN Forget(reporting) ELSE UNCHANGED unmarked
  /\ reportPc' # "mark"
  /\ UNCHANGED <<eps, accepted>>

LEMMA GiveUpAccounts ==
  ASSUME IInv, GiveUp, unmarked' \in [Deposits -> Nat]
  PROVE  AccountInv'
<1> USE DEF IInv
<1> SUFFICES ASSUME NEW e \in Deposits
             PROVE  accepted'[e] = unmarked'[e] + (IF Known(e)' THEN 1 ELSE 0)
  BY DEF AccountInv
<1>1. /\ accepted' = accepted /\ accepted[e] \in Nat /\ unmarked[e] \in Nat
      /\ unmarked'[e] \in Nat
  BY DEF GiveUp, TypeOK
<1>2. accepted[e] = unmarked[e] + (IF Known(e) THEN 1 ELSE 0)
  BY DEF AccountInv
<1>3. CASE reportPc = "mark" /\ eps[reporting].deposit = e
  <2>1. unmarked'[e] = unmarked[e] + 1
    BY <1>3 DEF GiveUp, Forget, TypeOK
  <2>2. Known(e) /\ ~Known(e)'
    BY <1>3, RowType DEF GiveUp, Known, OneRowPerDeposit, ReportInv, EspStatus, EspStatusSuccess
  <2> QED
    BY <1>1, <1>2, <2>1, <2>2
<1>4. CASE ~(reportPc = "mark" /\ eps[reporting].deposit = e)
  <2>1. unmarked'[e] = unmarked[e]
    BY <1>4 DEF GiveUp, Forget, TypeOK
  <2>2. Known(e)' <=> Known(e)
    BY <1>4 DEF GiveUp, Known
  <2> QED
    BY <1>1, <1>2, <2>1, <2>2
<1> QED
  BY <1>3, <1>4

LEMMA MarkErrStep == ASSUME IInv, MarkErr PROVE IInv'
<1> USE DEF IInv, fillVars
<1>1. TypeOK'
  <2>1. unmarked' \in [Deposits -> Nat]
    BY RowType DEF TypeOK, MarkErr, Forget
  <2>2. faults' \in 0 .. MaxFaults
    BY DEF TypeOK, MarkErr, Fault
  <2> QED
    BY <2>1, <2>2 DEF TypeOK, MarkErr
<1>2. (FillInv /\ OneRowPerDeposit /\ ReportInv /\ ReportedWasAccepted /\ PaidInv)'
  BY DEF MarkErr, FillInv, HasRow, OneRowPerDeposit, ReportInv, ReportedWasAccepted, PaidInv
<1>3. AccountInv'
  BY <1>1, GiveUpAccounts DEF MarkErr, GiveUp, TypeOK
<1> QED
  BY <1>1, <1>2, <1>3

LEMMA DieStep == ASSUME IInv, Die, faults' \in 0 .. MaxFaults PROVE IInv'
<1> USE DEF IInv
<1>1. TypeOK'
  <2>1. unmarked' \in [Deposits -> Nat]
    <3>1. /\ unmarked \in [Deposits -> Nat]
          /\ reportPc = "mark" => eps[reporting].deposit \in Deposits
      BY RowType DEF TypeOK
    <3> QED
      BY <3>1 DEF Die, Forget
  <2> QED
    BY <2>1 DEF TypeOK, Die
<1>2. (FillInv /\ OneRowPerDeposit /\ ReportInv /\ ReportedWasAccepted /\ PaidInv)'
  BY DEF Die, FillInv, HasRow, OneRowPerDeposit, ReportInv, ReportedWasAccepted, PaidInv
<1>3. AccountInv'
  BY <1>1, GiveUpAccounts DEF Die, GiveUp, TypeOK
<1> QED
  BY <1>1, <1>2, <1>3

LEMMA CrashStep == ASSUME IInv, Crash PROVE IInv'
<1>1. faults' \in 0 .. MaxFaults
  BY DEF Crash, Fault, IInv, TypeOK
<1> QED
  BY <1>1, DieStep DEF Crash

LEMMA StutterStep == ASSUME IInv, UNCHANGED vars PROVE IInv'
BY DEF vars, fillVars, reportVars, serverVars, IInv, TypeOK, FillInv, HasRow,
       OneRowPerDeposit, ReportInv, ReportedWasAccepted, AccountInv, Known, PaidInv

LEMMA FillStep == ASSUME IInv, Fill PROVE IInv'
BY FillQuietStep, SaveStep DEF Fill

LEMMA ReportStep == ASSUME IInv, Report PROVE IInv'
BY ReportQuietStep, MarkStep, MarkErrStep, PutStep, PutErrStep DEF Report

\* The inductive invariant holds in every reachable state.
THEOREM Invariance == Spec => []IInv
<1>1. IInv /\ [Next]_vars => IInv'
  <2> SUFFICES ASSUME IInv, [Next]_vars PROVE IInv'
    OBVIOUS
  <2>1. CASE PayNext
    BY <2>1, PayNextStep
  <2>2. CASE Fill
    BY <2>2, FillStep
  <2>3. CASE Report
    BY <2>3, ReportStep
  <2>4. CASE Crash
    BY <2>4, CrashStep
  <2>5. CASE UNCHANGED vars
    BY <2>5, StutterStep
  <2> QED
    BY <2>1, <2>2, <2>3, <2>4, <2>5 DEF Next
<1> QED
  BY InitHolds, <1>1, PTL DEF Spec

\* One row for each deposit, whatever failed before (OnStart, lines 102 to 141).
THEOREM RowsAreUnique == Spec => []OneRowPerDeposit
BY Invariance, PTL DEF IInv

\* Every variable keeps its type; the ids the goroutines hold are those of rows.
THEOREM TypeCorrect == Spec => []TypeOK
BY Invariance, PTL DEF IInv

\* A row is marked reported only after an acceptance (OnStart, lines 157 to 179).
THEOREM MarkedWereAccepted == Spec => []ReportedWasAccepted
BY Invariance, PTL DEF IInv

\* Reported at most once more than acceptances were hidden from the row.
THEOREM ReportsAreAccounted == Spec => []AcceptedBounded
<1>1. IInv => AcceptedBounded
  <2> SUFFICES ASSUME IInv, NEW d \in Deposits PROVE accepted[d] <= 1 + unmarked[d]
    BY DEF AcceptedBounded
  <2> QED
    BY DEF IInv, TypeOK, AccountInv
<1> QED
  BY Invariance, <1>1, PTL

-----------------------------------------------------------------------------
(* The refinement, step by step.                                           *)

LEMMA OutboxStart == Init => Outbox!OutboxInit
BY DEF Init, Outbox!OutboxInit, Marked

\* A payment falls due.
LEMMA PayMaps ==
  ASSUME NEW d \in Deposits, NEW b, NEW e, Pay(d, b, e)
  PROVE  Outbox!FallDue(d)
<1>1. UNCHANGED <<eps, accepted, unmarked>> /\ (DOMAIN paid)' = DOMAIN paid \cup {d}
  BY DEF Pay, serverVars
<1> QED
  BY <1>1 DEF Outbox!FallDue, Marked

\* The insert of a row tells nobody anything.
LEMMA FillMaps == ASSUME IInv, Fill PROVE UNCHANGED Outbox!outboxVars
<1>1. UNCHANGED <<paid, accepted, unmarked>>
  BY DEF Fill, ListPaid, FillDone, Save, SaveErr, PassBy, Lookup, serverVars
<1>2. Marked' = Marked
  <2>1. CASE Save
    <3>1. /\ eps \in Seq(EpsRow) /\ eps' = Append(eps, NewEps(filling))
          /\ NewEps(filling).status # EspStatusSuccess
      BY <2>1 DEF IInv, TypeOK, Save, NewEps, EspStatus, EspStatusSuccess
    <3>2. /\ DOMAIN eps' = DOMAIN eps \cup {Len(eps) + 1}
          /\ \A i \in DOMAIN eps : eps'[i] = eps[i]
          /\ eps'[Len(eps) + 1] = NewEps(filling)
      BY <3>1
    <3> QED
      BY <3>1, <3>2 DEF Marked
  <2>2. CASE ~Save
    <3>1. UNCHANGED eps
      BY <2>2 DEF Fill, ListPaid, FillDone, SaveErr, PassBy, Lookup
    <3> QED
      BY <3>1 DEF Marked
  <2> QED
    BY <2>1, <2>2
<1> QED
  BY <1>1, <1>2 DEF Outbox!outboxVars

\* A report is sent only for a deposit whose acceptances are all hidden.
LEMMA PutMaps ==
  ASSUME IInv, NEW i \in toReport, Put(i) \/ PutErr(i)
  PROVE  Outbox!Deliver(eps[i].deposit) \/ UNCHANGED Outbox!outboxVars
<1> DEFINE d == eps[i].deposit
<1>1. /\ i \in DOMAIN eps /\ d \in Deposits /\ reportPc = "next" /\ UNCHANGED <<paid, eps>>
  BY RowType DEF IInv, Put, PutErr, TakeReport
<1>2. Marked' = Marked
  BY <1>1 DEF Marked
<1>3. d \in DOMAIN paid /\ d \notin Marked
  BY <1>1, OpenRow DEF IInv, PaidInv, Marked, Known
<1>4. accepted[d] = unmarked[d]
  BY <1>1, OpenRow DEF IInv, AccountInv, TypeOK
<1>5. \/ UNCHANGED <<accepted, unmarked>>
      \/ /\ accepted' = [accepted EXCEPT ![d] = @ + 1]
         /\ UNCHANGED unmarked \/ unmarked' = [unmarked EXCEPT ![d] = @ + 1]
  BY DEF Put, PutErr, Accept, Forget, serverVars
<1> QED
  BY <1>1, <1>2, <1>3, <1>4, <1>5
     DEF Outbox!Deliver, Outbox!HideOne, Outbox!outboxVars

\* An acceptance that is put on record closes the deposit.
LEMMA MarkMaps == ASSUME IInv, Mark PROVE Outbox!Close(eps[reporting].deposit)
<1> DEFINE d == eps[reporting].deposit
<1>1. /\ reporting \in DOMAIN eps /\ eps[reporting] \in EpsRow /\ reportPc = "mark"
      /\ eps' = [eps EXCEPT ![reporting].status = EspStatusSuccess]
      /\ UNCHANGED <<paid, accepted, unmarked>>
  BY RowType DEF IInv, TypeOK, Mark, serverVars
<1>2. /\ DOMAIN eps' = DOMAIN eps
      /\ \A j \in DOMAIN eps \ {reporting} : eps'[j] = eps[j]
      /\ eps'[reporting].status = EspStatusSuccess
      /\ eps'[reporting].deposit = d /\ d \in Deposits
  BY <1>1 DEF EpsRow
<1>3. Marked' = Marked \cup {d}
  BY <1>1, <1>2 DEF Marked, IInv, ReportInv, EspStatus, EspStatusSuccess
<1>4. accepted[d] > unmarked[d]
  <2>1. Known(d)
    BY <1>1 DEF Known
  <2> QED
    BY <1>2, <2>1 DEF IInv, AccountInv, TypeOK
<1> QED
  BY <1>1, <1>3, <1>4 DEF Outbox!Close

\* What is given up between Put and Mark is hidden.
LEMMA GiveUpMaps ==
  ASSUME IInv, GiveUp, UNCHANGED paid
  PROVE  \/ \E d \in Deposits : Outbox!Hide(d)
         \/ UNCHANGED Outbox!outboxVars
<1>1. UNCHANGED <<accepted, Marked>>
  BY DEF GiveUp, Marked
<1>2. CASE reportPc = "mark"
  <2> DEFINE d == eps[reporting].deposit
  <2>1. reporting \in DOMAIN eps /\ d \in Deposits /\ Known(d)
    BY <1>2, RowType DEF IInv, Known
  <2>2. d \notin Marked
    BY <1>2, <2>1 DEF Marked, IInv, OneRowPerDeposit, ReportInv, EspStatus, EspStatusSuccess
  <2>3. accepted[d] > unmarked[d]
    BY <2>1 DEF IInv, AccountInv, TypeOK
  <2>4. unmarked' = [unmarked EXCEPT ![d] = @ + 1]
    BY <1>2 DEF GiveUp, Forget
  <2>5. Outbox!Hide(d)
    BY <1>1, <2>2, <2>3, <2>4 DEF Outbox!Hide, Outbox!HideOne
  <2> QED
    BY <2>1, <2>5
<1>3. CASE reportPc # "mark"
  BY <1>1, <1>3 DEF GiveUp, Outbox!outboxVars
<1> QED
  BY <1>2, <1>3

LEMMA ReportMaps == ASSUME IInv, Report PROVE [Outbox!OutboxNext]_(Outbox!outboxVars)
<1>1. CASE ListEps \/ ReportDone
  BY <1>1 DEF ListEps, ReportDone, serverVars, Outbox!outboxVars, Marked
<1>2. CASE Mark
  <2>1. eps[reporting].deposit \in Deposits
    BY <1>2, RowType DEF Mark, IInv
  <2> QED
    BY <1>2, <2>1, MarkMaps DEF Outbox!OutboxNext
<1>3. CASE MarkErr
  <2>1. GiveUp /\ UNCHANGED paid
    BY <1>3 DEF MarkErr, GiveUp
  <2> QED
    BY <2>1, GiveUpMaps DEF Outbox!OutboxNext
<1>4. ASSUME NEW i \in toReport, Put(i) \/ PutErr(i)
      PROVE  [Outbox!OutboxNext]_(Outbox!outboxVars)
  <2>1. eps[i].deposit \in Deposits
    BY RowType DEF IInv
  <2> QED
    BY <1>4, <2>1, PutMaps DEF Outbox!OutboxNext
<1> QED
  BY <1>1, <1>2, <1>3, <1>4 DEF Report

LEMMA DieMaps == ASSUME IInv, Die PROVE [Outbox!OutboxNext]_(Outbox!outboxVars)
<1>1. GiveUp /\ UNCHANGED paid
  BY DEF Die, GiveUp
<1> QED
  BY <1>1, GiveUpMaps DEF Outbox!OutboxNext

LEMMA QuietMaps == ASSUME UNCHANGED vars PROVE UNCHANGED Outbox!outboxVars
BY DEF vars, serverVars, Outbox!outboxVars, Marked

\* Two goroutines, their table and a server whose answers are lost, with crashes
\* at any time, keep the promise of an outbox.
THEOREM Refinement == Spec => ImplementsOutbox
<1>1. IInv /\ [Next]_vars => [Outbox!OutboxNext]_(Outbox!outboxVars)
  <2> SUFFICES ASSUME IInv, [Next]_vars PROVE [Outbox!OutboxNext]_(Outbox!outboxVars)
    OBVIOUS
  <2>1. CASE PayNext
    BY <2>1, PayMaps DEF PayNext, Outbox!OutboxNext
  <2>2. CASE Fill
    BY <2>2, FillMaps
  <2>3. CASE Report
    BY <2>3, ReportMaps
  <2>4. CASE Crash
    BY <2>4, DieMaps DEF Crash
  <2>5. CASE UNCHANGED vars
    BY <2>5, QuietMaps
  <2> QED
    BY <2>1, <2>2, <2>3, <2>4, <2>5 DEF Next
<1> QED
  BY OutboxStart, <1>1, Invariance, PTL DEF Spec, ImplementsOutbox, Outbox!OutboxSpec
=============================================================================
