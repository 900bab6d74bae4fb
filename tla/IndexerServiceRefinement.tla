---------------------- MODULE IndexerServiceRefinement ----------------------
(***************************************************************************)
(* IndexerService implements PaymentLog, for every set of blocks, every    *)
(* height and every number of crashes: the initial states correspond and   *)
(* each step of OnStart is a step of the log or leaves it alone.           *)
(***************************************************************************)
EXTENDS IndexerServiceProofs, SequenceTheorems

USE BoundsAssumption

Written == {<<d.block, d.index>> : d \in deposits}

-----------------------------------------------------------------------------
(* The payments owed, as a sequence over the blocks.                       *)

LEMMA OwedFacts ==
  ASSUME TypeOK
  PROVE  /\ DOMAIN Owed = 1 .. Len(chain) /\ Len(chain) \in Nat
         /\ Len(Owed) = Len(chain)
         /\ \A h \in DOMAIN Owed :
              Owed[h] = {k \in TxIndexes(h) : IsPayment(h, k) /\ ~IsSelf(TxAt(h, k))}
<1>1. DOMAIN chain = 1 .. Len(chain) /\ Len(chain) \in Nat
  BY DEF TypeOK
<1>2. \A h : TxIndexes(h) \subseteq Int
  BY DEF TxIndexes
<1>3. Owed \in [1 .. Len(chain) -> SUBSET Int]
  BY <1>1, <1>2 DEF Owed
<1>4. Owed \in Seq(SUBSET Int)
  BY <1>1, <1>3, SeqDef
<1>5. Len(Owed) \in Nat /\ DOMAIN Owed = 1 .. Len(Owed)
  BY <1>4, LenProperties
<1>6. Len(Owed) = Len(chain)
  BY <1>1, <1>3, <1>5
<1>7. QED
  BY <1>1, <1>3, <1>6 DEF Owed

\* A payment past the position is not on record.
LEMMA PastIsNotRecorded ==
  ASSUME IInv, btcIndex # NoRow, NEW g \in Nat, NEW j \in Nat, Log!Past(g, j)
  PROVE  ~Recorded(g, j)
<1>1. btcIndex \in [block : Nat, tx : Nat]
  BY DEF IInv, TypeOK
<1>2. ~Covered(g, j)
  BY <1>1 DEF Log!Past, Covered, CoveredBy
<1>3. QED
  BY <1>2 DEF Recorded, IInv, RecordedIsCovered

\* Settled payments of others past the position are those that were reported.
LEMMA SettledIsReported ==
  ASSUME IInv, btcIndex # NoRow, NEW h \in Nat, NEW k \in Nat,
         SettledBefore(h, k)
  PROVE  Log!ReportedBefore(h, k)
<1> SUFFICES ASSUME NEW g \in DOMAIN Owed, NEW j \in Owed[g], Log!Past(g, j),
                    g < h \/ (g = h /\ j < k)
             PROVE  <<g, j>> \in failed
  BY DEF Log!ReportedBefore
<1>1. /\ btcIndex \in [block : Nat, tx : Nat] /\ origin \in Nat
      /\ origin <= btcIndex.block /\ (btcIndex.tx # 0 => origin < btcIndex.block)
  BY DEF IInv, TypeOK, HeightInv
<1>2. /\ g \in 1 .. Len(chain) /\ g \in DOMAIN chain /\ Len(chain) \in Nat
      /\ j \in TxIndexes(g) /\ IsPayment(g, j) /\ ~IsSelf(TxAt(g, j))
  BY OwedFacts DEF IInv, Owed
<1>3. g \in Nat /\ j \in Nat
  BY <1>2 DEF TxIndexes
<1>4. g \in origin + 1 .. Len(chain)
  BY <1>1, <1>2, <1>3 DEF Log!Past
<1>5. Owes(g, j)
  BY <1>2, <1>4 DEF Owes
<1>6. Settled(g, j)
  BY <1>2, <1>5 DEF SettledBefore
<1>7. QED
  BY <1>2, <1>3, <1>6, PastIsNotRecorded DEF Settled

-----------------------------------------------------------------------------
(* The position points at a record.                                        *)

MarkInv == btcIndex.tx # 0 => Recorded(btcIndex.block, btcIndex.tx)

LEMMA MarkStep == ASSUME MarkInv, [Next]_vars PROVE MarkInv'
<1>1. CASE UNCHANGED <<btcIndex, deposits>>
  BY <1>1 DEF MarkInv, Recorded
<1>2. ASSUME NEW r \in pending, Insert(r) PROVE MarkInv'
  <2> DEFINE row == [block |-> height, index |-> r.index, out |-> r.out]
  <2>1. row \in deposits' /\ btcIndex'.block = height /\ btcIndex'.tx = r.index
    BY <1>2 DEF Insert
  <2>2. row.block = height /\ row.index = r.index
    OBVIOUS
  <2>3. QED
    BY <2>1, <2>2, Zenon DEF MarkInv, Recorded
<1>3. CASE CreateRow \/ LoadErr
  BY <1>1, <1>3 DEF CreateRow, LoadErr, InsertRow, FirstRow, MarkInv
<1>4. CASE FinishBlock
  BY <1>4 DEF FinishBlock, MarkInv
<1>5. CASE FinishBlockErr
  BY <1>1, <1>5 DEF FinishBlockErr, NextBlock
<1>6. CASE HandleResult
  BY <1>1, <1>2, <1>6 DEF HandleResult, SkipSelf, Save, SaveErr, Panic, dbVars
<1>7. CASE MineBlock \/ Start \/ LoadRow \/ Refresh \/ RefreshErr \/ Advance
  BY <1>1, <1>7 DEF MineBlock, Start, LoadRow, Refresh, RefreshErr, Advance, dbVars
<1>8. CASE Parse \/ ParseErr \/ Crash
  BY <1>1, <1>8 DEF Parse, ParseErr, Crash, dbVars
<1>9. CASE UNCHANGED vars
  BY <1>1, <1>9 DEF vars, dbVars
<1>10. QED
  BY <1>3, <1>4, <1>5, <1>6, <1>7, <1>8, <1>9 DEF Next

LEMMA MarkStart == Init => MarkInv
BY DEF Init, MarkInv, NoRow

LEMMA MarkHolds == Spec => []MarkInv
BY MarkStart, MarkStep, PTL DEF Spec

-----------------------------------------------------------------------------
(* The steps.                                                              *)

LEMMA QuietStep ==
  ASSUME UNCHANGED <<chain, btcIndex, deposits, failed>>
  PROVE  UNCHANGED Log!logVars
BY DEF Log!logVars, Owed, IsPayment, TxAt, TxIndexes

LEMMA GrowStep == ASSUME IInv, MineBlock PROVE Log!Grow
<1>1. PICK b \in Blocks : chain' = Append(chain, b)
  BY DEF MineBlock
<1>2. /\ UNCHANGED <<btcIndex, deposits, failed>>
      /\ TypeOK /\ TypeOK'
  BY MineBlockStep DEF MineBlock, dbVars, history, IInv
<1>3. /\ Len(chain') = Len(chain) + 1
      /\ \A h \in 1 .. Len(chain) : chain'[h] = chain[h]
      /\ DOMAIN chain = 1 .. Len(chain) /\ DOMAIN chain' = 1 .. Len(chain')
      /\ Len(chain) \in Nat
  BY <1>1, <1>2 DEF TypeOK
<1>4. Len(Owed') = Len(chain') /\ Len(Owed) = Len(chain)
  <2>1. Len(Owed) = Len(chain)
    BY <1>2, OwedFacts
  <2>2. (TypeOK => Len(Owed) = Len(chain))'
    BY OwedFacts, PTL
  <2>3. QED
    BY <1>2, <2>1, <2>2
<1>5. \A h \in DOMAIN Owed : Owed'[h] = Owed[h]
  BY <1>3 DEF Owed, IsPayment, TxAt, TxIndexes
<1>6. QED
  BY <1>2, <1>3, <1>4, <1>5 DEF Log!Grow

LEMMA BeginStep ==
  ASSUME IInv, InsertRow, UNCHANGED <<chainVars, deposits, failed>>
  PROVE  Log!Begin
<1>1. /\ btcIndex = Log!Unset /\ btcIndex' = [block |-> latestBlock, tx |-> 0]
      /\ UNCHANGED <<chain, deposits, failed>>
  BY DEF InsertRow, FirstRow, NoRow, Log!Unset, chainVars
<1>2. latestBlock \in 0 .. Len(Owed)
  BY OwedFacts DEF IInv, TypeOK, HeightInv
<1>3. Owed' = Owed
  BY <1>1 DEF Owed, IsPayment, TxAt, TxIndexes
<1>4. QED
  BY <1>1, <1>2, <1>3 DEF Log!Begin

\* A result that is next stands for a payment of the log.
LEMMA NextIsOwed ==
  ASSUME IInv, NEW r \in pending, IsNext(r), ~IsSelf(TxAt(height, r.index))
  PROVE  /\ height \in DOMAIN Owed /\ r.index \in Owed[height]
         /\ height \in Nat /\ r.index \in Nat /\ r.index # 0 /\ btcIndex # NoRow
<1>1. Owes(height, r.index) /\ r.index \in Nat /\ r.index # 0
  BY NextResult
<1>2. height \in 1 .. Len(chain) /\ height \in Nat
  BY HeightInChain DEF IsNext
<1>3. btcIndex # NoRow
  BY DEF IInv, BlockInv, IsNext
<1>4. QED
  BY <1>1, <1>2, <1>3, OwedFacts DEF Owes, IInv

LEMMA RecordStep ==
  ASSUME IInv, MarkInv, NEW r \in pending, Savable(r), Insert(r),
         failed' \in {failed, failed \cup {<<height, r.index>>}}, UNCHANGED chainVars
  PROVE  Log!Record(height, r.index)
<1>1. IsNext(r) /\ ~IsSelf(TxAt(height, r.index))
  BY DEF Savable
<1>2. /\ height \in Nat /\ r.index \in Nat /\ r.index # 0 /\ btcIndex # NoRow
      /\ btcIndex \in [block : Nat, tx : Nat]
  BY <1>1, NextIsOwed DEF IInv, TypeOK
<1>3. Log!Past(height, r.index)
  <2>1. AtOrBefore(btcIndex, [block |-> height, tx |-> r.index])
    BY <1>1, NextResult
  <2>2. ~(btcIndex.block = height /\ btcIndex.tx = r.index)
    BY <1>2 DEF MarkInv, Insert
  <2>3. QED
    BY <1>2, <2>1, <2>2 DEF AtOrBefore, Log!Past
<1>4. Log!ReportedBefore(height, r.index)
  BY <1>1, <1>2, NextResult, SettledIsReported
<1>5. Written' = Written \cup {<<height, r.index>>}
  <2> DEFINE row == [block |-> height, index |-> r.index, out |-> r.out]
  <2>1. deposits' = deposits \cup {row} /\ <<row.block, row.index>> = <<height, r.index>>
    BY DEF Insert
  <2> HIDE DEF row
  <2>2. QED
    BY <2>1, Zenon DEF Written
<1>6. Owed' = Owed
  BY DEF chainVars, Owed, IsPayment, TxAt, TxIndexes
<1>7. QED
  BY <1>2, <1>3, <1>4, <1>5, <1>6 DEF Log!Record, Insert, Written, NoRow, Log!Unset

LEMMA ResultStep == ASSUME IInv, MarkInv, HandleResult PROVE [Log!LogNext]_(Log!logVars)
<1> PICK r \in pending : SkipSelf(r) \/ Save(r) \/ SaveErr(r) \/ Panic(r)
  BY DEF HandleResult
<1>1. CASE SkipSelf(r) \/ Panic(r)
  BY <1>1, QuietStep DEF SkipSelf, Panic, Handled, chainVars, dbVars, history
<1>2. CASE (Save(r) \/ SaveErr(r)) /\ Savable(r) /\ Insert(r)
  <2>1. /\ UNCHANGED chainVars
        /\ failed' \in {failed, failed \cup {<<height, r.index>>}}
    BY <1>2 DEF Save, SaveErr, Handled, chainVars
  <2>2. Log!Record(height, r.index)
    BY <1>2, <2>1, RecordStep
  <2>3. height \in DOMAIN Owed /\ r.index \in Owed[height]
    BY <1>2, NextIsOwed DEF Savable
  <2>4. QED
    BY <2>2, <2>3 DEF Log!LogNext
<1>3. CASE SaveErr(r) /\ UNCHANGED dbVars
  <2>1. /\ IsNext(r) /\ ~IsSelf(TxAt(height, r.index))
        /\ UNCHANGED <<chain, btcIndex, deposits>>
        /\ failed' = failed \cup {<<height, r.index>>}
    BY <1>3 DEF SaveErr, Handled, chainVars, dbVars
  <2>2. Owed' = Owed
    BY <2>1 DEF Owed, IsPayment, TxAt, TxIndexes
  <2>3. Log!Report(height, r.index)
    BY <2>1, <2>2 DEF Log!Report
  <2>4. height \in DOMAIN Owed /\ r.index \in Owed[height]
    BY <2>1, NextIsOwed
  <2>5. QED
    BY <2>3, <2>4 DEF Log!LogNext
<1>4. QED
  BY <1>1, <1>2, <1>3 DEF Save, SaveErr

LEMMA CloseStep == ASSUME IInv, FinishBlock PROVE [Log!LogNext]_(Log!logVars)
<1>1. /\ pc = "save" /\ pending = {} /\ btcIndex' = [block |-> height, tx |-> 0]
      /\ UNCHANGED <<chain, deposits, failed>>
  BY DEF FinishBlock, NextBlock, chainVars, history
<1>2. /\ height \in 1 .. Len(chain) /\ height \in Nat
      /\ btcIndex # NoRow /\ btcIndex \in [block : Nat, tx : Nat]
      /\ btcIndex.block <= height
  BY <1>1, HeightInChain DEF IInv, TypeOK, BlockInv
<1>3. SettledBefore(height + 1, 0)
  <2> SUFFICES ASSUME NEW g \in DOMAIN chain, NEW j \in TxIndexes(g), Owes(g, j),
                      g < height + 1 \/ (g = height + 1 /\ j < 0)
               PROVE  Settled(g, j)
    BY DEF SettledBefore
  <2>1. g \in Nat /\ j \in Nat /\ g <= height
    BY <1>2 DEF TxIndexes, IInv, TypeOK
  <2>2. QED
    BY <1>1, <2>1, BlockSettled
<1>4. Log!ReportedBefore(height + 1, 0)
  BY <1>2, <1>3, SettledIsReported
<1>5. Owed' = Owed
  BY <1>1 DEF Owed, IsPayment, TxAt, TxIndexes
<1>6. Log!Close(height)
  BY <1>1, <1>2, <1>4, <1>5 DEF Log!Close, NoRow, Log!Unset
<1>7. height \in DOMAIN Owed
  BY <1>2, OwedFacts DEF IInv
<1>8. QED
  BY <1>6, <1>7 DEF Log!LogNext

LEMMA LogStep ==
  ASSUME IInv, MarkInv, [Next]_vars PROVE [Log!LogNext]_(Log!logVars)
<1>1. CASE MineBlock
  BY <1>1, GrowStep DEF Log!LogNext
<1>2. CASE CreateRow \/ LoadErr
  BY <1>2, BeginStep, QuietStep DEF CreateRow, LoadErr, chainVars, Log!LogNext
<1>3. CASE HandleResult
  BY <1>3, ResultStep
<1>4. CASE FinishBlock
  BY <1>4, CloseStep
<1>5. CASE Start \/ LoadRow \/ Refresh \/ RefreshErr \/ Advance
  BY <1>5, QuietStep DEF Start, LoadRow, Refresh, RefreshErr, Advance,
                         chainVars, dbVars, history
<1>6. CASE Parse \/ ParseErr \/ FinishBlockErr \/ Crash
  BY <1>6, QuietStep DEF Parse, ParseErr, FinishBlockErr, NextBlock, Crash,
                         chainVars, dbVars, history
<1>7. CASE UNCHANGED vars
  BY <1>7, QuietStep DEF vars, chainVars, dbVars, history
<1>8. QED
  BY <1>1, <1>2, <1>3, <1>4, <1>5, <1>6, <1>7 DEF Next

LEMMA LogStart == Init => Log!LogInit
<1> SUFFICES ASSUME Init PROVE Log!LogInit
  OBVIOUS
<1>1. DOMAIN chain = {}
  BY DEF Init
<1>2. Owed = <<>>
  BY <1>1 DEF Owed
<1>3. QED
  BY <1>2 DEF Init, Log!LogInit, NoRow, Log!Unset

\* Everything OnStart and SaveParsedResult do, crashes, restarts and rewinds
\* included, is a position moving together with the records of payments.
THEOREM Refinement == Spec => ImplementsPaymentLog
<1>1. IInv /\ MarkInv /\ [Next]_vars => [Log!LogNext]_(Log!logVars)
  BY LogStep
<1>2. QED
  BY LogStart, <1>1, Invariance, MarkHolds, PTL DEF Spec, ImplementsPaymentLog, Log!LogSpec
=============================================================================
