------------------------ MODULE IndexerServiceProofs ------------------------
(***************************************************************************)
(* The safety of IndexerService for every set of blocks, every height and  *)
(* every number of crashes.  IInv is inductive; the properties the runs    *)
(* check are conjuncts of it or follow from it step by step.               *)
(***************************************************************************)
EXTENDS IndexerService, BlockParserProofs

USE BoundsAssumption

-----------------------------------------------------------------------------
(* What an unchanged, and what a growing, part of the state preserves.     *)

LEMMA BlockOfChain ==
  ASSUME TypeOK, NEW h \in 1 .. Len(chain)
  PROVE  chain[h] \in Blocks /\ IsBlock(chain[h])
BY BlocksAssumption DEF TypeOK

\* What was settled stays settled as long as rows and reports only pile up.
LEMMA SettledStays ==
  ASSUME UNCHANGED <<chain, origin>>, deposits \subseteq deposits', failed \subseteq failed'
  PROVE  \A h, k : /\ Owes(h, k)' <=> Owes(h, k)
                   /\ Settled(h, k) => Settled(h, k)'
                   /\ TxAt(h, k)' = TxAt(h, k) /\ TxIndexes(h)' = TxIndexes(h)
BY DEF Owes, Settled, Recorded, IsPayment, TxAt, TxIndexes

\* Steps that leave the database and the history alone keep the properties
\* that speak of nothing else.
LEMMA DurableFrame ==
  ASSUME IInv, UNCHANGED <<chain, origin, deposits, failed, btcIndex>>
  PROVE  /\ NoSilentLoss' /\ RecordedIsCovered' /\ OnlyOwedRecorded'
         /\ \A h, k : SettledBefore(h, k)' <=> SettledBefore(h, k)
<1>1. \A h, k : /\ Owes(h, k)' <=> Owes(h, k)
                /\ Settled(h, k)' <=> Settled(h, k)
                /\ Covered(h, k)' <=> Covered(h, k)
                /\ TxAt(h, k)' = TxAt(h, k) /\ TxIndexes(h)' = TxIndexes(h)
  BY DEF Owes, Settled, Recorded, IsPayment, TxAt, TxIndexes, Covered, CoveredBy
<1>2. NoSilentLoss'
  BY <1>1 DEF NoSilentLoss, IInv
<1>3. RecordedIsCovered'
  BY <1>1 DEF RecordedIsCovered, IInv
<1>4. OnlyOwedRecorded'
  BY <1>1 DEF OnlyOwedRecorded, IInv
<1>5. \A h, k : SettledBefore(h, k)' <=> SettledBefore(h, k)
  BY <1>1 DEF SettledBefore
<1>6. QED
  BY <1>2, <1>3, <1>4, <1>5

-----------------------------------------------------------------------------
(* One lemma per action.                                                   *)

LEMMA InitStep == Init => IInv
<1> SUFFICES ASSUME Init PROVE IInv
  OBVIOUS
<1>1. TypeOK
  BY DEF Init, TypeOK, NoRow
<1>2. HeightInv /\ PollInv /\ BlockInv /\ SaveInv
  BY DEF Init, HeightInv, PollInv, BlockInv, SaveInv, NoRow
<1>3. NoSilentLoss /\ RecordedIsCovered /\ OnlyOwedRecorded
  BY DEF Init, NoSilentLoss, RecordedIsCovered, OnlyOwedRecorded
<1>4. QED
  BY <1>1, <1>2, <1>3 DEF IInv

LEMMA MineBlockStep == IInv /\ MineBlock => IInv'
<1> SUFFICES ASSUME IInv, MineBlock PROVE IInv'
  OBVIOUS
<1> USE DEF IInv
<1>1. PICK b \in Blocks : chain' = Append(chain, b)
  BY DEF MineBlock
<1>2. UNCHANGED <<btcIndex, deposits, pc, latestBlock, currentBlock, currentTxIndex,
                  height, pending, origin, failed, crashes>>
  BY DEF MineBlock, dbVars, locals, history
<1>3. /\ chain \in Seq(Blocks) /\ chain' \in Seq(Blocks)
      /\ Len(chain) \in Nat /\ Len(chain') = Len(chain) + 1
      /\ \A h \in 1 .. Len(chain) : chain'[h] = chain[h]
      /\ origin \in Nat
  BY <1>1, <1>2 DEF TypeOK
<1>4. TypeOK'
  BY <1>2, <1>3 DEF TypeOK, MineBlock
<1>5. \A h \in 1 .. Len(chain) : \A k :
         /\ TxAt(h, k)' = TxAt(h, k) /\ TxIndexes(h)' = TxIndexes(h)
         /\ Owes(h, k)' <=> Owes(h, k)
         /\ Settled(h, k)' <=> Settled(h, k)
         /\ Covered(h, k)' <=> Covered(h, k)
  <2> SUFFICES ASSUME NEW h \in 1 .. Len(chain), NEW k
               PROVE  /\ TxAt(h, k)' = TxAt(h, k) /\ TxIndexes(h)' = TxIndexes(h)
                      /\ Owes(h, k)' <=> Owes(h, k)
                      /\ Settled(h, k)' <=> Settled(h, k)
                      /\ Covered(h, k)' <=> Covered(h, k)
    OBVIOUS
  <2>1. TxAt(h, k)' = TxAt(h, k) /\ TxIndexes(h)' = TxIndexes(h)
    BY <1>3 DEF TxAt, TxIndexes
  <2>2. Recorded(h, k)' <=> Recorded(h, k)
    BY <1>2 DEF Recorded
  <2>3. Settled(h, k)' <=> Settled(h, k)
    BY <1>2, <2>1, <2>2 DEF Settled
  <2>4. h \in origin' + 1 .. Len(chain') <=> h \in origin + 1 .. Len(chain)
    BY <1>2, <1>3
  <2>5. Owes(h, k)' <=> Owes(h, k)
    BY <2>1, <2>4 DEF Owes, IsPayment
  <2>6. Covered(h, k)' <=> Covered(h, k)
    BY <1>2 DEF Covered, CoveredBy
  <2>7. QED
    BY <2>1, <2>3, <2>5, <2>6
<1>6. HeightInv'
  BY <1>2, <1>3 DEF HeightInv, TypeOK, NoRow
<1>7. \A h \in DOMAIN chain' : h \notin DOMAIN chain => h = Len(chain) + 1
  BY <1>3
<1>8. DOMAIN chain = 1 .. Len(chain)
  BY <1>3
<1>9. PollInv'
  BY <1>2, <1>3, <1>5, <1>7, <1>8 DEF PollInv, HeightInv, TypeOK, AtOrBefore, CoveredBy
<1>10. pc \in {"parse", "save"} => height \in 1 .. Len(chain)
  BY <1>3 DEF BlockInv, HeightInv, TypeOK
<1>11. BlockInv'
  <2>1. SUFFICES ASSUME pc \in {"parse", "save"}
                 PROVE  SettledBefore(height, currentTxIndex)'
    BY <1>2 DEF BlockInv
  <2>2. SettledBefore(height, currentTxIndex)
    BY <2>1 DEF BlockInv
  <2>3. \A h \in DOMAIN chain' : (h < height \/ h = height) => h \in DOMAIN chain
    BY <1>3, <1>7, <1>8, <1>10, <2>1
  <2>4. QED
    BY <1>2, <1>5, <1>8, <2>2, <2>3 DEF SettledBefore
<1>12. SaveInv'
  <2>1. SUFFICES ASSUME pc = "save" PROVE SaveInv'
    BY <1>2 DEF SaveInv
  <2>2. chain'[height] = chain[height]
    BY <2>1, <1>3, <1>10
  <2>3. QED
    BY <1>2, <1>5, <1>10, <2>1, <2>2 DEF SaveInv
<1>13. NoSilentLoss'
  <2>1. \A h \in Nat : \A k : Covered(h, k)' => h <= Len(chain)
    BY <1>2, <1>3 DEF Covered, CoveredBy, HeightInv, TypeOK, NoRow
  <2>2. QED
    BY <1>3, <1>5, <1>7, <1>8, <2>1 DEF NoSilentLoss
<1>14. \A d \in deposits : d.block \in 1 .. Len(chain)
  BY <1>3 DEF OnlyOwedRecorded, Owes
<1>15. RecordedIsCovered' /\ OnlyOwedRecorded'
  BY <1>2, <1>5, <1>14 DEF RecordedIsCovered, OnlyOwedRecorded
<1>16. QED
  BY <1>4, <1>6, <1>9, <1>11, <1>12, <1>13, <1>15

\* Steps that change no table: what is left to show is where OnStart is.
LEMMA LocalStep ==
  ASSUME IInv, UNCHANGED <<chain, origin, deposits, failed, btcIndex>>,
         TypeOK', HeightInv', PollInv', BlockInv', SaveInv'
  PROVE  IInv'
BY DurableFrame DEF IInv

\* A process that stops keeps nothing but its tables.
LEMMA StopStep ==
  ASSUME IInv, Stop, crashes' \in 0 .. MaxCrashes,
         UNCHANGED <<chain, btcIndex, deposits, origin, failed>>
  PROVE  IInv'
<1> USE DEF IInv
<1>1. TypeOK'
  BY DEF TypeOK, Stop, NoRow
<1>2. HeightInv'
  BY DEF HeightInv, Stop, TypeOK
<1>3. PollInv' /\ BlockInv' /\ SaveInv'
  BY DEF PollInv, BlockInv, SaveInv, Stop
<1>4. QED
  BY <1>1, <1>2, <1>3, LocalStep

LEMMA StartStep == IInv /\ Start => IInv'
<1> SUFFICES ASSUME IInv, Start PROVE IInv'
  OBVIOUS
<1> USE DEF IInv, Start, chainVars, dbVars, history
<1>1. TypeOK'
  BY DEF TypeOK, NoRow
<1>2. HeightInv'
  BY DEF HeightInv, TypeOK
<1>3. PollInv' /\ BlockInv' /\ SaveInv'
  BY DEF PollInv, BlockInv, SaveInv
<1>4. QED
  BY <1>1, <1>2, <1>3, LocalStep

LEMMA LoadRowStep == IInv /\ LoadRow => IInv'
<1> SUFFICES ASSUME IInv, LoadRow PROVE IInv'
  OBVIOUS
<1> USE DEF IInv, LoadRow, Resume, chainVars, dbVars, history
<1>1. btcIndex \in [block : Nat, tx : Nat]
  BY DEF TypeOK
<1>2. TypeOK'
  BY <1>1 DEF TypeOK
<1>3. HeightInv'
  BY <1>1 DEF HeightInv, TypeOK
<1>4. PollInv'
  <2>1. AtOrBefore(btcIndex, btcIndex)
    BY <1>1 DEF AtOrBefore
  <2>2. [block |-> currentBlock', tx |-> currentTxIndex'] = btcIndex
    BY <1>1
  <2>3. \A h \in DOMAIN chain : \A k \in TxIndexes(h) :
          Owes(h, k) /\ CoveredBy(btcIndex, h, k) => Settled(h, k)
    BY DEF NoSilentLoss, Covered
  <2>4. \A h, k : /\ Owes(h, k)' <=> Owes(h, k)
                  /\ Settled(h, k)' <=> Settled(h, k)
                  /\ TxIndexes(h)' = TxIndexes(h)
    BY DEF Owes, Settled, Recorded, IsPayment, TxAt, TxIndexes
  <2>5. QED
    BY <2>1, <2>2, <2>3, <2>4 DEF PollInv
<1>5. BlockInv' /\ SaveInv'
  BY DEF BlockInv, SaveInv
<1>6. QED
  BY <1>2, <1>3, <1>4, <1>5, LocalStep

\* The first row is there, whether its answer is or not.
LEMMA InsertRowStep ==
  ASSUME IInv, pc = "load", InsertRow, UNCHANGED <<chainVars, deposits, failed, crashes>>,
         Resume(btcIndex') \/ Stop
  PROVE  IInv'
<1> USE DEF IInv, InsertRow, Resume, Stop, FirstRow, chainVars
<1>1. /\ btcIndex' = [block |-> latestBlock, tx |-> 0] /\ origin' = latestBlock
      /\ \/ pc' = "poll" /\ currentBlock' = latestBlock /\ currentTxIndex' = 0
         \/ pc' = "down"
      /\ deposits = {} /\ deposits' = {} /\ failed' = {}
      /\ latestBlock \in Nat /\ latestBlock <= Len(chain) /\ Len(chain) \in Nat
  BY DEF HeightInv, TypeOK
<1>2. TypeOK'
  BY <1>1 DEF TypeOK
<1>3. HeightInv'
  BY <1>1 DEF HeightInv, TypeOK, NoRow
<1>4. \A h, k : ~(Owes(h, k)' /\ CoveredBy(btcIndex', h, k))
  <2>1. \A h, k : Owes(h, k)' => h \in latestBlock + 1 .. Len(chain)
    BY <1>1 DEF Owes
  <2>2. \A h \in latestBlock + 1 .. Len(chain) : \A k : ~CoveredBy(btcIndex', h, k)
    BY <1>1 DEF CoveredBy
  <2>3. QED
    BY <2>1, <2>2
<1>5. PollInv'
  BY <1>1, <1>4 DEF PollInv, AtOrBefore, NoRow
<1>6. BlockInv' /\ SaveInv'
  BY DEF BlockInv, SaveInv
<1>7. NoSilentLoss' /\ RecordedIsCovered' /\ OnlyOwedRecorded'
  BY <1>1, <1>4 DEF NoSilentLoss, Covered, RecordedIsCovered, OnlyOwedRecorded
<1>8. QED
  BY <1>2, <1>3, <1>5, <1>6, <1>7

LEMMA CreateRowStep == IInv /\ CreateRow => IInv'
BY InsertRowStep DEF CreateRow

LEMMA LoadErrStep == IInv /\ LoadErr => IInv'
<1> SUFFICES ASSUME IInv, LoadErr PROVE IInv'
  OBVIOUS
<1>1. CASE InsertRow
  BY <1>1, InsertRowStep DEF LoadErr
<1>2. CASE UNCHANGED <<btcIndex, origin>>
  BY <1>2, StopStep DEF LoadErr, chainVars, IInv, TypeOK
<1>3. QED
  BY <1>1, <1>2 DEF LoadErr

LEMMA RefreshStep == IInv /\ (Refresh \/ RefreshErr) => IInv'
<1> SUFFICES ASSUME IInv, Refresh \/ RefreshErr PROVE IInv'
  OBVIOUS
<1> USE DEF IInv, Refresh, RefreshErr, chainVars, dbVars, history
<1>1. TypeOK' /\ HeightInv'
  <2>1. latestBlock' \in Nat /\ latestBlock' <= Len(chain)
    BY DEF TypeOK
  <2>2. TypeOK'
    BY <2>1 DEF TypeOK, NoRow
  <2>3. HeightInv'
    BY <2>1 DEF HeightInv
  <2>4. QED
    BY <2>2, <2>3
<1>2. PollInv'
  BY DEF PollInv, Owes, Settled, Recorded, IsPayment, TxAt, TxIndexes
<1>3. BlockInv' /\ SaveInv'
  BY DEF BlockInv, SaveInv
<1>4. QED
  BY <1>1, <1>2, <1>3, LocalStep

LEMMA AdvanceStep == IInv /\ Advance => IInv'
<1> SUFFICES ASSUME IInv, Advance PROVE IInv'
  OBVIOUS
<1> USE DEF IInv, Advance, AdvancedBlock, AdvancedTxIndex, CaughtUp, chainVars, dbVars, history
<1>1. TypeOK' /\ HeightInv'
  BY DEF TypeOK, HeightInv, NoRow
<1>2. PollInv' /\ SaveInv'
  BY DEF PollInv, SaveInv
<1>3. BlockInv'
  <2>1. /\ currentBlock \in Nat /\ currentTxIndex \in Nat /\ latestBlock \in Nat
        /\ origin \in Nat /\ latestBlock > currentBlock
        /\ Len(chain) \in Nat /\ DOMAIN chain = 1 .. Len(chain)
        /\ btcIndex \in [block : Nat, tx : Nat]
    BY DEF TypeOK, PollInv
  <2>2. /\ height' \in 1 .. latestBlock' /\ height' > origin' /\ currentTxIndex' # 1
        /\ btcIndex' # NoRow
    BY <2>1 DEF HeightInv, PollInv
  <2>3. \/ btcIndex.block < height'
        \/ btcIndex.block = height' /\ btcIndex.tx # 0 /\ btcIndex.tx < currentTxIndex'
    BY <2>1 DEF PollInv, AtOrBefore
  <2>4. SettledBefore(height', currentTxIndex')
    <3>1. SUFFICES ASSUME NEW g \in DOMAIN chain, NEW j \in TxIndexes(g), Owes(g, j),
                          g < height' \/ (g = height' /\ j < currentTxIndex')
                   PROVE  Settled(g, j)
      BY DEF SettledBefore
    <3>2. j \in Nat /\ g \in Nat
      BY <2>1 DEF TxIndexes
    <3>3. CoveredBy([block |-> currentBlock, tx |-> currentTxIndex], g, j)
      BY <2>1, <3>1, <3>2 DEF CoveredBy
    <3>4. QED
      BY <3>1, <3>3 DEF PollInv
  <2>5. SettledBefore(height, currentTxIndex)'
    BY <2>4 DEF SettledBefore, Owes, Settled, Recorded, IsPayment, TxAt, TxIndexes
  <2>6. QED
    BY <2>2, <2>3, <2>5 DEF BlockInv
<1>4. QED
  BY <1>1, <1>2, <1>3, LocalStep

\* In a block its height is one of the chain.
LEMMA HeightInChain ==
  ASSUME IInv, pc \in {"parse", "save"}
  PROVE  /\ height \in 1 .. Len(chain)
         /\ height \in Nat /\ currentTxIndex \in Nat
         /\ Len(chain) \in Nat /\ DOMAIN chain = 1 .. Len(chain)
         /\ IsBlock(chain[height]) /\ Len(chain[height]) \in Nat
         /\ btcIndex \in [block : Nat, tx : Nat]
<1>1. TypeOK /\ HeightInv /\ BlockInv
  BY DEF IInv
<1>2. /\ Len(chain) \in Nat /\ DOMAIN chain = 1 .. Len(chain)
      /\ height \in Nat /\ currentTxIndex \in Nat /\ latestBlock \in Nat
      /\ btcIndex \in [block : Nat, tx : Nat]
  BY <1>1 DEF TypeOK, BlockInv
<1>3. height \in 1 .. Len(chain)
  BY <1>1, <1>2 DEF HeightInv, BlockInv
<1>4. IsBlock(chain[height])
  BY <1>1, <1>3, BlockOfChain
<1>5. QED
  BY <1>2, <1>3, <1>4 DEF IsBlock

LEMMA ParseStep == IInv /\ Parse => IInv'
<1> SUFFICES ASSUME IInv, Parse PROVE IInv'
  OBVIOUS
<1> USE DEF Parse, chainVars, dbVars, history
<1> DEFINE results == ParseResults(chain[height], currentTxIndex)
<1>1. \A r \in results : r.index \in Nat /\ r.index >= currentTxIndex /\ r \in Results
  BY HeightInChain, ResultFacts DEF Results
<1>2. TypeOK' /\ HeightInv'
  BY <1>1 DEF IInv, TypeOK, HeightInv, NoRow
<1>3. PollInv'
  BY DEF PollInv
<1>4. BlockInv'
  BY DurableFrame DEF IInv, BlockInv
<1>5. SaveInv'
  BY <1>1, HeightInChain DEF IInv, BlockInv, SaveInv
<1>6. QED
  BY <1>2, <1>3, <1>4, <1>5, LocalStep

LEMMA ParseErrStep == IInv /\ ParseErr => IInv'
<1> SUFFICES ASSUME IInv, ParseErr PROVE IInv'
  OBVIOUS
<1> USE DEF ParseErr, RewoundBlock, RewoundTxIndex, chainVars, dbVars, history
<1>1. /\ currentBlock' \in Nat /\ currentTxIndex' \in Nat
      /\ currentTxIndex # 0 => currentTxIndex - 1 # 0
      /\ currentBlock' <= Len(chain) /\ currentBlock' >= origin
      /\ currentTxIndex' # 0 => currentBlock' > origin
  BY HeightInChain DEF IInv, TypeOK, BlockInv
<1>2. TypeOK' /\ HeightInv'
  BY <1>1 DEF IInv, TypeOK, HeightInv, NoRow
<1>3. PollInv'
  <2> DEFINE here == [block |-> currentBlock', tx |-> currentTxIndex']
  <2>1. AtOrBefore(btcIndex, here) /\ btcIndex # NoRow
    BY <1>1, HeightInChain DEF IInv, BlockInv, AtOrBefore
  <2>2. \A h \in DOMAIN chain : \A k \in TxIndexes(h) :
          Owes(h, k) /\ CoveredBy(here, h, k) => Settled(h, k)
    <3>1. SUFFICES ASSUME NEW h \in DOMAIN chain, NEW k \in TxIndexes(h),
                          Owes(h, k), CoveredBy(here, h, k)
                   PROVE  Settled(h, k)
      OBVIOUS
    <3>2. k \in Int /\ h \in Nat
      BY HeightInChain DEF TxIndexes
    <3>3. h < height \/ (h = height /\ k < currentTxIndex)
      BY <1>1, <3>1, <3>2, HeightInChain DEF CoveredBy
    <3>4. QED
      BY <3>1, <3>3 DEF IInv, BlockInv, SettledBefore
  <2>3. QED
    BY <2>1, <2>2 DEF PollInv, AtOrBefore, Owes, Settled, Recorded, IsPayment, TxAt, TxIndexes
<1>4. BlockInv' /\ SaveInv'
  BY DEF BlockInv, SaveInv
<1>5. QED
  BY <1>2, <1>3, <1>4, LocalStep

\* What lies behind a position lies behind every later one.
LEMMA CoveredStays ==
  ASSUME NEW p \in [block : Int, tx : Nat], NEW q \in [block : Int, tx : Nat],
         AtOrBefore(p, q), NEW h \in Nat, NEW k \in Nat, CoveredBy(p, h, k)
  PROVE  CoveredBy(q, h, k)
BY DEF AtOrBefore, CoveredBy

\* The result that is next is a payment of the block and not its coinbase; all
\* payments of the block before it are settled, and so are all earlier blocks.
LEMMA NextResult ==
  ASSUME IInv, NEW r \in pending, IsNext(r)
  PROVE  /\ r.index \in Nat /\ r.index # 0 /\ r.index >= currentTxIndex
         /\ r.out \in Nat /\ r.out \in ListenOuts(TxAt(height, r.index))
         /\ Owes(height, r.index)
         /\ SettledBefore(height, r.index)
         /\ \A s \in pending : s.index \in Nat /\ s.index >= r.index
         /\ AtOrBefore(btcIndex, [block |-> height, tx |-> r.index])
<1> USE DEF IsNext
<1>1. /\ ~BlockFails(chain[height], currentTxIndex)
      /\ pending \subseteq ParseResults(chain[height], currentTxIndex)
      /\ SettledBefore(height, currentTxIndex)
      /\ height > origin
  BY DEF IInv, SaveInv, BlockInv
<1>2. /\ r.index \in 0 .. Len(chain[height]) - 1 /\ r.index >= currentTxIndex
      /\ r.out \in ListenOuts(chain[height][r.index + 1]) /\ r.out \in Nat
      /\ r.index # 0
  BY <1>1, HeightInChain, ResultFacts, NoCoinbaseResult
<1>3. \A s \in pending : s.index \in Nat
  BY <1>1, HeightInChain, ResultFacts
<1>4. \A s \in pending : s.index >= r.index
  BY <1>2, <1>3 DEF Before
<1>5. Owes(height, r.index)
  <2>1. origin \in Nat
    BY DEF IInv, TypeOK
  <2>2. height \in origin + 1 .. Len(chain)
    BY <2>1, <1>1, HeightInChain
  <2>3. QED
    BY <1>2, <2>2 DEF Owes, TxIndexes, IsPayment, TxAt
<1>6. SettledBefore(height, r.index)
  <2>1. SUFFICES ASSUME NEW g \in DOMAIN chain, NEW j \in TxIndexes(g), Owes(g, j),
                        g < height \/ (g = height /\ j < r.index)
                 PROVE  Settled(g, j)
    BY DEF SettledBefore
  <2>2. CASE g < height \/ (g = height /\ j < currentTxIndex)
    BY <1>1, <2>1, <2>2 DEF SettledBefore
  <2>3. CASE g = height /\ j >= currentTxIndex
    <3>1. j \in 0 .. Len(chain[height]) - 1 /\ ListenOuts(chain[height][j + 1]) # {}
      BY <2>1, <2>3 DEF TxIndexes, Owes, IsPayment, TxAt
    <3>2. PICK s \in ParseResults(chain[height], currentTxIndex) : s.index = j
      <4>1. currentTxIndex \in Nat
        BY HeightInChain
      <4>2. \A k \in 0 .. Len(chain[height]) - 1 :
              k >= currentTxIndex /\ ListenOuts(chain[height][k + 1]) # {} =>
                \E s \in ParseResults(chain[height], currentTxIndex) : s.index = k
        BY <4>1, PaymentHasResult
      <4>3. QED
        BY <2>3, <3>1, <4>2
    <3>3. j < r.index
      BY <2>1, <2>3, HeightInChain
    <3>4. s \notin pending
      BY <1>2, <1>4, <2>3, <3>1, <3>2, <3>3
    <3>5. QED
      BY <2>3, <3>2, <3>4 DEF IInv, SaveInv
  <2>4. QED
    BY <2>1, <2>2, <2>3, HeightInChain DEF TxIndexes
<1>7. AtOrBefore(btcIndex, [block |-> height, tx |-> r.index])
  BY <1>2, HeightInChain DEF IInv, BlockInv, SaveInv, AtOrBefore
<1>8. QED
  BY <1>2, <1>3, <1>4, <1>5, <1>6, <1>7 DEF TxAt

\* A result that is settled by the step that takes it off the list; the row
\* and the position are written together or not at all.
LEMMA HandledStep ==
  ASSUME IInv, NEW r \in pending, IsNext(r), Handled(r),
         \/ Insert(r) /\ ~IsSelf(TxAt(height, r.index))
         \/ UNCHANGED dbVars,
         failed' \in {failed, failed \cup {<<height, r.index>>}},
         Settled(height, r.index)'
  PROVE  IInv'
<1> USE DEF Handled, chainVars, dbVars
<1> DEFINE row == [block |-> height, index |-> r.index, out |-> r.out]
           mark == [block |-> height, tx |-> r.index]
<1>1. /\ pc = "save" /\ pc' = "save" /\ height' = height /\ chain' = chain
      /\ origin' = origin /\ pending' = pending \ {r}
      /\ currentTxIndex' = currentTxIndex /\ latestBlock' = latestBlock
      /\ currentBlock' = currentBlock /\ crashes' = crashes
  BY DEF IsNext
<1>2. \/ deposits' = deposits \cup {row} /\ btcIndex' = mark /\ ~IsSelf(TxAt(height, r.index))
      \/ deposits' = deposits /\ btcIndex' = btcIndex
  BY DEF Insert
<1>3. /\ height \in 1 .. Len(chain) /\ height \in Nat /\ Len(chain) \in Nat
      /\ DOMAIN chain = 1 .. Len(chain) /\ currentTxIndex \in Nat
      /\ btcIndex \in [block : Nat, tx : Nat]
  BY <1>1, HeightInChain
<1>4. /\ r.index \in Nat /\ r.index # 0 /\ r.index >= currentTxIndex
      /\ r.out \in Nat /\ r.out \in ListenOuts(TxAt(height, r.index))
      /\ Owes(height, r.index) /\ SettledBefore(height, r.index)
      /\ \A s \in pending : s.index \in Nat /\ s.index >= r.index
      /\ AtOrBefore(btcIndex, mark)
  BY NextResult
<1>5. \A h, k : /\ Owes(h, k)' <=> Owes(h, k)
                /\ Settled(h, k) => Settled(h, k)'
                /\ TxAt(h, k)' = TxAt(h, k) /\ TxIndexes(h)' = TxIndexes(h)
  BY <1>1, <1>2, SettledStays
<1>6. TypeOK'
  BY <1>1, <1>2, <1>3, <1>4 DEF IInv, TypeOK
<1>7. HeightInv'
  <2>1. btcIndex' \in {btcIndex, mark} /\ height > origin /\ btcIndex # NoRow
    BY <1>1, <1>2 DEF IInv, BlockInv
  <2>2. btcIndex' # NoRow
    BY <1>3, <2>1 DEF NoRow
  <2>3. origin \in Nat
    BY DEF IInv, TypeOK
  <2>4. QED
    BY <1>1, <1>3, <1>4, <2>1, <2>2, <2>3 DEF IInv, HeightInv
<1>8. PollInv'
  BY <1>1 DEF PollInv
<1>9. \A h, k : SettledBefore(h, k) => SettledBefore(h, k)'
  BY <1>1, <1>5 DEF SettledBefore
<1>10. BlockInv'
  <2>1. btcIndex' # NoRow
    BY <1>1, <1>2, <1>3 DEF IInv, BlockInv, NoRow
  <2>2. QED
    BY <1>1, <1>2, <1>3, <1>4, <1>9, <2>1 DEF IInv, BlockInv
<1>11. SaveInv'
  <2>1. \A s \in ParseResults(chain[height], currentTxIndex) \ (pending \ {r}) :
          Settled(height, s.index)'
    BY <1>1, <1>5 DEF IInv, SaveInv
  <2>2. btcIndex'.block = height => \A s \in pending \ {r} : btcIndex'.tx <= s.index
    BY <1>1, <1>2, <1>3, <1>4 DEF IInv, SaveInv
  <2>3. QED
    BY <1>1, <2>1, <2>2 DEF IInv, SaveInv
<1>12. NoSilentLoss'
  <2>1. SUFFICES ASSUME NEW h \in DOMAIN chain, NEW k \in TxIndexes(h),
                        Owes(h, k), Covered(h, k)'
                 PROVE  Settled(h, k)'
    BY <1>1, <1>5 DEF NoSilentLoss
  <2>2. h \in Nat /\ k \in Nat
    BY <1>3 DEF TxIndexes
  <2>3. CASE btcIndex' = btcIndex
    BY <1>5, <2>1, <2>3 DEF IInv, NoSilentLoss, Covered
  <2>4. CASE btcIndex' = mark
    <3>1. h < height \/ (h = height /\ k < r.index) \/ (h = height /\ k = r.index)
      BY <1>3, <1>4, <2>1, <2>2, <2>4 DEF Covered, CoveredBy
    <3>2. QED
      BY <1>4, <1>5, <2>1, <3>1 DEF SettledBefore
  <2>5. QED
    BY <1>2, <2>3, <2>4
<1>13. RecordedIsCovered'
  <2>1. ASSUME NEW d \in deposits PROVE Covered(d.block, d.index)'
    <3>1. d.block \in Nat /\ d.index \in Nat /\ CoveredBy(btcIndex, d.block, d.index)
      BY DEF IInv, TypeOK, RecordedIsCovered, Covered
    <3>2. CoveredBy(mark, d.block, d.index)
      BY <1>3, <1>4, <3>1, CoveredStays
    <3>3. QED
      BY <1>2, <3>1, <3>2 DEF Covered
  <2>2. CoveredBy(mark, row.block, row.index)
    BY <1>3, <1>4 DEF CoveredBy
  <2>3. QED
    BY <1>2, <2>1, <2>2 DEF RecordedIsCovered, Covered
<1>14. OnlyOwedRecorded'
  BY <1>1, <1>2, <1>4, <1>5 DEF IInv, OnlyOwedRecorded
<1>15. QED
  BY <1>6, <1>7, <1>8, <1>10, <1>11, <1>12, <1>13, <1>14 DEF IInv

LEMMA HandleResultStep == IInv /\ HandleResult => IInv'
<1> SUFFICES ASSUME IInv, NEW r \in pending, SkipSelf(r) \/ Save(r) \/ SaveErr(r) \/ Panic(r)
             PROVE  IInv'
  BY DEF HandleResult
<1>1. CASE SkipSelf(r)
  <2>1. Settled(height, r.index)'
    BY <1>1 DEF SkipSelf, Handled, Settled, TxAt, chainVars
  <2>2. QED
    BY <1>1, <2>1, HandledStep DEF SkipSelf
<1>2. CASE Save(r)
  <2> DEFINE row == [block |-> height, index |-> r.index, out |-> r.out]
  <2>1. row \in deposits' /\ height' = height
    BY <1>2 DEF Save, Insert, Handled
  <2>2. row.block = height /\ row.index = r.index
    OBVIOUS
  <2>3. \E d \in deposits' : d.block = height /\ d.index = r.index
    BY <2>1, <2>2
  <2>4. Settled(height, r.index)'
    BY <2>1, <2>3 DEF Settled, Recorded
  <2>5. QED
    BY <1>2, <2>4, HandledStep DEF Save, Savable
<1>3. CASE SaveErr(r)
  <2>1. Settled(height, r.index)'
    BY <1>3 DEF SaveErr, Handled, Settled
  <2>2. QED
    BY <1>3, <2>1, HandledStep DEF SaveErr, Savable
<1>4. CASE Panic(r)
  BY <1>4, StopStep DEF Panic, chainVars, dbVars, history, IInv, TypeOK
<1>5. QED
  BY <1>1, <1>2, <1>3, <1>4

\* Once no result is left, everything up to the end of the block is settled.
LEMMA BlockSettled ==
  ASSUME IInv, pc = "save", pending = {}
  PROVE  \A h \in DOMAIN chain : \A k \in TxIndexes(h) :
           Owes(h, k) /\ h <= height => Settled(h, k)
<1> SUFFICES ASSUME NEW h \in DOMAIN chain, NEW k \in TxIndexes(h), Owes(h, k), h <= height
             PROVE  Settled(h, k)
  OBVIOUS
<1>1. /\ height \in Nat /\ currentTxIndex \in Nat /\ DOMAIN chain = 1 .. Len(chain)
      /\ Len(chain) \in Nat /\ k \in Int
  BY HeightInChain DEF TxIndexes
<1>2. CASE h < height \/ (h = height /\ k < currentTxIndex)
  BY <1>2 DEF IInv, BlockInv, SettledBefore
<1>3. CASE h = height /\ k >= currentTxIndex
  <2>1. k \in 0 .. Len(chain[height]) - 1 /\ ListenOuts(chain[height][k + 1]) # {}
    BY <1>3 DEF TxIndexes, Owes, IsPayment, TxAt
  <2>2. \A j \in 0 .. Len(chain[height]) - 1 :
          j >= currentTxIndex /\ ListenOuts(chain[height][j + 1]) # {} =>
            \E s \in ParseResults(chain[height], currentTxIndex) : s.index = j
    BY <1>1, PaymentHasResult
  <2>3. PICK s \in ParseResults(chain[height], currentTxIndex) : s.index = k
    BY <1>3, <2>1, <2>2
  <2>4. QED
    BY <1>3, <2>3 DEF IInv, SaveInv
<1>4. QED
  BY <1>1, <1>2, <1>3

LEMMA FinishBlockStep == IInv /\ (FinishBlock \/ FinishBlockErr) => IInv'
<1> SUFFICES ASSUME IInv, FinishBlock \/ FinishBlockErr PROVE IInv'
  OBVIOUS
<1> USE DEF chainVars, history
<1> DEFINE mark == [block |-> height, tx |-> 0]
<1>1. /\ pc = "save" /\ pending = {} /\ currentBlock' = height /\ currentTxIndex' = 0
      /\ UNCHANGED <<chain, deposits, origin, failed, crashes, latestBlock, pending>>
      /\ \/ height < latestBlock /\ height' = height + 1 /\ pc' = "parse"
         \/ pc' = "poll" /\ height' = height
      /\ btcIndex' \in {btcIndex, mark}
  BY DEF FinishBlock, FinishBlockErr, NextBlock
<1>2. /\ height \in 1 .. Len(chain) /\ height \in Nat /\ Len(chain) \in Nat
      /\ DOMAIN chain = 1 .. Len(chain) /\ currentTxIndex \in Nat
      /\ btcIndex \in [block : Nat, tx : Nat]
      /\ latestBlock \in Nat /\ origin \in Nat /\ height > origin
      /\ btcIndex # NoRow /\ btcIndex' # NoRow
  BY <1>1, HeightInChain DEF IInv, TypeOK, BlockInv, NoRow
<1>3. AtOrBefore(btcIndex, mark) /\ AtOrBefore(btcIndex', mark)
  BY <1>1, <1>2 DEF IInv, BlockInv, AtOrBefore
<1>4. \A h, k : /\ Owes(h, k)' <=> Owes(h, k)
                /\ Settled(h, k) => Settled(h, k)'
                /\ TxAt(h, k)' = TxAt(h, k) /\ TxIndexes(h)' = TxIndexes(h)
  BY <1>1, SettledStays
<1>5. \A h \in DOMAIN chain : \A k \in TxIndexes(h) :
        Owes(h, k) /\ h <= height => Settled(h, k)'
  BY <1>1, <1>4, BlockSettled
<1>6. TypeOK' /\ HeightInv'
  <2>1. TypeOK'
    BY <1>1, <1>2 DEF IInv, TypeOK
  <2>2. HeightInv'
    BY <1>1, <1>2 DEF IInv, HeightInv
  <2>3. QED
    BY <2>1, <2>2
<1>7. PollInv'
  <2>1. SUFFICES ASSUME pc' = "poll" PROVE PollInv'
    BY DEF PollInv
  <2>2. \A h \in DOMAIN chain : \A k : CoveredBy(mark, h, k) => h <= height
    BY <1>2 DEF CoveredBy
  <2>3. QED
    BY <1>1, <1>2, <1>3, <1>4, <1>5, <2>1, <2>2 DEF PollInv
<1>8. BlockInv'
  <2>1. SUFFICES ASSUME pc' = "parse" PROVE BlockInv'
    BY <1>1 DEF BlockInv
  <2>2. height' = height + 1 /\ height < latestBlock
    BY <1>1, <2>1
  <2>3. SettledBefore(height, currentTxIndex)'
    <3>1. \A h \in DOMAIN chain : \A k \in TxIndexes(h) :
            h < height + 1 \/ (h = height + 1 /\ k < 0) => h <= height
      BY <1>2 DEF TxIndexes
    <3>2. QED
      BY <1>1, <1>4, <1>5, <2>2, <3>1 DEF SettledBefore
  <2>4. btcIndex'.block < height + 1
    BY <1>1, <1>2, <1>3 DEF AtOrBefore
  <2>5. QED
    BY <1>1, <1>2, <2>2, <2>3, <2>4 DEF BlockInv
<1>9. SaveInv'
  BY <1>1 DEF SaveInv
<1>10. NoSilentLoss'
  <2>1. \A h \in DOMAIN chain : \A k : CoveredBy(mark, h, k) => h <= height
    BY <1>2 DEF CoveredBy
  <2>2. CASE btcIndex' = mark
    BY <1>1, <1>4, <1>5, <2>1, <2>2 DEF NoSilentLoss, Covered
  <2>3. CASE btcIndex' = btcIndex
    BY <1>1, <1>4, <2>3 DEF IInv, NoSilentLoss, Covered
  <2>4. QED
    BY <1>1, <2>2, <2>3
<1>11. RecordedIsCovered'
  <2>1. ASSUME NEW d \in deposits PROVE Covered(d.block, d.index)'
    <3>1. d.block \in Nat /\ d.index \in Nat /\ CoveredBy(btcIndex, d.block, d.index)
      BY DEF IInv, TypeOK, RecordedIsCovered, Covered
    <3>2. CoveredBy(mark, d.block, d.index)
      BY <1>2, <1>3, <3>1, CoveredStays
    <3>3. QED
      BY <1>1, <3>1, <3>2 DEF Covered
  <2>2. QED
    BY <1>1, <2>1 DEF RecordedIsCovered
<1>12. OnlyOwedRecorded'
  BY <1>1, <1>4 DEF IInv, OnlyOwedRecorded
<1>13. QED
  BY <1>6, <1>7, <1>8, <1>9, <1>10, <1>11, <1>12 DEF IInv

-----------------------------------------------------------------------------
(* The theorems.                                                           *)

LEMMA NextStep == IInv /\ [Next]_vars => IInv'
<1> SUFFICES ASSUME IInv, [Next]_vars PROVE IInv'
  OBVIOUS
<1>1. CASE LoadErr
  BY <1>1, LoadErrStep
<1>2. CASE Crash
  <2>1. crashes' \in 0 .. MaxCrashes
    BY <1>2 DEF Crash, IInv, TypeOK
  <2>2. QED
    BY <1>2, <2>1, StopStep DEF Crash, chainVars, dbVars
<1>3. CASE UNCHANGED vars
  <2>1. UNCHANGED <<chain, btcIndex, deposits, pc, latestBlock, currentBlock,
                    currentTxIndex, height, pending, origin, failed, crashes>>
    BY <1>3 DEF vars, chainVars, dbVars, locals, history
  <2>2. TypeOK' /\ HeightInv' /\ PollInv'
    BY <2>1 DEF IInv, TypeOK, HeightInv, PollInv, Owes, Settled, Recorded, IsPayment,
                TxAt, TxIndexes
  <2>3. BlockInv' /\ SaveInv'
    BY <2>1, DurableFrame DEF IInv, BlockInv, SaveInv, Settled, Recorded, TxAt
  <2>4. QED
    BY <2>1, <2>2, <2>3, LocalStep
<1>4. QED
  BY <1>1, <1>2, <1>3, MineBlockStep, StartStep, LoadRowStep, CreateRowStep, RefreshStep,
     AdvanceStep, ParseStep, ParseErrStep, HandleResultStep, FinishBlockStep DEF Next

\* IInv, the position of OnStart against what is settled, holds throughout.
THEOREM Invariance == Spec => []IInv
<1>1. Init => IInv
  BY InitStep
<1>2. IInv /\ [Next]_vars => IInv'
  BY NextStep
<1>3. QED
  BY <1>1, <1>2, PTL DEF Spec

\* Every variable keeps its type: the rewinding arithmetic of the position
\* included, no height or index ever becomes negative.
THEOREM TypeCorrect == Spec => []TypeOK
<1>1. IInv => TypeOK
  BY DEF IInv
<1>2. QED
  BY <1>1, Invariance, PTL

\* No payment is passed by the durable position without a row, a log entry or
\* the bridge being its own sender.
THEOREM Safety == Spec => []NoSilentLoss
<1>1. IInv => NoSilentLoss
  BY DEF IInv
<1>2. QED
  BY <1>1, Invariance, PTL

\* A deposit row and the position move together.
THEOREM RecordsAndPosition == Spec => []RecordedIsCovered
<1>1. IInv => RecordedIsCovered
  BY DEF IInv
<1>2. QED
  BY <1>1, Invariance, PTL

\* Only payments of others, made after the first start, have rows.
THEOREM RecordsAreOwed == Spec => []OnlyOwedRecorded
<1>1. IInv => OnlyOwedRecorded
  BY DEF IInv
<1>2. QED
  BY <1>1, Invariance, PTL

-----------------------------------------------------------------------------
(* What is recorded of a transaction.                                      *)

\* The unique index: one row for each transaction, whichever of its outputs.
OneRowPerTx == \A d, e \in deposits : d.block = e.block /\ d.index = e.index => d = e

LEMMA OneRowStep == OneRowPerTx /\ [Next]_vars => OneRowPerTx'
<1> SUFFICES ASSUME OneRowPerTx, [Next]_vars PROVE OneRowPerTx'
  OBVIOUS
<1>1. CASE UNCHANGED deposits
  BY <1>1 DEF OneRowPerTx
<1>2. ASSUME NEW r \in pending, Insert(r) PROVE OneRowPerTx'
  <2> DEFINE new == [block |-> height, index |-> r.index, out |-> r.out]
  <2>1. deposits' = deposits \cup {new} /\ new.block = height /\ new.index = r.index
    BY <1>2 DEF Insert
  <2>2. \A d \in deposits : ~(d.block = new.block /\ d.index = new.index)
    BY <1>2, <2>1 DEF Insert, Recorded
  <2> HIDE DEF new
  <2> QED
    BY <2>1, <2>2 DEF OneRowPerTx
<1>3. CASE HandleResult
  BY <1>1, <1>2, <1>3 DEF HandleResult, SkipSelf, Save, SaveErr, Panic, dbVars
<1>4. CASE ~HandleResult
  BY <1>1, <1>4 DEF Next, vars, dbVars, MineBlock, Start, LoadRow, CreateRow, LoadErr,
     Refresh, RefreshErr, Advance, Parse, ParseErr, FinishBlock, FinishBlockErr, NextBlock, Crash
<1> QED
  BY <1>3, <1>4

LEMMA OneRowHolds == Spec => []OneRowPerTx
<1>1. Init => OneRowPerTx
  BY DEF Init, OneRowPerTx
<1> QED
  BY <1>1, OneRowStep, PTL DEF Spec

\* What is missing from the record is the value of further outputs of one
\* transaction and nothing else: with one output to the listen address in each,
\* as wallets pay, the value is recorded in full (SaveParsedResult).
THEOREM SingleOutputsInFull ==
  ASSUME \A b \in Blocks : \A i \in DOMAIN b : \A j, k \in ListenOuts(b[i]) : j = k
  PROVE  Spec => []FullValueRecorded
<1>1. IInv /\ OneRowPerTx => FullValueRecorded
  <2> SUFFICES ASSUME IInv, OneRowPerTx, NEW d \in deposits
               PROVE  {e.out : e \in {f \in deposits : f.block = d.block /\ f.index = d.index}}
                        = ListenOuts(TxAt(d.block, d.index))
    BY DEF FullValueRecorded
  <2>1. {f \in deposits : f.block = d.block /\ f.index = d.index} = {d}
    BY DEF OneRowPerTx
  <2>2. /\ d.block \in origin + 1 .. Len(chain) /\ d.index \in 0 .. Len(chain[d.block]) - 1
        /\ d.out \in ListenOuts(TxAt(d.block, d.index))
    BY DEF IInv, OnlyOwedRecorded, Owes, TxIndexes
  <2>3. chain \in Seq(Blocks) /\ Len(chain) \in Nat /\ origin \in Nat
    BY DEF IInv, TypeOK
  <2>4. chain[d.block] \in Blocks
    BY <2>2, <2>3
  <2>5. d.index + 1 \in DOMAIN chain[d.block]
    <3>1. chain[d.block] \in Seq(Tx)
      BY <2>4, BlocksAssumption DEF IsBlock
    <3>2. Len(chain[d.block]) \in Nat /\ DOMAIN chain[d.block] = 1 .. Len(chain[d.block])
      BY <3>1
    <3> QED
      BY <2>2, <3>2
  <2>6. ListenOuts(TxAt(d.block, d.index)) = {d.out}
    BY <2>2, <2>4, <2>5 DEF TxAt
  <2> QED
    BY <2>1, <2>6
<1> QED
  BY <1>1, Invariance, OneRowHolds, PTL

-----------------------------------------------------------------------------
(* The position never moves back.                                          *)

LEMMA AtOrBeforeItself ==
  ASSUME TypeOK PROVE AtOrBefore(btcIndex, btcIndex)
BY DEF TypeOK, AtOrBefore, NoRow

\* While results are pending the position is not past the next of them.
LEMMA InsertMovesOn ==
  ASSUME IInv, NEW r \in pending, IsNext(r), Insert(r)
  PROVE  AtOrBefore(btcIndex, btcIndex')
<1>1. /\ height \in Nat /\ btcIndex \in [block : Nat, tx : Nat] /\ pc = "save"
      /\ btcIndex' = [block |-> height, tx |-> r.index] /\ r.index \in Nat
  BY DEF IInv, TypeOK, BlockInv, IsNext, Insert, Results
<1>2. \/ btcIndex.block < height
      \/ btcIndex.block = height /\ btcIndex.tx # 0 /\ btcIndex.tx <= r.index
  BY <1>1 DEF IInv, BlockInv, SaveInv
<1>3. QED
  BY <1>1, <1>2 DEF AtOrBefore

LEMMA PositionStep == IInv /\ [Next]_vars => [AtOrBefore(btcIndex, btcIndex')]_vars
<1> SUFFICES ASSUME IInv, Next PROVE AtOrBefore(btcIndex, btcIndex')
  OBVIOUS
<1>1. ASSUME btcIndex' = btcIndex PROVE AtOrBefore(btcIndex, btcIndex')
  BY <1>1, AtOrBeforeItself DEF IInv
<1>2. CASE InsertRow
  <2>1. btcIndex = NoRow /\ btcIndex' = [block |-> latestBlock, tx |-> 0] /\ latestBlock \in Nat
    BY <1>2 DEF InsertRow, FirstRow, IInv, TypeOK
  <2>2. QED
    BY <2>1 DEF AtOrBefore, NoRow
<1>3. CASE HandleResult
  <2> PICK r \in pending : SkipSelf(r) \/ Save(r) \/ SaveErr(r) \/ Panic(r)
    BY <1>3 DEF HandleResult
  <2>1. CASE SkipSelf(r) \/ Panic(r)
    BY <2>1, <1>1 DEF SkipSelf, Panic, dbVars
  <2>2. CASE Save(r) \/ SaveErr(r)
    BY <2>2, <1>1, InsertMovesOn DEF Save, SaveErr, Savable, dbVars
  <2>3. QED
    BY <2>1, <2>2
<1>4. CASE FinishBlock
  <2>1. /\ pc = "save" /\ btcIndex' = [block |-> height, tx |-> 0]
        /\ height \in Nat /\ btcIndex \in [block : Nat, tx : Nat]
        /\ btcIndex.block < height \/ btcIndex.block = height
    BY <1>4 DEF FinishBlock, NextBlock, IInv, TypeOK, BlockInv
  <2>2. QED
    BY <2>1 DEF AtOrBefore
<1>5. CASE CreateRow \/ LoadErr
  BY <1>5, <1>1, <1>2 DEF CreateRow, LoadErr
<1>6. CASE MineBlock \/ Start \/ LoadRow \/ Refresh \/ RefreshErr \/ Advance
  BY <1>6, <1>1 DEF MineBlock, Start, LoadRow, Refresh, RefreshErr, Advance, dbVars
<1>7. CASE Parse \/ ParseErr \/ FinishBlockErr \/ Crash
  BY <1>7, <1>1 DEF Parse, ParseErr, FinishBlockErr, Crash, dbVars
<1>8. QED
  BY <1>3, <1>4, <1>5, <1>6, <1>7 DEF Next

\* Resumed, rewound or carried on, the loop of OnStart never saves a position
\* before the one in btc_index.
THEOREM PositionAdvances == Spec => CursorNeverRewinds
BY Invariance, PositionStep, PTL DEF Spec, CursorNeverRewinds
=============================================================================
