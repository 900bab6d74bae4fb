--------------------------- MODULE IndexerService ---------------------------
(***************************************************************************)
(* IndexerService (internal/logic/bitcoin/indexer_service.go): the loop    *)
(* that walks the bitcoin chain, writes every payment to the listen        *)
(* address into deposit_history and keeps its position in the single row   *)
(* of btc_index.                                                           *)
(*                                                                         *)
(* The database (deposits, btcIndex) survives a crash of the process; the  *)
(* local variables of OnStart do not.  The chain, external, only grows: a  *)
(* reorganisation is not modelled, the code has no notion of one.          *)
(***************************************************************************)
EXTENDS BlockParser, Integers

CONSTANTS Blocks,      \* the blocks the miners may produce
          MaxHeight,   \* bound: the height of the chain
          MaxCrashes   \* bound: how often the process is killed

ASSUME BlocksAssumption == \A b \in Blocks : IsBlock(b)
ASSUME BoundsAssumption == MaxHeight \in Nat /\ MaxCrashes \in Nat

VARIABLES
  chain,           \* chain[h] is the block of height h
  btcIndex,        \* table btc_index: its one row, or NoRow
  deposits,        \* table deposit_history
  pc,              \* where OnStart is; "down" when the process is not running
  latestBlock,     \* the locals of OnStart
  currentBlock,
  currentTxIndex,
  height,          \* the variable i of the block loop
  pending,         \* the results of the block that are still to be handled
  origin,          \* history: the height the very first start began after
  failed,          \* history: transactions whose save was reported as failed
  crashes          \* bound

chainVars == <<chain>>
dbVars    == <<btcIndex, deposits>>
locals    == <<latestBlock, currentBlock, currentTxIndex, height, pending>>
history   == <<origin, failed, crashes>>
vars      == <<chainVars, dbVars, pc, locals, history>>

NoRow == [block |-> -1, tx |-> 0]

Results == [index : Nat, out : Nat]

TypeOK ==
  /\ chain \in Seq(Blocks) /\ Len(chain) <= MaxHeight
  /\ btcIndex \in [block : Nat, tx : Nat] \cup {NoRow}
  /\ deposits \subseteq [block : Nat, index : Nat, out : Nat]
  /\ pc \in {"down", "load", "poll", "parse", "save"}
  /\ latestBlock \in Nat /\ currentBlock \in Nat /\ currentTxIndex \in Nat
  /\ height \in Nat
  /\ pending \subseteq Results
  /\ origin \in Nat
  /\ failed \subseteq Nat \X Nat
  /\ crashes \in 0 .. MaxCrashes

Init ==
  /\ chain = <<>>
  /\ btcIndex = NoRow
  /\ deposits = {}
  /\ pc = "down"
  /\ latestBlock = 0 /\ currentBlock = 0 /\ currentTxIndex = 0
  /\ height = 0
  /\ pending = {}
  /\ origin = 0
  /\ failed = {}
  /\ crashes = 0

-----------------------------------------------------------------------------
(* The chain, and what a transaction of it is to the bridge.               *)

\* The transaction of index k in the block of height h.
TxAt(h, k)      == chain[h][k + 1]
TxIndexes(h)    == 0 .. Len(chain[h]) - 1
IsPayment(h, k) == ListenOuts(TxAt(h, k)) # {}

\* The bridge paying itself: StrInArray(v.From, v.To).
IsSelf(tx) == "Listen" \in Froms(tx)

\* Every input was unparsable: parseResult.From[0] is out of range.
NoFrom(tx) == Froms(tx) = {}

\* The unique index on btc_tx_hash: there is a row for this transaction.
Recorded(h, k) == \E d \in deposits : d.block = h /\ d.index = k

MineBlock ==
  /\ Len(chain) < MaxHeight
  /\ \E b \in Blocks : chain' = Append(chain, b)
  /\ UNCHANGED <<dbVars, pc, locals, history>>

-----------------------------------------------------------------------------
(* Start: OnStart up to its loop.                                          *)

Stop == /\ pc' = "down"
        /\ latestBlock' = 0 /\ currentBlock' = 0 /\ currentTxIndex' = 0
        /\ height' = 0
        /\ pending' = {}

\* The first LatestBlock call; when it fails OnStart returns, still down.
Start ==
  /\ pc = "down"
  /\ latestBlock' = Len(chain)
  /\ pc' = "load"
  /\ UNCHANGED <<chainVars, dbVars, currentBlock, currentTxIndex, height,
                 pending, history>>

\* The position is read from its row, found or just created.
Resume(row) ==
  /\ currentBlock' = row.block
  /\ currentTxIndex' = row.tx
  /\ pc' = "poll"
  /\ UNCHANGED <<latestBlock, height, pending>>

LoadRow ==
  /\ pc = "load" /\ btcIndex # NoRow
  /\ Resume(btcIndex)
  /\ UNCHANGED <<chainVars, dbVars, history>>

\* A first start indexes what comes after the block it found on top.
FirstRowAbove == [block |-> latestBlock + 1, tx |-> 0]  \* mutant
FirstRow == [block |-> latestBlock, tx |-> 0]

InsertRow == /\ btcIndex = NoRow
             /\ btcIndex' = FirstRow
             /\ origin' = FirstRow.block

CreateRow ==
  /\ pc = "load"
  /\ InsertRow
  /\ Resume(btcIndex')
  /\ UNCHANGED <<chainVars, deposits, failed, crashes>>

\* The row can be neither read nor created, or it was created and the answer is
\* lost: OnStart returns.
LoadErr ==
  /\ pc = "load"
  /\ InsertRow \/ UNCHANGED <<btcIndex, origin>>
  /\ Stop
  /\ UNCHANGED <<chainVars, deposits, failed, crashes>>

-----------------------------------------------------------------------------
(* The loop: wait for a block, or go on from the position.                 *)

CaughtUp == latestBlock <= currentBlock

Refresh ==
  /\ pc = "poll" /\ CaughtUp
  /\ latestBlock' = Len(chain)
  /\ UNCHANGED <<chainVars, dbVars, pc, currentBlock, currentTxIndex, height,
                 pending, history>>

\* The error is logged and latestBlock is the zero value of the answer.
RefreshErr ==
  /\ pc = "poll" /\ CaughtUp
  /\ latestBlock' = 0
  /\ UNCHANGED <<chainVars, dbVars, pc, currentBlock, currentTxIndex, height,
                 pending, history>>

\* A position with index 0 stands for the whole block.
AdvancedTxIndexSame  == currentTxIndex  \* mutant
AdvancedTxIndexReset == 0               \* mutant
AdvancedBlock   == IF currentTxIndex = 0 THEN currentBlock + 1 ELSE currentBlock
AdvancedTxIndex == IF currentTxIndex = 0 THEN 0 ELSE currentTxIndex + 1

Advance ==
  /\ pc = "poll" /\ ~CaughtUp
  /\ currentBlock' = AdvancedBlock
  /\ currentTxIndex' = AdvancedTxIndex
  /\ height' = AdvancedBlock
  /\ pc' = "parse"
  /\ UNCHANGED <<chainVars, dbVars, latestBlock, pending, history>>

Parse ==
  /\ pc = "parse"
  /\ ~BlockFails(chain[height], currentTxIndex)
  /\ pending' = ParseResults(chain[height], currentTxIndex)
  /\ pc' = "save"
  /\ UNCHANGED <<chainVars, dbVars, latestBlock, currentBlock, currentTxIndex,
                 height, history>>

RewoundBlockNever     == height                  \* mutant
RewoundTxIndexAlways  == currentTxIndex - 1      \* mutant
RewoundBlock   == IF currentTxIndex = 0 THEN height - 1 ELSE height
RewoundTxIndex == IF currentTxIndex = 0 THEN 0 ELSE currentTxIndex - 1

\* An error of the bitcoin node, at any time, or of the block, every time:
\* back to the position before Advance.
ParseErr ==
  /\ pc = "parse"
  /\ currentBlock' = RewoundBlock
  /\ currentTxIndex' = RewoundTxIndex
  /\ pc' = "poll"
  /\ UNCHANGED <<chainVars, dbVars, latestBlock, height, pending, history>>

-----------------------------------------------------------------------------
(* The results of the block, in order.                                     *)

Before(r, s) == \/ r.index < s.index
                \/ r.index = s.index /\ r.out < s.out

IsNext(r) == /\ pc = "save"
             /\ r \in pending
             /\ \A s \in pending : s = r \/ Before(r, s)

Handled(r) == /\ pending' = pending \ {r}
              /\ UNCHANGED <<chainVars, pc, latestBlock, currentBlock,
                             currentTxIndex, height, origin, crashes>>

SkipSelf(r) ==
  /\ IsNext(r)
  /\ IsSelf(TxAt(height, r.index))
  /\ Handled(r)
  /\ UNCHANGED <<dbVars, failed>>

\* What the transaction of SaveParsedResult commits: the deposit and the
\* position, together.  A second row for one transaction is refused.
InsertOnly(r) ==  \* mutant: the position is left to the end of the block
  /\ ~Recorded(height, r.index)
  /\ deposits' = deposits \cup {[block |-> height, index |-> r.index, out |-> r.out]}
  /\ UNCHANGED btcIndex

InsertBlind(r) ==  \* mutant: nor is there a unique index
  /\ deposits' = deposits \cup {[block |-> height, index |-> r.index, out |-> r.out]}
  /\ UNCHANGED btcIndex

Insert(r) ==
  /\ ~Recorded(height, r.index)
  /\ deposits' = deposits \cup {[block |-> height, index |-> r.index, out |-> r.out]}
  /\ btcIndex' = [block |-> height, tx |-> r.index]

SavableSelf(r) == IsNext(r) /\ ~NoFrom(TxAt(height, r.index))  \* mutant

Savable(r) == /\ IsNext(r)
              /\ ~IsSelf(TxAt(height, r.index))
              /\ ~NoFrom(TxAt(height, r.index))

Save(r) ==
  /\ Savable(r)
  /\ Insert(r)
  /\ Handled(r)
  /\ UNCHANGED failed

\* The error is logged and the loop goes on.  Nothing was written, if only
\* because the transaction could not begin, or it was and the answer to the
\* commit is lost.
SaveErr(r) ==
  /\ IsNext(r)
  /\ ~IsSelf(TxAt(height, r.index))
  /\ \/ Savable(r) /\ Insert(r)
     \/ UNCHANGED dbVars
  /\ failed' = failed \cup {<<height, r.index>>}
  /\ Handled(r)

\* The transaction began and reads From[0].
Panic(r) ==
  /\ IsNext(r)
  /\ ~IsSelf(TxAt(height, r.index))
  /\ NoFrom(TxAt(height, r.index))
  /\ Stop
  /\ UNCHANGED <<chainVars, dbVars, history>>

\* The end of a block: on to the next one, or back to waiting.
NextBlock ==
  /\ pc = "save" /\ pending = {}
  /\ currentBlock' = height
  /\ currentTxIndex' = 0
  /\ IF height < latestBlock
       THEN height' = height + 1 /\ pc' = "parse"
       ELSE pc' = "poll" /\ UNCHANGED height
  /\ UNCHANGED <<chainVars, deposits, latestBlock, pending, history>>

FinishBlock ==
  /\ NextBlock
  /\ btcIndex' = [block |-> height, tx |-> 0]

\* The position could not be saved: logged, the loop goes on.
FinishBlockErr ==
  /\ NextBlock
  /\ UNCHANGED btcIndex

Crash ==
  /\ pc # "down"
  /\ crashes < MaxCrashes
  /\ crashes' = crashes + 1
  /\ Stop
  /\ UNCHANGED <<chainVars, dbVars, origin, failed>>

-----------------------------------------------------------------------------
HandleResult == \E r \in pending : \/ SkipSelf(r) \/ Save(r) \/ SaveErr(r)
                                   \/ Panic(r)

Next == \/ MineBlock
        \/ Start \/ LoadRow \/ CreateRow \/ LoadErr
        \/ Refresh \/ RefreshErr \/ Advance
        \/ Parse \/ ParseErr
        \/ HandleResult
        \/ FinishBlock \/ FinishBlockErr
        \/ Crash

Spec == Init /\ [][Next]_vars

\* The loop never stops by itself and the process is started again when it is
\* down.  The node and the database answer some of the calls made for ever.
Fairness ==
  /\ WF_vars(MineBlock)
  /\ WF_vars(Start) /\ SF_vars(LoadRow) /\ SF_vars(CreateRow)
  /\ SF_vars(Refresh) /\ WF_vars(Advance) /\ SF_vars(Parse)
  /\ WF_vars(HandleResult) /\ WF_vars(FinishBlock \/ FinishBlockErr)

FairSpec == Spec /\ Fairness

-----------------------------------------------------------------------------
(* Safety.                                                                 *)

\* Everything up to index k of block h is behind the position p.
CoveredBy(p, h, k) == \/ h < p.block
                      \/ h = p.block /\ (p.tx = 0 \/ k <= p.tx)

Covered(h, k) == CoveredBy(btcIndex, h, k)

\* What may have become of a payment the indexer is done with.
Settled(h, k) == \/ Recorded(h, k)
                 \/ IsSelf(TxAt(h, k))
                 \/ <<h, k>> \in failed

\* The payments the indexer is responsible for.
Owes(h, k) == /\ h \in origin + 1 .. Len(chain)
              /\ k \in TxIndexes(h)
              /\ IsPayment(h, k)

\* The durable position never moves past a payment that is not on record,
\* unless the bridge paid itself or the failed save was logged: whatever the
\* order of crashes, restarts, parse errors and database errors, no payment
\* is lost without a trace (OnStart, SaveParsedResult).
NoSilentLoss ==
  \A h \in DOMAIN chain : \A k \in TxIndexes(h) :
    Owes(h, k) /\ Covered(h, k) => Settled(h, k)

\* A deposit row is never ahead of the position saved with it: a restart
\* resumes behind every recorded transaction and records none of them again.
RecordedIsCovered == \A d \in deposits : Covered(d.block, d.index)

\* Only payments of others made after the first start are on record, each in
\* the row of an output to the listen address.
OnlyOwedRecorded ==
  \A d \in deposits : /\ Owes(d.block, d.index)
                      /\ d.out \in ListenOuts(TxAt(d.block, d.index))
                      /\ ~IsSelf(TxAt(d.block, d.index))

\* Position p is at or before position q; index 0 stands for the whole block.
AtOrBefore(p, q) == \/ p.block < q.block
                    \/ p.block = q.block /\ (q.tx = 0 \/ (p.tx # 0 /\ p.tx <= q.tx))

\* No step, a resumed or rewound loop included, saves a position that lies
\* before the one already in btc_index.
CursorNeverRewinds == [][AtOrBefore(btcIndex, btcIndex')]_vars

-----------------------------------------------------------------------------
(* The inductive invariant: how far the locals of OnStart have got.        *)

\* Payments before index k of block h are settled.
SettledBefore(h, k) ==
  \A g \in DOMAIN chain : \A j \in TxIndexes(g) :
    Owes(g, j) /\ (g < h \/ (g = h /\ j < k)) => Settled(g, j)

\* Waiting: all is settled up to the local position, and it is not behind
\* the durable one.
PollInv ==
  pc = "poll" =>
    LET here == [block |-> currentBlock, tx |-> currentTxIndex]
    IN  /\ btcIndex # NoRow
        /\ AtOrBefore(btcIndex, here)
        /\ \A h \in DOMAIN chain : \A k \in TxIndexes(h) :
             Owes(h, k) /\ CoveredBy(here, h, k) => Settled(h, k)

\* In a block.  Index 1 is never where parsing starts: one step back from it
\* would be index 0, which stands for a whole block.
BlockInv ==
  pc \in {"parse", "save"} =>
    /\ btcIndex # NoRow
    /\ height \in 1 .. latestBlock /\ height > origin
    /\ currentTxIndex # 1
    /\ SettledBefore(height, currentTxIndex)
    /\ \/ btcIndex.block < height
       \/ /\ btcIndex.block = height
          /\ btcIndex.tx # 0
          /\ pc = "parse" => btcIndex.tx < currentTxIndex

\* The results of a block: those handled are settled, and the position has
\* not passed any that is still pending.
SaveInv ==
  pc = "save" =>
    /\ ~BlockFails(chain[height], currentTxIndex)
    /\ pending \subseteq ParseResults(chain[height], currentTxIndex)
    /\ \A r \in ParseResults(chain[height], currentTxIndex) \ pending :
         Settled(height, r.index)
    /\ btcIndex.block = height => \A r \in pending : btcIndex.tx <= r.index

\* The height of the chain bounds every height the indexer holds.
HeightInv ==
  /\ latestBlock <= Len(chain)
  /\ btcIndex.block <= Len(chain)
  /\ btcIndex # NoRow => origin <= btcIndex.block
  /\ btcIndex = NoRow => deposits = {} /\ failed = {}
  /\ btcIndex.tx # 0 => origin < btcIndex.block
  /\ pc = "poll" => /\ currentBlock >= origin /\ currentBlock <= Len(chain)
                    /\ currentTxIndex # 0 => currentBlock > origin

IInv == /\ TypeOK
        /\ HeightInv /\ PollInv /\ BlockInv /\ SaveInv
        /\ NoSilentLoss /\ RecordedIsCovered /\ OnlyOwedRecorded

-----------------------------------------------------------------------------
(* The indexer keeps the promise of PaymentLog.                            *)

Owed == [h \in DOMAIN chain |->
           {k \in TxIndexes(h) : IsPayment(h, k) /\ ~IsSelf(TxAt(h, k))}]

Log == INSTANCE PaymentLog WITH
         owed <- Owed,
         position <- btcIndex,
         recorded <- {<<d.block, d.index>> : d \in deposits},
         reported <- failed

\* Reading, rewinding, restarting and failing all implement a position that
\* moves with the records in chain order.
ImplementsPaymentLog == Log!LogSpec

-----------------------------------------------------------------------------
(* Liveness.                                                               *)

AllSettled(h) == \A k \in TxIndexes(h) : Owes(h, k) => Settled(h, k)

\* A payment in a block that is not the last one is recorded, or its failure
\* is logged, in the end: the loop never hangs behind an error, a restart or
\* a stale chain height.  (In the last block a restart between two payments
\* waits for the next block: CaughtUp holds.)
EveryPaymentSettled ==
  \A h \in 1 .. MaxHeight - 1 : h <= Len(chain) ~> h <= Len(chain) /\ AllSettled(h)

-----------------------------------------------------------------------------
(* A claim of the code that does not hold.                                 *)

\* "bitcoin transfer value" (model/deposit.go): once the position is past a
\* transaction on record, its rows hold every output to the listen address.
FullValueRecorded ==
  \A d \in deposits :
    btcIndex = [block |-> d.block, tx |-> 0] =>
      {e.out : e \in {f \in deposits : f.block = d.block /\ f.index = d.index}}
        = ListenOuts(TxAt(d.block, d.index))
=============================================================================
