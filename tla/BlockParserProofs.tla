-------------------------- MODULE BlockParserProofs --------------------------
(* What the results of ParseBlock are, for every block.                    *)
EXTENDS BlockParser, TLAPS

\* A block is a sequence of transactions; its results name them by index and
\* output ordinal.
LEMMA ResultFacts ==
  ASSUME NEW b, IsBlock(b), NEW t \in Nat, NEW r \in ParseResults(b, t)
  PROVE  /\ r.index \in 0 .. Len(b) - 1
         /\ r.index >= t
         /\ r.out \in ListenOuts(b[r.index + 1])
         /\ r.out \in Nat
         /\ r = [index |-> r.index, out |-> r.out]
<1>1. PICK k \in Parsed(b, t) :
        r \in {[index |-> k, out |-> j] : j \in ListenOuts(b[k + 1])}
  BY DEF ParseResults
<1>2. PICK j \in ListenOuts(b[k + 1]) : r = [index |-> k, out |-> j]
  BY <1>1
<1>3. Len(b) \in Nat /\ k \in 0 .. Len(b) - 1 /\ k >= t
  BY <1>1 DEF IsBlock, Parsed
<1>4. b[k + 1] \in Tx
  BY <1>3 DEF IsBlock
<1>5. j \in Nat
  BY <1>2, <1>4 DEF ListenOuts, Tx
<1>6. QED
  BY <1>2, <1>3, <1>5

\* Every payment of the block from index t on has a result.
LEMMA PaymentHasResult ==
  ASSUME NEW b, NEW t \in Nat
  PROVE  \A k \in 0 .. Len(b) - 1 :
           k >= t /\ ListenOuts(b[k + 1]) # {} =>
             \E r \in ParseResults(b, t) : r.index = k
<1> SUFFICES ASSUME NEW k \in 0 .. Len(b) - 1, k >= t, ListenOuts(b[k + 1]) # {}
             PROVE  \E r \in ParseResults(b, t) : r.index = k
  OBVIOUS
<1>1. PICK j \in ListenOuts(b[k + 1]) : TRUE
  OBVIOUS
<1>2. k \in Parsed(b, t)
  BY DEF Parsed
<1> DEFINE S(n) == {[index |-> n, out |-> i] : i \in ListenOuts(b[n + 1])}
<1>3. [index |-> k, out |-> j] \in S(k)
  BY <1>1
<1>4. ParseResults(b, t) = UNION {S(n) : n \in Parsed(b, t)}
  BY DEF ParseResults
<1>5. S(k) \in {S(n) : n \in Parsed(b, t)}
  BY <1>2
<1> HIDE DEF S
<1>6. [index |-> k, out |-> j] \in ParseResults(b, t)
  BY <1>3, <1>4, <1>5
<1>7. QED
  BY <1>6

\* The coinbase is never a result: a payment by it cannot be parsed.
LEMMA NoCoinbaseResult ==
  ASSUME NEW b, IsBlock(b), NEW t \in Nat, ~BlockFails(b, t),
         NEW r \in ParseResults(b, t)
  PROVE  r.index # 0
<1>1. SUFFICES ASSUME r.index = 0 PROVE FALSE
  OBVIOUS
<1>2. 0 \in 0 .. Len(b) - 1 /\ 0 >= t /\ r.out \in ListenOuts(b[0 + 1])
  BY <1>1, ResultFacts
<1>3. 0 \in Parsed(b, t) /\ ListenOuts(b[1]) # {}
  BY <1>2 DEF Parsed
<1>4. FromFails(b[1])
  BY DEF IsBlock, FromFails, InScripts
<1>5. TxFails(b[0 + 1])
  BY <1>3, <1>4 DEF TxFails
<1>6. QED
  BY <1>3, <1>5 DEF BlockFails
=============================================================================
