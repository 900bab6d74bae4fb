----------------------------- MODULE PaymentLog -----------------------------
(***************************************************************************)
(* What the indexer promises, with nothing of how it reads the chain: a    *)
(* durable position that moves over the payments of an append-only ledger  *)
(* in their order, together with the record of each payment, and that      *)
(* passes a payment it did not record only after the loss was reported.    *)
(***************************************************************************)
EXTENDS Integers, Sequences

VARIABLES
  owed,       \* owed[h]: the indexes of the payments in block h
  position,   \* the last payment, or with tx = 0 the last block, dealt with
  recorded,   \* the payments on record, as pairs <<h, k>>
  reported    \* the payments whose recording was reported as failed

logVars == <<owed, position, recorded, reported>>

Unset == [block |-> -1, tx |-> 0]

LogTypeOK ==
  /\ owed \in Seq(SUBSET Nat)
  /\ position \in [block : Nat, tx : Nat] \cup {Unset}
  /\ recorded \subseteq Nat \X Nat
  /\ reported \subseteq Nat \X Nat

LogInit == /\ owed = <<>>
           /\ position = Unset
           /\ recorded = {} /\ reported = {}

\* Payment k of block h comes after the position.
Past(h, k) == \/ position.block < h
              \/ position.block = h /\ position.tx # 0 /\ position.tx < k

Grow ==
  /\ Len(owed') = Len(owed) + 1
  /\ \A h \in DOMAIN owed : owed'[h] = owed[h]
  /\ UNCHANGED <<position, recorded, reported>>

Begin ==
  /\ position = Unset
  /\ \E h \in 0 .. Len(owed) : position' = [block |-> h, tx |-> 0]
  /\ UNCHANGED <<owed, recorded, reported>>

\* Every payment past the position and before payment k of block h is reported.
ReportedBefore(h, k) ==
  \A g \in DOMAIN owed : \A j \in owed[g] :
    Past(g, j) /\ (g < h \/ (g = h /\ j < k)) => <<g, j>> \in reported

Record(h, k) ==
  /\ position # Unset
  /\ Past(h, k)
  /\ ReportedBefore(h, k)
  /\ position' = [block |-> h, tx |-> k]
  /\ recorded' = recorded \cup {<<h, k>>}
  /\ reported' \in {reported, reported \cup {<<h, k>>}}
  /\ UNCHANGED owed

Report(h, k) ==
  /\ reported' = reported \cup {<<h, k>>}
  /\ UNCHANGED <<owed, position, recorded>>

Close(h) ==
  /\ position # Unset
  /\ position.block <= h
  /\ ReportedBefore(h + 1, 0)
  /\ position' = [block |-> h, tx |-> 0]
  /\ UNCHANGED <<owed, recorded, reported>>

LogNext == \/ Grow \/ Begin
           \/ \E h \in DOMAIN owed : \/ Close(h)
                                     \/ \E k \in owed[h] : Record(h, k) \/ Report(h, k)

LogSpec == LogInit /\ [][LogNext]_logVars
=============================================================================
