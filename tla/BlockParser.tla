---------------------------- MODULE BlockParser ----------------------------
(***************************************************************************)
(* What Indexer.ParseBlock (internal/logic/bitcoin/indexer.go) makes of a  *)
(* bitcoin block, as a function of the block and of the index it is asked  *)
(* to start at.  Transaction indexes are those of the code: the first      *)
(* transaction of a block, its coinbase, has index 0.                      *)
(*                                                                         *)
(* Scripts are abstracted to what parseAddress can tell about them:        *)
(*   "Listen"   the address of the bridge                                  *)
(*   "User"     any other address                                          *)
(*   "NonStd"   txscript cannot parse it (ErrParsePkScript): skipped       *)
(*   "NoAddr"   parsed, but it has no address: any other error, aborts     *)
(* and, for an input only, "Missing": getrawtransaction does not know the  *)
(* transaction it spends.  The input of a coinbase is always of that kind. *)
(***************************************************************************)
EXTENDS Naturals, Sequences

OutScript == {"Listen", "User", "NonStd", "NoAddr"}
InScript  == OutScript \cup {"Missing"}
Tx        == [outs : Seq(OutScript), ins : Seq(InScript)]

\* A block as the bitcoin network accepts it: a coinbase comes first.
IsBlock(b) == /\ b \in Seq(Tx)
              /\ Len(b) > 0
              /\ "Missing" \in {b[1].ins[i] : i \in DOMAIN b[1].ins}

OutScripts(tx) == {tx.outs[j] : j \in DOMAIN tx.outs}
InScripts(tx)  == {tx.ins[j] : j \in DOMAIN tx.ins}

\* The ordinals of the outputs of tx to the listen address.
ListenOuts(tx) == {j \in DOMAIN tx.outs : tx.outs[j] = "Listen"}

\* parseFromAddress returns an error: no address for one of the inputs.
FromFails(tx) == InScripts(tx) \cap {"NoAddr", "Missing"} # {}

\* The From list of a parse result, as a set: unparsable inputs are skipped.
Froms(tx) == InScripts(tx) \ {"NonStd"}

\* parseTx returns an error.  Inputs are looked up only for a payment.
TxFails(tx) == \/ "NoAddr" \in OutScripts(tx)
               \/ ListenOuts(tx) # {} /\ FromFails(tx)

\* ParseBlock parses the transactions from txIndex on; one error fails all.
ParsedAfter(block, txIndex) == {k \in 0 .. Len(block) - 1 : k > txIndex}  \* mutant
Parsed(block, txIndex)     == {k \in 0 .. Len(block) - 1 : k >= txIndex}
BlockFails(block, txIndex) == \E k \in Parsed(block, txIndex) : TxFails(block[k + 1])

\* One result per output to the listen address, ordered by (index, out).
ParseResults(block, txIndex) ==
  UNION {{[index |-> k, out |-> j] : j \in ListenOuts(block[k + 1])} :
            k \in Parsed(block, txIndex)}
=============================================================================
