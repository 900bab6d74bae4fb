---------------------------- MODULE DepositPayout ----------------------------
(***************************************************************************)
(* What the bridge promises for every deposit, with nothing of batches,    *)
(* statuses, calls and retries: an order for the bridge contract is sent   *)
(* only while none is known to be out, a transfer only to make up for an   *)
(* order that was reverted, and a deposit that is closed stays as it is.   *)
(* An order the service forgets of, by a crash or an answer that is lost,  *)
(* is hidden from it: only then may there be a second one.                 *)
(***************************************************************************)
EXTENDS Naturals, FiniteSets

CONSTANT Deposits

VARIABLES
  orders,     \* orders[d]: the transactions sent to the contract for d
  transfers,  \* transfers[d]: those that send the amount of d directly
  reverted,   \* the transactions executed without effect
  hidden,     \* hidden[d]: the orders of d that were forgotten
  closed      \* the deposits nothing is sent for any more

payoutVars == <<orders, transfers, reverted, hidden, closed>>

PayoutInit ==
  /\ orders = [d \in Deposits |-> {}] /\ transfers = [d \in Deposits |-> {}]
  /\ reverted = {}
  /\ hidden = [d \in Deposits |-> 0]
  /\ closed = {}

Fresh(t) == \A d \in Deposits : t \notin orders[d] \cup transfers[d]

HideOne(d) == hidden' = [hidden EXCEPT ![d] = @ + 1]

\* All orders so far are forgotten; so may this one be.
Order(d) ==
  /\ d \notin closed
  /\ Cardinality(orders[d]) = hidden[d]
  /\ \E t \in orders'[d] : /\ Fresh(t)
                          /\ orders' = [orders EXCEPT ![d] = @ \cup {t}]
  /\ UNCHANGED hidden \/ HideOne(d)
  /\ UNCHANGED <<transfers, reverted, closed>>

Hide(d) ==
  /\ d \notin closed
  /\ Cardinality(orders[d]) > hidden[d]
  /\ HideOne(d)
  /\ UNCHANGED <<orders, transfers, reverted, closed>>

Transfer(d) ==
  /\ d \notin closed
  /\ Cardinality(transfers[d]) < Cardinality(orders[d] \cap reverted)
  /\ \E t \in transfers'[d] : /\ Fresh(t)
                             /\ transfers' = [transfers EXCEPT ![d] = @ \cup {t}]
  /\ UNCHANGED <<orders, reverted, hidden, closed>>

Revert ==
  /\ \E t \in reverted' : ~Fresh(t) /\ reverted' = reverted \cup {t}
  /\ UNCHANGED <<orders, transfers, hidden, closed>>

Close(d) ==
  /\ closed' = closed \cup {d}
  /\ UNCHANGED <<orders, transfers, reverted, hidden>>

PayoutNext == \/ Revert
              \/ \E d \in Deposits : Order(d) \/ Hide(d) \/ Transfer(d) \/ Close(d)

PayoutSpec == PayoutInit /\ [][PayoutNext]_payoutVars
=============================================================================
