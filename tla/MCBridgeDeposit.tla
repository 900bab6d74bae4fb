--------------------------- MODULE MCBridgeDeposit ---------------------------
(* Small instances of BridgeDeposit for TLC.                               *)
EXTENDS BridgeDeposit, TLC

Symmetry == Permutations(Deposits)
=============================================================================
