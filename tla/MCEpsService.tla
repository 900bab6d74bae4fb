---------------------------- MODULE MCEpsService -----------------------------
(* Small instances of EpsService for TLC.                                  *)
EXTENDS EpsService
=============================================================================
