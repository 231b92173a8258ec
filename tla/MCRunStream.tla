---------------------------- MODULE MCRunStream ----------------------------
(* A run of at most four events, its store, one inspector, one browser.   *)
EXTENDS RunStream, TLC
=============================================================================
