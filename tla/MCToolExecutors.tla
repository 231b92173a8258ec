-------------------------- MODULE MCToolExecutors --------------------------
(* The providers of two generations and a command of each, plus one more.  *)
EXTENDS ToolExecutors, TLC

CONSTANTS old, new, c1, c2, c3

CommandProviders == c1 :> old @@ c2 :> new @@ c3 :> old
=============================================================================
