--------------------------- MODULE MCProjectHost ---------------------------
(* Two requests for one or two roots, and as many project objects.         *)
EXTENDS ProjectHost, TLC

CONSTANTS c1, c2, rA, rB

\* One request moves to another directory, the other stays.
HostAsks == c1 :> {rA} @@ c2 :> {rA, rB}
=============================================================================
