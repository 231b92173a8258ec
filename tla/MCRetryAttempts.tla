-------------------------- MODULE MCRetryAttempts --------------------------
(* R { c { L { l } }; a { b { K { k }; d } } }: a run called in a step, and  *)
(* a run called, before another step, in a step inside a step.             *)
EXTENDS RetryAttempts, TLC

CONSTANTS R, K, L, a, b, c, d, k, l

RetryEncl == R :> Nowhere @@ c :> R @@ L :> c @@ l :> L
             @@ a :> R @@ b :> a @@ K :> b @@ k :> K @@ d :> b
RetryAwaits == [x \in Sites |-> CASE x = a -> {c} [] x = d -> {K} [] OTHER -> {}]

\* R { a { K { L { l } } } }: K calls L outside any step.
DirectEncl == R :> Nowhere @@ a :> R @@ K :> a @@ L :> K @@ l :> L
DirectAwaits == [x \in Sites |-> {}]
=============================================================================
