----------------------------- MODULE MCTrueTime -----------------------------
(* Cyclic connections, one at the rate of the tick, and a triggered one; a   *)
(* tick takes two units of a word of a few dozen.  The timeout of l takes     *)
(* more than half the word.                                                  *)
EXTENDS TrueTime, TLC

CONSTANTS a, b, t, l

ASSUME Four == Conns \subseteq {a, b, t, l}

MCRate == (a :> 2) @@ (b :> 4) @@ (t :> 2) @@ (l :> 2)
MCInhibit == (a :> 0) @@ (b :> 3) @@ (t :> 0) @@ (l :> 0)
\* As short as the code allows, and longer ones.
MCMultiplier == (a :> 4) @@ (b :> 4) @@ (t :> 4) @@ (l :> 16)
=============================================================================
