--------------------------- MODULE MCIoProduction ---------------------------
(* Two inputs.  The exclusive owners e1 and e2 share an output point and     *)
(* differ in the input they produce; the owner path of the input only       *)
(* connection i2 is that output point as well.                              *)
EXTENDS IoProduction, TLC

CONSTANTS e1, e2, i1, i2, l1    \* members of the pools

MCConns == {e1, e2, i1, i2, l1}

MCKind == [c \in MCConns |-> CASE c \in {e1, e2} -> "ExclusiveOwner"
                               [] c \in {i1, i2} -> "InputOnly"
                               [] c = l1 -> "ListenOnly"]

MCOutputOf == [c \in MCConns |-> CASE c \in {e1, e2, i2} -> "out"
                                   [] c = i1 -> "heartbeat input only"
                                   [] c = l1 -> "heartbeat listen only"]

MCInputOf == [c \in MCConns |-> IF c \in {e1, i1, l1} THEN "A" ELSE "B"]

MCConfigOf == [c \in MCConns |-> IF c = i2 THEN "config of i2" ELSE "config"]

Symmetry == Permutations(Triads)
=============================================================================
