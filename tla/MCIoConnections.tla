-------------------------- MODULE MCIoConnections --------------------------
(* Exclusive owners with an output point each, one input only and one       *)
(* listen only connection set with its heartbeat output point, all of them  *)
(* producing one input point: the points of the sample application, with    *)
(* more exclusive owners so that the production can change hands.           *)
EXTENDS CloseLoops, TLC

CONSTANTS
    Owners, Inputs, Listeners,  \* the members of the three pools
    Others                      \* those of them that produce a second input

ASSUME PoolsPartition == Conns = Owners \cup Inputs \cup Listeners

MCKind == [c \in Conns |-> CASE c \in Owners -> "ExclusiveOwner"
                             [] c \in Inputs -> "InputOnly"
                             [] c \in Listeners -> "ListenOnly"]

\* An exclusive owner stands for its own output point.
MCOutputOf == [c \in Conns |-> CASE c \in Owners -> c
                                 [] c \in Inputs -> "heartbeat input only"
                                 [] c \in Listeners -> "heartbeat listen only"]

MCInputOf == [c \in Conns |-> IF c \in Others THEN "other input" ELSE "input"]

MCConfigOf == [c \in Conns |-> "config"]

Symmetry == Permutations(Triads) \cup Permutations(Addrs)
            \cup Permutations(Owners \ Others) \cup Permutations(Inputs \ Others)
            \cup Permutations(Listeners \ Others)
=============================================================================
