------------------------- MODULE ProducerOwnership -------------------------
(* What the I/O connections of an adapter promise about the production of   *)
(* the input points, whatever lists, sockets and pools implement it: while  *)
(* connections share an input's multicast production exactly one of them    *)
(* owns it, an owner that leaves is replaced at once, and a listener never  *)
(* stays when the last sharer has gone.                                     *)
EXTENDS Naturals, FiniteSets

CONSTANTS
    Conns,      \* the connections
    InputOf,    \* the input point of each of them
    Takers      \* connections that take the production over when they join

VARIABLES
    sharers,    \* connections that share the production of their input
    owners,     \* the sharers that produce
    listeners   \* connections that only listen

vars == <<sharers, owners, listeners>>

Of(S, i) == {c \in S : InputOf[c] = i}

Init == sharers = {} /\ owners = {} /\ listeners = {}

\* c joins.  The first sharer of an input owns it.  A later one takes it over
\* from its owner if it is a taker, and leaves it alone otherwise.
Join(c) ==
    LET current == Of(owners, InputOf[c])
    IN  /\ c \notin sharers
        /\ sharers' = sharers \cup {c}
        /\ owners' = IF current = {} \/ c \in Takers
                     THEN (owners \ current) \cup {c}
                     ELSE owners
        /\ UNCHANGED listeners

Listen(c) ==
    /\ c \notin listeners
    /\ Of(owners, InputOf[c]) # {}
    /\ listeners' = listeners \cup {c}
    /\ UNCHANGED <<sharers, owners>>

\* What happens to input i when the connections of S leave and those of O own
\* the inputs afterwards.
PassedOn(i, S, O) ==
    LET left == Of(sharers, i) \ S
    IN  IF Of(owners, i) \cap S = {}
        THEN Of(O, i) = Of(owners, i)
        ELSE IF left = {}
             THEN Of(O, i) = {} /\ Of(listeners, i) \subseteq S
             ELSE \E h \in left : Of(O, i) = {h}

Leave(S) ==
    /\ S # {}
    /\ sharers' = sharers \ S
    /\ listeners' = listeners \ S
    /\ owners' \subseteq sharers'
    /\ \A i \in {InputOf[c] : c \in Conns} : PassedOn(i, S, owners')

Next ==
    \/ \E c \in Conns : Join(c) \/ Listen(c)
    \/ \E S \in SUBSET (sharers \cup listeners) : Leave(S)

Spec == Init /\ [][Next]_vars

----------------------------------------------------------------------------
\* Every shared input has one owner, and every listener hears one.
OneOwner ==
    \A i \in {InputOf[c] : c \in Conns} :
        /\ Of(sharers, i) # {} => \E h \in Of(sharers, i) : Of(owners, i) = {h}
        /\ Of(listeners, i) # {} => Of(owners, i) # {}
=============================================================================
