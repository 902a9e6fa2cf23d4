------------------------ MODULE IoConnectionsProofs ------------------------
(* Proofs about IoConnections and IoProduction, for any pools, triads,      *)
(* addresses and width of the ids.                                          *)
(*                                                                          *)
(* The inductive invariant is the conjunction of the invariants the model   *)
(* checker evaluates.  None of them is inductive alone: that the production *)
(* of an input has one master (OneControlMaster) is kept by a close because *)
(* a connection on the list consumes, listeners never produce and a point   *)
(* to point producer keeps its socket (SocketsHeld); the reference count    *)
(* (SocketsBalanced) is kept by a hand-over because the heir held nothing.  *)
(*                                                                          *)
(* A step of IoProduction is a step of IoConnections or leaves it alone, so *)
(* that these invariants hold there too.  On them rests OnePidPerInput: who *)
(* shares a production or hears it has a master, and a new member takes the *)
(* master's id.  An id that is in use is as far behind the counter as there *)
(* were calls since the one that gave it, for as long as that is less than  *)
(* a turn (Given), so that a call can give it again only after a turn.      *)
(*                                                                          *)
(* The last part is about the loops of CloseLoops: they end where the       *)
(* handlers of IoConnections say.  Remove() keeps the rest of the list      *)
(* linked in its order, so that a stack in the middle of a handler is known *)
(* by its members, its producers and the count; and a loop steps on before  *)
(* it closes whom it stands on, so that its walk is that along the list     *)
(* with which it began.                                                     *)
EXTENDS IoProduction, CloseLoops, FiniteSetTheorems, WellFoundedInduction,
        NaturalsInduction, TLAPS

IInv ==
    /\ TypeOK
    /\ ListedIffEstablished
    /\ SocketsHeld
    /\ OneControlMaster
    /\ ListenersHaveMaster
    /\ SocketsBalanced

Listeners(i) == ForInputWithType(i, "ListenOnly")

\* The two ways in which connections end.  Those of S end, and nothing that
\* shares or hears the production of one of them stays behind; or those of S
\* end, all of one input, and one of the input's other sharers inherits the
\* production of m.
EndsWhole(S) ==
    /\ Shut(S)
    /\ \A i : Masters(i) \cap S # {} =>
                Controllers(i) \cup Listeners(i) \subseteq S

EndsWithHeir(S, m, heirs) ==
    /\ HandOver(S, m, heirs)
    /\ m \in Masters(InputOf[m])
    /\ \A d \in S : InputOf[d] = InputOf[m]
    /\ heirs \subseteq Controllers(InputOf[m]) \ S

Ending ==
    \E S \in SUBSET active :
        \/ EndsWhole(S)
        \/ \E m \in S, heirs \in SUBSET Conns : EndsWithHeir(S, m, heirs)

----------------------------------------------------------------------------
(* Reference counts.                                                        *)

\* The sockets held are finitely many.
LEMMA HoldersFinite ==
    ASSUME PoolAssumption, NEW S \in SUBSET Conns
    PROVE  /\ IsFiniteSet(ConsumersIn(S))
           /\ IsFiniteSet(ProducersIn(S))
           /\ Cardinality(ConsumersIn(S)) \in Nat
           /\ Cardinality(ProducersIn(S)) \in Nat
<1>1. IsFiniteSet(S)
  BY FS_Subset DEF PoolAssumption
<1>2. IsFiniteSet(ConsumersIn(S)) /\ IsFiniteSet(ProducersIn(S))
  BY <1>1, FS_Subset DEF ConsumersIn, ProducersIn
<1> QED
  BY <1>2, FS_CardinalityType

\* Taking the members of S out of a finite set takes their number off.
LEMMA CardinalityWithout ==
    ASSUME NEW T, IsFiniteSet(T), NEW S \in SUBSET T
    PROVE  /\ IsFiniteSet(T \ S)
           /\ IsFiniteSet(S)
           /\ Cardinality(T \ S) \in Nat
           /\ Cardinality(S) \in Nat
           /\ Cardinality(T) \in Nat
           /\ Cardinality(T \ S) = Cardinality(T) - Cardinality(S)
<1>1. IsFiniteSet(T \ S) /\ IsFiniteSet(S)
  BY FS_Subset
<1>2. T \cap S = S
  OBVIOUS
<1>3. Cardinality(T \ S) = Cardinality(T) - Cardinality(T \cap S)
  BY FS_Difference
<1> QED
  BY <1>1, <1>2, <1>3, FS_CardinalityType

----------------------------------------------------------------------------
(* Steps that close connections.                                            *)

\* Ending S whole keeps the invariant.
LEMMA ShutPreserves ==
    ASSUME PoolAssumption, IInv, NEW S \in SUBSET active, EndsWhole(S)
    PROVE  IInv'
<1> USE DEF IInv, EndsWhole, Shut, Retire
<1>a. S \subseteq Conns
  BY DEF TypeOK
<1>1. SocketsBalanced' /\ refs' \in Nat
  <2> DEFINE C == ConsumersIn(Conns)
             P == ProducersIn(Conns)
  <2>1. /\ ConsumersIn(Conns)' = C \ ConsumersIn(S)
        /\ ProducersIn(Conns)' = P \ ProducersIn(S)
    BY <1>a DEF ConsumersIn, ProducersIn, TypeOK
  <2>2. ConsumersIn(S) \subseteq C /\ ProducersIn(S) \subseteq P
    BY <1>a DEF ConsumersIn, ProducersIn
  <2>3. IsFiniteSet(C) /\ IsFiniteSet(P)
    BY HoldersFinite
  <2>4. /\ Cardinality(C \ ConsumersIn(S)) = Cardinality(C) - Cardinality(ConsumersIn(S))
        /\ Cardinality(C \ ConsumersIn(S)) \in Nat
        /\ Cardinality(C) \in Nat
        /\ Cardinality(ConsumersIn(S)) \in Nat
    BY <2>2, <2>3, CardinalityWithout
  <2>5. /\ Cardinality(P \ ProducersIn(S)) = Cardinality(P) - Cardinality(ProducersIn(S))
        /\ Cardinality(P \ ProducersIn(S)) \in Nat
        /\ Cardinality(P) \in Nat
        /\ Cardinality(ProducersIn(S)) \in Nat
    BY <2>2, <2>3, CardinalityWithout
  <2>6. refs = Cardinality(C) + Cardinality(P)
    BY DEF SocketsBalanced
  <2>7. refs' = Cardinality(C \ ConsumersIn(S)) + Cardinality(P \ ProducersIn(S))
    <3> HIDE DEF C, P
    <3> QED BY <2>4, <2>5, <2>6
  <2> QED
    BY <2>1, <2>4, <2>5, <2>7 DEF SocketsBalanced
<1>2. TypeOK'
  BY <1>1, <1>a DEF TypeOK, States, ProducingTypes
<1>3. ListedIffEstablished'
  BY <1>a DEF TypeOK, ListedIffEstablished
<1>4. SocketsHeld'
  BY <1>a DEF TypeOK, SocketsHeld
<1>5. \A i : /\ Controllers(i)' = Controllers(i) \ S
             /\ Masters(i)' = Masters(i) \ S
  BY <1>a DEF TypeOK, Controllers, Masters
<1>6. OneControlMaster'
  <2> SUFFICES ASSUME NEW k \in Conns, Controllers(InputOf[k])' # {}
               PROVE  (\E m \in Controllers(InputOf[k]) :
                          Masters(InputOf[k]) = {m})'
    BY DEF OneControlMaster
  <2> DEFINE i == InputOf[k]
  <2>1. PICK m \in Controllers(i) : Masters(i) = {m}
    BY <1>5 DEF OneControlMaster
  <2>2. m \notin S
    BY <2>1, <1>5
  <2> QED
    BY <2>1, <2>2, <1>5
<1>7. ListenersHaveMaster'
  <2> SUFFICES ASSUME NEW c \in active', Kind[c] = "ListenOnly"
               PROVE  Masters(InputOf[c])' # {}
    BY DEF ListenersHaveMaster
  <2>1. c \in active /\ c \notin S
    OBVIOUS
  <2>2. c \in Listeners(InputOf[c])
    BY <2>1 DEF Listeners, ForInputWithType
  <2>3. Masters(InputOf[c]) # {} /\ Masters(InputOf[c]) \cap S = {}
    BY <2>1, <2>2 DEF ListenersHaveMaster
  <2> QED
    BY <2>3, <1>5
<1> QED
  BY <1>1, <1>2, <1>3, <1>4, <1>6, <1>7

\* Ending S with an heir keeps the invariant.
LEMMA HandOverPreserves ==
    ASSUME PoolAssumption, IInv, NEW S \in SUBSET active, NEW m \in S,
           NEW heirs, EndsWithHeir(S, m, heirs)
    PROVE  IInv'
<1> USE DEF IInv, EndsWithHeir, HandOver, Retire
<1> DEFINE i == InputOf[m]
<1>a. S \subseteq Conns
  BY DEF TypeOK
<1>h. PICK h \in heirs :
        producing' = [d \in Conns |-> d = h \/ (producing[d] /\ d \notin S)]
  OBVIOUS
<1>m. /\ m \in Controllers(i)
      /\ Masters(i) = {m}
  <2>1. m \in Conns /\ m \in Controllers(i)
    BY <1>a DEF Masters
  <2> QED
    BY <2>1 DEF OneControlMaster
<1>b. /\ h \in Conns /\ h \in active /\ h \notin S
      /\ h \in Controllers(i) /\ h # m
      /\ producing[m] /\ ~producing[h]
  BY <1>h, <1>m DEF TypeOK, Controllers, Masters
<1>1. SocketsBalanced' /\ refs' \in Nat
  <2> DEFINE C == ConsumersIn(Conns)
             P == ProducersIn(Conns)
             Q == ProducersIn(S \ {m})
             R == P \ ProducersIn(S)
  <2>1. /\ ConsumersIn(Conns)' = C \ ConsumersIn(S)
        /\ ProducersIn(Conns)' = R \cup {h}
    BY <1>a, <1>b, <1>h DEF ConsumersIn, ProducersIn, TypeOK
  <2>2. /\ ConsumersIn(S) \subseteq C
        /\ ProducersIn(S) \subseteq P
        /\ Q \subseteq Conns
        /\ ProducersIn(S) = Q \cup {m}
        /\ m \notin Q
        /\ h \notin R
    BY <1>a, <1>b DEF ConsumersIn, ProducersIn
  <2>3. IsFiniteSet(C) /\ IsFiniteSet(P)
    BY HoldersFinite
  <2>4. /\ Cardinality(C \ ConsumersIn(S)) = Cardinality(C) - Cardinality(ConsumersIn(S))
        /\ Cardinality(C \ ConsumersIn(S)) \in Nat
        /\ Cardinality(C) \in Nat
        /\ Cardinality(ConsumersIn(S)) \in Nat
    BY <2>2, <2>3, CardinalityWithout
  <2>5. /\ Cardinality(R) = Cardinality(P) - Cardinality(ProducersIn(S))
        /\ IsFiniteSet(R)
        /\ Cardinality(R) \in Nat
        /\ Cardinality(P) \in Nat
        /\ Cardinality(ProducersIn(S)) \in Nat
    BY <2>2, <2>3, CardinalityWithout
  <2>6. /\ Cardinality(ProducersIn(S)) = Cardinality(Q) + 1
        /\ Cardinality(Q) \in Nat
    <3>1. S \ {m} \in SUBSET Conns
      BY <1>a
    <3>2. IsFiniteSet(Q) /\ Cardinality(Q) \in Nat
      BY <3>1, HoldersFinite
    <3> QED
      BY <3>2, <2>2, FS_AddElement
  <2>7. Cardinality(R \cup {h}) = Cardinality(R) + 1
    BY <2>2, <2>5, FS_AddElement
  <2>8. refs = Cardinality(C) + Cardinality(P)
    BY DEF SocketsBalanced
  <2>9. refs' = Cardinality(C \ ConsumersIn(S)) + Cardinality(R \cup {h})
    <3> HIDE DEF C, P, Q, R
    <3>1. refs' = refs - (Cardinality(ConsumersIn(S)) + Cardinality(Q))
      BY DEF Q
    <3> QED BY <3>1, <2>4, <2>5, <2>6, <2>7, <2>8
  <2> QED
    BY <2>1, <2>4, <2>5, <2>7, <2>9 DEF SocketsBalanced
<1>2. TypeOK'
  BY <1>1, <1>a, <1>h DEF TypeOK, States, ProducingTypes
<1>3. ListedIffEstablished'
  BY <1>a DEF TypeOK, ListedIffEstablished
<1>4. SocketsHeld'
  BY <1>a, <1>b, <1>h DEF TypeOK, SocketsHeld, Controllers
<1>5. /\ \A j : Controllers(j)' = Controllers(j) \ S
      /\ Masters(i)' = {h}
      /\ h \in Controllers(i)'
      /\ \A j : j # i => /\ Masters(j)' = Masters(j)
                         /\ Controllers(j)' = Controllers(j)
  BY <1>a, <1>b, <1>h, <1>m DEF TypeOK, Controllers, Masters
<1>6. OneControlMaster'
  BY <1>5 DEF OneControlMaster
<1>7. ListenersHaveMaster'
  <2> SUFFICES ASSUME NEW c \in active', Kind[c] = "ListenOnly"
               PROVE  Masters(InputOf[c])' # {}
    BY DEF ListenersHaveMaster
  <2>1. c \in active /\ Masters(InputOf[c]) # {}
    BY DEF ListenersHaveMaster
  <2> QED
    BY <2>1, <1>5
<1> QED
  BY <1>1, <1>2, <1>3, <1>4, <1>6, <1>7

----------------------------------------------------------------------------
(* forward_open.                                                            *)

\* A connection that forward_open() may use is not on the list.
LEMMA AdmittedIsFree ==
    ASSUME PoolAssumption, IInv, NEW c \in Conns, NEW t, NEW p,
           Admitted(c, t, p)
    PROVE  /\ c \notin active
           /\ state[c] = "NonExistent"
           /\ ~consuming[c] /\ ~producing[c]
<1> USE DEF IInv, TypeOK, ListedIffEstablished, SocketsHeld
<1>1. state[c] # "Established"
  BY DEF Admitted, GetConnection, OutputConnected
<1> QED
  BY <1>1 DEF States

LEMMA ForwardOpenPreserves ==
    ASSUME PoolAssumption, IInv, NEW c \in Conns, NEW t \in Triads,
           NEW p \in {"PointToPoint", "Multicast"}, NEW a \in Addrs,
           ForwardOpen(c, t, p, a)
    PROVE  IInv'
<1> USE DEF IInv
<1> DEFINE i == InputOf[c]
           C == ConsumersIn(Conns)
           P == ProducersIn(Conns)
<1>a. /\ c \notin active
      /\ ~consuming[c] /\ ~producing[c]
  BY AdmittedIsFree DEF ForwardOpen
<1>b. /\ active' = active \cup {c}
      /\ behind' = [behind EXCEPT ![c] = active]
      /\ state' = [state EXCEPT ![c] = "Established"]
      /\ ptype' = [ptype EXCEPT ![c] = p]
      /\ consuming' = [consuming EXCEPT ![c] = TRUE]
      /\ triad' = [triad EXCEPT ![c] = t]
      /\ opener' = [opener EXCEPT ![c] = a]
  BY <1>a DEF ForwardOpen, Insert
<1>c. /\ IsFiniteSet(C) /\ IsFiniteSet(P)
      /\ Cardinality(C) \in Nat /\ Cardinality(P) \in Nat
      /\ refs = Cardinality(C) + Cardinality(P)
  BY HoldersFinite DEF SocketsBalanced
<1>d. /\ ConsumersIn(Conns)' = C \cup {c}
      /\ Cardinality(C \cup {c}) = Cardinality(C) + 1
  <2>1. ConsumersIn(Conns)' = C \cup {c} /\ c \notin C
    BY <1>a, <1>b DEF ConsumersIn, TypeOK
  <2> QED
    BY <2>1, <1>c, FS_AddElement
<1>e. ListedIffEstablished'
  BY <1>a, <1>b DEF TypeOK, ListedIffEstablished
<1>f. Controllers(i)' = IF p = "Multicast" /\ Kind[c] # "ListenOnly"
                        THEN Controllers(i) \cup {c} ELSE Controllers(i)
  BY <1>a, <1>b DEF TypeOK, Controllers, PoolAssumption, Kinds
<1>g. \A j : j # i => Controllers(j)' = Controllers(j)
  BY <1>a, <1>b DEF TypeOK, Controllers
<1>1. CASE GrabProducer(c, p)
  <2>1. /\ p = "PointToPoint" \/ Masters(i) = {}
        /\ producing' = [producing EXCEPT ![c] = TRUE]
        /\ refs' = refs + 2
    BY <1>1 DEF GrabProducer
  <2>2. Kind[c] # "ListenOnly"
    BY <2>1 DEF ForwardOpen, Admitted, GetConnection
  <2>3. /\ ProducersIn(Conns)' = P \cup {c}
        /\ Cardinality(P \cup {c}) = Cardinality(P) + 1
    <3>1. ProducersIn(Conns)' = P \cup {c} /\ c \notin P
      BY <1>a, <2>1 DEF ProducersIn, TypeOK
    <3> QED
      BY <3>1, <1>c, FS_AddElement
  <2>4. SocketsBalanced' /\ refs' \in Nat
    <3> HIDE DEF C, P
    <3> QED BY <1>c, <1>d, <2>1, <2>3 DEF SocketsBalanced
  <2>5. TypeOK'
    BY <1>b, <2>1, <2>4 DEF TypeOK, States, ProducingTypes
  <2>6. SocketsHeld'
    BY <1>a, <1>b, <2>1, <2>2 DEF TypeOK, SocketsHeld
  <2>7. \A j : Masters(j)' = IF j = i /\ p = "Multicast"
                             THEN Masters(j) \cup {c} ELSE Masters(j)
    BY <1>a, <1>b, <2>1, <2>2 DEF TypeOK, Controllers, Masters, PoolAssumption, Kinds
  <2>8. OneControlMaster'
    <3> SUFFICES ASSUME NEW k \in Conns, Controllers(InputOf[k])' # {}
                 PROVE  (\E m \in Controllers(InputOf[k]) :
                            Masters(InputOf[k]) = {m})'
      BY DEF OneControlMaster
    <3>1. CASE InputOf[k] = i /\ p = "Multicast"
      BY <3>1, <2>1, <2>2, <2>7, <1>f
    <3>2. CASE InputOf[k] # i \/ p # "Multicast"
      <4>1. Controllers(InputOf[k])' = Controllers(InputOf[k])
        BY <3>2, <1>f, <1>g
      <4>2. Masters(InputOf[k])' = Masters(InputOf[k])
        BY <3>2, <2>7
      <4> QED
        BY <4>1, <4>2 DEF OneControlMaster
    <3> QED
      BY <3>1, <3>2
  <2>9. ListenersHaveMaster'
    BY <1>b, <2>2, <2>7 DEF ListenersHaveMaster
  <2> QED
    BY <1>e, <2>4, <2>5, <2>6, <2>8, <2>9
<1>2. CASE ShareProducer(c, p)
  <2>1. PICK m \in Masters(i) :
          producing' = IF Kind[c] = "ExclusiveOwner"
                       THEN [producing EXCEPT ![m] = FALSE, ![c] = TRUE]
                       ELSE [producing EXCEPT ![c] = FALSE]
    BY <1>2 DEF ShareProducer
  <2>2. p = "Multicast" /\ refs' = refs + 1
    BY <1>2 DEF ShareProducer
  <2>3. /\ m \in Conns /\ m \in active /\ m # c /\ producing[m]
        /\ m \in Controllers(i)
        /\ Masters(i) = {m}
    <3>1. m \in Conns /\ m \in active /\ m # c /\ producing[m] /\ m \in Controllers(i)
      BY <2>1, <1>a DEF TypeOK, Masters, Controllers
    <3> QED
      BY <3>1, <2>1 DEF OneControlMaster
  <2>4. Cardinality(ProducersIn(Conns)') = Cardinality(P)
    <3>1. CASE Kind[c] = "ExclusiveOwner"
      <4>1. /\ ProducersIn(Conns)' = (P \ {m}) \cup {c}
            /\ m \in P /\ c \notin P
        BY <3>1, <1>a, <2>1, <2>3 DEF ProducersIn, TypeOK
      <4>2. /\ IsFiniteSet(P \ {m})
            /\ Cardinality(P \ {m}) = Cardinality(P) - 1
        BY <4>1, <1>c, FS_RemoveElement
      <4>3. Cardinality((P \ {m}) \cup {c}) = Cardinality(P \ {m}) + 1
        BY <4>1, <4>2, FS_AddElement
      <4> HIDE DEF P
      <4> QED BY <4>1, <4>2, <4>3, <1>c
    <3>2. CASE Kind[c] # "ExclusiveOwner"
      <4>1. ProducersIn(Conns)' = P
        BY <3>2, <1>a, <2>1 DEF ProducersIn, TypeOK
      <4> QED BY <4>1
    <3> QED
      BY <3>1, <3>2
  <2>5. SocketsBalanced' /\ refs' \in Nat
    <3> HIDE DEF C, P
    <3> QED BY <1>c, <1>d, <2>2, <2>4 DEF SocketsBalanced
  <2>6. TypeOK'
    BY <1>b, <2>1, <2>3, <2>5 DEF TypeOK, States, ProducingTypes
  <2>7. SocketsHeld'
    BY <1>a, <1>b, <2>1, <2>2, <2>3 DEF TypeOK, SocketsHeld, Controllers
  <2>8. /\ Masters(i)' = IF Kind[c] = "ExclusiveOwner" THEN {c} ELSE {m}
        /\ \A j : j # i => Masters(j)' = Masters(j)
    BY <1>a, <1>b, <2>1, <2>2, <2>3 DEF TypeOK, Controllers, Masters
  <2>9. OneControlMaster'
    <3> SUFFICES ASSUME NEW k \in Conns, Controllers(InputOf[k])' # {}
                 PROVE  (\E n \in Controllers(InputOf[k]) :
                            Masters(InputOf[k]) = {n})'
      BY DEF OneControlMaster
    <3>1. CASE InputOf[k] = i
      BY <3>1, <2>2, <2>3, <2>8, <1>f
    <3>2. CASE InputOf[k] # i
      BY <3>2, <2>8, <1>g DEF OneControlMaster
    <3> QED
      BY <3>1, <3>2
  <2>10. ListenersHaveMaster'
    BY <1>b, <2>8 DEF ListenersHaveMaster
  <2> QED
    BY <1>e, <2>5, <2>6, <2>7, <2>9, <2>10
<1> QED
  BY <1>1, <1>2 DEF ForwardOpen

LEMMA ForwardOpenFailsPreserves ==
    ASSUME PoolAssumption, IInv, NEW c \in Conns, NEW t \in Triads,
           NEW p \in {"PointToPoint", "Multicast"},
           ForwardOpenFails(c, t, p)
    PROVE  IInv'
<1> USE DEF IInv, TypeOK
<1>1. /\ c \notin active /\ state[c] = "NonExistent"
      /\ ~consuming[c] /\ ~producing[c]
  BY AdmittedIsFree DEF ForwardOpenFails
<1>2. /\ state' = state /\ consuming' = consuming /\ producing' = producing
      /\ refs' = refs
  BY <1>1 DEF ForwardOpenFails, FailedState, AfterFailure
<1>3. UNCHANGED <<active, ptype, behind, triad>> /\ opener' \in [Conns -> Addrs \cup {None}]
  BY DEF ForwardOpenFails
<1>4. \A j : Controllers(j)' = Controllers(j) /\ Masters(j)' = Masters(j)
  BY <1>2, <1>3 DEF Controllers, Masters
<1>5. OneControlMaster' /\ ListenersHaveMaster'
  BY <1>3, <1>4 DEF OneControlMaster, ListenersHaveMaster
<1>6. SocketsBalanced'
  BY <1>2 DEF SocketsBalanced, ConsumersIn, ProducersIn
<1>7. ListedIffEstablished' /\ SocketsHeld'
  BY <1>2, <1>3 DEF ListedIffEstablished, SocketsHeld
<1> QED
  BY <1>2, <1>3, <1>5, <1>6, <1>7

----------------------------------------------------------------------------
(* Close(), timeOut() and shutdown.                                         *)

LEMMA CloseEnds ==
    ASSUME PoolAssumption, IInv, NEW c \in active, Close(c)
    PROVE  Ending
<1> DEFINE i == InputOf[c]
<1>a. c \in Conns /\ {c} \in SUBSET active
  BY DEF IInv, TypeOK
<1>1. CASE ~IsMaster(c) /\ Shut({c})
  <2>1. \A j : Masters(j) \cap {c} = {}
    BY <1>1 DEF IsMaster, Masters, Controllers
  <2>2. EndsWhole({c})
    BY <1>1, <2>1 DEF EndsWhole
  <2> QED
    BY <1>a, <2>2 DEF Ending
<1>2. CASE IsMaster(c) /\ HandOver({c}, c, NonMasters(i))
  <2>1. PICK heirs \in SUBSET Conns : heirs = NonMasters(i)
    BY DEF NonMasters, Controllers, IInv, TypeOK
  <2>2. c \in Masters(i)
    BY <1>2 DEF IsMaster, Masters, Controllers
  <2>3. heirs \subseteq Controllers(i) \ {c}
    BY <2>1, <2>2 DEF NonMasters, Masters
  <2>4. HandOver({c}, c, heirs)
    BY <1>2, <2>1 DEF HandOver, IsFirst
  <2>5. EndsWithHeir({c}, c, heirs)
    BY <2>2, <2>3, <2>4 DEF EndsWithHeir
  <2> QED
    BY <1>a, <2>5 DEF Ending
<1>3. CASE IsMaster(c) /\ NonMasters(i) = {}
           /\ Shut({c} \cup ForInputWithType(i, "ListenOnly"))
  <2>1. PICK S \in SUBSET active : S = {c} \cup ForInputWithType(i, "ListenOnly")
    BY DEF ForInputWithType
  <2>2. c \in Masters(i)
    BY <1>3 DEF IsMaster, Masters, Controllers
  <2>3. Controllers(i) = {c}
    <3>1. Masters(i) = {c}
      <4>1. c \in Controllers(i)
        BY <2>2 DEF Masters
      <4> QED
        BY <1>a, <2>2, <4>1 DEF IInv, OneControlMaster
    <3>2. \A d \in Controllers(i) : producing[d]
      BY <1>3 DEF NonMasters
    <3>3. Controllers(i) = Masters(i)
      BY <3>2 DEF Masters
    <3> QED
      BY <3>1, <3>3
  <2>4. ASSUME NEW j, Masters(j) \cap S # {}
        PROVE  Controllers(j) \cup Listeners(j) \subseteq S
    <3>1. PICK d \in S : d \in Controllers(j)
      BY <2>4 DEF Masters
    <3>2. j = i
      BY <2>1, <3>1 DEF Controllers, ForInputWithType
    <3> QED
      BY <2>1, <3>2, <2>3 DEF Listeners
  <2>5. Shut(S)
    BY <1>3, <2>1 DEF Shut, Retire, ConsumersIn, ProducersIn
  <2>6. EndsWhole(S)
    BY <2>4, <2>5 DEF EndsWhole
  <2> QED
    BY <2>6 DEF Ending
<1> QED
  BY <1>1, <1>2, <1>3 DEF Close

LEMMA OwnerTimeOutEnds ==
    ASSUME PoolAssumption, IInv, NEW c \in active,
           Kind[c] = "ExclusiveOwner", ptype[c] = "Multicast", OwnerTimeOut(c)
    PROVE  Ending
<1> DEFINE i == InputOf[c]
           Ended == {c} \cup ForInputWithType(i, "InputOnly")
                        \cup ForInputWithType(i, "ListenOnly")
<1>1. PICK S \in SUBSET active : S = Ended
  BY DEF ForInputWithType
<1>2. PICK heirs \in SUBSET Conns : heirs = Controllers(i) \ Ended
  BY DEF Controllers, IInv, TypeOK
<1>3. /\ \A d \in S : InputOf[d] = i
      /\ Listeners(i) \subseteq S
      /\ \A j : j # i => Masters(j) \cap S = {}
  BY <1>1 DEF ForInputWithType, Listeners, Masters, Controllers
<1>4. \/ (Masters(i) \cap S = {} \/ heirs = {}) /\ Shut(S)
      \/ \E m \in Masters(i) \cap S : HandOver(S, m, heirs)
  <2>1. CASE Masters(i) \cap Ended = {} /\ Shut(Ended)
    <3>1. Shut(S)
      BY <1>1, <2>1 DEF Shut, Retire, ConsumersIn, ProducersIn
    <3> QED
      BY <1>1, <2>1, <3>1
  <2>2. CASE Controllers(i) \ Ended = {} /\ Shut(Ended)
    <3>1. Shut(S)
      BY <1>1, <2>2 DEF Shut, Retire, ConsumersIn, ProducersIn
    <3> QED
      BY <1>2, <2>2, <3>1
  <2>3. CASE \E m \in Masters(i) \cap Ended :
               HandOver(Ended, m, Controllers(i) \ Ended)
    <3>1. PICK m \in Masters(i) \cap Ended :
                 HandOver(Ended, m, Controllers(i) \ Ended)
      BY <2>3
    <3>2. HandOver(S, m, heirs)
      BY <1>1, <1>2, <3>1 DEF HandOver, Retire, ConsumersIn, ProducersIn,
           IsFirst
    <3>3. m \in Masters(i) \cap S
      BY <1>1, <3>1
    <3> QED
      BY <3>2, <3>3
  <2> HIDE DEF Ended
  <2>4. \/ Masters(i) \cap Ended = {} /\ Shut(Ended)
        \/ Controllers(i) \ Ended = {} /\ Shut(Ended)
        \/ \E m \in Masters(i) \cap Ended :
               HandOver(Ended, m, Controllers(i) \ Ended)
    BY DEF OwnerTimeOut, Ended
  <2> QED
    BY <2>1, <2>2, <2>3, <2>4
<1>5. CASE (Masters(i) \cap S = {} \/ heirs = {}) /\ Shut(S)
  <2>1. \A j : Masters(j) \cap S # {} =>
                 Controllers(j) \cup Listeners(j) \subseteq S
    BY <1>1, <1>2, <1>3, <1>5
  <2> QED
    BY <1>5, <2>1 DEF Ending, EndsWhole
<1>6. CASE \E m \in Masters(i) \cap S : HandOver(S, m, heirs)
  <2>1. PICK m \in Masters(i) \cap S : HandOver(S, m, heirs)
    BY <1>6
  <2>2. EndsWithHeir(S, m, heirs)
    BY <1>1, <1>2, <1>3, <2>1 DEF EndsWithHeir
  <2> QED
    BY <2>2 DEF Ending
<1> QED
  BY <1>4, <1>5, <1>6

\* Every operation that ends connections ends them in one of the two ways.
LEMMA TimeOutEnds ==
    ASSUME PoolAssumption, IInv, NEW c \in Conns, TimeOut(c)
    PROVE  Ending
<1>1. c \in active
  BY DEF TimeOut
<1> QED
  BY <1>1, CloseEnds, OwnerTimeOutEnds DEF TimeOut

LEMMA ForwardCloseEnds ==
    ASSUME PoolAssumption, IInv, NEW c \in Conns, NEW t, NEW a,
           ForwardClose(c, t, a)
    PROVE  Ending
BY CloseEnds DEF ForwardClose, Matches

LEMMA CloseAllEnds ==
    ASSUME PoolAssumption, IInv, CloseAllConnections
    PROVE  Ending
<1>1. PICK S \in SUBSET active : S = active
  OBVIOUS
<1>2. \A j : Controllers(j) \cup Listeners(j) \subseteq S
  BY <1>1 DEF Controllers, Listeners, ForInputWithType
<1>3. Shut(S)
  BY <1>1 DEF CloseAllConnections, Shut, Retire, ConsumersIn, ProducersIn
<1> QED
  BY <1>2, <1>3 DEF Ending, EndsWhole

LEMMA EndingPreserves ==
    ASSUME PoolAssumption, IInv, Ending
    PROVE  IInv'
BY ShutPreserves, HandOverPreserves DEF Ending

----------------------------------------------------------------------------

LEMMA InitIInv ==
    ASSUME PoolAssumption, Init
    PROVE  IInv
<1> USE DEF Init
<1>1. ConsumersIn(Conns) = {} /\ ProducersIn(Conns) = {}
  BY DEF ConsumersIn, ProducersIn
<1>2. SocketsBalanced
  BY <1>1, FS_EmptySet DEF SocketsBalanced
<1> QED
  BY <1>2 DEF IInv, TypeOK, States, ProducingTypes, ListedIffEstablished,
       SocketsHeld, OneControlMaster, Controllers, ListenersHaveMaster

LEMMA NextIInv ==
    ASSUME PoolAssumption, IInv, [Next]_vars
    PROVE  IInv'
<1>1. ASSUME NEW c \in Conns, NEW t \in Triads,
             NEW p \in {"PointToPoint", "Multicast"}, NEW a \in Addrs,
             ForwardOpen(c, t, p, a)
      PROVE  IInv'
  BY <1>1, ForwardOpenPreserves
<1>2. ASSUME NEW c \in Conns, NEW t \in Triads,
             NEW p \in {"PointToPoint", "Multicast"}, ForwardOpenFails(c, t, p)
      PROVE  IInv'
  BY <1>2, ForwardOpenFailsPreserves
<1>3. ASSUME NEW c \in Conns, NEW t \in Triads, NEW a \in Addrs,
             ForwardClose(c, t, a)
      PROVE  IInv'
  BY <1>3, ForwardCloseEnds, EndingPreserves
<1>4. ASSUME NEW c \in Conns, TimeOut(c)
      PROVE  IInv'
  BY <1>4, TimeOutEnds, EndingPreserves
<1>5. CASE CloseAllConnections
  BY <1>5, CloseAllEnds, EndingPreserves
<1>6. CASE UNCHANGED vars
  BY <1>6 DEF vars, IInv, TypeOK, ListedIffEstablished, SocketsHeld,
       OneControlMaster, ListenersHaveMaster, SocketsBalanced, ConsumersIn,
       ProducersIn, Controllers, Masters
<1> QED
  BY <1>1, <1>2, <1>3, <1>4, <1>5, <1>6 DEF Next

\* The inductive invariant holds in every state of every behaviour.
THEOREM Invariance == Spec => []IInv
<1>1. Init => IInv
  BY PoolAssumption, InitIInv
<1>2. IInv /\ [Next]_vars => IInv'
  BY PoolAssumption, NextIInv
<1> QED
  BY <1>1, <1>2, PTL DEF Spec

\* Type correctness; in particular the reference count never goes below zero.
THEOREM TypeCorrect == Spec => []TypeOK
BY Invariance, PTL DEF IInv

\* No pool slot is left half configured and g_active_conns holds exactly the
\* established connections.
THEOREM NoLeakedSlot == Spec => []ListedIffEstablished
BY Invariance, PTL DEF IInv

\* Every input that multicast connections share has exactly one producer.
THEOREM OneProducerPerInput == Spec => []OneControlMaster
BY Invariance, PTL DEF IInv

\* No listen only connection outlives the production of its input.
THEOREM ListenersNeverOrphaned == Spec => []ListenersHaveMaster
BY Invariance, PTL DEF IInv

\* The socket reference counts are those of the pointers that connections hold.
THEOREM ReferencesBalance == Spec => []SocketsBalanced
BY Invariance, PTL DEF IInv

\* Only established connections hold sockets, and no hand-over takes one from a
\* point to point producer or gives one to a listener.
THEOREM SocketsStayHeld == Spec => []SocketsHeld
BY Invariance, PTL DEF IInv

----------------------------------------------------------------------------
(* Invariants that rest on the inductive one.                               *)

\* What an ending does to the list.
LEMMA EndingRetires ==
    ASSUME Ending
    PROVE  \E S \in SUBSET active : Retire(S)
BY DEF Ending, EndsWhole, EndsWithHeir, Shut, HandOver

LEMMA NextOrder ==
    ASSUME PoolAssumption, IInv, ListOrder /\ UniqueTriads /\ ExclusiveOutputs,
           [Next]_vars
    PROVE  (ListOrder /\ UniqueTriads /\ ExclusiveOutputs)'
<1> USE DEF IInv
<1>1. ASSUME NEW c \in Conns, NEW t \in Triads,
             NEW p \in {"PointToPoint", "Multicast"}, NEW a \in Addrs,
             ForwardOpen(c, t, p, a)
      PROVE  (ListOrder /\ UniqueTriads /\ ExclusiveOutputs)'
  <2>1. /\ c \notin active
        /\ active' = active \cup {c}
        /\ behind' = [behind EXCEPT ![c] = active]
        /\ triad' = [triad EXCEPT ![c] = t]
    BY <1>1, AdmittedIsFree DEF ForwardOpen, Insert
  <2>2. ListOrder'
    BY <2>1 DEF ListOrder, TypeOK
  <2>3. \A d \in active : state[d] = "Established" /\ triad[d] # t
    BY <1>1 DEF ForwardOpen, Admitted, Matches, ListedIffEstablished, TypeOK
  <2>4. UniqueTriads'
    BY <2>1, <2>3 DEF UniqueTriads, TypeOK
  <2>5. Kind[c] = "ExclusiveOwner" =>
            \A d \in active : OutputOf[d] # OutputOf[c]
    BY <1>1, <2>3 DEF ForwardOpen, Admitted, GetConnection, OutputConnected
  <2>6. ExclusiveOutputs'
    BY <2>1, <2>5 DEF ExclusiveOutputs
  <2> QED
    BY <2>2, <2>4, <2>6
<1>2. ASSUME NEW c \in Conns, NEW t \in Triads,
             NEW p \in {"PointToPoint", "Multicast"}, ForwardOpenFails(c, t, p)
      PROVE  (ListOrder /\ UniqueTriads /\ ExclusiveOutputs)'
  BY <1>2 DEF ForwardOpenFails, ListOrder, UniqueTriads, ExclusiveOutputs
<1>3. ASSUME Ending
      PROVE  (ListOrder /\ UniqueTriads /\ ExclusiveOutputs)'
  <2>1. PICK S \in SUBSET active : Retire(S)
    BY <1>3, EndingRetires
  <2>2. /\ active' = active \ S
        /\ \A d \in active' : behind'[d] = behind[d] \ S /\ triad'[d] = triad[d]
    BY <2>1 DEF Retire, TypeOK
  <2>3. ListOrder'
    BY <2>2 DEF ListOrder
  <2>4. UniqueTriads' /\ ExclusiveOutputs'
    BY <2>2 DEF UniqueTriads, ExclusiveOutputs
  <2> QED
    BY <2>3, <2>4
<1>4. CASE UNCHANGED vars
  BY <1>4 DEF vars, ListOrder, UniqueTriads, ExclusiveOutputs
<1> QED
  BY <1>1, <1>2, <1>3, <1>4, ForwardCloseEnds, TimeOutEnds, CloseAllEnds DEF Next

LEMMA OrderInvariance == Spec => [](ListOrder /\ UniqueTriads /\ ExclusiveOutputs)
<1>1. Init => ListOrder /\ UniqueTriads /\ ExclusiveOutputs
  BY DEF Init, ListOrder, UniqueTriads, ExclusiveOutputs
<1>2. IInv /\ (ListOrder /\ UniqueTriads /\ ExclusiveOutputs) /\ [Next]_vars
        => (ListOrder /\ UniqueTriads /\ ExclusiveOutputs)'
  BY PoolAssumption, NextOrder
<1> QED
  BY <1>1, <1>2, Invariance, PTL DEF Spec

\* A repeated forward_open never makes a second connection.
THEOREM TriadsUnique == Spec => []UniqueTriads
BY OrderInvariance, PTL

\* Output assemblies have one exclusive owner at a time.
THEOREM OutputsExclusive == Spec => []ExclusiveOutputs
BY OrderInvariance, PTL

\* In a chain, a scan for the connections of any set stops at one of them: the
\* one with the most behind it.
LEMMA ChainHasFirst ==
    ASSUME PoolAssumption, TypeOK, ListOrder
    PROVE  ScansFindOne
<1> SUFFICES ASSUME NEW S \in SUBSET active, S # {}
             PROVE  \E h \in S : \A c \in S : IsFirst(c, S) <=> c = h
  BY DEF ScansFindOne
<1> DEFINE Before(c) == Conns \ behind[c]
           B == {Before(c) : c \in S}
<1>1. S \subseteq Conns
  BY DEF TypeOK
<1>2. IsWellFoundedOn(StrictSubsetOrdering(Conns), SUBSET Conns)
  BY FS_StrictSubsetOrderingWellFounded, FS_FiniteSubsetsOfFinite DEF PoolAssumption
<1>3. B \subseteq SUBSET Conns /\ B # {}
  OBVIOUS
<1>4. PICK b \in B : \A x \in B : ~(<<x, b>> \in StrictSubsetOrdering(Conns))
  <2> HIDE DEF B
  <2> QED BY <1>2, <1>3, WFMin
<1>5. PICK h \in S : b = Before(h)
  BY <1>4
<1>6. ASSUME NEW d \in S, d # h
      PROVE  d \in behind[h]
  <2>1. SUFFICES ASSUME d \notin behind[h]
                 PROVE  FALSE
    OBVIOUS
  <2>2. h \in behind[d]
    BY <1>6, <2>1 DEF ListOrder
  <2>3. /\ behind[h] \subseteq behind[d]
        /\ h \notin behind[h]
        /\ h \in Conns
    BY <1>1, <2>2 DEF ListOrder
  <2>4. Before(d) \subseteq Before(h) /\ Before(d) # Before(h)
    BY <2>2, <2>3
  <2>5. <<Before(d), Before(h)>> \in StrictSubsetOrdering(Conns)
    BY <2>4 DEF StrictSubsetOrdering
  <2>6. Before(d) \in B
    OBVIOUS
  <2> QED
    BY <1>4, <1>5, <2>5, <2>6
<1>7. ASSUME NEW c \in S
      PROVE  IsFirst(c, S) <=> c = h
  BY <1>6, <1>7 DEF IsFirst, ListOrder
<1> QED
  BY <1>7

\* Every scan of the list of active connections has one result.
THEOREM ScansAlwaysFindOne == Spec => []ScansFindOne
<1>1. IInv /\ ListOrder => ScansFindOne
  BY PoolAssumption, ChainHasFirst DEF IInv
<1> QED
  BY <1>1, Invariance, OrderInvariance, PTL

----------------------------------------------------------------------------
(* Action properties.                                                       *)

LEMMA CloseListenerStep ==
    ASSUME PoolAssumption, IInv, NEW e \in active, Close(e)
    PROVE  ListenerStep
<1> DEFINE i == InputOf[e]
<1>a. e \in Conns
  BY DEF IInv, TypeOK
<1>1. CASE Retire({e})
  <2>1. active \ active' = {e}
    BY <1>1 DEF Retire
  <2> QED
    BY <2>1 DEF ListenerStep
<1>2. CASE IsMaster(e) /\ Shut({e} \cup ForInputWithType(i, "ListenOnly"))
  <2>1. active \ active' = {e} \cup ForInputWithType(i, "ListenOnly")
    BY <1>2 DEF Shut, Retire, ForInputWithType
  <2>2. Masters(i) = {e}
    <3>1. e \in Controllers(i) /\ e \in Masters(i)
      BY <1>2 DEF IsMaster, Masters, Controllers
    <3> QED
      BY <1>a, <3>1 DEF IInv, OneControlMaster
  <2>3. Masters(i)' = {}
    <3>1. Masters(i)' \subseteq Masters(i) \ {e}
      BY <1>2 DEF Masters, Controllers, Shut, Retire, IInv, TypeOK
    <3> QED
      BY <2>2, <3>1
  <2>4. \A c \in active \ active' : InputOf[c] = i
    BY <2>1 DEF ForInputWithType
  <2> QED
    BY <2>3, <2>4 DEF ListenerStep
<1> QED
  BY <1>1, <1>2 DEF Close, Shut, HandOver

LEMMA NextListenerStep ==
    ASSUME PoolAssumption, IInv, [Next]_vars
    PROVE  ListenerStep
<1>1. ASSUME active \subseteq active'
      PROVE  ListenerStep
  BY <1>1 DEF ListenerStep
<1>2. ASSUME NEW c \in Conns, NEW t, NEW p, NEW a,
             ForwardOpen(c, t, p, a) \/ ForwardOpenFails(c, t, p)
      PROVE  ListenerStep
  BY <1>1, <1>2 DEF ForwardOpen, Insert, ForwardOpenFails
<1>3. ASSUME NEW c \in Conns, NEW t, NEW a, ForwardClose(c, t, a)
      PROVE  ListenerStep
  BY <1>3, CloseListenerStep DEF ForwardClose, Matches
<1>4. ASSUME NEW e \in Conns, TimeOut(e)
      PROVE  ListenerStep
  <2>1. CASE Close(e)
    BY <1>4, <2>1, CloseListenerStep DEF TimeOut
  <2>2. CASE Kind[e] = "ExclusiveOwner" /\ ptype[e] = "Multicast" /\ OwnerTimeOut(e)
    <3> DEFINE i == InputOf[e]
               S == {e} \cup ForInputWithType(i, "InputOnly")
                        \cup ForInputWithType(i, "ListenOnly")
    <3>1. Retire(S)
      BY <2>2 DEF OwnerTimeOut, Shut, HandOver
    <3>2. e \in active
      BY <1>4 DEF TimeOut
    <3>3. active \ active' = S /\ \A c \in S : InputOf[c] = i
      BY <3>1, <3>2 DEF Retire, ForInputWithType
    <3> HIDE DEF S
    <3>4. e \in S
      BY DEF S
    <3>5. CASE \E t \in Triads, a \in Addrs : ForwardClose(e, t, a)
      BY <1>3, <3>5
    <3>6. CASE ~ \E t \in Triads, a \in Addrs : ForwardClose(e, t, a)
      <4>1. OwnerVanishes(e)
        BY <1>4, <2>2, <3>6 DEF OwnerVanishes
      <4> QED
        BY <3>3, <3>4, <4>1 DEF ListenerStep
    <3> QED
      BY <3>5, <3>6
  <2> QED
    BY <1>4, <2>1, <2>2 DEF TimeOut
<1>5. CASE CloseAllConnections
  <2>1. \A i : Masters(i)' = {}
    BY <1>5 DEF CloseAllConnections, Shut, Retire, Masters, Controllers
  <2> QED
    BY <2>1 DEF ListenerStep
<1>6. CASE UNCHANGED vars
  BY <1>1, <1>6 DEF vars
<1> QED
  BY <1>2, <1>3, <1>4, <1>5, <1>6 DEF Next

LEMMA NextMoveStep ==
    ASSUME PoolAssumption, IInv, [Next]_vars
    PROVE  MoveStep
<1> USE DEF IInv
<1>1. ASSUME NEW c \in Conns, NEW t \in Triads,
             NEW p \in {"PointToPoint", "Multicast"}, NEW a \in Addrs,
             ForwardOpen(c, t, p, a)
      PROVE  MoveStep
  <2>1. c \notin active
    BY <1>1, AdmittedIsFree DEF ForwardOpen
  <2>2. \/ producing' = [producing EXCEPT ![c] = TRUE]
        \/ producing' = [producing EXCEPT ![c] = FALSE]
        \/ /\ Kind[c] = "ExclusiveOwner"
           /\ \E m \in Masters(InputOf[c]) :
                producing' = [producing EXCEPT ![m] = FALSE, ![c] = TRUE]
    BY <1>1 DEF ForwardOpen, GrabProducer, ShareProducer
  <2>3. \A m \in Masters(InputOf[c]) : m \in Conns
    BY DEF Masters, Controllers, TypeOK
  <2> QED
    BY <2>1, <2>2, <2>3 DEF MoveStep, TypeOK, SocketsHeld
<1>2. ASSUME NEW c \in Conns, NEW t, NEW p, ForwardOpenFails(c, t, p)
      PROVE  MoveStep
  BY <1>2 DEF ForwardOpenFails, MoveStep, TypeOK
<1>3. ASSUME Ending
      PROVE  MoveStep
  <2>1. PICK S \in SUBSET active : Shut(S) \/ \E m, heirs : HandOver(S, m, heirs)
    BY <1>3 DEF Ending, EndsWhole, EndsWithHeir
  <2>2. /\ active' = active \ S
        /\ \A c \in Conns : producing[c] /\ ~producing'[c] => c \in S
    BY <2>1 DEF Shut, HandOver, Retire, TypeOK
  <2> QED
    BY <2>2 DEF MoveStep
<1>4. CASE UNCHANGED vars
  BY <1>4 DEF vars, MoveStep
<1> QED
  BY <1>1, <1>2, <1>3, <1>4, ForwardCloseEnds, TimeOutEnds, CloseAllEnds DEF Next

\* Listeners are closed by others only when their input is no longer produced
\* or when a multicast exclusive owner of it, which nobody asked to close, times
\* out.
THEOREM ListenersCloseWithInput == Spec => ListenerClosesWithInput
<1>1. IInv /\ [Next]_vars => ListenerStep
  BY PoolAssumption, NextListenerStep
<1> QED
  BY <1>1, Invariance, PTL DEF Spec, ListenerClosesWithInput

\* Production changes hands only to a new exclusive owner or on a close.
THEOREM ProductionMovesLegally == Spec => ProducerMovesLegally
<1>1. IInv /\ [Next]_vars => MoveStep
  BY PoolAssumption, NextMoveStep
<1> QED
  BY <1>1, Invariance, PTL DEF Spec, ProducerMovesLegally

----------------------------------------------------------------------------
(* The I/O connections implement ProducerOwnership.                          *)

Listening == {c \in active : Kind[c] = "ListenOnly"}
Producing == {c \in Sharing : producing[c]}
Takers == {c \in Conns : Kind[c] = "ExclusiveOwner"}

\* The abstract view of one input is what the scans of the list see of it.
LEMMA ViewOfInput ==
    ASSUME NEW i
    PROVE  /\ Ownership!Of(Sharing, i) = Controllers(i)
           /\ Ownership!Of(Producing, i) = Masters(i)
           /\ Ownership!Of(Listening, i) = Listeners(i)
BY DEF Ownership!Of, Sharing, Controllers, Masters, Producing, Listening,
       Listeners, ForInputWithType

\* ... in the next state too.
LEMMA ViewOfInputPrime ==
    ASSUME NEW i
    PROVE  /\ Ownership!Of(Producing', i) = Masters(i)'
BY DEF Ownership!Of, Sharing, Controllers, Masters, Producing

LEMMA ShutLeaves ==
    ASSUME PoolAssumption, IInv, NEW S \in SUBSET active, EndsWhole(S)
    PROVE  [Ownership!Next]_(Ownership!vars)
<1>t. PICK T \in SUBSET (Sharing \cup Listening) :
        T = S \cap (Sharing \cup Listening)
  OBVIOUS
<1> USE DEF IInv, EndsWhole, Shut, Retire
<1>a. S \subseteq Conns
  BY DEF TypeOK
<1>1. /\ Sharing' = Sharing \ T
      /\ Listening' = Listening \ T
      /\ Producing' = Producing \ T
  BY <1>a, <1>t DEF TypeOK, Sharing, Listening, Producing
<1>2. CASE T = {}
  BY <1>1, <1>2 DEF Ownership!vars, Listening, Producing
<1>3. CASE T # {}
  <2>1. Producing' \subseteq Sharing'
    BY DEF Producing
  <2>2. ASSUME NEW i
        PROVE  Ownership!PassedOn(i, T, Producing')
    <3>1. Masters(i)' = Masters(i) \ S
      BY <1>a DEF TypeOK, Controllers, Masters
    <3>2. /\ Masters(i) \cap T = Masters(i) \cap S
          /\ Controllers(i) \cap T = Controllers(i) \cap S
          /\ Listeners(i) \cap T = Listeners(i) \cap S
          /\ Masters(i) \subseteq Controllers(i)
      BY <1>t DEF Masters, Controllers, Sharing, Listening, Listeners, ForInputWithType
    <3> QED
      BY <3>1, <3>2, ViewOfInput, ViewOfInputPrime
         DEF Ownership!PassedOn, Producing, Listening
  <2>3. Ownership!Leave(T)
    BY <1>1, <1>3, <2>1, <2>2 DEF Ownership!Leave, Listening, Producing
  <2> HIDE DEF IInv, EndsWhole, Shut, Retire
  <2> QED
    BY <2>3 DEF Ownership!Next, Listening
<1> QED
  BY <1>2, <1>3

LEMMA HandOverLeaves ==
    ASSUME PoolAssumption, IInv, NEW S \in SUBSET active, NEW m \in S,
           NEW heirs, EndsWithHeir(S, m, heirs)
    PROVE  [Ownership!Next]_(Ownership!vars)
<1>t. PICK T \in SUBSET (Sharing \cup Listening) :
        T = S \cap (Sharing \cup Listening)
  OBVIOUS
<1> DEFINE i == InputOf[m]
<1> USE DEF IInv, EndsWithHeir, HandOver, Retire
<1>a. S \subseteq Conns
  BY DEF TypeOK
<1>h. PICK h \in heirs :
        producing' = [d \in Conns |-> d = h \/ (producing[d] /\ d \notin S)]
  OBVIOUS
<1>m. m \in Controllers(i) /\ Masters(i) = {m}
  <2>1. m \in Conns /\ m \in Controllers(i)
    BY <1>a DEF Masters
  <2> QED
    BY <2>1 DEF OneControlMaster
<1>b. h \in Conns /\ h \in active /\ h \notin S /\ h \in Controllers(i)
  BY <1>h, <1>m DEF TypeOK, Controllers
<1>1. /\ Sharing' = Sharing \ T
      /\ Listening' = Listening \ T
  BY <1>a, <1>t DEF TypeOK, Sharing, Listening
<1>2. /\ Masters(i)' = {h}
      /\ \A j : j # i => Masters(j)' = Masters(j)
  BY <1>a, <1>b, <1>h, <1>m DEF TypeOK, Controllers, Masters
<1>3. m \in T
  BY <1>m, <1>t DEF Sharing, Controllers
<1>4. Producing' \subseteq Sharing'
  BY DEF Producing
<1>5. ASSUME NEW j
      PROVE  Ownership!PassedOn(j, T, Producing')
  <2>1. CASE j = i
    <3>1. Masters(i) \cap T # {}
      BY <1>m, <1>3
    <3>2. h \in Controllers(i) \ T
      BY <1>b, <1>t
    <3> QED
      BY <2>1, <3>1, <3>2, <1>2, ViewOfInput, ViewOfInputPrime
         DEF Ownership!PassedOn, Producing, Listening
  <2>2. CASE j # i
    <3>1. Masters(j) \cap T = {}
      BY <2>2, <1>t DEF Masters, Controllers
    <3> QED
      BY <2>2, <3>1, <1>2, ViewOfInput, ViewOfInputPrime
         DEF Ownership!PassedOn, Producing, Listening
  <2> QED
    BY <2>1, <2>2
<1>6. Ownership!Leave(T)
  BY <1>1, <1>3, <1>4, <1>5 DEF Ownership!Leave, Listening, Producing
<1> HIDE DEF IInv, EndsWithHeir, HandOver, Retire
<1> QED
  BY <1>6 DEF Ownership!Next, Listening

\* An opened connection joins, listens, or produces point to point, which is
\* not part of the abstract view.
LEMMA ForwardOpenJoins ==
    ASSUME PoolAssumption, IInv, NEW c \in Conns, NEW t \in Triads,
           NEW p \in {"PointToPoint", "Multicast"}, NEW a \in Addrs,
           ForwardOpen(c, t, p, a)
    PROVE  [Ownership!Next]_(Ownership!vars)
<1> USE DEF IInv
<1> DEFINE i == InputOf[c]
<1>a. c \notin active /\ ~producing[c]
  BY AdmittedIsFree DEF ForwardOpen
<1>b. /\ active' = active \cup {c}
      /\ ptype' = [ptype EXCEPT ![c] = p]
  BY <1>a DEF ForwardOpen, Insert
<1>k. Kind[c] \in Kinds
  BY DEF PoolAssumption
<1>1. CASE Kind[c] = "ListenOnly"
  <2>1. /\ p = "Multicast" /\ Masters(i) # {}
        /\ ShareProducer(c, p)
    BY <1>1, <1>k DEF ForwardOpen, Admitted, GetConnection, GrabProducer
  <2>2. producing' = producing
    BY <1>1, <1>a, <2>1 DEF ShareProducer, TypeOK
  <2>3. Sharing' = Sharing /\ Producing' = Producing
    BY <1>1, <1>a, <1>b, <2>2 DEF Sharing, Producing, TypeOK
  <2>4. Listening' = Listening \cup {c} /\ c \notin Listening
    BY <1>1, <1>a, <1>b DEF Listening
  <2>5. Ownership!Of(Producing, i) # {}
    BY <2>1, ViewOfInput
  <2>6. Ownership!Listen(c)
    BY <2>3, <2>4, <2>5 DEF Ownership!Listen, Listening, Producing
  <2> QED
    BY <2>6 DEF Ownership!Next
<1>2. CASE Kind[c] # "ListenOnly" /\ p = "PointToPoint"
  <2>1. producing' = [producing EXCEPT ![c] = TRUE]
    BY <1>2 DEF ForwardOpen, GrabProducer, ShareProducer
  <2>2. Sharing' = Sharing /\ Producing' = Producing /\ Listening' = Listening
    BY <1>2, <1>a, <1>b, <2>1 DEF Sharing, Producing, Listening, TypeOK
  <2> QED
    BY <2>2 DEF Ownership!vars, Listening, Producing
<1>3. CASE Kind[c] # "ListenOnly" /\ p = "Multicast"
  <2>1. /\ Sharing' = Sharing \cup {c} /\ c \notin Sharing
        /\ Listening' = Listening
        /\ c \notin Producing
    BY <1>3, <1>k, <1>a, <1>b DEF Sharing, Listening, Producing, Kinds, TypeOK
  <2>2. Producing' = IF Masters(i) = {} \/ c \in Takers
                     THEN (Producing \ Masters(i)) \cup {c} ELSE Producing
    <3>1. CASE GrabProducer(c, p)
      <4>1. Masters(i) = {} /\ producing' = [producing EXCEPT ![c] = TRUE]
        BY <1>3, <3>1 DEF GrabProducer
      <4> QED
        BY <4>1, <2>1, <1>a, <1>b DEF Sharing, Producing, TypeOK
    <3>2. CASE ShareProducer(c, p)
      <4>1. PICK m \in Masters(i) :
              producing' = IF Kind[c] = "ExclusiveOwner"
                           THEN [producing EXCEPT ![m] = FALSE, ![c] = TRUE]
                           ELSE [producing EXCEPT ![c] = FALSE]
        BY <3>2 DEF ShareProducer
      <4>2. m \in Conns /\ m # c /\ Masters(i) = {m}
        <5>1. m \in Conns /\ m # c /\ m \in Controllers(i)
          BY <1>a DEF Masters, Controllers, TypeOK
        <5> QED
          BY <5>1, <4>1 DEF OneControlMaster
      <4>3. CASE Kind[c] = "ExclusiveOwner"
        BY <4>1, <4>2, <4>3, <2>1, <1>a, <1>b DEF Sharing, Producing, Takers, TypeOK
      <4>4. CASE Kind[c] # "ExclusiveOwner"
        BY <4>1, <4>2, <4>4, <2>1, <1>a, <1>b DEF Sharing, Producing, Takers, TypeOK
      <4> QED
        BY <4>3, <4>4
    <3> QED
      BY <3>1, <3>2 DEF ForwardOpen
  <2>3. Ownership!Join(c)
    BY <2>1, <2>2, ViewOfInput DEF Ownership!Join, Listening, Producing, Takers
  <2> QED
    BY <2>3 DEF Ownership!Next
<1> QED
  BY <1>1, <1>2, <1>3

LEMMA EndingLeaves ==
    ASSUME PoolAssumption, IInv, Ending
    PROVE  [Ownership!Next]_(Ownership!vars)
<1>1. PICK S \in SUBSET active :
        EndsWhole(S) \/ \E m \in S, heirs \in SUBSET Conns : EndsWithHeir(S, m, heirs)
  BY DEF Ending
<1>2. CASE EndsWhole(S)
  BY <1>2, ShutLeaves
<1>3. ASSUME NEW m \in S, NEW heirs \in SUBSET Conns, EndsWithHeir(S, m, heirs)
      PROVE  [Ownership!Next]_(Ownership!vars)
  BY <1>3, HandOverLeaves
<1> QED
  BY <1>1, <1>2, <1>3

LEMMA FailureStutters ==
    ASSUME PoolAssumption, IInv, NEW c \in Conns, NEW t \in Triads,
           NEW p \in {"PointToPoint", "Multicast"},
           ForwardOpenFails(c, t, p)
    PROVE  UNCHANGED Ownership!vars
<1>1. ~producing[c]
  BY AdmittedIsFree DEF ForwardOpenFails
<1>2. producing' = producing /\ active' = active /\ ptype' = ptype
  BY <1>1 DEF ForwardOpenFails, IInv, TypeOK
<1> QED
  BY <1>2 DEF Ownership!vars, Sharing

\* Each step of the connections is a step of the production's ownership, or
\* leaves it alone: ForwardOpen joins or listens, and whatever ends
\* connections leaves.
THEOREM OwnershipImplemented == Spec => ImplementsOwnership
<1>1. Init => Ownership!Init
  BY DEF Init, Ownership!Init, Sharing
<1>2. IInv /\ [Next]_vars => [Ownership!Next]_(Ownership!vars)
  <2> SUFFICES ASSUME IInv, [Next]_vars
               PROVE  [Ownership!Next]_(Ownership!vars)
    OBVIOUS
  <2>1. ASSUME NEW c \in Conns, NEW t \in Triads,
               NEW p \in {"PointToPoint", "Multicast"}, NEW a \in Addrs,
               ForwardOpen(c, t, p, a)
        PROVE  [Ownership!Next]_(Ownership!vars)
    BY <2>1, PoolAssumption, ForwardOpenJoins
  <2>2. ASSUME NEW c \in Conns, NEW t \in Triads,
               NEW p \in {"PointToPoint", "Multicast"},
               ForwardOpenFails(c, t, p)
        PROVE  [Ownership!Next]_(Ownership!vars)
    BY <2>2, PoolAssumption, FailureStutters
  <2>3. ASSUME NEW c \in Conns, NEW t \in Triads, NEW a \in Addrs,
               ForwardClose(c, t, a)
        PROVE  [Ownership!Next]_(Ownership!vars)
    BY <2>3, PoolAssumption, ForwardCloseEnds, EndingLeaves
  <2>4. ASSUME NEW c \in Conns, TimeOut(c)
        PROVE  [Ownership!Next]_(Ownership!vars)
    BY <2>4, PoolAssumption, TimeOutEnds, EndingLeaves
  <2>5. CASE CloseAllConnections
    BY <2>5, PoolAssumption, CloseAllEnds, EndingLeaves
  <2>6. CASE UNCHANGED vars
    BY <2>6 DEF vars, Ownership!vars, Sharing
  <2> QED
    BY <2>1, <2>2, <2>3, <2>4, <2>5, <2>6 DEF Next
<1> QED
  BY <1>1, <1>2, Invariance, PTL DEF Spec, ImplementsOwnership, Ownership!Spec

(* What ProducerOwnership guarantees by itself, of whatever implements it.   *)

OInv ==
    /\ Sharing \subseteq Conns /\ Listening \subseteq Conns
    /\ Producing \subseteq Sharing
    /\ Ownership!OneOwner

LEMMA InitOInv == Ownership!Init => OInv
<1> SUFFICES ASSUME Ownership!Init PROVE OInv
  OBVIOUS
<1>1. Sharing = {} /\ Producing = {} /\ Listening = {}
  BY DEF Ownership!Init, Producing, Listening
<1>2. \A i : Ownership!Of(Sharing, i) = {} /\ Ownership!Of(Listening, i) = {}
  BY <1>1 DEF Ownership!Of
<1> QED
  BY <1>1, <1>2 DEF OInv, Ownership!OneOwner, Listening

LEMMA JoinOInv == ASSUME OInv, NEW c \in Conns, Ownership!Join(c) PROVE OInv'
<1> DEFINE i == InputOf[c]
           current == Ownership!Of(Producing, i)
<1>1. /\ Sharing' = Sharing \cup {c} /\ Listening' = Listening
      /\ Producing' = IF current = {} \/ c \in Takers
                      THEN (Producing \ current) \cup {c} ELSE Producing
  BY DEF Ownership!Join, Producing, Listening, Takers
<1>2. OInv!1' /\ OInv!2'
  BY <1>1 DEF OInv, Ownership!Of
<1>3. \A j : j # i => /\ Ownership!Of(Sharing', j) = Ownership!Of(Sharing, j)
                      /\ Ownership!Of(Producing', j) = Ownership!Of(Producing, j)
  BY <1>1 DEF Ownership!Of
<1>4. \E h \in Ownership!Of(Sharing', i) : Ownership!Of(Producing', i) = {h}
  <2>1. CASE current = {} \/ c \in Takers
    <3>1. Ownership!Of(Producing', i) = {c}
      BY <1>1, <2>1 DEF Ownership!Of
    <3> QED
      BY <1>1, <3>1 DEF Ownership!Of
  <2>2. CASE ~(current = {} \/ c \in Takers)
    <3>1. PICK o \in current : TRUE
      BY <2>2
    <3>2. o \in Ownership!Of(Sharing, i) /\ i \in {InputOf[d] : d \in Conns}
      BY <3>1 DEF OInv, Ownership!Of
    <3>3. PICK h \in Ownership!Of(Sharing, i) : current = {h}
      BY <3>2 DEF OInv, Ownership!OneOwner, Producing
    <3>4. h \in Ownership!Of(Sharing', i)
      BY <1>1, <3>3 DEF Ownership!Of
    <3> QED
      BY <1>1, <2>2, <3>3, <3>4
  <2> QED
    BY <2>1, <2>2
<1>5. Ownership!OneOwner'
  BY <1>1, <1>3, <1>4 DEF OInv, Ownership!OneOwner, Producing, Listening
<1> QED
  BY <1>1, <1>2, <1>5 DEF OInv

LEMMA ListenOInv == ASSUME OInv, NEW c \in Conns, Ownership!Listen(c) PROVE OInv'
<1>1. /\ Sharing' = Sharing /\ Producing' = Producing
      /\ Listening' = Listening \cup {c}
      /\ Ownership!Of(Producing, InputOf[c]) # {}
  BY DEF Ownership!Listen, Producing, Listening
<1>2. \A j : j # InputOf[c] => Ownership!Of(Listening', j) = Ownership!Of(Listening, j)
  BY <1>1 DEF Ownership!Of
<1>3. Ownership!OneOwner'
  BY <1>1, <1>2 DEF OInv, Ownership!OneOwner, Producing, Listening
<1> QED
  BY <1>1, <1>3 DEF OInv

LEMMA LeaveOInv == ASSUME OInv, NEW S, Ownership!Leave(S) PROVE OInv'
<1>1. /\ Sharing' = Sharing \ S /\ Listening' = Listening \ S
      /\ Producing' \subseteq Sharing'
      /\ \A i \in {InputOf[d] : d \in Conns} : Ownership!PassedOn(i, S, Producing')
  BY DEF Ownership!Leave, Producing, Listening
<1>2. ASSUME NEW i \in {InputOf[c] : c \in Conns}
      PROVE  /\ Ownership!Of(Sharing', i) # {}
                => \E h \in Ownership!Of(Sharing', i) : Ownership!Of(Producing', i) = {h}
             /\ Ownership!Of(Listening', i) # {} => Ownership!Of(Producing', i) # {}
  <2> DEFINE left == Ownership!Of(Sharing, i) \ S
             own == Ownership!Of(Producing, i)
  <2>1. /\ Ownership!Of(Sharing', i) = left
        /\ Ownership!Of(Listening', i) = Ownership!Of(Listening, i) \ S
    BY <1>1 DEF Ownership!Of
  <2>2. IF own \cap S = {} THEN Ownership!Of(Producing', i) = own
        ELSE IF left = {}
             THEN Ownership!Of(Producing', i) = {} /\ Ownership!Of(Listening, i) \subseteq S
             ELSE \E h \in left : Ownership!Of(Producing', i) = {h}
    BY <1>1, <1>2 DEF Ownership!PassedOn, Producing, Listening
  <2>3. /\ Ownership!Of(Sharing, i) # {} => \E h \in Ownership!Of(Sharing, i) : own = {h}
        /\ Ownership!Of(Listening, i) # {} => own # {}
    BY <1>2 DEF OInv, Ownership!OneOwner, Producing, Listening
  <2>4. own \subseteq Ownership!Of(Sharing, i)
    BY DEF OInv, Ownership!Of
  <2> QED
    BY <2>1, <2>2, <2>3, <2>4
<1>3. Ownership!OneOwner'
  BY <1>2 DEF Ownership!OneOwner, Producing, Listening
<1> QED
  BY <1>1, <1>3 DEF OInv

\* Every input that connections share has exactly one owner, and every listener
\* hears one: the abstract specification alone promises it, and so it holds of
\* the connections, which implement it.
THEOREM EveryInputOwned ==
    /\ ImplementsOwnership => []Ownership!OneOwner
    /\ Spec => []Ownership!OneOwner
<1>1. OInv /\ [Ownership!Next]_(Ownership!vars) => OInv'
  <2> SUFFICES ASSUME OInv, [Ownership!Next]_(Ownership!vars) PROVE OInv'
    OBVIOUS
  <2>1. CASE UNCHANGED Ownership!vars
    <3>1. Sharing' = Sharing /\ Producing' = Producing /\ Listening' = Listening
      BY <2>1 DEF Ownership!vars, Producing, Listening
    <3>2. Ownership!OneOwner'
      BY <3>1 DEF OInv, Ownership!OneOwner, Producing, Listening
    <3> QED
      BY <3>1, <3>2 DEF OInv
  <2> QED
    BY <2>1, JoinOInv, ListenOInv, LeaveOInv DEF Ownership!Next
<1>2. OInv => Ownership!OneOwner
  BY DEF OInv
<1> QED
  BY <1>1, <1>2, InitOInv, OwnershipImplemented, PTL DEF ImplementsOwnership, Ownership!Spec

----------------------------------------------------------------------------
(* The steps of IoConnections in those of IoProduction.                     *)

LEMMA StepProjects ==
    ASSUME [ProdNext]_prodVars
    PROVE  [Next]_vars
BY DEF ProdNext, prodVars, Next, Types, ProdForwardOpen, ProdForwardOpenFails,
       ProdForwardClose, ProdTimeOut, ProdCloseAll, SendConnectedData

\* Every behaviour of IoProduction is one of IoConnections.
THEOREM ProdRefines == ProdSpec => Spec
<1>1. ProdInit => Init
  BY DEF ProdInit
<1>2. [ProdNext]_prodVars => [Next]_vars
  BY StepProjects
<1> QED
  BY <1>1, <1>2, PTL DEF ProdSpec, Spec

\* Two exclusive owners never write the same output, whatever is produced.
THEOREM OutputsStayExclusive == ProdSpec => []ExclusiveOutputs
BY ProdRefines, OutputsExclusive, PTL

\* What a Close() or a timeout of c does to those that stay: only sharers of
\* c's input can begin to produce, and only if the input had a master.
LEMMA Closing ==
    ASSUME PoolAssumption, IInv, NEW c \in Conns,
           TimeOut(c) \/ \E t \in Triads, a \in Addrs : ForwardClose(c, t, a)
    PROVE  /\ active' \subseteq active
           /\ \A d \in active' : ptype'[d] = ptype[d]
           /\ Heirs \subseteq Controllers(InputOf[c])
           /\ Heirs # {} => Masters(InputOf[c]) # {}
<1>1. Ending
  BY TimeOutEnds, ForwardCloseEnds
<1>2. c \in active /\ c \notin active'
  BY DEF TimeOut, ForwardClose, Matches, Close, OwnerTimeOut, Shut, HandOver, Retire
<1>3. PICK S \in SUBSET active :
        EndsWhole(S) \/ \E m \in S, heirs \in SUBSET Conns : EndsWithHeir(S, m, heirs)
  BY <1>1 DEF Ending
<1>4. Retire(S)
  BY <1>3 DEF EndsWhole, EndsWithHeir, Shut, HandOver
<1>5. c \in S /\ S \subseteq Conns /\ active \subseteq Conns
  BY <1>2, <1>4 DEF Retire, IInv, TypeOK
<1>6. active' \subseteq active /\ \A d \in active' : ptype'[d] = ptype[d]
  BY <1>4, <1>5 DEF Retire
<1>7. CASE EndsWhole(S)
  <2>1. Heirs = {}
    BY <1>5, <1>7 DEF EndsWhole, Shut, Heirs
  <2> QED
    BY <2>1, <1>6
<1>8. ASSUME NEW m \in S, NEW heirs \in SUBSET Conns, EndsWithHeir(S, m, heirs)
      PROVE  Heirs \subseteq Controllers(InputOf[c]) /\ Masters(InputOf[c]) # {}
  <2>1. InputOf[c] = InputOf[m]
    BY <1>5, <1>8 DEF EndsWithHeir
  <2>2. Heirs \subseteq heirs
    BY <1>5, <1>8 DEF EndsWithHeir, HandOver, Heirs
  <2> QED
    BY <2>1, <2>2, <1>8 DEF EndsWithHeir
<1> QED
  BY <1>3, <1>6, <1>7, <1>8

\* A request that is admitted is for a connection that is not on the list.
LEMMA Opening ==
    ASSUME PoolAssumption, IInv, NEW c \in Conns, NEW t \in Triads, NEW p \in Types,
           NEW a \in Addrs, ForwardOpen(c, t, p, a)
    PROVE  /\ c \notin active
           /\ active' = active \cup {c}
           /\ ptype' = [ptype EXCEPT ![c] = p]
           /\ \A d \in active : producing'[d] => producing[d]
           /\ p = "Multicast" /\ producing'[c] => StartsCount(c, p)
           /\ StartsCount(c, p) =>
                \A d \in active : producing'[d] => d \notin Masters(InputOf[c])
<1>1. c \notin active
  BY AdmittedIsFree DEF ForwardOpen, Types
<1>2. active' = active \cup {c} /\ ptype' = [ptype EXCEPT ![c] = p]
  BY DEF ForwardOpen, Insert
<1>3. producing \in [Conns -> BOOLEAN] /\ active \subseteq Conns
  BY DEF IInv, TypeOK
<1>4. CASE GrabProducer(c, p)
  BY <1>1, <1>2, <1>3, <1>4 DEF GrabProducer, StartsCount
<1>5. CASE ShareProducer(c, p)
  <2>1. PICK m \in Masters(InputOf[c]) :
          producing' = IF Kind[c] = "ExclusiveOwner"
                       THEN [producing EXCEPT ![m] = FALSE, ![c] = TRUE]
                       ELSE [producing EXCEPT ![c] = FALSE]
    BY <1>5 DEF ShareProducer
  <2>2. m \in Controllers(InputOf[c]) /\ m \in active /\ m \in Conns
    BY <1>3 DEF Masters, Controllers
  <2>3. Masters(InputOf[c]) = {m}
    <3>1. \E x \in Controllers(InputOf[c]) : Masters(InputOf[c]) = {x}
      BY <2>2 DEF IInv, OneControlMaster
    <3> QED
      BY <3>1
  <2>4. \A d \in active : producing'[d] => producing[d]
    BY <1>1, <1>3, <2>1
  <2>5. producing'[c] => Kind[c] = "ExclusiveOwner"
    BY <1>3, <2>1
  <2>6. Kind[c] = "ExclusiveOwner" => ~producing'[m]
    BY <1>1, <1>3, <2>1, <2>2
  <2>7. StartsCount(c, p) => Kind[c] = "ExclusiveOwner"
    BY <2>3 DEF StartsCount
  <2>8. p = "Multicast" /\ producing'[c] => StartsCount(c, p)
    BY <2>5 DEF StartsCount
  <2>9. StartsCount(c, p) =>
          \A d \in active : producing'[d] => d \notin Masters(InputOf[c])
    BY <2>3, <2>6, <2>7
  <2> QED
    BY <1>1, <1>2, <2>4, <2>8, <2>9
<1> QED
  BY <1>1, <1>2, <1>4, <1>5 DEF ForwardOpen

\* Whoever shares or hears the production of an input has one master.
LEMMA AudienceHasMaster ==
    ASSUME IInv, PoolAssumption, NEW i \in Inputs, Audience(i) # {}
    PROVE  \E m \in Audience(i) : /\ Masters(i) = {m}
                                  /\ \E c \in Conns : InputOf[c] = i
<1>1. PICK d \in Audience(i) : TRUE
  OBVIOUS
<1>2. d \in active /\ d \in Conns /\ InputOf[d] = i /\ ptype[d] = "Multicast"
  BY <1>1 DEF Audience, IInv, TypeOK
<1>3. Controllers(i) # {}
  <2>1. CASE Kind[d] = "ListenOnly"
    BY <1>2, <2>1 DEF IInv, ListenersHaveMaster, Masters
  <2>2. CASE Kind[d] # "ListenOnly"
    BY <1>2, <2>2 DEF Controllers, PoolAssumption, Kinds
  <2> QED
    BY <2>1, <2>2
<1>4. PICK m \in Controllers(i) : Masters(i) = {m}
  BY <1>3 DEF IInv, OneControlMaster, Inputs
<1> QED
  BY <1>2, <1>4 DEF Controllers, Audience

\* The id that a new member of an audience gets, and the call that gave it.
LEMMA PidTaken ==
    ASSUME NEW c, NEW o, NEW m, Masters(InputOf[c]) = {m}
    PROVE  PidOf(c, o) = pid[m] /\ PidCallOf(c, o) = pidCall[m]
<1>1. IsFirst(m, {m})
  BY DEF IsFirst
<1>2. Producer(InputOf[c]) = m
  BY <1>1 DEF Producer
<1> QED
  BY <1>2 DEF PidOf, PidCallOf

\* One that produces to a multicast address is the master of its input.
LEMMA ProducersMaster ==
    ASSUME PoolAssumption, IInv, NEW c \in active, producing[c],
           ptype[c] = "Multicast"
    PROVE  /\ c \in Conns
           /\ InputOf[c] \in Inputs
           /\ Masters(InputOf[c]) = {c}
<1>1. c \in Conns
  BY DEF IInv, TypeOK
<1>2. Kind[c] \in {"ExclusiveOwner", "InputOnly"}
  BY <1>1 DEF IInv, SocketsHeld, PoolAssumption, Kinds
<1>3. c \in Controllers(InputOf[c]) /\ c \in Masters(InputOf[c])
  BY <1>2 DEF Controllers, Masters
<1>4. PICK m \in Controllers(InputOf[c]) : Masters(InputOf[c]) = {m}
  BY <1>1, <1>3 DEF IInv, OneControlMaster
<1> QED
  BY <1>1, <1>3, <1>4 DEF Inputs

----------------------------------------------------------------------------
(* Types, and one id for each production.                                   *)

PInv == IInv /\ ProdTypeOK /\ OnePidPerInput

LEMMA NewIdType ==
    ASSUME IdAssumption
    PROVE  /\ \A n \in Nat : NewId(n) \in Ids
           /\ \A n \in Ids : n \in Nat
           /\ 0 \in Ids
BY DEF IdAssumption, NewId, Ids

LEMMA ForgottenType ==
    ASSUME NEW T, 0 \in T, NEW f \in [Conns -> T]
    PROVE  /\ Forgotten(f) \in [Conns -> T]
           /\ \A d \in Conns : d \in active' => Forgotten(f)[d] = f[d]
BY DEF Forgotten

LEMMA CountsType ==
    ASSUME IInv, ProdTypeOK, NEW i, Heirs # {} => Masters(i) # {}, WithCounts(i)
    PROVE  eseq' \in [Conns -> Nat]
<1>1. CASE Heirs = {}
  BY <1>1, ForgottenType DEF WithCounts, ProdTypeOK
<1>2. CASE Heirs # {}
  <2>1. (CHOOSE m \in Masters(i) : TRUE) \in Conns
    BY <1>2 DEF Masters, Controllers, IInv, TypeOK
  <2>2. PassCounts(CHOOSE m \in Masters(i) : TRUE) \in [Conns -> Nat]
    BY <2>1 DEF PassCounts, ProdTypeOK
  <2> QED
    BY <1>2, <2>2, ForgottenType DEF WithCounts
<1> QED
  BY <1>1, <1>2

LEMMA ConfigureType ==
    ASSUME IdAssumption, ProdTypeOK, NEW o, NEW p, Configure(o, p)
    PROVE  /\ lastId' \in Ids
           /\ allocated' \in Nat
           /\ \A n \in OriginatorIds : NewCid(o, n) \in Ids \cup OriginatorIds
           /\ NewPid(o) \in Ids
<1>1. lastId \in Nat /\ AfterCid(o) \in Ids
  BY NewIdType DEF ProdTypeOK, AfterCid
<1>2. NewPid(o) \in Ids
  BY <1>1, NewIdType DEF NewPid
<1>3. \A n \in OriginatorIds : NewCid(o, n) \in Ids \cup OriginatorIds
  BY <1>1, NewIdType DEF NewCid
<1>4. allocated' \in Nat
  BY DEF ProdTypeOK, Configure, CallsFor
<1> QED
  BY <1>1, <1>2, <1>3, <1>4 DEF Configure

\* What a closing leaves of the ids.
LEMMA ForgetType ==
    ASSUME IdAssumption, ProdTypeOK, ForgetIds
    PROVE  /\ lastId' \in Ids /\ allocated' \in Nat
           /\ cid' \in [Conns -> Ids \cup OriginatorIds]
           /\ pid' \in [Conns -> Ids] /\ told' \in [Conns -> Ids]
           /\ cidCall' \in [Conns -> Nat] /\ pidCall' \in [Conns -> Nat]
           /\ \A d \in Conns : d \in active' =>
                /\ cid'[d] = cid[d] /\ cidCall'[d] = cidCall[d]
                /\ pid'[d] = pid[d] /\ pidCall'[d] = pidCall[d]
BY NewIdType, ForgottenType DEF ForgetIds, ProdTypeOK

LEMMA NextProdTypes ==
    ASSUME PoolAssumption, IdAssumption, PInv, [ProdNext]_prodVars
    PROVE  ProdTypeOK'
<1> USE DEF PInv
<1>0. \A c \in Conns : [wire EXCEPT ![InputOf[c]] = 0] \in [Inputs -> Nat]
  <2> SUFFICES ASSUME NEW c \in Conns
               PROVE  [wire EXCEPT ![InputOf[c]] = 0] \in [Inputs -> Nat]
    OBVIOUS
  <2>1. wire \in [Inputs -> Nat] /\ InputOf[c] \in Inputs
    BY DEF ProdTypeOK, Inputs
  <2> QED
    BY <2>1
<1>1. ASSUME NEW c \in Conns, NEW t \in Triads, NEW o \in Types, NEW p \in Types,
             NEW a \in Addrs, NEW n \in OriginatorIds,
             ProdForwardOpen(c, t, o, p, a, n)
      PROVE  ProdTypeOK'
  <2>1. /\ lastId' \in Ids /\ allocated' \in Nat
        /\ NewCid(o, n) \in Ids \cup OriginatorIds /\ NewPid(o) \in Ids
    BY <1>1, ConfigureType DEF ProdForwardOpen
  <2>2. PidOf(c, o) \in Ids /\ PidCallOf(c, o) \in Nat
    <3>1. CASE Masters(InputOf[c]) = {}
      BY <2>1, <3>1 DEF PidOf, PidCallOf
    <3>2. CASE Masters(InputOf[c]) # {}
      <4>a. /\ Masters(InputOf[c]) \subseteq Controllers(InputOf[c])
            /\ Controllers(InputOf[c]) \subseteq Conns
        BY DEF Masters, Controllers, IInv, TypeOK
      <4>1. PICK m \in Conns : Masters(InputOf[c]) = {m}
        BY <3>2, <4>a DEF IInv, OneControlMaster
      <4>2. PidOf(c, o) = pid[m] /\ PidCallOf(c, o) = pidCall[m]
        BY ONLY <4>1, PidTaken
      <4>3. pid[m] \in Ids /\ pidCall[m] \in Nat
        BY DEF ProdTypeOK
      <4> QED
        BY ONLY <4>2, <4>3
    <3> QED
      BY <3>1, <3>2
  <2>3. eseq' \in [Conns -> Nat] /\ cid' \in [Conns -> Ids \cup OriginatorIds]
    BY <1>1, <2>1 DEF ProdForwardOpen, ProdTypeOK
  <2>4. pid' \in [Conns -> Ids] /\ told' \in [Conns -> Ids]
    BY <1>1, <2>1, <2>2 DEF ProdForwardOpen, ProdTypeOK
  <2>5. cidCall' \in [Conns -> Nat] /\ pidCall' \in [Conns -> Nat]
    BY <1>1, <2>2 DEF ProdForwardOpen, ProdTypeOK
  <2>6. wire' \in [Inputs -> Nat]
    <3>1. wire \in [Inputs -> Nat]
      BY DEF ProdTypeOK
    <3>2. wire' = wire \/ wire' = [wire EXCEPT ![InputOf[c]] = 0]
      BY <1>1 DEF ProdForwardOpen
    <3> QED
      BY <1>0, <3>1, <3>2
  <2> QED
    BY <2>1, <2>3, <2>4, <2>5, <2>6 DEF ProdTypeOK
<1>2. ASSUME NEW c \in Conns, NEW t \in Triads, NEW o \in Types, NEW p \in Types,
             ProdForwardOpenFails(c, t, o, p)
      PROVE  ProdTypeOK'
  BY <1>2, ConfigureType DEF ProdForwardOpenFails, ProdTypeOK
<1>3. ASSUME NEW c \in Conns, NEW t \in Triads, NEW a \in Addrs,
             ProdForwardClose(c, t, a)
      PROVE  ProdTypeOK'
  <2>1. eseq' \in [Conns -> Nat]
    BY <1>3, Closing, CountsType DEF ProdForwardClose
  <2>2. wire' = wire /\ ForgetIds
    BY <1>3 DEF ProdForwardClose
  <2> QED
    BY <2>1, <2>2, ForgetType DEF ProdTypeOK
<1>4. ASSUME NEW c \in Conns, ProdTimeOut(c)
      PROVE  ProdTypeOK'
  <2>0. ForgetIds
    BY <1>4 DEF ProdTimeOut
  <2>1. CASE Kind[c] = "InputOnly" /\ IsMaster(c) /\ Heirs # {}
    <3>1. eseq' = Forgotten(eseq)
      BY <1>4, <2>1 DEF ProdTimeOut
    <3>2. eseq' \in [Conns -> Nat]
      BY <3>1 DEF Forgotten, ProdTypeOK
    <3>3. wire' \in [Inputs -> Nat]
      BY <1>0, <1>4, <2>1 DEF ProdTimeOut
    <3> QED
      BY <2>0, <3>2, <3>3, ForgetType DEF ProdTypeOK
  <2>2. CASE ~(Kind[c] = "InputOnly" /\ IsMaster(c) /\ Heirs # {})
    <3>1. eseq' \in [Conns -> Nat]
      BY <1>4, <2>2, Closing, CountsType DEF ProdTimeOut
    <3>2. wire' = wire
      BY <1>4, <2>2 DEF ProdTimeOut
    <3> QED
      BY <2>0, <3>1, <3>2, ForgetType DEF ProdTypeOK
  <2> QED
    BY <2>1, <2>2
<1>5. ASSUME NEW c \in Conns, SendConnectedData(c)
      PROVE  ProdTypeOK'
  <2>1. InputOf[c] \in Inputs
    BY DEF Inputs
  <2>2. eseq' \in [Conns -> Nat] /\ eseq'[c] \in Nat
    BY <1>5 DEF SendConnectedData, ProdTypeOK
  <2>3. wire' \in [Inputs -> Nat]
    BY <1>5, <2>1, <2>2 DEF SendConnectedData, ProdTypeOK
  <2> QED
    BY <1>5, <2>2, <2>3 DEF SendConnectedData, idVars, ProdTypeOK
<1>6. CASE ProdCloseAll
  <2>1. ForgetIds /\ eseq' = Forgotten(eseq) /\ wire' = wire
    BY <1>6 DEF ProdCloseAll
  <2>2. eseq' \in [Conns -> Nat]
    BY <2>1, ForgottenType DEF ProdTypeOK
  <2> QED
    BY <2>1, <2>2, ForgetType DEF ProdTypeOK
<1>7. CASE UNCHANGED prodVars
  BY <1>7 DEF prodVars, wireVars, idVars, ProdTypeOK
<1> QED
  BY <1>1, <1>2, <1>3, <1>4, <1>5, <1>6, <1>7 DEF ProdNext

\* Where nobody joins and no id changes, one id stays one.
LEMMA FewerAgree ==
    ASSUME OnePidPerInput, active' \subseteq active,
           \A d \in active' : ptype'[d] = ptype[d] /\ pid'[d] = pid[d]
    PROVE  OnePidPerInput'
<1>1. \A i : Audience(i)' \subseteq Audience(i) \cap active'
  BY DEF Audience
<1> QED
  BY <1>1 DEF OnePidPerInput

LEMMA OpenAgrees ==
    ASSUME PoolAssumption, PInv, NEW c \in Conns, NEW t \in Triads, NEW o \in Types,
           NEW p \in Types, NEW a \in Addrs, NEW n \in OriginatorIds,
           ProdForwardOpen(c, t, o, p, a, n)
    PROVE  OnePidPerInput'
<1>1. /\ c \notin active
      /\ active' = active \cup {c}
      /\ ptype' = [ptype EXCEPT ![c] = p]
  BY Opening DEF PInv, ProdForwardOpen
<1>2. /\ active \subseteq Conns
      /\ ptype \in [Conns -> ProducingTypes]
      /\ pid \in [Conns -> Ids]
  BY DEF PInv, IInv, TypeOK, ProdTypeOK
<1>3. CASE p # "Multicast"
  <2>1. \A i : Audience(i)' \subseteq Audience(i)
    BY <1>1, <1>2, <1>3 DEF Audience
  <2>2. pid' = pid
    BY <1>3 DEF ProdForwardOpen
  <2> QED
    BY <2>1, <2>2 DEF OnePidPerInput, PInv
<1>4. CASE p = "Multicast"
  <2>1. \A i : Audience(i)' = Audience(i) \cup (IF i = InputOf[c] THEN {c} ELSE {})
    BY <1>1, <1>2, <1>4 DEF Audience
  <2>2. pid' = [pid EXCEPT ![c] = PidOf(c, o)]
    BY <1>4 DEF ProdForwardOpen
  <2>3. \A d \in Audience(InputOf[c]) : pid[d] = PidOf(c, o)
    <3> SUFFICES ASSUME NEW d \in Audience(InputOf[c])
                 PROVE  pid[d] = PidOf(c, o)
      OBVIOUS
    <3>1. PICK m \in Audience(InputOf[c]) : Masters(InputOf[c]) = {m}
      BY AudienceHasMaster DEF PInv, Inputs
    <3>2. pid[d] = pid[m]
      BY DEF OnePidPerInput, PInv, Inputs
    <3> QED
      BY <3>1, <3>2, PidTaken
  <2>4. \A i, d : d \in Audience(i) => d # c /\ d \in Conns
    BY <1>1, <1>2 DEF Audience
  <2>5. \A d \in Conns : d # c => pid'[d] = pid[d]
    BY <1>2, <2>2
  <2>6. pid'[c] = PidOf(c, o)
    BY <1>2, <2>2
  <2> SUFFICES ASSUME NEW i \in Inputs, NEW d \in Audience(i)', NEW e \in Audience(i)'
               PROVE  pid'[d] = pid'[e]
    BY DEF OnePidPerInput, Inputs
  <2>7. CASE i = InputOf[c]
    <3>1. \A x \in Audience(i)' : pid'[x] = PidOf(c, o)
      BY <2>1, <2>3, <2>4, <2>5, <2>6, <2>7
    <3> QED
      BY <3>1
  <2>8. CASE i # InputOf[c]
    <3>1. d \in Audience(i) /\ e \in Audience(i)
      BY <2>1, <2>8
    <3>2. pid[d] = pid[e]
      BY <3>1 DEF OnePidPerInput, PInv, Inputs
    <3> QED
      BY <3>1, <3>2, <2>4, <2>5
  <2> QED
    BY <2>7, <2>8
<1> QED
  BY <1>3, <1>4

LEMMA NextAgrees ==
    ASSUME PoolAssumption, IdAssumption, PInv, [ProdNext]_prodVars
    PROVE  OnePidPerInput'
<1>a. active \subseteq Conns
  BY DEF PInv, IInv, TypeOK
<1>1. ASSUME NEW c \in Conns, NEW t \in Triads, NEW o \in Types, NEW p \in Types,
             ProdForwardOpenFails(c, t, o, p)
      PROVE  OnePidPerInput'
  BY <1>1, FewerAgree DEF ProdForwardOpenFails, ForwardOpenFails, PInv
<1>2. ASSUME NEW c \in Conns, NEW t \in Triads, NEW a \in Addrs,
             ProdForwardClose(c, t, a)
      PROVE  OnePidPerInput'
  BY <1>a, <1>2, FewerAgree, Closing, ForgetType DEF ProdForwardClose, PInv
<1>3. ASSUME NEW c \in Conns, ProdTimeOut(c)
      PROVE  OnePidPerInput'
  BY <1>a, <1>3, FewerAgree, Closing, ForgetType DEF ProdTimeOut, PInv
<1>4. ASSUME NEW c \in Conns, SendConnectedData(c)
      PROVE  OnePidPerInput'
  BY <1>4, FewerAgree DEF SendConnectedData, vars, idVars, PInv
<1>5. CASE ProdCloseAll
  <2>1. active' = {}
    BY <1>5 DEF ProdCloseAll, CloseAllConnections, Shut, Retire
  <2> QED
    BY <2>1, FewerAgree DEF PInv
<1>6. CASE UNCHANGED prodVars
  BY <1>6, FewerAgree DEF prodVars, vars, wireVars, idVars, PInv
<1> QED
  BY <1>1, <1>2, <1>3, <1>4, <1>5, <1>6, OpenAgrees DEF ProdNext

LEMMA ProdInvariance == ProdSpec => []PInv
<1>1. ProdInit => PInv
  <2> SUFFICES ASSUME ProdInit PROVE PInv
    OBVIOUS
  <2>1. IInv
    BY PoolAssumption, InitIInv DEF ProdInit
  <2>2. ProdTypeOK
    BY IdAssumption, NewIdType DEF ProdInit, ProdTypeOK
  <2>3. OnePidPerInput
    BY DEF ProdInit, Init, OnePidPerInput, Audience
  <2> QED
    BY <2>1, <2>2, <2>3 DEF PInv
<1>2. PInv /\ [ProdNext]_prodVars => PInv'
  <2> SUFFICES ASSUME PInv, [ProdNext]_prodVars PROVE PInv'
    OBVIOUS
  <2>1. IInv'
    BY PoolAssumption, StepProjects, NextIInv DEF PInv
  <2> QED
    BY <2>1, PoolAssumption, IdAssumption, NextProdTypes, NextAgrees DEF PInv
<1> QED
  BY <1>1, <1>2, PTL DEF ProdSpec

\* Every variable of IoProduction keeps its type.
THEOREM ProdTypeCorrect == ProdSpec => []ProdTypeOK
BY ProdInvariance, PTL DEF PInv

\* All who share or hear a production know it by one id, however often the
\* producer changes.
THEOREM OneIdPerProduction == ProdSpec => []OnePidPerInput
BY ProdInvariance, PTL DEF PInv

----------------------------------------------------------------------------
(* The ids over the turns of their counter.                                 *)

\* If call k of the first n gave x, and less than a turn ago, then x is that far
\* behind the counter.
GivenAt(x, k, last, n) ==
    /\ k \in Nat /\ k <= n
    /\ k + IdSpace > n
       => x = IF n - k <= last THEN last - (n - k) ELSE last - (n - k) + IdSpace

Given(x, k) == GivenAt(x, k, lastId, allocated)

\* What two ids promise that are given by different calls.
Spaced(x, j, y, k) == x = y => Apart(j, k)

\* An open connection knows which calls gave its ids.
IdInv ==
    /\ \A c \in active : cidCall[c] # 0 => Given(cid[c], cidCall[c])
    /\ \A c \in active : ptype[c] = "Multicast" => Given(pid[c], pidCall[c])
    /\ IdsRepeatAfterTurn

\* The next call.
LEMMA NextCall ==
    ASSUME IdAssumption, NEW last \in Ids, NEW n \in Nat
    PROVE  /\ NewId(last) \in Ids
           /\ GivenAt(NewId(last), n + 1, NewId(last), n + 1)
           /\ \A x, k : GivenAt(x, k, last, n) =>
                /\ GivenAt(x, k, NewId(last), n + 1)
                /\ Spaced(x, k, NewId(last), n + 1)
                /\ Spaced(NewId(last), n + 1, x, k)
<1>1. IdSpace \in Nat \ {0} /\ last \in Nat /\ last < IdSpace
  BY DEF IdAssumption, Ids
<1>2. NewId(last) = IF last + 1 = IdSpace THEN 0 ELSE last + 1
  <2>1. CASE last + 1 = IdSpace
    BY <1>1, <2>1 DEF NewId
  <2>2. CASE last + 1 < IdSpace
    BY <1>1, <2>2 DEF NewId
  <2> QED
    BY <1>1, <2>1, <2>2
<1> DEFINE next == NewId(last)
<1>3. next \in Nat /\ next < IdSpace /\ next = IF last + 1 = IdSpace THEN 0 ELSE last + 1
  BY <1>1, <1>2
<1> HIDE DEF next
<1>4. next \in Ids
  BY <1>1, <1>3 DEF Ids
<1>5. GivenAt(next, n + 1, next, n + 1)
  BY <1>1, <1>3 DEF GivenAt
<1>6. ASSUME NEW x, NEW k, GivenAt(x, k, last, n)
      PROVE  /\ GivenAt(x, k, next, n + 1)
             /\ Spaced(x, k, next, n + 1)
             /\ Spaced(next, n + 1, x, k)
  <2>1. k \in Nat /\ k <= n
    BY <1>6 DEF GivenAt
  <2>2. CASE k + IdSpace > n + 1
    <3>1. x = IF n - k <= last THEN last - (n - k) ELSE last - (n - k) + IdSpace
      BY <1>1, <1>6, <2>1, <2>2 DEF GivenAt
    <3>2. x = IF (n + 1) - k <= next THEN next - ((n + 1) - k)
              ELSE next - ((n + 1) - k) + IdSpace
      BY <1>1, <1>3, <2>1, <2>2, <3>1
    <3>3. x # next
      BY <1>1, <1>3, <2>1, <2>2, <3>2
    <3> QED
      BY <2>1, <3>2, <3>3 DEF GivenAt, Spaced
  <2>3. CASE ~(k + IdSpace > n + 1)
    BY <1>1, <2>1, <2>3 DEF GivenAt, Spaced, Apart
  <2> QED
    BY <2>2, <2>3
<1> QED
  BY <1>4, <1>5, <1>6 DEF next

\* The ids of a forward_open: what was given is as far behind as the counter has
\* gone on, and the new ids are a turn away from what equals them.
LEMMA ConfigureGives ==
    ASSUME IdAssumption, ProdTypeOK, NEW o \in Types, NEW p \in Types,
           Configure(o, p)
    PROVE  /\ \A x, k : Given(x, k) => GivenAt(x, k, lastId', allocated')
           /\ \A n : o = "PointToPoint" =>
                /\ GivenAt(NewCid(o, n), allocated + 1, lastId', allocated')
                /\ \A x, k : Given(x, k) =>
                     /\ Spaced(x, k, NewCid(o, n), allocated + 1)
                     /\ Spaced(NewCid(o, n), allocated + 1, x, k)
           /\ p = "Multicast" =>
                /\ GivenAt(NewPid(o), allocated', lastId', allocated')
                /\ \A x, k : Given(x, k) =>
                     /\ Spaced(x, k, NewPid(o), allocated')
                     /\ Spaced(NewPid(o), allocated', x, k)
<1>1. lastId \in Ids /\ allocated \in Nat
  BY DEF ProdTypeOK
<1> DEFINE mid == AfterCid(o)
           n0 == allocated + (IF o = "PointToPoint" THEN 1 ELSE 0)
<1>2. /\ mid \in Ids /\ n0 \in Nat
      /\ \A x, k : Given(x, k) => GivenAt(x, k, mid, n0)
  BY <1>1, NextCall DEF AfterCid, Given
<1>3. ASSUME o = "PointToPoint", NEW n
      PROVE  /\ NewCid(o, n) = mid /\ n0 = allocated + 1
             /\ GivenAt(mid, n0, mid, n0)
             /\ \A x, k : Given(x, k) => Spaced(x, k, mid, n0) /\ Spaced(mid, n0, x, k)
  BY <1>1, <1>3, NextCall DEF AfterCid, NewCid, Given
<1>4. /\ NewPid(o) = NewId(mid)
      /\ p = "Multicast" => lastId' = NewId(mid) /\ allocated' = n0 + 1
      /\ p # "Multicast" => lastId' = mid /\ allocated' = n0
  BY <1>1 DEF Configure, NewPid, CallsFor
<1> HIDE DEF mid, n0
<1>5. /\ GivenAt(NewId(mid), n0 + 1, NewId(mid), n0 + 1)
      /\ \A x, k : GivenAt(x, k, mid, n0) =>
           /\ GivenAt(x, k, NewId(mid), n0 + 1)
           /\ Spaced(x, k, NewId(mid), n0 + 1)
           /\ Spaced(NewId(mid), n0 + 1, x, k)
  BY <1>2, NextCall
<1>6. \A x, k : GivenAt(x, k, mid, n0) => GivenAt(x, k, lastId', allocated')
  BY <1>4, <1>5
<1>7. \A x, k : Given(x, k) => GivenAt(x, k, lastId', allocated')
  BY ONLY <1>2, <1>6
<1>8. ASSUME o = "PointToPoint", NEW n
      PROVE  /\ GivenAt(NewCid(o, n), allocated + 1, lastId', allocated')
             /\ \A x, k : Given(x, k) =>
                  /\ Spaced(x, k, NewCid(o, n), allocated + 1)
                  /\ Spaced(NewCid(o, n), allocated + 1, x, k)
  BY ONLY <1>3, <1>6, <1>8
<1>9. ASSUME p = "Multicast"
      PROVE  /\ GivenAt(NewPid(o), allocated', lastId', allocated')
             /\ \A x, k : Given(x, k) =>
                  /\ Spaced(x, k, NewPid(o), allocated')
                  /\ Spaced(NewPid(o), allocated', x, k)
  BY ONLY <1>2, <1>4, <1>5, <1>9
<1> QED
  BY <1>7, <1>8, <1>9

LEMMA OpenSpaces ==
    ASSUME PoolAssumption, IdAssumption, PInv, IdInv, NEW c \in Conns,
           NEW t \in Triads, NEW o \in Types, NEW p \in Types, NEW a \in Addrs,
           NEW n \in OriginatorIds, ProdForwardOpen(c, t, o, p, a, n)
    PROVE  IdInv'
<1>1. /\ c \notin active
      /\ active' = active \cup {c}
      /\ ptype' = [ptype EXCEPT ![c] = p]
  BY Opening DEF PInv, ProdForwardOpen
<1>2. /\ active \subseteq Conns
      /\ ptype \in [Conns -> ProducingTypes]
      /\ pid \in [Conns -> Ids] /\ pidCall \in [Conns -> Nat]
      /\ cid \in [Conns -> Ids \cup OriginatorIds] /\ cidCall \in [Conns -> Nat]
  BY DEF PInv, IInv, TypeOK, ProdTypeOK
<1>3. Configure(o, p) /\ ProdTypeOK
  BY DEF ProdForwardOpen, PInv
<1>4. \A x, k : Given(x, k) => GivenAt(x, k, lastId', allocated')
  BY <1>3, ConfigureGives
<1>5. \A d \in active : /\ d # c /\ cid'[d] = cid[d] /\ cidCall'[d] = cidCall[d]
                        /\ pid'[d] = pid[d] /\ pidCall'[d] = pidCall[d]
                        /\ ptype'[d] = ptype[d]
  BY <1>1, <1>2 DEF ProdForwardOpen
<1>6. /\ cid'[c] = NewCid(o, n)
      /\ cidCall'[c] # 0 => o = "PointToPoint" /\ cidCall'[c] = allocated + 1
  BY <1>2 DEF ProdForwardOpen
<1>7. ptype'[c] = p /\ (p = "Multicast" => pid'[c] = PidOf(c, o) /\ pidCall'[c] = PidCallOf(c, o))
  BY <1>1, <1>2 DEF ProdForwardOpen
<1>8. ASSUME cidCall'[c] # 0
      PROVE  /\ GivenAt(cid'[c], cidCall'[c], lastId', allocated')
             /\ \A d \in active : cidCall[d] # 0 =>
                  /\ Spaced(cid[d], cidCall[d], cid'[c], cidCall'[c])
                  /\ Spaced(cid'[c], cidCall'[c], cid[d], cidCall[d])
  <2>1. o = "PointToPoint" /\ cid'[c] = NewCid(o, n) /\ cidCall'[c] = allocated + 1
    BY <1>6, <1>8
  <2>2. /\ GivenAt(NewCid(o, n), allocated + 1, lastId', allocated')
        /\ \A x, k : Given(x, k) =>
             /\ Spaced(x, k, NewCid(o, n), allocated + 1)
             /\ Spaced(NewCid(o, n), allocated + 1, x, k)
    BY <1>3, <2>1, ConfigureGives
  <2>3. \A d \in active : cidCall[d] # 0 => Given(cid[d], cidCall[d])
    BY DEF IdInv
  <2> QED
    BY ONLY <2>1, <2>2, <2>3
<1>9. ASSUME p = "Multicast"
      PROVE  /\ GivenAt(pid'[c], pidCall'[c], lastId', allocated')
             /\ \A i \in Inputs : i # InputOf[c] => \A d \in Audience(i) :
                  /\ Spaced(pid[d], pidCall[d], pid'[c], pidCall'[c])
                  /\ Spaced(pid'[c], pidCall'[c], pid[d], pidCall[d])
  <2>0. \A i : \A d \in Audience(i) : d \in active /\ Given(pid[d], pidCall[d])
    BY DEF IdInv, Audience
  <2>1. CASE Masters(InputOf[c]) = {}
    <3>1. pid'[c] = NewPid(o) /\ pidCall'[c] = allocated'
      BY <1>7, <1>9, <2>1 DEF PidOf, PidCallOf
    <3>2. /\ GivenAt(NewPid(o), allocated', lastId', allocated')
          /\ \A x, k : Given(x, k) =>
               /\ Spaced(x, k, NewPid(o), allocated')
               /\ Spaced(NewPid(o), allocated', x, k)
      BY <1>3, <1>9, ConfigureGives
    <3> QED
      BY ONLY <2>0, <3>1, <3>2
  <2>2. CASE Masters(InputOf[c]) # {}
    <3>1. Audience(InputOf[c]) # {} /\ InputOf[c] \in Inputs
      BY <2>2 DEF Masters, Controllers, Audience, Inputs
    <3>2. PICK m \in Audience(InputOf[c]) : Masters(InputOf[c]) = {m}
      BY <3>1, AudienceHasMaster DEF PInv
    <3>3. PidOf(c, o) = pid[m] /\ PidCallOf(c, o) = pidCall[m]
      BY ONLY <3>2, PidTaken
    <3>4. pid'[c] = pid[m] /\ pidCall'[c] = pidCall[m]
      BY <1>7, <1>9, <3>3
    <3>5. \A i, j \in Inputs : i # j => \A x \in Audience(i), y \in Audience(j) :
            Spaced(pid[x], pidCall[x], pid[y], pidCall[y])
      BY DEF IdInv, IdsRepeatAfterTurn, Spaced
    <3> QED
      BY ONLY <1>4, <2>0, <3>1, <3>2, <3>4, <3>5
  <2> QED
    BY <2>1, <2>2
<1>10. ASSUME NEW d \in active', cidCall'[d] # 0
       PROVE  GivenAt(cid'[d], cidCall'[d], lastId', allocated')
  <2>1. CASE d = c
    BY <1>8, <1>10, <2>1
  <2>2. CASE d \in active
    BY <1>4, <1>5, <1>10, <2>2 DEF IdInv
  <2> QED
    BY <1>1, <2>1, <2>2
<1>11. ASSUME NEW d \in active', ptype'[d] = "Multicast"
       PROVE  GivenAt(pid'[d], pidCall'[d], lastId', allocated')
  <2>1. CASE d = c
    BY <1>7, <1>9, <1>11, <2>1
  <2>2. CASE d \in active
    BY <1>4, <1>5, <1>11, <2>2 DEF IdInv
  <2> QED
    BY <1>1, <2>1, <2>2
<1>12. ASSUME NEW d \in active', NEW e \in active', d # e,
              cidCall'[d] # 0, cidCall'[e] # 0
       PROVE  Spaced(cid'[d], cidCall'[d], cid'[e], cidCall'[e])
  <2>1. CASE d = c
    BY <1>1, <1>5, <1>8, <1>12, <2>1
  <2>2. CASE e = c
    BY <1>1, <1>5, <1>8, <1>12, <2>2
  <2>3. CASE d \in active /\ e \in active
    BY <1>5, <1>12, <2>3 DEF IdInv, IdsRepeatAfterTurn, Spaced
  <2> QED
    BY <1>1, <2>1, <2>2, <2>3
<1>13. ASSUME NEW i \in Inputs, NEW j \in Inputs, i # j,
              NEW d \in Audience(i)', NEW e \in Audience(j)'
       PROVE  Spaced(pid'[d], pidCall'[d], pid'[e], pidCall'[e])
  <2>1. \A x, k : x \in Audience(k)' =>
          \/ x \in Audience(k)
          \/ x = c /\ k = InputOf[c] /\ p = "Multicast"
    BY <1>1, <1>5, <1>7 DEF Audience
  <2>2. \A x, k : x \in Audience(k) => pid'[x] = pid[x] /\ pidCall'[x] = pidCall[x]
    BY <1>5 DEF Audience
  <2>3. CASE d \in Audience(i) /\ e \in Audience(j)
    BY <1>13, <2>2, <2>3 DEF IdInv, IdsRepeatAfterTurn, Spaced
  <2>4. CASE d = c /\ i = InputOf[c] /\ p = "Multicast"
    <3>1. e \in Audience(j)
      BY <1>13, <2>1, <2>4
    <3> QED
      BY <1>9, <1>13, <2>2, <2>4, <3>1
  <2>5. CASE e = c /\ j = InputOf[c] /\ p = "Multicast"
    <3>1. d \in Audience(i)
      BY <1>13, <2>1, <2>5
    <3> QED
      BY <1>9, <1>13, <2>2, <2>5, <3>1
  <2> QED
    BY <2>1, <2>3, <2>4, <2>5
<1>14. IdsRepeatAfterTurn'
  BY <1>12, <1>13 DEF IdsRepeatAfterTurn, Spaced, Apart, Inputs
<1> QED
  BY <1>10, <1>11, <1>14 DEF IdInv, Given

\* Where nobody joins and no id changes, what was given goes on as the counter.
LEMMA FewerSpaced ==
    ASSUME IdInv, active' \subseteq active,
           \A d \in active' : /\ ptype'[d] = ptype[d]
                              /\ cid'[d] = cid[d] /\ cidCall'[d] = cidCall[d]
                              /\ pid'[d] = pid[d] /\ pidCall'[d] = pidCall[d],
           \A x, k : Given(x, k) => GivenAt(x, k, lastId', allocated')
    PROVE  IdInv'
<1>1. \A i : Audience(i)' \subseteq Audience(i) \cap active'
  BY DEF Audience
<1>2. IdsRepeatAfterTurn'
  BY <1>1 DEF IdInv, IdsRepeatAfterTurn, Apart, Inputs
<1>3. \A d \in active' : cidCall'[d] # 0 => GivenAt(cid'[d], cidCall'[d], lastId', allocated')
  BY DEF IdInv
<1>4. \A d \in active' : ptype'[d] = "Multicast" => GivenAt(pid'[d], pidCall'[d], lastId', allocated')
  BY DEF IdInv
<1> QED
  BY <1>2, <1>3, <1>4 DEF IdInv, Given

LEMMA NextSpaces ==
    ASSUME PoolAssumption, IdAssumption, PInv, IdInv, [ProdNext]_prodVars
    PROVE  IdInv'
<1>a. active \subseteq Conns /\ IInv /\ ProdTypeOK
  BY DEF PInv, IInv, TypeOK
<1>b. \A x, k : UNCHANGED <<lastId, allocated>> =>
        (Given(x, k) => GivenAt(x, k, lastId', allocated'))
  BY DEF Given
<1>c. ASSUME active' \subseteq active, \A d \in active' : ptype'[d] = ptype[d], ForgetIds
      PROVE  IdInv'
  <2>1. UNCHANGED <<lastId, allocated>>
    BY <1>c DEF ForgetIds
  <2> QED
    BY <1>a, <1>b, <1>c, <2>1, ForgetType, FewerSpaced
<1>d. ASSUME UNCHANGED <<active, ptype, idVars>>
      PROVE  IdInv'
  BY <1>b, <1>d, FewerSpaced DEF idVars
<1>1. ASSUME NEW c \in Conns, NEW t \in Triads, NEW o \in Types, NEW p \in Types,
             ProdForwardOpenFails(c, t, o, p)
      PROVE  IdInv'
  <2>1. \A x, k : Given(x, k) => GivenAt(x, k, lastId', allocated')
    BY <1>a, <1>1, ConfigureGives DEF ProdForwardOpenFails
  <2> QED
    BY <1>1, <2>1, FewerSpaced DEF ProdForwardOpenFails, ForwardOpenFails
<1>2. ASSUME NEW c \in Conns, NEW t \in Triads, NEW a \in Addrs,
             ProdForwardClose(c, t, a)
      PROVE  IdInv'
  BY <1>a, <1>c, <1>2, Closing DEF ProdForwardClose
<1>3. ASSUME NEW c \in Conns, ProdTimeOut(c)
      PROVE  IdInv'
  BY <1>a, <1>c, <1>3, Closing DEF ProdTimeOut
<1>4. ASSUME NEW c \in Conns, SendConnectedData(c)
      PROVE  IdInv'
  BY <1>d, <1>4 DEF SendConnectedData, vars
<1>5. CASE ProdCloseAll
  <2>1. active' = {} /\ ForgetIds
    BY <1>5 DEF ProdCloseAll, CloseAllConnections, Shut, Retire
  <2> QED
    BY <1>c, <2>1
<1>6. CASE UNCHANGED prodVars
  BY <1>d, <1>6 DEF prodVars, vars, wireVars
<1> QED
  BY <1>1, <1>2, <1>3, <1>4, <1>5, <1>6, OpenSpaces DEF ProdNext

\* The 16 bit counter comes round; two connections that the target gave one id,
\* and two inputs that are produced under one id, got it a full turn apart.
THEOREM IdsFullTurnApart == ProdSpec => []IdsRepeatAfterTurn
<1>1. ProdInit => IdInv
  BY DEF ProdInit, Init, IdInv, IdsRepeatAfterTurn, Audience
<1>2. PInv /\ IdInv /\ [ProdNext]_prodVars => IdInv'
  BY PoolAssumption, IdAssumption, NextSpaces
<1>3. IdInv => IdsRepeatAfterTurn
  BY DEF IdInv
<1> QED
  BY <1>1, <1>2, <1>3, ProdInvariance, PTL DEF ProdSpec

----------------------------------------------------------------------------
(* The sequence numbers of a production.                                    *)

LEMMA OpenCounts ==
    ASSUME PoolAssumption, PInv, CloseKeepsSequence, NEW c \in Conns,
           NEW t \in Triads, NEW o \in Types, NEW p \in Types, NEW a \in Addrs,
           NEW n \in OriginatorIds, ProdForwardOpen(c, t, o, p, a, n)
    PROVE  CloseKeepsSequence'
<1>1. /\ c \notin active
      /\ active' = active \cup {c}
      /\ ptype' = [ptype EXCEPT ![c] = p]
      /\ \A d \in active : producing'[d] => producing[d]
      /\ p = "Multicast" /\ producing'[c] => StartsCount(c, p)
      /\ StartsCount(c, p) =>
           \A d \in active : producing'[d] => d \notin Masters(InputOf[c])
  BY Opening DEF PInv, ProdForwardOpen
<1>2. /\ active \subseteq Conns /\ IInv
      /\ ptype \in [Conns -> ProducingTypes]
      /\ eseq \in [Conns -> Nat] /\ wire \in [Inputs -> Nat]
      /\ InputOf[c] \in Inputs
  BY DEF PInv, IInv, TypeOK, ProdTypeOK, Inputs
<1>3. /\ eseq' = [eseq EXCEPT ![c] = 0]
      /\ wire' = IF StartsCount(c, p) THEN [wire EXCEPT ![InputOf[c]] = 0] ELSE wire
  BY DEF ProdForwardOpen
<1> SUFFICES ASSUME NEW d \in active', producing'[d], ptype'[d] = "Multicast"
             PROVE  eseq'[d] >= wire'[InputOf[d]]
  BY DEF CloseKeepsSequence
<1>4. CASE d = c
  <2>1. p = "Multicast" /\ StartsCount(c, p)
    BY <1>1, <1>2, <1>4
  <2>2. eseq'[c] = 0 /\ wire'[InputOf[c]] = 0
    BY <1>2, <1>3, <2>1
  <2> QED
    BY <1>4, <2>2
<1>5. CASE d # c
  <2>1. d \in active /\ d \in Conns /\ producing[d] /\ ptype[d] = "Multicast"
    BY <1>1, <1>2, <1>5
  <2>2. d \in Masters(InputOf[d]) /\ InputOf[d] \in Inputs
    BY <1>2, <2>1, ProducersMaster
  <2>3. StartsCount(c, p) => InputOf[d] # InputOf[c]
    BY <1>1, <2>1, <2>2
  <2>4. eseq'[d] = eseq[d] /\ wire'[InputOf[d]] = wire[InputOf[d]]
    BY <1>2, <1>3, <1>5, <2>1, <2>2, <2>3
  <2>5. eseq[d] >= wire[InputOf[d]]
    BY <2>1 DEF CloseKeepsSequence
  <2> QED
    BY <2>4, <2>5
<1> QED
  BY <1>4, <1>5

\* A Close() or a timeout: heirs go on counting, or the input only master that
\* timed out left the production a new beginning.
LEMMA ClosingCounts ==
    ASSUME PoolAssumption, PInv, CloseKeepsSequence, NEW c \in Conns,
           TimeOut(c) \/ \E t \in Triads, a \in Addrs : ForwardClose(c, t, a),
           \/ WithCounts(InputOf[c]) /\ wire' = wire
           \/ eseq' = Forgotten(eseq) /\ wire' = [wire EXCEPT ![InputOf[c]] = 0]
    PROVE  CloseKeepsSequence'
<1>1. /\ active' \subseteq active
      /\ \A d \in active' : ptype'[d] = ptype[d]
      /\ Heirs \subseteq Controllers(InputOf[c])
      /\ Heirs # {} => Masters(InputOf[c]) # {}
  BY Closing DEF PInv
<1>2. /\ active \subseteq Conns /\ IInv /\ InputOf[c] \in Inputs
      /\ eseq \in [Conns -> Nat] /\ wire \in [Inputs -> Nat]
  BY DEF PInv, IInv, TypeOK, ProdTypeOK, Inputs
<1> SUFFICES ASSUME NEW d \in active', producing'[d], ptype'[d] = "Multicast"
             PROVE  eseq'[d] >= wire'[InputOf[d]]
  BY DEF CloseKeepsSequence
<1>3. d \in Conns /\ d \in active /\ ptype[d] = "Multicast" /\ InputOf[d] \in Inputs
  BY <1>1, <1>2 DEF Inputs
<1>4. \A f : Forgotten(f)[d] = f[d]
  BY <1>3 DEF Forgotten
<1>5. CASE producing[d]
  <2>1. eseq[d] >= wire[InputOf[d]] /\ eseq[d] \in Nat
    BY <1>2, <1>3, <1>5 DEF CloseKeepsSequence
  <2>2. eseq'[d] = eseq[d]
    <3>1. d \notin Heirs
      BY <1>5 DEF Heirs
    <3> QED
      BY <1>3, <1>4, <3>1 DEF WithCounts, PassCounts
  <2>3. wire'[InputOf[d]] \in {0, wire[InputOf[d]]}
    BY <1>2, <1>3
  <2> QED
    BY <2>1, <2>2, <2>3
<1>6. CASE ~producing[d]
  <2>1. d \in Heirs /\ InputOf[d] = InputOf[c] /\ Masters(InputOf[c]) # {}
    BY <1>1, <1>3, <1>6 DEF Heirs, Controllers
  <2>2. CASE WithCounts(InputOf[c]) /\ wire' = wire
    <3>1. PICK m \in Masters(InputOf[c]) : m = CHOOSE x \in Masters(InputOf[c]) : TRUE
      BY <2>1
    <3>2. m \in active /\ producing[m] /\ ptype[m] = "Multicast" /\ InputOf[m] = InputOf[c]
      BY DEF Masters, Controllers
    <3>3. eseq'[d] = eseq[m]
      BY <1>3, <1>4, <2>1, <2>2, <3>1 DEF WithCounts, PassCounts
    <3>4. eseq[m] >= wire[InputOf[c]]
      BY <3>2 DEF CloseKeepsSequence
    <3> QED
      BY <2>1, <2>2, <3>3, <3>4
  <2>3. CASE eseq' = Forgotten(eseq) /\ wire' = [wire EXCEPT ![InputOf[c]] = 0]
    <3>1. wire'[InputOf[d]] = 0 /\ eseq'[d] = eseq[d] /\ eseq[d] \in Nat
      BY <1>2, <1>3, <1>4, <2>1, <2>3
    <3> QED
      BY <3>1
  <2> QED
    BY <2>2, <2>3
<1> QED
  BY <1>5, <1>6

\* A packet raises the last number of its own production only.
LEMMA SendCounts ==
    ASSUME PoolAssumption, PInv, CloseKeepsSequence, NEW c \in Conns,
           SendConnectedData(c)
    PROVE  CloseKeepsSequence'
<1>1. /\ c \in active /\ producing[c] /\ ptype[c] = "Multicast"
      /\ eseq' = [eseq EXCEPT ![c] = eseq[c] + 1]
      /\ wire' = [wire EXCEPT ![InputOf[c]] =
                    IF wire[InputOf[c]] > eseq'[c] THEN wire[InputOf[c]] ELSE eseq'[c]]
      /\ UNCHANGED vars
  BY DEF SendConnectedData
<1>2. /\ IInv /\ active \subseteq Conns
      /\ eseq \in [Conns -> Nat] /\ wire \in [Inputs -> Nat]
  BY DEF PInv, ProdTypeOK, IInv, TypeOK
<1>3. active' = active /\ ptype' = ptype /\ producing' = producing
  BY <1>1 DEF vars
<1> SUFFICES ASSUME NEW d \in active, producing[d], ptype[d] = "Multicast"
             PROVE  eseq'[d] >= wire'[InputOf[d]]
  BY <1>3 DEF CloseKeepsSequence
<1>4. /\ d \in Conns /\ InputOf[d] \in Inputs /\ Masters(InputOf[d]) = {d}
      /\ c \in Conns /\ InputOf[c] \in Inputs /\ Masters(InputOf[c]) = {c}
  BY <1>1, <1>2, ProducersMaster
<1>5. eseq[d] >= wire[InputOf[d]] /\ eseq[d] \in Nat /\ wire[InputOf[d]] \in Nat
  BY <1>2, <1>4 DEF CloseKeepsSequence
<1>6. CASE d = c
  <2>1. eseq'[c] = eseq[c] + 1
    BY <1>1, <1>2, <1>4
  <2>2. ~(wire[InputOf[c]] > eseq'[c])
    BY <1>5, <1>6, <2>1
  <2>3. wire'[InputOf[c]] = eseq'[c]
    BY <1>1, <1>2, <1>4, <2>2
  <2> QED
    BY <1>5, <1>6, <2>1, <2>3
<1>7. CASE d # c
  <2>1. InputOf[d] # InputOf[c]
    BY <1>4, <1>7
  <2>2. wire'[InputOf[d]] = wire[InputOf[d]] /\ eseq'[d] = eseq[d]
    BY <1>1, <1>2, <1>4, <1>7, <2>1
  <2> QED
    BY <1>5, <2>2
<1> QED
  BY <1>6, <1>7

LEMMA NextCounts ==
    ASSUME PoolAssumption, PInv, CloseKeepsSequence, [ProdNext]_prodVars
    PROVE  CloseKeepsSequence'
<1>1. ASSUME NEW c \in Conns, NEW t \in Triads, NEW a \in Addrs,
             ProdForwardClose(c, t, a)
      PROVE  CloseKeepsSequence'
  BY <1>1, ClosingCounts DEF ProdForwardClose
<1>2. ASSUME NEW c \in Conns, ProdTimeOut(c)
      PROVE  CloseKeepsSequence'
  BY <1>2, ClosingCounts DEF ProdTimeOut
<1>3. ASSUME NEW c \in Conns, NEW t \in Triads, NEW o \in Types, NEW p \in Types,
             ProdForwardOpenFails(c, t, o, p)
      PROVE  CloseKeepsSequence'
  <2>1. /\ active' = active /\ ptype' = ptype
        /\ producing' = [producing EXCEPT ![c] = FALSE]
        /\ UNCHANGED <<eseq, wire>>
    BY <1>3 DEF ProdForwardOpenFails, ForwardOpenFails
  <2>2. producing \in [Conns -> BOOLEAN] /\ active \subseteq Conns
    BY DEF PInv, IInv, TypeOK
  <2> QED
    BY <2>1, <2>2 DEF CloseKeepsSequence
<1>4. CASE ProdCloseAll
  <2>1. active' = {}
    BY <1>4 DEF ProdCloseAll, CloseAllConnections, Shut, Retire
  <2> QED
    BY <2>1 DEF CloseKeepsSequence
<1>5. CASE UNCHANGED prodVars
  BY <1>5 DEF prodVars, vars, wireVars, CloseKeepsSequence
<1> QED
  BY <1>1, <1>2, <1>3, <1>4, <1>5, OpenCounts, SendCounts DEF ProdNext

\* A hand-over by Close(), and by the timeout of an exclusive owner, never lets a
\* production count from behind what was sent since it last began anew.
THEOREM ClosesKeepCounting == ProdSpec => []CloseKeepsSequence
<1>1. ProdInit => CloseKeepsSequence
  BY DEF ProdInit, Init, CloseKeepsSequence
<1>2. PInv /\ CloseKeepsSequence /\ [ProdNext]_prodVars => CloseKeepsSequence'
  BY PoolAssumption, NextCounts
<1> QED
  BY <1>1, <1>2, ProdInvariance, PTL DEF ProdSpec

----------------------------------------------------------------------------
(* The loops of Close() and timeOut().  Throughout a handler the list is    *)
(* linked in the order that it had when the handler began (Linked), so that *)
(* a stack in the middle of one is known by its members, producers and      *)
(* count.                                                                   *)

Chained == PoolAssumption /\ PointerAssumption /\ TypeOK /\ ListOrder /\ SocketsHeld

Linked(L, P, r) ==
    [listed |-> L, head |-> FirstOf(L),
     next |-> [d \in Conns |-> IF d \in L THEN FirstOf(behind[d] \cap L) ELSE None],
     producing |-> P, refs |-> r]

\* A scan finds the one member that all others are behind, if there is any.
LEMMA FirstFound ==
    ASSUME Chained, NEW S \in SUBSET active
    PROVE  /\ FirstOf(S) = None <=> S = {}
           /\ S # {} => FirstOf(S) \in S /\ S \ {FirstOf(S)} \subseteq behind[FirstOf(S)]
           /\ \A c \in S : S \ {c} \subseteq behind[c] => c = FirstOf(S)
<1>1. None \notin S
  BY DEF Chained, PointerAssumption, TypeOK
<1>2. CASE S = {}
  BY <1>2 DEF FirstOf
<1>3. CASE S # {}
  <2>1. ScansFindOne
    BY ChainHasFirst DEF Chained
  <2>2. PICK h \in S : \A c \in S : IsFirst(c, S) <=> c = h
    BY <1>3, <2>1 DEF ScansFindOne
  <2>3. FirstOf(S) = CHOOSE c \in S : IsFirst(c, S)
    BY <1>3 DEF FirstOf
  <2> DEFINE f == CHOOSE c \in S : IsFirst(c, S)
  <2>4. f \in S /\ IsFirst(f, S)
    BY <2>2
  <2> HIDE DEF f
  <2>5. f = h
    BY <2>2, <2>4
  <2> QED
    BY <1>1, <2>2, <2>3, <2>4, <2>5 DEF f, IsFirst
<1> QED
  BY <1>2, <1>3

\* The successor of a member of what is left.
LEMMA Successor ==
    ASSUME Chained, NEW L \in SUBSET active, NEW d \in L
    PROVE  LET n == FirstOf(behind[d] \cap L)
           IN  /\ n = None <=> behind[d] \cap L = {}
               /\ n # None => /\ n \in L /\ n \in behind[d] /\ n # d
                              /\ behind[d] \cap L = {n} \cup (behind[n] \cap L)
<1> DEFINE B == behind[d] \cap L
           n == FirstOf(B)
<1>1. B \in SUBSET active
  OBVIOUS
<1>2. /\ n = None <=> B = {}
      /\ B # {} => n \in B /\ B \ {n} \subseteq behind[n]
  BY <1>1, FirstFound
<1> HIDE DEF n
<1>3. ASSUME n # None
      PROVE  /\ n \in L /\ n \in behind[d] /\ n # d
             /\ B = {n} \cup (behind[n] \cap L)
  <2>1. n \in B /\ B \ {n} \subseteq behind[n]
    BY <1>2, <1>3
  <2>2. behind[n] \subseteq behind[d] /\ d \notin behind[d]
    BY <2>1 DEF Chained, ListOrder
  <2> QED
    BY <2>1, <2>2
<1> QED
  BY <1>2, <1>3 DEF n

\* The head of what is left.
LEMMA HeadOf ==
    ASSUME Chained, NEW L \in SUBSET active
    PROVE  /\ FirstOf(L) = None <=> L = {}
           /\ L # {} => FirstOf(L) \in L /\ L = {FirstOf(L)} \cup (behind[FirstOf(L)] \cap L)
BY FirstFound

\* Without c, the first of S is the one that it was, or the one after c.
LEMMA FirstWithout ==
    ASSUME Chained, NEW S \in SUBSET active, NEW c, FirstOf(S) # c
    PROVE  FirstOf(S \ {c}) = FirstOf(S)
<1>1. CASE S = {}
  BY <1>1
<1>2. CASE S # {}
  <2> DEFINE f == FirstOf(S)
             T == S \ {c}
  <2>1. f \in S /\ S \ {f} \subseteq behind[f]
    BY <1>2, FirstFound
  <2>2. T \in SUBSET active /\ f \in T /\ T \ {f} \subseteq behind[f]
    BY <2>1
  <2> HIDE DEF f, T
  <2>3. f = FirstOf(T)
    BY <2>2, FirstFound
  <2> QED
    BY <2>3 DEF f, T
<1> QED
  BY <1>1, <1>2

\* Remove() keeps the rest linked in its order.
LEMMA RemoveKeepsLinks ==
    ASSUME Chained, NEW L \in SUBSET active, NEW c \in L, NEW P, NEW r
    PROVE  Remove(Linked(L, P, r), c) = Linked(L \ {c}, P, r)
<1> DEFINE s == Linked(L, P, r)
           M == L \ {c}
           head == IF s.head = c THEN s.next[c] ELSE s.head
           next == [d \in Conns |-> IF d = c THEN None
                                    ELSE IF s.next[d] = c THEN s.next[c] ELSE s.next[d]]
<1>a. L \subseteq Conns /\ c # None
  BY DEF Chained, PointerAssumption, TypeOK
<1>1. /\ s.head = FirstOf(L)
      /\ \A d \in Conns : s.next[d] = IF d \in L THEN FirstOf(behind[d] \cap L) ELSE None
      /\ s.listed = L
  BY DEF Linked
<1>2. head = FirstOf(M)
  <2>1. CASE FirstOf(L) = c
    <3>1. L = {c} \cup (behind[c] \cap L) /\ c \notin behind[c]
      BY <2>1, HeadOf DEF Chained, ListOrder
    <3>2. behind[c] \cap L = M
      BY <3>1
    <3>3. head = FirstOf(behind[c] \cap L)
      BY <1>a, <1>1, <2>1
    <3> QED
      BY <3>2, <3>3
  <2>2. CASE FirstOf(L) # c
    BY <1>1, <2>2, FirstWithout
  <2> QED
    BY <2>1, <2>2
<1>3. ASSUME NEW d \in Conns
      PROVE  next[d] = IF d \in M THEN FirstOf(behind[d] \cap M) ELSE None
  <2>1. CASE d \notin M
    BY <1>a, <1>1, <2>1
  <2>2. CASE d \in M /\ FirstOf(behind[d] \cap L) = c
    <3>1. behind[d] \cap L = {c} \cup (behind[c] \cap L) /\ c \notin behind[c]
      BY <1>a, <2>2, Successor DEF Chained, ListOrder
    <3>2. behind[d] \cap M = behind[c] \cap L
      BY <3>1
    <3>3. next[d] = FirstOf(behind[c] \cap L)
      BY <1>a, <1>1, <2>2
    <3> QED
      BY <2>2, <3>2, <3>3
  <2>3. CASE d \in M /\ FirstOf(behind[d] \cap L) # c
    <3> DEFINE B == behind[d] \cap L
    <3>1. B \in SUBSET active /\ B \ {c} = behind[d] \cap M
      OBVIOUS
    <3>2. FirstOf(B \ {c}) = FirstOf(B)
      <4> HIDE DEF B
      <4> QED BY <2>3, <3>1, FirstWithout DEF B
    <3>3. next[d] = FirstOf(B)
      BY <1>1, <2>3
    <3> QED
      BY <2>3, <3>1, <3>2, <3>3
  <2> QED
    BY <2>1, <2>2, <2>3
<1>4. next = [d \in Conns |-> IF d \in M THEN FirstOf(behind[d] \cap M) ELSE None]
  BY <1>3
<1>5. Remove(s, c) = [listed |-> M, head |-> head, next |-> next, producing |-> P, refs |-> r]
  <2> DEFINE h == FirstOf(L)
             n == [d \in Conns |-> IF d \in L THEN FirstOf(behind[d] \cap L) ELSE None]
  <2>1. s = [listed |-> L, head |-> h, next |-> n, producing |-> P, refs |-> r]
    BY DEF Linked
  <2> HIDE DEF s, h, n
  <2>2. Remove(s, c) = [s EXCEPT !.listed = M, !.head = head, !.next = next]
    BY <1>1 DEF Remove
  <2> HIDE DEF head, next, M
  <2> QED
    BY <2>1, <2>2
<1> HIDE DEF head, next, M
<1> QED
  BY <1>2, <1>4, <1>5 DEF Linked, M

\* A set of numbers that has 0 and every successor has all numbers.
LEMMA SetInduction ==
    ASSUME NEW S \in SUBSET Nat, 0 \in S, \A n \in S : n + 1 \in S
    PROVE  S = Nat
<1> SUFFICES ASSUME NEW m \in Nat, m \notin S
             PROVE  FALSE
  OBVIOUS
<1>1. IsWellFoundedOn(OpToRel(<, Nat), Nat)
  BY NatLessThanWellFounded
<1>2. Nat \ S # {} /\ Nat \ S \subseteq Nat
  OBVIOUS
<1>3. PICK n \in Nat \ S : \A y \in Nat \ S : ~(<<y, n>> \in OpToRel(<, Nat))
  BY <1>1, <1>2, WFMin
<1>4. n # 0
  OBVIOUS
<1>5. n - 1 \in Nat /\ n - 1 < n /\ (n - 1) + 1 = n
  BY <1>4
<1>6. n - 1 \notin S
  BY <1>5
<1> QED
  BY <1>3, <1>5, <1>6 DEF OpToRel

\* What a linked stack shows.
LEMMA LinkedFields ==
    ASSUME NEW L, NEW P, NEW r
    PROVE  /\ Linked(L, P, r).listed = L
           /\ Linked(L, P, r).head = FirstOf(L)
           /\ Linked(L, P, r).producing = P
           /\ Linked(L, P, r).refs = r
           /\ \A d \in Conns : Linked(L, P, r).next[d]
                                 = IF d \in L THEN FirstOf(behind[d] \cap L) ELSE None
BY DEF Linked

\* The end of Close() takes a member, its producing socket and its count off.
LEMMA ReleaseOf ==
    ASSUME Chained, NEW L \in SUBSET active, NEW c \in L, NEW P \in [Conns -> BOOLEAN],
           NEW r \in Int
    PROVE  Release(Linked(L, P, r), c)
             = Linked(L \ {c}, [P EXCEPT ![c] = FALSE], r - (1 + (IF P[c] THEN 1 ELSE 0)))
<1> DEFINE s == Linked(L, P, r)
           M == L \ {c}
           h == FirstOf(M)
           n == [d \in Conns |-> IF d \in M THEN FirstOf(behind[d] \cap M) ELSE None]
           Q == [P EXCEPT ![c] = FALSE]
           q == r - (1 + (IF P[c] THEN 1 ELSE 0))
<1>1. consuming[c] /\ s.producing = P /\ s.refs = r
  BY LinkedFields DEF Chained, SocketsHeld, TypeOK
<1>2. Remove(s, c) = [listed |-> M, head |-> h, next |-> n, producing |-> P, refs |-> r]
  BY RemoveKeepsLinks DEF Linked
<1> DEFINE R == Remove(s, c)
<1>3. Release(s, c) = [R EXCEPT !.producing[c] = FALSE, !.refs = q]
  BY <1>1 DEF Release
<1> HIDE DEF s, M, h, n, q, R
<1>5. R.producing = P
  BY <1>2 DEF R
<1>6. Release(s, c) = [R EXCEPT !.producing = Q, !.refs = q]
  BY <1>3, <1>5
<1>7. R = [listed |-> M, head |-> h, next |-> n, producing |-> P, refs |-> r]
  BY <1>2 DEF R
<1> HIDE DEF Q
<1>4. Release(s, c) = [listed |-> M, head |-> h, next |-> n, producing |-> Q, refs |-> q]
  BY ONLY <1>6, <1>7
<1> QED
  BY <1>4 DEF s, M, h, n, Q, q, Linked

\* A hand-over moves the producing socket and nothing else.
LEMMA GiveSocketOf ==
    ASSUME NEW L, NEW P, NEW r, NEW c, NEW h
    PROVE  GiveSocket(Linked(L, P, r), c, h)
             = Linked(L, [[P EXCEPT ![c] = FALSE] EXCEPT ![h] = TRUE], r)
<1> DEFINE s == Linked(L, P, r)
           a == FirstOf(L)
           n == [d \in Conns |-> IF d \in L THEN FirstOf(behind[d] \cap L) ELSE None]
           Q == [P EXCEPT ![c] = FALSE]
           R == [s EXCEPT !.producing = Q]
<1>1. s = [listed |-> L, head |-> a, next |-> n, producing |-> P, refs |-> r]
  BY DEF Linked
<1> HIDE DEF s, a, n
<1>2. GiveSocket(s, c, h) = [[s EXCEPT !.producing[c] = FALSE] EXCEPT !.producing[h] = TRUE]
  BY DEF GiveSocket
<1>3. [s EXCEPT !.producing[c] = FALSE] = R
  BY <1>1
<1> HIDE DEF Q
<1>4. R = [listed |-> L, head |-> a, next |-> n, producing |-> Q, refs |-> r]
  BY <1>1
<1>6. R.producing = Q
  BY <1>4
<1> HIDE DEF R
<1> DEFINE T == [Q EXCEPT ![h] = TRUE]
<1>7. [R EXCEPT !.producing[h] = TRUE] = [R EXCEPT !.producing = T]
  BY <1>6
<1> HIDE DEF T
<1>5. [R EXCEPT !.producing[h] = TRUE]
        = [listed |-> L, head |-> a, next |-> n, producing |-> T, refs |-> r]
  BY <1>4, <1>7
<1> QED
  BY <1>2, <1>3, <1>5 DEF s, a, n, Q, T, Linked

\* GetNextNonControlMasterConnection() on a linked stack.
LEMMA HeirOfLinked ==
    ASSUME NEW L \in SUBSET active, NEW P, NEW r, NEW i
    PROVE  HeirOf(Linked(L, P, r), i) = FirstOf({c \in Controllers(i) \cap L : ~P[c]})
<1>1. {c \in L : /\ Kind[c] \in {"ExclusiveOwner", "InputOnly"}
                 /\ InputOf[c] = i
                 /\ ptype[c] = "Multicast" /\ ~P[c]}
        = {c \in Controllers(i) \cap L : ~P[c]}
  BY DEF Controllers
<1> QED
  BY <1>1, LinkedFields DEF HeirOf

----------------------------------------------------------------------------
(* The walk along a list.  What a loop stands on at its turns is known from *)
(* the list at its start alone.                                             *)

\* The members that a loop at a has before it.
From(L, a) == IF a = None THEN {} ELSE {a} \cup (behind[a] \cap L)
NextOf(L, a) == IF a = None THEN None ELSE FirstOf(behind[a] \cap L)

\* A step of the walk takes one member off those before it.
LEMMA FromNext ==
    ASSUME Chained, NEW L \in SUBSET active
    PROVE  /\ From(L, FirstOf(L)) = L
           /\ FirstOf(L) \in L \cup {None}
           /\ \A a \in L : /\ a # None /\ a \in From(L, a) /\ From(L, a) \subseteq L
                           /\ NextOf(L, a) \in L \cup {None}
                           /\ From(L, NextOf(L, a)) = From(L, a) \ {a}
<1>1. From(L, FirstOf(L)) = L /\ FirstOf(L) \in L \cup {None}
  BY HeadOf DEF From
<1>2. ASSUME NEW a \in L
      PROVE  /\ a # None /\ a \in From(L, a) /\ From(L, a) \subseteq L
             /\ NextOf(L, a) \in L \cup {None}
             /\ From(L, NextOf(L, a)) = From(L, a) \ {a}
  <2> DEFINE n == FirstOf(behind[a] \cap L)
  <2>1. a # None /\ a \notin behind[a]
    BY DEF Chained, PointerAssumption, ListOrder, TypeOK
  <2>2. /\ n = None <=> behind[a] \cap L = {}
        /\ n # None => /\ n \in L /\ behind[a] \cap L = {n} \cup (behind[n] \cap L)
    BY Successor
  <2>3. NextOf(L, a) = n
    BY <2>1 DEF NextOf
  <2> HIDE DEF n
  <2>4. From(L, a) = {a} \cup (behind[a] \cap L)
    BY <2>1 DEF From
  <2>5. From(L, n) = behind[a] \cap L
    BY <2>2 DEF From
  <2> QED
    BY <2>1, <2>2, <2>3, <2>4, <2>5
<1> QED
  BY <1>1, <1>2

\* The walk meets every member and ends within as many turns as there are.
LEMMA Walk ==
    ASSUME Chained, NEW L \in SUBSET active, NEW N \in Nat, N = Cardinality(L)
    PROVE  \E a \in [0 .. N -> L \cup {None}] :
              /\ a[0] = FirstOf(L)
              /\ \A n \in 1 .. N : a[n] = NextOf(L, a[n - 1])
              /\ a[N] = None
<1> DEFINE Near(a, n) == a[n] # None => Cardinality(From(L, a[n])) + n <= N
           Sofar(a, k) == /\ a[0] = FirstOf(L)
                          /\ \A n \in 1 .. N : n <= k => a[n] = NextOf(L, a[n - 1])
                          /\ \A n \in 0 .. N : n <= k => Near(a, n)
           A == [0 .. N -> L \cup {None}]
           E == {k \in Nat : \E a \in A : Sofar(a, k)}
<1>0. IsFiniteSet(L)
  BY FS_Subset DEF Chained, PoolAssumption, TypeOK
<1>1. \A a \in L : IsFiniteSet(From(L, a)) /\ Cardinality(From(L, a)) \in Nat
  BY <1>0, FromNext, FS_Subset, FS_CardinalityType
<1>2. \A a \in L : NextOf(L, a) # None =>
          Cardinality(From(L, NextOf(L, a))) = Cardinality(From(L, a)) - 1
  BY <1>1, FromNext, FS_RemoveElement
<1>3. 0 \in E
  <2> DEFINE a == [n \in 0 .. N |-> FirstOf(L)]
  <2>1. a \in A
    BY FromNext
  <2>2. a[0] = FirstOf(L) /\ From(L, a[0]) = L
    BY FromNext
  <2> HIDE DEF a
  <2>3. Sofar(a, 0)
    BY <2>2
  <2> QED
    BY <2>1, <2>3
<1>4. ASSUME NEW k \in E
      PROVE  k + 1 \in E
  <2>1. PICK a \in A : Sofar(a, k)
    OBVIOUS
  <2>2. CASE k + 1 > N
    <3>1. Sofar(a, k + 1)
      BY <2>1, <2>2
    <3> QED
      BY <3>1
  <2>3. CASE k + 1 <= N
    <3> DEFINE x == NextOf(L, a[k])
               b == [a EXCEPT ![k + 1] = x]
    <3>1. k \in 0 .. N /\ k + 1 \in 0 .. N /\ k + 1 # 0 /\ (k + 1) - 1 = k
      BY <2>3
    <3>2. a[k] \in L \cup {None} /\ x \in L \cup {None}
      BY <3>1, FromNext DEF NextOf
    <3>3. b \in A /\ b[k + 1] = x /\ \A n \in 0 .. N : n <= k => b[n] = a[n]
      BY <3>1, <3>2
    <3>4. x # None => Cardinality(From(L, x)) + (k + 1) <= N
      <4> SUFFICES ASSUME x # None
                   PROVE  Cardinality(From(L, x)) + (k + 1) <= N
        OBVIOUS
      <4>1. a[k] \in L
        BY <3>2 DEF NextOf
      <4>2. a[k] # None
        BY <4>1, FromNext
      <4>3. Cardinality(From(L, a[k])) + k <= N
        BY <2>1, <3>1, <4>2
      <4>4. Cardinality(From(L, x)) = Cardinality(From(L, a[k])) - 1
        BY <1>2, <4>1
      <4> HIDE DEF x
      <4> QED
        BY <1>1, <4>1, <4>3, <4>4
    <3> HIDE DEF x, b
    <3>5. ASSUME NEW n \in 1 .. N, n <= k + 1
          PROVE  b[n] = NextOf(L, b[n - 1])
      <4>1. CASE n = k + 1
        BY <3>1, <3>3, <4>1 DEF x
      <4>2. CASE n # k + 1
        <5>1. n <= k /\ n - 1 \in 0 .. N /\ n - 1 <= k /\ n \in 0 .. N
          BY <3>5, <4>2
        <5> QED
          BY <2>1, <3>3, <5>1
      <4> QED
        BY <4>1, <4>2
    <3>6. ASSUME NEW n \in 0 .. N, n <= k + 1
          PROVE  Near(b, n)
      <4>1. CASE n = k + 1
        BY <3>3, <3>4, <4>1
      <4>2. CASE n # k + 1
        <5>1. n <= k
          BY <3>6, <4>2
        <5> QED
          BY <2>1, <3>3, <5>1
      <4> QED
        BY <4>1, <4>2
    <3>7. b[0] = FirstOf(L)
      BY <2>1, <3>3
    <3> QED
      BY <3>3, <3>5, <3>6, <3>7
  <2> QED
    BY <2>2, <2>3
<1>5. E = Nat
  <2> HIDE DEF E
  <2>1. E \in SUBSET Nat
    BY DEF E
  <2> QED
    BY <1>3, <1>4, <2>1, SetInduction
<1>6. PICK a \in A : Sofar(a, N)
  BY <1>5
<1>7. a[N] = None
  <2> SUFFICES ASSUME a[N] # None
               PROVE  FALSE
    OBVIOUS
  <2>1. a[N] \in L /\ Cardinality(From(L, a[N])) + N <= N
    BY <1>6
  <2>2. a[N] \in From(L, a[N])
    BY <2>1, FromNext
  <2>3. Cardinality(From(L, a[N])) = 0
    <3>1. Cardinality(From(L, a[N])) \in Nat
      BY <1>1, <2>1
    <3> QED
      BY <2>1, <3>1
  <2> QED
    BY <1>1, <2>1, <2>2, <2>3, FS_EmptySet
<1> QED
  BY <1>6, <1>7

\* Two sequences that start alike and go on alike end alike.
LEMMA SameByStep ==
    ASSUME NEW N \in Nat, NEW f, NEW g, f[0] = g[0],
           \A n \in 1 .. N : f[n - 1] = g[n - 1] => f[n] = g[n]
    PROVE  f[N] = g[N]
<1> DEFINE G == {n \in Nat : n <= N => f[n] = g[n]}
<1>1. 0 \in G
  OBVIOUS
<1>2. ASSUME NEW n \in G
      PROVE  n + 1 \in G
  <2> SUFFICES ASSUME n + 1 <= N
               PROVE  f[n + 1] = g[n + 1]
    OBVIOUS
  <2>1. n + 1 \in 1 .. N /\ (n + 1) - 1 = n /\ f[n] = g[n]
    OBVIOUS
  <2> QED
    BY <2>1
<1>3. G \in SUBSET Nat
  OBVIOUS
<1> HIDE DEF G
<1>4. G = Nat
  BY <1>1, <1>2, <1>3, SetInduction
<1> QED
  BY <1>4 DEF G

----------------------------------------------------------------------------
(* The loop for listen only connections.                                    *)

\* A turn closes the listener that it stands on, if it is one of the input.
LEMMA ListenerTurnOf ==
    ASSUME Chained, NEW L \in SUBSET active, NEW P \in [Conns -> BOOLEAN], NEW r \in Int, NEW i,
           \A c \in Conns : Kind[c] = "ListenOnly" => ~P[c],
           NEW a \in L \cup {None}
    PROVE  LET Gone(x) == (L \cap Listeners(i)) \ From(L, x)
               At(x) == [stack |-> Linked(L \ Gone(x), P, r - Cardinality(Gone(x))), at |-> x]
           IN  ListenerTurn(At(a), i) = At(NextOf(L, a))
<1> DEFINE K == L \cap Listeners(i)
           Gone(x) == K \ From(L, x)
           At(x) == [stack |-> Linked(L \ Gone(x), P, r - Cardinality(Gone(x))), at |-> x]
<1>1. CASE a = None
  BY <1>1 DEF ListenerTurn, NextOf
<1>2. CASE a \in L
  <2> DEFINE b == NextOf(L, a)
             D == Gone(a)
             M == L \ D
             s == Linked(M, P, r - Cardinality(D))
             t == At(a)
             closed == IF Kind[a] = "ListenOnly" /\ InputOf[a] = i
                       THEN CloseListener(s, a) ELSE s
  <2>1. /\ a # None /\ a \in From(L, a) /\ From(L, a) \subseteq L
        /\ From(L, b) = From(L, a) \ {a}
    BY <1>2, FromNext
  <2>2. L \subseteq Conns /\ a \in Conns /\ a \in M /\ M \in SUBSET active
    BY <1>2, <2>1 DEF Chained, TypeOK
  <2>3. a \in K <=> Kind[a] = "ListenOnly" /\ InputOf[a] = i
    BY <1>2 DEF Listeners, ForInputWithType
  <2>4. behind[a] \cap M = behind[a] \cap L
    BY <2>1 DEF From
  <2>5. Gone(b) = D \cup (K \cap {a})
    BY <2>1
  <2>6. IsFiniteSet(D) /\ Cardinality(D) \in Nat /\ a \notin D
    <3>1. IsFiniteSet(Conns) /\ D \in SUBSET Conns
      BY <2>2 DEF Chained, PoolAssumption
    <3> QED
      BY <2>1, <3>1, FS_Subset, FS_CardinalityType
  <2>7. t.stack = s /\ t.at = a
    OBVIOUS
  <2>8. s.next[a] = b /\ s.listed = M
    <3> HIDE DEF M, D
    <3>1. s.next[a] = FirstOf(behind[a] \cap M) /\ s.listed = M
      BY <2>2, LinkedFields
    <3> QED
      BY <2>1, <2>4, <3>1 DEF NextOf
  <2>9. ListenerTurn(t, i) = [stack |-> closed, at |-> b]
    <3> HIDE DEF t, s, b
    <3> QED
      BY <2>1, <2>7, <2>8 DEF ListenerTurn, Onward, StepOn
  <2>10. CASE a \in K
    <3>1. closed = Release(s, a)
      BY <2>2, <2>3, <2>8, <2>10 DEF CloseListener
    <3>2. ~P[a] /\ [P EXCEPT ![a] = FALSE] = P
      BY <2>2, <2>3, <2>10
    <3> DEFINE q == r - Cardinality(D)
    <3>3. q \in Int
      BY <2>6
    <3> HIDE DEF q, D, M
    <3> DEFINE Q == [P EXCEPT ![a] = FALSE]
               e == IF P[a] THEN 1 ELSE 0
    <3>9. Release(Linked(M, P, q), a) = Linked(M \ {a}, Q, q - (1 + e))
      BY <2>2, <3>3, ReleaseOf
    <3>10. Q = P /\ e = 0
      BY <3>2
    <3> HIDE DEF Q, e
    <3>4. Release(Linked(M, P, q), a) = Linked(M \ {a}, P, q - (1 + 0))
      BY <3>9, <3>10
    <3>5. Gone(b) = D \cup {a} /\ L \ Gone(b) = M \ {a}
      BY <2>5, <2>10 DEF M
    <3>6. Cardinality(D \cup {a}) = Cardinality(D) + 1
      BY <2>6, FS_AddElement
    <3> HIDE DEF Gone, K, b
    <3>7. q - (1 + 0) = r - Cardinality(Gone(b))
      BY <2>6, <3>5, <3>6 DEF q
    <3>8. closed = Linked(L \ Gone(b), P, r - Cardinality(Gone(b)))
      BY <3>1, <3>4, <3>5, <3>7 DEF q
    <3>11. [stack |-> closed, at |-> b] = At(b)
      BY <3>8
    <3> HIDE DEF At, closed, t
    <3>12. ListenerTurn(t, i) = At(b)
      BY <2>9, <3>11
    <3> QED
      BY ONLY <3>12 DEF t, b, At, Gone, K
  <2>11. CASE a \notin K
    <3>1. closed = s /\ Gone(b) = D
      BY <2>3, <2>5, <2>11
    <3> QED
      BY <2>9, <3>1
  <2> QED
    BY <2>10, <2>11
<1> QED
  BY <1>1, <1>2

\* CloseAllConnectionsForInputWithSameType() closes all listen only connections
\* of an input.
LEMMA CloseListenersOf ==
    ASSUME Chained, NEW L \in SUBSET active, NEW P \in [Conns -> BOOLEAN], NEW r \in Int, NEW i,
           \A c \in Conns : Kind[c] = "ListenOnly" => ~P[c]
    PROVE  CloseListeners(Linked(L, P, r), i)
             = Linked(L \ Listeners(i), P, r - Cardinality(L \cap Listeners(i)))
<1> DEFINE K == L \cap Listeners(i)
           Gone(x) == K \ From(L, x)
           At(x) == [stack |-> Linked(L \ Gone(x), P, r - Cardinality(Gone(x))), at |-> x]
           s == Linked(L, P, r)
           N == Cardinality(L)
           Body(f) == [n \in 0 .. N |-> IF n = 0 THEN Begin(s) ELSE ListenerTurn(f[n - 1], i)]
           turn == CHOOSE f : f = Body(f)
<1>1. N \in Nat /\ s.listed = L /\ s.head = FirstOf(L)
  BY FS_Subset, FS_CardinalityType, LinkedFields DEF Chained, PoolAssumption, TypeOK
<1>2. CloseListeners(s, i) = turn[N].stack
  BY <1>1 DEF CloseListeners
<1>3. \A a \in L \cup {None} : ListenerTurn(At(a), i) = At(NextOf(L, a))
  BY ListenerTurnOf
<1>4. Begin(s) = At(FirstOf(L))
  <2>1. Gone(FirstOf(L)) = {} /\ L \ Gone(FirstOf(L)) = L
    BY FromNext
  <2>2. r - Cardinality({}) = r
    BY FS_EmptySet
  <2> HIDE DEF Gone
  <2> QED
    BY <1>1, <2>1, <2>2 DEF Begin
<1> HIDE DEF N, s, At
<1>5. PICK a \in [0 .. N -> L \cup {None}] :
              /\ a[0] = FirstOf(L)
              /\ \A n \in 1 .. N : a[n] = NextOf(L, a[n - 1])
              /\ a[N] = None
  BY <1>1, Walk DEF N
<1> DEFINE g == [n \in 0 .. N |-> At(a[n])]
<1>6. \A n \in 0 .. N : g[n] = IF n = 0 THEN Begin(s) ELSE ListenerTurn(g[n - 1], i)
  <2> TAKE n \in 0 .. N
  <2>1. CASE n = 0
    BY <1>4, <1>5, <2>1
  <2>2. CASE n # 0
    <3>1. n \in 1 .. N /\ n - 1 \in 0 .. N
      BY <1>1, <2>2
    <3>2. a[n - 1] \in L \cup {None} /\ a[n] = NextOf(L, a[n - 1])
      BY <1>5, <3>1
    <3>3. g[n] = At(a[n]) /\ g[n - 1] = At(a[n - 1])
      BY <3>1
    <3> QED
      BY <1>3, <2>2, <3>2, <3>3
  <2> QED
    BY <2>1, <2>2
<1>7. g = Body(g)
  <2>1. g = [n \in 0 .. N |-> g[n]]
    OBVIOUS
  <2> HIDE DEF g
  <2> QED
    BY <1>6, <2>1
<1>8. turn = Body(turn)
  <2> HIDE DEF Body, g
  <2> QED
    BY <1>7
<1>9. turn[N] = g[N]
  <2> HIDE DEF turn, g
  <2>1. \A n \in 0 .. N : turn[n] = IF n = 0 THEN Begin(s) ELSE ListenerTurn(turn[n - 1], i)
    BY <1>8
  <2>2. turn[0] = g[0]
    BY <1>1, <1>6, <2>1
  <2>3. \A n \in 1 .. N : turn[n - 1] = g[n - 1] => turn[n] = g[n]
    BY <1>1, <1>6, <2>1
  <2> HIDE DEF Body
  <2> QED
    BY <1>1, <2>2, <2>3, SameByStep
<1>10. turn[N].stack = Linked(L \ Gone(None), P, r - Cardinality(Gone(None)))
  <2>1. g[N] = At(None)
    BY <1>1, <1>5
  <2> HIDE DEF turn, g
  <2> QED
    BY <1>9, <2>1 DEF At
<1>11. Gone(None) = K /\ L \ K = L \ Listeners(i)
  BY DEF From
<1> QED
  BY <1>2, <1>10, <1>11 DEF s

----------------------------------------------------------------------------
(* Close() of one connection.                                               *)

\* Producers in the middle of a handler; no listen only connection is one.
Productions == {P \in [Conns -> BOOLEAN] : \A c \in Conns : Kind[c] = "ListenOnly" => ~P[c]}

\* The connections that could take over the production of i.
Free(L, P, i) == {c \in Controllers(i) \cap L : ~P[c]}

Stop(P, c) == [P EXCEPT ![c] = FALSE]
Pass(P, c, h) == [Stop(P, c) EXCEPT ![h] = TRUE]

\* The productions that a handler passes through: listeners have none.
LEMMA StopProducing ==
    ASSUME NEW P \in Productions, NEW c \in Conns
    PROVE  Stop(P, c) \in Productions
BY DEF Productions, Stop

LEMMA PassProducing ==
    ASSUME TypeOK, NEW P \in Productions, NEW c \in Conns, NEW i, NEW h \in Controllers(i)
    PROVE  Pass(P, c, h) \in Productions
<1>1. h \in Conns /\ Kind[h] # "ListenOnly"
  BY DEF Controllers, TypeOK
<1> QED
  BY <1>1 DEF Productions, Pass, Stop

LEMMA ReleaseStops ==
    ASSUME Chained, NEW L \in SUBSET active, NEW c \in L, NEW P \in Productions, NEW r \in Int
    PROVE  Release(Linked(L, P, r), c)
             = Linked(L \ {c}, Stop(P, c), r - (1 + (IF P[c] THEN 1 ELSE 0)))
<1>1. P \in [Conns -> BOOLEAN]
  BY DEF Productions
<1> QED
  BY <1>1, ReleaseOf DEF Stop

\* Close() of a connection that is not a control master.
LEMMA CloseOthers ==
    ASSUME Chained, NEW L \in SUBSET active, NEW c \in L, NEW P \in Productions, NEW r \in Int,
           c \in Controllers(InputOf[c]) => ~P[c]
    PROVE  CloseConn(Linked(L, P, r), c)
             = Linked(L \ {c}, Stop(P, c), r - (1 + (IF P[c] THEN 1 ELSE 0)))
<1> DEFINE s == Linked(L, P, r)
<1>1. s.listed = L /\ s.producing = P
  BY LinkedFields
<1>2. ~Controlling(s, c)
  BY <1>1 DEF Controlling, Controllers
<1> HIDE DEF s
<1>3. CloseConn(s, c) = Release(s, c)
  BY <1>1, <1>2 DEF CloseConn
<1> QED
  BY <1>3, ReleaseStops DEF s

\* Close() of a control master leaves its production first.
LEMMA CloseMaster ==
    ASSUME Chained, NEW L \in SUBSET active, NEW c \in L, NEW P \in Productions, NEW r \in Int,
           c \in Controllers(InputOf[c]), P[c]
    PROVE  CloseConn(Linked(L, P, r), c) = Release(LeaveProduction(Linked(L, P, r), c), c)
<1> DEFINE s == Linked(L, P, r)
<1>1. s.listed = L /\ s.producing = P
  BY LinkedFields
<1>2. Controlling(s, c)
  BY <1>1 DEF Controlling, Controllers
<1> HIDE DEF s
<1>3. CloseConn(s, c) = Release(LeaveProduction(s, c), c)
  BY <1>1, <1>2 DEF CloseConn
<1> QED
  BY <1>3 DEF s

\* Leaving the production to an heir, or with nobody left to produce it.
LEMMA LeaveToHeir ==
    ASSUME Chained, NEW L \in SUBSET active, NEW c \in L, NEW P \in Productions, NEW r \in Int,
           Free(L, P, InputOf[c]) # {}
    PROVE  LeaveProduction(Linked(L, P, r), c)
             = Linked(L, Pass(P, c, FirstOf(Free(L, P, InputOf[c]))), r)
<1> DEFINE s == Linked(L, P, r)
           F == Free(L, P, InputOf[c])
<1>1. HeirOf(s, InputOf[c]) = FirstOf(F)
  BY HeirOfLinked DEF Free
<1>2. FirstOf(F) # None
  BY FirstFound DEF Free
<1> HIDE DEF s, F
<1>3. LeaveProduction(s, c) = GiveSocket(s, c, FirstOf(F))
  BY <1>1, <1>2 DEF LeaveProduction
<1> QED
  BY <1>3, GiveSocketOf DEF s, F, Pass, Stop

LEMMA LeaveWithoutHeir ==
    ASSUME Chained, NEW L \in SUBSET active, NEW c \in L, NEW P \in Productions, NEW r \in Int,
           Free(L, P, InputOf[c]) = {}
    PROVE  LeaveProduction(Linked(L, P, r), c)
             = Linked(L \ Listeners(InputOf[c]), P, r - Cardinality(L \cap Listeners(InputOf[c])))
<1> DEFINE s == Linked(L, P, r)
           F == Free(L, P, InputOf[c])
<1>1. HeirOf(s, InputOf[c]) = FirstOf(F)
  BY HeirOfLinked DEF Free
<1>2. FirstOf(F) = None
  BY FirstFound DEF Free
<1> HIDE DEF s, F
<1>3. LeaveProduction(s, c) = CloseListeners(s, InputOf[c])
  BY <1>1, <1>2 DEF LeaveProduction
<1>4. P \in [Conns -> BOOLEAN] /\ \A d \in Conns : Kind[d] = "ListenOnly" => ~P[d]
  BY DEF Productions
<1> QED
  BY <1>3, <1>4, CloseListenersOf DEF s

\* Close() of a control master, with an heir and without one.
LEMMA CloseToHeir ==
    ASSUME Chained, NEW L \in SUBSET active, NEW c \in L, NEW P \in Productions, NEW r \in Int,
           c \in Controllers(InputOf[c]), P[c], Free(L, P, InputOf[c]) # {}
    PROVE  CloseConn(Linked(L, P, r), c)
             = Linked(L \ {c}, Pass(P, c, FirstOf(Free(L, P, InputOf[c]))), r - 1)
<1> DEFINE F == Free(L, P, InputOf[c])
           h == FirstOf(F)
           Q == Pass(P, c, h)
           e == IF Q[c] THEN 1 ELSE 0
<1>1. F \in SUBSET active
  BY DEF Free
<1>2. h \in F
  BY <1>1, FirstFound
<1>3. h # c /\ h \in Conns /\ c \in Conns /\ h \in Controllers(InputOf[c])
  BY <1>2 DEF Free, Controllers, Chained, TypeOK
<1>4. Q \in Productions
  BY <1>3, PassProducing DEF Chained
<1>5. Q[c] = FALSE /\ Stop(Q, c) = Q /\ e = 0
  <2>1. P \in [Conns -> BOOLEAN]
    BY DEF Productions
  <2> HIDE DEF h
  <2> QED
    BY <1>3, <2>1 DEF Pass, Stop
<1> HIDE DEF Q
<1>6. Release(Linked(L, Q, r), c) = Linked(L \ {c}, Stop(Q, c), r - (1 + e))
  BY <1>4, ReleaseStops
<1> HIDE DEF e
<1>7. Release(Linked(L, Q, r), c) = Linked(L \ {c}, Q, r - 1)
  BY <1>5, <1>6
<1> QED
  BY <1>7, CloseMaster, LeaveToHeir DEF Q

LEMMA CloseWithoutHeir ==
    ASSUME Chained, NEW L \in SUBSET active, NEW c \in L, NEW P \in Productions, NEW r \in Int,
           c \in Controllers(InputOf[c]), P[c], Free(L, P, InputOf[c]) = {}
    PROVE  CloseConn(Linked(L, P, r), c)
             = Linked(L \ ({c} \cup Listeners(InputOf[c])), Stop(P, c),
                      r - (Cardinality(L \cap Listeners(InputOf[c])) + 2))
<1> DEFINE M == L \ Listeners(InputOf[c])
           k == Cardinality(L \cap Listeners(InputOf[c]))
           q == r - k
           e == IF P[c] THEN 1 ELSE 0
<1>1. c \in M /\ M \in SUBSET active
  BY DEF Controllers, Listeners, ForInputWithType
<1>2. k \in Nat /\ q \in Int
  BY FS_Subset, FS_CardinalityType DEF Chained, PoolAssumption, TypeOK
<1> HIDE DEF M, q, k
<1>3. Release(Linked(M, P, q), c) = Linked(M \ {c}, Stop(P, c), q - (1 + e))
  BY <1>1, <1>2, ReleaseStops
<1>4. q - (1 + e) = r - (k + 2)
  BY <1>2 DEF q
<1>5. M \ {c} = L \ ({c} \cup Listeners(InputOf[c]))
  BY DEF M
<1> HIDE DEF e
<1>6. CloseConn(Linked(L, P, r), c) = Release(Linked(M, P, q), c)
  BY CloseMaster, LeaveWithoutHeir DEF M, q, k
<1> QED
  BY <1>3, <1>4, <1>5, <1>6 DEF k

----------------------------------------------------------------------------
(* The stack before and after a handler.                                    *)

\* Who is not on the list has no link.
Unlinked == \A c \in Conns \ active : behind[c] = {}

FirstIn(T, b) == IF T = {} THEN None ELSE CHOOSE c \in T : c \in T /\ T \ {c} \subseteq b[c]

\* Retiring S leaves the order of the others as it was.
LEMMA FirstAfter ==
    ASSUME Chained, NEW S \in SUBSET active, NEW T \in SUBSET (active \ S),
           NEW b, \A d \in active \ S : b[d] = behind[d] \ S
    PROVE  FirstIn(T, b) = FirstOf(T)
<1>1. CASE T = {}
  BY <1>1 DEF FirstIn, FirstOf
<1>2. CASE T # {}
  <2>1. T \in SUBSET active /\ \A c \in T : b[c] = behind[c] \ S /\ T \cap S = {}
    OBVIOUS
  <2>2. FirstOf(T) \in T /\ T \ {FirstOf(T)} \subseteq behind[FirstOf(T)]
    BY <1>2, <2>1, FirstFound
  <2> DEFINE f == CHOOSE c \in T : c \in T /\ T \ {c} \subseteq b[c]
  <2>3. \E c \in T : c \in T /\ T \ {c} \subseteq b[c]
    BY <2>1, <2>2
  <2>4. f \in T /\ T \ {f} \subseteq b[f]
    BY <2>3
  <2>5. FirstIn(T, b) = f
    BY <1>2 DEF FirstIn
  <2> HIDE DEF f
  <2>6. T \ {f} \subseteq behind[f]
    BY <2>1, <2>4
  <2> QED
    BY <2>1, <2>4, <2>5, <2>6, FirstFound
<1> QED
  BY <1>1, <1>2

\* The stack before a handler, and after one that retires S.
LEMMA HereIs ==
    ASSUME Chained, Unlinked
    PROVE  Here = Linked(active, producing, refs)
<1>1. \A d \in Conns : FirstOf(behind[d])
          = IF d \in active THEN FirstOf(behind[d] \cap active) ELSE None
  <2> TAKE d \in Conns
  <2>1. CASE d \in active
    <3>1. behind[d] \cap active = behind[d]
      BY <2>1 DEF Chained, ListOrder
    <3> QED
      BY <2>1, <3>1
  <2>2. CASE d \notin active
    <3>1. behind[d] = {}
      BY <2>2 DEF Unlinked
    <3> QED
      BY <2>2, <3>1, FirstFound
  <2> QED
    BY <2>1, <2>2
<1>2. [d \in Conns |-> FirstOf(behind[d])]
        = [d \in Conns |-> IF d \in active THEN FirstOf(behind[d] \cap active) ELSE None]
  BY <1>1
<1> QED
  BY <1>2 DEF Here, Linked

LEMMA HereAfter ==
    ASSUME Chained, Unlinked, NEW S \in SUBSET active, Retire(S)
    PROVE  Here' = Linked(active \ S, producing', refs')
<1>1. /\ active' = active \ S
      /\ \A d \in Conns : behind'[d] = IF d \in S THEN {} ELSE behind[d] \ S
  BY DEF Retire
<1>2. \A d \in active \ S : behind'[d] = behind[d] \ S
  BY <1>1 DEF Chained, TypeOK
<1>3. FirstIn(active', behind') = FirstOf(active \ S)
  BY <1>1, <1>2, FirstAfter
<1>4. \A d \in Conns : FirstIn(behind'[d], behind')
                         = IF d \in active \ S THEN FirstOf(behind[d] \cap (active \ S)) ELSE None
  <2> TAKE d \in Conns
  <2>1. CASE d \in active \ S
    <3>1. behind'[d] = behind[d] \cap (active \ S)
      BY <1>2, <2>1 DEF Chained, ListOrder
    <3>2. FirstIn(behind'[d], behind') = FirstOf(behind'[d])
      BY <1>2, <3>1, FirstAfter
    <3> QED
      BY <2>1, <3>1, <3>2
  <2>2. CASE d \notin active \ S
    <3>1. behind'[d] = {}
      BY <1>1, <2>2 DEF Unlinked
    <3> QED
      BY <2>2, <3>1 DEF FirstIn
  <2> QED
    BY <2>1, <2>2
<1>5. [d \in Conns |-> FirstIn(behind'[d], behind')]
        = [d \in Conns |-> IF d \in active \ S THEN FirstOf(behind[d] \cap (active \ S)) ELSE None]
  BY <1>4
<1>6. Here' = [listed |-> active', head |-> FirstIn(active', behind'),
               next |-> [d \in Conns |-> FirstIn(behind'[d], behind')],
               producing |-> producing', refs |-> refs']
  BY DEF Here, FirstOf, IsFirst, FirstIn
<1> QED
  BY <1>1, <1>3, <1>5, <1>6 DEF Linked

----------------------------------------------------------------------------
(* A handler that closes one connection.                                    *)

Ready == PoolAssumption /\ PointerAssumption /\ IInv /\ ListOrder /\ Unlinked

\* What the lemmas on the loops take from the invariants.
LEMMA ReadyFacts ==
    ASSUME Ready
    PROVE  /\ Chained /\ Unlinked /\ TypeOK
           /\ producing \in Productions /\ refs \in Int
           /\ \A S \in SUBSET active : /\ IsFiniteSet(S) /\ Cardinality(S) \in Nat
                                       /\ ConsumersIn(S) = S
           /\ \A i : Free(active, producing, i) = NonMasters(i)
           /\ \A c \in active : c \in Controllers(InputOf[c]) /\ producing[c] <=> IsMaster(c)
<1> USE DEF Ready, IInv
<1>1. Chained /\ Unlinked /\ TypeOK
  BY DEF Chained
<1>2. producing \in Productions /\ refs \in Int
  BY DEF Productions, TypeOK, SocketsHeld
<1>3. ASSUME NEW S \in SUBSET active
      PROVE  IsFiniteSet(S) /\ Cardinality(S) \in Nat /\ ConsumersIn(S) = S
  <2>1. S \in SUBSET Conns
    BY DEF TypeOK
  <2>2. IsFiniteSet(S)
    BY <2>1, FS_Subset DEF PoolAssumption
  <2>3. ConsumersIn(S) = S
    BY <2>1 DEF ConsumersIn, SocketsHeld
  <2> QED
    BY <2>2, <2>3, FS_CardinalityType
<1>4. \A i : Free(active, producing, i) = NonMasters(i)
  BY DEF Free, NonMasters, Controllers
<1>5. \A c \in active : c \in Controllers(InputOf[c]) /\ producing[c] <=> IsMaster(c)
  BY DEF Controllers, IsMaster
<1> QED
  BY <1>1, <1>2, <1>3, <1>4, <1>5

\* Close() does what IoConnections says of it.
LEMMA CloseReaches ==
    ASSUME Ready, NEW c \in active, Close(c)
    PROVE  Reached(CloseConn(Here, c))
<1> DEFINE i == InputOf[c]
           F == Free(active, producing, i)
           K == Listeners(i)
<1>1. /\ Chained /\ Unlinked /\ TypeOK /\ producing \in Productions /\ refs \in Int
      /\ F = NonMasters(i)
      /\ c \in Controllers(InputOf[c]) /\ producing[c] <=> IsMaster(c)
      /\ c \in Conns /\ producing \in [Conns -> BOOLEAN]
  BY ReadyFacts DEF TypeOK
<1>2. Here = Linked(active, producing, refs)
  BY <1>1, HereIs
<1>3. ConsumersIn({c}) = {c} /\ Cardinality({c}) = 1
  BY ReadyFacts, FS_Singleton
<1>4. CASE ~IsMaster(c) /\ Shut({c})
  <2>1. Here' = Linked(active \ {c}, producing', refs')
    BY <1>1, <1>4, HereAfter DEF Shut
  <2>2. producing' = Stop(producing, c)
    BY <1>1, <1>4 DEF Shut, Stop
  <2>3. Cardinality(ProducersIn({c})) = IF producing[c] THEN 1 ELSE 0
    <3>1. ProducersIn({c}) = IF producing[c] THEN {c} ELSE {}
      BY DEF ProducersIn
    <3> QED
      BY <3>1, FS_Singleton, FS_EmptySet
  <2>4. refs' = refs - (1 + (IF producing[c] THEN 1 ELSE 0))
    BY <1>3, <1>4, <2>3 DEF Shut
  <2>5. CloseConn(Here, c)
          = Linked(active \ {c}, Stop(producing, c), refs - (1 + (IF producing[c] THEN 1 ELSE 0)))
    BY <1>1, <1>2, <1>4, CloseOthers
  <2> QED
    BY <2>1, <2>2, <2>4, <2>5 DEF Reached
<1>5. CASE IsMaster(c) /\ F # {} /\ HandOver({c}, c, F)
  <2>1. Here' = Linked(active \ {c}, producing', refs')
    BY <1>1, <1>5, HereAfter DEF HandOver
  <2>2. PICK h \in F : /\ IsFirst(h, F)
                       /\ producing' = [d \in Conns |-> d = h \/ (producing[d] /\ d \notin {c})]
    BY <1>5 DEF HandOver
  <2>3. F \in SUBSET active
    BY DEF Free
  <2>4. h = FirstOf(F)
    BY <1>1, <2>2, <2>3, FirstFound DEF IsFirst
  <2>5. producing' = Pass(producing, c, h)
    BY <1>1, <2>2, <2>3 DEF Pass, Stop, TypeOK
  <2>6. refs' = refs - 1
    <3>1. ProducersIn({c} \ {c}) = {}
      BY DEF ProducersIn
    <3>2. refs' = refs - (Cardinality(ConsumersIn({c})) + Cardinality(ProducersIn({c} \ {c})))
      BY <1>5 DEF HandOver
    <3>3. refs' = refs - (1 + 0)
      BY ONLY <1>3, <3>1, <3>2, FS_EmptySet
    <3> QED
      BY <1>1, <3>3
  <2>7. CloseConn(Here, c) = Linked(active \ {c}, Pass(producing, c, FirstOf(F)), refs - 1)
    BY <1>1, <1>2, <1>5, CloseToHeir
  <2> QED
    BY <2>1, <2>4, <2>5, <2>6, <2>7 DEF Reached
<1>6. CASE IsMaster(c) /\ F = {} /\ Shut({c} \cup K)
  <2> DEFINE S == {c} \cup K
             k == Cardinality(K)
  <2>1. /\ S \in SUBSET active /\ K \in SUBSET active /\ c \notin K
        /\ \A d \in K : ~producing[d]
        /\ producing[c]
    <3>1. /\ K \in SUBSET active
          /\ \A d \in K : Kind[d] = "ListenOnly" /\ d \in Conns
      BY <1>1 DEF Listeners, ForInputWithType, TypeOK
    <3>2. Kind[c] # "ListenOnly" /\ producing[c]
      BY <1>6 DEF IsMaster
    <3> HIDE DEF K
    <3> QED
      BY <1>1, <3>1, <3>2 DEF Productions
  <2>2. Here' = Linked(active \ S, producing', refs')
    BY <1>1, <1>6, <2>1, HereAfter DEF Shut
  <2>3. producing' = Stop(producing, c)
    BY <1>1, <1>6, <2>1 DEF Shut, Stop
  <2>4. ProducersIn(S) = {c} /\ ConsumersIn(S) = S
    BY <2>1, ReadyFacts DEF ProducersIn
  <2>5. Cardinality(S) = k + 1 /\ k \in Nat
    BY <2>1, ReadyFacts, FS_AddElement
  <2>6. refs' = refs - (k + 2)
    <3>1. refs' = refs - (Cardinality(S) + 1)
      BY <1>3, <1>6, <2>4 DEF Shut
    <3> HIDE DEF S, k
    <3> QED
      BY <1>1, <2>5, <3>1
  <2>7. active \cap K = K
    BY <2>1
  <2>8. CloseConn(Here, c)
          = Linked(active \ S, Stop(producing, c), refs - (Cardinality(active \cap K) + 2))
    BY <1>1, <1>2, <1>6, CloseWithoutHeir
  <2> QED
    BY <2>2, <2>3, <2>6, <2>7, <2>8 DEF Reached
<1> QED
  BY <1>1, <1>4, <1>5, <1>6 DEF Close, Listeners

----------------------------------------------------------------------------
(* The shutdown.                                                            *)

On(P) == {c \in Conns : P[c]}

\* A stack in the middle of the shutdown: whoever is left holds what it held,
\* and the count is theirs.
Balanced(L, P, r) ==
    /\ L \in SUBSET active /\ P \in Productions
    /\ On(P) \subseteq L
    /\ r \in Int /\ r = Cardinality(L) + Cardinality(On(P))

\* The count, as somebody stops producing or passes the production on.
LEMMA OnCounts ==
    ASSUME Chained, NEW P \in Productions, NEW c \in Conns
    PROVE  /\ IsFiniteSet(On(P)) /\ Cardinality(On(P)) \in Nat
           /\ On(Stop(P, c)) = On(P) \ {c}
           /\ Cardinality(On(Stop(P, c))) = Cardinality(On(P)) - (IF P[c] THEN 1 ELSE 0)
<1>1. IsFiniteSet(On(P)) /\ Cardinality(On(P)) \in Nat
  BY FS_Subset, FS_CardinalityType DEF Chained, PoolAssumption, On
<1>2. On(Stop(P, c)) = On(P) \ {c}
  BY DEF On, Stop, Productions
<1>3. c \in On(P) <=> P[c]
  BY DEF On
<1>4. Cardinality(On(P) \ {c}) = IF c \in On(P) THEN Cardinality(On(P)) - 1 ELSE Cardinality(On(P))
  BY <1>1, FS_RemoveElement
<1> QED
  BY <1>1, <1>2, <1>3, <1>4

LEMMA PassKeepsCount ==
    ASSUME Chained, NEW P \in Productions, NEW c \in Conns, P[c], NEW h \in Conns, ~P[h]
    PROVE  /\ On(Pass(P, c, h)) = (On(P) \ {c}) \cup {h}
           /\ Cardinality(On(Pass(P, c, h))) = Cardinality(On(P))
<1>1. On(Pass(P, c, h)) = (On(P) \ {c}) \cup {h} /\ h \notin On(P) /\ c \in On(P)
  BY DEF On, Pass, Stop, Productions
<1>2. IsFiniteSet(On(P)) /\ Cardinality(On(P)) \in Nat
  BY OnCounts
<1>3. /\ Cardinality(On(P) \ {c}) = Cardinality(On(P)) - 1
      /\ IsFiniteSet(On(P) \ {c})
  BY <1>1, <1>2, FS_RemoveElement
<1>4. Cardinality((On(P) \ {c}) \cup {h}) = Cardinality(On(P) \ {c}) + 1
  BY <1>1, <1>3, FS_AddElement
<1> QED
  BY <1>1, <1>2, <1>3, <1>4

\* A Close() in the middle of the shutdown keeps the balance, so that the next
\* one finds it again.
LEMMA CloseCounts ==
    ASSUME Chained, NEW L, NEW P, NEW r, Balanced(L, P, r), NEW c \in L
    PROVE  \E M, Q, q : /\ CloseConn(Linked(L, P, r), c) = Linked(M, Q, q)
                        /\ Balanced(M, Q, q) /\ M \subseteq L \ {c}
<1> DEFINE i == InputOf[c]
           F == Free(L, P, i)
           K == Listeners(i)
           k == Cardinality(L \cap K)
<1>1. /\ L \in SUBSET active /\ P \in Productions /\ On(P) \subseteq L /\ c \in Conns
      /\ r \in Int /\ r = Cardinality(L) + Cardinality(On(P))
      /\ P \in [Conns -> BOOLEAN]
  BY DEF Balanced, Chained, TypeOK, Productions
<1>2. \A S \in SUBSET L : IsFiniteSet(S) /\ Cardinality(S) \in Nat
  <2> TAKE S \in SUBSET L
  <2>1. S \in SUBSET Conns
    BY <1>1 DEF Chained, TypeOK
  <2> QED
    BY <2>1, FS_Subset, FS_CardinalityType DEF Chained, PoolAssumption
<1>3. Cardinality(L \ {c}) = Cardinality(L) - 1
  BY <1>2, FS_RemoveElement
<1>4. /\ Cardinality(On(P)) \in Nat /\ Stop(P, c) \in Productions
      /\ On(Stop(P, c)) = On(P) \ {c}
      /\ Cardinality(On(Stop(P, c))) = Cardinality(On(P)) - (IF P[c] THEN 1 ELSE 0)
  BY <1>1, OnCounts, StopProducing
<1>5. CASE ~(c \in Controllers(i) /\ P[c])
  <2> DEFINE q == r - (1 + (IF P[c] THEN 1 ELSE 0))
  <2>1. CloseConn(Linked(L, P, r), c) = Linked(L \ {c}, Stop(P, c), q)
    BY <1>1, <1>5, CloseOthers
  <2>2. q \in Int /\ q = Cardinality(L \ {c}) + Cardinality(On(Stop(P, c)))
    BY <1>1, <1>2, <1>3, <1>4
  <2> HIDE DEF q
  <2>3. Balanced(L \ {c}, Stop(P, c), q)
    BY <1>1, <1>4, <2>2 DEF Balanced
  <2> QED
    BY <2>1, <2>3
<1>6. CASE c \in Controllers(i) /\ P[c] /\ F # {}
  <2> DEFINE h == FirstOf(F)
             Q == Pass(P, c, h)
  <2>1. CloseConn(Linked(L, P, r), c) = Linked(L \ {c}, Q, r - 1)
    BY <1>1, <1>6, CloseToHeir
  <2>2. F \in SUBSET active
    BY <1>1 DEF Free
  <2>3. h \in F
    BY <1>6, <2>2, FirstFound
  <2>4. h \in L /\ h \in Conns /\ ~P[h] /\ h \in Controllers(i)
    BY <1>1, <2>3 DEF Free, Chained, TypeOK
  <2> HIDE DEF h
  <2>5. Q \in Productions
    BY <1>1, <2>4, PassProducing DEF Chained
  <2>6. On(Q) = (On(P) \ {c}) \cup {h} /\ Cardinality(On(Q)) = Cardinality(On(P))
    BY <1>1, <1>6, <2>4, PassKeepsCount
  <2> HIDE DEF Q
  <2>7. r - 1 \in Int /\ r - 1 = Cardinality(L \ {c}) + Cardinality(On(Q))
    BY <1>1, <1>2, <1>3, <1>4, <2>6
  <2>8. On(Q) \subseteq L \ {c}
    BY <1>1, <1>6, <2>4, <2>6
  <2>9. Balanced(L \ {c}, Q, r - 1)
    BY <1>1, <2>5, <2>7, <2>8 DEF Balanced
  <2> QED
    BY <2>1, <2>9
<1>7. CASE c \in Controllers(i) /\ P[c] /\ F = {}
  <2> DEFINE M == L \ ({c} \cup K)
             q == r - (k + 2)
  <2>1. CloseConn(Linked(L, P, r), c) = Linked(M, Stop(P, c), q)
    BY <1>1, <1>7, CloseWithoutHeir
  <2>2. \A d \in K : ~P[d]
    BY <1>1 DEF Listeners, ForInputWithType, Productions, Chained, TypeOK
  <2>3. c \notin K /\ On(P) \cap K = {}
    BY <1>7, <2>2 DEF On
  <2>4. M = (L \ {c}) \ (L \cap K) /\ (L \ {c}) \cap (L \cap K) = L \cap K
    BY <2>3
  <2>5. k \in Nat /\ IsFiniteSet(L \ {c}) /\ Cardinality(L) \in Nat
    BY <1>2
  <2>6. Cardinality((L \ {c}) \ (L \cap K))
           = Cardinality(L \ {c}) - Cardinality((L \ {c}) \cap (L \cap K))
    BY <2>5, FS_Difference
  <2> HIDE DEF M, k
  <2>7. Cardinality(M) = Cardinality(L) - 1 - k
    BY <1>3, <2>4, <2>6 DEF k
  <2>8. q \in Int /\ q = Cardinality(M) + Cardinality(On(Stop(P, c)))
    BY <1>1, <1>4, <1>7, <2>5, <2>7
  <2>9. On(Stop(P, c)) \subseteq M /\ M \subseteq L \ {c}
    BY <1>1, <1>4, <2>3 DEF M
  <2> HIDE DEF q
  <2>10. Balanced(M, Stop(P, c), q)
    BY <1>1, <1>4, <2>8, <2>9 DEF Balanced
  <2> QED
    BY <2>1, <2>9, <2>10
<1> QED
  BY <1>5, <1>6, <1>7

\* CloseAllConnections() ends with nobody listed and no socket held.
LEMMA CloseHeadsOf ==
    ASSUME Chained, NEW L, NEW P, NEW r, Balanced(L, P, r)
    PROVE  CloseHeads(Linked(L, P, r)) = Linked({}, [c \in Conns |-> FALSE], 0)
<1> DEFINE s == Linked(L, P, r)
           N == Cardinality(L)
           Body(f) == [n \in 0 .. N |-> IF n = 0 THEN s ELSE CloseHead(f[n - 1])]
           left == CHOOSE f : f = Body(f)
           Step(f, n) == f[n] = IF n = 0 THEN s ELSE CloseHead(f[n - 1])
           E == {k \in Nat : \E f : \A n \in 0 .. N : n <= k => Step(f, n)}
<1>1. N \in Nat /\ s.listed = L
  BY FS_Subset, FS_CardinalityType, LinkedFields DEF Chained, PoolAssumption, TypeOK, Balanced
<1>2. CloseHeads(s) = left[N]
  BY <1>1 DEF CloseHeads
<1> HIDE DEF N, s
<1>3. E = Nat
  <2>1. 0 \in E
    <3> DEFINE f == [n \in 0 .. N |-> s]
    <3>1. \A n \in 0 .. N : n <= 0 => Step(f, n)
      BY <1>1
    <3> QED
      BY <3>1
  <2>2. ASSUME NEW k \in E
        PROVE  k + 1 \in E
    <3>1. PICK f : \A n \in 0 .. N : n <= k => Step(f, n)
      OBVIOUS
    <3> DEFINE g == Body(f)
    <3>2. \A n \in 0 .. N : g[n] = IF n = 0 THEN s ELSE CloseHead(f[n - 1])
      OBVIOUS
    <3> HIDE DEF g
    <3>3. \A n \in 0 .. N : n <= k => g[n] = f[n]
      BY <3>1, <3>2
    <3>4. ASSUME NEW n \in 0 .. N, n <= k + 1
          PROVE  Step(g, n)
      <4>1. CASE n = 0
        BY <3>2, <4>1
      <4>2. CASE n # 0
        <5>1. n - 1 \in 0 .. N /\ n - 1 <= k
          BY <1>1, <3>4, <4>2
        <5>2. g[n - 1] = f[n - 1]
          BY <3>3, <5>1
        <5> QED
          BY <3>2, <4>2, <5>2
      <4> QED
        BY <4>1, <4>2
    <3> HIDE DEF Step
    <3> QED
      BY <3>4
  <2>3. E \in SUBSET Nat
    OBVIOUS
  <2> HIDE DEF E
  <2> QED
    BY <2>1, <2>2, <2>3, SetInduction
<1>4. \A n \in 0 .. N : Step(left, n)
  <2>1. PICK f : \A n \in 0 .. N : n <= N => Step(f, n)
    BY <1>1, <1>3
  <2> DEFINE g == [n \in 0 .. N |-> f[n]]
  <2>2. \A n \in 0 .. N : Step(g, n)
    <3> TAKE n \in 0 .. N
    <3>1. Step(f, n) /\ g[n] = f[n]
      BY <1>1, <2>1
    <3>2. CASE n = 0
      BY <3>1, <3>2
    <3>3. CASE n # 0
      <4>1. n - 1 \in 0 .. N
        BY <1>1, <3>3
      <4>2. g[n - 1] = f[n - 1]
        BY <4>1
      <4> HIDE DEF g
      <4> QED
        BY <3>1, <3>3, <4>2
    <3> QED
      BY <3>2, <3>3
  <2>3. g = [n \in 0 .. N |-> g[n]]
    OBVIOUS
  <2> HIDE DEF g
  <2>4. g = Body(g)
    BY <2>2, <2>3
  <2> HIDE DEF Body
  <2>5. left = Body(left)
    BY <2>4
  <2> HIDE DEF left
  <2> QED
    BY <2>5 DEF Body
<1> HIDE DEF left
<1> DEFINE Rest(x, n) == \E M, Q, q : /\ x = Linked(M, Q, q) /\ Balanced(M, Q, q)
                                      /\ Cardinality(M) + n <= N \/ M = {}
           G == {n \in Nat : n <= N => Rest(left[n], n)}
<1>5. 0 \in G
  <2>1. left[0] = Linked(L, P, r)
    BY <1>1, <1>4 DEF s
  <2>2. N + 0 <= N
    BY <1>1
  <2> HIDE DEF N
  <2> QED
    BY <2>1, <2>2 DEF N
<1>6. ASSUME NEW n \in G
      PROVE  n + 1 \in G
  <2> SUFFICES ASSUME n + 1 <= N
               PROVE  Rest(left[n + 1], n + 1)
    OBVIOUS
  <2>1. n \in Nat /\ n <= N /\ n + 1 \in 0 .. N /\ n + 1 # 0 /\ (n + 1) - 1 = n
    BY <1>1
  <2>2. left[n + 1] = CloseHead(left[n])
    BY <1>4, <2>1
  <2>3. PICK M, Q, q : /\ left[n] = Linked(M, Q, q) /\ Balanced(M, Q, q)
                       /\ Cardinality(M) + n <= N \/ M = {}
    BY <2>1
  <2>4. M \in SUBSET active /\ Linked(M, Q, q).head = FirstOf(M)
    BY <2>3, LinkedFields DEF Balanced
  <2>5. CASE M = {}
    <3>1. left[n + 1] = Linked(M, Q, q)
      BY <2>2, <2>3, <2>4, <2>5, HeadOf DEF CloseHead
    <3> QED
      BY <2>3, <2>5, <3>1
  <2>6. CASE M # {}
    <3> DEFINE c == FirstOf(M)
    <3>1. c \in M /\ c # None
      BY <2>4, <2>6, HeadOf
    <3>2. left[n + 1] = CloseConn(Linked(M, Q, q), c)
      BY <2>2, <2>3, <2>4, <3>1 DEF CloseHead
    <3> HIDE DEF c
    <3>3. PICK O, U, u : /\ CloseConn(Linked(M, Q, q), c) = Linked(O, U, u)
                         /\ Balanced(O, U, u) /\ O \subseteq M \ {c}
      BY <2>3, <3>1, CloseCounts
    <3>4. /\ Cardinality(O) \in Nat /\ Cardinality(M) \in Nat
          /\ Cardinality(O) <= Cardinality(M) - 1
      <4>1. IsFiniteSet(M)
        BY <2>4, FS_Subset DEF Chained, PoolAssumption, TypeOK
      <4>2. IsFiniteSet(M \ {c}) /\ Cardinality(M \ {c}) = Cardinality(M) - 1
        BY <3>1, <4>1, FS_RemoveElement
      <4>3. Cardinality(O) <= Cardinality(M \ {c}) /\ IsFiniteSet(O)
        BY <3>3, <4>2, FS_Subset
      <4> QED
        BY <4>1, <4>2, <4>3, FS_CardinalityType
    <3>5. Cardinality(O) + (n + 1) <= N
      BY <1>1, <2>1, <2>3, <2>6, <3>4
    <3> QED
      BY <3>2, <3>3, <3>5
  <2> QED
    BY <2>5, <2>6
<1>7. N \in G
  <2>1. G \in SUBSET Nat
    OBVIOUS
  <2> HIDE DEF G
  <2> QED
    BY <1>1, <1>5, <1>6, <2>1, SetInduction
<1>8. PICK M, Q, q : /\ left[N] = Linked(M, Q, q) /\ Balanced(M, Q, q)
                     /\ Cardinality(M) + N <= N \/ M = {}
  BY <1>1, <1>7
<1>9. M = {}
  <2>1. IsFiniteSet(M) /\ Cardinality(M) \in Nat
    BY <1>8, FS_Subset, FS_CardinalityType DEF Chained, PoolAssumption, TypeOK, Balanced
  <2>2. M # {} => Cardinality(M) = 0
    BY <1>1, <1>8, <2>1
  <2> QED
    BY <2>1, <2>2, FS_EmptySet
<1>10. Q = [c \in Conns |-> FALSE] /\ On(Q) = {}
  BY <1>8, <1>9 DEF Balanced, On, Productions
<1>11. q = 0
  <2>1. q = Cardinality({}) + Cardinality({})
    BY <1>8, <1>9, <1>10 DEF Balanced
  <2> QED
    BY <2>1, FS_EmptySet
<1> QED
  BY <1>2, <1>8, <1>9, <1>10, <1>11 DEF s

\* CloseAllConnections() leaves nobody on the list and no socket.
LEMMA ShutdownReaches ==
    ASSUME Ready, CloseAllConnections
    PROVE  Reached(CloseHeads(Here))
<1>1. /\ Chained /\ Unlinked /\ TypeOK /\ producing \in Productions /\ refs \in Int
      /\ Cardinality(active) \in Nat /\ ConsumersIn(active) = active
  BY ReadyFacts
<1>2. Here = Linked(active, producing, refs)
  BY <1>1, HereIs
<1>3. On(producing) = ProducersIn(active) /\ ProducersIn(Conns) = On(producing)
      /\ ConsumersIn(Conns) = active
  BY <1>1 DEF On, ProducersIn, ConsumersIn, Ready, IInv, SocketsHeld, TypeOK
<1>4. refs = Cardinality(active) + Cardinality(On(producing))
  BY <1>3 DEF Ready, IInv, SocketsBalanced
<1>5. Balanced(active, producing, refs)
  BY <1>1, <1>3, <1>4 DEF Balanced, ProducersIn
<1>6. CloseHeads(Here) = Linked({}, [c \in Conns |-> FALSE], 0)
  BY <1>1, <1>2, <1>5, CloseHeadsOf
<1>7. Shut(active)
  BY DEF CloseAllConnections
<1>8. Here' = Linked({}, producing', refs')
  <2>1. Here' = Linked(active \ active, producing', refs')
    BY <1>1, <1>7, HereAfter DEF Shut
  <2>2. active \ active = {}
    OBVIOUS
  <2> QED
    BY <2>1, <2>2
<1>9. producing' = [c \in Conns |-> FALSE]
  BY <1>7 DEF Shut, Ready, IInv, SocketsHeld
<1>10. refs' = 0
  <2>1. Cardinality(On(producing)) \in Nat
    BY <1>1, HoldersFinite, <1>3 DEF Chained
  <2>2. refs' = refs - (Cardinality(active) + Cardinality(On(producing)))
    BY <1>1, <1>3, <1>7 DEF Shut
  <2> QED
    BY <1>1, <1>4, <2>1, <2>2
<1> QED
  BY <1>6, <1>8, <1>9, <1>10 DEF Reached

----------------------------------------------------------------------------
(* The loop for input only connections, which only the timeout of a          *)
(* multicast exclusive owner e starts.  As e itself is there to take the     *)
(* production over, no Close() in the loop starts another one.               *)

Sharers(i) == ForInputWithType(i, "InputOnly")

\* Once those of X have closed: who has the production that was m's, who
\* produces, what is left of the count, and the stack.
NewMaster(i, m, X) == IF m \notin X THEN m ELSE FirstOf(Controllers(i) \ X)
Passed(i, m, X) == [d \in Conns |-> d = NewMaster(i, m, X) \/ (producing[d] /\ d \notin X)]
Spent(m, X) == Cardinality(X) + Cardinality(ProducersIn(X \ {m}))
Without(i, m, X) == Linked(active \ X, Passed(i, m, X), refs - Spent(m, X))

\* What the timeout of e knows.
Owned(e, m) ==
    /\ Ready /\ e \in active /\ Kind[e] = "ExclusiveOwner" /\ ptype[e] = "Multicast"
    /\ m \in Controllers(InputOf[e]) /\ Masters(InputOf[e]) = {m}

\* The input of a multicast exclusive owner has one master.
LEMMA MasterOf ==
    ASSUME Ready, NEW e \in active, Kind[e] = "ExclusiveOwner", ptype[e] = "Multicast"
    PROVE  \E m \in Controllers(InputOf[e]) : Owned(e, m)
<1>1. e \in Controllers(InputOf[e]) /\ e \in Conns
  BY DEF Controllers, Ready, IInv, TypeOK
<1>2. \E m \in Controllers(InputOf[e]) : Masters(InputOf[e]) = {m}
  BY <1>1 DEF Ready, IInv, OneControlMaster
<1> QED
  BY <1>2 DEF Owned

\* What holds in the middle of the loop.
MidLoop(e, m, X) ==
    LET i == InputOf[e]
        C == Controllers(i)
        n == NewMaster(i, m, X)
        P == Passed(i, m, X)
    IN  /\ X \in SUBSET active /\ active \ X \in SUBSET active
        /\ n \in C \ X /\ n \in Conns /\ e \in C \ X
        /\ P \in Productions /\ P \in [Conns -> BOOLEAN]
        /\ \A d \in C \ X : P[d] <=> d = n
        /\ \A d \in C : producing[d] <=> d = m
        /\ \A d \in Conns : P[d] <=> d = n \/ (producing[d] /\ d \notin X)
        /\ m \in X => n = FirstOf(C \ X)
        /\ Spent(m, X) \in Nat /\ Cardinality(X) \in Nat /\ IsFiniteSet(X)
        /\ IsFiniteSet(ProducersIn(X \ {m})) /\ Cardinality(ProducersIn(X \ {m})) \in Nat

\* Once some of the sharers have closed: e is left, one of those left produces,
\* and the count is what they hold.
LEMMA PassedFacts ==
    ASSUME NEW e, NEW m, Owned(e, m), NEW X \in SUBSET Sharers(InputOf[e])
    PROVE  MidLoop(e, m, X)
<1> DEFINE i == InputOf[e]
           C == Controllers(i)
           n == NewMaster(i, m, X)
           P == Passed(i, m, X)
<1>1. /\ Ready /\ e \in active /\ Kind[e] = "ExclusiveOwner" /\ ptype[e] = "Multicast"
      /\ m \in C /\ Masters(i) = {m}
  BY DEF Owned
<1>2. /\ Chained /\ TypeOK /\ producing \in Productions /\ refs \in Int
      /\ \A S \in SUBSET active : IsFiniteSet(S) /\ Cardinality(S) \in Nat
  BY <1>1, ReadyFacts
<1>3. X \in SUBSET active /\ \A d \in X : Kind[d] = "InputOnly"
  BY DEF Sharers, ForInputWithType
<1>4. e \in C \ X
  BY <1>1, <1>3 DEF Controllers
<1>5. C \subseteq active /\ C \subseteq Conns /\ \A d \in C : Kind[d] # "ListenOnly"
  BY <1>2 DEF Controllers, TypeOK
<1>6. \A d \in C : producing[d] <=> d = m
  BY <1>1 DEF Masters
<1>7. m \in X => n = FirstOf(C \ X)
  BY DEF NewMaster
<1>8. n \in C \ X
  <2>1. CASE m \notin X
    BY <1>1, <2>1 DEF NewMaster
  <2>2. CASE m \in X
    <3>1. C \ X \in SUBSET active
      BY <1>5
    <3> QED
      BY <1>2, <1>4, <1>7, <2>2, <3>1, FirstFound
  <2> QED
    BY <2>1, <2>2
<1>9. \A d \in Conns : P[d] <=> d = n \/ (producing[d] /\ d \notin X)
  BY DEF Passed
<1>10. P \in [Conns -> BOOLEAN]
  BY <1>2 DEF Passed, Productions
<1>15. m \notin X => n = m
  BY DEF NewMaster
<1> HIDE DEF n, P, C
<1>11. P \in Productions
  BY <1>2, <1>5, <1>8, <1>9, <1>10 DEF Productions
<1>12. \A d \in C \ X : P[d] <=> d = n
  BY <1>5, <1>6, <1>9, <1>15
<1>13. IsFiniteSet(ProducersIn(X \ {m})) /\ Cardinality(ProducersIn(X \ {m})) \in Nat
  <2>1. ProducersIn(X \ {m}) \in SUBSET active
    BY <1>3 DEF ProducersIn
  <2> QED
    BY <1>2, <2>1
<1>14. IsFiniteSet(X) /\ Cardinality(X) \in Nat /\ Spent(m, X) \in Nat
  BY <1>2, <1>3, <1>13 DEF Spent
<1> QED
  BY <1>3, <1>4, <1>5, <1>6, <1>7, <1>8, <1>9, <1>10, <1>11, <1>12, <1>13, <1>14
  DEF n, P, C, MidLoop

\* Close() of one more sharer.  The timed out owner is still on the list, so that
\* there is always an heir and no loop for the listeners starts.
LEMMA SharerCloses ==
    ASSUME NEW e, NEW m, Owned(e, m), NEW X \in SUBSET Sharers(InputOf[e]),
           NEW c \in Sharers(InputOf[e]) \ X
    PROVE  CloseConn(Without(InputOf[e], m, X), c) = Without(InputOf[e], m, X \cup {c})
<1> DEFINE i == InputOf[e]
           C == Controllers(i)
           L == active \ X
           Y == X \cup {c}
           n == NewMaster(i, m, X)
           o == NewMaster(i, m, Y)
           P == Passed(i, m, X)
           Q == Passed(i, m, Y)
           r == refs - Spent(m, X)
           F == Free(L, P, i)
<1>1. /\ Ready /\ m \in C /\ Masters(i) = {m}
      /\ Chained /\ TypeOK /\ refs \in Int
  BY ReadyFacts DEF Owned
<1>20. MidLoop(e, m, X)
  BY PassedFacts
<1>2. /\ X \in SUBSET active /\ L \in SUBSET active
      /\ n \in C \ X /\ n \in Conns
      /\ P \in Productions /\ P \in [Conns -> BOOLEAN]
      /\ \A d \in C \ X : P[d] <=> d = n
      /\ \A d \in C : producing[d] <=> d = m
      /\ \A d \in Conns : P[d] <=> d = n \/ (producing[d] /\ d \notin X)
      /\ m \in X => n = FirstOf(C \ X)
      /\ Spent(m, X) \in Nat /\ Cardinality(X) \in Nat /\ IsFiniteSet(X)
      /\ IsFiniteSet(ProducersIn(X \ {m})) /\ Cardinality(ProducersIn(X \ {m})) \in Nat
  BY <1>20 DEF MidLoop
<1>3. Y \in SUBSET Sharers(i)
  OBVIOUS
<1>21. MidLoop(e, m, Y)
  BY <1>3, PassedFacts
<1>4. /\ Q \in [Conns -> BOOLEAN] /\ o \in C \ Y /\ e \in C \ Y
      /\ \A d \in Conns : Q[d] <=> d = o \/ (producing[d] /\ d \notin Y)
      /\ m \in Y => o = FirstOf(C \ Y)
  BY <1>21 DEF MidLoop
<1>5. c \in Conns /\ c \in L /\ c \notin X /\ InputOf[c] = i
  BY <1>1 DEF Sharers, ForInputWithType, TypeOK
<1>6. C \subseteq active /\ C \subseteq Conns
  BY <1>1 DEF Controllers, TypeOK
<1>7. Cardinality(Y) = Cardinality(X) + 1
  BY <1>2, <1>5, FS_AddElement
<1>8. r \in Int
  BY <1>1, <1>2
<1>9. m \notin X => n = m
  BY DEF NewMaster
<1>10. m \notin Y => o = m
  BY DEF NewMaster
<1>11. L \ {c} = active \ Y
  OBVIOUS
<1>12. Free(L, P, InputOf[c]) = F /\ (c \in Controllers(InputOf[c]) <=> c \in C)
  BY <1>5
<1> HIDE DEF n, o, P, Q, L, r, F, C
<1>22. Chained /\ L \in SUBSET active /\ c \in L /\ P \in Productions /\ r \in Int
  BY <1>1, <1>2, <1>5, <1>8
<1>13. CASE c \in C /\ P[c]
  <2>1. c = n
    BY <1>2, <1>5, <1>13
  <2>2. F = C \ Y
    BY <1>2, <1>5, <1>6, <2>1 DEF F, Free, L, C
  <2>9. F # {} /\ P[c] /\ c \in Controllers(InputOf[c])
    BY <1>4, <1>12, <1>13, <2>2
  <2>10. CloseConn(Linked(L, P, r), c)
           = Linked(L \ {c}, Pass(P, c, FirstOf(Free(L, P, InputOf[c]))), r - 1)
    BY ONLY <1>12, <1>22, <2>9, CloseToHeir
  <2>3. CloseConn(Linked(L, P, r), c) = Linked(L \ {c}, Pass(P, c, FirstOf(F)), r - 1)
    BY ONLY <1>12, <2>10
  <2>4. m \in Y
    BY <1>9, <2>1
  <2>5. FirstOf(F) = o
    BY <1>4, <2>2, <2>4
  <2>6. Pass(P, c, o) = Q
    <3>1. \A d \in Conns : Pass(P, c, o)[d] = Q[d]
      BY <1>2, <1>4, <1>5, <1>6, <2>1 DEF Pass, Stop
    <3>2. Pass(P, c, o) \in [Conns -> BOOLEAN]
      BY <1>2 DEF Pass, Stop
    <3> QED
      BY <1>4, <3>1, <3>2
  <2>7. ProducersIn(Y \ {m}) = ProducersIn(X \ {m})
    <3>1. producing[c] => c = m
      BY <1>2, <1>13
    <3> QED
      BY <3>1 DEF ProducersIn
  <2>8. r - 1 = refs - Spent(m, Y)
    BY <1>1, <1>2, <1>7, <2>7 DEF Spent, r
  <2> QED
    BY <1>11, <2>3, <2>5, <2>6, <2>8 DEF Without, L, P, Q, r
<1>14. CASE ~(c \in C /\ P[c])
  <2> DEFINE x == IF P[c] THEN 1 ELSE 0
  <2>1. CloseConn(Linked(L, P, r), c) = Linked(L \ {c}, Stop(P, c), r - (1 + x))
    <3>1. c \in Controllers(InputOf[c]) => ~P[c]
      BY <1>12, <1>14
    <3> QED
      BY ONLY <1>22, <3>1, CloseOthers
  <2>2. c # n
    BY <1>2, <1>14
  <2>3. o = n
    <3>1. CASE m \notin X
      BY <1>9, <1>10, <2>2, <3>1
    <3>2. CASE m \in X
      <4> DEFINE S == C \ X
      <4>1. S \in SUBSET active /\ FirstOf(S) # c /\ S \ {c} = C \ Y
        BY <1>2, <1>6, <2>2, <3>2
      <4> HIDE DEF S
      <4>2. FirstOf(S \ {c}) = FirstOf(S)
        BY <1>1, <4>1, FirstWithout
      <4> QED
        BY <1>2, <1>4, <3>2, <4>1, <4>2 DEF S
    <3> QED
      BY <3>1, <3>2
  <2>4. Stop(P, c) = Q
    <3>1. \A d \in Conns : Stop(P, c)[d] = Q[d]
      BY <1>2, <1>4, <1>5, <2>2, <2>3 DEF Stop
    <3>2. Stop(P, c) \in [Conns -> BOOLEAN]
      BY <1>2 DEF Stop
    <3> QED
      BY <1>4, <3>1, <3>2
  <2>5. c # m /\ (P[c] <=> producing[c])
    BY <1>2, <1>5, <1>9, <2>2
  <2>6. Cardinality(ProducersIn(Y \ {m})) = Cardinality(ProducersIn(X \ {m})) + x
    <3>1. CASE P[c]
      <4>1. ProducersIn(Y \ {m}) = ProducersIn(X \ {m}) \cup {c} /\ c \notin ProducersIn(X \ {m})
        BY <1>5, <2>5, <3>1 DEF ProducersIn
      <4> QED
        BY <1>2, <3>1, <4>1, FS_AddElement
    <3>2. CASE ~P[c]
      <4>1. ProducersIn(Y \ {m}) = ProducersIn(X \ {m})
        BY <2>5, <3>2 DEF ProducersIn
      <4> QED
        BY <1>2, <3>2, <4>1
    <3> QED
      BY <3>1, <3>2
  <2>7. x \in Nat
    OBVIOUS
  <2> HIDE DEF x
  <2>8. r - (1 + x) = refs - Spent(m, Y)
    BY <1>1, <1>2, <1>7, <2>6, <2>7 DEF Spent, r
  <2> QED
    BY <1>11, <2>1, <2>4, <2>8 DEF Without, L, P, Q, r
<1> QED
  BY <1>13, <1>14

\* A turn closes the sharer that it stands on, if it is one of the input.
LEMMA SharerTurnOf ==
    ASSUME NEW e, NEW m, Owned(e, m), NEW a \in active \cup {None}
    PROVE  LET i == InputOf[e]
               Gone(x) == Sharers(i) \ From(active, x)
               At(x) == [stack |-> Without(i, m, Gone(x)), at |-> x]
           IN  SharerTurn(At(a), i) = At(NextOf(active, a))
<1> DEFINE i == InputOf[e]
           K == Sharers(i)
           Gone(x) == K \ From(active, x)
           At(x) == [stack |-> Without(i, m, Gone(x)), at |-> x]
<1>1. CASE a = None
  BY <1>1 DEF SharerTurn, NextOf
<1>2. CASE a \in active
  <2> DEFINE b == NextOf(active, a)
             D == Gone(a)
             M == active \ D
             s == Without(i, m, D)
             t == At(a)
             closed == IF Kind[a] = "InputOnly" /\ InputOf[a] = i THEN CloseConn(s, a) ELSE s
  <2>0. Chained
    BY ReadyFacts DEF Owned
  <2>1. /\ a # None /\ a \in From(active, a) /\ From(active, a) \subseteq active
        /\ From(active, b) = From(active, a) \ {a}
    BY <1>2, <2>0, FromNext
  <2>2. a \in Conns /\ a \in M /\ M \in SUBSET active /\ D \in SUBSET K
    BY <1>2, <2>0, <2>1 DEF Chained, TypeOK
  <2>3. a \in K <=> Kind[a] = "InputOnly" /\ InputOf[a] = i
    BY <1>2 DEF Sharers, ForInputWithType
  <2>4. behind[a] \cap M = behind[a] \cap active
    BY <2>1 DEF From
  <2>5. Gone(b) = D \cup (K \cap {a}) /\ a \notin D
    BY <2>1
  <2>7. t.stack = s /\ t.at = a
    OBVIOUS
  <2>8. s.next[a] = b
    <3> HIDE DEF M
    <3>1. s.next[a] = FirstOf(behind[a] \cap M)
      <4> HIDE DEF D
      <4> QED BY <2>2, LinkedFields DEF Without, M
    <3> QED
      BY <2>1, <2>4, <3>1 DEF NextOf
  <2>9. SharerTurn(t, i) = [stack |-> closed, at |-> b]
    <3> HIDE DEF t, s, b
    <3> QED
      BY <2>1, <2>7, <2>8 DEF SharerTurn, Onward, StepOn
  <2> HIDE DEF Gone, D, b
  <2>10. closed = Without(i, m, Gone(b))
    <3>1. CASE a \in K
      <4>1. CloseConn(s, a) = Without(i, m, D \cup {a})
        BY <2>2, <2>5, <3>1, SharerCloses
      <4>2. Gone(b) = D \cup {a}
        BY <2>5, <3>1
      <4> QED
        BY <2>3, <3>1, <4>1, <4>2
    <3>2. CASE a \notin K
      BY <2>3, <2>5, <3>2
    <3> QED
      BY <3>1, <3>2
  <2>11. [stack |-> closed, at |-> b] = At(b)
    BY <2>10
  <2> HIDE DEF At, closed, t
  <2>12. SharerTurn(t, i) = At(b)
    BY <2>9, <2>11
  <2> QED
    BY ONLY <2>12 DEF t, b, At, Gone, K, i
<1> QED
  BY <1>1, <1>2

\* The loop for input only connections closes all of them.
LEMMA CloseSharersOf ==
    ASSUME NEW e, NEW m, Owned(e, m)
    PROVE  CloseSharers(Here, InputOf[e]) = Without(InputOf[e], m, Sharers(InputOf[e]))
<1> DEFINE i == InputOf[e]
           K == Sharers(i)
           Gone(x) == K \ From(active, x)
           At(x) == [stack |-> Without(i, m, Gone(x)), at |-> x]
           s == Here
           N == Cardinality(active)
           Body(f) == [n \in 0 .. N |-> IF n = 0 THEN Begin(s) ELSE SharerTurn(f[n - 1], i)]
           turn == CHOOSE f : f = Body(f)
<1>0. Chained /\ Unlinked /\ TypeOK /\ producing \in Productions /\ refs \in Int /\ N \in Nat
  BY ReadyFacts DEF Owned
<1>1. s = Linked(active, producing, refs) /\ s.listed = active /\ s.head = FirstOf(active)
  BY <1>0, HereIs, LinkedFields
<1>2. CloseSharers(s, i) = turn[N].stack
  BY <1>1 DEF CloseSharers
<1>3. \A a \in active \cup {None} : SharerTurn(At(a), i) = At(NextOf(active, a))
  BY SharerTurnOf
<1>4. Begin(s) = At(FirstOf(active))
  <2>1. Gone(FirstOf(active)) = {} /\ active \ {} = active
    BY <1>0, FromNext DEF Sharers, ForInputWithType
  <2>2. Spent(m, {}) = 0
    <3>1. ProducersIn({} \ {m}) = {}
      BY DEF ProducersIn
    <3> QED
      BY <3>1, FS_EmptySet DEF Spent
  <2>3. Passed(i, m, {}) = producing
    <3>1. producing[m] /\ m \in Conns
      BY <1>0 DEF Owned, Masters, Controllers, TypeOK
    <3>2. \A d \in Conns : Passed(i, m, {})[d] = producing[d]
      BY <1>0, <3>1 DEF Passed, NewMaster, TypeOK
    <3>3. Passed(i, m, {}) \in [Conns -> BOOLEAN] /\ producing \in [Conns -> BOOLEAN]
      BY <1>0 DEF Passed, TypeOK
    <3> QED
      BY <3>2, <3>3
  <2>4. Without(i, m, {}) = s
    BY <1>0, <1>1, <2>1, <2>2, <2>3 DEF Without
  <2> HIDE DEF Gone, s
  <2> QED
    BY <1>1, <2>1, <2>4 DEF Begin
<1> HIDE DEF N, s, At
<1>5. PICK a \in [0 .. N -> active \cup {None}] :
              /\ a[0] = FirstOf(active)
              /\ \A n \in 1 .. N : a[n] = NextOf(active, a[n - 1])
              /\ a[N] = None
  BY <1>0, Walk DEF N
<1> DEFINE g == [n \in 0 .. N |-> At(a[n])]
<1>6. \A n \in 0 .. N : g[n] = IF n = 0 THEN Begin(s) ELSE SharerTurn(g[n - 1], i)
  <2> TAKE n \in 0 .. N
  <2>1. CASE n = 0
    BY <1>4, <1>5, <2>1
  <2>2. CASE n # 0
    <3>1. n \in 1 .. N /\ n - 1 \in 0 .. N
      BY <1>0, <2>2
    <3>2. a[n - 1] \in active \cup {None} /\ a[n] = NextOf(active, a[n - 1])
      BY <1>5, <3>1
    <3>3. g[n] = At(a[n]) /\ g[n - 1] = At(a[n - 1])
      BY <3>1
    <3> QED
      BY <1>3, <2>2, <3>2, <3>3
  <2> QED
    BY <2>1, <2>2
<1>7. g = Body(g)
  <2>1. g = [n \in 0 .. N |-> g[n]]
    OBVIOUS
  <2> HIDE DEF g
  <2> QED
    BY <1>6, <2>1
<1>8. turn = Body(turn)
  <2> HIDE DEF Body, g
  <2> QED
    BY <1>7
<1>9. turn[N] = g[N]
  <2> HIDE DEF turn, g
  <2>1. \A n \in 0 .. N : turn[n] = IF n = 0 THEN Begin(s) ELSE SharerTurn(turn[n - 1], i)
    BY <1>8
  <2>2. turn[0] = g[0]
    BY <1>0, <1>6, <2>1
  <2>3. \A n \in 1 .. N : turn[n - 1] = g[n - 1] => turn[n] = g[n]
    BY <1>0, <1>6, <2>1
  <2> HIDE DEF Body
  <2> QED
    BY <1>0, <2>2, <2>3, SameByStep
<1>10. turn[N].stack = Without(i, m, Gone(None))
  <2>1. g[N] = At(None)
    BY <1>0, <1>5
  <2> HIDE DEF turn, g
  <2> QED
    BY <1>9, <2>1 DEF At
<1>11. Gone(None) = K
  BY DEF From
<1> QED
  BY <1>2, <1>10, <1>11 DEF s

\* The timeout of a multicast exclusive owner.
LEMMA OwnerTimeOutReaches ==
    ASSUME NEW e, NEW m, Owned(e, m), OwnerTimeOut(e)
    PROVE  Reached(TimeOutConn(Here, e))
<1> DEFINE i == InputOf[e]
           C == Controllers(i)
           K == Sharers(i)
           H == Listeners(i)
           S == {e} \cup K \cup H
           heirs == C \ S
           n == NewMaster(i, m, K)
           P == Passed(i, m, K)
           M == active \ K
           L == M \ H
           p == Cardinality(ProducersIn(K \ {m}))
           q == refs - Spent(m, K)
           r == q - Cardinality(M \cap H)
           F == Free(L, P, i)
<1>1. /\ Chained /\ Unlinked /\ TypeOK /\ producing \in Productions /\ refs \in Int
      /\ e \in active /\ e \in Conns /\ Kind[e] = "ExclusiveOwner" /\ ptype[e] = "Multicast"
      /\ m \in C /\ Masters(i) = {m}
      /\ \A T \in SUBSET active : IsFiniteSet(T) /\ Cardinality(T) \in Nat /\ ConsumersIn(T) = T
  BY ReadyFacts DEF Owned, TypeOK
<1>2. MidLoop(e, m, K)
  BY PassedFacts
<1>3. /\ M \in SUBSET active /\ n \in C \ K
      /\ P \in Productions /\ P \in [Conns -> BOOLEAN]
      /\ \A d \in C \ K : P[d] <=> d = n
      /\ \A d \in C : producing[d] <=> d = m
      /\ \A d \in Conns : P[d] <=> d = n \/ (producing[d] /\ d \notin K)
      /\ m \in K => n = FirstOf(C \ K)
      /\ p \in Nat
  BY <1>2 DEF MidLoop
<1>4. m \notin K => n = m
  BY DEF NewMaster
<1>5. /\ C \subseteq active /\ e \in C /\ i = InputOf[e]
      /\ H \subseteq active /\ K \subseteq active
      /\ H \cap K = {} /\ H \cap C = {} /\ e \notin H /\ e \notin K
      /\ \A d \in H : ~producing[d]
  <2>1. \A d \in H : Kind[d] = "ListenOnly" /\ d \in active /\ d \in Conns
    BY <1>1 DEF Listeners, ForInputWithType, TypeOK
  <2>2. \A d \in K : Kind[d] = "InputOnly" /\ d \in active
    BY DEF Sharers, ForInputWithType
  <2>3. \A d \in C : Kind[d] # "ListenOnly" /\ d \in active
    BY DEF Controllers
  <2>4. e \in C
    BY <1>1 DEF Controllers
  <2> HIDE DEF C, K, H
  <2> QED
    BY <1>1, <2>1, <2>2, <2>3, <2>4 DEF Productions
<1>6. CloseListeners(CloseSharers(Here, i), i) = Linked(L, P, r)
  <2>1. CloseSharers(Here, i) = Linked(M, P, q)
    BY CloseSharersOf DEF Without
  <2>2. q \in Int
    BY <1>1, <1>2 DEF MidLoop
  <2>3. \A c \in Conns : Kind[c] = "ListenOnly" => ~P[c]
    BY <1>3 DEF Productions
  <2> HIDE DEF M, P, q
  <2> QED
    BY <1>1, <1>3, <2>1, <2>2, <2>3, CloseListenersOf
<1>7. TimeOutConn(Here, e) = CloseConn(Linked(L, P, r), e)
  BY <1>1, <1>6 DEF TimeOutConn
<1>8. /\ L \in SUBSET active /\ e \in L /\ L \ {e} = active \ S
      /\ M \cap H = H /\ S \in SUBSET active /\ L \cap H = {}
      /\ e \in Controllers(InputOf[e]) /\ L \ ({e} \cup H) = active \ S
  BY <1>1, <1>5
<1>9. F = {d \in heirs \cup {e} : ~P[d]}
  <2>1. C \cap L = heirs \cup {e}
    BY <1>5
  <2> HIDE DEF C, L, heirs
  <2> QED
    BY <2>1 DEF Free, C
<1>10. /\ Cardinality(S) = Cardinality(K) + Cardinality(H) + 1
       /\ Cardinality(K) \in Nat /\ Cardinality(H) \in Nat
  <2> HIDE DEF K, H
  <2>1. /\ IsFiniteSet(K) /\ IsFiniteSet(H) /\ Cardinality(K) \in Nat /\ Cardinality(H) \in Nat
    BY <1>1, <1>5
  <2>2. Cardinality(K \cup H) = Cardinality(K) + Cardinality(H) - Cardinality(K \cap H)
    BY <2>1, FS_Union
  <2>3. K \cap H = {} /\ e \notin K \cup H /\ S = (K \cup H) \cup {e}
    BY <1>5
  <2>4. Cardinality(K \cap H) = 0
    BY <2>3, FS_EmptySet
  <2>5. IsFiniteSet(K \cup H)
    BY <1>1, <1>5
  <2>6. Cardinality((K \cup H) \cup {e}) = Cardinality(K \cup H) + 1
    BY <2>3, <2>5, FS_AddElement
  <2> HIDE DEF S
  <2> QED
    BY <2>1, <2>2, <2>3, <2>4, <2>6
<1>11. r = refs - (Cardinality(K) + p + Cardinality(H)) /\ r \in Int
  <2>1. M \cap H = H /\ Spent(m, K) = Cardinality(K) + p
    BY <1>8 DEF Spent
  <2>2. refs \in Int /\ p \in Nat /\ Cardinality(K) \in Nat /\ Cardinality(H) \in Nat
    BY <1>1, <1>3, <1>10
  <2>3. Cardinality(M \cap H) = Cardinality(H)
    BY <2>1
  <2> HIDE DEF M, H, K, p
  <2> QED
    BY ONLY <2>1, <2>2, <2>3
<1>12. /\ ProducersIn(S \ {m}) = ProducersIn(K \ {m})
       /\ m \in S => ProducersIn(S) = ProducersIn(K \ {m}) \cup {m}
       /\ m \notin S => ProducersIn(S) = ProducersIn(K \ {m})
  <2>1. producing[m] /\ (producing[e] <=> e = m)
    BY <1>1, <1>3, <1>5
  <2> HIDE DEF K, H
  <2> QED
    BY <1>5, <2>1 DEF ProducersIn
<1>13. m \in S => Cardinality(ProducersIn(S)) = p + 1
  <2>1. IsFiniteSet(ProducersIn(K \ {m})) /\ m \notin ProducersIn(K \ {m})
    BY <1>2 DEF MidLoop, ProducersIn
  <2> QED
    BY <1>3, <1>12, <2>1, FS_AddElement
<1>14. m \in S <=> m = e \/ m \in K
  BY <1>1, <1>5
<1>15. ConsumersIn(S) = S
  BY <1>1, <1>8
<1> HIDE DEF C, K, H, S, n, P, M, L, p, q, r, heirs, F
<1>22. Chained /\ L \in SUBSET active /\ e \in L /\ P \in Productions /\ r \in Int
  BY <1>1, <1>3, <1>8, <1>11
<1>23. e \in Controllers(InputOf[e])
  BY <1>8
<1>16. ASSUME Shut(S)
       PROVE  /\ Here' = Linked(active \ S, producing', refs')
              /\ producing' = [d \in Conns |-> producing[d] /\ d \notin S]
              /\ refs' = refs - (Cardinality(S) + Cardinality(ProducersIn(S)))
  BY <1>1, <1>8, <1>15, <1>16, HereAfter DEF Shut
<1>17. ASSUME heirs # {}, HandOver(S, m, heirs)
       PROVE  /\ Here' = Linked(active \ S, producing', refs')
              /\ producing' = [d \in Conns |-> d = FirstOf(heirs) \/ (producing[d] /\ d \notin S)]
              /\ refs' = refs - (Cardinality(S) + p)
  <2>1. Here' = Linked(active \ S, producing', refs')
    BY <1>1, <1>8, <1>17, HereAfter DEF HandOver
  <2>2. PICK h \in heirs : /\ IsFirst(h, heirs)
                           /\ producing' = [d \in Conns |-> d = h \/ (producing[d] /\ d \notin S)]
    BY <1>17 DEF HandOver
  <2>3. h = FirstOf(heirs)
    <3>1. heirs \in SUBSET active
      BY <1>5 DEF heirs
    <3> QED
      BY <1>1, <2>2, <3>1, FirstFound DEF IsFirst
  <2>4. refs' = refs - (Cardinality(S) + p)
    BY <1>12, <1>15, <1>17 DEF HandOver, p
  <2> QED
    BY <2>1, <2>2, <2>3, <2>4
<1>18. \/ m \notin S /\ Shut(S)
       \/ heirs = {} /\ Shut(S)
       \/ heirs # {} /\ m \in S /\ HandOver(S, m, heirs)
  <2>1. S = {e} \cup ForInputWithType(i, "InputOnly") \cup ForInputWithType(i, "ListenOnly")
    BY DEF S, K, H, Sharers, Listeners
  <2>2. Masters(i) \cap S = IF m \in S THEN {m} ELSE {}
    BY <1>1
  <2> QED
    BY <2>1, <2>2 DEF OwnerTimeOut, heirs, C
<1>19. heirs = (C \ K) \ {e}
  BY <1>5 DEF heirs, S
<1>20. CASE P[e]
  <2>1. n = e /\ F = heirs
    BY <1>3, <1>5, <1>9, <1>19, <1>20
  <2>2. m \in S
    BY <1>4, <1>14, <2>1
  <2>3. CASE heirs # {}
    <3> DEFINE h == FirstOf(heirs)
    <3>1. HandOver(S, m, heirs)
      BY <1>18, <2>2, <2>3
    <3>2. CloseConn(Linked(L, P, r), e) = Linked(active \ S, Pass(P, e, h), r - 1)
      <4>1. Free(L, P, InputOf[e]) = heirs
        BY <2>1 DEF F
      <4>2. CloseConn(Linked(L, P, r), e)
              = Linked(L \ {e}, Pass(P, e, FirstOf(Free(L, P, InputOf[e]))), r - 1)
        BY ONLY <1>20, <1>22, <1>23, <2>3, <4>1, CloseToHeir
      <4> QED
        BY ONLY <1>8, <4>1, <4>2
    <3>3. producing' = [d \in Conns |-> d = h \/ (producing[d] /\ d \notin S)]
      BY <1>17, <2>3, <3>1
    <3>4. \A d \in Conns : producing'[d] = Pass(P, e, h)[d]
      <4> HIDE DEF h
      <4>1. \A d \in Conns : d \in H => ~producing[d]
        BY <1>5
      <4> QED
        BY <1>1, <1>3, <2>1, <3>3, <4>1 DEF Pass, Stop, S
    <3>5. producing' = Pass(P, e, h)
      <4>1. producing' \in [Conns -> BOOLEAN] /\ Pass(P, e, h) \in [Conns -> BOOLEAN]
        BY <1>1, <1>3, <3>3 DEF Pass, Stop, TypeOK
      <4> QED
        BY <3>4, <4>1
    <3>6. refs' = r - 1
      BY <1>1, <1>3, <1>10, <1>11, <1>17, <2>3, <3>1
    <3> QED
      BY <1>7, <1>17, <2>3, <3>1, <3>2, <3>5, <3>6 DEF Reached
  <2>4. CASE heirs = {}
    <3>1. Shut(S)
      BY <1>18, <2>2, <2>4
    <3>2. CloseConn(Linked(L, P, r), e) = Linked(active \ S, Stop(P, e), r - 2)
      <4>1. Free(L, P, InputOf[e]) = {}
        BY <2>1, <2>4 DEF F
      <4>2. CloseConn(Linked(L, P, r), e)
              = Linked(L \ ({e} \cup Listeners(InputOf[e])), Stop(P, e),
                       r - (Cardinality(L \cap Listeners(InputOf[e])) + 2))
        BY ONLY <1>20, <1>22, <1>23, <4>1, CloseWithoutHeir
      <4>3. Cardinality(L \cap H) = 0
        BY <1>8, FS_EmptySet
      <4>4. H = Listeners(InputOf[e])
        BY DEF H
      <4>5. r - (0 + 2) = r - 2
        BY <1>11
      <4> QED
        BY ONLY <1>8, <4>2, <4>3, <4>4, <4>5
    <3>3. \A d \in Conns : producing'[d] = Stop(P, e)[d]
      BY <1>1, <1>3, <1>5, <1>16, <2>1, <3>1 DEF Stop, S
    <3>4. producing' = Stop(P, e)
      <4>1. producing' \in [Conns -> BOOLEAN] /\ Stop(P, e) \in [Conns -> BOOLEAN]
        BY <1>1, <1>3, <1>16, <3>1 DEF Stop, TypeOK
      <4> QED
        BY <3>3, <4>1
    <3>5. refs' = r - 2
      BY <1>1, <1>3, <1>10, <1>11, <1>13, <1>16, <2>2, <3>1
    <3> QED
      BY <1>7, <1>16, <3>1, <3>2, <3>4, <3>5 DEF Reached
  <2> QED
    BY <2>3, <2>4
<1>21. CASE ~P[e]
  <2>1. n # e /\ n \in heirs
    BY <1>3, <1>5, <1>19, <1>21
  <2>2. CloseConn(Linked(L, P, r), e) = Linked(active \ S, Stop(P, e), r - 1)
    <3>1. CloseConn(Linked(L, P, r), e)
            = Linked(L \ {e}, Stop(P, e), r - (1 + (IF P[e] THEN 1 ELSE 0)))
      BY ONLY <1>21, <1>22, <1>23, CloseOthers
    <3>2. (IF P[e] THEN 1 ELSE 0) = 0 /\ r - (1 + 0) = r - 1
      BY <1>11, <1>21
    <3> QED
      BY ONLY <1>8, <3>1, <3>2
  <2>3. CASE m \in S
    <3>1. HandOver(S, m, heirs)
      BY <1>18, <2>1, <2>3
    <3>2. m # e
      BY <1>4, <1>5, <2>1
    <3>3. n = FirstOf(heirs)
      <4>1. n = FirstOf(C \ K) /\ C \ K \in SUBSET active
        BY <1>3, <1>5, <1>14, <2>3, <3>2
      <4>2. FirstOf((C \ K) \ {e}) = FirstOf(C \ K)
        BY <1>1, <2>1, <4>1, FirstWithout
      <4> QED
        BY <1>19, <4>1, <4>2
    <3>4. producing' = [d \in Conns |-> d = n \/ (producing[d] /\ d \notin S)]
      BY <1>17, <2>1, <3>1, <3>3
    <3>5. \A d \in Conns : producing'[d] = Stop(P, e)[d]
      BY <1>1, <1>3, <1>5, <2>1, <3>4 DEF Stop, S
    <3>6. producing' = Stop(P, e)
      <4>1. producing' \in [Conns -> BOOLEAN] /\ Stop(P, e) \in [Conns -> BOOLEAN]
        BY <1>1, <1>3, <3>4 DEF Stop, TypeOK
      <4> QED
        BY <3>5, <4>1
    <3>7. refs' = r - 1
      BY <1>1, <1>3, <1>10, <1>11, <1>17, <2>1, <3>1
    <3> QED
      BY <1>7, <1>17, <2>1, <2>2, <3>1, <3>6, <3>7 DEF Reached
  <2>4. CASE m \notin S
    <3>1. Shut(S)
      BY <1>18, <2>1, <2>4
    <3>2. n = m
      BY <1>4, <1>14, <2>4
    <3>3. \A d \in Conns : producing'[d] = Stop(P, e)[d]
      BY <1>1, <1>3, <1>5, <1>16, <2>1, <2>4, <3>1, <3>2 DEF Stop, S
    <3>4. producing' = Stop(P, e)
      <4>1. producing' \in [Conns -> BOOLEAN] /\ Stop(P, e) \in [Conns -> BOOLEAN]
        BY <1>1, <1>3, <1>16, <3>1 DEF Stop, TypeOK
      <4> QED
        BY <3>3, <4>1
    <3>5. refs' = r - 1
      BY <1>1, <1>3, <1>10, <1>11, <1>12, <1>16, <2>4, <3>1 DEF p
    <3> QED
      BY <1>7, <1>16, <2>2, <3>1, <3>4, <3>5 DEF Reached
  <2> QED
    BY <2>3, <2>4
<1> QED
  BY <1>20, <1>21

\* timeOut() of an input only master leaves the production and then closes; the
\* Close() would have left it in the same way.
LEMMA LeavingFirst ==
    ASSUME Ready, NEW c \in active, c \in Controllers(InputOf[c]), producing[c]
    PROVE  CloseConn(LeaveProduction(Here, c), c) = CloseConn(Here, c)
<1> DEFINE i == InputOf[c]
           P == producing
           F == Free(active, P, i)
           H == Listeners(i)
<1>1. /\ Chained /\ P \in Productions /\ refs \in Int /\ active \in SUBSET active
      /\ Here = Linked(active, P, refs) /\ c \in Conns
  BY ReadyFacts, HereIs DEF TypeOK
<1>2. CASE F # {}
  <2> DEFINE h == FirstOf(F)
             Q == Pass(P, c, h)
             e == IF Q[c] THEN 1 ELSE 0
  <2>1. F \in SUBSET active
    BY DEF Free
  <2>2. h \in F
    BY <1>1, <1>2, <2>1, FirstFound
  <2>3. h # c /\ h \in Conns /\ h \in Controllers(i)
    BY <1>1, <2>2 DEF Free, Controllers, Chained, TypeOK
  <2>4. Q \in Productions
    BY <1>1, <2>3, PassProducing DEF Chained
  <2>5. Q[c] = FALSE /\ Stop(Q, c) = Q /\ e = 0
    <3>1. P \in [Conns -> BOOLEAN]
      BY <1>1 DEF Productions
    <3> HIDE DEF h, P
    <3> QED
      BY <1>1, <2>3, <3>1 DEF Pass, Stop
  <2>6. LeaveProduction(Here, c) = Linked(active, Q, refs)
    <3>1. LeaveProduction(Linked(active, P, refs), c)
            = Linked(active, Pass(P, c, FirstOf(Free(active, P, InputOf[c]))), refs)
      BY ONLY <1>1, <1>2, LeaveToHeir, c \in active
    <3> QED
      BY <1>1, <3>1
  <2>7. CloseConn(Here, c) = Linked(active \ {c}, Q, refs - 1)
    <3>1. CloseConn(Linked(active, P, refs), c)
            = Linked(active \ {c}, Pass(P, c, FirstOf(Free(active, P, InputOf[c]))), refs - 1)
      BY ONLY <1>1, <1>2, CloseToHeir, c \in active, c \in Controllers(InputOf[c]), P[c]
    <3> QED
      BY <1>1, <3>1
  <2> HIDE DEF Q
  <2>8. CloseConn(Linked(active, Q, refs), c)
          = Linked(active \ {c}, Stop(Q, c), refs - (1 + (IF Q[c] THEN 1 ELSE 0)))
    BY ONLY <1>1, <2>4, <2>5, CloseOthers, c \in active
  <2> HIDE DEF e
  <2>9. CloseConn(Linked(active, Q, refs), c) = Linked(active \ {c}, Q, refs - 1)
    <3>1. CloseConn(Linked(active, Q, refs), c)
            = Linked(active \ {c}, Stop(Q, c), refs - (1 + e))
      BY <2>8 DEF e
    <3>2. refs - (1 + e) = refs - 1
      BY <1>1, <2>5
    <3> QED
      BY ONLY <2>5, <3>1, <3>2
  <2> QED
    BY <2>6, <2>7, <2>9
<1>3. CASE F = {}
  <2> DEFINE L == active \ H
             k == Cardinality(active \cap H)
             r == refs - k
  <2>1. /\ L \in SUBSET active /\ c \in L /\ L \cap H = {}
        /\ L \ ({c} \cup H) = active \ ({c} \cup H)
    BY DEF Controllers, Listeners, ForInputWithType
  <2>2. k \in Nat /\ r \in Int
    BY <1>1, ReadyFacts
  <2>3. LeaveProduction(Here, c) = Linked(L, P, r)
    <3>1. LeaveProduction(Linked(active, P, refs), c)
            = Linked(active \ Listeners(InputOf[c]), P,
                     refs - Cardinality(active \cap Listeners(InputOf[c])))
      BY ONLY <1>1, <1>3, LeaveWithoutHeir, c \in active
    <3> QED
      BY <1>1, <3>1
  <2>4. CloseConn(Here, c) = Linked(active \ ({c} \cup H), Stop(P, c), refs - (k + 2))
    <3>1. CloseConn(Linked(active, P, refs), c)
            = Linked(active \ ({c} \cup Listeners(InputOf[c])), Stop(P, c),
                     refs - (Cardinality(active \cap Listeners(InputOf[c])) + 2))
      BY ONLY <1>1, <1>3, CloseWithoutHeir, c \in active, c \in Controllers(InputOf[c]), P[c]
    <3> QED
      BY <1>1, <3>1
  <2>5. Free(L, P, InputOf[c]) = {}
    BY <1>3, <2>1 DEF Free
  <2>6. Cardinality(L \cap H) = 0
    BY <2>1, FS_EmptySet
  <2> HIDE DEF L, r
  <2>7. CloseConn(Linked(L, P, r), c)
          = Linked(L \ ({c} \cup Listeners(InputOf[c])), Stop(P, c),
                   r - (Cardinality(L \cap Listeners(InputOf[c])) + 2))
    BY ONLY <1>1, <2>1, <2>2, <2>5, CloseWithoutHeir, c \in Controllers(InputOf[c]), P[c]
  <2>8. r - (0 + 2) = refs - (k + 2)
    BY <1>1, <2>2 DEF r
  <2>9. CloseConn(Linked(L, P, r), c)
          = Linked(active \ ({c} \cup H), Stop(P, c), refs - (k + 2))
    BY ONLY <2>1, <2>6, <2>7, <2>8
  <2> QED
    BY <2>3, <2>4, <2>9
<1> QED
  BY <1>2, <1>3

\* CipConn::timeOut(), whatever the connection.
LEMMA TimeOutReaches ==
    ASSUME Ready, NEW c \in active, TimeOut(c)
    PROVE  Reached(TimeOutConn(Here, c))
<1>1. Here.producing = producing
  BY ReadyFacts, HereIs, LinkedFields
<1>2. CASE Kind[c] = "ExclusiveOwner" /\ ptype[c] = "Multicast"
  <2>1. OwnerTimeOut(c)
    BY <1>2 DEF TimeOut
  <2>2. PICK m \in Controllers(InputOf[c]) : Owned(c, m)
    BY <1>2, MasterOf
  <2> QED
    BY <2>1, <2>2, OwnerTimeOutReaches
<1>3. CASE ~(Kind[c] = "ExclusiveOwner" /\ ptype[c] = "Multicast")
  <2>1. Close(c)
    BY <1>3 DEF TimeOut
  <2>2. Reached(CloseConn(Here, c))
    BY <2>1, CloseReaches
  <2>3. CASE Kind[c] = "InputOnly" /\ ptype[c] = "Multicast" /\ producing[c]
    <3>1. TimeOutConn(Here, c) = CloseConn(LeaveProduction(Here, c), c)
      BY <1>1, <2>3 DEF TimeOutConn
    <3>2. c \in Controllers(InputOf[c])
      BY <2>3 DEF Controllers
    <3> QED
      BY <2>2, <2>3, <3>1, <3>2, LeavingFirst
  <2>4. CASE ~(Kind[c] = "InputOnly" /\ ptype[c] = "Multicast" /\ producing[c])
    <3>1. TimeOutConn(Here, c) = CloseConn(Here, c)
      BY <1>1, <1>3, <2>4 DEF TimeOutConn
    <3> QED
      BY <2>2, <3>1
  <2> QED
    BY <2>3, <2>4
<1> QED
  BY <1>2, <1>3

\* Who leaves the list loses its link.
LEMMA NextUnlinked ==
    ASSUME PoolAssumption, IInv, Unlinked, [Next]_vars
    PROVE  Unlinked'
<1>0. behind \in [Conns -> SUBSET Conns]
  BY DEF IInv, TypeOK
<1>1. ASSUME NEW c \in Conns, NEW t \in Triads,
             NEW p \in {"PointToPoint", "Multicast"}, NEW a \in Addrs,
             ForwardOpen(c, t, p, a)
      PROVE  Unlinked'
  <2>1. /\ active' = active \cup {c}
        /\ \A d \in Conns \ {c} : behind'[d] = behind[d]
    BY <1>0, <1>1 DEF ForwardOpen, Insert
  <2> QED
    BY <2>1 DEF Unlinked
<1>2. ASSUME NEW c \in Conns, NEW t \in Triads,
             NEW p \in {"PointToPoint", "Multicast"}, ForwardOpenFails(c, t, p)
      PROVE  Unlinked'
  BY <1>2 DEF ForwardOpenFails, Unlinked
<1>3. ASSUME Ending
      PROVE  Unlinked'
  <2>1. PICK S \in SUBSET active : Retire(S)
    BY <1>3, EndingRetires
  <2>2. /\ active' = active \ S
        /\ \A d \in Conns : behind'[d] = IF d \in S THEN {} ELSE behind[d] \ S
    BY <2>1 DEF Retire
  <2> QED
    BY <2>2 DEF Unlinked
<1>4. ASSUME UNCHANGED vars
      PROVE  Unlinked'
  BY <1>4 DEF vars, Unlinked
<1> QED
  BY <1>1, <1>2, <1>3, <1>4, ForwardCloseEnds, TimeOutEnds, CloseAllEnds DEF Next

LEMMA ReadyInvariance == Spec => []Ready
<1>1. Init => Unlinked
  BY DEF Init, Unlinked
<1>2. IInv /\ Unlinked /\ [Next]_vars => Unlinked'
  BY PoolAssumption, NextUnlinked
<1>3. Spec => []Unlinked
  BY <1>1, <1>2, Invariance, PTL DEF Spec
<1>4. IInv /\ ListOrder /\ Unlinked => Ready
  BY PoolAssumption, PointerAssumption DEF Ready
<1> QED
  BY <1>3, <1>4, Invariance, OrderInvariance, PTL

\* Whoever a Close(), a timeout or the shutdown removes from g_active_conns
\* while a loop stands on it, the loops of appcontype.cc and cipconnection.cc
\* end with exactly the connections closed, the sockets and the links that the
\* handler promises.
THEOREM LoopsReachAll == Spec => LoopsSkipNobody
<1>1. ASSUME Ready
      PROVE  LoopStep
  <2>1. ASSUME NEW c \in active \ active', TimeOut(c)
        PROVE  Reached(TimeOutConn(Here, c))
    BY <1>1, <2>1, TimeOutReaches
  <2>2. ASSUME NEW c \in active \ active', NEW t \in Triads, NEW a \in Addrs,
               ForwardClose(c, t, a)
        PROVE  Reached(CloseConn(Here, c))
    BY <1>1, <2>2, CloseReaches DEF ForwardClose
  <2>3. ASSUME CloseAllConnections
        PROVE  Reached(CloseHeads(Here))
    BY <1>1, <2>3, ShutdownReaches
  <2> QED
    BY <2>1, <2>2, <2>3 DEF LoopStep
<1>2. Ready => LoopStep
  BY <1>1
<1> QED
  BY <1>2, ReadyInvariance, PTL DEF LoopsSkipNobody
=============================================================================
