--------------------------- MODULE IoConnections ---------------------------
(***************************************************************************)
(* The I/O connections of a CIPster adapter: the reserved connection pools *)
(* (appcontype.cc), the list of active connections g_active_conns          *)
(* (CipConnBox, cipconnectionmanager.cc), and the life of a connection     *)
(* from forward_open to Close() or timeOut() (cipconnection.cc).           *)
(*                                                                         *)
(* The stack is single threaded: NetworkHandlerProcessOnce() calls one     *)
(* handler after the other, so each handler is one action and what is hard *)
(* is the order in which the originators' requests and the timeouts come.  *)
(*                                                                         *)
(* Several connections may produce the same input assembly to one          *)
(* multicast address.  Only one of them, the control master, holds the     *)
(* producing socket; the handlers below hand that socket from one          *)
(* connection to the next.  ListenOnly connections live only as long as    *)
(* some control master does.                                               *)
(***************************************************************************)
EXTENDS Naturals, FiniteSets

CONSTANTS
    Conns,      \* the CipConn objects in the three pools of appcontype.cc
    Kind,       \* the pool each of them belongs to
    OutputOf,   \* the output (consumed) assembly its pool entry expects
    InputOf,    \* the input (produced) assembly its pool entry expects
    ConfigOf,   \* the configuration assembly its pool entry expects
    Triads,     \* connection triads an originator may send
    Addrs,      \* IP addresses of the originators' TCP sessions
    None        \* no triad, no address

Kinds == {"ExclusiveOwner", "InputOnly", "ListenOnly"}

ASSUME PoolAssumption ==
    /\ IsFiniteSet(Conns)
    /\ Kind \in [Conns -> Kinds]
    /\ DOMAIN OutputOf = Conns
    /\ DOMAIN InputOf = Conns
    /\ DOMAIN ConfigOf = Conns
    /\ None \notin Triads
    /\ None \notin Addrs

VARIABLES
    state,      \* CipConn::state
    active,     \* the connections on g_active_conns, i.e. with on_list set
    behind,     \* for a listed connection, the ones that follow it on the list
    ptype,      \* producing_ncp.ConnectionType(), T->O
    consuming,  \* ConsumingUdp() is not NULL
    producing,  \* ProducingUdp() is not NULL
    triad,      \* the connection triad of the opening forward_open
    opener,     \* openers_address
    refs        \* sum of the m_ref_count's of the UdpSocketMgr sockets

vars == <<state, active, behind, ptype, consuming, producing, triad, opener,
          refs>>

States == {"NonExistent", "Configuring", "Established"}
ProducingTypes == {"Null", "PointToPoint", "Multicast"}

TypeOK ==
    /\ state \in [Conns -> States]
    /\ active \subseteq Conns
    /\ behind \in [Conns -> SUBSET Conns]
    /\ ptype \in [Conns -> ProducingTypes]
    /\ consuming \in [Conns -> BOOLEAN]
    /\ producing \in [Conns -> BOOLEAN]
    /\ triad \in [Conns -> Triads \cup {None}]
    /\ opener \in [Conns -> Addrs \cup {None}]
    /\ refs \in Nat

Init ==
    /\ state = [c \in Conns |-> "NonExistent"]
    /\ active = {}
    /\ behind = [c \in Conns |-> {}]
    /\ ptype = [c \in Conns |-> "Null"]
    /\ consuming = [c \in Conns |-> FALSE]
    /\ producing = [c \in Conns |-> FALSE]
    /\ triad = [c \in Conns |-> None]
    /\ opener = [c \in Conns |-> None]
    /\ refs = 0

----------------------------------------------------------------------------
(* Scans of g_active_conns.                                                *)

\* Connections that may control the multicast production of an input point.
Controllers(i) ==
    {c \in active : /\ Kind[c] \in {"ExclusiveOwner", "InputOnly"}
                    /\ InputOf[c] = i
                    /\ ptype[c] = "Multicast"}

\* Candidates of GetExistingProducerMulticastConnection(), and of
\* GetNextNonControlMasterConnection().
Masters(i) == {c \in Controllers(i) : producing[c]}

\* Fault: the scan drops the input point.
NonMastersOfAnyInput(i) ==
    {c \in active : /\ Kind[c] \in {"ExclusiveOwner", "InputOnly"}
                    /\ ptype[c] = "Multicast" /\ ~producing[c]}

NonMasters(i) == {c \in Controllers(i) : ~producing[c]}

\* A scan that starts at the head of the list stops at the first of S it meets.
IsFirst(c, S) == c \in S /\ S \ {c} \subseteq behind[c]

\* Fault: the input point is not compared.
TypeOfAnyInput(i, k) == {c \in active : Kind[c] = k}

\* Connections CloseAllConnectionsForInputWithSameType() closes.
ForInputWithType(i, k) == {c \in active : Kind[c] = k /\ InputOf[c] = i}

\* Fault: the scan looks for connections that are still being configured.
OutputConfiguring(o) ==
    \E c \in active : state[c] = "Configuring" /\ OutputOf[c] = o

\* GetConnectedOutputAssembly() found a connection.
OutputConnected(o) ==
    \E c \in active : state[c] = "Established" /\ OutputOf[c] = o

\* FindExistingMatchingConnection() found c.
Matches(c, t) == c \in active /\ state[c] = "Established" /\ triad[c] = t

SamePoints(c, d) ==
    OutputOf[c] = OutputOf[d] /\ InputOf[c] = InputOf[d] /\ ConfigOf[c] = ConfigOf[d]

----------------------------------------------------------------------------
(* forward_open                                                            *)

\* GetIoConnectionForConnectionData(): the pool entry that the application
\* paths of a request for c's points select, in the order in which the three
\* pools are searched.  An exclusive owner is refused while its output point
\* is connected; an input only or listen only set gives out a free member.
OwnerPath(c) == \E d \in Conns : Kind[d] = "ExclusiveOwner" /\ SamePoints(c, d)
InputOnlyPath(c) ==
    \E d \in Conns : Kind[d] = "InputOnly" /\ OutputOf[d] = OutputOf[c]

\* Fault: a listen only connection does not need a producer.
GetConnectionUnheard(c, p) ==
    IF Kind[c] = "ExclusiveOwner" THEN ~OutputConnected(OutputOf[c])
    ELSE ~OwnerPath(c) /\ state[c] = "NonExistent"

GetConnection(c, p) ==
    \/ /\ Kind[c] = "ExclusiveOwner"
       /\ ~OutputConnected(OutputOf[c])
    \/ /\ Kind[c] = "InputOnly"
       /\ ~OwnerPath(c)
       /\ state[c] = "NonExistent"
    \/ /\ Kind[c] = "ListenOnly"
       /\ ~OwnerPath(c) /\ ~InputOnlyPath(c)
       /\ p = "Multicast" /\ Masters(InputOf[c]) # {}
       /\ state[c] = "NonExistent"

\* Fault: a repeated request is not recognised.
AdmittedTwice(c, t, p) == GetConnection(c, p)

\* forward_open() up to the point where the connection is activated.
Admitted(c, t, p) ==
    /\ \A d \in Conns : ~Matches(d, t)
    /\ GetConnection(c, p)

\* Fault: the old head is not linked behind the new one.
InsertUnlinked(c) ==
    /\ active' = active \cup {c}
    /\ behind' = [behind EXCEPT ![c] = {}]

\* CipConnBox::Insert(), at the head of the list.
Insert(c) ==
    /\ active' = active \cup {c}
    /\ behind' = IF c \in active THEN behind ELSE [behind EXCEPT ![c] = active]

\* openProducingPointToPointConnection(), and openProducingMulticastConnection()
\* when nothing produces the input yet: c grabs a socket of its own.
GrabProducer(c, p) ==
    /\ p = "PointToPoint" \/ Masters(InputOf[c]) = {}
    /\ producing' = [producing EXCEPT ![c] = TRUE]
    /\ refs' = refs + 2

\* Fault: every new connection takes the socket, not only exclusive owners.
ShareProducerTaking(c, p) ==
    /\ p = "Multicast"
    /\ \E m \in Masters(InputOf[c]) :
         producing' = [producing EXCEPT ![m] = FALSE, ![c] = TRUE]
    /\ refs' = refs + 1

\* openProducingMulticastConnection() with an existing producer m: an exclusive
\* owner takes m's socket, any other connection produces nothing itself.
ShareProducer(c, p) ==
    /\ p = "Multicast"
    /\ \E m \in Masters(InputOf[c]) :
         /\ IsFirst(m, Masters(InputOf[c]))
         /\ producing' = IF Kind[c] = "ExclusiveOwner"
                         THEN [producing EXCEPT ![m] = FALSE, ![c] = TRUE]
                         ELSE [producing EXCEPT ![c] = FALSE]
    /\ refs' = refs + 1

ForwardOpen(c, t, p, a) ==
    /\ Admitted(c, t, p)
    /\ GrabProducer(c, p) \/ ShareProducer(c, p)
    /\ consuming' = [consuming EXCEPT ![c] = TRUE]
    /\ state' = [state EXCEPT ![c] = "Established"]
    /\ Insert(c)
    /\ ptype' = [ptype EXCEPT ![c] = p]
    /\ triad' = [triad EXCEPT ![c] = t]
    /\ opener' = [opener EXCEPT ![c] = a]

\* Faults: the slot is not returned to its pool; the consuming end's
\* socket is not released.
LeakedState == "Configuring"
AfterLeak(grabbed) == refs + grabbed

\* What Activate() leaves behind when it fails after `grabbed' GrabSocket()
\* calls: handleConfigData() or the consuming end fails with none, the
\* producing end with one, and only where it has to grab a socket itself.
FailedState == "NonExistent"
AfterFailure(grabbed) == (refs + grabbed) - grabbed

ForwardOpenFails(c, t, p) ==
    /\ Admitted(c, t, p)
    /\ \E grabbed \in {0, 1} :
         /\ grabbed = 1 => p = "PointToPoint" \/ Masters(InputOf[c]) = {}
         /\ refs' = AfterFailure(grabbed)
    /\ state' = [state EXCEPT ![c] = FailedState]
    /\ consuming' = [consuming EXCEPT ![c] = FALSE]
    /\ producing' = [producing EXCEPT ![c] = FALSE]
    /\ opener' = [opener EXCEPT ![c] = None]
    /\ UNCHANGED <<active, behind, ptype, triad>>

----------------------------------------------------------------------------
(* Close() and timeOut().  One call may close several connections.         *)

\* The connections of S leave the list and go back to their pools.  What a
\* closed CipConn still holds of its last connection is never read.
Retire(S) ==
    /\ active' = active \ S
    /\ behind' = [d \in Conns |-> IF d \in S THEN {} ELSE behind[d] \ S]
    /\ state' = [d \in Conns |-> IF d \in S THEN "NonExistent" ELSE state[d]]
    /\ consuming' = [d \in Conns |-> consuming[d] /\ d \notin S]
    /\ ptype' = [d \in Conns |-> IF d \in S THEN "Null" ELSE ptype[d]]
    /\ triad' = [d \in Conns |-> IF d \in S THEN None ELSE triad[d]]
    /\ opener' = [d \in Conns |-> IF d \in S THEN None ELSE opener[d]]

ConsumersIn(S) == {d \in S : consuming[d]}
ProducersIn(S) == {d \in S : producing[d]}

\* Each connection of S releases the sockets it holds.
Shut(S) ==
    /\ Retire(S)
    /\ producing' = [d \in Conns |-> producing[d] /\ d \notin S]
    /\ refs' = refs - (Cardinality(ConsumersIn(S))
                       + Cardinality(ProducersIn(S)))

\* The same, except that m of S gives its producing socket to the first of
\* heirs on the list.
HandOver(S, m, heirs) ==
    /\ Retire(S)
    /\ \E h \in heirs :
         /\ IsFirst(h, heirs)
         /\ producing' =
              [d \in Conns |-> d = h \/ (producing[d] /\ d \notin S)]
    /\ refs' = refs - (Cardinality(ConsumersIn(S))
                       + Cardinality(ProducersIn(S \ {m})))

\* Fault: Close() of an exclusive owner does not look for an heir.
IsInputOnlyMaster(c) ==
    Kind[c] = "InputOnly" /\ ptype[c] = "Multicast" /\ producing[c]

\* Close() has to find the multicast production of c's input a new master.
IsMaster(c) ==
    /\ Kind[c] \in {"ExclusiveOwner", "InputOnly"}
    /\ ptype[c] = "Multicast"
    /\ producing[c]

\* Fault: the listeners are closed although an heir was found.
CloseDroppingListeners(c) ==
    LET i == InputOf[c]
        heirs == NonMasters(i)
        S == {c} \cup ForInputWithType(i, "ListenOnly")
    IN  \/ ~IsMaster(c) /\ Shut({c})
        \/ IsMaster(c) /\ heirs # {} /\ HandOver(S, c, heirs)
        \/ IsMaster(c) /\ heirs = {} /\ Shut(S)

\* CipConn::Close()
Close(c) ==
    LET heirs == NonMasters(InputOf[c])
    IN  \/ ~IsMaster(c) /\ Shut({c})
        \/ IsMaster(c) /\ heirs # {} /\ HandOver({c}, c, heirs)
        \/ /\ IsMaster(c) /\ heirs = {}
           /\ Shut({c} \cup ForInputWithType(InputOf[c], "ListenOnly"))

\* forward_close_service(): only the originator that opened it closes it.
ForwardClose(c, t, a) ==
    /\ Matches(c, t)
    /\ opener[c] = a
    /\ Close(c)

\* CipConn::timeOut() of a multicast exclusive owner closes the input's input
\* only and listen only connections before its own Close().  A socket that any
\* of them held ends up with the first controller that is left.
OwnerTimeOut(c) ==
    LET i == InputOf[c]
        S == {c} \cup ForInputWithType(i, "InputOnly")
                 \cup ForInputWithType(i, "ListenOnly")
        heirs == Controllers(i) \ S
    IN  \/ Masters(i) \cap S = {} /\ Shut(S)
        \/ heirs = {} /\ Shut(S)
        \/ /\ heirs # {}
           /\ \E m \in Masters(i) \cap S : HandOver(S, m, heirs)

\* The inactivity watchdog of c has expired.
TimeOut(c) ==
    /\ c \in active
    /\ \/ Kind[c] = "ExclusiveOwner" /\ ptype[c] = "Multicast" /\ OwnerTimeOut(c)
       \/ Kind[c] # "ExclusiveOwner" /\ Close(c)
       \/ ptype[c] # "Multicast" /\ Close(c)

\* CloseAllConnections(), when the stack is shut down.
CloseAllConnections ==
    /\ active # {}
    /\ Shut(active)

Next ==
    \/ \E c \in Conns, t \in Triads, p \in {"PointToPoint", "Multicast"} :
         \/ \E a \in Addrs : ForwardOpen(c, t, p, a)
         \/ ForwardOpenFails(c, t, p)
    \/ \E c \in Conns, t \in Triads, a \in Addrs : ForwardClose(c, t, a)
    \/ \E c \in Conns : TimeOut(c)
    \/ CloseAllConnections

Spec == Init /\ [][Next]_vars

----------------------------------------------------------------------------
(* Properties                                                              *)

\* Between two handlers a connection is either free or established, and
\* g_active_conns holds exactly the established ones: no failing path of
\* forward_open leaves a pool slot in Configuring, where Alloc() would never
\* give it out again (forward_open_leak_test.cpp).
ListedIffEstablished ==
    \A c \in Conns : /\ state[c] \in {"NonExistent", "Established"}
                     /\ c \in active <=> state[c] = "Established"

\* The connections that produce an input to its multicast address are served
\* by exactly one control master, after any order of takeovers by exclusive
\* owners, closes and timeouts: no address has two producers, and none is left
\* with connections and no producer.
OneControlMaster ==
    \A i \in {InputOf[c] : c \in Conns} :
        Controllers(i) # {} => \E m \in Controllers(i) : Masters(i) = {m}

\* A listen only connection is never left without a connection that produces
\* the input it listens to.
ListenersHaveMaster ==
    \A c \in active : Kind[c] = "ListenOnly" => Masters(InputOf[c]) # {}

\* Two exclusive owners never write the same output assembly.
ExclusiveOutputs ==
    \A c, d \in active :
        (Kind[c] = "ExclusiveOwner" /\ Kind[d] = "ExclusiveOwner"
            /\ OutputOf[c] = OutputOf[d]) => c = d

\* networkhandler.h: the calls of GrabSocket() and ReleaseSocket() balance.
\* The reference counts are the number of socket pointers that live
\* connections hold, through failed opens, takeovers and hand-overs.
SocketsBalanced ==
    refs = Cardinality(ConsumersIn(Conns)) + Cardinality(ProducersIn(Conns))

\* No connection outside the list holds a socket, every one on the list
\* consumes, and a point to point producer keeps the socket it grabbed: the
\* hand-overs only ever move a multicast producer's socket.
SocketsHeld ==
    \A c \in Conns :
        /\ consuming[c] <=> c \in active
        /\ producing[c] => c \in active
        /\ c \in active /\ ptype[c] = "PointToPoint" => producing[c]
        /\ Kind[c] = "ListenOnly" => ~producing[c]

\* The triad identifies a connection: at most one established connection
\* answers to a forward_close.
UniqueTriads == \A c, d \in active : triad[c] = triad[d] => c = d

\* g_active_conns stays one chain: for any two members one is behind the
\* other, and nothing behind a member is off the list.
ListOrder ==
    /\ \A c \in active : c \notin behind[c] /\ behind[c] \subseteq active
    /\ \A c, d \in active :
         /\ c # d => (c \in behind[d] <=> d \notin behind[c])
         /\ d \in behind[c] => behind[d] \subseteq behind[c]

\* A scan of g_active_conns for any kind of connection finds one if there is
\* one, and its result does not depend on anything but the order of opening:
\* the hand-over of a closing master never misses a remaining connection.
ScansFindOne ==
    \A S \in (SUBSET active) \ {{}} :
        \E h \in S : \A c \in S : IsFirst(c, S) <=> c = h

\* The multicast exclusive owner d times out, and nobody asked to close it.
OwnerVanishes(d) ==
    /\ Kind[d] = "ExclusiveOwner"
    /\ ptype[d] = "Multicast"
    /\ TimeOut(d)
    /\ ~ \E t \in Triads, a \in Addrs : ForwardClose(d, t, a)

ListenerStep ==
    LET gone == active \ active'
    IN  \A c \in gone :
            (Kind[c] = "ListenOnly" /\ gone # {c})
            => \/ Masters(InputOf[c])' = {}
               \/ \E d \in gone : InputOf[d] = InputOf[c] /\ OwnerVanishes(d)

\* A listen only connection is not closed by the Close() or timeout of another
\* connection as long as its input is still produced: the hand-over spares it.
\* Only the timeout of a multicast exclusive owner closes it all the same, which
\* a forward_close of that owner does not.
ListenerClosesWithInput == [][ListenerStep]_vars

MoveStep ==
    \A c, d \in Conns :
        (producing[c] /\ ~producing'[c] /\ ~producing[d] /\ producing'[d])
        => \/ c \notin active'
           \/ d \notin active /\ Kind[d] = "ExclusiveOwner"

\* Production moves from one connection to another only if the new producer
\* is an exclusive owner that has just been opened or the old one has closed.
ProducerMovesLegally == [][MoveStep]_vars

----------------------------------------------------------------------------
(* Refinement                                                              *)

Sharing == {c \in active : Kind[c] \in {"ExclusiveOwner", "InputOnly"}
                           /\ ptype[c] = "Multicast"}

Ownership == INSTANCE ProducerOwnership WITH
    Takers <- {c \in Conns : Kind[c] = "ExclusiveOwner"},
    sharers <- Sharing,
    owners <- {c \in Sharing : producing[c]},
    listeners <- {c \in active : Kind[c] = "ListenOnly"}

\* Whatever the originators ask for and however their connections end, the
\* production of every input changes hands as ProducerOwnership allows.
ImplementsOwnership == Ownership!Spec

=============================================================================
