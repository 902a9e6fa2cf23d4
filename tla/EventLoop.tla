----------------------------- MODULE EventLoop ------------------------------
(***************************************************************************)
(* NetworkHandlerProcessOnce() (networkhandler.cc): one call of select()    *)
(* for all sockets, then the four listeners, the UDP sockets and the TCP    *)
(* connections in this order.  Whatever is still marked in read_set when    *)
(* the listeners and the UDP sockets have been looked at is taken for a     *)
(* TCP connection, although a message that is handled may open and close    *)
(* sockets and descriptors are used again at once.                          *)
(***************************************************************************)
EXTENDS UdpSockets, Sequences

CONSTANTS
    Listeners       \* the TCP listener, then the datagram listeners, in the
                    \* order in which they are looked at

ASSUME ListenerAssumption ==
    Listeners \in Seq(STRING) /\ Len(Listeners) \in 1 .. MaxFd + 1

VARIABLES
    phase,      \* where the loop is
    turn,       \* the listener that is next
    listener,   \* s_sockets: the descriptor of each listener
    tcp,        \* TCP connections that have a session
    unnamed,    \* sockets in the table that nobody watches: getpeername() failed
    pending,    \* descriptors of these with something to read
    read_set,   \* what select() reported and nobody has looked at
    todo,       \* addresses whose UDP sockets are to be looked at
    scan,       \* next descriptor of the loop over TCP connections
    serving     \* the connection whose message is handled

loopVars == <<phase, turn, listener, tcp, unnamed, pending, read_set, todo, scan, serving>>
allVars == <<vars, loopVars>>

Turns == 1 .. Len(Listeners)

Phases == {"init", "select", "listeners", "udp", "tcp", "manage", "finish",
           "shutdown", "stopped"}

LoopTypeOK ==
    /\ TypeOK
    /\ phase \in Phases /\ turn \in 1 .. Len(Listeners) + 1
    /\ listener \in [Turns -> Fds \cup {NoFd}]
    /\ tcp \subseteq Fds /\ unnamed \subseteq Fds /\ pending \subseteq open /\ read_set \subseteq Fds
    /\ todo \subseteq BindAddrs
    /\ scan \in 0 .. MaxFd + 1 /\ serving \in Fds \cup {NoFd}

LoopInit ==
    /\ Init
    /\ phase = "init" /\ turn = 1
    /\ listener = [k \in Turns |-> NoFd]
    /\ tcp = {} /\ unnamed = {} /\ pending = {} /\ read_set = {} /\ todo = {}
    /\ scan = 0 /\ serving = NoFd

----------------------------------------------------------------------------
(* Starting                                                                *)

\* A new descriptor is the lowest that is free.
Lowest == CHOOSE s \in Fds \ open : \A t \in Fds \ open : s <= t
CanOpen == Fds \ open # {}

\* The TCP listener is created first and the datagram listeners last to first.
FirstFds == [k \in Turns |-> IF k = 1 THEN 0 ELSE Len(Listeners) + 1 - k]

\* All of them are created before any is watched.
NetworkHandlerInitialize ==
    /\ phase = "init"
    /\ phase' = "select"
    /\ listener' = FirstFds
    /\ open' = {FirstFds[k] : k \in Turns}
    /\ master_set' = {FirstFds[k] : k \in Turns}
    /\ highest' = Len(Listeners) - 1
    /\ UNCHANGED <<tables, queued, turn, tcp, unnamed, pending, read_set, todo, scan, serving>>

\* socket(), setsockopt(), bind() or listen() fails for one of them:
\* NetworkHandlerFinish() closes those that are open.
InitializeFails ==
    /\ phase = "init"
    /\ phase' = "stopped"
    /\ UNCHANGED <<vars, turn, listener, tcp, unnamed, pending, read_set, todo, scan, serving>>

----------------------------------------------------------------------------
(* One pass                                                                *)

HasData(s) == s \in pending \/ \E a \in BindAddrs : fd[a] = s /\ queued[a] > 0

\* select( highest_socket_handle + 1, ... )
Ready == {s \in master_set : s <= highest /\ HasData(s)}

Select ==
    /\ phase = "select"
    /\ read_set' = Ready
    /\ phase' = IF Ready = {} THEN "manage" ELSE "listeners"
    /\ turn' = 1
    /\ UNCHANGED <<vars, listener, tcp, unnamed, pending, todo, scan, serving>>

\* checkSocketSet() finds s and removes it from read_set.
Marked(s) == s \in read_set \cap master_set
Unmark(s) == read_set' = read_set \ {s}

Sockets == {a \in BindAddrs : fd[a] # NoFd}

\* Fault: only the sockets of consuming connections are looked at.
SocketsInUse == {a \in BindAddrs : ref[a] > 0}

\* GetAllSockets()
AllSockets == Sockets

NextTurn ==
    /\ turn' = turn + 1
    /\ IF turn = Len(Listeners)
       THEN phase' = "udp" /\ todo' = AllSockets
       ELSE UNCHANGED <<phase, todo>>

AtListener(k) == phase = "listeners" /\ turn = k

NothingToAccept ==
    /\ AtListener(1)
    /\ ~Marked(listener[1])
    /\ Unmark(listener[1]) /\ NextTurn
    /\ UNCHANGED <<vars, listener, tcp, unnamed, pending, scan, serving>>

\* CheckAndHandleTcpListenerSocket(): the connection gets a session ...
Accept ==
    /\ AtListener(1) /\ Marked(listener[1]) /\ CanOpen
    /\ OpenOther(Lowest)
    /\ tcp' = tcp \cup {Lowest}
    /\ pending' = pending \ {listener[1]}
    /\ Unmark(listener[1]) /\ NextTurn
    /\ UNCHANGED <<listener, unnamed, scan, serving>>

\* ... or it gets none ...
AcceptRejected ==
    /\ AtListener(1) /\ Marked(listener[1]) /\ CanOpen
    /\ RejectOther(Lowest)
    /\ pending' = pending \ {listener[1]}
    /\ Unmark(listener[1]) /\ NextTurn
    /\ UNCHANGED <<listener, tcp, unnamed, scan, serving>>

\* ... or a session whose socket is not watched, as getpeername() fails ...
AcceptUnnamed ==
    /\ AtListener(1) /\ Marked(listener[1]) /\ CanOpen
    /\ RejectOther(Lowest)
    /\ unnamed' = unnamed \cup {Lowest}
    /\ pending' = pending \ {listener[1]}
    /\ Unmark(listener[1]) /\ NextTurn
    /\ UNCHANGED <<listener, tcp, scan, serving>>

\* ... or accept() fails, as it does without a free descriptor.
AcceptFails ==
    /\ AtListener(1) /\ Marked(listener[1])
    /\ Unmark(listener[1]) /\ NextTurn
    /\ UNCHANGED <<vars, listener, tcp, unnamed, pending, scan, serving>>

\* CheckAndHandleUdp...Socket(): one datagram, perhaps with a reply.
Datagram(k) ==
    /\ AtListener(k)
    /\ pending' = IF Marked(listener[k]) THEN pending \ {listener[k]} ELSE pending
    /\ Unmark(listener[k]) /\ NextTurn
    /\ UNCHANGED <<vars, listener, tcp, unnamed, scan, serving>>

\* checkAndHandleUdpSockets()
UdpSocket(a) ==
    /\ phase = "udp" /\ a \in todo
    /\ IF Marked(fd[a]) THEN Drain(a) ELSE UNCHANGED vars
    /\ Unmark(fd[a])
    /\ todo' = todo \ {a}
    /\ UNCHANGED <<phase, turn, listener, tcp, unnamed, pending, scan, serving>>

UdpDone ==
    /\ phase = "udp" /\ todo = {}
    /\ phase' = "tcp" /\ scan' = 0
    /\ UNCHANGED <<vars, turn, listener, tcp, unnamed, pending, read_set, todo, serving>>

\* The descriptors that the loop over TCP connections would still read.
Remaining == {s \in read_set \cap master_set : scan <= s /\ s <= highest}

\* HandleDataOnTcpSocket() of the next one.
TcpRead(s) ==
    /\ phase = "tcp" /\ serving = NoFd
    /\ s \in Remaining /\ \A t \in Remaining : s <= t
    /\ serving' = s /\ scan' = s + 1
    /\ pending' = pending \ {s}
    /\ Unmark(s)
    /\ UNCHANGED <<vars, phase, turn, listener, tcp, unnamed, todo>>

TcpAnswered ==
    /\ serving # NoFd
    /\ serving' = NoFd
    /\ UNCHANGED <<vars, phase, turn, listener, tcp, unnamed, pending, read_set, todo, scan>>

\* CloseSocket() of a TCP connection and the end of its session.
CloseTcp(s) ==
    /\ CloseOther(s)
    /\ tcp' = tcp \ {s}
    /\ pending' = pending \ {s}
    /\ UNCHANGED unnamed

\* The same for a session whose socket is not watched.
CloseUnnamed(s) ==
    /\ CloseRejected(s)
    /\ unnamed' = unnamed \ {s}
    /\ pending' = pending \ {s}
    /\ UNCHANGED tcp

\* UnRegisterSession, or an error that makes the loop call CloseBySocket().
TcpClosed ==
    /\ serving # NoFd
    /\ CloseTcp(serving)
    /\ serving' = NoFd
    /\ UNCHANGED <<phase, turn, listener, read_set, todo, scan>>

TcpDone ==
    /\ phase = "tcp" /\ serving = NoFd /\ Remaining = {}
    /\ phase' = "manage"
    /\ read_set' = {}   \* overwritten by the next pass
    /\ UNCHANGED <<vars, turn, listener, tcp, unnamed, pending, todo, scan, serving>>

\* forward_open and forward_close in a message: GrabSocket() and ReleaseSocket().
LoopGrab(u, h) ==
    /\ serving # NoFd
    /\ \/ GrabShared(u, h)
       \/ JoinFails(u, h)
       \/ CanOpen /\ GrabNew(u, h, Lowest)
       \/ CanOpen /\ CreateFails(u, h, Lowest)
       \/ CanOpen /\ JoinFailsNew(u, h, Lowest)
    /\ UNCHANGED loopVars

\* Connections are closed by messages, by their watchdogs and at the end.
Closing == serving # NoFd \/ phase \in {"manage", "shutdown"}

LoopRelease(u) ==
    /\ Closing
    /\ ReleaseSocket(u)
    /\ UNCHANGED loopVars

LoopPass(u, v) ==
    /\ Closing
    /\ PassSocket(u, v)
    /\ UNCHANGED loopVars

\* ManageConnections() and AgeInactivity() close TCP connections.
TimeOut(s) ==
    /\ phase = "manage"
    /\ \/ s \in tcp /\ CloseTcp(s)
       \/ s \in unnamed /\ CloseUnnamed(s)
    /\ UNCHANGED <<phase, turn, listener, read_set, todo, scan, serving>>

PassEnds ==
    /\ phase = "manage"
    /\ phase' = "select"
    /\ UNCHANGED <<vars, turn, listener, tcp, unnamed, pending, read_set, todo, scan, serving>>

----------------------------------------------------------------------------
(* Stopping: NetworkHandlerFinish(), then ShutdownCipStack().               *)

\* The application ends its loop; select() may have failed.
Stop ==
    /\ phase = "select"
    /\ phase' = "finish" /\ turn' = 1
    /\ UNCHANGED <<vars, listener, tcp, unnamed, pending, read_set, todo, scan, serving>>

FinishListener ==
    /\ phase = "finish"
    /\ CloseOther(listener[turn])
    /\ pending' = pending \ {listener[turn]}
    /\ turn' = turn + 1
    /\ phase' = IF turn = Len(Listeners) THEN "shutdown" ELSE phase
    /\ UNCHANGED <<listener, tcp, unnamed, read_set, todo, scan, serving>>

ShutdownTcp(s) ==
    /\ phase = "shutdown"
    /\ \/ s \in tcp /\ CloseTcp(s)
       \/ s \in unnamed /\ CloseUnnamed(s)
    /\ UNCHANGED <<phase, turn, listener, read_set, todo, scan, serving>>

\* The UDP sockets that have been opened stay open.
ShutdownEnds ==
    /\ phase = "shutdown" /\ tcp = {} /\ unnamed = {}
    /\ \A u \in Users : hold[u] = None
    /\ phase' = "stopped"
    /\ UNCHANGED <<vars, turn, listener, tcp, unnamed, pending, read_set, todo, scan, serving>>

----------------------------------------------------------------------------
(* The network may do anything at any time.                                *)

PeerSends(s) ==
    /\ s \in tcp \cup {listener[k] : k \in Turns}
    /\ s \in master_set
    /\ pending' = pending \cup {s}
    /\ UNCHANGED <<vars, phase, turn, listener, tcp, unnamed, read_set, todo, scan, serving>>

PeerSendsUdp(a) == Arrive(a) /\ UNCHANGED loopVars

\* What the loop does next without anybody's doing.
LoopStep ==
    \/ Select
    \/ NothingToAccept \/ Accept \/ AcceptRejected \/ AcceptUnnamed \/ AcceptFails
    \/ \E k \in Turns \ {1} : Datagram(k)
    \/ \E a \in BindAddrs : UdpSocket(a)
    \/ UdpDone
    \/ \E s \in Fds : TcpRead(s)
    \/ TcpAnswered \/ TcpClosed \/ TcpDone
    \/ PassEnds

LoopNext ==
    \/ NetworkHandlerInitialize \/ InitializeFails
    \/ LoopStep
    \/ \E u \in Users, h \in BindAddrs \cup Groups : LoopGrab(u, h)
    \/ \E u \in Users : LoopRelease(u)
    \/ \E u, v \in Users : LoopPass(u, v)
    \/ \E s \in Fds : TimeOut(s) \/ ShutdownTcp(s) \/ PeerSends(s)
    \/ \E a \in BindAddrs : PeerSendsUdp(a)
    \/ Stop \/ FinishListener \/ ShutdownEnds

LoopSpec == LoopInit /\ [][LoopNext]_allVars

\* The application keeps calling NetworkHandlerProcessOnce(), messages are
\* received whole, and each is handled in finite time and without an exception.
FairLoopSpec == LoopSpec /\ WF_allVars(LoopStep)

----------------------------------------------------------------------------
(* Properties                                                              *)

\* networkhandler.cc:459: "the caller's assumption that anything still in
\* read_set is a TCP connection": what HandleDataOnTcpSocket() reads is a
\* connection with a session, and was one when select() reported it, whatever
\* has been opened and closed since (checkSocketSet).
OnlyTcpRead ==
    /\ serving # NoFd => serving \in tcp
    /\ phase = "tcp" => Remaining \subseteq tcp

Running == phase \notin {"init", "finish", "shutdown", "stopped"}

\* A client that has sent something gets the attention of the loop, however
\* much the others send, and whichever descriptor it has; so does the UDP
\* socket of an I/O connection whose buffer is full.
WaitingAreServed ==
    /\ \A s \in Fds : (s \in tcp \cap pending) ~> (s \notin tcp \cap pending \/ ~Running)
    /\ \A a \in BindAddrs :
         (queued[a] = Backlog) ~> (queued[a] < Backlog \/ ref[a] = 0 \/ ~Running)

=============================================================================
