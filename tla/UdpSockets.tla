----------------------------- MODULE UdpSockets -----------------------------
(***************************************************************************)
(* The sockets of the event loop (networkhandler.cc): UdpSocketMgr, which  *)
(* shares one UDP socket among all the connection ends that want the same  *)
(* bind address and one multicast membership among all that want the same  *)
(* group, with a reference count for each; and master_set with             *)
(* highest_socket_handle, over which select() runs.                        *)
(*                                                                         *)
(* A user is one end of an I/O connection.  A socket whose count has come  *)
(* back to zero is kept, open and watched, for the next user; the loop     *)
(* still reads it, up to a limit that depends on its count.                *)
(***************************************************************************)
EXTENDS Integers, FiniteSets

CONSTANTS
    Users,      \* ends of I/O connections
    BindAddrs,  \* addresses the ends bind to: one port of its own, or two
    Groups,     \* multicast addresses that originators may name
    GroupBase,  \* the bind address on which openMulticastConnection() joins
    MaxFd,      \* descriptors are 0 .. MaxFd
    PerRef,     \* datagrams read in a pass for each reference, 64 in the code
    Backlog,    \* datagrams that a socket's receive buffer holds
    None

Fds == 0 .. MaxFd
NoFd == -1

ASSUME SocketAssumption ==
    /\ IsFiniteSet(Users)
    /\ GroupBase \in BindAddrs
    /\ BindAddrs \cap Groups = {}
    /\ None \notin BindAddrs \cup Groups
    /\ MaxFd \in Nat
    /\ PerRef \in Nat \ {0}
    /\ Backlog \in Nat \ {0}

VARIABLES
    fd,         \* m_sockets: the descriptor of each address that has an entry
    ref,        \* m_ref_count of that entry
    member,     \* m_multicast: m_ref_count of each group, 0 without an entry
    hold,       \* what each user got from GrabSocket()
    open,       \* descriptors that are open in the process
    master_set, \* descriptors that select() is asked about
    highest,    \* highest_socket_handle
    queued      \* datagrams that wait at the socket of an address

tables == <<fd, ref, member, hold>>
sets == <<open, master_set, highest>>
vars == <<fd, ref, member, hold, open, master_set, highest, queued>>

Handles == BindAddrs \cup Groups \cup {None}

TypeOK ==
    /\ fd \in [BindAddrs -> Fds \cup {NoFd}]
    /\ ref \in [BindAddrs -> Nat]
    /\ member \in [Groups -> Nat]
    /\ hold \in [Users -> Handles]
    /\ open \subseteq Fds
    /\ master_set \subseteq Fds
    /\ highest \in Fds
    /\ queued \in [BindAddrs -> 0 .. Backlog]

\* NetworkHandlerInitialize() has zeroed the sets.
Init ==
    /\ fd = [a \in BindAddrs |-> NoFd]
    /\ ref = [a \in BindAddrs |-> 0]
    /\ member = [g \in Groups |-> 0]
    /\ hold = [u \in Users |-> None]
    /\ open = {}
    /\ master_set = {}
    /\ highest = 0
    /\ queued = [a \in BindAddrs |-> 0]

----------------------------------------------------------------------------
(* master_set and highest_socket_handle.                                   *)

\* Fault: the maximum is not kept.
AddedLast(s) == s

\* highest_socket_handle after master_set_add(), and after master_set_rem().
AddedTo(s) == IF s > highest THEN s ELSE highest

\* Fault: the handle goes down whatever is removed.
DownAlways(s) == IF highest > 0 THEN highest - 1 ELSE highest

RemovedFrom(s) == IF s = highest /\ s > 0 THEN highest - 1 ELSE highest

\* accept(), or NetworkHandlerInitialize() adding a listener.
OpenOther(s) ==
    /\ s \notin open
    /\ open' = open \cup {s}
    /\ master_set' = master_set \cup {s}
    /\ highest' = AddedTo(s)
    /\ UNCHANGED <<tables, queued>>

\* accept() returned a socket that is not registered: it stays open and nobody
\* watches it.
RejectOther(s) ==
    /\ s \notin open
    /\ open' = open \cup {s}
    /\ UNCHANGED <<tables, master_set, highest, queued>>

\* Fault: the descriptor stays in master_set.
MasterSetKeeping(s) == master_set

MasterSetWithout(s) == master_set \ {s}

\* CloseSocket() of a listener or of a TCP connection.
CloseOther(s) ==
    /\ s \in master_set
    /\ \A a \in BindAddrs : fd[a] # s
    /\ open' = open \ {s}
    /\ master_set' = MasterSetWithout(s)
    /\ highest' = RemovedFrom(s)
    /\ UNCHANGED <<tables, queued>>

\* CloseSocket() of a socket that was never added.
CloseRejected(s) ==
    /\ s \in open \ master_set
    /\ open' = open \ {s}
    /\ highest' = RemovedFrom(s)
    /\ UNCHANGED <<tables, master_set, queued>>

----------------------------------------------------------------------------
(* UdpSocketMgr                                                            *)

\* What GrabSocket() is called with: an address, or a group on GroupBase.
BindOf(h) == IF h \in Groups THEN GroupBase ELSE h

\* m_ref_count of the entry for a after GrabSocket() found or created it.
Counted(a) == [ref EXCEPT ![a] = @ + 1]

\* IP_ADD_MEMBERSHIP is only asked for the first user of a group.
Joins(h) == h \in Groups /\ member[h] = 0

\* Fault: a second user of a group is not counted.
MembersUncounted(h) ==
    IF h \in Groups THEN [member EXCEPT ![h] = 1] ELSE member

MembersWith(h) ==
    IF h \in Groups THEN [member EXCEPT ![h] = @ + 1] ELSE member

\* GrabSocket() of an address that has a socket.
GrabShared(u, h) ==
    /\ hold[u] = None
    /\ fd[BindOf(h)] # NoFd
    /\ ref' = Counted(BindOf(h))
    /\ member' = MembersWith(h)
    /\ hold' = [hold EXCEPT ![u] = h]
    /\ UNCHANGED <<fd, sets, queued>>

\* GrabSocket() of an address that has none: createSocket() takes descriptor s.
GrabNew(u, h, s) ==
    /\ hold[u] = None
    /\ fd[BindOf(h)] = NoFd
    /\ s \notin open
    /\ fd' = [fd EXCEPT ![BindOf(h)] = s]
    /\ ref' = Counted(BindOf(h))
    /\ member' = MembersWith(h)
    /\ hold' = [hold EXCEPT ![u] = h]
    /\ open' = open \cup {s}
    /\ master_set' = master_set \cup {s}
    /\ highest' = AddedTo(s)
    /\ UNCHANGED queued

\* createSocket(): bind() or the TTL fails, and s is closed although it was
\* never added.
CreateFails(u, h, s) ==
    /\ hold[u] = None
    /\ fd[BindOf(h)] = NoFd
    /\ s \notin open
    /\ highest' = RemovedFrom(s)
    /\ UNCHANGED <<tables, open, master_set, queued>>

\* Fault: the early return keeps the reference.
AfterFailedJoin(a) == Counted(a)

\* m_ref_count after the ReleaseSocket() that undoes a failed join.
AfterJoinFailed(a) == [Counted(a) EXCEPT ![a] = @ - 1]

\* IP_ADD_MEMBERSHIP fails: the socket stays, without the new user.
JoinFails(u, h) ==
    /\ hold[u] = None
    /\ Joins(h)
    /\ fd[BindOf(h)] # NoFd
    /\ ref' = AfterJoinFailed(BindOf(h))
    /\ UNCHANGED <<fd, member, hold, sets, queued>>

JoinFailsNew(u, h, s) ==
    /\ hold[u] = None
    /\ Joins(h)
    /\ fd[BindOf(h)] = NoFd
    /\ s \notin open
    /\ fd' = [fd EXCEPT ![BindOf(h)] = s]
    /\ ref' = AfterJoinFailed(BindOf(h))
    /\ open' = open \cup {s}
    /\ master_set' = master_set \cup {s}
    /\ highest' = AddedTo(s)
    /\ UNCHANGED <<member, hold, queued>>

\* Fault: dropping a group leaves the socket's own count alone.
UncountedGroupOnly(h) ==
    IF h \in Groups THEN ref ELSE [ref EXCEPT ![h] = @ - 1]

\* m_ref_count after ReleaseSocket(); a group also releases the socket under it.
Uncounted(h) == [ref EXCEPT ![BindOf(h)] = @ - 1]

ReleaseSocket(u) ==
    /\ hold[u] # None
    /\ ref' = Uncounted(hold[u])
    /\ member' = IF hold[u] \in Groups
                 THEN [member EXCEPT ![hold[u]] = @ - 1] ELSE member
    /\ hold' = [hold EXCEPT ![u] = None]
    /\ UNCHANGED <<fd, sets, queued>>

\* An end of one connection passes its socket to another one (Close(),
\* timeOut(), openProducingMulticastConnection()).
PassSocket(u, v) ==
    /\ hold[u] # None
    /\ hold[v] = None
    /\ hold' = [hold EXCEPT ![u] = None, ![v] = hold[u]]
    /\ UNCHANGED <<fd, ref, member, sets, queued>>

----------------------------------------------------------------------------
(* checkAndHandleUdpSockets()                                              *)

\* Somebody sends a datagram to an open socket; a full buffer drops it.
Arrive(a) ==
    /\ fd[a] # NoFd
    /\ queued[a] < Backlog
    /\ queued' = [queued EXCEPT ![a] = @ + 1]
    /\ UNCHANGED <<tables, sets>>

\* How many datagrams one pass takes from the socket of a.
Limit(a) == PerRef * ref[a]

LeftAfter(a) == IF queued[a] <= Limit(a) THEN 0 ELSE queued[a] - Limit(a)

\* The loop over m_sockets comes to the socket of a, which select() reported.
Drain(a) ==
    /\ queued[a] > 0
    /\ fd[a] \in master_set
    /\ queued' = [queued EXCEPT ![a] = LeftAfter(a)]
    /\ UNCHANGED <<tables, sets>>

Grab(u, h) ==
    \/ GrabShared(u, h)
    \/ JoinFails(u, h)
    \/ \E s \in Fds : \/ GrabNew(u, h, s)
                      \/ CreateFails(u, h, s)
                      \/ JoinFailsNew(u, h, s)

Next ==
    \/ \E s \in Fds : OpenOther(s) \/ RejectOther(s) \/ CloseOther(s) \/ CloseRejected(s)
    \/ \E u \in Users, h \in BindAddrs \cup Groups : Grab(u, h)
    \/ \E u \in Users : ReleaseSocket(u)
    \/ \E u, v \in Users : PassSocket(u, v)
    \/ \E a \in BindAddrs : Arrive(a) \/ Drain(a)

Spec == Init /\ [][Next]_vars

----------------------------------------------------------------------------
(* Properties                                                              *)

\* The ends that use the socket of a, directly or through a group.
UsersOf(a) == {u \in Users : hold[u] # None /\ BindOf(hold[u]) = a}
MembersOf(g) == {u \in Users : hold[u] = g}

\* Every count is the number of ends that use the entry, through sharing,
\* failures, hand-overs and releases in any order (GrabSocket, ReleaseSocket:
\* "you must balance the number of calls").  A group counts for the socket
\* under it as well.
CountsBalanced ==
    /\ \A a \in BindAddrs : ref[a] = Cardinality(UsersOf(a))
    /\ \A g \in Groups : member[g] = Cardinality(MembersOf(g))

\* Whatever an end holds has a socket, no two addresses share a descriptor,
\* and every such socket is read by the loop: nobody can hold a socket whose
\* data is never looked at.  Nothing in master_set has been closed: select()
\* would fail for all sockets, for ever (createSocket, CloseSocket).
HeldAreWatched ==
    /\ \A u \in Users : hold[u] # None => fd[BindOf(hold[u])] # NoFd
    /\ \A a \in BindAddrs : fd[a] # NoFd => fd[a] \in master_set
    /\ \A a, b \in BindAddrs : a # b /\ fd[a] = fd[b] => fd[a] = NoFd
    /\ master_set \subseteq open

\* select() and the loop over TCP sockets stop at highest_socket_handle, which
\* is only stepped down by one: no watched descriptor may ever be above it
\* (master_set_add, master_set_rem).
HighestCovers == \A s \in master_set : s <= highest

=============================================================================
