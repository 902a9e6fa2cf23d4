------------------------------ MODULE Sessions ------------------------------
(* The TCP side of the encapsulation layer: the session table of SessionMgr *)
(* (encap.cc), the TCP sockets that the event loop accepts and watches      *)
(* (networkhandler.cc), and the explicit, class 3 connections that are      *)
(* bound to a session by nothing but its handle (cipmessagerouter.cc,       *)
(* cipconnectionmanager.cc).                                                *)
(*                                                                          *)
(* A handle is the place of a session in the table plus one.  Places are    *)
(* used again, and a class 3 connection may outlive the session that opened *)
(* it, so that its handle can come to mean a session of somebody else.      *)
EXTENDS Integers, FiniteSets

CONSTANTS
    Size,       \* CIPSTER_NUMBER_OF_SUPPORTED_SESSIONS
    Sockets,    \* file descriptors that accept() can return
    Clients,    \* IP addresses
    Explicits,  \* g_explicit_connections
    Limit,      \* inactivity timeout, in AgeInactivity() periods
    None        \* kSocketInvalid, no address

ASSUME SizeAssumption == Size \in Nat \ {0} /\ Limit \in Nat \ {0}
ASSUME NoneAssumption == None \notin Sockets /\ None \notin Clients

VARIABLES
    socket,     \* EncapSession::m_socket of each place in the table
    peer,       \* m_peeraddr
    registered, \* m_is_registered
    age,        \* periods since m_last_activity_usecs
    index,      \* static variable of RegisterTcpConnection()
    open,       \* TCP sockets that the process has accepted and not closed
    watched,    \* TCP sockets in master_set
    quiet,      \* open sockets on which nothing more is read
    handle,     \* encap_session of each class 3 connection, 0 when it is free
    opener,     \* openers_address
    stalled,    \* socket on whose half message the event loop waits, or None
    failing,    \* passes are left by an exception: a delayed reply is due
                \* whose sendto() fails
    waiting     \* history: places that have been free ever since the handle
                \* of each place was given out

table == <<socket, peer, registered, age, index, waiting>>
explicit == <<handle, opener>>
loop == <<stalled, failing>>
vars == <<table, open, watched, quiet, explicit, loop>>

Places == 0 .. Size - 1
Handles == 1 .. Size

SessTypeOK ==
    /\ socket \in [Places -> Sockets \cup {None}]
    /\ peer \in [Places -> Clients \cup {None}]
    /\ registered \in [Places -> BOOLEAN]
    /\ age \in [Places -> 0 .. Limit - 1]
    /\ index \in Places
    /\ open \subseteq Sockets /\ watched \subseteq Sockets
    /\ quiet \subseteq Sockets
    /\ handle \in [Explicits -> Handles \cup {0}]
    /\ opener \in [Explicits -> Clients \cup {None}]
    /\ stalled \in Sockets \cup {None} /\ failing \in BOOLEAN
    /\ waiting \in [Places -> SUBSET Places]

Init ==
    /\ socket = [s \in Places |-> None] /\ peer = [s \in Places |-> None]
    /\ registered = [s \in Places |-> FALSE] /\ age = [s \in Places |-> 0]
    /\ index = 0
    /\ open = {} /\ watched = {} /\ quiet = {}
    /\ handle = [e \in Explicits |-> 0] /\ opener = [e \in Explicits |-> None]
    /\ stalled = None /\ failing = FALSE
    /\ waiting = [s \in Places |-> {}]

Free == {s \in Places : socket[s] = None}
Occupied == Places \ Free

\* EnsuredTcpRecv() does not hold up the one thread there is.
Unstalled == stalled = None

\* A pass of the event loop comes to its end: it waits for no message, and
\* ManageEncapsulationMessages(), which has no handler, throws nothing.
Running == Unstalled /\ ~failing

----------------------------------------------------------------------------
(* New TCP connections                                                     *)

\* inc_wrap()
IncWrap(i) == IF i + 1 >= Size THEN 0 ELSE i + 1

\* Fault: the search starts with the place that was given out last.
DistanceFromLast(s) == IF s >= index THEN s - index ELSE s + Size - index

\* How many places a search that starts behind `index' looks at before s.
Distance(s) == IF s > index THEN s - index - 1 ELSE s + Size - index - 1

\* The place that RegisterTcpConnection() finds.
Found(s) == s \in Free /\ \A r \in Free : Distance(s) <= Distance(r)

\* Fault: accept() puts the socket into master_set before it has a place.
WatchBoth(x) == watched \cup {x}

\* RegisterTcpConnection() found no place, or no peer: the socket is not put
\* into master_set, and it is not closed either.
WatchNone(x) == watched

\* The handle of s is given out.
Given(s) ==
    waiting' = [r \in Places |-> IF r = s THEN Free \ {s} ELSE waiting[r] \ {s}]

Accept(x, c) ==
    /\ Unstalled
    /\ x \notin open
    /\ \E s \in Places :
         /\ Found(s)
         /\ socket' = [socket EXCEPT ![s] = x]
         /\ peer' = [peer EXCEPT ![s] = c]
         /\ age' = [age EXCEPT ![s] = 0]
         /\ index' = s
         /\ Given(s)
    /\ open' = open \cup {x}
    /\ watched' = watched \cup {x}
    /\ UNCHANGED <<registered, quiet, explicit, loop>>

\* getpeername() fails: the place keeps the socket, with the activity time of
\* a cleared session.
AcceptUnnamed(x) ==
    /\ Unstalled
    /\ x \notin open
    /\ \E s \in Places, a \in 0 .. Limit - 1 :
         /\ Found(s)
         /\ socket' = [socket EXCEPT ![s] = x]
         /\ age' = [age EXCEPT ![s] = a]
         /\ index' = s
         /\ Given(s)
    /\ open' = open \cup {x}
    /\ watched' = WatchNone(x)
    /\ quiet' = quiet \cup {x}
    /\ UNCHANGED <<peer, registered, explicit, loop>>

\* The search that finds nothing has moved `index' on by one place.
AcceptRejected(x) ==
    /\ Unstalled
    /\ x \notin open
    /\ Free = {}
    /\ index' = IncWrap(index)
    /\ open' = open \cup {x}
    /\ watched' = WatchNone(x)
    /\ quiet' = quiet \cup {x}
    /\ UNCHANGED <<socket, peer, registered, age, waiting, explicit, loop>>

----------------------------------------------------------------------------
(* Closing                                                                 *)

\* Faults: the place keeps the number of the closed socket; the socket stays
\* in master_set.
ClearedKeeping(S) == socket
UnwatchNone(S) == watched

Cleared(S) == [s \in Places |-> IF s \in S THEN None ELSE socket[s]]
Unwatch(S) == watched \ {socket[s] : s \in S}

\* EncapSession::Close() of the places in S.
CloseSessions(S) ==
    /\ socket' = Cleared(S)
    /\ peer' = [s \in Places |-> IF s \in S THEN None ELSE peer[s]]
    /\ registered' = [s \in Places |-> registered[s] /\ s \notin S]
    /\ open' = open \ {socket[s] : s \in S}
    /\ watched' = Unwatch(S)
    /\ quiet' = quiet \ {socket[s] : s \in S}
    /\ UNCHANGED <<index, waiting>>

\* CipConn::Close() of the class 3 connections in E.
CloseExplicits(E) ==
    /\ handle' = [e \in Explicits |-> IF e \in E THEN 0 ELSE handle[e]]
    /\ opener' = [e \in Explicits |-> IF e \in E THEN None ELSE opener[e]]

On(h) == {e \in Explicits : handle[e] = h}

----------------------------------------------------------------------------
(* Messages.  HandleReceivedExplicitTcpData() first notes the activity.    *)

\* s is the place of a socket that select() reports, or of the one whose
\* message the event loop is waiting for.
Readable(s) ==
    /\ socket[s] \in watched \ quiet
    /\ stalled \in {None, socket[s]}

\* The whole message is there, or the client has closed: recv() returns.
Received == stalled' = None /\ UNCHANGED failing

Note(s) == age' = [age EXCEPT ![s] = 0]

\* EnsuredTcpRecv() has a part of a message and waits for the rest.
Stall(s) ==
    /\ Unstalled
    /\ Readable(s)
    /\ stalled' = socket[s]
    /\ UNCHANGED <<table, open, watched, quiet, explicit, failing>>

\* NOP, the List commands, and requests that open or close nothing.
Message(s) ==
    /\ Readable(s) /\ Received
    /\ Note(s)
    /\ UNCHANGED <<socket, peer, registered, index, waiting, open, watched,
                   quiet, explicit>>

RegisterSession(s) ==
    /\ Readable(s) /\ Received
    /\ ~registered[s]
    /\ Note(s)
    /\ registered' = [registered EXCEPT ![s] = TRUE]
    /\ UNCHANGED <<socket, peer, index, waiting, open, watched, quiet,
                   explicit>>

\* UnRegisterSession, and CloseBySocket() when the client has closed or sends
\* what cannot be read: class 3 connections stay.
Disconnect(s) ==
    /\ Readable(s) /\ Received
    /\ CloseSessions({s})
    /\ Note(s)
    /\ UNCHANGED explicit

\* forward_open of a class 3 connection, CheckRegisteredSession() passed.
OpenExplicit(s, e) ==
    /\ Readable(s) /\ Received /\ registered[s]
    /\ handle[e] = 0
    /\ Note(s)
    /\ handle' = [handle EXCEPT ![e] = s + 1]
    /\ opener' = [opener EXCEPT ![e] = peer[s]]
    /\ UNCHANGED <<socket, peer, registered, index, waiting, open, watched,
                   quiet>>

\* forward_close, from any session of the client that opened the connection.
CloseExplicit(s, e) ==
    /\ Readable(s) /\ Received /\ registered[s]
    /\ handle[e] # 0 /\ opener[e] = peer[s]
    /\ Note(s)
    /\ CloseExplicits({e})
    /\ UNCHANGED <<socket, peer, registered, index, waiting, open, watched,
                   quiet>>

\* The client of an open socket goes silent, in the middle of a message too.
Silence(x) ==
    /\ x \in open \ quiet
    /\ quiet' = quiet \cup {x}
    /\ UNCHANGED <<table, open, watched, explicit, loop>>

----------------------------------------------------------------------------
(* Timeouts.  ManageConnections() and AgeInactivity() come at the end of a  *)
(* pass, behind the messages and the delayed replies.                       *)

\* SendUdpData() throws for a reply that is due: no pass comes to its end
\* until one can be sent.  An exception of a message's handler, whose reply by
\* UDP can not be sent or does not fit, takes the end of one pass in the same way.
ReplyFails ==
    /\ Running
    /\ failing' = TRUE
    /\ UNCHANGED <<table, open, watched, quiet, explicit, stalled>>

ReplySent ==
    /\ Unstalled /\ failing
    /\ failing' = FALSE
    /\ UNCHANGED <<table, open, watched, quiet, explicit, stalled>>

\* timeOut() of a class 3 connection.  When it was the last connection with
\* its handle, CheckForTimedOutConnectionsAndCloseTCPConnections() closes the
\* session that has the handle now.
TimeOut(e) ==
    LET s == handle[e] - 1
    IN  /\ Running
        /\ handle[e] # 0
        /\ CloseExplicits({e})
        /\ IF On(handle[e]) = {e} /\ s \in Occupied
           THEN /\ CloseSessions({s})
                /\ Note(s)
           ELSE UNCHANGED <<table, open, watched, quiet>>
        /\ UNCHANGED loop

\* Fault: sockets that never registered a session do not age.
ExpiredRegistered(n) == {s \in Occupied : registered[s] /\ age[s] + n >= Limit}

\* n periods have gone by since the check before.
Expired(n) == {s \in Occupied : age[s] + n >= Limit}

\* Fault: the class 3 connections of an aged session stay.
AgedNone(n) == {}

\* AgeInactivity() closes the class 3 connections of a registered session.
Aged(n) == UNION {On(s + 1) : s \in {r \in Expired(n) : registered[r]}}

\* Bound: an age beyond the limit is not told from the limit.
Older(a, n) == IF a + n < Limit THEN a + n ELSE Limit - 1

\* More than one period has gone by when passes were held up.
AgeInactivity(n) ==
    /\ Running
    /\ CloseSessions(Expired(n))
    /\ age' = [s \in Places |-> IF s \in Occupied \ Expired(n)
                                THEN Older(age[s], n) ELSE 0]
    /\ CloseExplicits(Aged(n))
    /\ UNCHANGED loop

\* Bound: longer times are not told from the limit.
Check == \E n \in 1 .. Limit : AgeInactivity(n)

\* ShutdownCipStack(): CloseAllConnections(), then SessionMgr::Shutdown().
Shutdown ==
    /\ Unstalled
    /\ Occupied # {}
    /\ CloseSessions(Occupied)
    /\ CloseExplicits(Explicits)
    /\ age' = [s \in Places |-> 0]
    /\ UNCHANGED loop

Next ==
    \/ \E x \in Sockets : \/ \E c \in Clients : Accept(x, c)
                          \/ AcceptUnnamed(x)
                          \/ AcceptRejected(x)
                          \/ Silence(x)
    \/ \E s \in Places : \/ Stall(s)
                         \/ Message(s) \/ RegisterSession(s) \/ Disconnect(s)
                         \/ \E e \in Explicits :
                              OpenExplicit(s, e) \/ CloseExplicit(s, e)
    \/ \E e \in Explicits : TimeOut(e)
    \/ ReplyFails \/ ReplySent
    \/ Check
    \/ Shutdown

Spec == Init /\ [][Next]_vars

\* A pass that comes to its end calls AgeInactivity() when half a second has
\* gone by, and the time of the passes that did not is added up: the check is
\* made again and again if passes end again and again.  Nothing makes them end.
FairSpec == Spec /\ SF_vars(Check)

----------------------------------------------------------------------------
(* Properties                                                              *)

\* Through the reuse of places and of file descriptors no two places hold the
\* same TCP socket, and none holds one that has been closed: otherwise what
\* one client does would be taken for another's, or close its socket.
PlacesOwnSockets ==
    /\ \A s \in Occupied : socket[s] \in open
    /\ \A r, s \in Occupied : socket[r] = socket[s] => r = s

\* encap.cc:154: "any TCP socket should be in sessions[] as unregistered by
\* now": the sockets that the event loop reads from are exactly those that have
\* a place with their client's address, so that the assertion in
\* RegisterSession() holds, and so that no place that its client can still end
\* has to wait for its age.
WatchedArePlaced == watched = {socket[s] : s \in {r \in Places : peer[r] # None}}

\* A session that its client does not end itself ends together with the last
\* class 3 connection that has its handle: a timeout spares it as long as
\* another one is left, and the inactivity check closes them all.
EndStep ==
    \A s \in Places :
        (registered[s] /\ ~registered'[s])
        => Disconnect(s) \/ \A e \in Explicits : handle'[e] # s + 1
SessionsEndWhole == [][EndStep]_vars

\* A handle is given out a second time only if every other place has been in
\* use at some time since the first, also when clients were turned away in between, which
\* moves the search as well: what is left in flight of a client's messages, or
\* in the connections it opened, does not meet another client's session while
\* there is a handle that was out of use for longer.
RotateStep ==
    \A s \in Free : socket'[s] # None => waiting[s] = {}
HandlesRotate == [][RotateStep]_vars

\* A place whose client has gone silent is given back, registered or not, and
\* also when the client's address could never be read, unless passes stop
\* coming to an end: a client that vanishes in the middle of a message keeps its
\* place and everybody else's for ever.
SilentPlacesFreed ==
    []<>Running =>
        \A x \in Sockets :
            LET Held == x \in quiet /\ \E s \in Places : socket[s] = x
            IN  Held ~> ~Held
=============================================================================
