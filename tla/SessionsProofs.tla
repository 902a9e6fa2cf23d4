--------------------------- MODULE SessionsProofs ---------------------------
(* Theorems about Sessions, for a table of any size and any sockets, clients *)
(* and class 3 connections.  The invariant is inductive as it is: the two    *)
(* halves need each other, because a socket that is closed is taken from     *)
(* master_set by its place in the table.  That handles rotate needs a second *)
(* one: the search passes the places that have been free for longer first.   *)
EXTENDS Sessions, TLAPS

SInv == SessTypeOK /\ PlacesOwnSockets /\ WatchedArePlaced

LoopTypes == stalled \in Sockets \cup {None} /\ failing \in BOOLEAN

LEMMA InitSInv == Init => SInv
<1> SUFFICES ASSUME Init
             PROVE  SInv
  OBVIOUS
<1>1. waiting \in [Places -> SUBSET Places]
  BY DEF Init
<1>2. age \in [Places -> 0 .. Limit - 1] /\ index \in Places
  BY SizeAssumption DEF Init, Places
<1>3. SessTypeOK
  BY <1>1, <1>2 DEF Init, SessTypeOK
<1>4. PlacesOwnSockets /\ WatchedArePlaced
  BY DEF Init, PlacesOwnSockets, WatchedArePlaced, Occupied, Free
<1> QED
  BY <1>3, <1>4 DEF SInv

\* Only a place with a socket has an address, since only sockets are watched.
LEMMA PeersHaveSockets == SInv => \A s \in Places : peer[s] # None => s \in Occupied
BY NoneAssumption
   DEF SInv, SessTypeOK, WatchedArePlaced, Occupied, Free

\* EncapSession::Close() of any set of places keeps the table in order.
LEMMA CloseSessionsSInv ==
    ASSUME SInv, NEW S \in SUBSET Places, CloseSessions(S),
           age' \in [Places -> 0 .. Limit - 1],
           handle' \in [Explicits -> Handles \cup {0}],
           opener' \in [Explicits -> Clients \cup {None}], LoopTypes'
    PROVE  SInv'
<1>1. SessTypeOK'
  BY NoneAssumption
     DEF SInv, SessTypeOK, LoopTypes, CloseSessions, Cleared, Unwatch
<1>2. Occupied' = Occupied \ S
  BY DEF CloseSessions, Cleared, Occupied, Free
<1>3. PlacesOwnSockets'
  <2>1. \A s \in Occupied \ S : socket'[s] = socket[s]
    BY DEF CloseSessions, Cleared, Occupied
  <2>2. \A s \in Occupied \ S : socket[s] \in open'
    BY DEF SInv, PlacesOwnSockets, CloseSessions, Occupied, Free
  <2> QED
    BY <1>2, <2>1, <2>2 DEF SInv, PlacesOwnSockets
<1>4. WatchedArePlaced'
  BY PeersHaveSockets
     DEF SInv, PlacesOwnSockets, WatchedArePlaced, CloseSessions, Cleared,
         Unwatch, Occupied, Free
<1> QED
  BY <1>1, <1>3, <1>4 DEF SInv

\* A step that changes no place, and opens, closes and watches no socket.
LEMMA SameTableSInv ==
    ASSUME SInv, UNCHANGED <<socket, peer, index, waiting, open, watched>>,
           registered' \in [Places -> BOOLEAN],
           age' \in [Places -> 0 .. Limit - 1],
           quiet' \subseteq Sockets,
           handle' \in [Explicits -> Handles \cup {0}],
           opener' \in [Explicits -> Clients \cup {None}], LoopTypes'
    PROVE  SInv'
BY DEF SInv, SessTypeOK, LoopTypes, PlacesOwnSockets, WatchedArePlaced, Occupied, Free

\* A new socket in a place that was free.
LEMMA PlacedSInv ==
    ASSUME SInv, NEW x \in Sockets, NEW s \in Free, NEW c \in Clients \cup {None},
           x \notin open,
           socket' = [socket EXCEPT ![s] = x],
           peer' = [peer EXCEPT ![s] = c],
           watched' = IF c = None THEN watched ELSE watched \cup {x},
           open' = open \cup {x},
           age' \in [Places -> 0 .. Limit - 1], index' = s,
           quiet' \subseteq Sockets, Given(s), LoopTypes',
           UNCHANGED <<registered, explicit>>
    PROVE  SInv'
<1>0. waiting' \in [Places -> SUBSET Places]
  BY DEF SInv, SessTypeOK, Given, Free
<1>1. SessTypeOK'
  BY <1>0 DEF SInv, SessTypeOK, LoopTypes, Free, explicit
<1>2. Occupied' = Occupied \cup {s}
  BY NoneAssumption DEF SInv, SessTypeOK, Occupied, Free
<1>3. PlacesOwnSockets'
  BY <1>2 DEF SInv, SessTypeOK, PlacesOwnSockets, Occupied, Free
<1>4. peer[s] = None
  BY PeersHaveSockets DEF Occupied, Free
<1>5. WatchedArePlaced'
  BY <1>4 DEF SInv, SessTypeOK, WatchedArePlaced, Free
<1> QED
  BY <1>1, <1>3, <1>5 DEF SInv

LEMMA NextLoopTypes == SInv /\ [Next]_vars => LoopTypes'
BY DEF SInv, SessTypeOK, LoopTypes, Next, vars, loop, Accept, AcceptUnnamed,
       AcceptRejected, Silence, Readable, Received, Stall, Message,
       RegisterSession, Disconnect, OpenExplicit, CloseExplicit, ReplyFails,
       ReplySent, TimeOut, Check, AgeInactivity, Shutdown

LEMMA NextSInv == SInv /\ [Next]_vars => SInv'
<1> SUFFICES ASSUME SInv, [Next]_vars
             PROVE  SInv'
  OBVIOUS
<1> USE SizeAssumption
<1>0. LoopTypes'
  BY NextLoopTypes
<1>1. ASSUME NEW x \in Sockets, NEW c \in Clients, Accept(x, c)
      PROVE  SInv'
  <2>1. PICK s \in Places : /\ Found(s)
                            /\ socket' = [socket EXCEPT ![s] = x]
                            /\ peer' = [peer EXCEPT ![s] = c]
                            /\ age' = [age EXCEPT ![s] = 0]
                            /\ index' = s
                            /\ Given(s)
    BY <1>1 DEF Accept
  <2>2. s \in Free /\ c # None
    BY <2>1, NoneAssumption DEF Found
  <2>3. age' \in [Places -> 0 .. Limit - 1] /\ quiet' \subseteq Sockets
    BY <1>1, <2>1 DEF SInv, SessTypeOK, Accept
  <2> QED
    BY <1>0, <1>1, <2>1, <2>2, <2>3, PlacedSInv DEF Accept
<1>2. ASSUME NEW x \in Sockets, AcceptUnnamed(x)
      PROVE  SInv'
  <2>1. PICK s \in Places, a \in 0 .. Limit - 1 :
               /\ Found(s)
               /\ socket' = [socket EXCEPT ![s] = x]
               /\ age' = [age EXCEPT ![s] = a]
               /\ index' = s
               /\ Given(s)
    BY <1>2 DEF AcceptUnnamed
  <2>2. s \in Free
    BY <2>1 DEF Found
  <2>3. age' \in [Places -> 0 .. Limit - 1] /\ quiet' \subseteq Sockets
    BY <1>2, <2>1 DEF SInv, SessTypeOK, AcceptUnnamed
  <2>4. peer' = [peer EXCEPT ![s] = None]
    <3>1. peer[s] = None
      BY <2>2, PeersHaveSockets DEF Occupied, Free
    <3> QED
      BY <1>2, <3>1 DEF SInv, SessTypeOK, AcceptUnnamed
  <2> QED
    BY <1>0, <1>2, <2>1, <2>2, <2>3, <2>4, PlacedSInv DEF AcceptUnnamed, WatchNone
<1>3. ASSUME NEW x \in Sockets, AcceptRejected(x)
      PROVE  SInv'
  BY <1>0, <1>3 DEF SInv, SessTypeOK, LoopTypes, PlacesOwnSockets, WatchedArePlaced, Occupied,
              Free, Places, AcceptRejected, WatchNone, IncWrap, explicit
<1>4. ASSUME \/ \E x \in Sockets : Silence(x)
             \/ \E s \in Places : Stall(s)
             \/ ReplyFails \/ ReplySent
      PROVE  SInv'
  <2>1. quiet' \subseteq Sockets /\ UNCHANGED <<table, open, watched, explicit>>
    BY <1>4 DEF SInv, SessTypeOK, Silence, Stall, ReplyFails, ReplySent
  <2> QED
    BY <1>0, <2>1, SameTableSInv DEF SInv, SessTypeOK, table, explicit
<1>5. ASSUME NEW s \in Places, Message(s) \/ RegisterSession(s)
      PROVE  SInv'
  <2>1. Note(s) /\ UNCHANGED <<socket, peer, index, waiting, open, watched,
                               quiet, explicit>>
    BY <1>5 DEF Message, RegisterSession
  <2>2. age' \in [Places -> 0 .. Limit - 1]
    BY <2>1 DEF SInv, SessTypeOK, Note
  <2>3. registered' \in [Places -> BOOLEAN]
    BY <1>5 DEF SInv, SessTypeOK, Message, RegisterSession
  <2> QED
    BY <1>0, <2>1, <2>2, <2>3, SameTableSInv DEF SInv, SessTypeOK, explicit
<1>6. ASSUME NEW s \in Places, Disconnect(s)
      PROVE  SInv'
  <2>1. {s} \in SUBSET Places /\ CloseSessions({s})
    BY <1>6 DEF Disconnect
  <2>2. /\ age' \in [Places -> 0 .. Limit - 1]
        /\ handle' \in [Explicits -> Handles \cup {0}]
        /\ opener' \in [Explicits -> Clients \cup {None}]
    BY <1>6 DEF SInv, SessTypeOK, Disconnect, Note, explicit
  <2> QED
    BY <1>0, <2>1, <2>2, CloseSessionsSInv
<1>7. ASSUME NEW s \in Places, NEW e \in Explicits, OpenExplicit(s, e)
      PROVE  SInv'
  <2>1. handle' \in [Explicits -> Handles \cup {0}]
    BY <1>7 DEF SInv, SessTypeOK, OpenExplicit, Places, Handles
  <2> QED
    BY <1>0, <1>7, <2>1, SameTableSInv DEF SInv, SessTypeOK, OpenExplicit, Note
<1>8. ASSUME NEW s \in Places, NEW e \in Explicits, CloseExplicit(s, e)
      PROVE  SInv'
  BY <1>0, <1>8, SameTableSInv
     DEF SInv, SessTypeOK, CloseExplicit, CloseExplicits, Note
<1>9. ASSUME NEW e \in Explicits, TimeOut(e)
      PROVE  SInv'
  <2>1. /\ handle' \in [Explicits -> Handles \cup {0}]
        /\ opener' \in [Explicits -> Clients \cup {None}]
    BY <1>9 DEF SInv, SessTypeOK, TimeOut, CloseExplicits
  <2>2. CASE On(handle[e]) = {e} /\ handle[e] - 1 \in Occupied
    <3>1. PICK s \in Places : s = handle[e] - 1
      BY <2>2 DEF Occupied
    <3>2. CloseSessions({s}) /\ Note(s)
      BY <1>9, <2>2, <3>1
         DEF TimeOut, CloseSessions, Cleared, Unwatch, Note
    <3>3. age' \in [Places -> 0 .. Limit - 1]
      BY <3>2 DEF SInv, SessTypeOK, Note
    <3> QED
      BY <1>0, <2>1, <3>1, <3>2, <3>3, CloseSessionsSInv
  <2>3. CASE ~(On(handle[e]) = {e} /\ handle[e] - 1 \in Occupied)
    BY <1>0, <1>9, <2>1, <2>3, SameTableSInv DEF SInv, SessTypeOK, TimeOut, table
  <2> QED
    BY <2>2, <2>3
<1>10. ASSUME NEW n \in 1 .. Limit, AgeInactivity(n)
       PROVE  SInv'
  <2>1. Expired(n) \subseteq Places /\ CloseSessions(Expired(n))
    BY <1>10 DEF AgeInactivity, Expired, Occupied
  <2>2. age' \in [Places -> 0 .. Limit - 1]
    <3>1. \A a \in 0 .. Limit - 1 : Older(a, n) \in 0 .. Limit - 1
      BY DEF Older
    <3>2. \A s \in Places :
            (IF s \in Occupied \ Expired(n) THEN Older(age[s], n) ELSE 0)
            \in 0 .. Limit - 1
      BY <3>1 DEF SInv, SessTypeOK
    <3> QED
      BY <1>10, <3>2 DEF AgeInactivity
  <2>3. /\ handle' \in [Explicits -> Handles \cup {0}]
        /\ opener' \in [Explicits -> Clients \cup {None}]
    BY <1>10 DEF SInv, SessTypeOK, AgeInactivity, CloseExplicits
  <2>4. PICK S \in SUBSET Places : S = Expired(n)
    BY <2>1
  <2>5. CloseSessions(S)
    BY <2>1, <2>4 DEF CloseSessions, Cleared, Unwatch
  <2> QED
    BY <1>0, <2>2, <2>3, <2>5, CloseSessionsSInv
<1>11. CASE Shutdown
  <2>1. PICK S \in SUBSET Places : S = Occupied
    BY DEF Occupied
  <2>2. CloseSessions(S)
    BY <1>11, <2>1 DEF Shutdown, CloseSessions, Cleared, Unwatch
  <2>3. /\ age' \in [Places -> 0 .. Limit - 1]
        /\ handle' \in [Explicits -> Handles \cup {0}]
        /\ opener' \in [Explicits -> Clients \cup {None}]
    BY <1>11 DEF SInv, SessTypeOK, Shutdown, CloseExplicits
  <2> QED
    BY <1>0, <2>2, <2>3, CloseSessionsSInv
<1>12. CASE UNCHANGED vars
  BY <1>12 DEF SInv, SessTypeOK, PlacesOwnSockets, WatchedArePlaced, Occupied,
               Free, vars, table, explicit, loop
<1> QED
  BY <1>1, <1>2, <1>3, <1>4, <1>5, <1>6, <1>7, <1>8, <1>9, <1>10, <1>11,
     <1>12 DEF Next, Check

LEMMA Invariance == Spec => []SInv
BY InitSInv, NextSInv, PTL DEF Spec

\* Types.
THEOREM SessionTypes == Spec => []SessTypeOK
<1>1. SInv => SessTypeOK
  BY DEF SInv
<1> QED
  BY <1>1, Invariance, PTL

\* No two places of SessionMgr::sessions hold the same TCP socket, and none
\* holds a closed one, through every reuse of places and descriptors.
THEOREM SocketsPlacedOnce == Spec => []PlacesOwnSockets
<1>1. SInv => PlacesOwnSockets
  BY DEF SInv
<1> QED
  BY <1>1, Invariance, PTL

\* The event loop reads from exactly the sockets that have a place with their
\* client's address, so that RegisterSession()'s assertion holds.
THEOREM WatchedHavePlaces == Spec => []WatchedArePlaced
<1>1. SInv => WatchedArePlaced
  BY DEF SInv
<1> QED
  BY <1>1, Invariance, PTL

\* A session that does not end by its client's own disconnection leaves no
\* class 3 connection behind (AgeInactivity(), timeOut()).
LEMMA NextEnds == SInv /\ [Next]_vars => EndStep
<1> SUFFICES ASSUME SInv, [Next]_vars, NEW s \in Places,
                    registered[s], ~registered'[s], ~Disconnect(s),
                    NEW e \in Explicits
             PROVE  handle'[e] # s + 1
  BY DEF EndStep
<1>1. ASSUME NEW r \in Places, Disconnect(r)
      PROVE  FALSE
  <2>1. r # s
    BY <1>1
  <2> QED
    BY <1>1, <2>1 DEF Disconnect, CloseSessions
<1>2. ASSUME NEW d \in Explicits, TimeOut(d)
      PROVE  handle'[e] # s + 1
  <2>1. /\ On(handle[d]) = {d} /\ CloseSessions({handle[d] - 1})
        /\ CloseExplicits({d})
    BY <1>2 DEF TimeOut, table
  <2>2. s = handle[d] - 1
    BY <2>1 DEF CloseSessions
  <2>3. handle[d] = s + 1
    BY <2>2 DEF SInv, SessTypeOK, Handles
  <2> QED
    BY <2>1, <2>3 DEF CloseExplicits, On, Places
<1>3. ASSUME NEW n \in 1 .. Limit, AgeInactivity(n)
      PROVE  handle'[e] # s + 1
  <2>1. s \in Expired(n)
    BY <1>3 DEF AgeInactivity, CloseSessions
  <2>2. On(s + 1) \subseteq Aged(n)
    BY <2>1 DEF Aged
  <2> QED
    BY <1>3, <2>2 DEF AgeInactivity, CloseExplicits, On, Places
<1>4. CASE Shutdown
  BY <1>4 DEF Shutdown, CloseExplicits, Places
<1>5. ASSUME registered' = registered
      PROVE  FALSE
  BY <1>5
<1>6. ASSUME NEW r \in Places, RegisterSession(r)
      PROVE  FALSE
  BY <1>6 DEF RegisterSession, SInv, SessTypeOK
<1> QED
  BY <1>1, <1>2, <1>3, <1>4, <1>5, <1>6
     DEF Next, Check, Accept, AcceptUnnamed, AcceptRejected, Silence, Stall,
         Message, OpenExplicit, CloseExplicit, ReplyFails, ReplySent, vars, table

THEOREM SessionsEndWithTheirConnections == Spec => SessionsEndWhole
<1>1. SInv /\ [Next]_vars => [EndStep]_vars
  BY NextEnds
<1> QED
  BY <1>1, Invariance, PTL DEF Spec, SessionsEndWhole

\* The search meets the places that have been free ever since the handle of s
\* was given out before it comes to s again.
Behind == \A s \in Places : \A r \in waiting[s] :
             r \in Free /\ r # s /\ Distance(r) < Distance(s)

\* The place that is found moves the start of the search behind itself.
LEMMA GivenBehind ==
    ASSUME SInv, Behind, NEW t \in Places, NEW x \in Sockets, Found(t),
           socket' = [socket EXCEPT ![t] = x], index' = t, Given(t)
    PROVE  Behind'
<1> SUFFICES ASSUME NEW s \in Places, NEW r \in waiting'[s]
             PROVE  (r \in Free)' /\ r # s /\ Distance(r)' < Distance(s)'
  BY DEF Behind
<1> USE SizeAssumption
<1>1. Free' = Free \ {t}
  BY NoneAssumption DEF SInv, SessTypeOK, Free
<1>2. CASE s = t
  <2>1. r \in Free \ {t}
    BY <1>2 DEF Given
  <2>2. Distance(r)' < Distance(t)'
    BY <2>1 DEF Distance, Places, Free
  <2> QED
    BY <1>1, <1>2, <2>1, <2>2
<1>3. CASE s # t
  <2>1. r \in waiting[s] /\ r # t
    BY <1>3 DEF Given
  <2>2. r \in Free /\ r # s /\ Distance(r) < Distance(s)
    BY <2>1 DEF Behind
  <2>3. Distance(t) <= Distance(r)
    BY <2>2 DEF Found
  <2>4. r \in Places
    BY <2>2 DEF Free
  <2>5. Distance(r)' < Distance(s)'
    BY <1>3, <2>1, <2>2, <2>3, <2>4 DEF Distance, Places, SInv, SessTypeOK
  <2> QED
    BY <1>1, <2>1, <2>2, <2>5
<1> QED
  BY <1>2, <1>3

\* A place is given out when no other has been waiting for longer.
LEMMA FoundNoneWaiting ==
    ASSUME SInv, Behind, NEW t \in Places, Found(t)
    PROVE  waiting[t] = {}
<1> SUFFICES ASSUME NEW r \in waiting[t]
             PROVE  FALSE
  OBVIOUS
<1>1. r \in Free /\ Distance(r) < Distance(t)
  BY DEF Behind
<1>2. Distance(t) <= Distance(r)
  BY <1>1 DEF Found
<1>3. r \in Places
  BY <1>1 DEF Free
<1> QED
  BY <1>1, <1>2, <1>3, SizeAssumption DEF Distance, Places, SInv, SessTypeOK

LEMMA NextRotates == SInv /\ Behind /\ [Next]_vars => Behind' /\ RotateStep
<1> SUFFICES ASSUME SInv, Behind, [Next]_vars
             PROVE  Behind' /\ RotateStep
  OBVIOUS
<1>1. ASSUME NEW x \in Sockets, \/ \E c \in Clients : Accept(x, c)
                                \/ AcceptUnnamed(x)
      PROVE  Behind' /\ RotateStep
  <2>1. PICK t \in Places : /\ Found(t)
                            /\ socket' = [socket EXCEPT ![t] = x]
                            /\ index' = t
                            /\ Given(t)
    BY <1>1 DEF Accept, AcceptUnnamed
  <2>2. waiting[t] = {}
    BY <2>1, FoundNoneWaiting
  <2>3. RotateStep
    BY <2>1, <2>2 DEF RotateStep, Free
  <2> QED
    BY <2>1, <2>3, GivenBehind
<1>2. ASSUME NEW x \in Sockets, AcceptRejected(x)
      PROVE  Behind' /\ RotateStep
  <2>1. Free = {} /\ socket' = socket /\ waiting' = waiting
    BY <1>2 DEF AcceptRejected
  <2> QED
    BY <2>1 DEF Behind, RotateStep
<1>3. ASSUME NEW S, CloseSessions(S)
      PROVE  Behind' /\ RotateStep
  <2>1. Free \subseteq Free' /\ waiting' = waiting
    BY <1>3 DEF CloseSessions, Cleared, Free
  <2>2. \A s : Distance(s)' = Distance(s)
    BY <1>3 DEF CloseSessions, Distance
  <2>3. Behind'
    BY <2>1, <2>2 DEF Behind
  <2>4. RotateStep
    BY <1>3 DEF RotateStep, CloseSessions, Cleared, Free
  <2> QED
    BY <2>3, <2>4
<1>4. ASSUME UNCHANGED <<socket, index, waiting>>
      PROVE  Behind' /\ RotateStep
  BY <1>4 DEF Behind, RotateStep, Free, Distance
<1> QED
  BY <1>1, <1>2, <1>3, <1>4
     DEF Next, Check, Silence, Stall, Message, RegisterSession, Disconnect,
         OpenExplicit, CloseExplicit, ReplyFails, ReplySent, TimeOut,
         AgeInactivity, Shutdown, vars, table

\* The handles of SessionMgr::sessions take turns: none is given out twice while
\* another has been free all the time, whatever connects, is turned away,
\* closes or times out in between.
THEOREM HandlesTakeTurns == Spec => HandlesRotate
<1>1. Init => Behind
  BY DEF Init, Behind
<1>2. SInv /\ Behind /\ [Next]_vars => Behind' /\ [RotateStep]_vars
  BY NextRotates
<1> QED
  BY <1>1, <1>2, Invariance, PTL DEF Spec, HandlesRotate
=============================================================================
