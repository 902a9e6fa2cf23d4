-------------------------- MODULE EventLoopProofs --------------------------
(* Proofs about EventLoop and its UDP sockets, for any listeners, users,     *)
(* addresses, groups and number of descriptors.  Every step of the loop but  *)
(* its start is a step of UdpSockets or leaves its variables alone.  That    *)
(* only TCP connections are read as such rests on what read_set can still    *)
(* hold at each point of a pass (PassInv): nothing in it is ever closed,     *)
(* what has been looked at is gone from it, and what is watched is a         *)
(* connection, a listener or a UDP socket.                                   *)
EXTENDS EventLoop, FiniteSetTheorems, TLAPS

----------------------------------------------------------------------------
(* UDP sockets.  Counts and descriptors are inductive separately, apart     *)
(* from the type of the counts: a count that is released is above zero only  *)
(* because it is balanced.                                                   *)

UInv == TypeOK /\ CountsBalanced /\ HeldAreWatched /\ HighestCovers

----------------------------------------------------------------------------
(* Counting users.                                                          *)

\* The users of anything are finitely many.
LEMMA UsersFinite ==
    ASSUME NEW S \in SUBSET Users
    PROVE  IsFiniteSet(S) /\ Cardinality(S) \in Nat
BY SocketAssumption, FS_Subset, FS_CardinalityType

\* One more user is one more, one user fewer is one fewer, and an exchange of
\* users changes nothing.
LEMMA UserJoins ==
    ASSUME NEW S \in SUBSET Users, NEW u \in Users \ S
    PROVE  Cardinality(S \cup {u}) = Cardinality(S) + 1
BY UsersFinite, FS_AddElement

LEMMA UserLeaves ==
    ASSUME NEW S \in SUBSET Users, NEW u \in S
    PROVE  /\ Cardinality(S \ {u}) = Cardinality(S) - 1
           /\ Cardinality(S) > 0
<1>1. Cardinality(S \ {u}) = Cardinality(S) - 1
  BY UsersFinite, FS_RemoveElement
<1>2. Cardinality(S \ {u}) \in Nat /\ Cardinality(S) \in Nat
  BY UsersFinite
<1> QED
  BY <1>1, <1>2

LEMMA UserChanges ==
    ASSUME NEW S \in SUBSET Users, NEW u \in S, NEW v \in Users \ S
    PROVE  Cardinality((S \ {u}) \cup {v}) = Cardinality(S)
<1>1. Cardinality((S \ {u}) \cup {v}) = Cardinality(S \ {u}) + 1
  BY UserJoins
<1>2. Cardinality(S \ {u}) = Cardinality(S) - 1
  BY UserLeaves
<1>3. Cardinality(S) \in Nat
  BY UsersFinite
<1> QED
  BY <1>1, <1>2, <1>3

\* An address has its users, a group its members.
LEMMA UsersAreUsers ==
    /\ \A a : UsersOf(a) \subseteq Users
    /\ \A g : MembersOf(g) \subseteq Users
BY DEF UsersOf, MembersOf

LEMMA BindOfHandle ==
    ASSUME NEW h \in BindAddrs \cup Groups
    PROVE  BindOf(h) \in BindAddrs /\ h # None
BY SocketAssumption DEF BindOf

----------------------------------------------------------------------------
(* What each kind of step does to the counts.                               *)

\* A user gets a handle and is counted where the handle says.
LEMMA GrabbedBalances ==
    ASSUME TypeOK, CountsBalanced,
           NEW u \in Users, hold[u] = None,
           NEW h \in BindAddrs \cup Groups,
           ref' = Counted(BindOf(h)), member' = MembersWith(h),
           hold' = [hold EXCEPT ![u] = h]
    PROVE  /\ CountsBalanced'
           /\ ref' \in [BindAddrs -> Nat]
           /\ member' \in [Groups -> Nat]
           /\ hold' \in [Users -> Handles]
<1>1. BindOf(h) \in BindAddrs /\ h # None
  BY BindOfHandle
<1>2. hold' \in [Users -> Handles] /\ ref' \in [BindAddrs -> Nat]
  BY <1>1 DEF TypeOK, Handles, Counted
<1>3. member' \in [Groups -> Nat]
  BY DEF TypeOK, MembersWith
<1>4. ASSUME NEW a \in BindAddrs
      PROVE  ref'[a] = Cardinality(UsersOf(a))'
  <2>1. CASE a = BindOf(h)
    <3>1. UsersOf(a)' = UsersOf(a) \cup {u} /\ u \notin UsersOf(a)
      BY <1>1, <2>1 DEF UsersOf, TypeOK
    <3>2. Cardinality(UsersOf(a) \cup {u}) = Cardinality(UsersOf(a)) + 1
      BY <3>1, UserJoins, UsersAreUsers
    <3> QED
      BY <2>1, <3>1, <3>2 DEF Counted, CountsBalanced, TypeOK
  <2>2. CASE a # BindOf(h)
    <3>1. UsersOf(a)' = UsersOf(a)
      BY <1>1, <2>2 DEF UsersOf, TypeOK
    <3> QED
      BY <2>2, <3>1 DEF Counted, CountsBalanced, TypeOK
  <2> QED
    BY <2>1, <2>2
<1>5. ASSUME NEW g \in Groups
      PROVE  member'[g] = Cardinality(MembersOf(g))'
  <2>1. CASE g = h
    <3>1. MembersOf(g)' = MembersOf(g) \cup {u} /\ u \notin MembersOf(g)
      BY <1>1, <2>1 DEF MembersOf, TypeOK
    <3>2. Cardinality(MembersOf(g) \cup {u}) = Cardinality(MembersOf(g)) + 1
      BY <3>1, UserJoins, UsersAreUsers
    <3> QED
      BY <2>1, <3>1, <3>2 DEF MembersWith, CountsBalanced, TypeOK
  <2>2. CASE g # h
    <3>1. MembersOf(g)' = MembersOf(g)
      BY <2>2, SocketAssumption DEF MembersOf, TypeOK
    <3> QED
      BY <2>2, <3>1 DEF MembersWith, CountsBalanced, TypeOK
  <2> QED
    BY <2>1, <2>2
<1> QED
  BY <1>2, <1>3, <1>4, <1>5 DEF CountsBalanced

\* A user gives its handle back.
LEMMA ReleasedBalances ==
    ASSUME TypeOK, CountsBalanced, NEW u \in Users, ReleaseSocket(u)
    PROVE  /\ CountsBalanced'
           /\ ref' \in [BindAddrs -> Nat]
           /\ member' \in [Groups -> Nat]
           /\ hold' \in [Users -> Handles]
<1> DEFINE h == hold[u]
<1>0. h \in BindAddrs \cup Groups
  BY DEF ReleaseSocket, TypeOK, Handles
<1>1. BindOf(h) \in BindAddrs /\ h # None
  BY <1>0, BindOfHandle
<1>2. hold' \in [Users -> Handles]
  BY DEF TypeOK, Handles, ReleaseSocket
<1>4. ASSUME NEW a \in BindAddrs
      PROVE  ref'[a] = Cardinality(UsersOf(a))' /\ ref'[a] \in Nat
  <2>1. CASE a = BindOf(h)
    <3>1. UsersOf(a)' = UsersOf(a) \ {u} /\ u \in UsersOf(a)
      BY <1>1, <2>1 DEF UsersOf, TypeOK, ReleaseSocket
    <3>2. /\ Cardinality(UsersOf(a) \ {u}) = Cardinality(UsersOf(a)) - 1
          /\ Cardinality(UsersOf(a)) > 0
      BY <3>1, UserLeaves, UsersAreUsers
    <3>3. ref'[a] = ref[a] - 1
      BY <2>1 DEF ReleaseSocket, Uncounted, TypeOK
    <3>4. ref[a] = Cardinality(UsersOf(a)) /\ ref[a] \in Nat
      BY DEF CountsBalanced, TypeOK
    <3> QED
      BY <3>1, <3>2, <3>3, <3>4
  <2>2. CASE a # BindOf(h)
    <3>1. UsersOf(a)' = UsersOf(a)
      BY <1>1, <2>2 DEF UsersOf, TypeOK, ReleaseSocket
    <3> QED
      BY <2>2, <3>1 DEF ReleaseSocket, Uncounted, CountsBalanced, TypeOK
  <2> QED
    BY <2>1, <2>2
<1>5. ASSUME NEW g \in Groups
      PROVE  member'[g] = Cardinality(MembersOf(g))' /\ member'[g] \in Nat
  <2>1. CASE g = h
    <3>1. MembersOf(g)' = MembersOf(g) \ {u} /\ u \in MembersOf(g)
      BY <1>1, <2>1 DEF MembersOf, TypeOK, ReleaseSocket
    <3>2. /\ Cardinality(MembersOf(g) \ {u}) = Cardinality(MembersOf(g)) - 1
          /\ Cardinality(MembersOf(g)) > 0
      BY <3>1, UserLeaves, UsersAreUsers
    <3>3. member'[g] = member[g] - 1
      BY <2>1 DEF ReleaseSocket, TypeOK
    <3>4. member[g] = Cardinality(MembersOf(g)) /\ member[g] \in Nat
      BY DEF CountsBalanced, TypeOK
    <3> QED
      BY <3>1, <3>2, <3>3, <3>4
  <2>2. CASE g # h
    <3>1. MembersOf(g)' = MembersOf(g)
      BY <2>2, SocketAssumption DEF MembersOf, TypeOK, ReleaseSocket
    <3> QED
      BY <2>2, <3>1 DEF ReleaseSocket, CountsBalanced, TypeOK
  <2> QED
    BY <2>1, <2>2
<1>6. ref' \in [BindAddrs -> Nat] /\ member' \in [Groups -> Nat]
  <2>1. DOMAIN ref' = BindAddrs /\ ref' = [a \in BindAddrs |-> ref'[a]]
    BY DEF ReleaseSocket, Uncounted, TypeOK
  <2>2. DOMAIN member' = Groups /\ member' = [g \in Groups |-> member'[g]]
    BY DEF ReleaseSocket, TypeOK
  <2> QED
    BY <1>4, <1>5, <2>1, <2>2
<1> QED
  BY <1>2, <1>4, <1>5, <1>6 DEF CountsBalanced

\* A handle changes hands.
LEMMA PassedBalances ==
    ASSUME TypeOK, CountsBalanced, NEW u \in Users, NEW v \in Users,
           PassSocket(u, v)
    PROVE  CountsBalanced' /\ hold' \in [Users -> Handles]
<1> DEFINE h == hold[u]
<1>0. h \in BindAddrs \cup Groups /\ u # v
  BY DEF PassSocket, TypeOK, Handles
<1>1. BindOf(h) \in BindAddrs /\ h # None
  BY <1>0, BindOfHandle
<1>2. hold' \in [Users -> Handles]
  BY DEF TypeOK, Handles, PassSocket
<1>4. ASSUME NEW a \in BindAddrs
      PROVE  Cardinality(UsersOf(a))' = Cardinality(UsersOf(a))
  <2>1. CASE a = BindOf(h)
    <3>1. /\ UsersOf(a)' = (UsersOf(a) \ {u}) \cup {v}
          /\ u \in UsersOf(a) /\ v \notin UsersOf(a)
      BY <1>0, <1>1, <2>1 DEF UsersOf, TypeOK, PassSocket
    <3> QED
      BY <3>1, UserChanges, UsersAreUsers
  <2>2. CASE a # BindOf(h)
    BY <1>0, <1>1, <2>2 DEF UsersOf, TypeOK, PassSocket
  <2> QED
    BY <2>1, <2>2
<1>5. ASSUME NEW g \in Groups
      PROVE  Cardinality(MembersOf(g))' = Cardinality(MembersOf(g))
  <2>1. CASE g = h
    <3>1. /\ MembersOf(g)' = (MembersOf(g) \ {u}) \cup {v}
          /\ u \in MembersOf(g) /\ v \notin MembersOf(g)
      BY <1>0, <1>1, <2>1 DEF MembersOf, TypeOK, PassSocket
    <3> QED
      BY <3>1, UserChanges, UsersAreUsers
  <2>2. CASE g # h
    BY <1>0, <2>2, SocketAssumption DEF MembersOf, TypeOK, PassSocket
  <2> QED
    BY <2>1, <2>2
<1>6. ref' = ref /\ member' = member
  BY DEF PassSocket
<1>7. \A a \in BindAddrs : ref'[a] = Cardinality(UsersOf(a))'
  BY <1>4, <1>6 DEF CountsBalanced
<1>8. \A g \in Groups : member'[g] = Cardinality(MembersOf(g))'
  BY <1>5, <1>6 DEF CountsBalanced
<1> QED
  BY <1>2, <1>7, <1>8 DEF CountsBalanced

\* A step that touches no count, or counts up and down again.
LEMMA SameCounts ==
    ASSUME TypeOK, CountsBalanced, UNCHANGED <<ref, member, hold>>
    PROVE  /\ CountsBalanced'
           /\ ref' \in [BindAddrs -> Nat]
           /\ member' \in [Groups -> Nat]
           /\ hold' \in [Users -> Handles]
BY DEF TypeOK, CountsBalanced, UsersOf, MembersOf

LEMMA FailedJoinSameCounts ==
    ASSUME TypeOK, NEW a \in BindAddrs
    PROVE  AfterJoinFailed(a) = ref
<1>1. ref \in [BindAddrs -> Nat]
  BY DEF TypeOK
<1>2. Counted(a) = [b \in BindAddrs |-> IF b = a THEN ref[b] + 1 ELSE ref[b]]
  BY <1>1 DEF Counted
<1>3. AfterJoinFailed(a) =
        [b \in BindAddrs |-> IF b = a THEN (ref[b] + 1) - 1 ELSE ref[b]]
  BY <1>2 DEF AfterJoinFailed
<1>4. \A b \in BindAddrs : (ref[b] + 1) - 1 = ref[b]
  BY <1>1
<1>5. AfterJoinFailed(a) = [b \in BindAddrs |-> ref[b]]
  BY <1>3, <1>4, Zenon
<1>6. ref = [b \in BindAddrs |-> ref[b]]
  BY <1>1
<1> QED
  BY <1>5, <1>6

----------------------------------------------------------------------------
(* The descriptors.                                                         *)

LEMMA HighestStays ==
    ASSUME TypeOK, HighestCovers, NEW s \in Fds
    PROVE  /\ AddedTo(s) \in Fds
           /\ \A t \in master_set \cup {s} : t <= AddedTo(s)
           /\ RemovedFrom(s) \in Fds
           /\ \A t \in master_set \ {s} : t <= RemovedFrom(s)
BY SocketAssumption DEF TypeOK, HighestCovers, AddedTo, RemovedFrom, Fds

\* Steps that open, close and watch nothing.
LEMMA SameSets ==
    ASSUME TypeOK, HeldAreWatched, HighestCovers,
           UNCHANGED <<fd, open, master_set, highest>>,
           \A u \in Users : hold'[u] # None => fd[BindOf(hold'[u])] # NoFd
    PROVE  /\ HeldAreWatched' /\ HighestCovers'
           /\ fd' \in [BindAddrs -> Fds \cup {NoFd}]
           /\ open' \subseteq Fds /\ master_set' \subseteq Fds
           /\ highest' \in Fds
BY DEF TypeOK, HeldAreWatched, HighestCovers

\* createSocket() succeeded for the address of h.
LEMMA NewSocket ==
    ASSUME TypeOK, HeldAreWatched, HighestCovers,
           NEW h \in BindAddrs \cup Groups, NEW s \in Fds,
           fd[BindOf(h)] = NoFd, s \notin open,
           fd' = [fd EXCEPT ![BindOf(h)] = s],
           open' = open \cup {s}, master_set' = master_set \cup {s},
           highest' = AddedTo(s),
           \A u \in Users : hold'[u] \in {hold[u], h}
    PROVE  /\ HeldAreWatched' /\ HighestCovers'
           /\ fd' \in [BindAddrs -> Fds \cup {NoFd}]
           /\ open' \subseteq Fds /\ master_set' \subseteq Fds
           /\ highest' \in Fds
<1>1. BindOf(h) \in BindAddrs /\ s # NoFd
  BY BindOfHandle, SocketAssumption DEF Fds, NoFd
<1>2. fd' \in [BindAddrs -> Fds \cup {NoFd}] /\ open' \subseteq Fds
      /\ master_set' \subseteq Fds
  BY <1>1 DEF TypeOK
<1>3. HighestCovers' /\ highest' \in Fds
  BY HighestStays DEF HighestCovers
<1>4. \A a \in BindAddrs : fd[a] # s
  BY <1>1 DEF HeldAreWatched
<1>5. \A a \in BindAddrs : fd'[a] = IF a = BindOf(h) THEN s ELSE fd[a]
  BY <1>1 DEF TypeOK
<1>6. HeldAreWatched'
  <2>1. \A u \in Users : hold'[u] # None => fd'[BindOf(hold'[u])] # NoFd
    <3> SUFFICES ASSUME NEW u \in Users, hold'[u] # None
                 PROVE  fd'[BindOf(hold'[u])] # NoFd
      OBVIOUS
    <3>1. CASE hold'[u] = h
      BY <1>1, <1>5, <3>1
    <3>2. CASE hold'[u] = hold[u]
      <4>1. hold[u] \in BindAddrs \cup Groups
        BY <3>2 DEF TypeOK, Handles
      <4>2. BindOf(hold[u]) \in BindAddrs
        BY <4>1, BindOfHandle
      <4> QED
        BY <1>1, <1>5, <3>2, <4>2 DEF HeldAreWatched
    <3> QED
      BY <3>1, <3>2
  <2>2. \A a \in BindAddrs : fd'[a] # NoFd => fd'[a] \in master_set'
    BY <1>5 DEF HeldAreWatched
  <2>3. \A a, b \in BindAddrs : a # b /\ fd'[a] = fd'[b] => fd'[a] = NoFd
    BY <1>4, <1>5 DEF HeldAreWatched
  <2>4. master_set' \subseteq open'
    BY DEF HeldAreWatched
  <2> QED
    BY <2>1, <2>2, <2>3, <2>4 DEF HeldAreWatched, BindOf
<1> QED
  BY <1>2, <1>3, <1>6

----------------------------------------------------------------------------
(* Every step.                                                              *)

LEMMA InitUInv == Init => UInv
<1> SUFFICES ASSUME Init PROVE UInv
  OBVIOUS
<1>1. TypeOK
  BY SocketAssumption DEF Init, TypeOK, Handles, Fds
<1>2. CountsBalanced
  <2>1. \A a \in BindAddrs : UsersOf(a) = {}
    BY DEF Init, UsersOf
  <2>2. \A g \in Groups : MembersOf(g) = {}
    BY SocketAssumption DEF Init, MembersOf
  <2> QED
    BY <2>1, <2>2, FS_EmptySet DEF Init, CountsBalanced
<1>3. HeldAreWatched /\ HighestCovers
  BY DEF Init, HeldAreWatched, HighestCovers
<1> QED
  BY <1>1, <1>2, <1>3 DEF UInv

LEMMA GrabUInv ==
    ASSUME UInv, NEW u \in Users, NEW h \in BindAddrs \cup Groups, Grab(u, h)
    PROVE  UInv'
<1> USE DEF UInv
<1>0. BindOf(h) \in BindAddrs /\ h # None
  BY BindOfHandle
<1>1. CASE GrabShared(u, h)
  <2>1. /\ CountsBalanced'
        /\ ref' \in [BindAddrs -> Nat] /\ member' \in [Groups -> Nat]
        /\ hold' \in [Users -> Handles]
    BY <1>1, GrabbedBalances DEF GrabShared
  <2>2. \A w \in Users : hold'[w] # None => fd[BindOf(hold'[w])] # NoFd
    BY <1>1 DEF GrabShared, TypeOK, HeldAreWatched
  <2>3. /\ HeldAreWatched' /\ HighestCovers'
        /\ fd' \in [BindAddrs -> Fds \cup {NoFd}]
        /\ open' \subseteq Fds /\ master_set' \subseteq Fds
        /\ highest' \in Fds
    BY <1>1, <2>2, SameSets DEF GrabShared, sets
  <2> QED
    BY <1>1, <2>1, <2>3 DEF GrabShared, TypeOK
<1>2. CASE JoinFails(u, h)
  <2>1. ref' = ref /\ member' = member /\ hold' = hold
    BY <1>0, <1>2, FailedJoinSameCounts DEF JoinFails
  <2>2. /\ CountsBalanced'
        /\ ref' \in [BindAddrs -> Nat] /\ member' \in [Groups -> Nat]
        /\ hold' \in [Users -> Handles]
    BY <2>1, SameCounts
  <2>3. \A w \in Users : hold'[w] # None => fd[BindOf(hold'[w])] # NoFd
    BY <2>1 DEF HeldAreWatched
  <2>4. /\ HeldAreWatched' /\ HighestCovers'
        /\ fd' \in [BindAddrs -> Fds \cup {NoFd}]
        /\ open' \subseteq Fds /\ master_set' \subseteq Fds
        /\ highest' \in Fds
    BY <1>2, <2>3, SameSets DEF JoinFails, sets
  <2> QED
    BY <1>2, <2>2, <2>4 DEF JoinFails, TypeOK
<1>3. ASSUME NEW s \in Fds, GrabNew(u, h, s)
      PROVE  UInv'
  <2>1. /\ CountsBalanced'
        /\ ref' \in [BindAddrs -> Nat] /\ member' \in [Groups -> Nat]
        /\ hold' \in [Users -> Handles]
    BY <1>3, GrabbedBalances DEF GrabNew
  <2>2. \A w \in Users : hold'[w] \in {hold[w], h}
    BY <1>3 DEF GrabNew, TypeOK
  <2>3. /\ HeldAreWatched' /\ HighestCovers'
        /\ fd' \in [BindAddrs -> Fds \cup {NoFd}]
        /\ open' \subseteq Fds /\ master_set' \subseteq Fds
        /\ highest' \in Fds
    BY <1>3, <2>2, NewSocket DEF GrabNew
  <2> QED
    BY <1>3, <2>1, <2>3 DEF GrabNew, TypeOK
<1>4. ASSUME NEW s \in Fds, CreateFails(u, h, s)
      PROVE  UInv'
  <2>1. /\ CountsBalanced'
        /\ ref' \in [BindAddrs -> Nat] /\ member' \in [Groups -> Nat]
        /\ hold' \in [Users -> Handles]
    BY <1>4, SameCounts DEF CreateFails, tables
  <2>2. highest' \in Fds /\ \A t \in master_set \ {s} : t <= highest'
    BY <1>4, HighestStays DEF CreateFails
  <2>3. s \notin master_set
    BY <1>4 DEF CreateFails, HeldAreWatched
  <2> QED
    BY <1>4, <2>1, <2>2, <2>3
       DEF CreateFails, TypeOK, tables, HeldAreWatched, HighestCovers
<1>5. ASSUME NEW s \in Fds, JoinFailsNew(u, h, s)
      PROVE  UInv'
  <2>1. ref' = ref /\ member' = member /\ hold' = hold
    BY <1>0, <1>5, FailedJoinSameCounts DEF JoinFailsNew
  <2>2. /\ CountsBalanced'
        /\ ref' \in [BindAddrs -> Nat] /\ member' \in [Groups -> Nat]
        /\ hold' \in [Users -> Handles]
    BY <2>1, SameCounts
  <2>3. \A w \in Users : hold'[w] \in {hold[w], h}
    BY <2>1
  <2>4. /\ HeldAreWatched' /\ HighestCovers'
        /\ fd' \in [BindAddrs -> Fds \cup {NoFd}]
        /\ open' \subseteq Fds /\ master_set' \subseteq Fds
        /\ highest' \in Fds
    BY <1>5, <2>3, NewSocket DEF JoinFailsNew
  <2> QED
    BY <1>5, <2>2, <2>4 DEF JoinFailsNew, TypeOK
<1> QED
  BY <1>1, <1>2, <1>3, <1>4, <1>5 DEF Grab

LEMMA OtherUInv ==
    ASSUME UInv, NEW s \in Fds,
           OpenOther(s) \/ RejectOther(s) \/ CloseOther(s) \/ CloseRejected(s)
    PROVE  UInv'
<1> USE DEF UInv
<1>0. UNCHANGED <<fd, ref, member, hold, queued>>
  BY DEF OpenOther, RejectOther, CloseOther, CloseRejected, tables
<1>1. /\ CountsBalanced'
      /\ ref' \in [BindAddrs -> Nat] /\ member' \in [Groups -> Nat]
      /\ hold' \in [Users -> Handles]
  BY <1>0, SameCounts
<1>2. HighestCovers' /\ highest' \in Fds
  <2>1. CASE RejectOther(s)
    BY <2>1 DEF RejectOther, HighestCovers, TypeOK
  <2>2. CASE OpenOther(s) \/ CloseOther(s)
    BY <2>2, HighestStays
       DEF OpenOther, CloseOther, HighestCovers, MasterSetWithout
  <2>3. CASE CloseRejected(s)
    <3>1. master_set' = master_set /\ s \notin master_set /\ highest' = RemovedFrom(s)
      BY <2>3 DEF CloseRejected
    <3> QED
      BY <3>1, HighestStays DEF HighestCovers
  <2> QED
    BY <2>1, <2>2, <2>3
<1>3. HeldAreWatched'
  BY <1>0 DEF OpenOther, RejectOther, CloseOther, CloseRejected, HeldAreWatched,
              MasterSetWithout, BindOf
<1>4. open' \subseteq Fds /\ master_set' \subseteq Fds
  BY DEF OpenOther, RejectOther, CloseOther, CloseRejected, MasterSetWithout, TypeOK
<1> QED
  BY <1>0, <1>1, <1>2, <1>3, <1>4 DEF TypeOK

LEMMA ReleaseUInv ==
    ASSUME UInv, NEW u \in Users, ReleaseSocket(u)
    PROVE  UInv'
<1> USE DEF UInv
<1>1. /\ CountsBalanced'
      /\ ref' \in [BindAddrs -> Nat] /\ member' \in [Groups -> Nat]
      /\ hold' \in [Users -> Handles]
  BY ReleasedBalances
<1>2. \A w \in Users : hold'[w] # None => fd[BindOf(hold'[w])] # NoFd
  BY DEF ReleaseSocket, TypeOK, HeldAreWatched
<1>3. /\ HeldAreWatched' /\ HighestCovers'
      /\ fd' \in [BindAddrs -> Fds \cup {NoFd}]
      /\ open' \subseteq Fds /\ master_set' \subseteq Fds
      /\ highest' \in Fds
  BY <1>2, SameSets DEF ReleaseSocket, sets
<1> QED
  BY <1>1, <1>3 DEF ReleaseSocket, TypeOK

LEMMA PassUInv ==
    ASSUME UInv, NEW u \in Users, NEW v \in Users, PassSocket(u, v)
    PROVE  UInv'
<1> USE DEF UInv
<1>1. CountsBalanced' /\ hold' \in [Users -> Handles]
  BY PassedBalances
<1>2. \A w \in Users : hold'[w] # None => fd[BindOf(hold'[w])] # NoFd
  BY DEF PassSocket, TypeOK, HeldAreWatched
<1>3. /\ HeldAreWatched' /\ HighestCovers'
      /\ fd' \in [BindAddrs -> Fds \cup {NoFd}]
      /\ open' \subseteq Fds /\ master_set' \subseteq Fds
      /\ highest' \in Fds
  BY <1>2, SameSets DEF PassSocket, sets
<1> QED
  BY <1>1, <1>3 DEF PassSocket, TypeOK

LEMMA DatagramUInv ==
    ASSUME UInv, NEW a \in BindAddrs, Arrive(a) \/ Drain(a)
    PROVE  UInv'
<1> USE DEF UInv
<1>0. UNCHANGED <<tables, sets>>
  BY DEF Drain, Arrive
<1>1. queued' \in [BindAddrs -> 0 .. Backlog]
  <2>1. CASE Drain(a)
    <3>1. Limit(a) \in Nat /\ queued[a] \in Nat /\ queued[a] <= Backlog
      BY SocketAssumption DEF Limit, TypeOK
    <3>2. LeftAfter(a) \in 0 .. Backlog
      BY <3>1, SocketAssumption DEF LeftAfter
    <3> QED
      BY <2>1, <3>2 DEF Drain, TypeOK
  <2>2. CASE Arrive(a)
    BY <2>2, SocketAssumption DEF Arrive, TypeOK
  <2> QED
    BY <2>1, <2>2
<1>2. /\ CountsBalanced'
      /\ ref' \in [BindAddrs -> Nat] /\ member' \in [Groups -> Nat]
      /\ hold' \in [Users -> Handles]
  BY <1>0, SameCounts DEF tables
<1>3. HeldAreWatched' /\ HighestCovers'
  BY <1>0 DEF tables, sets, HeldAreWatched, HighestCovers, BindOf
<1> QED
  BY <1>0, <1>1, <1>2, <1>3 DEF tables, sets, TypeOK

LEMMA NextUInv == UInv /\ [Next]_vars => UInv'
<1> SUFFICES ASSUME UInv, [Next]_vars PROVE UInv'
  OBVIOUS
<1>1. CASE UNCHANGED vars
  BY <1>1 DEF vars, UInv, TypeOK, CountsBalanced, HeldAreWatched,
     HighestCovers, UsersOf, MembersOf, BindOf
<1>2. CASE Next
  BY <1>2, GrabUInv, OtherUInv, ReleaseUInv, PassUInv, DatagramUInv DEF Next
<1> QED
  BY <1>1, <1>2

LEMMA UInvHolds == Spec => []UInv
BY InitUInv, NextUInv, PTL DEF Spec

\* Every variable keeps its type; the counts never fall below zero.
THEOREM SocketTypes == Spec => []TypeOK
BY UInvHolds, PTL DEF UInv

\* GrabSocket() and ReleaseSocket() keep every count equal to the number of
\* ends that use the entry, whatever fails in between.
THEOREM CountsAreUses == Spec => []CountsBalanced
BY UInvHolds, PTL DEF UInv

\* Every end's socket is open, watched and used for one address only.
THEOREM HeldSocketsWatched == Spec => []HeldAreWatched
BY UInvHolds, PTL DEF UInv

\* select() sees every watched descriptor.
THEOREM SelectSeesAll == Spec => []HighestCovers
BY UInvHolds, PTL DEF UInv

----------------------------------------------------------------------------
(* The loop.                                                                *)

ListenerFds == {listener[k] : k \in Turns}

\* Nothing is open before the start.
Fresh ==
    phase = "init" =>
        /\ \A a \in BindAddrs : fd[a] = NoFd
        /\ \A u \in Users : hold[u] = None
        /\ open = {} /\ master_set = {}
        /\ serving = NoFd /\ read_set = {}

\* A message is handled in the last part of a pass, for a connection that is
\* not looked at again.
Served == serving # NoFd => phase = "tcp" /\ serving \in tcp /\ serving \notin read_set

\* What is watched, and what is left in read_set.
PassInv ==
    Running =>
        /\ \A s \in master_set : \/ s \in tcp \cup ListenerFds
                                 \/ \E a \in BindAddrs : fd[a] = s
        /\ read_set \subseteq master_set
        /\ phase \in {"select", "manage"} => read_set = {}
        /\ phase = "listeners" => \A k \in Turns : k < turn => listener[k] \notin read_set
        /\ phase \in {"udp", "tcp"} => ListenerFds \cap read_set = {}
        /\ phase = "udp" => \A a \in BindAddrs : fd[a] \in read_set => a \in todo
        /\ phase = "tcp" => \A a \in BindAddrs : fd[a] \notin read_set

TurnInv == turn \in 1 .. Len(Listeners) + 1 /\ (phase \in {"listeners", "finish"} => turn \in Turns)

LInv == UInv /\ LoopTypeOK /\ TurnInv /\ Fresh /\ Served /\ PassInv

----------------------------------------------------------------------------
(* New descriptors.                                                          *)

\* The system finds a free descriptor if there is one.
LEMMA LowestIsFree ==
    ASSUME CanOpen
    PROVE  Lowest \in Fds \ open
<1> DEFINE Free == Fds \ open
           Upto(s) == 0 .. s
           B == {Upto(s) : s \in Free}
<1>1. IsWellFoundedOn(StrictSubsetOrdering(Fds), SUBSET Fds)
  <2>1. 0 \in Int /\ MaxFd \in Int
    BY SocketAssumption
  <2>2. IsFiniteSet(Fds)
    BY <2>1, FS_Interval DEF Fds
  <2> QED
    BY <2>2, FS_StrictSubsetOrderingWellFounded, FS_FiniteSubsetsOfFinite
<1>2. B \subseteq SUBSET Fds /\ B # {}
  BY SocketAssumption DEF Fds, CanOpen
<1>3. PICK b \in B : \A x \in B : ~(<<x, b>> \in StrictSubsetOrdering(Fds))
  <2> HIDE DEF B
  <2> QED BY <1>1, <1>2, WFMin
<1>4. PICK s \in Free : b = Upto(s)
  BY <1>3
<1>5. ASSUME NEW t \in Free
      PROVE  s <= t
  <2>1. SUFFICES ASSUME t < s
                 PROVE  FALSE
    BY SocketAssumption DEF Fds
  <2>2. Upto(t) \subseteq Upto(s) /\ s \in Upto(s) /\ s \notin Upto(t)
    BY <2>1, SocketAssumption DEF Fds
  <2>3. Upto(t) \in SUBSET Fds /\ Upto(s) \in SUBSET Fds
    BY SocketAssumption DEF Fds
  <2>4. Upto(t) # Upto(s)
    BY <2>2
  <2>5. <<Upto(t), Upto(s)>> \in StrictSubsetOrdering(Fds)
    <3> HIDE DEF Upto
    <3> QED
      BY <2>2, <2>3, <2>4 DEF StrictSubsetOrdering
  <2> QED
    BY <1>3, <1>4, <2>5
<1>6. \E x \in Fds \ open : \A t \in Fds \ open : x <= t
  BY <1>5
<1> QED
  BY <1>6 DEF Lowest

\* The listeners' descriptors.
LEMMA FirstFdsType ==
    /\ \A k \in Turns : FirstFds[k] \in 0 .. Len(Listeners) - 1
    /\ FirstFds \in [Turns -> Fds]
    /\ Len(Listeners) - 1 \in Fds
<1>1. Len(Listeners) \in 1 .. MaxFd + 1 /\ MaxFd \in Nat
  BY ListenerAssumption, SocketAssumption
<1>2. \A k \in Turns : FirstFds[k] \in 0 .. Len(Listeners) - 1
  BY <1>1 DEF FirstFds, Turns
<1>3. FirstFds \in [Turns -> Fds]
  BY <1>1, <1>2 DEF FirstFds, Fds, Turns
<1> QED
  BY <1>1, <1>2, <1>3 DEF Fds

----------------------------------------------------------------------------
(* The sockets.                                                              *)

\* The start apart, the loop does what UdpSockets allows.
LEMMA StepIsSocketStep ==
    ASSUME LInv, [LoopNext]_allVars
    PROVE  NetworkHandlerInitialize \/ [Next]_vars
<1>1. ASSUME NEW u \in Users, NEW h \in BindAddrs \cup Groups, LoopGrab(u, h)
      PROVE  Next
  BY <1>1, LowestIsFree DEF LoopGrab, Next, Grab
<1>2. ASSUME Accept \/ AcceptRejected \/ AcceptUnnamed
      PROVE  Next
  BY <1>2, LowestIsFree DEF Accept, AcceptRejected, AcceptUnnamed, Next
<1>3. ASSUME NEW a \in BindAddrs, UdpSocket(a)
      PROVE  [Next]_vars
  BY <1>3 DEF UdpSocket, Next
<1>4. ASSUME TcpClosed
      PROVE  Next
  BY <1>4 DEF TcpClosed, CloseTcp, Next, LInv, LoopTypeOK
<1>5. ASSUME NEW s \in Fds, TimeOut(s) \/ ShutdownTcp(s)
      PROVE  Next
  BY <1>5 DEF TimeOut, ShutdownTcp, CloseTcp, CloseUnnamed, Next
<1>6. ASSUME FinishListener
      PROVE  Next
  <2>1. CloseOther(listener[turn]) /\ listener[turn] \in master_set
    BY <1>6 DEF FinishListener, CloseOther
  <2>2. listener[turn] \in Fds
    BY <2>1 DEF LInv, UInv, TypeOK
  <2> QED
    BY <2>1, <2>2 DEF Next
<1>7. ASSUME NEW u \in Users, NEW v \in Users, LoopRelease(u) \/ LoopPass(u, v)
      PROVE  Next
  BY <1>7 DEF LoopRelease, LoopPass, Next
<1>8. ASSUME NEW a \in BindAddrs, PeerSendsUdp(a)
      PROVE  Next
  BY <1>8 DEF PeerSendsUdp, Next
<1>9. ASSUME \/ InitializeFails \/ Select \/ NothingToAccept \/ AcceptFails
             \/ \E k \in Turns \ {1} : Datagram(k)
             \/ UdpDone \/ \E s \in Fds : TcpRead(s) \/ PeerSends(s)
             \/ TcpAnswered \/ TcpDone \/ PassEnds \/ Stop \/ ShutdownEnds
             \/ UNCHANGED allVars
      PROVE  UNCHANGED vars
  BY <1>9 DEF InitializeFails, Select, NothingToAccept, AcceptFails, Datagram, UdpDone,
              TcpRead, PeerSends, TcpAnswered, TcpDone, PassEnds, Stop, ShutdownEnds, allVars
<1>10. ASSUME NEW u \in Users, LoopRelease(u)
       PROVE  Next
  BY <1>7, <1>10
<1> QED
  BY <1>1, <1>2, <1>3, <1>4, <1>5, <1>6, <1>7, <1>8, <1>9, <1>10 DEF LoopNext, LoopStep

\* The start opens the listeners and nothing else.
LEMMA StartUInv ==
    ASSUME LInv, NetworkHandlerInitialize
    PROVE  UInv'
<1>1. /\ UNCHANGED <<fd, ref, member, hold, queued>>
      /\ open' = {FirstFds[k] : k \in Turns} /\ master_set' = open'
      /\ highest' = Len(Listeners) - 1
      /\ \A a \in BindAddrs : fd[a] = NoFd
      /\ \A u \in Users : hold[u] = None
  BY DEF NetworkHandlerInitialize, tables, LInv, Fresh
<1>2. open' \subseteq Fds /\ highest' \in Fds
  BY <1>1, FirstFdsType
<1>3. TypeOK'
  BY <1>1, <1>2 DEF LInv, UInv, TypeOK
<1>4. CountsBalanced'
  BY <1>1, SameCounts DEF LInv, UInv
<1>5. HeldAreWatched'
  BY <1>1 DEF HeldAreWatched
<1>6. HighestCovers'
  <2>1. Len(Listeners) \in Nat
    BY ListenerAssumption
  <2> QED
    BY <1>1, <2>1, FirstFdsType DEF HighestCovers
<1> QED
  BY <1>3, <1>4, <1>5, <1>6 DEF UInv

LEMMA SocketsKept ==
    ASSUME LInv, [LoopNext]_allVars
    PROVE  UInv'
BY StepIsSocketStep, StartUInv, NextUInv DEF LInv

----------------------------------------------------------------------------
(* A pass.                                                                   *)

\* The invariant but for the sockets.
RestInv == LoopTypeOK /\ TurnInv /\ Fresh /\ Served /\ PassInv

LEMMA SetsAreFds ==
    ASSUME LInv
    PROVE  /\ open \subseteq Fds /\ master_set \subseteq open
           /\ tcp \subseteq Fds /\ unnamed \subseteq Fds /\ read_set \subseteq Fds /\ pending \subseteq open
           /\ \A s \in Fds : s # NoFd
           /\ \A k \in Turns : k \in Nat
BY SocketAssumption, ListenerAssumption
   DEF LInv, UInv, TypeOK, HeldAreWatched, LoopTypeOK, Fds, NoFd, Turns

\* The start.
LEMMA StartRest ==
    ASSUME LInv, NetworkHandlerInitialize \/ InitializeFails
    PROVE  RestInv'
<1>1. UInv'
  BY SocketsKept DEF LoopNext
<1>2. CASE NetworkHandlerInitialize
  <2>1. /\ phase' = "select" /\ listener' = FirstFds /\ UNCHANGED <<turn, tcp, unnamed, pending, read_set, todo, scan, serving>>
        /\ master_set' = {FirstFds[k] : k \in Turns} /\ open' = master_set'
    BY <1>2 DEF NetworkHandlerInitialize
  <2>2. pending = {} /\ read_set = {} /\ serving = NoFd
    BY <1>2 DEF LInv, Fresh, LoopTypeOK, NetworkHandlerInitialize
  <2>3. LoopTypeOK'
    BY <1>1, <2>1, <2>2, FirstFdsType DEF LInv, UInv, LoopTypeOK, Phases
  <2>4. PassInv'
    BY <2>1, <2>2, FirstFdsType DEF PassInv, ListenerFds
  <2> QED
    BY <2>1, <2>2, <2>3, <2>4 DEF LInv, RestInv, TurnInv, Fresh, Served
<1>3. CASE InitializeFails
  BY <1>1, <1>3
     DEF InitializeFails, LInv, UInv, RestInv, LoopTypeOK, TurnInv, Fresh, Served, PassInv,
         Phases, Running, vars
<1> QED
  BY <1>2, <1>3

\* select(), and the listeners.
LEMMA SelectRest ==
    ASSUME LInv, Select
    PROVE  RestInv'
<1>1. UInv'
  BY SocketsKept DEF LoopNext, LoopStep
<1>2. /\ UNCHANGED <<vars, listener, tcp, unnamed, pending, todo, scan, serving>>
      /\ read_set' = Ready /\ turn' = 1 /\ phase = "select"
      /\ phase' = IF Ready = {} THEN "manage" ELSE "listeners"
      /\ Ready \subseteq master_set
  BY DEF Select, Ready
<1>3. serving = NoFd
  BY <1>2 DEF LInv, Served
<1>4. LoopTypeOK'
  BY <1>1, <1>2, SetsAreFds, ListenerAssumption DEF LInv, UInv, LoopTypeOK, Phases, vars
<1>5. TurnInv' /\ Fresh' /\ Served'
  BY <1>2, <1>3, ListenerAssumption DEF TurnInv, Fresh, Served, Turns
<1>6. PassInv'
  <2>1. \A s \in master_set : s \in tcp \cup ListenerFds \/ \E a \in BindAddrs : fd[a] = s
    BY <1>2 DEF LInv, PassInv, Running
  <2>2. \A k \in Turns : ~(k < 1)
    BY DEF Turns
  <2> QED
    BY <1>2, <2>1, <2>2 DEF PassInv, ListenerFds, vars
<1> QED
  BY <1>4, <1>5, <1>6 DEF RestInv

\* A listener has been looked at: it is no longer in read_set.
LEMMA ListenerRest ==
    ASSUME LInv, UInv', NEW k \in Turns, AtListener(k), Unmark(listener[k]), NextTurn,
           fd' = fd, listener' = listener, scan' = scan, serving' = serving,
           open \subseteq open', master_set \subseteq master_set',
           pending' \subseteq pending, tcp \subseteq tcp', tcp' \subseteq Fds, unnamed' \subseteq Fds,
           \A s \in master_set' \ master_set : s \in tcp'
    PROVE  RestInv'
<1>1. /\ turn = k /\ phase = "listeners" /\ turn' = k + 1
      /\ Len(Listeners) \in Nat /\ k \in 1 .. Len(Listeners) /\ serving = NoFd
  BY ListenerAssumption DEF AtListener, NextTurn, Turns, LInv, Served
<1>2. read_set' = read_set \ {listener[k]}
  BY DEF Unmark
<1>3. \/ k = Len(Listeners) /\ phase' = "udp" /\ todo' = AllSockets
      \/ k < Len(Listeners) /\ phase' = "listeners" /\ todo' = todo
  BY <1>1 DEF NextTurn
<1>4. todo' \subseteq BindAddrs
  BY <1>3 DEF LInv, LoopTypeOK, AllSockets, Sockets
<1>5. LoopTypeOK'
  BY <1>1, <1>2, <1>3, <1>4 DEF LInv, UInv, LoopTypeOK, Phases
<1>6. TurnInv' /\ Fresh' /\ Served'
  BY <1>1, <1>3 DEF TurnInv, Fresh, Served, Turns
<1>7. PassInv'
  <2>1. /\ \A s \in master_set : s \in tcp \cup ListenerFds \/ \E a \in BindAddrs : fd[a] = s
        /\ read_set \subseteq master_set
        /\ \A j \in Turns : j < k => listener[j] \notin read_set
    BY <1>1 DEF LInv, PassInv, Running
  <2>2. \A s \in master_set' : s \in tcp' \cup ListenerFds' \/ \E a \in BindAddrs : fd'[a] = s
    BY <2>1 DEF ListenerFds
  <2>3. \A j \in Turns : j < k + 1 => listener'[j] \notin read_set'
    BY <1>1, <1>2, <2>1 DEF Turns
  <2>4. k = Len(Listeners) => ListenerFds' \cap read_set' = {}
    BY <1>1, <2>3 DEF ListenerFds, Turns
  <2>5. todo' = AllSockets => \A a \in BindAddrs : fd'[a] \in read_set' => a \in todo'
    BY <1>2, SetsAreFds DEF AllSockets, Sockets
  <2> QED
    BY <1>1, <1>2, <1>3, <2>1, <2>2, <2>3, <2>4, <2>5 DEF PassInv
<1> QED
  BY <1>5, <1>6, <1>7 DEF RestInv

LEMMA ListenersRest ==
    ASSUME LInv, UInv',
           \/ NothingToAccept \/ Accept \/ AcceptRejected \/ AcceptUnnamed \/ AcceptFails
           \/ \E k \in Turns \ {1} : Datagram(k)
    PROVE  RestInv'
<1>1. 1 \in Turns
  BY ListenerAssumption DEF Turns
<1>2. CASE NothingToAccept \/ AcceptFails
  BY <1>1, <1>2, SetsAreFds, ListenerRest DEF NothingToAccept, AcceptFails, vars
<1>3. CASE Accept
  <2>1. Lowest \in Fds
    BY <1>3, LowestIsFree DEF Accept
  <2> QED
    BY <1>1, <1>3, <2>1, SetsAreFds, ListenerRest DEF Accept, OpenOther, tables
<1>4. CASE AcceptRejected \/ AcceptUnnamed
  <2>1. Lowest \in Fds
    BY <1>4, LowestIsFree DEF AcceptRejected, AcceptUnnamed
  <2> QED
    BY <1>1, <1>4, <2>1, SetsAreFds, ListenerRest
       DEF AcceptRejected, AcceptUnnamed, RejectOther, tables
<1>5. ASSUME NEW k \in Turns \ {1}, Datagram(k)
      PROVE  RestInv'
  BY <1>5, SetsAreFds, ListenerRest DEF Datagram, vars
<1> QED
  BY <1>2, <1>3, <1>4, <1>5

\* The UDP sockets.
LEMMA UdpRest ==
    ASSUME LInv, UInv', UdpDone \/ \E a \in BindAddrs : UdpSocket(a)
    PROVE  RestInv'
<1>1. CASE UdpDone
  <2>1. /\ UNCHANGED <<vars, turn, listener, tcp, unnamed, pending, read_set, todo, serving>>
        /\ phase = "udp" /\ todo = {} /\ phase' = "tcp" /\ scan' = 0
    BY <1>1 DEF UdpDone
  <2>2. 0 \in 0 .. MaxFd + 1
    BY SocketAssumption
  <2>3. LoopTypeOK'
    BY <2>1, <2>2 DEF LInv, UInv, LoopTypeOK, Phases, vars
  <2>4. TurnInv' /\ Fresh' /\ Served'
    BY <2>1 DEF LInv, TurnInv, Fresh, Served
  <2>5. PassInv'
    BY <2>1 DEF LInv, PassInv, Running, ListenerFds, vars
  <2> QED
    BY <2>3, <2>4, <2>5 DEF RestInv
<1>2. ASSUME NEW a \in BindAddrs, UdpSocket(a)
      PROVE  RestInv'
  <2>1. /\ UNCHANGED <<fd, open, master_set, phase, turn, listener, tcp, unnamed, pending, scan, serving>>
        /\ phase = "udp" /\ read_set' = read_set \ {fd[a]} /\ todo' = todo \ {a}
    BY <1>2 DEF UdpSocket, Unmark, Drain, vars, tables, sets
  <2>2. LoopTypeOK'
    BY <2>1 DEF LInv, UInv, LoopTypeOK
  <2>3. TurnInv' /\ Fresh' /\ Served'
    BY <2>1 DEF LInv, TurnInv, Fresh, Served
  <2>4. PassInv'
    BY <2>1 DEF LInv, PassInv, Running, ListenerFds
  <2> QED
    BY <2>2, <2>3, <2>4 DEF RestInv
<1> QED
  BY <1>1, <1>2

\* What is left in read_set, after the listeners and the UDP sockets, are
\* connections.
LEMMA RemainingAreTcp ==
    ASSUME LInv, phase = "tcp"
    PROVE  Remaining \subseteq tcp
BY DEF LInv, PassInv, Running, Remaining

\* The connections.
LEMMA TcpRest ==
    ASSUME LInv, UInv', (\E s \in Fds : TcpRead(s)) \/ TcpAnswered \/ TcpClosed \/ TcpDone
    PROVE  RestInv'
<1>1. ASSUME NEW s \in Fds, TcpRead(s)
      PROVE  RestInv'
  <2>1. /\ UNCHANGED <<vars, phase, turn, listener, tcp, unnamed, todo>>
        /\ phase = "tcp" /\ s \in Remaining /\ serving' = s /\ scan' = s + 1
        /\ pending' = pending \ {s} /\ read_set' = read_set \ {s}
    BY <1>1 DEF TcpRead, Unmark
  <2>2. s \in tcp
    BY <2>1, RemainingAreTcp
  <2>3. s + 1 \in 0 .. MaxFd + 1
    BY SocketAssumption DEF Fds
  <2>4. LoopTypeOK'
    BY <2>1, <2>3 DEF LInv, UInv, LoopTypeOK, vars
  <2>5. TurnInv' /\ Fresh' /\ Served'
    BY <2>1, <2>2 DEF LInv, TurnInv, Fresh, Served
  <2>6. PassInv'
    BY <2>1 DEF LInv, PassInv, Running, ListenerFds, vars
  <2> QED
    BY <2>4, <2>5, <2>6 DEF RestInv
<1>2. CASE TcpAnswered
  <2>1. /\ UNCHANGED <<vars, phase, turn, listener, tcp, unnamed, pending, read_set, todo, scan>>
        /\ serving' = NoFd /\ phase = "tcp"
    BY <1>2 DEF TcpAnswered, LInv, Served
  <2>2. LoopTypeOK'
    BY <2>1 DEF LInv, UInv, LoopTypeOK, vars
  <2>3. TurnInv' /\ Fresh' /\ Served'
    BY <2>1 DEF LInv, TurnInv, Fresh, Served
  <2>4. PassInv'
    BY <2>1 DEF LInv, PassInv, Running, ListenerFds, vars
  <2> QED
    BY <2>2, <2>3, <2>4 DEF RestInv
<1>3. CASE TcpClosed
  <2>1. /\ UNCHANGED <<fd, phase, turn, listener, unnamed, read_set, todo, scan>>
        /\ serving' = NoFd /\ phase = "tcp" /\ serving \notin read_set
        /\ tcp' = tcp \ {serving} /\ pending' = pending \ {serving}
        /\ master_set' = master_set \ {serving} /\ open' = open \ {serving}
    BY <1>3 DEF TcpClosed, CloseTcp, CloseOther, MasterSetWithout, tables, LInv, Served
  <2>2. LoopTypeOK'
    BY <2>1 DEF LInv, UInv, LoopTypeOK
  <2>3. TurnInv' /\ Fresh' /\ Served'
    BY <2>1 DEF LInv, TurnInv, Fresh, Served
  <2>4. PassInv'
    BY <2>1 DEF LInv, PassInv, Running, ListenerFds
  <2> QED
    BY <2>2, <2>3, <2>4 DEF RestInv
<1>4. CASE TcpDone
  <2>1. /\ UNCHANGED <<vars, turn, listener, tcp, unnamed, pending, todo, scan, serving>>
        /\ phase = "tcp" /\ serving = NoFd /\ phase' = "manage" /\ read_set' = {}
    BY <1>4 DEF TcpDone
  <2>2. LoopTypeOK'
    BY <2>1 DEF LInv, UInv, LoopTypeOK, Phases, vars
  <2>3. TurnInv' /\ Fresh' /\ Served'
    BY <2>1 DEF LInv, TurnInv, Fresh, Served
  <2>4. PassInv'
    BY <2>1 DEF LInv, PassInv, Running, ListenerFds, vars
  <2> QED
    BY <2>2, <2>3, <2>4 DEF RestInv
<1> QED
  BY <1>1, <1>2, <1>3, <1>4

\* UDP sockets are opened while a message is handled, or not at all; the
\* descriptor of a new one is not in read_set.
LEMMA HandlesRest ==
    ASSUME LInv, UInv', UNCHANGED loopVars,
           phase = "init" => UNCHANGED vars,
           open \subseteq open', master_set \subseteq master_set',
           Running => \/ fd' = fd /\ master_set' = master_set
                      \/ /\ phase = "tcp"
                         /\ \E a \in BindAddrs, s \in Fds \ open :
                               /\ fd[a] = NoFd /\ fd' = [fd EXCEPT ![a] = s]
                               /\ master_set' = master_set \cup {s}
    PROVE  RestInv'
<1>1. UNCHANGED <<phase, turn, listener, tcp, unnamed, pending, read_set, todo, scan, serving>>
  BY DEF loopVars
<1>2. LoopTypeOK'
  BY <1>1 DEF LInv, UInv, LoopTypeOK
<1>3. TurnInv' /\ Fresh' /\ Served'
  BY <1>1 DEF LInv, TurnInv, Fresh, Served, vars
<1>4. ASSUME Running
      PROVE  PassInv'
  <2>1. CASE fd' = fd /\ master_set' = master_set
    BY <1>1, <1>4, <2>1 DEF LInv, PassInv, Running, ListenerFds
  <2>2. ASSUME phase = "tcp", NEW a \in BindAddrs, NEW s \in Fds \ open,
               fd[a] = NoFd, fd' = [fd EXCEPT ![a] = s], master_set' = master_set \cup {s}
        PROVE  PassInv'
    <3>1. fd \in [BindAddrs -> Fds \cup {NoFd}] /\ s \notin read_set
      BY <1>4, SetsAreFds DEF LInv, UInv, TypeOK, PassInv
    <3>2. \A b \in BindAddrs : fd'[b] \notin read_set
      BY <1>4, <2>2, <3>1 DEF LInv, PassInv
    <3>3. \A x \in master_set' : x \in tcp \cup ListenerFds \/ \E b \in BindAddrs : fd'[b] = x
      <4> SUFFICES ASSUME NEW x \in master_set
                   PROVE  x \in tcp \cup ListenerFds \/ \E b \in BindAddrs : fd'[b] = x
        BY <2>2, <3>1
      <4>1. ASSUME NEW b \in BindAddrs, fd[b] = x
            PROVE  fd'[b] = x
        <5>1. b # a
          BY <2>2, <4>1, SetsAreFds
        <5> QED
          BY <2>2, <3>1, <4>1, <5>1
      <4> QED
        BY <1>4, <4>1 DEF LInv, PassInv
    <3> QED
      BY <1>1, <1>4, <2>2, <3>2, <3>3 DEF LInv, PassInv, ListenerFds
  <2> QED
    BY <1>4, <2>1, <2>2
<1>5. ASSUME ~Running
      PROVE  PassInv'
  BY <1>1, <1>5 DEF Running, PassInv
<1> QED
  BY <1>2, <1>3, <1>4, <1>5 DEF RestInv

LEMMA MessagesRest ==
    ASSUME LInv, UInv',
           \/ \E u \in Users, h \in BindAddrs \cup Groups : LoopGrab(u, h)
           \/ \E u \in Users : LoopRelease(u)
           \/ \E u, v \in Users : LoopPass(u, v)
           \/ \E a \in BindAddrs : PeerSendsUdp(a)
           \/ UNCHANGED allVars
    PROVE  RestInv'
<1>1. ASSUME NEW u \in Users, NEW h \in BindAddrs \cup Groups, LoopGrab(u, h)
      PROVE  RestInv'
  <2>1. phase = "tcp" /\ UNCHANGED loopVars /\ BindOf(h) \in BindAddrs
    BY <1>1, BindOfHandle DEF LoopGrab, LInv, Served
  <2>2. CASE GrabShared(u, h) \/ JoinFails(u, h) \/ \E s \in Fds : CreateFails(u, h, s)
    <3>1. fd' = fd /\ master_set' = master_set /\ open' = open
      BY <2>2 DEF GrabShared, JoinFails, CreateFails, tables, sets
    <3> QED
      BY <2>1, <3>1, HandlesRest
  <2>3. ASSUME NEW s \in Fds \ open, GrabNew(u, h, s) \/ JoinFailsNew(u, h, s)
        PROVE  RestInv'
    <3>1. /\ fd[BindOf(h)] = NoFd /\ fd' = [fd EXCEPT ![BindOf(h)] = s]
          /\ master_set' = master_set \cup {s} /\ open' = open \cup {s}
      BY <2>3 DEF GrabNew, JoinFailsNew
    <3> QED
      BY <2>1, <2>3, <3>1, HandlesRest
  <2> QED
    BY <1>1, <2>2, <2>3, LowestIsFree DEF LoopGrab
<1>2. ASSUME NEW u \in Users, NEW v \in Users, LoopRelease(u) \/ LoopPass(u, v)
      PROVE  RestInv'
  <2>1. /\ fd' = fd /\ master_set' = master_set /\ open' = open /\ UNCHANGED loopVars
    BY <1>2 DEF LoopRelease, LoopPass, ReleaseSocket, PassSocket, sets
  <2>2. phase # "init"
    BY <1>2 DEF LoopRelease, LoopPass, Closing, LInv, Served
  <2> QED
    BY <2>1, <2>2, HandlesRest
<1>3. ASSUME NEW a \in BindAddrs, PeerSendsUdp(a)
      PROVE  RestInv'
  <2>1. fd' = fd /\ master_set' = master_set /\ open' = open /\ UNCHANGED loopVars
    BY <1>3 DEF PeerSendsUdp, Arrive, tables, sets
  <2>2. phase # "init"
    BY <1>3 DEF PeerSendsUdp, Arrive, LInv, Fresh
  <2> QED
    BY <2>1, <2>2, HandlesRest
<1>4. CASE UNCHANGED allVars
  <2>1. UNCHANGED vars /\ UNCHANGED loopVars
    BY <1>4 DEF allVars
  <2>2. fd' = fd /\ master_set' = master_set /\ open' = open
    BY <2>1 DEF vars
  <2> QED
    BY <2>1, <2>2, HandlesRest
<1> QED
  BY <1>1, <1>2, <1>3, <1>4

\* After a pass, and at the end.
LEMMA ManageRest ==
    ASSUME LInv, UInv', (\E s \in Fds : TimeOut(s) \/ ShutdownTcp(s)) \/ PassEnds
    PROVE  RestInv'
<1>1. ASSUME NEW s \in Fds, TimeOut(s) \/ ShutdownTcp(s)
      PROVE  RestInv'
  <2>1. /\ UNCHANGED <<fd, phase, turn, listener, read_set, todo, scan, serving>>
        /\ phase \in {"manage", "shutdown"}
        /\ tcp \ {s} \subseteq tcp' /\ tcp' \subseteq tcp /\ unnamed' \subseteq unnamed
        /\ pending' = pending \ {s}
        /\ master_set' = master_set \ {s} /\ open' = open \ {s}
    BY <1>1 DEF TimeOut, ShutdownTcp, CloseTcp, CloseOther, CloseUnnamed, CloseRejected,
                MasterSetWithout, tables
  <2>2. LoopTypeOK'
    BY <2>1 DEF LInv, UInv, LoopTypeOK
  <2>3. TurnInv' /\ Fresh' /\ Served'
    BY <2>1 DEF LInv, TurnInv, Fresh, Served
  <2>4. PassInv'
    BY <2>1 DEF LInv, PassInv, Running, ListenerFds
  <2> QED
    BY <2>2, <2>3, <2>4 DEF RestInv
<1>2. CASE PassEnds
  <2>1. /\ UNCHANGED <<vars, turn, listener, tcp, unnamed, pending, read_set, todo, scan, serving>>
        /\ phase = "manage" /\ phase' = "select"
    BY <1>2 DEF PassEnds
  <2>2. LoopTypeOK'
    BY <2>1 DEF LInv, UInv, LoopTypeOK, Phases, vars
  <2>3. TurnInv' /\ Fresh' /\ Served'
    BY <2>1 DEF LInv, TurnInv, Fresh, Served
  <2>4. PassInv'
    BY <2>1 DEF LInv, PassInv, Running, ListenerFds, vars
  <2> QED
    BY <2>2, <2>3, <2>4 DEF RestInv
<1> QED
  BY <1>1, <1>2

LEMMA StopRest ==
    ASSUME LInv, UInv', Stop \/ FinishListener \/ ShutdownEnds
    PROVE  RestInv'
<1>1. /\ UNCHANGED <<listener, tcp, unnamed, read_set, todo, scan, serving>>
      /\ phase \in {"select", "finish", "shutdown"}
      /\ phase' \in {"finish", "shutdown", "stopped"}
      /\ pending' \subseteq open'
  BY SetsAreFds
     DEF Stop, FinishListener, ShutdownEnds, CloseOther, vars
<1>2. TurnInv'
  <2>1. turn \in Nat /\ Len(Listeners) \in Nat /\ Len(Listeners) >= 1
    BY ListenerAssumption DEF LInv, TurnInv
  <2>2. CASE Stop \/ ShutdownEnds
    BY <2>1, <2>2 DEF Stop, ShutdownEnds, TurnInv, Turns, LInv
  <2>3. CASE FinishListener
    BY <2>1, <2>3 DEF FinishListener, TurnInv, Turns, LInv
  <2> QED
    BY <2>2, <2>3
<1>3. LoopTypeOK'
  BY <1>1, <1>2 DEF LInv, UInv, LoopTypeOK, TurnInv, Phases
<1>4. Fresh' /\ Served' /\ PassInv'
  BY <1>1 DEF LInv, Fresh, Served, PassInv, Running
<1> QED
  BY <1>2, <1>3, <1>4 DEF RestInv

\* Something has come for a socket.
LEMMA PeerRest ==
    ASSUME LInv, UInv', NEW s \in Fds, PeerSends(s)
    PROVE  RestInv'
<1>1. /\ UNCHANGED <<vars, phase, turn, listener, tcp, unnamed, read_set, todo, scan, serving>>
      /\ pending' = pending \cup {s} /\ s \in open
  BY SetsAreFds DEF PeerSends
<1>2. LoopTypeOK'
  BY <1>1 DEF LInv, UInv, LoopTypeOK, vars
<1>3. TurnInv' /\ Fresh' /\ Served' /\ PassInv'
  BY <1>1 DEF LInv, TurnInv, Fresh, Served, PassInv, Running, ListenerFds, vars
<1> QED
  BY <1>2, <1>3 DEF RestInv

----------------------------------------------------------------------------
(* The results.                                                              *)

LEMMA NextLInv ==
    ASSUME LInv, [LoopNext]_allVars
    PROVE  LInv'
<1>1. UInv'
  BY SocketsKept
<1>2. RestInv'
  BY <1>1, StartRest, SelectRest, ListenersRest, UdpRest, TcpRest, MessagesRest, ManageRest,
     StopRest, PeerRest DEF LoopNext, LoopStep
<1> QED
  BY <1>1, <1>2 DEF LInv, RestInv

LEMMA LInvHolds == LoopSpec => []LInv
<1>1. LoopInit => LInv
  <2> SUFFICES ASSUME LoopInit PROVE LInv
    OBVIOUS
  <2>1. UInv
    BY InitUInv DEF LoopInit
  <2>2. LoopTypeOK
    BY <2>1, ListenerAssumption, SocketAssumption
       DEF LoopInit, LoopTypeOK, UInv, Phases, Turns
  <2>3. TurnInv /\ Fresh /\ Served /\ PassInv
    BY ListenerAssumption
       DEF LoopInit, Init, TurnInv, Fresh, Served, PassInv, Running
  <2> QED
    BY <2>1, <2>2, <2>3 DEF LInv
<1> QED
  BY <1>1, NextLInv, PTL DEF LoopSpec

\* Every variable of the loop keeps its type.
THEOREM LoopTypes == LoopSpec => []LoopTypeOK
BY LInvHolds, PTL DEF LInv

\* From the start of the loop to its stop, with everything that messages and
\* timeouts open and close during a pass, UdpSocketMgr's counts are right.
THEOREM LoopKeepsCounts == LoopSpec => []CountsBalanced
BY LInvHolds, PTL DEF LInv, UInv

\* Every socket in use is watched, nothing that is closed is, and select() sees
\* all of it.
THEOREM LoopKeepsWatch == LoopSpec => [](HeldAreWatched /\ HighestCovers)
BY LInvHolds, PTL DEF LInv, UInv

\* Whatever is left in read_set after the listeners and the UDP sockets is a TCP
\* connection that select() reported.
THEOREM OnlyTcpIsRead == LoopSpec => []OnlyTcpRead
<1>1. LInv => OnlyTcpRead
  BY RemainingAreTcp DEF LInv, Served, OnlyTcpRead
<1> QED
  BY <1>1, LInvHolds, PTL

=============================================================================
