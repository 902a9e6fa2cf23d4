----------------------------- MODULE CloseLoops -----------------------------
(***************************************************************************)
(* Close() and timeOut() of IoConnections step by step: the loops over      *)
(* g_active_conns remove members while they stand on them, and a Close() in *)
(* such a loop may scan the list again, pass a socket on or start the loop  *)
(* for another kind.  IoConnections has only their outcome: the set that    *)
(* closes and the heir.  LoopsSkipNobody says that the loops reach it.      *)
(***************************************************************************)
EXTENDS IoConnections

ASSUME PointerAssumption == None \notin Conns

\* Where a scan from the head of the list stops: the first of S, or None.
FirstOf(S) == IF S = {} THEN None ELSE CHOOSE c \in S : IsFirst(c, S)

\* A stack in the middle of a handler: the list, linked from head, and sockets.
Here ==
    [listed |-> active, head |-> FirstOf(active),
     next |-> [c \in Conns |-> FirstOf(behind[c])],
     producing |-> producing, refs |-> refs]

\* CipConnBox::Remove(): who points to c points to its successor, and the link
\* of c is cleared.
Remove(s, c) ==
    [s EXCEPT !.listed = s.listed \ {c},
              !.head = IF s.head = c THEN s.next[c] ELSE s.head,
              !.next = [d \in Conns |-> IF d = c THEN None
                                        ELSE IF s.next[d] = c THEN s.next[c] ELSE s.next[d]]]

\* The first candidate that GetNextNonControlMasterConnection() meets, or None.
HeirOf(s, i) ==
    FirstOf({c \in s.listed : /\ Kind[c] \in {"ExclusiveOwner", "InputOnly"}
                              /\ InputOf[c] = i
                              /\ ptype[c] = "Multicast" /\ ~s.producing[c]})

GiveSocket(s, c, heir) == [s EXCEPT !.producing[c] = FALSE, !.producing[heir] = TRUE]

\* The end of Close(): release what c holds and take it off the list.
Release(s, c) ==
    [Remove(s, c) EXCEPT
        !.producing[c] = FALSE,
        !.refs = s.refs - ((IF consuming[c] THEN 1 ELSE 0) + (IF s.producing[c] THEN 1 ELSE 0))]

-----------------------------------------------------------------------------
(* CloseAllConnectionsForInputWithSameType().  No turn adds a member, so     *)
(* that the loop has as many turns at most as there are members.             *)

\* Fault: the loop steps on after Close(), by the link of the removed member.
StepOnAfter(before, after, c) == after.next[c]

\* The loop steps on first: before and after are the stack around Close().
StepOn(before, after, c) == before.next[c]

Begin(s) == [stack |-> s, at |-> s.head]
Onward(t, closed) == [stack |-> closed, at |-> StepOn(t.stack, closed, t.at)]

\* Close() of a listen only connection, which starts no other loop.
CloseListener(s, c) == IF c \in s.listed THEN Release(s, c) ELSE s

\* One turn of the loop for listen only connections, and the loop.
ListenerTurn(t, i) ==
    IF t.at = None THEN t
    ELSE Onward(t, IF Kind[t.at] = "ListenOnly" /\ InputOf[t.at] = i
                   THEN CloseListener(t.stack, t.at) ELSE t.stack)

CloseListeners(s, i) ==
    LET N == Cardinality(s.listed)
        turn[n \in 0 .. N] == IF n = 0 THEN Begin(s) ELSE ListenerTurn(turn[n - 1], i)
    IN  turn[N].stack

\* Where a controlling connection leaves its production.
LeaveProduction(s, c) ==
    LET heir == HeirOf(s, InputOf[c])
    IN  IF heir # None THEN GiveSocket(s, c, heir) ELSE CloseListeners(s, InputOf[c])

Controlling(s, c) ==
    /\ Kind[c] \in {"ExclusiveOwner", "InputOnly"}
    /\ ptype[c] = "Multicast"
    /\ s.producing[c]

CloseConn(s, c) ==
    IF c \notin s.listed THEN s
    ELSE Release(IF Controlling(s, c) THEN LeaveProduction(s, c) ELSE s, c)

\* One turn of the loop for input only connections, and the loop.
SharerTurn(t, i) ==
    IF t.at = None THEN t
    ELSE Onward(t, IF Kind[t.at] = "InputOnly" /\ InputOf[t.at] = i
                   THEN CloseConn(t.stack, t.at) ELSE t.stack)

CloseSharers(s, i) ==
    LET N == Cardinality(s.listed)
        turn[n \in 0 .. N] == IF n = 0 THEN Begin(s) ELSE SharerTurn(turn[n - 1], i)
    IN  turn[N].stack

TimeOutConn(s, c) ==
    CASE Kind[c] = "ExclusiveOwner" /\ ptype[c] = "Multicast" ->
            CloseConn(CloseListeners(CloseSharers(s, InputOf[c]), InputOf[c]), c)
      [] Kind[c] = "InputOnly" /\ ptype[c] = "Multicast" /\ s.producing[c] ->
            CloseConn(LeaveProduction(s, c), c)
      [] OTHER -> CloseConn(s, c)

\* CloseAllConnections(): close the head while there is one.
CloseHead(s) == IF s.head = None THEN s ELSE CloseConn(s, s.head)
CloseHeads(s) ==
    LET N == Cardinality(s.listed)
        left[n \in 0 .. N] == IF n = 0 THEN s ELSE CloseHead(left[n - 1])
    IN  left[N]

-----------------------------------------------------------------------------
Reached(s) == s = Here'

LoopStep ==
    /\ \A c \in active \ active' :
         /\ TimeOut(c) => Reached(TimeOutConn(Here, c))
         /\ (\E t \in Triads, a \in Addrs : ForwardClose(c, t, a)) => Reached(CloseConn(Here, c))
    /\ CloseAllConnections => Reached(CloseHeads(Here))

\* However the close loops nest, and whichever member of the list they remove
\* under their own feet, a Close(), a timeout or the shutdown closes everybody
\* whose production has ended and nobody else, releases each socket once, and
\* leaves the rest of the list linked in its order.
LoopsSkipNobody == [][LoopStep]_vars
=============================================================================
