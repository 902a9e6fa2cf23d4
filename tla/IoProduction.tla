---------------------------- MODULE IoProduction ----------------------------
(* What the connections of IoConnections put on the wire: the connection    *)
(* ids that the target chooses (GeneralConfiguration), the ids that the     *)
(* forward_open reply tells the originator, and the encapsulation sequence  *)
(* number of the produced packets (SendConnectedData), followed through the *)
(* takeovers and hand-overs of a multicast production.                      *)
(*                                                                          *)
(* A consumer of a produced input knows it by its connection id (PID) and   *)
(* discards every packet whose sequence number is not greater than the last *)
(* one's, so that a producer that starts over is not heard for a while.     *)
EXTENDS IoConnections

CONSTANTS
    IdSpace,    \* NewConnectionId() counts modulo this; 2^16 in the code
    OriginatorIds,  \* connection ids that an originator chooses itself
    MaxIds,     \* bound: connection ids that a behaviour allocates
    MaxSeq      \* bound: sequence numbers that a behaviour sends

ASSUME IdAssumption ==
    /\ IdSpace \in Nat \ {0}
    /\ OriginatorIds \subseteq Nat
    /\ MaxIds \in Nat /\ MaxSeq \in Nat

VARIABLES
    lastId,     \* the static counter of NewConnectionId()
    allocated,  \* history: how often it was called
    cid,        \* consuming_connection_id
    cidCall,    \* history: the call that gave it, 0 if the originator did
    pid,        \* producing_connection_id, of multicast producers
    pidCall,    \* history: the call that gave it
    told,       \* the PID in the reply of the connection's forward_open
    eseq,       \* eip_level_sequence_count_producing
    wire        \* history: the last sequence number sent for each input since
                \* its producer last changed without passing its count on

idVars == <<lastId, allocated, cid, cidCall, pid, pidCall, told>>
wireVars == <<idVars, eseq, wire>>
prodVars == <<vars, wireVars>>

Ids == 0 .. IdSpace - 1
Inputs == {InputOf[c] : c \in Conns}

\* Fault: the counter is not incremented.
NewIdStuck(n) == n

\* NewConnectionId()
NewId(n) == (n + 1) % IdSpace

ProdTypeOK ==
    /\ lastId \in Ids /\ allocated \in Nat
    /\ cid \in [Conns -> Ids \cup OriginatorIds]
    /\ pid \in [Conns -> Ids] /\ told \in [Conns -> Ids]
    /\ cidCall \in [Conns -> Nat] /\ pidCall \in [Conns -> Nat]
    /\ eseq \in [Conns -> Nat] /\ wire \in [Inputs -> Nat]

ProdInit ==
    /\ Init
    /\ lastId = 0 /\ allocated = 0
    /\ cid = [c \in Conns |-> 0] /\ cidCall = [c \in Conns |-> 0]
    /\ pid = [c \in Conns |-> 0] /\ pidCall = [c \in Conns |-> 0]
    /\ told = [c \in Conns |-> 0] /\ eseq = [c \in Conns |-> 0]
    /\ wire = [i \in Inputs |-> 0]

\* The connections that produce one input to its multicast address, and those
\* that listen to it.
Audience(i) ==
    {c \in active : InputOf[c] = i /\ ptype[c] = "Multicast"}

----------------------------------------------------------------------------
(* forward_open                                                            *)

\* GeneralConfiguration(): the target chooses the CID of a connection whose O->T
\* end, of type o, is point to point, and the PID of one whose T->O end, of type
\* p, is multicast.  Each is a call of NewConnectionId(); what the target does
\* not choose stays as the request had it.
CallsFor(o, p) ==
    (IF o = "PointToPoint" THEN 1 ELSE 0) + (IF p = "Multicast" THEN 1 ELSE 0)
AfterCid(o) == IF o = "PointToPoint" THEN NewId(lastId) ELSE lastId
NewCid(o, n) == IF o = "PointToPoint" THEN NewId(lastId) ELSE n
NewPid(o) == NewId(AfterCid(o))

Configure(o, p) ==
    /\ lastId' = IF p = "Multicast" THEN NewPid(o) ELSE AfterCid(o)
    /\ allocated' = allocated + CallsFor(o, p)
    /\ allocated' <= MaxIds

\* GetExistingProducerMulticastConnection(), of an input that has a producer.
Producer(i) == CHOOSE m \in Masters(i) : IsFirst(m, Masters(i))

\* Fault: a connection that shares a production keeps the PID it was given.
PidOfItsOwn(c, o) == NewPid(o)

\* openProducingMulticastConnection() gives the connection the PID of the
\* existing producer, if there is one.
PidOf(c, o) ==
    IF Masters(InputOf[c]) = {} THEN NewPid(o) ELSE pid[Producer(InputOf[c])]

PidCallOf(c, o) ==
    IF Masters(InputOf[c]) = {} THEN allocated' ELSE pidCall[Producer(InputOf[c])]

\* A connection that is the first producer of its input, or an exclusive owner
\* that takes the socket over, sends with a count of its own.
StartsCount(c, p) ==
    /\ p = "Multicast"
    /\ Masters(InputOf[c]) = {} \/ Kind[c] = "ExclusiveOwner"

\* The reply reports the ids of the request's ConnectionData, which
\* GeneralConfiguration() filled in.
ProdForwardOpen(c, t, o, p, a, n) ==
    /\ ForwardOpen(c, t, p, a)
    /\ Configure(o, p)
    /\ cid' = [cid EXCEPT ![c] = NewCid(o, n)]
    /\ cidCall' = [cidCall EXCEPT ![c] = IF o = "PointToPoint" THEN allocated + 1 ELSE 0]
    /\ IF p = "Multicast"
       THEN /\ pid' = [pid EXCEPT ![c] = PidOf(c, o)]
            /\ pidCall' = [pidCall EXCEPT ![c] = PidCallOf(c, o)]
            /\ told' = [told EXCEPT ![c] = NewPid(o)]
       ELSE UNCHANGED <<pid, pidCall, told>>
    /\ eseq' = [eseq EXCEPT ![c] = 0]
    /\ wire' = IF StartsCount(c, p) THEN [wire EXCEPT ![InputOf[c]] = 0] ELSE wire

ProdForwardOpenFails(c, t, o, p) ==
    /\ ForwardOpenFails(c, t, p)
    /\ Configure(o, p)
    /\ UNCHANGED <<cid, cidCall, pid, pidCall, told, eseq, wire>>

----------------------------------------------------------------------------
(* Close(), timeOut() and SendConnectedData()                              *)

\* Nobody reads the ids and counts of a connection that is closed.
Forgotten(f) == [c \in Conns |-> IF c \in active' THEN f[c] ELSE 0]
ForgetIds ==
    /\ cid' = Forgotten(cid) /\ cidCall' = Forgotten(cidCall)
    /\ pid' = Forgotten(pid) /\ pidCall' = Forgotten(pidCall)
    /\ told' = Forgotten(told)
    /\ UNCHANGED <<lastId, allocated>>

\* The connections that produce after a step and did not before it.
Heirs == {h \in active : producing'[h] /\ ~producing[h]}

\* Fault: the hand-over of Close() forgets the sequence counts.
PassNoCounts(m) == eseq

\* Close() copies the sequence counts to the heir ...
PassCounts(m) == [c \in Conns |-> IF c \in Heirs THEN eseq[m] ELSE eseq[c]]

\* ... of the closing master.  That is also how the count of a production
\* reaches the connection that is left after an exclusive owner's timeout.
WithCounts(i) ==
    eseq' = IF Heirs = {} THEN Forgotten(eseq)
            ELSE Forgotten(PassCounts(CHOOSE m \in Masters(i) : TRUE))

ProdForwardClose(c, t, a) ==
    /\ ForwardClose(c, t, a)
    /\ WithCounts(InputOf[c])
    /\ ForgetIds
    /\ wire' = wire

\* timeOut() of an input only master hands the socket over itself, before its
\* Close(), and leaves the counts behind.
ProdTimeOut(c) ==
    /\ TimeOut(c)
    /\ IF Kind[c] = "InputOnly" /\ IsMaster(c) /\ Heirs # {}
       THEN eseq' = Forgotten(eseq) /\ wire' = [wire EXCEPT ![InputOf[c]] = 0]
       ELSE WithCounts(InputOf[c]) /\ wire' = wire
    /\ ForgetIds

ProdCloseAll ==
    /\ CloseAllConnections
    /\ ForgetIds
    /\ eseq' = Forgotten(eseq)
    /\ wire' = wire

\* ManageConnections() sends for the connections with a producing socket.
SendConnectedData(c) ==
    /\ c \in active /\ producing[c] /\ ptype[c] = "Multicast"
    /\ eseq[c] < MaxSeq
    /\ eseq' = [eseq EXCEPT ![c] = @ + 1]
    /\ wire' = [wire EXCEPT ![InputOf[c]] = IF @ > eseq'[c] THEN @ ELSE eseq'[c]]
    /\ UNCHANGED <<vars, idVars>>

Types == {"PointToPoint", "Multicast"}

ProdNext ==
    \/ \E c \in Conns, t \in Triads, o \in Types, p \in Types :
         \/ \E a \in Addrs, n \in OriginatorIds : ProdForwardOpen(c, t, o, p, a, n)
         \/ ProdForwardOpenFails(c, t, o, p)
    \/ \E c \in Conns, t \in Triads, a \in Addrs : ProdForwardClose(c, t, a)
    \/ \E c \in Conns : ProdTimeOut(c) \/ SendConnectedData(c)
    \/ ProdCloseAll

ProdSpec == ProdInit /\ [][ProdNext]_prodVars

----------------------------------------------------------------------------
(* Properties                                                              *)

\* All connections that share the production of an input, and those that only
\* listen to it, know it by one PID, through any series of takeovers, closes
\* and timeouts: a hand-over never changes the id of a running production.
OnePidPerInput ==
    \A i \in Inputs : \A c, d \in Audience(i) : pid[c] = pid[d]

\* What an input's producer sends next is never behind what was sent for it
\* since a producer began with a count of its own: a hand-over by Close(), and
\* by the timeout of an exclusive owner, is seamless.  Two changes of producer
\* do begin anew: the takeover by an exclusive owner, and the timeout of an
\* input only master, whose heir goes on from whatever count it had.
CloseKeepsSequence ==
    \A c \in active :
        producing[c] /\ ptype[c] = "Multicast" => eseq[c] >= wire[InputOf[c]]

\* cipconnection.cc:1792: "inform our originator about the correct connection
\* id": the PID in a forward_open reply is the one that is produced.
ToldPidIsProduced ==
    \A c \in active :
        ptype[c] = "Multicast"
        => \A m \in Masters(InputOf[c]) : told[c] = pid[m]

Apart(j, k) == j + IdSpace <= k \/ k + IdSpace <= j

\* cipconnection.h:1045: "A unique connectionID is formed": the counter is 16
\* bits wide, so what holds over its turns is that two connections the target
\* gave one id to consume with, and two inputs that are produced under one id,
\* got it a full turn of the counter apart.
IdsRepeatAfterTurn ==
    /\ \A c, d \in active :
         (c # d /\ cidCall[c] # 0 /\ cidCall[d] # 0 /\ cid[c] = cid[d])
         => Apart(cidCall[c], cidCall[d])
    /\ \A i, j \in Inputs :
         i # j => \A c \in Audience(i), d \in Audience(j) :
                      pid[c] = pid[d] => Apart(pidCall[c], pidCall[d])
=============================================================================
