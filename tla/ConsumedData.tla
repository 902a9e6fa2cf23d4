----------------------------- MODULE ConsumedData -----------------------------
(***************************************************************************)
(* What an I/O connection consumes: from the datagram through the two       *)
(* sequence filters (RecvConnectedData, HandleReceivedIoConnectionData)     *)
(* into the assembly (AssemblyInstance::RecvData), and the two other ways   *)
(* into an assembly: the configuration data of a forward_open and attribute *)
(* 3 of the assembly object.  The network loses, delays, duplicates and     *)
(* reorders frames.  A frame carries the number n of its sending and the    *)
(* number d of its datum; the fields on the wire are these numbers in 32    *)
(* and 16 bits.                                                             *)
(***************************************************************************)
EXTENDS Integers, Sequences, FiniteSets

CONSTANTS
    Conns,
    Class,          \* [Conns -> {0, 1}], transport class
    Sequenced,      \* [Conns -> BOOLEAN], the originator sends sequenced address items
    Fixed,          \* [Conns -> BOOLEAN], consuming_ncp.IsFixed()
    Headered,       \* [Conns -> BOOLEAN], consuming_fmt is kRealTimeFmt32BitHeader
    Output,         \* ConsumingPath(); outside Assemblies for heartbeats
    Config,         \* [Conns -> Assemblies], ConfigPath()
    ConfigData,     \* [Conns -> set of sequences], data segments it may bring
    Assemblies,
    Words,          \* words of an assembly
    WordsOf(_),     \* words that datum d has
    RunOf(_),       \* run/idle header sent with datum d
    Edits,          \* values that attribute 3 is set to
    Mod32, Mod16,   \* what a 32 and a 16 bit counter can count
    Base32,         \* where originators begin to count frames
    Bases16,        \* [Conns -> set of numbers], and data
    MaxSent,        \* bound: [Conns -> Nat], frames of one incarnation
    MaxFlight,      \* bound: frames in the network
    Span,           \* bound: how far frames of an incarnation lie apart
    MaxIds          \* bound: calls of NewConnectionId()

NoData == <<>>
Mark(by, d) == [by |-> by, d |-> d]

\* Whose frame wrote a word, or 0: a forward_open or the message router.
Marks == [by : 0 .. MaxIds + 1, d : Nat]

ASSUME SequenceAssumption ==
    /\ Mod32 \in Nat /\ Mod16 \in Nat /\ Base32 \in Nat
    /\ \A c \in Conns : Bases16[c] \subseteq Nat
    /\ Span \in Nat /\ Span < Mod32 \div 2 /\ Span < Mod16 \div 2

\* No configuration assembly is consumed as output.
ASSUME AssemblyAssumption ==
    /\ Words \in Nat /\ MaxIds \in Nat
    /\ \A c \in Conns : Config[c] \in Assemblies
    /\ \A c, d \in Conns : Config[c] # Output[d]
    /\ \A c \in Conns : \A v \in ConfigData[c] : v \in Seq(Marks)
    /\ \A v \in Edits : v \in Marks

VARIABLES
    cid,            \* consuming_connection_id; 0: not on the list
    connection_id,  \* the static counter of NewConnectionId()
    eseq,           \* eip_level_sequence_count_consuming
    first,          \* eip_level_sequence_count_consuming_first
    cseq,           \* sequence_count_consuming
    header,         \* consuming_header
    run_idle,       \* g_run_idle_state
    data,           \* byte_array of each assembly
    flight,         \* frames in the network
    sent,           \* the originator's last [n, d]
    base16,         \* where the originator began to count data
    top,            \* history: n of the latest frame that has arrived
    newest,         \* history: latest datum in it that the assembly can hold
    begun,          \* history: first datum in it whose count is ahead of 0
    brought,        \* history: configuration data of the connection
    edited          \* history: configurations written while in use

vars == <<cid, connection_id, eseq, first, cseq, header, run_idle, data,
          flight, sent, base16, top, newest, begun, brought, edited>>

receiver == <<eseq, first, cseq, header, run_idle>>
history == <<top, newest, begun, brought, edited>>

Established(c) == cid[c] # 0

DataTypeOK ==
    /\ cid \in [Conns -> 0 .. MaxIds] /\ connection_id \in 0 .. MaxIds
    /\ eseq \in [Conns -> 0 .. Mod32 - 1] /\ first \in [Conns -> BOOLEAN]
    /\ cseq \in [Conns -> 0 .. Mod16 - 1]
    /\ data \in [Assemblies -> [1 .. Words -> Marks]]
    /\ flight \subseteq [cid : 1 .. MaxIds, peer : BOOLEAN, n : Nat, d : Nat]
    /\ sent \in [Conns -> [n : Nat, d : Nat]]
    /\ base16 \in [Conns -> Nat]
    /\ top \in [Conns -> Nat] /\ newest \in [Conns -> Nat] /\ begun \in [Conns -> Nat]
    /\ brought \in [Conns -> Seq(Marks)]
    /\ edited \subseteq Assemblies

Init ==
    /\ cid = [c \in Conns |-> 0] /\ connection_id = 0
    /\ eseq = [c \in Conns |-> 0] /\ first = [c \in Conns |-> TRUE]
    /\ cseq = [c \in Conns |-> 0]
    /\ header = [c \in Conns |-> 0] /\ run_idle = 0
    /\ data = [a \in Assemblies |-> [i \in 1 .. Words |-> Mark(0, 0)]]
    /\ flight = {}
    /\ sent = [c \in Conns |-> [n |-> 0, d |-> 0]]
    /\ base16 = [c \in Conns |-> 0]
    /\ top = [c \in Conns |-> 0] /\ newest = [c \in Conns |-> 0]
    /\ begun = [c \in Conns |-> 0]
    /\ brought = [c \in Conns |-> NoData] /\ edited = {}

----------------------------------------------------------------------------
(* Counters                                                                *)

\* (int) ( a - b ) > 0 and (short) ( a - b ) <= 0
Ahead(a, b, mod) == (a - b) % mod \in 1 .. (mod \div 2) - 1

\* Fault: numbers compared as they are.
PlainGT32(a, b) == a > b

SEQ_GT32(a, b) == Ahead(a, b, Mod32)

SEQ_LEQ16(a, b) == ~Ahead(a, b, Mod16)

\* AddrEncapSeqNum(): a plain connected address item brings no number, and
\* the Cpf is constructed with 0.
AddrEncapSeqNum(c, f) == IF Sequenced[c] THEN (Base32 + f.n) % Mod32 ELSE 0

SequenceCount(c, f) == (base16[c] + f.d) % Mod16

----------------------------------------------------------------------------
(* Assemblies                                                              *)

\* RecvData(): a connection of fixed size wants all words, others up to that.
SizeFits(c, words) ==
    IF Fixed[c] THEN Len(words) = Words ELSE Len(words) <= Words

\* memcpy()
Overwritten(old, words) ==
    [i \in 1 .. Words |-> IF i <= Len(words) THEN words[i] ELSE old[i]]

RecvData(c, a, words) ==
    data' = IF SizeFits(c, words)
            THEN [data EXCEPT ![a] = Overwritten(data[a], words)]
            ELSE data

\* Fault: the configuration path is looked at.
IsConnectedConfigAssembly(a) == \E c \in Conns : Established(c) /\ Config[c] = a

IsConnectedOutputAssembly(a) == \E c \in Conns : Established(c) /\ Output[c] = a

\* Fault: the consuming path is looked at.
ConnectionWithSamePointExists(a) == \E c \in Conns : Established(c) /\ Output[c] = a

ConnectionWithSameConfigPointExists(a) == \E c \in Conns : Established(c) /\ Config[c] = a

\* For the history: some connection relies on the configuration a.
InUse(a) == \E c \in Conns : Established(c) /\ Config[c] = a

\* set_assembly_data_attr() of all words; produced assemblies refuse it.  The
\* application may dislike the data, which stay written.
SetAssemblyData(a, v) ==
    /\ \/ a \notin {Output[c] : c \in Conns}
       \/ ~IsConnectedOutputAssembly(a)
    /\ data' = [data EXCEPT ![a] = [i \in 1 .. Words |-> v]]
    /\ edited' = IF InUse(a) THEN edited \cup {a} ELSE edited
    /\ UNCHANGED <<cid, connection_id, receiver, flight, sent, base16, top, newest,
                   begun, brought>>

----------------------------------------------------------------------------
(* Connections                                                             *)

NewConnectionId == connection_id + 1

\* What GeneralConfiguration() and the constructor set.
Configured(c) ==
    /\ eseq' = [eseq EXCEPT ![c] = 0] /\ first' = [first EXCEPT ![c] = TRUE]
    /\ cseq' = [cseq EXCEPT ![c] = 0]
    /\ UNCHANGED <<header, run_idle>>

\* handleConfigData(): the data are compared with what is there when some
\* connection relies on it, and else written, which fails when they do not fit
\* or the application refuses what has just been written.
ConfigSame(c, v) == Len(v) = Words /\ data[Config[c]] = v

ConfigAccepted(c, v) ==
    IF ConnectionWithSameConfigPointExists(Config[c])
    THEN ConfigSame(c, v) /\ UNCHANGED data
    ELSE SizeFits(c, v) /\ RecvData(c, Config[c], v)

ConfigRefused(c, v) ==
    IF ConnectionWithSameConfigPointExists(Config[c])
    THEN ~ConfigSame(c, v) /\ UNCHANGED data
    ELSE RecvData(c, Config[c], v)

\* An originator of this connection's entry asks for it; its output assembly
\* must be free (GetConnectedOutputAssembly).
CanOpen(c) ==
    /\ ~Established(c) /\ connection_id < MaxIds
    /\ \A x \in Conns : Established(x) => Output[x] # Output[c]

\* forward_open with configuration data, or with none.
Open(c, v) ==
    /\ CanOpen(c)
    /\ IF v = NoData THEN UNCHANGED data ELSE ConfigAccepted(c, v)
    /\ connection_id' = connection_id + 1
    /\ cid' = [cid EXCEPT ![c] = NewConnectionId]
    /\ Configured(c)
    /\ sent' = [sent EXCEPT ![c] = [n |-> 0, d |-> 0]]
    /\ \E b \in Bases16[c] : base16' = [base16 EXCEPT ![c] = b]
    /\ top' = [top EXCEPT ![c] = 0] /\ newest' = [newest EXCEPT ![c] = 0]
    /\ begun' = [begun EXCEPT ![c] = 0]
    /\ brought' = [brought EXCEPT ![c] = v]
    /\ edited' = IF InUse(Config[c]) THEN edited ELSE edited \ {Config[c]}
    /\ UNCHANGED flight

\* The configuration is refused, or opening the sockets fails afterwards.
OpenFails(c, v) ==
    /\ CanOpen(c)
    /\ IF v = NoData THEN UNCHANGED data
       ELSE ConfigRefused(c, v) \/ ConfigAccepted(c, v)
    /\ connection_id' = connection_id + 1
    /\ Configured(c)
    /\ UNCHANGED <<cid, flight, sent, base16, history>>

Close(c) ==
    /\ Established(c)
    /\ cid' = [cid EXCEPT ![c] = 0]
    /\ sent' = [sent EXCEPT ![c] = [n |-> 0, d |-> 0]]
    /\ base16' = [base16 EXCEPT ![c] = 0]
    /\ top' = [top EXCEPT ![c] = 0] /\ newest' = [newest EXCEPT ![c] = 0]
    /\ begun' = [begun EXCEPT ![c] = 0]
    /\ brought' = [brought EXCEPT ![c] = NoData]
    /\ UNCHANGED <<connection_id, receiver, data, flight, edited>>

----------------------------------------------------------------------------
(* The originator and the network                                          *)

\* The next frame, with a new datum or the last one.
Send(c, d) ==
    /\ Established(c)
    /\ sent[c].n < MaxSent[c] /\ d \in {sent[c].d, sent[c].d + 1} /\ d > 0
    /\ sent[c].n + 1 - top[c] <= Span
    /\ \A f \in flight : f.cid = cid[c] => sent[c].n + 1 - f.n <= Span
    /\ flight' = flight \cup {[cid |-> cid[c], peer |-> TRUE, n |-> sent[c].n + 1, d |-> d]}
    /\ Cardinality(flight) < MaxFlight
    /\ sent' = [sent EXCEPT ![c] = [n |-> sent[c].n + 1, d |-> d]]
    /\ UNCHANGED <<cid, connection_id, receiver, data, base16, history>>

Lose(f) ==
    /\ f \in flight
    /\ flight' = flight \ {f}
    /\ UNCHANGED <<cid, connection_id, receiver, data, sent, base16, history>>

\* A host that is not the peer knows the connection id.
Strangers == {[cid |-> cid[c], peer |-> FALSE, n |-> 1, d |-> 1] : c \in {x \in Conns : Established(x)}}

----------------------------------------------------------------------------
(* Receiving                                                               *)

GetConnectionByConsumingId(id) == {c \in Conns : Established(c) /\ cid[c] = id}

\* "Only handle the data if it is coming from the peer."
FromPeer(f) == f.peer

Payload(f) == [i \in 1 .. WordsOf(f.d) |-> Mark(IF f.peer THEN f.cid ELSE MaxIds + 1, f.d)]

\* HandleReceivedIoConnectionData(): a datum whose number is not ahead is one
\* that was seen; the run/idle header is kept although the data may not fit.
HandleReceivedIoConnectionData(c, f) ==
    IF Class[c] = 1 /\ SEQ_LEQ16(SequenceCount(c, f), cseq[c])
    THEN UNCHANGED <<cseq, header, run_idle, data>>
    ELSE /\ cseq' = IF Class[c] = 1 THEN [cseq EXCEPT ![c] = SequenceCount(c, f)] ELSE cseq
         /\ IF Headered[c]
            THEN header' = [header EXCEPT ![c] = RunOf(f.d)] /\ run_idle' = RunOf(f.d)
            ELSE UNCHANGED <<header, run_idle>>
         /\ RecvData(c, Output[c], Payload(f))

\* Frames ahead of the count are handled; the first one sets the count.
Accept(c, f) ==
    LET seq == AddrEncapSeqNum(c, f)
        count == IF first[c] THEN (seq - 1) % Mod32 ELSE eseq[c]
    IN  /\ first' = [first EXCEPT ![c] = FALSE]
        /\ IF SEQ_GT32(seq, count)
           THEN /\ eseq' = [eseq EXCEPT ![c] = seq]
                /\ HandleReceivedIoConnectionData(c, f)
           ELSE /\ eseq' = [eseq EXCEPT ![c] = count]
                /\ UNCHANGED <<cseq, header, run_idle, data>>

\* The 16 bit filter begins at 0, wherever the originator does: of class 1 a
\* datum is taken only once a count has come that is ahead of 0.
Begins(c, f) == begun[c] = 0 /\ (Class[c] = 1 => Ahead(SequenceCount(c, f), 0, Mod16))

\* What has come in order: n ahead of all frames that came before.
Noted(c, f) ==
    IF f.peer /\ f.n > top[c]
    THEN /\ top' = [top EXCEPT ![c] = f.n]
         /\ newest' = IF SizeFits(c, Payload(f)) THEN [newest EXCEPT ![c] = f.d] ELSE newest
         /\ begun' = IF Begins(c, f) THEN [begun EXCEPT ![c] = f.d] ELSE begun
    ELSE UNCHANGED <<top, newest, begun>>

\* RecvConnectedData() of a frame, which may come again later.
RecvConnectedData(f) ==
    /\ f \in flight \cup Strangers
    /\ \/ /\ GetConnectionByConsumingId(f.cid) = {} \/ ~FromPeer(f)
          /\ UNCHANGED <<receiver, data, top, newest, begun>>
       \/ \E c \in GetConnectionByConsumingId(f.cid) :
             FromPeer(f) /\ Accept(c, f) /\ Noted(c, f)
    /\ UNCHANGED <<cid, connection_id, flight, sent, base16, brought, edited>>

Next ==
    \/ \E c \in Conns :
         \/ \E v \in ConfigData[c] \cup {NoData} : Open(c, v) \/ OpenFails(c, v)
         \/ Close(c)
         \/ \E d \in 1 .. MaxSent[c] : Send(c, d)
    \/ \E f \in flight : Lose(f)
    \/ \E f \in flight \cup Strangers : RecvConnectedData(f)
    \/ \E a \in Assemblies, v \in Edits : SetAssemblyData(a, v)

Spec == Init /\ [][Next]_vars

----------------------------------------------------------------------------
(* Properties                                                              *)

\* Vol2 3-4.1 as cipconnectionmanager.cc:141 has it: whatever the network does
\* to the frames of a connection, and whatever is left of an earlier connection
\* of the same entry, its output assembly holds the newest datum that has come
\* in order, never an older one, and no new one is taken for a duplicate.  Not
\* so at the start of a class 1 connection: sequence_count_consuming is 0 and no
\* flag tells that nothing has come, so all data are dropped until one has a
\* count ahead of 0 (of 1 .. 0x7fff); the property speaks of what comes then.
FreshDataKept ==
    \A c \in {x \in Conns : Output[x] \in Assemblies} :
        Established(c) /\ Sequenced[c] /\ begun[c] \in 1 .. newest[c]
            => data[Output[c]][1] = Mark(cid[c], newest[c])

\* While an output assembly is connected nobody but the originator that owns it
\* changes it: no attribute service, no other host, no earlier connection.
OwnerWritesAlone ==
    [][\A c \in {x \in Conns : Output[x] \in Assemblies} :
         LET o == Output[c]
         IN  Established(c) => \A i \in 1 .. Words :
                data'[o][i] = data[o][i] \/ data'[o][i].by = cid[c]]_vars

\* "we have to have the same data as already present in the config point": the
\* configuration a connection was opened with is in place as long as it lives,
\* unless a client writes the assembly itself.
ConfigKept ==
    \A c \in Conns :
        Established(c) /\ Config[c] \notin edited =>
            \A i \in 1 .. Len(brought[c]) : data[Config[c]][i] = brought[c][i]

\* cipconnectionmanager.cc:76: "found connected address item or found sequenced
\* address item -> for now the sequence number will be ignored": a frame with a
\* plain connected address item is consumed, as it has no number.
PlainItemsConsumed ==
    \A c \in {x \in Conns : Output[x] \in Assemblies} :
        Established(c) /\ ~Sequenced[c] /\ newest[c] > 0
            => data[Output[c]][1] = Mark(cid[c], newest[c])
=============================================================================
