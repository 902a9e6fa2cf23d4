------------------------- MODULE ConsumedDataProofs -------------------------
(* Proofs about ConsumedData, for any connections, assemblies, widths of the *)
(* sequence numbers and behaviour of the network.                            *)
(*                                                                           *)
(* Who may write an assembly does not depend on the sequence filters: an     *)
(* output has one connection (OneByOutput), which receives only what bears   *)
(* its id and comes from its peer, and nobody else writes the assembly while *)
(* it is connected.  Configuration data stay (ConfigKept) because they are   *)
(* written only where no connection relies on the assembly.                  *)
(*                                                                           *)
(* That the newest datum is kept does depend on the filters.  The counters   *)
(* on the wire wrap, so the invariant (FInv) relates them to the numbers     *)
(* they stand for: frames of the connection lie in a window narrower than    *)
(* half of what a counter counts (InWindow), the 32 bit count stands at the  *)
(* latest frame (Counted), the 16 bit count at the datum it brought          *)
(* (Handled), and frames of earlier connections bear other ids (IdsFresh).   *)
EXTENDS ConsumedData, TLAPS

\* Data have a number of words.
WordsAreNumbers == \A d \in Nat : WordsOf(d) \in Nat

OneByOutput ==
    \A c, d \in Conns :
        Established(c) /\ Established(d) /\ Output[c] = Output[d] => c = d

DInv == DataTypeOK /\ OneByOutput /\ ConfigKept

----------------------------------------------------------------------------
(* What is written into assemblies.                                          *)

\* memcpy() stays within the assembly.
LEMMA OverwrittenType ==
    ASSUME AssemblyAssumption, NEW old \in [1 .. Words -> Marks],
           NEW words \in Seq(Marks)
    PROVE  Overwritten(old, words) \in [1 .. Words -> Marks]
<1> SUFFICES ASSUME NEW i \in 1 .. Words
             PROVE  (IF i <= Len(words) THEN words[i] ELSE old[i]) \in Marks
  BY DEF Overwritten
<1>1. CASE i <= Len(words)
  BY <1>1 DEF AssemblyAssumption
<1>2. CASE ~(i <= Len(words))
  BY <1>2
<1> QED
  BY <1>1, <1>2

LEMMA RecvDataType ==
    ASSUME AssemblyAssumption, DataTypeOK, NEW c, NEW a, NEW words \in Seq(Marks),
           RecvData(c, a, words)
    PROVE  data' \in [Assemblies -> [1 .. Words -> Marks]]
<1>1. CASE a \in Assemblies
  BY <1>1, OverwrittenType DEF RecvData, DataTypeOK
<1>2. CASE a \notin Assemblies
  BY <1>2 DEF RecvData, DataTypeOK
<1> QED
  BY <1>1, <1>2

\* The widths of the counters are not zero.
LEMMA Widths ==
    ASSUME SequenceAssumption
    PROVE  Mod32 \in Nat \ {0} /\ Mod16 \in Nat \ {0}
<1>1. 0 \div 2 = 0
  OBVIOUS
<1> QED
  BY <1>1 DEF SequenceAssumption

\* Only the assembly that is named changes.
LEMMA RecvDataElsewhere ==
    ASSUME DataTypeOK, NEW c, NEW a, NEW words, RecvData(c, a, words)
    PROVE  \A b \in Assemblies : b # a => data'[b] = data[b]
BY DEF RecvData, DataTypeOK

\* A frame's payload bears the id of the connection it was sent for.
LEMMA PayloadMarked ==
    ASSUME AssemblyAssumption, WordsAreNumbers,
           NEW f \in [cid : 1 .. MaxIds, peer : BOOLEAN, n : Nat, d : Nat]
    PROVE  /\ Payload(f) \in Seq(Marks)
           /\ Len(Payload(f)) = WordsOf(f.d)
           /\ f.peer => \A i \in 1 .. Len(Payload(f)) : Payload(f)[i].by = f.cid
<1>1. WordsOf(f.d) \in Nat
  BY DEF WordsAreNumbers
<1>2. Mark(IF f.peer THEN f.cid ELSE MaxIds + 1, f.d) \in Marks
  BY DEF AssemblyAssumption, Mark, Marks
<1>3. Payload(f) \in Seq(Marks) /\ Len(Payload(f)) = WordsOf(f.d)
  BY <1>1, <1>2 DEF Payload
<1>4. f.peer => \A i \in 1 .. WordsOf(f.d) : Payload(f)[i].by = f.cid
  BY DEF Payload, Mark
<1> QED
  BY <1>3, <1>4

LEMMA StrangersAreFrames ==
    ASSUME AssemblyAssumption, DataTypeOK
    PROVE  flight \cup Strangers
             \subseteq [cid : 1 .. MaxIds, peer : BOOLEAN, n : Nat, d : Nat]
<1>1. \A c \in Conns : Established(c) => cid[c] \in 1 .. MaxIds
  BY DEF DataTypeOK, Established, AssemblyAssumption
<1>2. ASSUME NEW f \in Strangers
      PROVE  f \in [cid : 1 .. MaxIds, peer : BOOLEAN, n : Nat, d : Nat]
  <2>1. PICK c \in Conns : /\ Established(c)
                           /\ f = [cid |-> cid[c], peer |-> FALSE, n |-> 1, d |-> 1]
    BY DEF Strangers
  <2>2. cid[c] \in 1 .. MaxIds /\ 1 \in Nat /\ FALSE \in BOOLEAN
    BY <1>1, <2>1
  <2> QED
    BY <2>1, <2>2
<1> QED
  BY <1>2 DEF DataTypeOK

\* The configuration data of a forward_open change its own configuration
\* assembly, and only if no connection relies on it.
LEMMA ConfigWritten ==
    ASSUME AssemblyAssumption, DataTypeOK, NEW c \in Conns, NEW v \in ConfigData[c],
           ConfigAccepted(c, v) \/ ConfigRefused(c, v)
    PROVE  /\ data' \in [Assemblies -> [1 .. Words -> Marks]]
           /\ \A b \in Assemblies : b # Config[c] \/ InUse(b) => data'[b] = data[b]
<1>1. v \in Seq(Marks)
  BY DEF AssemblyAssumption
<1>2. CASE ConnectionWithSameConfigPointExists(Config[c])
  BY <1>2 DEF ConfigAccepted, ConfigRefused, DataTypeOK
<1>3. CASE ~ConnectionWithSameConfigPointExists(Config[c])
  <2>1. RecvData(c, Config[c], v)
    BY <1>3 DEF ConfigAccepted, ConfigRefused
  <2>2. ~InUse(Config[c])
    BY <1>3 DEF ConnectionWithSameConfigPointExists, InUse
  <2> QED
    BY <1>1, <2>1, <2>2, RecvDataType, RecvDataElsewhere
<1> QED
  BY <1>2, <1>3

\* Accepted data are in place afterwards.
LEMMA ConfigInPlace ==
    ASSUME AssemblyAssumption, DataTypeOK, NEW c \in Conns, NEW v \in ConfigData[c],
           ConfigAccepted(c, v)
    PROVE  \A i \in 1 .. Len(v) : data'[Config[c]][i] = v[i]
<1>1. v \in Seq(Marks) /\ Config[c] \in Assemblies /\ Words \in Nat
  BY DEF AssemblyAssumption
<1>2. CASE ConnectionWithSameConfigPointExists(Config[c])
  BY <1>2 DEF ConfigAccepted, ConfigSame
<1>3. CASE ~ConnectionWithSameConfigPointExists(Config[c])
  <2>1. Len(v) <= Words /\ Len(v) \in Nat
    BY <1>1, <1>3 DEF ConfigAccepted, SizeFits
  <2>2. data'[Config[c]] = Overwritten(data[Config[c]], v)
    BY <1>1, <1>3 DEF ConfigAccepted, RecvData, DataTypeOK
  <2>3. \A i \in 1 .. Words : i <= Len(v) => Overwritten(data[Config[c]], v)[i] = v[i]
    BY DEF Overwritten
  <2> QED
    BY <1>1, <2>1, <2>2, <2>3
<1> QED
  BY <1>2, <1>3

\* A frame changes the output of the connection with its id, if it is the
\* peer's, by words that bear the id.
LEMMA ReceivedWritten ==
    ASSUME AssemblyAssumption, WordsAreNumbers, DataTypeOK,
           NEW f \in flight \cup Strangers, RecvConnectedData(f)
    PROVE  /\ data' \in [Assemblies -> [1 .. Words -> Marks]]
           /\ \/ data' = data
              \/ \E c \in Conns :
                   /\ Established(c)
                   /\ \A b \in Assemblies : b # Output[c] => data'[b] = data[b]
                   /\ Output[c] \in Assemblies =>
                        \A i \in 1 .. Words :
                            \/ data'[Output[c]][i] = data[Output[c]][i]
                            \/ data'[Output[c]][i].by = cid[c]
<1>1. f \in [cid : 1 .. MaxIds, peer : BOOLEAN, n : Nat, d : Nat]
  BY StrangersAreFrames
<1>2. CASE data' = data
  BY <1>2 DEF DataTypeOK
<1>3. ASSUME NEW c \in GetConnectionByConsumingId(f.cid), FromPeer(f),
             RecvData(c, Output[c], Payload(f))
      PROVE  /\ data' \in [Assemblies -> [1 .. Words -> Marks]]
             /\ \A b \in Assemblies : b # Output[c] => data'[b] = data[b]
             /\ Output[c] \in Assemblies =>
                  \A i \in 1 .. Words :
                      \/ data'[Output[c]][i] = data[Output[c]][i]
                      \/ data'[Output[c]][i].by = cid[c]
  <2>1. Payload(f) \in Seq(Marks) /\ Len(Payload(f)) \in Nat
    BY <1>1, PayloadMarked DEF WordsAreNumbers
  <2>2. data' \in [Assemblies -> [1 .. Words -> Marks]]
    BY <1>3, <2>1, RecvDataType
  <2>3. \A b \in Assemblies : b # Output[c] => data'[b] = data[b]
    BY <1>3, RecvDataElsewhere
  <2>4. cid[c] = f.cid
    BY <1>3 DEF GetConnectionByConsumingId
  <2>5. ASSUME Output[c] \in Assemblies, NEW i \in 1 .. Words
        PROVE  \/ data'[Output[c]][i] = data[Output[c]][i]
               \/ data'[Output[c]][i].by = cid[c]
    <3>1. CASE data'[Output[c]] = Overwritten(data[Output[c]], Payload(f))
      <4>1. CASE i <= Len(Payload(f))
        <5>1. i \in 1 .. Len(Payload(f))
          BY <2>1, <4>1 DEF AssemblyAssumption
        <5>2. Payload(f)[i].by = f.cid
          BY <1>1, <1>3, <5>1, PayloadMarked DEF FromPeer
        <5> QED
          BY <2>4, <3>1, <4>1, <5>2 DEF Overwritten
      <4>2. CASE ~(i <= Len(Payload(f)))
        BY <3>1, <4>2 DEF Overwritten
      <4> QED
        BY <4>1, <4>2
    <3>2. CASE data' = data
      BY <3>2
    <3> QED
      BY <1>3, <2>5, <3>1, <3>2 DEF RecvData, DataTypeOK
  <2> QED
    BY <2>2, <2>3, <2>5
<1>4. \/ data' = data
      \/ \E c \in GetConnectionByConsumingId(f.cid) :
            FromPeer(f) /\ RecvData(c, Output[c], Payload(f))
  BY DEF RecvConnectedData, Accept, HandleReceivedIoConnectionData
<1> QED
  BY <1>2, <1>3, <1>4 DEF GetConnectionByConsumingId

----------------------------------------------------------------------------
(* The invariant.                                                            *)

\* A step after which the same connections are established, with what they
\* brought, and that changes no configuration in use but those it marks.
LEMMA ConfigStays ==
    ASSUME AssemblyAssumption, ConfigKept, brought' = brought,
           \A c \in Conns : Established(c)' => Established(c),
           edited \subseteq edited',
           \A c \in Conns : Established(c) /\ Config[c] \notin edited'
                                => data'[Config[c]] = data[Config[c]]
    PROVE  ConfigKept'
BY DEF ConfigKept

LEMMA OpenKeeps ==
    ASSUME AssemblyAssumption, SequenceAssumption, DInv, NEW c \in Conns,
           NEW v \in ConfigData[c] \cup {NoData}, Open(c, v)
    PROVE  DInv'
<1>1. /\ data' \in [Assemblies -> [1 .. Words -> Marks]]
      /\ \A b \in Assemblies : b # Config[c] \/ InUse(b) => data'[b] = data[b]
  BY ConfigWritten DEF DInv, DataTypeOK, Open
<1>2. \A i \in 1 .. Len(v) : data'[Config[c]][i] = v[i]
  BY ConfigInPlace DEF DInv, Open, NoData
<1>3. v \in Seq(Marks)
  <2>1. <<>> \in Seq(Marks)
    OBVIOUS
  <2> QED
    BY <2>1 DEF AssemblyAssumption, NoData
<1>4. /\ cid' = [cid EXCEPT ![c] = connection_id + 1]
      /\ connection_id' = connection_id + 1 /\ connection_id < MaxIds
      /\ ~Established(c)
      /\ \A x \in Conns : Established(x) => Output[x] # Output[c]
      /\ brought' = [brought EXCEPT ![c] = v]
      /\ edited' = IF InUse(Config[c]) THEN edited ELSE edited \ {Config[c]}
  BY DEF Open, CanOpen, NewConnectionId
<1>5. /\ cid \in [Conns -> 0 .. MaxIds] /\ connection_id \in 0 .. MaxIds
      /\ brought \in [Conns -> Seq(Marks)] /\ MaxIds \in Nat
  BY DEF DInv, DataTypeOK, AssemblyAssumption
<1>6. DataTypeOK'
  <2>1. DataTypeOK /\ 0 \in 0 .. Mod32 - 1 /\ 0 \in 0 .. Mod16 - 1
    BY Widths DEF DInv
  <2>2. /\ eseq' = [eseq EXCEPT ![c] = 0] /\ first' = [first EXCEPT ![c] = TRUE]
        /\ cseq' = [cseq EXCEPT ![c] = 0] /\ flight' = flight
        /\ sent' = [sent EXCEPT ![c] = [n |-> 0, d |-> 0]]
        /\ top' = [top EXCEPT ![c] = 0] /\ newest' = [newest EXCEPT ![c] = 0]
        /\ begun' = [begun EXCEPT ![c] = 0]
    BY DEF Open, Configured
  <2>3. base16' \in [Conns -> Nat]
    BY <2>1 DEF DataTypeOK, Open, SequenceAssumption
  <2>4. cid' \in [Conns -> 0 .. MaxIds] /\ connection_id' \in 0 .. MaxIds
        /\ brought' \in [Conns -> Seq(Marks)] /\ edited' \subseteq Assemblies
    BY <1>3, <1>4, <1>5, <2>1 DEF DataTypeOK
  <2> QED
    BY ONLY <1>1, <2>1, <2>2, <2>3, <2>4 DEF DataTypeOK
<1>7. \A x \in Conns : Established(x)' => x = c \/ Established(x)
  BY <1>4, <1>5 DEF Established
<1>8. OneByOutput'
  BY <1>4, <1>7 DEF DInv, OneByOutput
<1>9. ConfigKept'
  <2> SUFFICES ASSUME NEW x \in Conns, Established(x)', Config[x] \notin edited',
                      NEW i \in 1 .. Len(brought'[x])
               PROVE  data'[Config[x]][i] = brought'[x][i]
    BY DEF ConfigKept
  <2>1. CASE x = c
    BY <1>2, <1>4, <1>5, <2>1
  <2>2. CASE x # c
    <3>1. Established(x) /\ InUse(Config[x]) /\ brought'[x] = brought[x]
      BY <1>4, <1>5, <1>7, <2>2 DEF InUse
    <3>2. Config[x] \notin edited
      BY <1>4, <3>1
    <3>3. data'[Config[x]] = data[Config[x]]
      BY <1>1, <3>1 DEF AssemblyAssumption
    <3> QED
      BY <3>1, <3>2, <3>3 DEF DInv, ConfigKept
  <2> QED
    BY <2>1, <2>2
<1> QED
  BY <1>6, <1>8, <1>9 DEF DInv

LEMMA OpenFailsKeeps ==
    ASSUME AssemblyAssumption, SequenceAssumption, DInv, NEW c \in Conns,
           NEW v \in ConfigData[c] \cup {NoData}, OpenFails(c, v)
    PROVE  DInv'
<1>1. /\ data' \in [Assemblies -> [1 .. Words -> Marks]]
      /\ \A b \in Assemblies : b # Config[c] \/ InUse(b) => data'[b] = data[b]
  BY ConfigWritten DEF DInv, DataTypeOK, OpenFails
<1>2. UNCHANGED <<cid, flight, sent, base16, history>> /\ connection_id' = connection_id + 1
      /\ connection_id < MaxIds
  BY DEF OpenFails, CanOpen
<1>3. connection_id' \in 0 .. MaxIds
  <2>1. connection_id \in 0 .. MaxIds /\ MaxIds \in Nat
    BY DEF DInv, DataTypeOK, AssemblyAssumption
  <2> QED
    BY ONLY <1>2, <2>1
<1>4. DataTypeOK'
  <2>1. /\ eseq' \in [Conns -> 0 .. Mod32 - 1] /\ first' \in [Conns -> BOOLEAN]
        /\ cseq' \in [Conns -> 0 .. Mod16 - 1]
    BY Widths DEF DInv, DataTypeOK, OpenFails, Configured
  <2>2. UNCHANGED <<cid, flight, sent, base16, top, newest, begun, brought, edited>>
    BY <1>2 DEF history
  <2>3. DataTypeOK
    BY DEF DInv
  <2> QED
    BY ONLY <1>1, <1>3, <2>1, <2>2, <2>3 DEF DataTypeOK
<1>5. OneByOutput'
  BY <1>2 DEF DInv, OneByOutput, Established
<1>6. ConfigKept'
  <2>1. \A x \in Conns : Established(x) => data'[Config[x]] = data[Config[x]]
    BY <1>1 DEF AssemblyAssumption, InUse
  <2> QED
    BY <1>2, <2>1 DEF DInv, ConfigKept, Established, history
<1> QED
  BY <1>4, <1>5, <1>6 DEF DInv

LEMMA CloseKeeps ==
    ASSUME AssemblyAssumption, DInv, NEW c \in Conns, Close(c)
    PROVE  DInv'
<1>1. /\ cid' = [cid EXCEPT ![c] = 0]
      /\ brought' = [brought EXCEPT ![c] = NoData]
      /\ UNCHANGED <<connection_id, data, flight, edited>>
  BY DEF Close
<1>2. cid \in [Conns -> 0 .. MaxIds] /\ brought \in [Conns -> Seq(Marks)] /\ MaxIds \in Nat
  BY DEF DInv, DataTypeOK, AssemblyAssumption
<1>3. DataTypeOK'
  <2>1. sent' = [sent EXCEPT ![c] = [n |-> 0, d |-> 0]]
        /\ base16' = [base16 EXCEPT ![c] = 0]
        /\ top' = [top EXCEPT ![c] = 0] /\ newest' = [newest EXCEPT ![c] = 0]
        /\ begun' = [begun EXCEPT ![c] = 0]
        /\ eseq' = eseq /\ first' = first /\ cseq' = cseq
    BY DEF Close, receiver
  <2>2. brought' \in [Conns -> Seq(Marks)]
    BY <1>1, <1>2 DEF NoData
  <2>3. cid' \in [Conns -> 0 .. MaxIds]
    BY <1>1, <1>2
  <2> QED
    BY <1>1, <2>1, <2>2, <2>3 DEF DInv, DataTypeOK
<1>4. \A x \in Conns : Established(x)' => x # c /\ Established(x) /\ brought'[x] = brought[x]
  BY <1>1, <1>2 DEF Established
<1>5. OneByOutput'
  BY <1>4 DEF DInv, OneByOutput
<1>6. ConfigKept'
  BY <1>1, <1>4 DEF DInv, ConfigKept
<1> QED
  BY <1>3, <1>5, <1>6 DEF DInv

LEMMA SendKeeps ==
    ASSUME AssemblyAssumption, DInv, NEW c \in Conns, NEW d \in 1 .. MaxSent[c], Send(c, d)
    PROVE  DInv'
<1>1. /\ flight' = flight \cup {[cid |-> cid[c], peer |-> TRUE, n |-> sent[c].n + 1, d |-> d]}
      /\ sent' = [sent EXCEPT ![c] = [n |-> sent[c].n + 1, d |-> d]]
      /\ UNCHANGED <<cid, connection_id, receiver, data, base16, history>>
      /\ cid[c] # 0 /\ d \in {sent[c].d, sent[c].d + 1}
  BY DEF Send, Established
<1>2. sent[c] \in [n : Nat, d : Nat] /\ cid[c] \in 1 .. MaxIds
  BY <1>1 DEF DInv, DataTypeOK, AssemblyAssumption
<1>3. sent[c].n + 1 \in Nat /\ d \in Nat
  BY <1>1, <1>2
<1>4. flight' \subseteq [cid : 1 .. MaxIds, peer : BOOLEAN, n : Nat, d : Nat]
  <2> DEFINE sending == [cid |-> cid[c], peer |-> TRUE, n |-> sent[c].n + 1, d |-> d]
  <2>1. sending \in [cid : 1 .. MaxIds, peer : BOOLEAN, n : Nat, d : Nat]
    BY <1>2, <1>3
  <2>2. flight' = flight \cup {sending}
    BY <1>1
  <2> QED
    BY <2>1, <2>2 DEF DInv, DataTypeOK
<1>5. sent' \in [Conns -> [n : Nat, d : Nat]]
  BY <1>1, <1>3 DEF DInv, DataTypeOK
<1>6. DataTypeOK'
  BY <1>1, <1>4, <1>5 DEF DInv, DataTypeOK, receiver, history
<1> QED
  BY <1>1, <1>6 DEF DInv, OneByOutput, ConfigKept, Established, history

LEMMA ReceiveKeeps ==
    ASSUME AssemblyAssumption, SequenceAssumption, WordsAreNumbers, DInv,
           NEW f \in flight \cup Strangers, RecvConnectedData(f)
    PROVE  DInv'
<1>1. UNCHANGED <<cid, connection_id, flight, sent, base16, brought, edited>>
  BY DEF RecvConnectedData
<1>2. data' \in [Assemblies -> [1 .. Words -> Marks]]
  BY ReceivedWritten DEF DInv
<1>3. \A x \in Conns : data'[Config[x]] = data[Config[x]]
  BY ReceivedWritten DEF DInv, AssemblyAssumption
<1>4. f \in [cid : 1 .. MaxIds, peer : BOOLEAN, n : Nat, d : Nat]
  BY StrangersAreFrames DEF DInv
<1>5. /\ first' \in [Conns -> BOOLEAN]
      /\ eseq' \in [Conns -> 0 .. Mod32 - 1] /\ cseq' \in [Conns -> 0 .. Mod16 - 1]
      /\ top' \in [Conns -> Nat] /\ newest' \in [Conns -> Nat] /\ begun' \in [Conns -> Nat]
  <2>1. CASE UNCHANGED <<receiver, data, top, newest, begun>>
    BY <2>1 DEF DInv, DataTypeOK, receiver
  <2>2. ASSUME NEW c \in Conns, Accept(c, f), Noted(c, f)
        PROVE  <1>5!:
    <3>1. AddrEncapSeqNum(c, f) \in 0 .. Mod32 - 1 /\ SequenceCount(c, f) \in 0 .. Mod16 - 1
      <4>1. f.n \in Nat /\ f.d \in Nat
        BY <1>4
      <4>0. base16[c] \in Nat
        BY DEF DInv, DataTypeOK
      <4>2. Base32 + f.n \in Nat /\ base16[c] + f.d \in Nat
        BY <4>0, <4>1 DEF SequenceAssumption
      <4>3. (Base32 + f.n) % Mod32 \in 0 .. Mod32 - 1 /\ 0 \in 0 .. Mod32 - 1
        BY <4>2, Widths
      <4>4. (base16[c] + f.d) % Mod16 \in 0 .. Mod16 - 1
        BY <4>2, Widths
      <4> QED
        BY <4>3, <4>4 DEF AddrEncapSeqNum, SequenceCount
    <3>2. (AddrEncapSeqNum(c, f) - 1) % Mod32 \in 0 .. Mod32 - 1
      BY <3>1, Widths
    <3>3. first' \in [Conns -> BOOLEAN] /\ eseq' \in [Conns -> 0 .. Mod32 - 1]
      BY <2>2, <3>1, <3>2 DEF Accept, DInv, DataTypeOK
    <3>4. cseq' \in [Conns -> 0 .. Mod16 - 1]
      BY <2>2, <3>1 DEF Accept, HandleReceivedIoConnectionData, DInv, DataTypeOK
    <3>5. top' \in [Conns -> Nat] /\ newest' \in [Conns -> Nat] /\ begun' \in [Conns -> Nat]
      BY <1>4, <2>2 DEF Noted, DInv, DataTypeOK
    <3> QED
      BY <3>3, <3>4, <3>5
  <2> QED
    BY <2>1, <2>2 DEF RecvConnectedData, GetConnectionByConsumingId
<1>6. DataTypeOK'
  BY <1>1, <1>2, <1>5 DEF DInv, DataTypeOK
<1> QED
  BY <1>1, <1>3, <1>6 DEF DInv, OneByOutput, ConfigKept, Established

LEMMA SetKeeps ==
    ASSUME AssemblyAssumption, DInv, NEW a \in Assemblies, NEW v \in Edits,
           SetAssemblyData(a, v)
    PROVE  DInv'
<1>1. /\ data' = [data EXCEPT ![a] = [i \in 1 .. Words |-> v]]
      /\ edited' = IF InUse(a) THEN edited \cup {a} ELSE edited
      /\ UNCHANGED <<cid, connection_id, receiver, flight, sent, base16, top, newest,
                   begun, brought>>
  BY DEF SetAssemblyData
<1>2. DataTypeOK'
  BY <1>1 DEF DInv, DataTypeOK, receiver, AssemblyAssumption
<1>3. \A x \in Conns : Established(x) /\ Config[x] \notin edited'
                         => data'[Config[x]] = data[Config[x]]
  BY <1>1 DEF DInv, DataTypeOK, InUse, AssemblyAssumption
<1>4. ConfigKept'
  BY <1>1, <1>3, ConfigStays DEF DInv, Established
<1> QED
  BY <1>1, <1>2, <1>4 DEF DInv, OneByOutput, Established

LEMMA NextKeeps ==
    ASSUME AssemblyAssumption, SequenceAssumption, WordsAreNumbers, DInv, [Next]_vars
    PROVE  DInv'
<1>1. ASSUME NEW f \in flight, Lose(f)
      PROVE  DInv'
  BY <1>1 DEF Lose, DInv, DataTypeOK, OneByOutput, ConfigKept, Established, receiver, history
<1>2. CASE UNCHANGED vars
  BY <1>2 DEF vars, DInv, DataTypeOK, OneByOutput, ConfigKept, Established
<1> QED
  BY <1>1, <1>2, OpenKeeps, OpenFailsKeeps, CloseKeeps, SendKeeps, ReceiveKeeps, SetKeeps
     DEF Next

LEMMA DataInvariance ==
    ASSUME WordsAreNumbers
    PROVE  Spec => []DInv
<1>1. Init => DInv
  BY AssemblyAssumption, SequenceAssumption, Widths
     DEF Init, DInv, DataTypeOK, OneByOutput, ConfigKept, Established, Mark, Marks, NoData,
         AssemblyAssumption
<1>2. DInv /\ [Next]_vars => DInv'
  BY AssemblyAssumption, SequenceAssumption, NextKeeps
<1> QED
  BY <1>1, <1>2, PTL DEF Spec

----------------------------------------------------------------------------
(* The results.                                                              *)

\* The variables of ConsumedData keep their types.
THEOREM DataTypeCorrect ==
    ASSUME WordsAreNumbers
    PROVE  Spec => []DataTypeOK
<1>1. DInv => DataTypeOK
  BY DEF DInv
<1> QED
  BY <1>1, DataInvariance, PTL

\* The configuration a connection brought is in place while it lives, unless a
\* client writes the assembly through its attribute.
THEOREM ConfigurationKept ==
    ASSUME WordsAreNumbers
    PROVE  Spec => []ConfigKept
<1>1. DInv => ConfigKept
  BY DEF DInv
<1> QED
  BY <1>1, DataInvariance, PTL

OwnerStep ==
    \A c \in {x \in Conns : Output[x] \in Assemblies} :
        Established(c) => \A i \in 1 .. Words :
            \/ data'[Output[c]][i] = data[Output[c]][i]
            \/ data'[Output[c]][i].by = cid[c]

LEMMA NextOwnerStep ==
    ASSUME AssemblyAssumption, WordsAreNumbers, DInv, [Next]_vars
    PROVE  OwnerStep
<1> SUFFICES ASSUME NEW c \in Conns, Output[c] \in Assemblies, Established(c)
             PROVE  \A i \in 1 .. Words : \/ data'[Output[c]][i] = data[Output[c]][i]
                                          \/ data'[Output[c]][i].by = cid[c]
  BY DEF OwnerStep
<1>1. ASSUME NEW x \in Conns, NEW v \in ConfigData[x] \cup {NoData},
             Open(x, v) \/ OpenFails(x, v)
      PROVE  data'[Output[c]] = data[Output[c]]
  BY <1>1, ConfigWritten DEF Open, OpenFails, DInv, AssemblyAssumption
<1>2. ASSUME NEW f \in flight \cup Strangers, RecvConnectedData(f)
      PROVE  \A i \in 1 .. Words : \/ data'[Output[c]][i] = data[Output[c]][i]
                                   \/ data'[Output[c]][i].by = cid[c]
  <2>1. CASE data' = data
    BY <2>1
  <2>2. ASSUME NEW x \in Conns, Established(x),
               \A b \in Assemblies : b # Output[x] => data'[b] = data[b],
               Output[x] \in Assemblies =>
                   \A i \in 1 .. Words : \/ data'[Output[x]][i] = data[Output[x]][i]
                                         \/ data'[Output[x]][i].by = cid[x]
        PROVE  \A i \in 1 .. Words : \/ data'[Output[c]][i] = data[Output[c]][i]
                                     \/ data'[Output[c]][i].by = cid[c]
    <3>1. CASE Output[x] = Output[c]
      BY <2>2, <3>1 DEF DInv, OneByOutput
    <3>2. CASE Output[x] # Output[c]
      BY <2>2, <3>2
    <3> QED
      BY <3>1, <3>2
  <2> QED
    BY <1>2, <2>1, <2>2, ReceivedWritten DEF DInv
<1>3. ASSUME NEW a \in Assemblies, NEW v \in Edits, SetAssemblyData(a, v)
      PROVE  data'[Output[c]] = data[Output[c]]
  <2>1. a # Output[c]
    BY <1>3 DEF SetAssemblyData, IsConnectedOutputAssembly
  <2> QED
    BY <1>3, <2>1 DEF SetAssemblyData, DInv, DataTypeOK
<1>4. ASSUME NEW x \in Conns, Close(x) \/ \E d \in 1 .. MaxSent[x] : Send(x, d)
      PROVE  data' = data
  BY <1>4 DEF Close, Send
<1>5. ASSUME NEW f \in flight, Lose(f)
      PROVE  data' = data
  BY <1>5 DEF Lose
<1>6. CASE UNCHANGED vars
  BY <1>6 DEF vars
<1> QED
  BY <1>1, <1>2, <1>3, <1>4, <1>5, <1>6 DEF Next

\* While an output is connected only its originator's data come into it.
THEOREM OutputsWrittenByOwner ==
    ASSUME WordsAreNumbers
    PROVE  Spec => OwnerWritesAlone
<1>1. DInv /\ [Next]_vars => OwnerStep
  BY AssemblyAssumption, NextOwnerStep
<1>2. OwnerStep => \A c \in {x \in Conns : Output[x] \in Assemblies} :
         LET o == Output[c]
         IN  Established(c) => \A i \in 1 .. Words :
                data'[o][i] = data[o][i] \/ data'[o][i].by = cid[c]
  BY DEF OwnerStep
<1> QED
  BY <1>1, <1>2, DataInvariance, PTL DEF Spec, OwnerWritesAlone

----------------------------------------------------------------------------
(* Freshness.                                                                *)

\* A datum has a first word.
DataHaveWords == \A d \in Nat : WordsOf(d) \in Nat \ {0}

Ours(c) == {f \in flight : f.cid = cid[c]}

\* A later sending brings the same datum or a later one, and skips none.
Follows(lo, hi) == lo.n <= hi.n => lo.d <= hi.d /\ hi.d - lo.d <= hi.n - lo.n

\* Frames of earlier connections bear ids that are not given again.
IdsFresh ==
    /\ \A f \in flight : f.peer /\ f.cid <= connection_id
    /\ \A c \in Conns : cid[c] <= connection_id
    /\ \A c, d \in Conns : Established(c) /\ cid[c] = cid[d] => c = d

\* What is in the network and what has come lie in a window of Span numbers
\* below the last sending.
InWindow(c) ==
    /\ top[c] <= sent[c].n /\ sent[c].n - top[c] <= Span
    /\ first[c] <=> top[c] = 0
    /\ \A f \in Ours(c) :
         /\ f.n >= 1 /\ f.d >= 1 /\ f.n <= sent[c].n /\ sent[c].n - f.n <= Span
         /\ Follows(f, sent[c])
         /\ \A g \in Ours(c) : Follows(f, g)

\* The 32 bit count stands at the latest frame that has come.
Counted(c) == first[c] \/ eseq[c] = (Base32 + top[c]) % Mod32

Fits(c, d) == IF Fixed[c] THEN WordsOf(d) = Words ELSE WordsOf(d) <= Words

\* That frame brought datum e, where the 16 bit count stands once it has left 0.
Handled(c, e) ==
    LET last == [n |-> top[c], d |-> e]
    IN  /\ Follows(last, sent[c])
        /\ \A f \in Ours(c) : Follows(last, f) /\ Follows(f, last)
        /\ (top[c] = 0) <=> (e = 0)
        /\ begun[c] <= e /\ newest[c] <= e
        /\ Class[c] = 1 => cseq[c] = IF begun[c] = 0 THEN 0 ELSE (base16[c] + e) % Mod16
        /\ e > 0 => (Fits(c, e) <=> newest[c] = e)

Kept(c) ==
    Output[c] \in Assemblies /\ begun[c] \in 1 .. newest[c]
        => data[Output[c]][1] = Mark(cid[c], newest[c])

FreshOf(c) ==
    Established(c) /\ Sequenced[c] =>
        InWindow(c) /\ Counted(c) /\ Kept(c) /\ \E e \in Nat : Handled(c, e)

FInv == IdsFresh /\ \A c \in Conns : FreshOf(c)

\* Division by the width of a counter.
LEMMA ModDef ==
    ASSUME NEW m \in Nat \ {0}, NEW x \in Int
    PROVE  x % m \in 0 .. m - 1 /\ x = m * (x \div m) + (x % m) /\ x \div m \in Int
OBVIOUS

LEMMA ModSmall ==
    ASSUME NEW m \in Nat \ {0}, NEW r \in 0 .. m - 1
    PROVE  r % m = r /\ (r - m) % m = r
OBVIOUS

LEMMA OneTurn ==
    ASSUME NEW m \in Nat \ {0}, NEW k \in Int, m * k > -m - m, m * k < m + m
    PROVE  k \in {-1, 0, 1}
OBVIOUS

\* Numbers less than half the width apart compare as they are, wherever the
\* counter has wrapped in between.
LEMMA AheadInWindow ==
    ASSUME NEW m \in Nat, NEW x \in Int, NEW y \in Int, NEW span \in Nat,
           span < m \div 2, x - y <= span, y - x <= span
    PROVE  Ahead(x % m, y % m, m) <=> x > y
<1> DEFINE r == x % m
           s == y % m
           q == x \div m
           p == y \div m
<1>1. m # 0 /\ m \div 2 \in Nat /\ m \div 2 + m \div 2 <= m
  <2>1. m \div 2 \in Nat /\ m \div 2 + m \div 2 <= m
    OBVIOUS
  <2> QED
    BY <2>1
<1>2. /\ r \in 0 .. m - 1 /\ s \in 0 .. m - 1 /\ q \in Int /\ p \in Int
      /\ x = m * q + r /\ y = m * p + s
  BY <1>1, ModDef
<1> HIDE DEF r, s, q, p
<1>3. m * (q - p) = (x - y) - (r - s)
  <2>1. m * (q - p) = m * q - m * p
    BY <1>2
  <2> QED
    BY <1>2, <2>1
<1>4. q - p \in {-1, 0, 1}
  BY <1>1, <1>2, <1>3, OneTurn
<1>5. m * (q - p) \in {-m, 0, m}
  BY <1>4
<1>6. r - s = x - y \/ r - s = x - y + m \/ r - s = x - y - m
  BY <1>2, <1>3, <1>5
<1>7. (r - s) % m = IF r - s >= 0 THEN r - s ELSE r - s + m
  <2>1. CASE r - s >= 0
    BY <1>1, <1>2, <2>1, ModSmall
  <2>2. CASE r - s < 0
    <3>1. r - s + m \in 0 .. m - 1 /\ (r - s + m) - m = r - s
      BY <1>2, <2>2
    <3> QED
      BY <1>1, <1>2, <2>2, <3>1, ModSmall
  <2> QED
    BY <1>2, <2>1, <2>2
<1>8. (r - s) % m \in 1 .. (m \div 2) - 1 <=> x > y
  BY <1>1, <1>2, <1>6, <1>7
<1> QED
  BY <1>8 DEF Ahead, r, s

----------------------------------------------------------------------------

\* A connection is not disturbed by what leaves its part of the state alone or
\* takes frames out of the network.
LEMMA Undisturbed ==
    ASSUME NEW c \in Conns, FreshOf(c), Established(c), cid'[c] = cid[c],
           \A f \in flight' : f.cid = cid[c] => f \in flight,
           sent'[c] = sent[c], base16'[c] = base16[c], top'[c] = top[c],
           newest'[c] = newest[c], begun'[c] = begun[c],
           first'[c] = first[c], eseq'[c] = eseq[c], cseq'[c] = cseq[c],
           Output[c] \in Assemblies => data'[Output[c]] = data[Output[c]]
    PROVE  FreshOf(c)'
<1> SUFFICES ASSUME Sequenced[c]
             PROVE  InWindow(c)' /\ Counted(c)' /\ Kept(c)' /\ \E e \in Nat : Handled(c, e)'
  BY DEF FreshOf
<1>1. Ours(c)' \subseteq Ours(c)
  BY DEF Ours
<1>2. InWindow(c) /\ Counted(c) /\ Kept(c)
  BY DEF FreshOf
<1>3. PICK e \in Nat : Handled(c, e)
  BY DEF FreshOf
<1>4. InWindow(c)'
  BY <1>1, <1>2 DEF InWindow, Follows
<1>5. Counted(c)' /\ Kept(c)'
  BY <1>2 DEF Counted, Kept
<1>6. Handled(c, e)'
  BY <1>1, <1>3 DEF Handled, Follows, Fits
<1> QED
  BY <1>4, <1>5, <1>6

LEMMA OpenFresh ==
    ASSUME AssemblyAssumption, SequenceAssumption, DInv, FInv, NEW c \in Conns,
           NEW v \in ConfigData[c] \cup {NoData}, Open(c, v)
    PROVE  FInv'
<1>1. /\ cid' = [cid EXCEPT ![c] = connection_id + 1] /\ connection_id' = connection_id + 1
      /\ eseq' = [eseq EXCEPT ![c] = 0] /\ first' = [first EXCEPT ![c] = TRUE]
      /\ cseq' = [cseq EXCEPT ![c] = 0]
      /\ sent' = [sent EXCEPT ![c] = [n |-> 0, d |-> 0]]
      /\ \E b \in Bases16[c] : base16' = [base16 EXCEPT ![c] = b]
      /\ top' = [top EXCEPT ![c] = 0] /\ newest' = [newest EXCEPT ![c] = 0]
      /\ begun' = [begun EXCEPT ![c] = 0]
      /\ flight' = flight
  BY DEF Open, NewConnectionId, Configured
<1>2. \A b \in Assemblies : b # Config[c] => data'[b] = data[b]
  BY ConfigWritten DEF DInv, DataTypeOK, Open
<1>3. /\ cid \in [Conns -> 0 .. MaxIds] /\ connection_id \in Nat /\ MaxIds \in Nat
      /\ flight \subseteq [cid : 1 .. MaxIds, peer : BOOLEAN, n : Nat, d : Nat]
  BY DEF DInv, DataTypeOK, AssemblyAssumption
<1>4. IdsFresh'
  BY <1>1, <1>3 DEF FInv, IdsFresh, Established
<1>5. ASSUME NEW x \in Conns, x # c, Established(x)'
      PROVE  FreshOf(x)'
  <2>1. Established(x) /\ cid'[x] = cid[x]
    BY <1>1, <1>3, <1>5 DEF Established
  <2>2. /\ sent'[x] = sent[x] /\ base16'[x] = base16[x] /\ top'[x] = top[x]
        /\ newest'[x] = newest[x] /\ begun'[x] = begun[x] /\ first'[x] = first[x]
    BY <1>1, <1>5 DEF DInv, DataTypeOK
  <2>3. eseq'[x] = eseq[x] /\ cseq'[x] = cseq[x]
    BY <1>1, <1>5 DEF DInv, DataTypeOK
  <2>4. Output[x] \in Assemblies => data'[Output[x]] = data[Output[x]]
    BY <1>2 DEF AssemblyAssumption
  <2> QED
    BY <1>1, <2>1, <2>2, <2>3, <2>4, Undisturbed DEF FInv
<1>6. FreshOf(c)'
  <2>1. Ours(c)' = {}
    BY <1>1, <1>3 DEF Ours, FInv, IdsFresh
  <2>2. /\ sent'[c] = [n |-> 0, d |-> 0] /\ top'[c] = 0 /\ newest'[c] = 0
        /\ first'[c] = TRUE /\ begun'[c] = 0
    BY <1>1 DEF DInv, DataTypeOK
  <2>3. cseq'[c] = 0
    BY <1>1 DEF DInv, DataTypeOK
  <2>4. InWindow(c)' /\ Counted(c)' /\ Kept(c)' /\ Handled(c, 0)'
    BY <2>1, <2>2, <2>3 DEF InWindow, Counted, Kept, Handled, Follows, SequenceAssumption
  <2> QED
    BY <2>4 DEF FreshOf
<1> QED
  BY <1>4, <1>5, <1>6 DEF FInv, FreshOf

LEMMA OpenFailsFresh ==
    ASSUME AssemblyAssumption, DInv, FInv, NEW c \in Conns,
           NEW v \in ConfigData[c] \cup {NoData}, OpenFails(c, v)
    PROVE  FInv'
<1>1. /\ UNCHANGED <<cid, flight, sent, base16, top, newest, begun>> /\ connection_id' = connection_id + 1
      /\ eseq' = [eseq EXCEPT ![c] = 0] /\ first' = [first EXCEPT ![c] = TRUE]
      /\ cseq' = [cseq EXCEPT ![c] = 0] /\ ~Established(c)
  BY DEF OpenFails, CanOpen, Configured, history
<1>2. \A b \in Assemblies : b # Config[c] => data'[b] = data[b]
  BY ConfigWritten DEF DInv, DataTypeOK, OpenFails
<1>3. IdsFresh'
  <2>1. /\ cid \in [Conns -> 0 .. MaxIds] /\ connection_id \in Nat /\ MaxIds \in Nat
        /\ flight \subseteq [cid : 1 .. MaxIds, peer : BOOLEAN, n : Nat, d : Nat]
    BY DEF DInv, DataTypeOK, AssemblyAssumption
  <2> QED
    BY <1>1, <2>1 DEF FInv, IdsFresh, Established
<1>4. ASSUME NEW x \in Conns, Established(x)'
      PROVE  FreshOf(x)'
  <2>1. Established(x) /\ x # c
    BY <1>1, <1>4 DEF Established
  <2>2. first'[x] = first[x] /\ eseq'[x] = eseq[x] /\ cseq'[x] = cseq[x]
    BY <1>1, <2>1 DEF DInv, DataTypeOK
  <2>3. Output[x] \in Assemblies => data'[Output[x]] = data[Output[x]]
    BY <1>2 DEF AssemblyAssumption
  <2> QED
    BY <1>1, <2>1, <2>2, <2>3, Undisturbed DEF FInv
<1> QED
  BY <1>3, <1>4 DEF FInv, FreshOf

LEMMA CloseFresh ==
    ASSUME AssemblyAssumption, DInv, FInv, NEW c \in Conns, Close(c)
    PROVE  FInv'
<1>1. /\ cid' = [cid EXCEPT ![c] = 0]
      /\ sent' = [sent EXCEPT ![c] = [n |-> 0, d |-> 0]]
      /\ base16' = [base16 EXCEPT ![c] = 0]
      /\ top' = [top EXCEPT ![c] = 0] /\ newest' = [newest EXCEPT ![c] = 0]
      /\ begun' = [begun EXCEPT ![c] = 0]
      /\ UNCHANGED <<connection_id, eseq, first, cseq, data, flight>>
  BY DEF Close, receiver
<1>2. cid \in [Conns -> 0 .. MaxIds] /\ connection_id \in Nat
  BY DEF DInv, DataTypeOK, AssemblyAssumption
<1>3. IdsFresh'
  BY <1>1, <1>2 DEF FInv, IdsFresh, Established
<1>4. ASSUME NEW x \in Conns, Established(x)'
      PROVE  FreshOf(x)'
  <2>1. Established(x) /\ x # c /\ cid'[x] = cid[x]
    BY <1>1, <1>2, <1>4 DEF Established
  <2>2. /\ sent'[x] = sent[x] /\ base16'[x] = base16[x] /\ top'[x] = top[x]
        /\ newest'[x] = newest[x] /\ begun'[x] = begun[x]
    BY <1>1, <2>1 DEF DInv, DataTypeOK
  <2> QED
    BY <1>1, <2>1, <2>2, Undisturbed DEF FInv
<1> QED
  BY <1>3, <1>4 DEF FInv, FreshOf

\* The next sending follows all that the last one follows.
LEMMA FollowsSending ==
    ASSUME NEW f, NEW s, NEW t, f.n \in Nat, f.d \in Nat, s.n \in Nat, s.d \in Nat,
           f.n <= s.n, Follows(f, s), t.n = s.n + 1, t.d = s.d \/ t.d = s.d + 1
    PROVE  Follows(f, t) /\ Follows(t, f)
BY DEF Follows

LEMMA SendFresh ==
    ASSUME AssemblyAssumption, SequenceAssumption, DInv, FInv, NEW c \in Conns, NEW d \in 1 .. MaxSent[c],
           Send(c, d)
    PROVE  FInv'
<1> DEFINE new == [cid |-> cid[c], peer |-> TRUE, n |-> sent[c].n + 1, d |-> d]
<1>1. /\ flight' = flight \cup {new}
      /\ sent' = [sent EXCEPT ![c] = [n |-> sent[c].n + 1, d |-> d]]
      /\ UNCHANGED <<cid, connection_id, eseq, first, cseq, data, base16, top, newest, begun>>
      /\ Established(c) /\ d \in {sent[c].d, sent[c].d + 1} /\ d > 0
      /\ sent[c].n + 1 - top[c] <= Span
      /\ \A f \in flight : f.cid = cid[c] => sent[c].n + 1 - f.n <= Span
  BY DEF Send, receiver, history
<1>2. new.cid = cid[c] /\ new.peer /\ new.n = sent[c].n + 1 /\ new.d = d
  OBVIOUS
<1> HIDE DEF new
<1>3. /\ sent[c].n \in Nat /\ sent[c].d \in Nat /\ top[c] \in Nat /\ d \in Nat
      /\ flight \subseteq [cid : 1 .. MaxIds, peer : BOOLEAN, n : Nat, d : Nat]
      /\ sent'[c].n = sent[c].n + 1 /\ sent'[c].d = d
  <2>1. /\ sent \in [Conns -> [n : Nat, d : Nat]] /\ top \in [Conns -> Nat]
        /\ flight \subseteq [cid : 1 .. MaxIds, peer : BOOLEAN, n : Nat, d : Nat]
    BY DEF DInv, DataTypeOK
  <2>2. sent[c] \in [n : Nat, d : Nat] /\ top[c] \in Nat
    BY ONLY <2>1, c \in Conns
  <2>3. sent[c].n \in Nat /\ sent[c].d \in Nat
    BY ONLY <2>2
  <2>4. d \in Nat
    BY ONLY <1>1, <2>3
  <2>5. sent'[c] = [n |-> sent[c].n + 1, d |-> d]
    BY ONLY <1>1, <2>1, c \in Conns
  <2> QED
    BY ONLY <2>1, <2>2, <2>3, <2>4, <2>5
<1>4. IdsFresh'
  BY <1>1, <1>2 DEF FInv, IdsFresh, Established
<1>5. ASSUME NEW x \in Conns, x # c, Established(x)'
      PROVE  FreshOf(x)'
  <2>1. Established(x) /\ cid[x] # cid[c]
    BY <1>1, <1>5 DEF FInv, IdsFresh, Established
  <2>2. \A f \in flight' : f.cid = cid[x] => f \in flight
    BY <1>1, <1>2, <2>1
  <2>3. sent'[x] = sent[x]
    BY <1>1, <1>5 DEF DInv, DataTypeOK
  <2> QED
    BY <1>1, <2>1, <2>2, <2>3, Undisturbed DEF FInv
<1>6. ASSUME Sequenced[c]
      PROVE  FreshOf(c)'
  <2>1. InWindow(c) /\ Counted(c) /\ Kept(c)
    BY <1>1, <1>6 DEF FInv, FreshOf
  <2>2. PICK e \in Nat : Handled(c, e)
    BY <1>1, <1>6 DEF FInv, FreshOf
  <2>3. Ours(c)' = Ours(c) \cup {new}
    BY <1>1, <1>2 DEF Ours
  <2>4. \A f \in Ours(c) : f.n \in Nat /\ f.d \in Nat /\ f.n <= sent[c].n /\ Follows(f, sent[c])
    BY <1>3, <2>1 DEF InWindow, Ours
  <2>5. \A f \in Ours(c) : Follows(f, new) /\ Follows(new, f) /\ Follows(f, sent'[c])
    BY <1>1, <1>2, <1>3, <2>4, FollowsSending
  <2>6. Follows(new, new) /\ Follows(new, sent'[c])
    BY <1>1, <1>2, <1>3, <2>4 DEF Follows
  <2>7. InWindow(c)'
    <3>1. ASSUME NEW f \in Ours(c)'
          PROVE  /\ f.n >= 1 /\ f.d >= 1 /\ f.n <= sent'[c].n /\ sent'[c].n - f.n <= Span
                 /\ Follows(f, sent'[c])
                 /\ \A g \in Ours(c)' : Follows(f, g)
      <4>1. CASE f \in Ours(c)
        <5>1. sent'[c].n - f.n <= Span
          BY <1>1, <1>3, <4>1 DEF Ours
        <5>2. \A g \in Ours(c)' : Follows(f, g)
          BY <2>1, <2>3, <2>5, <4>1 DEF InWindow
        <5> QED
          BY <1>3, <2>1, <2>4, <2>5, <4>1, <5>1, <5>2 DEF InWindow
      <4>2. CASE f = new
        <5>1. \A g \in Ours(c)' : Follows(f, g)
          BY <2>3, <2>5, <2>6, <4>2
        <5>2. 0 <= Span
          BY DEF SequenceAssumption
        <5> QED
          BY <1>1, <1>2, <1>3, <2>6, <4>2, <5>1, <5>2
      <4> QED
        BY <2>3, <4>1, <4>2
    <3>2. top'[c] <= sent'[c].n /\ sent'[c].n - top'[c] <= Span /\ (first'[c] <=> top'[c] = 0)
      BY <1>1, <1>3, <2>1, <2>4 DEF InWindow
    <3> QED
      BY <3>1, <3>2 DEF InWindow
  <2>8. Counted(c)' /\ Kept(c)'
    BY <1>1, <2>1 DEF Counted, Kept
  <2>9. Handled(c, e)'
    <3> DEFINE last == [n |-> top[c], d |-> e]
    <3>1. /\ Follows(last, sent[c]) /\ top[c] <= sent[c].n
          /\ \A f \in Ours(c) : Follows(last, f) /\ Follows(f, last)
      BY <2>1, <2>2 DEF Handled, InWindow
    <3>2. Follows(last, sent'[c]) /\ Follows(last, new) /\ Follows(new, last)
      BY <1>1, <1>2, <1>3, <3>1, FollowsSending
    <3>3. \A f \in Ours(c)' : Follows(last, f) /\ Follows(f, last)
      BY <2>3, <3>1, <3>2
    <3> QED
      BY <1>1, <2>2, <3>2, <3>3 DEF Handled, Fits
  <2> QED
    BY <2>7, <2>8, <2>9 DEF FreshOf
<1> QED
  BY <1>4, <1>5, <1>6 DEF FInv, FreshOf

\* The 32 bit filter lets a frame pass iff no later one has come.
LEMMA FrameFilter ==
    ASSUME SequenceAssumption, NEW c \in Conns, Sequenced[c], NEW f,
           f.n \in Nat, f.n >= 1, top[c] \in Nat,
           f.n - top[c] <= Span, top[c] - f.n <= Span,
           first[c] => top[c] = 0, Counted(c)
    PROVE  SEQ_GT32(AddrEncapSeqNum(c, f),
                    IF first[c] THEN (AddrEncapSeqNum(c, f) - 1) % Mod32 ELSE eseq[c])
             <=> f.n > top[c]
<1>1. AddrEncapSeqNum(c, f) = (Base32 + f.n) % Mod32 /\ Base32 + f.n \in Nat
  BY DEF AddrEncapSeqNum, SequenceAssumption
<1>2. CASE first[c]
  <2> DEFINE seq == AddrEncapSeqNum(c, f)
  <2>1. seq \in Int /\ seq % Mod32 = seq
    <3>1. (Base32 + f.n) % Mod32 \in 0 .. Mod32 - 1
      <4>1. Base32 + f.n \in Nat
        BY <1>1
      <4> QED
        BY <4>1, Widths
    <3> QED
      BY <1>1, <3>1, Widths, ModSmall
  <2>2. Span >= 1
    BY <1>2 DEF SequenceAssumption
  <2> HIDE DEF seq
  <2>3. Ahead(seq % Mod32, (seq - 1) % Mod32, Mod32) <=> seq > seq - 1
    <3>1. seq - (seq - 1) <= Span /\ (seq - 1) - seq <= Span /\ seq - 1 \in Int
      BY <2>1, <2>2 DEF SequenceAssumption
    <3> QED
      BY <2>1, <3>1, AheadInWindow DEF SequenceAssumption
  <2>4. Ahead(seq, (seq - 1) % Mod32, Mod32)
    BY <2>1, <2>3
  <2> QED
    BY <1>2, <2>4 DEF SEQ_GT32, seq
<1>3. CASE ~first[c]
  <2>1. eseq[c] = (Base32 + top[c]) % Mod32
    BY <1>3 DEF Counted
  <2>2. Ahead((Base32 + f.n) % Mod32, (Base32 + top[c]) % Mod32, Mod32)
          <=> Base32 + f.n > Base32 + top[c]
    <3>1. /\ Base32 + f.n \in Int /\ Base32 + top[c] \in Int
          /\ (Base32 + f.n) - (Base32 + top[c]) <= Span
          /\ (Base32 + top[c]) - (Base32 + f.n) <= Span
      BY DEF SequenceAssumption
    <3> QED
      BY <3>1, AheadInWindow DEF SequenceAssumption
  <2>3. Base32 + f.n > Base32 + top[c] <=> f.n > top[c]
    BY DEF SequenceAssumption
  <2> QED
    BY <1>1, <1>3, <2>1, <2>2, <2>3 DEF SEQ_GT32
<1> QED
  BY <1>2, <1>3

\* The 16 bit filter, once it has begun, stops a datum that passed the other
\* filter iff it is the one that came last.
LEMMA DatumFilter ==
    ASSUME SequenceAssumption, NEW c \in Conns, base16[c] \in Nat,
           NEW e \in Nat, NEW f, f.d \in Nat, f.d >= e, f.d - e <= Span,
           cseq[c] = (base16[c] + e) % Mod16
    PROVE  SEQ_LEQ16(SequenceCount(c, f), cseq[c]) <=> f.d = e
<1>1. SequenceCount(c, f) = (base16[c] + f.d) % Mod16 /\ base16[c] + f.d \in Nat
  BY DEF SequenceCount
<1>2. Ahead((base16[c] + f.d) % Mod16, (base16[c] + e) % Mod16, Mod16)
        <=> base16[c] + f.d > base16[c] + e
  <2>1. /\ base16[c] + f.d \in Int /\ base16[c] + e \in Int
        /\ (base16[c] + f.d) - (base16[c] + e) <= Span
        /\ (base16[c] + e) - (base16[c] + f.d) <= Span
    BY DEF SequenceAssumption
  <2> QED
    BY <2>1, AheadInWindow DEF SequenceAssumption
<1>3. base16[c] + f.d > base16[c] + e <=> f.d # e
  OBVIOUS
<1> QED
  BY <1>1, <1>2, <1>3 DEF SEQ_LEQ16

LEMMA FrameLen ==
    ASSUME DataHaveWords, NEW f, f.d \in Nat
    PROVE  Len(Payload(f)) = WordsOf(f.d) /\ WordsOf(f.d) \in Nat \ {0}
BY DEF DataHaveWords, Payload

\* A frame ahead of all others brings its datum, the words of which are in
\* place when they fit.
LEMMA AcceptedIsFresh ==
    ASSUME AssemblyAssumption, SequenceAssumption, DataHaveWords,
           DInv, NEW c \in Conns, FreshOf(c), Established(c), Sequenced[c],
           NEW f \in Ours(c), f.peer, Accept(c, f), Noted(c, f),
           f.n > top[c], UNCHANGED <<cid, connection_id, flight, sent, base16>>
    PROVE  FreshOf(c)'
<1>1. InWindow(c) /\ Counted(c) /\ Kept(c)
  BY DEF FreshOf
<1>2. PICK e \in Nat : Handled(c, e)
  BY DEF FreshOf
<1>3. /\ f.n \in Nat /\ f.d \in Nat /\ top[c] \in Nat /\ newest[c] \in Nat
      /\ sent[c].n \in Nat /\ sent[c].d \in Nat /\ f.cid = cid[c]
      /\ f.n >= 1 /\ f.d >= 1 /\ f.n <= sent[c].n /\ sent[c].n - f.n <= Span
      /\ f.n - top[c] <= Span /\ top[c] - f.n <= Span
  <2>1. f \in flight /\ f.cid = cid[c]
    BY DEF Ours
  <2>2. f.n \in Nat /\ f.d \in Nat
    BY <2>1 DEF DInv, DataTypeOK
  <2>3. /\ top[c] \in Nat /\ newest[c] \in Nat /\ sent[c].n \in Nat /\ sent[c].d \in Nat
        /\ Span \in Nat
    BY DEF DInv, DataTypeOK, SequenceAssumption
  <2>4. f.n >= 1 /\ f.d >= 1 /\ f.n <= sent[c].n /\ sent[c].n - f.n <= Span
    BY <1>1 DEF InWindow
  <2>5. sent[c].n - top[c] <= Span
    BY <1>1 DEF InWindow
  <2> QED
    BY <2>1, <2>2, <2>3, <2>4, <2>5
<1>4. f.d >= e /\ f.d - e <= f.n - top[c] /\ ((top[c] = 0) <=> (e = 0))
  BY <1>2, <1>3 DEF Handled, Follows
<1>5. /\ eseq' = [eseq EXCEPT ![c] = AddrEncapSeqNum(c, f)]
      /\ first' = [first EXCEPT ![c] = FALSE]
      /\ HandleReceivedIoConnectionData(c, f)
  BY <1>1, <1>3, FrameFilter DEF Accept, InWindow
<1>6. /\ top' = [top EXCEPT ![c] = f.n]
      /\ newest' = IF SizeFits(c, Payload(f)) THEN [newest EXCEPT ![c] = f.d] ELSE newest
  BY DEF Noted
<1>7. SizeFits(c, Payload(f)) <=> Fits(c, f.d)
  <2>1. Len(Payload(f)) = WordsOf(f.d)
    BY <1>3, FrameLen
  <2> QED
    BY <2>1 DEF SizeFits, Fits
<1>8. /\ top'[c] = f.n /\ first'[c] = FALSE /\ eseq'[c] = (Base32 + f.n) % Mod32
      /\ newest'[c] = IF Fits(c, f.d) THEN f.d ELSE newest[c]
      /\ Ours(c)' = Ours(c) /\ sent'[c] = sent[c]
  BY <1>5, <1>6, <1>7 DEF DInv, DataTypeOK, AddrEncapSeqNum, Ours
<1>9. InWindow(c)' /\ Counted(c)'
  <2>1. top'[c] <= sent'[c].n /\ sent'[c].n - top'[c] <= Span
    BY ONLY <1>3, <1>8
  <2>2. first'[c] <=> top'[c] = 0
    BY ONLY <1>3, <1>8
  <2>3. \A g \in Ours(c)' :
          /\ g.n >= 1 /\ g.d >= 1 /\ g.n <= sent'[c].n /\ sent'[c].n - g.n <= Span
          /\ Follows(g, sent'[c])
          /\ \A h \in Ours(c)' : Follows(g, h)
    BY ONLY <1>1, <1>8 DEF InWindow
  <2>4. Counted(c)'
    BY ONLY <1>8 DEF Counted
  <2> QED
    BY ONLY <2>1, <2>2, <2>3, <2>4 DEF InWindow
<1>10. Class[c] = 1 /\ begun[c] # 0 => (SEQ_LEQ16(SequenceCount(c, f), cseq[c]) <=> f.d = e)
  <2> SUFFICES ASSUME Class[c] = 1, begun[c] # 0
               PROVE  SEQ_LEQ16(SequenceCount(c, f), cseq[c]) <=> f.d = e
    OBVIOUS
  <2>1. cseq[c] = (base16[c] + e) % Mod16
    BY <1>2 DEF Handled
  <2>2. base16[c] \in Nat /\ f.d \in Nat /\ f.d >= e
    BY <1>3, <1>4 DEF DInv, DataTypeOK
  <2>3. f.d - e <= Span
    BY <1>3, <1>4 DEF SequenceAssumption
  <2> QED
    BY ONLY <2>1, <2>2, <2>3, DatumFilter, SequenceAssumption, c \in Conns, e \in Nat
<1> DEFINE taken == Class[c] = 1 => ~SEQ_LEQ16(SequenceCount(c, f), cseq[c])
<1>13. begun'[c] = IF begun[c] = 0 /\ taken THEN f.d ELSE begun[c]
  <2>1. begun[c] = 0 => (Begins(c, f) <=> taken)
    BY <1>2 DEF Begins, SEQ_LEQ16, Handled
  <2>2. Begins(c, f) => begun[c] = 0
    BY DEF Begins
  <2>3. begun' = IF Begins(c, f) THEN [begun EXCEPT ![c] = f.d] ELSE begun
    BY DEF Noted
  <2>4. begun \in [Conns -> Nat]
    BY DEF DInv, DataTypeOK
  <2> HIDE DEF taken
  <2> QED
    BY ONLY <2>1, <2>2, <2>3, <2>4, c \in Conns
<1>14. /\ ~taken => cseq' = cseq /\ data' = data
       /\ taken /\ Class[c] = 1 => cseq'[c] = (base16[c] + f.d) % Mod16
       /\ taken => RecvData(c, Output[c], Payload(f))
  BY <1>5 DEF HandleReceivedIoConnectionData, SequenceCount, DInv, DataTypeOK
<1>15. begun[c] # 0 /\ ~taken => f.d = e
  BY <1>10
<1>16. begun[c] # 0 /\ taken /\ Class[c] = 1 => f.d # e
  BY <1>10
<1>17. begun[c] \in Nat /\ begun[c] <= e /\ newest[c] <= e /\ (e > 0 => (Fits(c, e) <=> newest[c] = e))
  BY <1>2 DEF Handled, DInv, DataTypeOK
<1>18. newest'[c] <= f.d /\ (Fits(c, f.d) <=> newest'[c] = f.d)
  <2>1. CASE Fits(c, f.d)
    BY <1>3, <1>8, <2>1
  <2>2. CASE ~Fits(c, f.d)
    <3>1. newest'[c] = newest[c] /\ (f.d = e => newest[c] # e)
      BY <1>3, <1>8, <1>17, <2>2
    <3> QED
      BY ONLY <1>3, <1>4, <1>17, <2>2, <3>1, e \in Nat
  <2> QED
    BY <2>1, <2>2
<1> HIDE DEF taken
<1>11. Handled(c, f.d)'
  <2> DEFINE last == [n |-> top'[c], d |-> f.d]
  <2>1. \A g \in Ours(c) : Follows(last, g) /\ Follows(g, last)
    BY <1>1, <1>8 DEF InWindow, Follows
  <2>2. Follows(last, sent'[c])
    BY <1>1, <1>8 DEF InWindow, Follows
  <2>3. Class[c] = 1 => cseq'[c] = IF begun'[c] = 0 THEN 0 ELSE (base16'[c] + f.d) % Mod16
    <3>1. base16'[c] = base16[c]
      OBVIOUS
    <3>2. Class[c] = 1 => cseq[c] = IF begun[c] = 0 THEN 0 ELSE (base16[c] + e) % Mod16
      BY <1>2 DEF Handled
    <3>3. f.d # 0
      BY ONLY <1>3
    <3> QED
      BY ONLY <1>13, <1>14, <1>15, <3>1, <3>2, <3>3
  <2>4. begun'[c] <= f.d /\ newest'[c] <= f.d /\ (f.d > 0 => (Fits(c, f.d) <=> newest'[c] = f.d))
    BY ONLY <1>3, <1>4, <1>13, <1>17, <1>18, e \in Nat
  <2>5. top'[c] # 0 /\ f.d # 0
    BY ONLY <1>3, <1>8
  <2> QED
    BY <1>8, <2>1, <2>2, <2>3, <2>4, <2>5 DEF Handled, Fits
<1>12. Kept(c)'
  <2> SUFFICES ASSUME Output[c] \in Assemblies, begun'[c] \in 1 .. newest'[c]
               PROVE  data'[Output[c]][1] = Mark(cid[c], newest'[c])
    BY DEF Kept
  <2>1. CASE ~taken
    <3>1. data' = data /\ begun'[c] = begun[c] /\ begun[c] # 0
      BY <1>13, <1>14, <1>17, <2>1
    <3>2. newest'[c] = newest[c]
      BY ONLY <1>3, <1>8, <1>15, <1>17, <2>1, <3>1, e \in Nat
    <3> QED
      BY <1>1, <3>1, <3>2 DEF Kept
  <2>2. CASE taken
    <3>1. RecvData(c, Output[c], Payload(f))
      BY <1>14, <2>2
    <3>2. CASE ~SizeFits(c, Payload(f))
      <4>1. newest'[c] = newest[c] /\ newest'[c] # f.d /\ data' = data
        BY <1>7, <1>8, <1>18, <3>1, <3>2 DEF RecvData
      <4>2. begun'[c] = begun[c]
        BY ONLY <1>3, <1>13, <1>18, <4>1, begun'[c] \in 1 .. newest'[c]
      <4> QED
        BY <1>1, <4>1, <4>2 DEF Kept
    <3>3. CASE SizeFits(c, Payload(f))
      <4>1. data'[Output[c]] = Overwritten(data[Output[c]], Payload(f))
        BY <3>1, <3>3 DEF RecvData, DInv, DataTypeOK
      <4>2. /\ Len(Payload(f)) = WordsOf(f.d) /\ WordsOf(f.d) \in Nat \ {0}
            /\ WordsOf(f.d) <= Words /\ Words \in Nat
        BY <1>3, <3>3, FrameLen DEF SizeFits, AssemblyAssumption
      <4>3. 1 \in 1 .. Words /\ 1 \in 1 .. WordsOf(f.d) /\ 1 <= Len(Payload(f))
        BY <4>2
      <4>4. Overwritten(data[Output[c]], Payload(f))[1] = Payload(f)[1]
        BY <4>3 DEF Overwritten
      <4>5. Payload(f)[1] = Mark(cid[c], f.d)
        BY <1>3, <4>3 DEF Payload
      <4> QED
        BY <1>7, <1>8, <3>3, <4>1, <4>4, <4>5
    <3> QED
      BY <3>2, <3>3
  <2> QED
    BY <2>1, <2>2
<1> QED
  BY <1>3, <1>9, <1>11, <1>12 DEF FreshOf

\* A frame that is not ahead of all others changes nothing.
LEMMA RefusedIsFresh ==
    ASSUME AssemblyAssumption, SequenceAssumption, DInv, NEW c \in Conns, FreshOf(c),
           Established(c), Sequenced[c], NEW f \in Ours(c), Accept(c, f), Noted(c, f),
           f.n <= top[c], UNCHANGED <<cid, connection_id, flight, sent, base16>>
    PROVE  FreshOf(c)'
<1>1. InWindow(c) /\ Counted(c)
  BY DEF FreshOf
<1>2. f \in flight /\ f.n \in Nat /\ top[c] \in Nat /\ sent[c].n \in Nat /\ Span \in Nat
  BY DEF Ours, DInv, DataTypeOK, SequenceAssumption
<1>3. f.n >= 1 /\ f.n <= sent[c].n /\ sent[c].n - f.n <= Span /\ sent[c].n - top[c] <= Span
      /\ top[c] <= sent[c].n /\ (first[c] <=> top[c] = 0)
  BY <1>1 DEF InWindow
<1>4. ~first[c]
  BY <1>2, <1>3
<1>5. ~SEQ_GT32(AddrEncapSeqNum(c, f), eseq[c])
  <2>1. f.n - top[c] <= Span /\ top[c] - f.n <= Span /\ ~(f.n > top[c])
    BY <1>2, <1>3
  <2> QED
    BY <1>1, <1>2, <1>3, <1>4, <2>1, FrameFilter
<1>6. /\ first' = [first EXCEPT ![c] = FALSE] /\ eseq' = [eseq EXCEPT ![c] = eseq[c]]
      /\ UNCHANGED <<cseq, data>>
  BY <1>4, <1>5 DEF Accept
<1>7. UNCHANGED <<top, newest, begun>>
  BY <1>2 DEF Noted
<1>8. first'[c] = first[c] /\ eseq'[c] = eseq[c] /\ first[c] = FALSE
  BY <1>4, <1>6 DEF DInv, DataTypeOK
<1> QED
  BY <1>6, <1>7, <1>8, Undisturbed

LEMMA ReceiveFresh ==
    ASSUME AssemblyAssumption, SequenceAssumption, DataHaveWords,
           DInv, FInv, NEW f \in flight \cup Strangers, RecvConnectedData(f)
    PROVE  FInv'
<1>1. UNCHANGED <<cid, connection_id, flight, sent, base16>>
  BY DEF RecvConnectedData
<1>2. IdsFresh'
  BY <1>1 DEF FInv, IdsFresh, Established
<1>3. CASE UNCHANGED <<receiver, data, top, newest, begun>>
  <2>1. \A x \in Conns : Established(x) => FreshOf(x)'
    BY <1>1, <1>3, Undisturbed DEF FInv, receiver
  <2> QED
    BY <1>1, <1>2, <2>1 DEF FInv, FreshOf, Established
<1>4. ASSUME NEW c \in GetConnectionByConsumingId(f.cid), FromPeer(f), Accept(c, f), Noted(c, f)
      PROVE  FInv'
  <2>1. c \in Conns /\ Established(c) /\ f.cid = cid[c] /\ f.peer
    BY <1>4 DEF GetConnectionByConsumingId, FromPeer
  <2>2. f \in Ours(c)
    BY <2>1 DEF Strangers, Ours
  <2>3. ASSUME NEW x \in Conns, x # c, Established(x)
        PROVE  FreshOf(x)'
    <3>1. /\ top'[x] = top[x] /\ newest'[x] = newest[x] /\ begun'[x] = begun[x]
          /\ first'[x] = first[x]
          /\ eseq'[x] = eseq[x]
      BY <1>4, <2>1, <2>3 DEF Accept, Noted, DInv, DataTypeOK
    <3>2. cseq'[x] = cseq[x]
      BY <1>4, <2>1, <2>3 DEF Accept, HandleReceivedIoConnectionData, DInv, DataTypeOK
    <3>3. Output[x] # Output[c]
      BY <2>1, <2>3 DEF DInv, OneByOutput
    <3>4. Output[x] \in Assemblies => data'[Output[x]] = data[Output[x]]
      BY <1>4, <3>3 DEF Accept, HandleReceivedIoConnectionData, RecvData, DInv, DataTypeOK
    <3> QED
      BY <1>1, <2>3, <3>1, <3>2, <3>4, Undisturbed DEF FInv
  <2>4. ASSUME Sequenced[c]
        PROVE  FreshOf(c)'
    <3>1. f.n \in Nat /\ top[c] \in Nat
      BY <2>1, <2>2 DEF Ours, DInv, DataTypeOK
    <3>2. FreshOf(c)
      BY <2>1 DEF FInv
    <3>3. CASE f.n > top[c]
      BY <1>1, <1>4, <2>1, <2>2, <2>4, <3>2, <3>3, AcceptedIsFresh
    <3>4. CASE f.n <= top[c]
      BY <1>1, <1>4, <2>1, <2>2, <2>4, <3>2, <3>4, RefusedIsFresh
    <3> QED
      BY <3>1, <3>3, <3>4
  <2>5. \A x \in Conns : FreshOf(x)'
    BY <1>1, <2>3, <2>4 DEF FreshOf, Established
  <2> QED
    BY <1>2, <2>5 DEF FInv
<1> QED
  BY <1>3, <1>4 DEF RecvConnectedData

LEMMA SetFresh ==
    ASSUME AssemblyAssumption, DInv, FInv, NEW a \in Assemblies, NEW v \in Edits,
           SetAssemblyData(a, v)
    PROVE  FInv'
<1>1. /\ data' = [data EXCEPT ![a] = [i \in 1 .. Words |-> v]]
      /\ UNCHANGED <<cid, connection_id, eseq, first, cseq, flight, sent, base16,
                   top, newest, begun>>
  BY DEF SetAssemblyData, receiver
<1>2. IdsFresh'
  BY <1>1 DEF FInv, IdsFresh, Established
<1>3. ASSUME NEW x \in Conns, Established(x)
      PROVE  FreshOf(x)'
  <2>1. a # Output[x]
    BY <1>3 DEF SetAssemblyData, IsConnectedOutputAssembly
  <2>2. Output[x] \in Assemblies => data'[Output[x]] = data[Output[x]]
    BY <1>1, <2>1 DEF DInv, DataTypeOK
  <2> QED
    BY <1>1, <1>3, <2>2, Undisturbed DEF FInv
<1> QED
  BY <1>1, <1>2, <1>3 DEF FInv, FreshOf, Established

LEMMA LoseFresh ==
    ASSUME FInv, NEW f \in flight, Lose(f)
    PROVE  FInv'
<1>1. /\ flight' \subseteq flight
      /\ UNCHANGED <<cid, connection_id, eseq, first, cseq, data, sent, base16,
                   top, newest, begun>>
  BY DEF Lose, receiver, history
<1>2. IdsFresh'
  BY <1>1 DEF FInv, IdsFresh, Established
<1>3. \A x \in Conns : Established(x) => FreshOf(x)'
  BY <1>1, Undisturbed DEF FInv
<1> QED
  BY <1>1, <1>2, <1>3 DEF FInv, FreshOf, Established

LEMMA NextFresh ==
    ASSUME AssemblyAssumption, SequenceAssumption, DataHaveWords,
           DInv, FInv, [Next]_vars
    PROVE  FInv'
<1>1. CASE UNCHANGED vars
  BY <1>1 DEF vars, FInv, IdsFresh, FreshOf, Established, InWindow, Counted, Kept, Handled,
              Ours, Follows, Fits
<1> QED
  BY <1>1, OpenFresh, OpenFailsFresh, CloseFresh, SendFresh, ReceiveFresh, SetFresh, LoseFresh
     DEF Next

\* Every connection whose originator numbers its frames finds in its output the
\* newest datum that has come in order, wherever the originator begins to count
\* its data: at once for class 0, and for class 1 from the first one on whose
\* count is ahead of 0.
THEOREM NewestDatumKept ==
    ASSUME DataHaveWords
    PROVE  Spec => []FreshDataKept
<1>1. WordsAreNumbers
  BY DEF DataHaveWords, WordsAreNumbers
<1>2. Init => FInv
  BY DEF Init, FInv, IdsFresh, FreshOf, Established
<1>3. DInv /\ FInv /\ [Next]_vars => FInv'
  BY AssemblyAssumption, SequenceAssumption, NextFresh
<1>4. FInv => FreshDataKept
  BY DEF FInv, FreshOf, Kept, FreshDataKept
<1>5. Spec => []DInv
  BY <1>1, DataInvariance
<1> QED
  BY <1>2, <1>3, <1>4, <1>5, PTL DEF Spec

=============================================================================
