----------------------- MODULE ExplicitMessagesProofs -----------------------
(* Proofs about ExplicitMessages, for any clients, messages, sizes of the    *)
(* buffer and delays.                                                        *)
(*                                                                           *)
(* While a message is read its socket stays open, and a message is given up  *)
(* unread only when it is too long (ReadingInv).  Each occupied slot of the  *)
(* delayed replies belongs to one request that waits, and each request that  *)
(* waits has one slot, with less left than the request can wait (SlotsInv);  *)
(* so a slot is free exactly when less than two requests wait.               *)
EXTENDS ExplicitMessages, FiniteSetTheorems, FunctionTheorems, WellFoundedInduction, TLAPS

Readings == [socket : Sockets, m : TcpMessages, part : Parts, left : Nat]
Slots == [receiver : Hosts, context : Nat, left : Nat]
Requests == [receiver : Hosts, context : Nat, due : Nat]

TypeOK ==
    /\ place \in [Sockets -> Handles \cup {0}]
    /\ registered \in [Sockets -> BOOLEAN]
    /\ reading \in Readings \cup {None}
    /\ DOMAIN attributes = DOMAIN FirstAttributes
    /\ active \subseteq Conns
    /\ messages \in [Delayed -> Slots \cup {None}]
    /\ asks \in Nat
    /\ waiting \subseteq Requests

ReadingInv ==
    ~Idle =>
        /\ Open(reading.socket)
        /\ reading.part \in {"disposed", "illegal"} => reading.m.len > Capacity

Occupied == {d \in Delayed : messages[d] # None}

SlotsInv ==
    /\ \A d \in Occupied : messages[d].context <= asks
    /\ \A d, e \in Occupied : messages[d].context = messages[e].context => d = e
    /\ \A v, w \in waiting : v.context = w.context => v = w
    /\ \A w \in waiting : \E d \in Occupied :
         /\ messages[d].receiver = w.receiver /\ messages[d].context = w.context
         /\ messages[d].left < w.due
    /\ \A d \in Occupied : \E w \in waiting : w.context = messages[d].context

EInv == TypeOK /\ ReadingInv /\ SlotsInv

----------------------------------------------------------------------------
(* Messages on TCP.                                                          *)

\* A request that names an item is refused only when its reply fits no buffer.
LEMMA RouterStatus ==
    ASSUME NEW r, NEW a
    PROVE  /\ NotifyMR(r, a).status \notin {"IncorrectData", "overflow_error"}
           /\ NotifyMR(r, a).status = "Error" => Overflows(r, MessageBuffer)
<1>1. /\ set_TTL(r.data, a).status \in {"NotEnoughData", "InvalidAttributeValue", "Success"}
      /\ set_multicast_config(r.data, a).status \in {"NotEnoughData", "Success"}
      /\ set_attr_13(r.data, a).status \in {"NotEnoughData", "Success"}
  BY DEF set_TTL, set_multicast_config, set_attr_13, Answer
<1>2. SetAttribute(r, a).status \notin {"IncorrectData", "overflow_error", "Error"}
  BY <1>1 DEF SetAttribute, Answer
<1> QED
  BY <1>2 DEF NotifyMR, Answer

LEMMA RoutedStatus ==
    ASSUME NEW r, NEW a
    PROVE  /\ Routed(r, a).attributes = NotifyMR(r, a).attributes
           /\ Routed(r, a).status = "IncorrectData" => Overflows(r, MessageBuffer)
           /\ Routed(r, a).status = "overflow_error" =>
                Overflows(r, FrameRoom) /\ NotifyMR(r, a).status # "Error"
<1>1. CASE NotifyMR(r, a).status = "Error"
  BY <1>1, RouterStatus DEF Routed, IncorrectData, Answer
<1>2. CASE NotifyMR(r, a).status # "Error" /\ Overflows(r, FrameRoom)
  BY <1>2 DEF Routed, Answer
<1>3. CASE NotifyMR(r, a).status # "Error" /\ ~Overflows(r, FrameRoom)
  <2>1. Routed(r, a) = NotifyMR(r, a)
    BY <1>3 DEF Routed
  <2> QED
    BY <2>1, RouterStatus
<1> QED
  BY <1>1, <1>2, <1>3

\* A reply that mmr_temp takes is no error.
LEMMA RoutedFits ==
    ASSUME NEW r, NEW a, Overflows(r, MessageBuffer)
    PROVE  Routed(r, a).status # "overflow_error"
<1>1. NotifyMR(r, a).status = "Error"
  BY DEF NotifyMR, Overflows, Answer
<1> QED
  BY <1>1 DEF Routed, IncorrectData, Answer

\* A service changes attributes only as a request to set one, and that one.
SetsOnly(r, a, b) ==
    /\ DOMAIN b = DOMAIN a
    /\ b # a =>
         /\ r.service = "SetAttributeSingle"
         /\ b.ttl # a.ttl => r.attribute = 8
         /\ \A f \in {"alloc", "number", "start"} : b[f] # a[f] => r.attribute = 9
         /\ b.secs # a.secs => r.attribute = 13

LEMMA RouterSets ==
    ASSUME NEW r, NEW a, DOMAIN a = {"ttl", "alloc", "number", "start", "secs"}
    PROVE  SetsOnly(r, a, NotifyMR(r, a).attributes)
<1>1. ASSUME r.attribute = 8
      PROVE  /\ DOMAIN SetAttribute(r, a).attributes = DOMAIN a
             /\ \A f \in DOMAIN a \ {"ttl"} : SetAttribute(r, a).attributes[f] = a[f]
  BY <1>1 DEF SetAttribute, set_TTL, Answer
<1>2. ASSUME r.attribute = 9
      PROVE  /\ DOMAIN SetAttribute(r, a).attributes = DOMAIN a
             /\ \A f \in {"ttl", "secs"} : SetAttribute(r, a).attributes[f] = a[f]
  <2> DEFINE data == r.data
             b == [a EXCEPT
                     !.alloc = IF Len(data) >= 1 THEN data[1] ELSE @,
                     !.number = IF Len(data) >= 3 THEN data[3] ELSE @,
                     !.start = IF Len(data) >= 4 THEN data[4] ELSE @]
  <2>1. SetAttribute(r, a).attributes = b
    BY <1>2 DEF SetAttribute, set_multicast_config, Answer
  <2> HIDE DEF data
  <2>2. DOMAIN b = DOMAIN a /\ \A f \in {"ttl", "secs"} : b[f] = a[f]
    OBVIOUS
  <2> QED
    BY <2>1, <2>2
<1>3. ASSUME r.attribute = 13
      PROVE  /\ DOMAIN SetAttribute(r, a).attributes = DOMAIN a
             /\ \A f \in DOMAIN a \ {"secs"} : SetAttribute(r, a).attributes[f] = a[f]
  BY <1>3 DEF SetAttribute, set_attr_13, Answer
<1>4. ASSUME r.attribute \notin {8, 9, 13}
      PROVE  SetAttribute(r, a).attributes = a
  BY <1>4 DEF SetAttribute, Answer
<1>5. \/ NotifyMR(r, a).attributes = a
      \/ /\ r.service = "SetAttributeSingle"
         /\ NotifyMR(r, a).attributes = SetAttribute(r, a).attributes
  BY DEF NotifyMR, Answer
<1> QED
  BY <1>1, <1>2, <1>3, <1>4, <1>5 DEF SetsOnly

\* A set of indexes has a last one.
LEMMA LastIndex ==
    ASSUME NEW n \in Nat, NEW S \in SUBSET (1 .. n), S # {}
    PROVE  \E i \in S : \A j \in S : j <= i
<1> DEFINE B == {n - i : i \in S}
<1>1. B \subseteq Nat /\ B # {}
  <2>1. \A i \in S : n - i \in Nat
    OBVIOUS
  <2> QED
    BY <2>1
<1>2. PICK x \in B : \A y \in B : ~(<<y, x>> \in OpToRel(<, Nat))
  <2> HIDE DEF B
  <2> QED
    BY <1>1, NatLessThanWellFounded, WFMin
<1>3. \A y \in B : x <= y
  <2> HIDE DEF B
  <2>1. SUFFICES ASSUME NEW y \in B
                 PROVE  x <= y
    OBVIOUS
  <2>2. x \in Nat /\ y \in Nat
    BY <1>1
  <2>3. <<y, x>> \in Nat \X Nat /\ <<y, x>>[1] = y /\ <<y, x>>[2] = x
    BY <2>2
  <2>4. ~(y < x)
    BY <1>2, <2>3 DEF OpToRel
  <2> QED
    BY <2>2, <2>4
<1>4. PICK i \in S : x = n - i
  OBVIOUS
<1>5. \A j \in S : j <= i
  BY <1>3, <1>4
<1> QED
  BY <1>5

\* Later items replace earlier ones of their kind.
LEMMA LastItem ==
    ASSUME NEW body, Len(body) \in Nat, DOMAIN body = 1 .. Len(body), NEW types,
           \E i \in DOMAIN body : body[i].type \in types
    PROVE  \E i \in DOMAIN body :
             /\ LastOf(body, types) = body[i] /\ body[i].type \in types
             /\ \A j \in DOMAIN body : body[j].type \in types => j <= i
<1> DEFINE at == {i \in DOMAIN body : body[i].type \in types}
           last == CHOOSE i \in at : \A j \in at : j <= i
<1>1. at # {} /\ at \in SUBSET (1 .. Len(body))
  OBVIOUS
<1>2. LastOf(body, types) = body[last]
  BY <1>1 DEF LastOf
<1>3. last \in at /\ \A j \in at : j <= last
  <2> HIDE DEF at
  <2>1. \E i \in at : \A j \in at : j <= i
    BY <1>1, LastIndex
  <2> QED
    BY <2>1
<1> QED
  BY <1>2, <1>3

LEMMA NoItem ==
    ASSUME NEW body, NEW types, LastOf(body, types).type # "Empty",
           DOMAIN body = 1 .. Len(body)
    PROVE  \E i \in DOMAIN body : body[i].type \in types
BY DEF LastOf

AttributeNames == {"ttl", "alloc", "number", "start", "secs"}

Outcomes(body) ==
    {NotifyCommonPacketFormat(body, attributes), NotifyConnectedCommonPacketFormat(body, attributes)}

\* What a body changes it changes by the request in its last data item, and
\* only if all its items are known.
LEMMA BodySets ==
    ASSUME NEW body, Len(body) \in Nat, DOMAIN body = 1 .. Len(body),
           DOMAIN attributes = AttributeNames, NEW done \in Outcomes(body)
    PROVE  /\ DOMAIN done.attributes = AttributeNames
           /\ done.attributes # attributes =>
                /\ \A i \in DOMAIN body : body[i].type \in Known
                /\ \E i \in DOMAIN body :
                     /\ body[i].type \in DataTypes
                     /\ \A j \in DOMAIN body : body[j].type \in DataTypes => j <= i
                     /\ SetsOnly(body[i].request, attributes, done.attributes)
<1> DEFINE data == LastOf(body, DataTypes)
<1>1. \/ done = IncorrectData(attributes)
      \/ /\ \A i \in DOMAIN body : body[i].type \in Known
         /\ data.type \in DataTypes
         /\ done = Routed(data.request, attributes)
  BY DEF Outcomes, NotifyCommonPacketFormat, NotifyConnectedCommonPacketFormat, DeserializeCpf,
         DataTypes
<1>2. CASE done = IncorrectData(attributes)
  BY <1>2 DEF IncorrectData, Answer
<1>3. CASE /\ \A i \in DOMAIN body : body[i].type \in Known
           /\ data.type \in DataTypes
           /\ done = Routed(data.request, attributes)
  <2>1. \E i \in DOMAIN body : body[i].type \in DataTypes
    BY <1>3, NoItem DEF DataTypes
  <2>2. PICK i \in DOMAIN body :
          /\ data = body[i] /\ body[i].type \in DataTypes
          /\ \A j \in DOMAIN body : body[j].type \in DataTypes => j <= i
    BY <2>1, LastItem
  <2>3. SetsOnly(body[i].request, attributes, done.attributes)
    BY <1>3, <2>2, RouterSets, RoutedStatus DEF AttributeNames
  <2> QED
    BY <1>3, <2>2, <2>3 DEF SetsOnly
<1> QED
  BY <1>1, <1>2, <1>3

\* A message without a fault is routed for the registered session it names.
LEMMA AnswerRoutes ==
    ASSUME NEW s, NEW m \in TcpMessages
    PROVE  LET answer == HandleReceivedExplicitTcpData(s, m)
           IN  \/ answer.attributes = attributes
               \/ /\ m.cmd \in {"SendRRData", "SendUnitData"} /\ ~m.faulty
                  /\ CheckRegisteredSession(m.handle, s)
                  /\ \E done \in Outcomes(m.body) : answer.attributes = done.attributes
<1> USE MessageAssumption DEF MessageAssumption
<1>1. CASE m.cmd \in {"NOP", "UnRegisterSession"} \/ m.faulty
  <2>1. HandleReceivedExplicitTcpData(s, m) = Silence(attributes)
    BY <1>1 DEF HandleReceivedExplicitTcpData, Commands
  <2> QED
    BY <2>1 DEF Silence
<1>2. CASE ~m.faulty /\ m.cmd = "RegisterSession"
  <2>1. HandleReceivedExplicitTcpData(s, m) = RegisterSession(s, m)
    BY <1>2 DEF HandleReceivedExplicitTcpData
  <2>2. RegisterSession(s, m).attributes = attributes
    BY <1>2 DEF RegisterSession, Refusal, Reply
  <2> QED
    BY <2>1, <2>2
<1>3. CASE ~m.faulty /\ m.cmd = "SendRRData"
  <2>1. HandleReceivedExplicitTcpData(s, m) = SendRRData(s, m)
    BY <1>3 DEF HandleReceivedExplicitTcpData
  <2>2. SendRRData(s, m) \in {Refusal(attributes), Reply("InvalidSessionHandle", attributes)}
        \/ /\ CheckRegisteredSession(m.handle, s)
           /\ LET done == NotifyCommonPacketFormat(m.body, attributes)
              IN  SendRRData(s, m) \in {Reply(done.status, done.attributes),
                                        Exception(done.attributes)}
    BY DEF SendRRData
  <2> QED
    BY <1>3, <2>1, <2>2 DEF Refusal, Reply, Exception, Outcomes
<1>4. CASE ~m.faulty /\ m.cmd = "SendUnitData"
  <2>1. HandleReceivedExplicitTcpData(s, m) = SendUnitData(s, m)
    BY <1>4 DEF HandleReceivedExplicitTcpData
  <2>2. SendUnitData(s, m) \in {Refusal(attributes), Reply("InvalidSessionHandle", attributes)}
        \/ /\ CheckRegisteredSession(m.handle, s)
           /\ LET done == NotifyConnectedCommonPacketFormat(m.body, attributes)
              IN  SendUnitData(s, m) \in {Reply(done.status, done.attributes),
                                          Refusal(done.attributes)}
    BY DEF SendUnitData
  <2> QED
    BY <1>4, <2>1, <2>2 DEF Refusal, Reply, Outcomes
<1>5. CASE ~m.faulty /\ m.cmd \in {"List", "unknown"}
  BY <1>5 DEF HandleReceivedExplicitTcpData, Reply
<1> QED
  BY <1>1, <1>2, <1>3, <1>4, <1>5 DEF Commands

\* SendUnitData with the items it calls for is routed, and refused only when its
\* reply fits no buffer.
LEMMA ConnectedIsRouted ==
    ASSUME NEW m \in TcpMessages, m.cmd = "SendUnitData", ~Malformed(m),
           NotifyConnectedCommonPacketFormat(m.body, attributes).status
               \in {"IncorrectData", "overflow_error"}
    PROVE  LostReply(m)
<1> DEFINE address == LastOf(m.body, AddressTypes)
           data == LastOf(m.body, DataTypes)
<1>1. /\ Len(m.body) \in Nat /\ DOMAIN m.body = 1 .. Len(m.body)
      /\ \A i \in DOMAIN m.body :
           /\ m.body[i].type \in {"Connected", "ConnectedData", "SockAddrInfo"}
           /\ m.body[i].type = "Connected" => m.body[i].cid \in active
           /\ m.body[i].type = "ConnectedData" => m.body[i].request # None
      /\ \E i \in DOMAIN m.body : m.body[i].type = "Connected"
      /\ \E i \in DOMAIN m.body : m.body[i].type = "ConnectedData"
  BY MessageAssumption DEF MessageAssumption, Malformed
<1>2. PICK a \in DOMAIN m.body : address = m.body[a] /\ m.body[a].type \in AddressTypes
  BY <1>1, LastItem DEF AddressTypes
<1>3. PICK k \in DOMAIN m.body :
        /\ data = m.body[k] /\ m.body[k].type \in DataTypes
        /\ \A j \in DOMAIN m.body : m.body[j].type \in DataTypes => j <= k
  <2>1. \E i \in DOMAIN m.body : m.body[i].type \in DataTypes
    BY <1>1 DEF DataTypes
  <2> QED
    BY <1>1, <2>1, LastItem
<1>4. /\ address.type = "Connected" /\ address.cid \in active
      /\ data.type = "ConnectedData" /\ data.request # None
  BY <1>1, <1>2, <1>3 DEF AddressTypes, DataTypes
<1>5. \A i \in DOMAIN m.body : m.body[i].type \in Known
  BY <1>1 DEF Known, AddressTypes, DataTypes
<1>6. NotifyConnectedCommonPacketFormat(m.body, attributes) = Routed(data.request, attributes)
  BY <1>4, <1>5 DEF NotifyConnectedCommonPacketFormat, DeserializeCpf
<1>7. Overflows(m.body[k].request, MessageBuffer) \/ Overflows(m.body[k].request, FrameRoom)
  BY <1>3, <1>6, RoutedStatus
<1> QED
  BY <1>3, <1>7 DEF LostReply, TooLong

\* A reply that SendRRData cannot serialize fits mmr_temp and not the frame.
LEMMA UnconnectedIsRouted ==
    ASSUME NEW m \in TcpMessages, m.cmd = "SendRRData",
           NotifyCommonPacketFormat(m.body, attributes).status = "overflow_error"
    PROVE  Unserializable(m)
<1> DEFINE data == LastOf(m.body, DataTypes)
<1>1. Len(m.body) \in Nat /\ DOMAIN m.body = 1 .. Len(m.body)
  BY MessageAssumption DEF MessageAssumption
<1>2. /\ data.type = "UnconnectedData"
      /\ NotifyCommonPacketFormat(m.body, attributes) = Routed(data.request, attributes)
  BY DEF NotifyCommonPacketFormat, DeserializeCpf, IncorrectData, Answer
<1>3. PICK k \in DOMAIN m.body :
        /\ data = m.body[k] /\ m.body[k].type \in DataTypes
        /\ \A j \in DOMAIN m.body : m.body[j].type \in DataTypes => j <= k
  BY <1>1, <1>2, NoItem, LastItem
<1>4. /\ Overflows(m.body[k].request, FrameRoom)
      /\ ~Overflows(m.body[k].request, MessageBuffer)
  BY <1>2, <1>3, RoutedStatus, RoutedFits
<1>5. ASSUME NEW i \in DOMAIN m.body, m.body[i].type \in DataTypes,
             \A j \in DOMAIN m.body : m.body[j].type \in DataTypes => j <= i
      PROVE  i = k
  <2>1. i <= k /\ k <= i
    BY <1>3, <1>5
  <2> QED
    BY <1>1, <2>1
<1>6. TooLong(m, FrameRoom)
  BY <1>3, <1>4 DEF TooLong
<1>7. ~TooLong(m, MessageBuffer)
  BY <1>4, <1>5 DEF TooLong
<1> QED
  BY <1>6, <1>7 DEF Unserializable

\* What calls for a reply gets one, or ends the connection as malformed or as its
\* reply does not fit, or is left by the exception.
LEMMA AnswerSends ==
    ASSUME NEW s, NEW m \in TcpMessages
    PROVE  LET answer == HandleReceivedExplicitTcpData(s, m)
           IN  /\ CallsForReply(m) => answer.send \in {"reply", "close", "exception"}
               /\ ~CallsForReply(m) => answer.send = "nothing"
               /\ answer.send = "close" => Malformed(m) \/ LostReply(m)
               /\ answer.send = "exception" => Unserializable(m)
<1> USE MessageAssumption DEF MessageAssumption
<1>1. CASE ~CallsForReply(m)
  <2>1. HandleReceivedExplicitTcpData(s, m) = Silence(attributes)
    BY <1>1 DEF HandleReceivedExplicitTcpData, Commands, CallsForReply
  <2> QED
    BY <1>1, <2>1 DEF Silence
<1>2. CASE CallsForReply(m) /\ m.cmd = "RegisterSession"
  <2>1. HandleReceivedExplicitTcpData(s, m) = RegisterSession(s, m)
    BY <1>2 DEF HandleReceivedExplicitTcpData, CallsForReply
  <2>2. /\ RegisterSession(s, m).send \in {"reply", "close"}
        /\ RegisterSession(s, m).send = "close" => m.body = "short"
    BY <1>2 DEF RegisterSession, Refusal, Reply
  <2> QED
    BY <1>2, <2>1, <2>2 DEF Malformed
<1>3. CASE CallsForReply(m) /\ m.cmd = "SendRRData"
  <2>1. HandleReceivedExplicitTcpData(s, m) = SendRRData(s, m)
    BY <1>3 DEF HandleReceivedExplicitTcpData, CallsForReply
  <2>2. /\ SendRRData(s, m).send \in {"reply", "close", "exception"}
        /\ SendRRData(s, m).send = "close" => m.body = <<>>
        /\ SendRRData(s, m).send = "exception" =>
             NotifyCommonPacketFormat(m.body, attributes).status = "overflow_error"
    BY DEF SendRRData, Refusal, Reply, Exception
  <2>3. m.body = <<>> => Malformed(m)
    BY <1>3 DEF Malformed
  <2> QED
    BY <1>3, <2>1, <2>2, <2>3, UnconnectedIsRouted
<1>4. CASE CallsForReply(m) /\ m.cmd = "SendUnitData"
  <2>1. HandleReceivedExplicitTcpData(s, m) = SendUnitData(s, m)
    BY <1>4 DEF HandleReceivedExplicitTcpData, CallsForReply
  <2>2. /\ SendUnitData(s, m).send \in {"reply", "close"}
        /\ SendUnitData(s, m).send = "close" =>
             \/ m.body = <<>>
             \/ NotifyConnectedCommonPacketFormat(m.body, attributes).status
                  \in {"IncorrectData", "overflow_error"}
    BY DEF SendUnitData, Refusal, Reply
  <2>3. m.body = <<>> => Malformed(m)
    BY <1>4 DEF Malformed
  <2> QED
    BY <1>4, <2>1, <2>2, <2>3, ConnectedIsRouted
<1>5. CASE CallsForReply(m) /\ m.cmd \in {"List", "unknown"}
  BY <1>5 DEF HandleReceivedExplicitTcpData, CallsForReply, Reply
<1> QED
  BY <1>1, <1>2, <1>3, <1>4, <1>5 DEF CallsForReply, Commands

----------------------------------------------------------------------------
(* The invariant.                                                            *)

\* Reading goes on from part to part; the parts in which a message is thrown
\* away follow only a header that announces too much.
LEMMA PartsFollow ==
    ASSUME NEW part \in {"header", "body", "disposed"}, NEW m \in TcpMessages,
           part = "disposed" => m.len > Capacity
    PROVE  /\ NextPart(part, m) \in Parts
           /\ NextPart(part, m) \in {"disposed", "illegal"} => m.len > Capacity
<1>1. m.len \in Nat /\ Capacity \in Nat /\ Longest \in Nat /\ Capacity < Longest
  BY MessageAssumption, SizeAssumption DEF MessageAssumption, SizeAssumption
<1>2. NextPart(part, m) = "illegal" => part = "disposed" \/ m.len > Longest
  BY DEF NextPart
<1>3. NextPart(part, m) = "disposed" => m.len > Capacity
  BY DEF NextPart
<1>4. NextPart(part, m) \in Parts
  BY DEF NextPart, Parts
<1> QED
  BY <1>1, <1>2, <1>3, <1>4

LEMMA RecvKeeps ==
    ASSUME TypeOK, ReadingInv, Recv
    PROVE  TypeOK' /\ ReadingInv' /\ reading' # None
<1>1. PICK n \in 1 .. reading.left : EnsuredTcpRecv(n)
  BY DEF Recv
<1>2. /\ reading \in Readings /\ reading.part \in {"header", "body", "disposed"}
      /\ UNCHANGED <<place, registered, attributes, active, messages, asks, waiting>>
      /\ Open(reading.socket)
      /\ reading.part = "disposed" => reading.m.len > Capacity
  BY DEF Recv, TypeOK, ReadingInv, Idle, tcp, delays
<1>3. n \in Nat /\ reading.left \in Nat /\ reading.m \in TcpMessages
      /\ reading.socket \in Sockets /\ reading.m.len \in Nat
  BY <1>2, MessageAssumption DEF Readings, MessageAssumption
<1>4. /\ reading' \in Readings /\ reading'.socket = reading.socket /\ reading'.m = reading.m
      /\ reading'.part \in {"disposed", "illegal"} => reading.m.len > Capacity
  <2>1. CASE n < reading.left
    <3>1. reading' = [reading EXCEPT !.left = reading.left - n]
      BY <1>1, <2>1 DEF EnsuredTcpRecv
    <3>2. reading.left - n \in Nat
      BY <1>3, <2>1
    <3> QED
      BY <1>2, <3>1, <3>2 DEF Readings
  <2>2. CASE ~(n < reading.left)
    <3>1. reading' = [reading EXCEPT !.part = NextPart(reading.part, reading.m),
                                     !.left = reading.m.len]
      BY <1>1, <2>2 DEF EnsuredTcpRecv
    <3>2. /\ NextPart(reading.part, reading.m) \in Parts
          /\ NextPart(reading.part, reading.m) \in {"disposed", "illegal"}
               => reading.m.len > Capacity
      BY <1>2, <1>3, PartsFollow
    <3> QED
      BY <1>2, <1>3, <3>1, <3>2 DEF Readings
  <2> QED
    BY <2>1, <2>2
<1>5. reading' # None
  BY <1>4, NoneAssumption DEF NoneAssumption, Readings
<1>6. TypeOK'
  BY <1>2, <1>4 DEF TypeOK
<1>7. ReadingInv'
  BY <1>2, <1>4 DEF ReadingInv, Open
<1> QED
  BY <1>5, <1>6, <1>7

\* A message that was read whole is handled and answered.
LEMMA HandleKeeps ==
    ASSUME TypeOK, ReadingInv, DOMAIN FirstAttributes = AttributeNames, Handle
    PROVE  /\ TypeOK' /\ ReadingInv' /\ WriteStep /\ AnswerStep
           /\ UNCHANGED delays /\ out'.cmd # "Delayed"
<1> DEFINE s == reading.socket
           m == reading.m
           answer == HandleReceivedExplicitTcpData(s, m)
<1>1. /\ ~Idle /\ reading.part = "whole" /\ reading' = None
      /\ attributes' = answer.attributes
      /\ out' = IF answer.send = "reply" THEN Send(s, m.cmd, answer.status) ELSE Nothing
      /\ IF answer.send = "close" \/ (m.cmd = "UnRegisterSession" /\ m.handle = place[s])
         THEN CloseSession(s)
         ELSE /\ registered' = [registered EXCEPT ![s] =
                      @ \/ (m.cmd = "RegisterSession" /\ answer.status = "Success")]
              /\ UNCHANGED place
      /\ UNCHANGED <<active, delays>>
  BY DEF Handle
<1>2. s \in Sockets /\ m \in TcpMessages /\ Open(s)
  BY <1>1 DEF TypeOK, ReadingInv, Idle, Readings
<1>3. DOMAIN attributes = AttributeNames
  BY DEF TypeOK
<1>4. \/ answer.attributes = attributes
      \/ /\ m.cmd \in {"SendRRData", "SendUnitData"} /\ ~m.faulty
         /\ CheckRegisteredSession(m.handle, s)
         /\ \E done \in Outcomes(m.body) : answer.attributes = done.attributes
  BY <1>2, AnswerRoutes
<1>5. /\ CallsForReply(m) => answer.send \in {"reply", "close", "exception"}
      /\ ~CallsForReply(m) => answer.send = "nothing"
      /\ answer.send = "close" => Malformed(m) \/ LostReply(m)
      /\ answer.send = "exception" => Unserializable(m)
  BY <1>2, AnswerSends
<1> HIDE DEF s, m, answer
<1>6. /\ DOMAIN attributes' = AttributeNames
      /\ attributes' # attributes =>
           /\ registered[s] /\ m.handle = place[s] /\ ~m.faulty
           /\ \A i \in DOMAIN m.body : m.body[i].type \in Known
           /\ \E i \in DOMAIN m.body :
                /\ m.body[i].type \in DataTypes
                /\ \A j \in DOMAIN m.body : m.body[j].type \in DataTypes => j <= i
                /\ SetsOnly(m.body[i].request, attributes, attributes')
  <2>1. CASE attributes' = attributes
    BY <1>3, <2>1
  <2>2. CASE attributes' # attributes
    <3>1. /\ m.cmd \in {"SendRRData", "SendUnitData"} /\ ~m.faulty
          /\ CheckRegisteredSession(m.handle, s)
      BY <1>1, <1>4, <2>2
    <3>2. PICK done \in Outcomes(m.body) : attributes' = done.attributes
      BY <1>1, <1>4, <2>2
    <3>3. Len(m.body) \in Nat /\ DOMAIN m.body = 1 .. Len(m.body)
      BY <1>2, <3>1, MessageAssumption DEF MessageAssumption
    <3> QED
      BY <1>3, <2>2, <3>1, <3>2, <3>3, BodySets DEF CheckRegisteredSession
  <2> QED
    BY <2>1, <2>2
<1>7. WriteStep
  <2>1. \A r : SetsOnly(r, attributes, attributes') /\ attributes' # attributes => Names(r)
    BY DEF SetsOnly, Names
  <2> QED
    BY <1>1, <1>6, <2>1 DEF WriteStep, s, m
<1>8. AnswerStep
  <2> SUFFICES IF place'[s] = 0
               THEN Malformed(m) \/ LostReply(m) \/ m.cmd = "UnRegisterSession"
               ELSE IF CallsForReply(m)
                    THEN \/ out'.to = s /\ out'.cmd = m.cmd
                         \/ Unserializable(m) /\ out' = Nothing
                    ELSE out' = Nothing
    BY DEF AnswerStep, s, m
  <2>1. CASE answer.send = "close" \/ (m.cmd = "UnRegisterSession" /\ m.handle = place[s])
    <3>1. place'[s] = 0
      BY <1>1, <1>2, <2>1 DEF CloseSession, TypeOK
    <3> QED
      BY <1>5, <2>1, <3>1
  <2>2. CASE ~(answer.send = "close" \/ (m.cmd = "UnRegisterSession" /\ m.handle = place[s]))
    <3>1. place'[s] # 0
      BY <1>1, <1>2, <2>2 DEF Open
    <3> QED
      BY <1>1, <1>5, <2>2, <3>1 DEF Send
  <2> QED
    BY <2>1, <2>2
<1>9. TypeOK'
  <2>1. place' \in [Sockets -> Handles \cup {0}] /\ registered' \in [Sockets -> BOOLEAN]
    <3>1. CASE CloseSession(s)
      BY <3>1 DEF CloseSession, TypeOK
    <3>2. CASE ~CloseSession(s)
      <4>1. (registered[s] \/ (m.cmd = "RegisterSession" /\ answer.status = "Success")) \in BOOLEAN
        OBVIOUS
      <4>2. /\ registered' = [registered EXCEPT ![s] =
                   registered[s] \/ (m.cmd = "RegisterSession" /\ answer.status = "Success")]
            /\ place' = place
        BY <1>1, <3>2
      <4> QED
        BY <4>1, <4>2 DEF TypeOK
    <3> QED
      BY <3>1, <3>2
  <2> QED
    BY <1>1, <1>6, <2>1 DEF TypeOK, delays
<1>10. out'.cmd # "Delayed"
  <2>1. m.cmd # "Delayed"
    BY <1>2, MessageAssumption DEF MessageAssumption, Commands
  <2> QED
    BY <1>1, <2>1, NoneAssumption DEF Send, Nothing, NoneAssumption
<1> QED
  BY <1>1, <1>7, <1>8, <1>9, <1>10 DEF ReadingInv, Idle

LEMMA LostKeeps ==
    ASSUME TypeOK, ReadingInv, Lost
    PROVE  TypeOK' /\ ReadingInv' /\ AnswerStep
<1> DEFINE s == reading.socket
<1>1. /\ ~Idle /\ reading.part # "whole" /\ reading' = None
      /\ place' = [place EXCEPT ![s] = 0] /\ registered' = [registered EXCEPT ![s] = FALSE]
      /\ UNCHANGED <<attributes, active, messages, asks, waiting>>
  BY DEF Lost, CloseSession, delays
<1>2. s \in Sockets /\ reading.part \in Parts
  BY <1>1 DEF TypeOK, Idle, Readings
<1>3. place'[s] = 0
  BY <1>1, <1>2 DEF TypeOK
<1>4. reading.part \in {"header", "body"} \/ Malformed(reading.m)
  BY <1>1, <1>2 DEF ReadingInv, Parts, Malformed
<1>5. AnswerStep
  BY <1>3, <1>4 DEF AnswerStep
<1>6. TypeOK'
  BY <1>1 DEF TypeOK
<1> QED
  BY <1>1, <1>5, <1>6 DEF ReadingInv, Idle

----------------------------------------------------------------------------
(* Delayed replies.                                                          *)

\* As slots and waiting requests match, there are as many of each: a slot is
\* free iff less than two requests wait.
LEMMA SlotFree ==
    ASSUME TypeOK, SlotsInv
    PROVE  Cardinality(waiting) < 2 <=> FreeSlots # {}
<1> DEFINE g == [d \in Occupied |-> CHOOSE w \in waiting : w.context = messages[d].context]
<1>1. \A d \in Occupied : g[d] \in waiting /\ g[d].context = messages[d].context
  <2>1. \A d \in Occupied : \E w \in waiting : w.context = messages[d].context
    BY DEF SlotsInv
  <2> QED
    BY <2>1
<1>2. g \in [Occupied -> waiting]
  BY <1>1
<1>3. \A d, e \in Occupied : g[d] = g[e] => d = e
  <2>1. \A d, e \in Occupied : messages[d].context = messages[e].context => d = e
    BY DEF SlotsInv
  <2> HIDE DEF g
  <2> QED
    BY <1>1, <2>1
<1>4. \A w \in waiting : \E d \in Occupied : g[d] = w
  <2> SUFFICES ASSUME NEW w \in waiting
               PROVE  \E d \in Occupied : g[d] = w
    OBVIOUS
  <2>1. PICK d \in Occupied : messages[d].context = w.context
    BY DEF SlotsInv
  <2> HIDE DEF g
  <2>2. g[d] \in waiting /\ g[d].context = w.context
    BY <1>1, <2>1
  <2>3. g[d] = w
    BY <2>2 DEF SlotsInv
  <2> QED
    BY <2>3
<1>5. g \in Bijection(Occupied, waiting)
  <2> HIDE DEF g
  <2> QED
    BY <1>2, <1>3, <1>4, Fun_IsBij
<1>6. ExistsBijection(Occupied, waiting)
  <2> HIDE DEF g
  <2> QED
    BY <1>5 DEF ExistsBijection
<1>7. IsFiniteSet(Delayed) /\ Cardinality(Delayed) = 2 /\ Occupied \in SUBSET Delayed
  <2>1. ASSUME NEW x, NEW y, x # y
        PROVE  IsFiniteSet({x, y}) /\ Cardinality({x, y}) = 2
    <3>1. IsFiniteSet({x}) /\ Cardinality({x}) = 1 /\ y \notin {x}
      BY <2>1, FS_Singleton
    <3>2. IsFiniteSet({x} \cup {y}) /\ Cardinality({x} \cup {y}) = Cardinality({x}) + 1
      BY <3>1, FS_AddElement
    <3>3. {x} \cup {y} = {x, y}
      OBVIOUS
    <3> QED
      BY <3>1, <3>2, <3>3
  <2>2. Delayed = {1, 2} /\ 1 # 2
    BY DEF Delayed
  <2>3. IsFiniteSet({1, 2}) /\ Cardinality({1, 2}) = 2
    BY ONLY <2>1, <2>2, Zenon
  <2> QED
    BY <2>2, <2>3 DEF Occupied
<1>8. /\ IsFiniteSet(Occupied) /\ Cardinality(Occupied) <= 2
      /\ Cardinality(Occupied) = 2 <=> Occupied = Delayed
  BY <1>7, FS_Subset
<1>9. Cardinality(waiting) = Cardinality(Occupied) /\ Cardinality(Occupied) \in Nat
  BY <1>6, <1>8, FS_Bijection, FS_CardinalityType
<1>10. FreeSlots # {} <=> Occupied # Delayed
  BY DEF FreeSlots, Occupied
<1> QED
  BY <1>8, <1>9, <1>10

\* A request takes a slot and waits, or there is no slot and it does neither.
LEMMA AskKeeps ==
    ASSUME TypeOK, SlotsInv, NEW h \in Hosts, NEW m \in UdpMessages,
           handleReceivedListIdentityCommandDelayed(h, m)
    PROVE  /\ messages' \in [Delayed -> Slots \cup {None}] /\ asks' \in Nat
           /\ waiting' \subseteq Requests /\ SlotsInv'
<1>1. asks' = asks + 1 /\ asks \in Nat
  BY DEF handleReceivedListIdentityCommandDelayed, TypeOK
<1>2. CASE FreeSlots = {}
  <2>1. messages' = messages
    BY <1>2 DEF handleReceivedListIdentityCommandDelayed
  <2>2. waiting' = waiting
    BY <1>2, SlotFree DEF handleReceivedListIdentityCommandDelayed, Note
  <2>3. \A d \in Occupied : messages[d].context \in Nat
    BY DEF TypeOK, Slots, Occupied
  <2> QED
    BY <1>1, <2>1, <2>2, <2>3 DEF TypeOK, SlotsInv, Occupied
<1>3. CASE FreeSlots # {}
  <2> DEFINE new == [receiver |-> h, context |-> asks + 1, due |-> LongestDelay(m.wait) + 1]
  <2>1. LongestDelay(m.wait) \in Nat
    BY MessageAssumption DEF MessageAssumption, LongestDelay
  <2>2. PICK d \in FreeSlots, left \in 0 .. LongestDelay(m.wait) :
            messages' = [messages EXCEPT ![d] =
                [receiver |-> h, context |-> asks + 1, left |-> left]]
    BY <1>3 DEF handleReceivedListIdentityCommandDelayed
  <2> DEFINE slot == [receiver |-> h, context |-> asks + 1, left |-> left]
  <2>3. waiting' = waiting \cup {new}
    BY <1>3, SlotFree DEF handleReceivedListIdentityCommandDelayed, Note
  <2>4. left \in Nat /\ left < LongestDelay(m.wait) + 1 /\ LongestDelay(m.wait) + 1 \in Nat
    BY <2>1
  <2>5. slot \in Slots /\ new \in Requests
    BY <1>1, <2>4 DEF Slots, Requests
  <2>6. slot # None
    BY <2>5, NoneAssumption DEF NoneAssumption, Slots
  <2>7. /\ slot.receiver = h /\ slot.context = asks + 1 /\ slot.left = left
        /\ new.receiver = h /\ new.context = asks + 1 /\ new.due = LongestDelay(m.wait) + 1
    OBVIOUS
  <2>8. messages' = [messages EXCEPT ![d] = slot] /\ d \in Delayed /\ messages[d] = None
    BY <2>2 DEF FreeSlots
  <2> HIDE DEF slot, new
  <2>9. /\ messages' \in [Delayed -> Slots \cup {None}] /\ messages'[d] = slot
        /\ Occupied' = Occupied \cup {d} /\ d \notin Occupied
        /\ \A e \in Occupied : messages'[e] = messages[e]
    BY <2>5, <2>6, <2>8 DEF TypeOK, Occupied
  <2>10. \A e \in Occupied : messages[e].context \in Nat /\ messages[e].context <= asks
    BY DEF TypeOK, SlotsInv, Occupied, Slots
  <2>11. \A w \in waiting : w.context \in Nat /\ w.context <= asks
    BY <2>10 DEF SlotsInv
  <2>12. \A e \in Occupied' : messages'[e].context <= asks'
    BY <1>1, <2>7, <2>9, <2>10
  <2>13. \A e, f \in Occupied' : messages'[e].context = messages'[f].context => e = f
    BY <1>1, <2>7, <2>9, <2>10 DEF SlotsInv
  <2>14. \A v, w \in waiting' : v.context = w.context => v = w
    BY <1>1, <2>3, <2>7, <2>11 DEF SlotsInv
  <2>15. ASSUME NEW w \in waiting'
         PROVE  \E e \in Occupied' : /\ messages'[e].receiver = w.receiver
                                     /\ messages'[e].context = w.context
                                     /\ messages'[e].left < w.due
    <3>1. CASE w = new
      BY <2>4, <2>7, <2>9, <3>1
    <3>2. CASE w \in waiting
      BY <2>9, <3>2 DEF SlotsInv
    <3> QED
      BY <2>3, <3>1, <3>2
  <2>16. \A e \in Occupied' : \E w \in waiting' : w.context = messages'[e].context
    BY <2>3, <2>7, <2>9 DEF SlotsInv
  <2> QED
    BY <1>1, <2>3, <2>5, <2>9, <2>12, <2>13, <2>14, <2>15, <2>16 DEF SlotsInv, TypeOK
<1> QED
  BY <1>2, <1>3

\* A pass of the timer: the slots that are due give up their requests, up to the
\* one whose reply sendto() refuses.
LEMMA ManageKeeps ==
    ASSUME TypeOK, SlotsInv, ManageEncapsulationMessages
    PROVE  /\ messages' \in [Delayed -> Slots \cup {None}] /\ asks' \in Nat
           /\ waiting' \subseteq Requests /\ SlotsInv'
           /\ out'.cmd = "Delayed" =>
                \A t \in out'.to : \E w \in waiting : t = <<w.receiver, w.context>>
<1>1. PICK stop \in Fired \cup {3} :
        LET passed == {d \in Delayed : d < stop}
            done == Fired \cap passed
            answered == {w \in waiting : \E d \in done : messages[d].context = w.context}
        IN  /\ messages' = [d \in Delayed |->
                  CASE d \notin passed \/ messages[d] = None -> messages[d]
                    [] d \in done -> Sent(d, messages[d])
                    [] OTHER -> [messages[d] EXCEPT !.left = @ - 1]]
            /\ waiting' = {[w EXCEPT !.due = IF stop = 3 THEN @ - 1 ELSE @] :
                              w \in waiting \ answered}
            /\ out' = IF done = {} THEN Nothing
                      ELSE [Nothing EXCEPT !.cmd = "Delayed",
                               !.to = {<<messages[d].receiver, messages[d].context>> : d \in done}]
  BY DEF ManageEncapsulationMessages
<1> DEFINE passed == {d \in Delayed : d < stop}
           done == Fired \cap passed
           answered == {w \in waiting : \E d \in done : messages[d].context = w.context}
           rest == waiting \ answered
           tick == IF stop = 3 THEN 1 ELSE 0
           left(w) == [w EXCEPT !.due = w.due - tick]
<1>2. /\ \A d \in Delayed : messages'[d] =
            IF d \in passed /\ messages[d] # None
            THEN IF d \in done THEN None ELSE [messages[d] EXCEPT !.left = messages[d].left - 1]
            ELSE messages[d]
      /\ DOMAIN messages' = Delayed /\ messages' = [d \in Delayed |-> messages'[d]]
  BY <1>1 DEF Sent
<1>3. waiting' = {left(w) : w \in rest}
  <2>1. \A w \in waiting : w.due \in Nat
    BY DEF TypeOK, Requests
  <2>2. \A w \in waiting : [w EXCEPT !.due = IF stop = 3 THEN w.due - 1 ELSE w.due] = left(w)
    BY <2>1
  <2>3. waiting' = {[w EXCEPT !.due = IF stop = 3 THEN w.due - 1 ELSE w.due] : w \in rest}
    BY <1>1
  <2> HIDE DEF left
  <2> QED
    BY <2>2, <2>3
<1>4. /\ asks' = asks
      /\ out' = IF done = {} THEN Nothing
                ELSE [Nothing EXCEPT !.cmd = "Delayed",
                         !.to = {<<messages[d].receiver, messages[d].context>> : d \in done}]
  BY <1>1 DEF ManageEncapsulationMessages
<1>5. /\ \A d \in Occupied : messages[d] \in Slots /\ messages[d].left \in Nat
      /\ Fired = {d \in Occupied : messages[d].left = 0} /\ done \subseteq Fired
      /\ tick \in {0, 1} /\ (tick = 1 => passed = Delayed)
  <2>1. \A d \in Occupied : messages[d] \in Slots
    BY DEF TypeOK, Occupied
  <2>2. stop = 3 => passed = Delayed
    BY DEF Delayed
  <2> QED
    BY <2>1, <2>2 DEF Occupied, Fired, Slots
<1> HIDE DEF passed, done, tick
<1>6. ASSUME NEW d \in Occupied \ done
      PROVE  /\ messages'[d] \in Slots /\ messages'[d] # None
             /\ messages'[d].context = messages[d].context
             /\ messages'[d].receiver = messages[d].receiver
             /\ messages'[d].left <= messages[d].left - tick
  <2>1. messages[d] \in Slots /\ messages[d].left \in Nat /\ messages[d] # None /\ d \in Delayed
    BY <1>5 DEF Occupied
  <2>2. CASE d \in passed
    <3> DEFINE slot == messages[d]
               next == [slot EXCEPT !.left = slot.left - 1]
    <3>1. messages'[d] = next
      BY <1>2, <1>6, <2>1, <2>2
    <3>2. slot.left - 1 \in Nat
      <4>1. d \notin Fired
        BY <1>6, <2>2 DEF done
      <4>2. messages[d].left # 0
        BY <1>5, <1>6, <4>1
      <4> QED
        BY <2>1, <4>2
    <3>3. slot \in Slots /\ slot.left \in Nat
      BY <2>1
    <3> HIDE DEF slot
    <3>4. /\ next \in Slots /\ next.context = slot.context /\ next.receiver = slot.receiver
          /\ next.left = slot.left - 1
      BY <3>2, <3>3 DEF Slots
    <3> HIDE DEF next
    <3>5. next.left <= slot.left - tick
      BY <1>5, <3>3, <3>4
    <3>6. next # None
      BY <3>4, NoneAssumption DEF NoneAssumption, Slots
    <3> QED
      BY <3>1, <3>4, <3>5, <3>6 DEF slot
  <2>3. CASE d \notin passed
    <3>1. messages'[d] = messages[d]
      BY <1>2, <2>1, <2>3
    <3>2. tick = 0
      BY <1>5, <2>1, <2>3
    <3> QED
      BY <2>1, <3>1, <3>2
  <2> QED
    BY <2>2, <2>3
<1>7. Occupied' = Occupied \ done /\ messages' \in [Delayed -> Slots \cup {None}]
  <2>1. \A d \in done : messages'[d] = None
    BY <1>2, <1>5 DEF done, Occupied
  <2>2. \A d \in Delayed \ Occupied : messages'[d] = None
    BY <1>2 DEF Occupied
  <2>3. Occupied' = Occupied \ done
    BY <1>6, <2>1, <2>2 DEF Occupied
  <2>4. \A d \in Delayed : messages'[d] \in Slots \cup {None}
    BY <1>6, <2>1, <2>2
  <2> QED
    BY <1>2, <2>3, <2>4
<1>8. \A w \in rest : \E d \in Occupied' :
        /\ messages[d].receiver = w.receiver /\ messages[d].context = w.context
        /\ messages[d].left < w.due
  <2> SUFFICES ASSUME NEW w \in rest
               PROVE  \E d \in Occupied' :
                        /\ messages[d].receiver = w.receiver
                        /\ messages[d].context = w.context
                        /\ messages[d].left < w.due
    OBVIOUS
  <2>1. PICK d \in Occupied : /\ messages[d].receiver = w.receiver
                              /\ messages[d].context = w.context
                              /\ messages[d].left < w.due
    BY DEF SlotsInv
  <2>2. d \notin done
    BY <2>1
  <2> QED
    BY <1>7, <2>1, <2>2
<1>9. \A w \in rest : /\ w \in Requests /\ w.due \in Nat
                      /\ left(w) \in Requests /\ left(w).due = w.due - tick
                      /\ left(w).context = w.context /\ left(w).receiver = w.receiver
  <2> SUFFICES ASSUME NEW w \in rest
               PROVE  /\ w \in Requests /\ w.due \in Nat
                      /\ left(w) \in Requests /\ left(w).due = w.due - tick
                      /\ left(w).context = w.context /\ left(w).receiver = w.receiver
    OBVIOUS
  <2>1. w \in Requests /\ w.due \in Nat
    BY DEF TypeOK, Requests
  <2>2. w.due - tick \in Nat
    <3>1. PICK d \in Occupied' : messages[d].left < w.due
      BY <1>8
    <3>2. messages[d].left \in Nat
      BY <1>5, <1>7
    <3> QED
      BY <1>5, <2>1, <3>1, <3>2
  <2>3. left(w) \in Requests
    BY <2>1, <2>2 DEF Requests
  <2> QED
    BY <2>1, <2>2, <2>3 DEF Requests
<1> HIDE DEF rest, left
<1>10. waiting' \subseteq Requests
  BY <1>3, <1>9
<1>11. \A d \in Occupied' : messages'[d].context <= asks'
  BY <1>4, <1>6, <1>7 DEF SlotsInv
<1>12. \A d, e \in Occupied' : messages'[d].context = messages'[e].context => d = e
  BY <1>6, <1>7 DEF SlotsInv
<1>13. \A v, w \in waiting' : v.context = w.context => v = w
  <2> SUFFICES ASSUME NEW x \in rest, NEW y \in rest, left(x).context = left(y).context
               PROVE  left(x) = left(y)
    BY <1>3
  <2>1. x \in waiting /\ y \in waiting /\ x.context = y.context
    BY <1>9 DEF rest
  <2> QED
    BY <2>1 DEF SlotsInv
<1>14. \A w \in waiting' : \E d \in Occupied' :
         /\ messages'[d].receiver = w.receiver /\ messages'[d].context = w.context
         /\ messages'[d].left < w.due
  <2> SUFFICES ASSUME NEW x \in rest
               PROVE  \E d \in Occupied' :
                        /\ messages'[d].receiver = left(x).receiver
                        /\ messages'[d].context = left(x).context
                        /\ messages'[d].left < left(x).due
    BY <1>3
  <2>1. PICK d \in Occupied' : /\ messages[d].receiver = x.receiver
                               /\ messages[d].context = x.context
                               /\ messages[d].left < x.due
    BY <1>8
  <2>2. messages'[d].left < left(x).due
    <3>1. /\ x.due \in Nat /\ left(x).due = x.due - tick /\ tick \in {0, 1}
          /\ messages[d].left \in Nat /\ messages'[d].left \in Nat
          /\ messages'[d].left <= messages[d].left - tick
      BY <1>5, <1>6, <1>7, <1>9 DEF Slots
    <3> QED
      BY <2>1, <3>1
  <2> QED
    BY <1>6, <1>7, <1>9, <2>1, <2>2
<1>15. \A d \in Occupied' : \E w \in waiting' : w.context = messages'[d].context
  <2> SUFFICES ASSUME NEW d \in Occupied'
               PROVE  \E w \in waiting' : w.context = messages'[d].context
    OBVIOUS
  <2>1. PICK x \in waiting : x.context = messages[d].context
    BY <1>7 DEF SlotsInv
  <2>2. \A e \in done : messages[e].context # x.context
    BY <1>5, <1>7, <2>1 DEF SlotsInv
  <2>3. x \in rest
    BY <2>2 DEF rest
  <2>4. left(x) \in waiting'
    BY <1>3, <2>3
  <2>5. left(x).context = messages'[d].context
    BY <1>6, <1>7, <1>9, <2>1, <2>3
  <2> QED
    BY <2>4, <2>5
<1>16. out'.cmd = "Delayed" =>
         \A t \in out'.to : \E w \in waiting : t = <<w.receiver, w.context>>
  <2>1. \A d \in done : \E w \in waiting :
          messages[d].receiver = w.receiver /\ messages[d].context = w.context
    <3> SUFFICES ASSUME NEW d \in done
                 PROVE  \E w \in waiting : /\ messages[d].receiver = w.receiver
                                           /\ messages[d].context = w.context
      OBVIOUS
    <3>1. PICK w \in waiting : w.context = messages[d].context
      BY <1>5 DEF SlotsInv
    <3>2. PICK e \in Occupied : messages[e].receiver = w.receiver /\ messages[e].context = w.context
      BY DEF SlotsInv
    <3>3. e = d
      BY <1>5, <3>1, <3>2 DEF SlotsInv
    <3> QED
      BY <3>1, <3>2, <3>3
  <2>2. CASE done = {}
    BY <1>4, <2>2, NoneAssumption DEF Nothing, NoneAssumption
  <2>3. CASE done # {}
    <3>1. out'.to = {<<messages[d].receiver, messages[d].context>> : d \in done}
      BY <1>4, <2>3 DEF Nothing
    <3> QED
      BY <2>1, <3>1
  <2> QED
    BY <2>2, <2>3
<1>17. asks' \in Nat
  BY <1>4 DEF TypeOK
<1> QED
  BY <1>7, <1>10, <1>11, <1>12, <1>13, <1>14, <1>15, <1>16, <1>17 DEF SlotsInv

----------------------------------------------------------------------------
(* The other steps.                                                          *)

\* Steps that leave the delayed replies alone.
LEMMA SlotsRest ==
    ASSUME SlotsInv, UNCHANGED delays
    PROVE  SlotsInv'
BY DEF SlotsInv, Occupied, delays

LEMMA WaitingHaveTime ==
    ASSUME TypeOK', SlotsInv'
    PROVE  \A w \in waiting' : w.due > 0
<1> SUFFICES ASSUME NEW w \in waiting'
             PROVE  w.due > 0
  OBVIOUS
<1>1. PICK d \in Occupied' : messages'[d].left < w.due
  BY DEF SlotsInv
<1>2. messages'[d].left \in Nat /\ w.due \in Nat
  BY DEF TypeOK, Occupied, Slots, Requests
<1> QED
  BY <1>1, <1>2

\* What a step of TCP or of g_active_conns does to the rest of the state.
LEMMA StreamKeeps ==
    ASSUME TypeOK, ReadingInv,
           \/ \E s \in Sockets : \/ \E h \in Handles : Connect(s, h)
                                 \/ Expire(s)
                                 \/ \E m \in TcpMessages : ReceiveTcpMsg(s, m)
           \/ \E c \in Conns : Reopen(c)
    PROVE  /\ TypeOK' /\ ReadingInv' /\ UNCHANGED <<attributes, delays>>
           /\ (Idle \/ reading' # None) /\ out'.cmd # "Delayed"
<1>1. CASE \E s \in Sockets, h \in Handles : Connect(s, h)
  <2>1. PICK s \in Sockets, h \in Handles : Connect(s, h)
    BY <1>1
  <2> QED
    BY <2>1, NoneAssumption DEF Connect, TypeOK, ReadingInv, Idle, delays, Nothing, NoneAssumption
<1>2. CASE \E s \in Sockets : Expire(s)
  <2>1. PICK s \in Sockets : Expire(s)
    BY <1>2
  <2> QED
    BY <2>1, NoneAssumption DEF Expire, CloseSession, TypeOK, ReadingInv, Idle, delays, Nothing,
                                NoneAssumption
<1>3. CASE \E s \in Sockets, m \in TcpMessages : ReceiveTcpMsg(s, m)
  <2>1. PICK s \in Sockets, m \in TcpMessages : ReceiveTcpMsg(s, m)
    BY <1>3
  <2> DEFINE new == [socket |-> s, m |-> m, part |-> "header", left |-> Header]
  <2>2. /\ Idle /\ Open(s) /\ reading' = new
        /\ UNCHANGED <<place, registered, attributes, active, messages, asks, waiting>>
        /\ out' = Nothing
    BY <2>1 DEF ReceiveTcpMsg, tcp, delays
  <2>3. new \in Readings /\ new.socket = s /\ new.part = "header"
    BY SizeAssumption DEF Readings, Parts, SizeAssumption
  <2> HIDE DEF new
  <2>4. TypeOK'
    BY <2>2, <2>3 DEF TypeOK
  <2>5. ReadingInv'
    BY <2>2, <2>3 DEF ReadingInv, Open
  <2>6. reading' # None
    BY <2>2, <2>3, NoneAssumption DEF NoneAssumption, Readings
  <2>7. UNCHANGED <<attributes, delays>>
    BY <2>2 DEF delays
  <2>8. out'.cmd # "Delayed"
    BY <2>2, NoneAssumption DEF Nothing, NoneAssumption
  <2> QED
    BY <2>4, <2>5, <2>6, <2>7, <2>8
<1>4. CASE \E c \in Conns : Reopen(c)
  <2>1. PICK c \in Conns : Reopen(c)
    BY <1>4
  <2>2. active' \subseteq Conns
    BY <2>1 DEF Reopen, TypeOK
  <2> QED
    BY <2>1, <2>2, NoneAssumption DEF Reopen, TypeOK, ReadingInv, Idle, Open, tcp, delays, Nothing,
                                      NoneAssumption
<1> QED
  BY <1>1, <1>2, <1>3, <1>4

\* A datagram is answered at once, unless it is a request by broadcast.
LEMMA DatagramKeeps ==
    ASSUME TypeOK, ReadingInv, SlotsInv, NEW h \in Hosts, NEW m \in UdpMessages,
           NEW unicast \in BOOLEAN, HandleReceivedExplicitUdpData(h, m, unicast)
    PROVE  /\ TypeOK' /\ ReadingInv' /\ SlotsInv' /\ UNCHANGED attributes
           /\ Idle /\ out'.cmd # "Delayed"
<1>1. /\ Idle /\ UNCHANGED <<place, registered, reading, attributes, active>>
  BY DEF HandleReceivedExplicitUdpData, tcp
<1>2. \/ handleReceivedListIdentityCommandDelayed(h, m)
      \/ UNCHANGED <<messages, asks, waiting>>
  BY DEF HandleReceivedExplicitUdpData, delays
<1>3. out'.cmd # "Delayed"
  BY NoneAssumption DEF HandleReceivedExplicitUdpData, Nothing, Send, NoneAssumption
<1>4. /\ messages' \in [Delayed -> Slots \cup {None}] /\ asks' \in Nat
      /\ waiting' \subseteq Requests /\ SlotsInv'
  <2>1. CASE handleReceivedListIdentityCommandDelayed(h, m)
    BY <2>1, AskKeeps
  <2>2. CASE UNCHANGED <<messages, asks, waiting>>
    BY <2>2, SlotsRest DEF delays, TypeOK
  <2> QED
    BY <1>2, <2>1, <2>2
<1>5. TypeOK' /\ ReadingInv'
  BY <1>1, <1>4 DEF TypeOK, ReadingInv, Idle, Open
<1> QED
  BY <1>1, <1>3, <1>4, <1>5

\* The invariant is kept, and the three step properties follow from the invariant, step by step.
LEMMA NextKeeps ==
    ASSUME EInv, Next
    PROVE  EInv' /\ WriteStep /\ AnswerStep /\ DelayStep
<1> USE DEF EInv
<1>1. ASSUME UNCHANGED attributes
      PROVE  WriteStep
  BY <1>1 DEF WriteStep
<1>2. ASSUME Idle \/ reading' # None
      PROVE  AnswerStep
  BY <1>2 DEF AnswerStep
<1>3. ASSUME TypeOK', SlotsInv', out'.cmd # "Delayed"
      PROVE  DelayStep
  <2>1. \A w \in waiting' : w.due > 0
    BY <1>3, WaitingHaveTime
  <2> QED
    BY <1>3, <2>1 DEF DelayStep
<1>4. CASE \/ \E s \in Sockets : \/ \E h \in Handles : Connect(s, h)
                                 \/ Expire(s)
                                 \/ \E m \in TcpMessages : ReceiveTcpMsg(s, m)
           \/ \E c \in Conns : Reopen(c)
  <2>1. /\ TypeOK' /\ ReadingInv' /\ UNCHANGED <<attributes, delays>>
        /\ (Idle \/ reading' # None) /\ out'.cmd # "Delayed"
    BY <1>4, StreamKeeps
  <2> QED
    BY <1>1, <1>2, <1>3, <2>1, SlotsRest
<1>5. CASE Recv
  <2>1. TypeOK' /\ ReadingInv' /\ UNCHANGED <<attributes, delays>> /\ reading' # None
    BY <1>5, RecvKeeps DEF Recv, delays
  <2>2. out'.cmd # "Delayed"
    BY <1>5, NoneAssumption DEF Recv, Nothing, NoneAssumption
  <2> QED
    BY <1>1, <1>2, <1>3, <2>1, <2>2, SlotsRest
<1>6. CASE Lost
  <2>1. TypeOK' /\ ReadingInv' /\ AnswerStep
    BY <1>6, LostKeeps
  <2>2. UNCHANGED <<attributes, delays>> /\ out'.cmd # "Delayed"
    BY <1>6, NoneAssumption DEF Lost, Nothing, NoneAssumption
  <2> QED
    BY <1>1, <1>3, <2>1, <2>2, SlotsRest
<1>7. CASE Handle
  <2>1. /\ TypeOK' /\ ReadingInv' /\ WriteStep /\ AnswerStep
        /\ UNCHANGED delays /\ out'.cmd # "Delayed"
    BY <1>7, HandleKeeps, AttributeAssumption DEF AttributeAssumption, AttributeNames
  <2> QED
    BY <1>3, <2>1, SlotsRest
<1>8. CASE \E h \in Hosts, m \in UdpMessages, unicast \in BOOLEAN :
             HandleReceivedExplicitUdpData(h, m, unicast)
  <2>1. /\ TypeOK' /\ ReadingInv' /\ SlotsInv' /\ UNCHANGED attributes
        /\ Idle /\ out'.cmd # "Delayed"
    BY <1>8, DatagramKeeps
  <2> QED
    BY <1>1, <1>2, <1>3, <2>1
<1>9. CASE ManageEncapsulationMessages
  <2>1. /\ messages' \in [Delayed -> Slots \cup {None}] /\ asks' \in Nat
        /\ waiting' \subseteq Requests /\ SlotsInv'
        /\ out'.cmd = "Delayed" =>
             \A t \in out'.to : \E w \in waiting : t = <<w.receiver, w.context>>
    BY <1>9, ManageKeeps
  <2>2. Idle /\ UNCHANGED <<place, registered, reading, attributes, active>>
    BY <1>9 DEF ManageEncapsulationMessages, tcp
  <2>3. TypeOK' /\ ReadingInv'
    BY <2>1, <2>2 DEF TypeOK, ReadingInv, Idle, Open
  <2>4. \A w \in waiting' : w.due > 0
    BY <2>1, <2>3, WaitingHaveTime
  <2>5. DelayStep
    BY <2>1, <2>4 DEF DelayStep
  <2> QED
    BY <1>1, <1>2, <2>1, <2>2, <2>3, <2>5
<1> QED
  BY <1>4, <1>5, <1>6, <1>7, <1>8, <1>9 DEF Next

LEMMA Invariance == Spec => []EInv
<1>1. Init => EInv
  <2> SUFFICES ASSUME Init
               PROVE  EInv
    OBVIOUS
  <2>1. TypeOK
    BY DEF Init, TypeOK
  <2>2. ReadingInv
    BY DEF Init, ReadingInv, Idle
  <2>3. SlotsInv
    BY DEF Init, SlotsInv, Occupied
  <2> QED
    BY <2>1, <2>2, <2>3 DEF EInv
<1>2. EInv /\ [Next]_vars => EInv'
  <2>1. CASE Next
    BY <2>1, NextKeeps
  <2>2. CASE UNCHANGED vars
    BY <2>2 DEF vars, EInv, TypeOK, ReadingInv, Idle, Open, SlotsInv, Occupied
  <2> QED
    BY <2>1, <2>2
<1> QED
  BY <1>1, <1>2, PTL DEF Spec

(* Type correctness: the table of sessions, the message being read, the      *)
(* attributes and the delayed replies keep their shapes.                     *)
THEOREM ExplicitTypeCorrect == Spec => []TypeOK
BY Invariance, PTL DEF EInv

(* For any messages on TCP: what NotifyMR() stores in the TCP/IP interface   *)
(* object was asked for by the last data item of a common packet format      *)
(* without a fault, sent in the registered session of its own socket.        *)
THEOREM SessionsWrite == Spec => OnlySessionsWrite
<1>1. EInv /\ [Next]_vars => [WriteStep]_vars
  BY NextKeeps
<1> QED
  BY <1>1, Invariance, PTL DEF Spec, OnlySessionsWrite

(* For any messages, sizes of replies and buffers and cuts of the stream:    *)
(* HandleDataOnTcpSocket() answers each message whose reply fits on its      *)
(* socket, and closes only for a malformed message, an end, a lost           *)
(* connection or a SendUnitData whose reply does not fit; the one that stays *)
(* unanswered on an open connection is a SendRRData whose reply fits         *)
(* mmr_temp and not the frame.                                               *)
THEOREM RequestsAnswered == Spec => EveryRequestAnswered
<1>1. EInv /\ [Next]_vars => [AnswerStep]_vars
  BY NextKeeps
<1> QED
  BY <1>1, Invariance, PTL DEF Spec, EveryRequestAnswered

(* For any delays and requesters: ManageEncapsulationMessages() sends each   *)
(* reply that DelayedMsg had to keep in the time of its own request, and     *)
(* none to anyone else; ticks in which a sendto() threw do not count.        *)
THEOREM DelaysKept == Spec => DelayedInTime
<1>1. EInv /\ [Next]_vars => [DelayStep]_vars
  BY NextKeeps
<1> QED
  BY <1>1, Invariance, PTL DEF Spec, DelayedInTime

============================================================================
