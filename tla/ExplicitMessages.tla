--------------------------- MODULE ExplicitMessages ---------------------------
(***************************************************************************)
(* Encapsulated explicit messages: how one is read from a TCP stream        *)
(* (ReceiveTcpMsg), what the encapsulation layer, the common packet format  *)
(* and the attribute setters of the TCP/IP interface object do with it, and *)
(* how ListIdentity requests that came by broadcast are answered later.     *)
(* The sockets are blocking: while a message is read nothing else runs.     *)
(***************************************************************************)
EXTENDS Integers, Sequences, FiniteSets

CONSTANTS
    Sockets, Hosts,
    Handles,        \* session handles, place in the table plus one
    Conns,          \* consuming ids of connections on g_active_conns
    TcpMessages,    \* [cmd, faulty, handle, len, body], body: see Body below
    UdpMessages,    \* [cmd, status, options, wait]
    Header,         \* bytes of the header
    Capacity,       \* bytes of payload the buffer takes
    Longest,        \* 65511
    MessageBuffer,  \* size of a reply that mmr_temp takes
    FrameRoom,      \* size of one for which s_buf has room behind the headers
    Default, Minimum, \* ListIdentity delays, in ticks
    FirstAttributes,
    MaxAsks,        \* bound: requests that came by broadcast
    None

ASSUME SizeAssumption ==
    /\ Header \in Nat \ {0} /\ Capacity \in Nat /\ Longest \in Nat
    /\ Capacity < Longest /\ MessageBuffer \in Nat /\ FrameRoom \in Nat

\* DelayedMsg::messages
Delayed == 1 .. 2

Commands ==
    {"NOP", "RegisterSession", "UnRegisterSession", "SendRRData", "SendUnitData", "List", "unknown"}
Parts == {"header", "body", "disposed", "illegal", "whole"}

ASSUME MessageAssumption ==
    /\ \A m \in TcpMessages :
         /\ m.cmd \in Commands /\ m.faulty \in BOOLEAN /\ m.len \in Nat
         /\ m.cmd = "RegisterSession" => m.body \in {"good", "version", "short"}
         /\ m.cmd \in {"SendRRData", "SendUnitData"} =>
              Len(m.body) \in Nat /\ DOMAIN m.body = 1 .. Len(m.body)
    /\ \A m \in UdpMessages : m.wait \in Nat
    /\ Default \in Nat /\ Minimum \in Nat

ASSUME AttributeAssumption ==
    DOMAIN FirstAttributes = {"ttl", "alloc", "number", "start", "secs"}

\* None is not a value of another kind.
ASSUME NoneAssumption ==
    /\ None # "Delayed"
    /\ None \notin [socket : Sockets, m : TcpMessages, part : Parts, left : Nat]
    /\ None \notin [receiver : Hosts, context : Nat, left : Nat]

VARIABLES
    place,          \* session handle of each socket, 0 when it is closed
    registered,     \* [Sockets -> BOOLEAN]
    reading,        \* the message being read, or None
    attributes,     \* of the TCP/IP interface object
    active,         \* Conns that are on g_active_conns
    messages,       \* DelayedMsg::messages: [receiver, context, left] or None
    out,            \* what the last step sent: [to, cmd, status]
    asks,           \* history: number of requests by broadcast
    waiting         \* history: requests [receiver, context, due] to be answered

vars == <<place, registered, reading, attributes, active, messages, out, asks, waiting>>
tcp == <<place, registered>>
delays == <<messages, asks, waiting>>

Nothing == [to |-> None, cmd |-> None, status |-> None]
Send(to, cmd, status) == [to |-> to, cmd |-> cmd, status |-> status]
Idle == reading = None
Open(s) == place[s] # 0

Init ==
    /\ place = [s \in Sockets |-> 0] /\ registered = [s \in Sockets |-> FALSE]
    /\ reading = None
    /\ attributes = FirstAttributes
    /\ active = Conns
    /\ messages = [d \in Delayed |-> None]
    /\ out = Nothing /\ asks = 0 /\ waiting = {}

-----------------------------------------------------------------------------
\* Attribute setters; a reader that runs out of data throws range_error.

Answer(status, a) == [status |-> status, attributes |-> a]

set_TTL(data, a) ==
    CASE data = <<>> -> Answer("NotEnoughData", a)
      [] data # <<>> /\ data[1] = 0 -> Answer("InvalidAttributeValue", a)
      [] OTHER -> Answer("Success", [a EXCEPT !.ttl = data[1]])

\* Each field is stored as it is read, so that short data leave a half.
set_multicast_config(data, a) ==
    LET set == [a EXCEPT
            !.alloc = IF Len(data) >= 1 THEN data[1] ELSE @,
            !.number = IF Len(data) >= 3 THEN data[3] ELSE @,
            !.start = IF Len(data) >= 4 THEN data[4] ELSE @]
    IN  Answer(IF Len(data) >= 4 THEN "Success" ELSE "NotEnoughData", set)

set_attr_13(data, a) ==
    IF data = <<>> THEN Answer("NotEnoughData", a)
    ELSE Answer("Success", [a EXCEPT !.secs = data[1]])

\* A request is [service, attribute, data, size]; attribute is None when its path
\* is bad, and the request is None when the item that should hold it is too short.
\* "reset" stands for any service that changes no attribute here.
SetAttribute(r, a) ==
    CASE r.attribute = 8 -> set_TTL(r.data, a)
      [] r.attribute = 9 -> set_multicast_config(r.data, a)
      [] r.attribute = 13 -> set_attr_13(r.data, a)
      [] OTHER -> Answer("AttributeNotSetable", a)

\* What the getters encode is r.size long, which for one that fails is longer
\* than any buffer.
Overflows(r, room) ==
    /\ r # None /\ r.attribute # None
    /\ r.service \in {"GetAttributeSingle", "GetAttributeAll"} /\ r.size > room

\* "Error" is kEipStatusError: an encoder overflows mmr_temp or fails, alone or
\* as one of those of GetAttributeAll().
NotifyMR(r, a) ==
    CASE r = None \/ r.attribute = None -> Answer("PathSegmentError", a)
      [] r # None /\ r.attribute # None /\ r.service = "SetAttributeSingle" ->
            SetAttribute(r, a)
      [] r # None /\ r.attribute # None
         /\ r.service \in {"GetAttributeSingle", "GetAttributeAll"} ->
            Answer(IF Overflows(r, MessageBuffer) THEN "Error" ELSE "Success", a)
      [] OTHER -> Answer("ServiceNotSupported", a)

-----------------------------------------------------------------------------
\* Common packet format.  A body is a sequence of items [type, cid, request];
\* later items replace earlier ones of their kind.

AddressTypes == {"Null", "Connected", "Sequenced"}
DataTypes == {"ConnectedData", "UnconnectedData"}
Known == AddressTypes \cup DataTypes \cup {"SockAddrInfo"}

LastOf(body, types) ==
    LET at == {i \in DOMAIN body : body[i].type \in types}
    IN  IF at = {} THEN [type |-> "Empty"]
        ELSE body[CHOOSE i \in at : \A j \in at : j <= i]

\* An item that is not known, is cut off or has a wrong length spoils them all.
DeserializeCpf(body) ==
    [good |-> \A i \in DOMAIN body : body[i].type \in Known,
     address |-> LastOf(body, AddressTypes), data |-> LastOf(body, DataTypes)]

IncorrectData(a) == Answer("IncorrectData", a)

\* NotifyMR() and Serialize(), which throws overflow_error when the frame has no
\* room for the reply.
Routed(r, a) ==
    LET done == NotifyMR(r, a)
    IN  CASE done.status = "Error" -> IncorrectData(done.attributes)
          [] done.status # "Error" /\ Overflows(r, FrameRoom) ->
                Answer("overflow_error", done.attributes)
          [] OTHER -> done

NotifyCommonPacketFormat(body, a) ==
    LET cpf == DeserializeCpf(body)
    IN  IF /\ cpf.good
           /\ cpf.address.type = "Null" /\ cpf.data.type = "UnconnectedData"
        THEN Routed(cpf.data.request, a)
        ELSE IncorrectData(a)

\* Whose connection it is, and of which class, does not matter.  The data item
\* has to hold a sequence count at least; overflow_error is caught here and
\* becomes InsufficientMemory.
NotifyConnectedCommonPacketFormat(body, a) ==
    LET cpf == DeserializeCpf(body)
    IN  IF /\ cpf.good
           /\ cpf.address.type = "Connected" /\ cpf.address.cid \in active
           /\ cpf.data.type = "ConnectedData" /\ cpf.data.request # None
        THEN Routed(cpf.data.request, a)
        ELSE IncorrectData(a)

-----------------------------------------------------------------------------
\* The answer to a message that was read whole: [send, status, attributes].

\* Fault: whose session it is, is not asked.
CheckRegisteredHandle(handle, s) ==
    \E r \in Sockets : registered[r] /\ place[r] = handle

CheckRegisteredSession(handle, s) == place[s] = handle /\ registered[s]

Reply(status, a) == [send |-> "reply", status |-> status, attributes |-> a]
Silence(a) == [send |-> "nothing", status |-> None, attributes |-> a]
Refusal(a) == [send |-> "close", status |-> None, attributes |-> a]
Exception(a) == [send |-> "exception", status |-> None, attributes |-> a]

RegisterSession(s, m) ==
    CASE m.body = "short" -> Refusal(attributes)
      [] m.body = "version" -> Reply("UnsupportedProtocol", attributes)
      [] m.body = "good" ->
            Reply(IF registered[s] THEN "InvalidOrUnsupportedCommand" ELSE "Success",
                  attributes)

\* A negative result of the Cpf is the status of the reply.  Nobody catches the
\* overflow_error, which leaves HandleDataOnTcpSocket() and the pass.
SendRRData(s, m) ==
    CASE m.body = <<>> -> Refusal(attributes)
      [] m.body # <<>> /\ ~CheckRegisteredSession(m.handle, s) ->
            Reply("InvalidSessionHandle", attributes)
      [] OTHER -> LET done == NotifyCommonPacketFormat(m.body, attributes)
                  IN  IF done.status = "overflow_error" THEN Exception(done.attributes)
                      ELSE Reply(done.status, done.attributes)

\* Here it closes the TCP connection.
SendUnitData(s, m) ==
    CASE m.body = <<>> -> Refusal(attributes)
      [] m.body # <<>> /\ ~CheckRegisteredSession(m.handle, s) ->
            Reply("InvalidSessionHandle", attributes)
      [] OTHER ->
            LET done == NotifyConnectedCommonPacketFormat(m.body, attributes)
            IN  IF done.status \in {"IncorrectData", "overflow_error"}
                THEN Refusal(done.attributes)
                ELSE Reply(done.status, done.attributes)

HandleReceivedExplicitTcpData(s, m) ==
    CASE m.cmd = "NOP" -> Silence(attributes)
      [] m.cmd = "UnRegisterSession" -> Silence(attributes)
      [] m.cmd \notin {"NOP", "UnRegisterSession"} /\ m.faulty -> Silence(attributes)
      [] m.cmd = "RegisterSession" /\ ~m.faulty -> RegisterSession(s, m)
      [] m.cmd = "SendRRData" /\ ~m.faulty -> SendRRData(s, m)
      [] m.cmd = "SendUnitData" /\ ~m.faulty -> SendUnitData(s, m)
      [] m.cmd = "List" /\ ~m.faulty -> Reply("Success", attributes)
      [] m.cmd = "unknown" /\ ~m.faulty -> Reply("InvalidOrUnsupportedCommand", attributes)

-----------------------------------------------------------------------------
\* A TCP connection.

\* RegisterTcpConnection() has given the socket a place.
Connect(s, h) ==
    /\ Idle /\ ~Open(s)
    /\ \A r \in Sockets : place[r] # h
    /\ place' = [place EXCEPT ![s] = h]
    /\ out' = Nothing
    /\ UNCHANGED <<registered, reading, attributes, active, delays>>

CloseSession(s) ==
    /\ place' = [place EXCEPT ![s] = 0]
    /\ registered' = [registered EXCEPT ![s] = FALSE]

\* AgeInactivity(), or the end of the client's last connection.
Expire(s) ==
    /\ Idle /\ Open(s)
    /\ CloseSession(s)
    /\ out' = Nothing
    /\ UNCHANGED <<reading, attributes, active, delays>>

\* select() reports the socket, on which m begins.
ReceiveTcpMsg(s, m) ==
    /\ Idle /\ Open(s)
    /\ reading' = [socket |-> s, m |-> m, part |-> "header", left |-> Header]
    /\ out' = Nothing
    /\ UNCHANGED <<tcp, attributes, active, delays>>

\* What is read after the last byte of a part.
NextPart(part, m) ==
    CASE part = "header" /\ m.len > Longest -> "illegal"
      [] part = "header" /\ m.len > Capacity /\ m.len <= Longest -> "disposed"
      [] part = "header" /\ m.len <= Capacity /\ m.len > 0 -> "body"
      [] part = "disposed" -> "illegal"
      [] OTHER -> "whole"

\* Fault: a short recv() ends the part.
RecvOnce(n) == reading' = IF n < reading.left THEN [reading EXCEPT !.part = "illegal"]
               ELSE [reading EXCEPT !.part = NextPart(@, reading.m), !.left = reading.m.len]

\* EnsuredTcpRecv(): recv() has returned n bytes, perhaps less than it asked for.
EnsuredTcpRecv(n) ==
    reading' = IF n < reading.left THEN [reading EXCEPT !.left = @ - n]
               ELSE [reading EXCEPT !.part = NextPart(@, reading.m), !.left = reading.m.len]

Recv ==
    /\ ~Idle /\ reading.part \in {"header", "body", "disposed"}
    /\ \E n \in 1 .. reading.left : EnsuredTcpRecv(n)
    /\ out' = Nothing
    /\ UNCHANGED <<tcp, attributes, active, delays>>

\* recv() returns 0 or -1, or the message was too long: the caller closes.
Lost ==
    /\ ~Idle /\ reading.part # "whole"
    /\ reading' = None
    /\ CloseSession(reading.socket)
    /\ out' = Nothing
    /\ UNCHANGED <<attributes, active, delays>>

\* HandleDataOnTcpSocket() with a whole message.
Handle ==
    LET s == reading.socket
        m == reading.m
        answer == HandleReceivedExplicitTcpData(s, m)
    IN  /\ ~Idle /\ reading.part = "whole"
        /\ reading' = None
        /\ attributes' = answer.attributes
        /\ out' = IF answer.send = "reply" THEN Send(s, m.cmd, answer.status) ELSE Nothing
        /\ IF answer.send = "close" \/ (m.cmd = "UnRegisterSession" /\ m.handle = place[s])
           THEN CloseSession(s)
           ELSE /\ registered' = [registered EXCEPT ![s] =
                        @ \/ (m.cmd = "RegisterSession" /\ answer.status = "Success")]
                /\ UNCHANGED place
        /\ UNCHANGED <<active, delays>>

\* A connection is closed or times out; another is opened with its id.
Reopen(c) ==
    /\ Idle
    /\ active' = IF c \in active THEN active \ {c} ELSE active \cup {c}
    /\ out' = Nothing
    /\ UNCHANGED <<tcp, reading, attributes, delays>>

-----------------------------------------------------------------------------
\* UDP.

\* The longest delay of determineDelayTimeMSecs(), which draws at random.
LongestDelay(wait) ==
    CASE wait = 0 -> Default
      [] wait > 0 /\ wait < Minimum -> Minimum
      [] OTHER -> wait

FreeSlots == {d \in Delayed : messages[d] = None}

\* The requests that "at least 2 delayed message requests" obliges to keep.
Note(h, wait) ==
    waiting' = IF Cardinality(waiting) < 2
               THEN waiting \cup {[receiver |-> h, context |-> asks + 1,
                                   due |-> LongestDelay(wait) + 1]}
               ELSE waiting

handleReceivedListIdentityCommandDelayed(h, m) ==
    /\ asks < MaxAsks
    /\ asks' = asks + 1
    /\ Note(h, m.wait)
    /\ \/ /\ FreeSlots = {}
          /\ UNCHANGED messages
       \/ \E d \in FreeSlots, left \in 0 .. LongestDelay(m.wait) :
             /\ \A e \in FreeSlots : d <= e
             /\ messages' = [messages EXCEPT ![d] =
                 [receiver |-> h, context |-> asks + 1, left |-> left]]

\* ListServices and ListInterfaces with options are answered with a reply of
\* 24 bytes, as result is still the length of the header.
HandleReceivedExplicitUdpData(h, m, unicast) ==
    /\ Idle
    /\ IF m.status = 0 /\ m.cmd = "ListIdentity" /\ ~unicast
       THEN /\ handleReceivedListIdentityCommandDelayed(h, m)
            /\ out' = Nothing
       ELSE /\ out' = IF m.status = 0 /\ m.cmd \in {"List", "ListIdentity"}
                      THEN Send(h, m.cmd, IF m.options = 0 \/ m.cmd = "ListIdentity"
                                          THEN "Success" ELSE "junk")
                      ELSE Nothing
            /\ UNCHANGED delays
    /\ UNCHANGED <<tcp, reading, attributes, active>>

\* Fault: the slot of a reply that was sent is not given back.
SentKept(d, m) == m

\* A slot after its reply was sent.
Sent(d, m) == None

Fired == {d \in Delayed : messages[d] # None /\ messages[d].left = 0}

\* SendUdpData() may throw for one of the replies that are due (stop): its slot is
\* not given back and those behind it are not looked at.  Nobody catches: what the
\* sample applications do is end.  In an application that catches and goes on the
\* tick has not been subtracted, so that the next pass comes here again, for as
\* long as sendto() fails.
ManageEncapsulationMessages ==
    /\ Idle
    /\ \E stop \in Fired \cup {3} :
         LET passed == {d \in Delayed : d < stop}
             done == Fired \cap passed
             answered == {w \in waiting : \E d \in done : messages[d].context = w.context}
         IN  /\ messages' = [d \in Delayed |->
                   CASE d \notin passed \/ messages[d] = None -> messages[d]
                     [] d \in done -> Sent(d, messages[d])
                     [] OTHER -> [messages[d] EXCEPT !.left = @ - 1]]
             /\ waiting' = {[w EXCEPT !.due = IF stop = 3 THEN @ - 1 ELSE @] :
                               w \in waiting \ answered}
             /\ out' = IF done = {} THEN Nothing
                       ELSE [Nothing EXCEPT !.cmd = "Delayed",
                                !.to = {<<messages[d].receiver, messages[d].context>> : d \in done}]
    /\ UNCHANGED <<tcp, reading, attributes, active, asks>>

Next ==
    \/ \E s \in Sockets : \/ \E h \in Handles : Connect(s, h)
                          \/ Expire(s)
                          \/ \E m \in TcpMessages : ReceiveTcpMsg(s, m)
    \/ Recv \/ Lost \/ Handle
    \/ \E c \in Conns : Reopen(c)
    \/ \E h \in Hosts, m \in UdpMessages, unicast \in BOOLEAN :
          HandleReceivedExplicitUdpData(h, m, unicast)
    \/ ManageEncapsulationMessages

Spec == Init /\ [][Next]_vars

-----------------------------------------------------------------------------
\* r is a request to set the attribute that changes.
Names(r) ==
    /\ r.service = "SetAttributeSingle"
    /\ attributes'.ttl # attributes.ttl => r.attribute = 8
    /\ \A f \in {"alloc", "number", "start"} : attributes'[f] # attributes[f] => r.attribute = 9
    /\ attributes'.secs # attributes.secs => r.attribute = 13

\* The attributes of the device change only by a request that came on the TCP
\* socket of a registered session under the handle of this very session, in an
\* encapsulation and a Cpf without a fault, and only the attribute it names.
WriteStep ==
    attributes' # attributes =>
        /\ ~Idle
        /\ LET s == reading.socket
               m == reading.m
           IN  /\ registered[s] /\ m.handle = place[s] /\ ~m.faulty
               /\ \A i \in DOMAIN m.body : m.body[i].type \in Known
               /\ \E i \in DOMAIN m.body :
                    /\ m.body[i].type \in DataTypes
                    /\ \A j \in DOMAIN m.body : m.body[j].type \in DataTypes => j <= i
                    /\ Names(m.body[i].request)
OnlySessionsWrite == [][WriteStep]_vars

\* A message that a client has sent whole and without a fault leaves its TCP
\* connection open and is answered there, however recv() cuts it into pieces,
\* if the reply fits: a client never waits on an open connection for a reply
\* that was given up.  One that is not answered is a NOP, has a status, or ends
\* the connection, as it does when the reply to SendUnitData fits no buffer or
\* cannot be encoded.  SendRRData answers that with a status, except when the
\* reply fits mmr_temp and not the frame: then the exception leaves it unanswered
\* on an open connection (not with the sample configuration, 1600 and 1800 bytes).
CallsForReply(m) == m.cmd \notin {"NOP", "UnRegisterSession"} /\ ~m.faulty
Malformed(m) ==
    \/ m.len > Capacity
    \/ m.cmd = "RegisterSession" /\ m.body = "short"
    \/ m.cmd \in {"SendRRData", "SendUnitData"} /\ m.body = <<>>
    \/ m.cmd = "SendUnitData" /\ \E i \in DOMAIN m.body :
          \/ m.body[i].type \notin {"Connected", "ConnectedData", "SockAddrInfo"}
          \/ m.body[i].type = "Connected" /\ m.body[i].cid \notin active
          \/ m.body[i].type = "ConnectedData" /\ m.body[i].request = None
    \/ m.cmd = "SendUnitData" /\ \E type \in {"Connected", "ConnectedData"} :
          \A i \in DOMAIN m.body : m.body[i].type # type
TooLong(m, room) ==
    \E i \in DOMAIN m.body :
        /\ m.body[i].type \in DataTypes
        /\ \A j \in DOMAIN m.body : m.body[j].type \in DataTypes => j <= i
        /\ Overflows(m.body[i].request, room)
LostReply(m) ==
    m.cmd = "SendUnitData" /\ (TooLong(m, MessageBuffer) \/ TooLong(m, FrameRoom))
Unserializable(m) ==
    m.cmd = "SendRRData" /\ TooLong(m, FrameRoom) /\ ~TooLong(m, MessageBuffer)
AnswerStep ==
    \A s \in Sockets :
        (~Idle /\ reading.socket = s /\ reading' = None) =>
            IF place'[s] = 0
            THEN \/ Malformed(reading.m) \/ LostReply(reading.m)
                 \/ reading.m.cmd = "UnRegisterSession"
                 \/ reading.part \in {"header", "body"}
            ELSE IF CallsForReply(reading.m)
                 THEN \/ out'.to = s /\ out'.cmd = reading.m.cmd
                      \/ Unserializable(reading.m) /\ out' = Nothing
                 ELSE out' = Nothing
EveryRequestAnswered == [][AnswerStep]_vars

\* encap.cc:40, "at least 2 delayed message requests should be supported": of
\* the ListIdentity requests by broadcast that came while less than two were
\* waiting, each gets its one reply, at its address, within its own maximum
\* delay and a tick; nobody else gets one.  Only ticks count for which all slots
\* were looked at: a sendto() that fails takes the reply to the next pass and
\* keeps the clock of the delays from going on, but loses and doubles none.
DelayStep ==
    /\ \A w \in waiting' : w.due > 0
    /\ out'.cmd = "Delayed" =>
          \A t \in out'.to : \E w \in waiting : t = <<w.receiver, w.context>>
DelayedInTime == [][DelayStep]_vars
=============================================================================
