--------------------------- MODULE ConnectionPaths ---------------------------
(***************************************************************************)
(* The connection path of a forward_open, as its originator writes it and   *)
(* as its target reads it (cipepath.cc, class ConnectionPath): a group of   *)
(* an electronic key, production inhibit times and a port, up to three      *)
(* application paths, of which the later ones leave out what they share     *)
(* with the one before, and a data segment.  Paths are padded, as everywhere *)
(* under src/.  The readers' exceptions are the field "bad" of a result.     *)
(***************************************************************************)
EXTENDS Integers, Sequences

\* Levels of an application path, in the order of CipAppPath::Stuff.
ATTRIBUTE == 0
CONN_PT == 1
INSTANCE_ID == 2
CLASS == 3
LOGICAL_END == 4
Levels == 0 .. 3
Code == [f \in Levels |-> CASE f = CLASS -> 32 [] f = INSTANCE_ID -> 36
                            [] f = CONN_PT -> 44 [] OTHER -> 48]
MemberId == 40
AnsiSymbol == 145
SimpleData == 128
kCipAssemblyClass == 4
MaxTag == 41            \* sizeof(tag) - 1

Absent == -1
NoPath == [stuff |-> [f \in Levels |-> Absent], tag |-> <<>>, members |-> <<>>]

\* tag is <<symbol>> or empty.
Has(p, f) == p.stuff[f] # Absent
HasAny(p) == p # NoPath
GetField(p, f) == IF Has(p, f) THEN p.stuff[f] ELSE 0
GetClass(p) == GetField(p, CLASS)
GetInstanceOrConnPt(p) ==
    IF GetClass(p) = kCipAssemblyClass /\ ~Has(p, INSTANCE_ID)
    THEN GetField(p, CONN_PT) ELSE GetField(p, INSTANCE_ID)

\* usecs, msecs: which production inhibit time segments there are.
NoGroup == [key |-> <<>>, usecs |-> FALSE, msecs |-> FALSE, pit |-> 0, port |-> <<>>]

Past(in, n) == SubSeq(in, n + 1, Len(in))
Odd(n) == n % 2 = 1

-----------------------------------------------------------------------------
\* Writers.

Le16(v) == <<v % 256, (v \div 256) % 256>>
Le32(v) == Le16(v % 65536) \o Le16(v \div 65536)

serialize_logical(code, v) ==
    CASE v < 256 -> <<code, v>>
      [] v >= 256 /\ v < 65536 -> <<code + 1, 0>> \o Le16(v)
      [] OTHER -> <<code + 2, 0>> \o Le32(v)

\* The field f of p unless it is absent or left out.
Logical(p, f, omit) ==
    IF Has(p, f) /\ f \notin omit THEN serialize_logical(Code[f], p.stuff[f]) ELSE <<>>

Member(p, i) ==
    IF i <= Len(p.members) THEN serialize_logical(MemberId, p.members[i]) ELSE <<>>

SerializeAppPath(p, omit) ==
    CASE p.tag # <<>> ->
            <<AnsiSymbol, Len(p.tag[1])>> \o p.tag[1]
            \o (IF Odd(Len(p.tag[1])) THEN <<0>> ELSE <<>>)
            \o Logical(p, CONN_PT, {}) \o Member(p, 1) \o Member(p, 2) \o Member(p, 3)
      [] p.tag = <<>> /\ GetClass(p) = kCipAssemblyClass ->
            Logical(p, CLASS, omit)
            \o (IF Has(p, INSTANCE_ID) /\ INSTANCE_ID \notin omit
                THEN Logical(p, INSTANCE_ID, omit) ELSE Logical(p, CONN_PT, omit))
            \o Logical(p, ATTRIBUTE, {})
      [] OTHER ->
            Logical(p, CLASS, omit) \o Logical(p, INSTANCE_ID, omit)
            \o (IF Has(p, CONN_PT) THEN Logical(p, CONN_PT, {}) ELSE Logical(p, ATTRIBUTE, {}))

\* What p leaves out after the path prev.
Shared(prev, p) ==
    {f \in {CLASS, INSTANCE_ID, CONN_PT} :
        /\ GetField(prev, f) = GetField(p, f)
        /\ f = INSTANCE_ID => Has(p, CONN_PT) \/ Has(p, ATTRIBUTE)
        /\ f = CONN_PT => Has(p, ATTRIBUTE)}

\* The paths ps[i], ...; last: the one written before, if any.
SerializeAppPaths(ps, compressed) ==
    LET Before(i) == {j \in 1 .. i - 1 : HasAny(ps[j])}
        Omit(i) == IF ~compressed \/ Before(i) = {} THEN {}
                   ELSE Shared(ps[CHOOSE j \in Before(i) : \A k \in Before(i) : k <= j], ps[i])
        Written(i) == IF HasAny(ps[i]) THEN SerializeAppPath(ps[i], Omit(i)) ELSE <<>>
    IN  Written(1) \o Written(2) \o Written(3)

\* port is <<number, link address>>.
SerializePort(port) ==
    LET link == port[2]
        one == Len(link) = 1
        size == IF one THEN <<>> ELSE <<Len(link)>>
        flag == IF one THEN 0 ELSE 16
        bytes == (IF port[1] <= 15 THEN <<flag + port[1]>> \o size
                  ELSE <<flag + 15>> \o size \o Le16(port[1])) \o link
    IN  IF Odd(Len(bytes)) THEN Append(bytes, 0) ELSE bytes

\* key is <<vendor, device type, product code, major, minor>>.
SerializeKey(key) ==
    <<52, 4>> \o Le16(key[1]) \o Le16(key[2]) \o Le16(key[3]) \o <<key[4], key[5]>>

SerializeGroup(g) ==
    (IF g.key # <<>> THEN SerializeKey(g.key) ELSE <<>>)
    \o (IF g.usecs THEN <<81, 2>> \o Le32(g.pit) ELSE <<>>)
    \o (IF g.msecs THEN <<67, g.pit \div 1000>> ELSE <<>>)
    \o (IF g.port # <<>> THEN SerializePort(g.port) ELSE <<>>)

\* data is <<words>> or empty; a word is one number here and two bytes there.
SerializeData(data) ==
    IF data = <<>> THEN <<>>
    ELSE <<SimpleData, Len(data[1])>>
         \o [i \in 1 .. 2 * Len(data[1]) |-> Le16(data[1][(i + 1) \div 2])[2 - (i % 2)]]

SerializePath(c, compressed) ==
    SerializeGroup(c.group) \o SerializeAppPaths(c.app_path, compressed) \o SerializeData(c.data)

-----------------------------------------------------------------------------
\* Readers.

Number16(in, at) == in[at] + 256 * in[at + 1]
\* An int: the highest bit is a sign.
Number32(in, at) ==
    Number16(in, at) + 65536 * (Number16(in, at + 2)
                                - (IF in[at + 3] > 127 THEN 65536 ELSE 0))

\* Bytes in front of the value, the first byte of the segment among them.
Skipped(format) == <<1, 2, 3>>[format + 1]
Width(format) == <<1, 2, 4>>[format + 1]

\* The segment that in begins with: its value and its length.
deserialize_logical(in) ==
    LET format == in[1] % 4
        at == Skipped(format) + 1
    IN  IF format = 3 \/ Len(in) < Skipped(format) + Width(format) THEN [bad |-> TRUE]
        ELSE [bad |-> FALSE, size |-> Skipped(format) + Width(format),
              value |-> CASE format = 0 -> in[at] [] format = 1 -> Number16(in, at)
                          [] OTHER -> Number32(in, at)]

Begins(in, code) == in # <<>> /\ in[1] - (in[1] % 4) = code

\* Fault: every path may have an instance and a connection point.
NoBoundary(st, f) == FALSE

\* A path of the assembly class has an instance or a connection point.
Boundary(st, f) ==
    f = CONN_PT /\ GetClass(st.path) = kCipAssemblyClass /\ st.last = INSTANCE_ID

\* Segments come in the order of their levels, so that the loop over segments
\* is one over levels: what does not match now never will in this path.
ReadLevel(st, f) ==
    IF st.bad \/ ~Begins(st.in, Code[f]) \/ Boundary(st, f) THEN st
    ELSE LET read == deserialize_logical(st.in)
         IN  IF read.bad THEN [st EXCEPT !.bad = TRUE]
             ELSE [bad |-> FALSE, in |-> Past(st.in, read.size), last |-> f,
                   path |-> [st.path EXCEPT !.stuff = [@ EXCEPT ![f] = read.value]]]

\* Which levels the path gets from the one before it: those above its first.
Inherited(prev, last) ==
    {f \in last + 1 .. CLASS :
        ~(GetClass(prev) = kCipAssemblyClass /\ last = CONN_PT /\ f = INSTANCE_ID)}

Inherit(st, prev) ==
    LET From(f) == IF st.path.stuff[f] = Absent /\ f \in Inherited(prev, st.last)
                   THEN prev.stuff[f] ELSE st.path.stuff[f]
    IN  [bad |-> FALSE, in |-> st.in, last |-> st.last,
         path |-> [st.path EXCEPT !.stuff = [f \in Levels |-> From(f)]]]

ReadLogical(in, prev) ==
    LET first == [bad |-> FALSE, in |-> in, path |-> NoPath, last |-> LOGICAL_END]
        read == ReadLevel(ReadLevel(ReadLevel(ReadLevel(first, CLASS),
                                              INSTANCE_ID), CONN_PT), ATTRIBUTE)
    IN  IF read.bad THEN read ELSE Inherit(read, prev)

\* The next member id of a symbol, if there is one.
ReadMember(st) ==
    IF st.bad \/ ~Begins(st.in, MemberId) THEN st
    ELSE LET read == deserialize_logical(st.in)
         IN  IF read.bad THEN [st EXCEPT !.bad = TRUE]
             ELSE [bad |-> FALSE, in |-> Past(st.in, read.size), last |-> st.last,
                   path |-> [st.path EXCEPT !.members = Append(@, read.value)]]

\* head bytes, then size characters, then a pad byte if that is odd.
ReadSymbol(in, head, size) ==
    LET end == head + size + ((head + size) % 2)
    IN  IF size > MaxTag \/ Len(in) < end
        THEN [bad |-> TRUE, in |-> in, path |-> NoPath, last |-> LOGICAL_END]
        ELSE LET st == [bad |-> FALSE, in |-> Past(in, end), last |-> LOGICAL_END,
                        path |-> [stuff |-> NoPath.stuff, members |-> <<>>,
                                  tag |-> <<SubSeq(in, head + 1, head + size)>>]]
             IN  ReadMember(ReadMember(ReadMember(ReadLevel(st, CONN_PT))))

DeserializeAppPath(in, prev) ==
    CASE in[1] = AnsiSymbol ->
            IF Len(in) < 2 THEN [bad |-> TRUE, in |-> in, path |-> NoPath, last |-> LOGICAL_END]
            ELSE ReadSymbol(in, 2, in[2])
      [] in[1] \in 96 .. 127 -> ReadSymbol(in, 1, in[1] - 96)
      [] OTHER -> ReadLogical(in, prev)

DeserializePort(in) ==
    LET sized == in[1] >= 16
        long == in[1] % 16 = 15
        head == 1 + (IF sized THEN 1 ELSE 0) + (IF long THEN 2 ELSE 0)
        size == IF sized THEN in[2] ELSE 1
        end == head + size + ((head + size) % 2)
    IN  IF (sized /\ Len(in) < 2) \/ Len(in) < end THEN [bad |-> TRUE]
        ELSE [bad |-> FALSE, size |-> end,
              port |-> <<IF long THEN Number16(in, head - 1) ELSE in[1] % 16,
                         SubSeq(in, head + 1, head + size)>>]

\* One turn of the loop over the segments of the group, which ends before any
\* other segment.  A key that is cut off or of another format is an error that is
\* returned, not thrown; inhibit times are at 0x43 (1 byte) and 0x51 (1 or 2 words).
ReadGroupSegment(st) ==
    LET in == st.in
        Error == [st EXCEPT !.bad = TRUE]
        Took(size, group) ==
            [bad |-> FALSE, short |-> FALSE, group |-> group, in |-> Past(in, size)]
    IN  IF st.bad \/ st.short \/ in = <<>> THEN st
        ELSE CASE in[1] < 32 ->
                LET p == DeserializePort(in)
                IN  IF p.bad THEN Error ELSE Took(p.size, [st.group EXCEPT !.port = p.port])
          [] in[1] = 52 ->
                IF Len(in) < 10 \/ in[2] # 4 THEN [st EXCEPT !.short = TRUE]
                ELSE Took(10, [st.group EXCEPT !.key =
                         <<Number16(in, 3), Number16(in, 5), Number16(in, 7), in[9], in[10]>>])
          [] in[1] = 67 ->
                IF Len(in) < 2 THEN Error
                ELSE Took(2, [st.group EXCEPT !.pit = 1000 * in[2], !.msecs = TRUE])
          [] in[1] = 81 ->
                IF Len(in) < 2 \/ in[2] \notin {1, 2} \/ Len(in) < 2 + 2 * in[2] THEN Error
                ELSE Took(2 + 2 * in[2],
                          [st.group EXCEPT !.usecs = TRUE,
                               !.pit = IF in[2] = 1 THEN Number16(in, 3) ELSE Number32(in, 3)])
          [] OTHER -> st

\* No segment is empty, so that as many turns as there are bytes are enough.
DeserializeGroup(in) ==
    LET turns[n \in 0 .. Len(in)] ==
            IF n = 0 THEN [bad |-> FALSE, short |-> FALSE, group |-> NoGroup, in |-> in]
            ELSE ReadGroupSegment(turns[n - 1])
    IN  turns[Len(in)]

DeserializeData(in) ==
    CASE in = <<>> \/ in[1] # SimpleData -> [bad |-> FALSE, data |-> <<>>, in |-> in]
      [] OTHER ->
            IF Len(in) < 2 \/ Len(in) < 2 + 2 * in[2] THEN [bad |-> TRUE, data |-> <<>>, in |-> in]
            ELSE [bad |-> FALSE, in |-> Past(in, 2 + 2 * in[2]),
                  data |-> <<[i \in 1 .. in[2] |-> Number16(in, 2 * i + 1)]>>]

\* The next application path, if any bytes are left.
ReadAppPath(st) ==
    LET Took(read) == [bad |-> st.bad \/ read.bad, group |-> st.group, in |-> read.in,
                       prev |-> read.path, paths |-> Append(st.paths, read.path)]
    IN  Took(IF st.in = <<>> THEN [bad |-> FALSE, in |-> <<>>, path |-> NoPath]
             ELSE DeserializeAppPath(st.in, st.prev))

\* ConnectionPath::Deserialize().  After the returned error of a key the reader
\* goes back by one, to the byte before the path.
DeserializePath(in, before) ==
    LET Start(g) == [bad |-> g.bad, group |-> g.group, prev |-> NoPath, paths |-> <<>>,
                     in |-> IF g.short THEN <<before>> \o in ELSE g.in]
        Whole(apps, d) ==
            [bad |-> \/ apps.bad \/ d.bad \/ Len(d.in) > 1
                     \/ (Len(d.in) = 1 /\ Odd(Len(in))),
             path |-> [group |-> apps.group, app_path |-> apps.paths, data |-> d.data]]
        WithData(apps) == Whole(apps, DeserializeData(apps.in))
    IN  WithData(ReadAppPath(ReadAppPath(ReadAppPath(Start(DeserializeGroup(in))))))
=============================================================================
