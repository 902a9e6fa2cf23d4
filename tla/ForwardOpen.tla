---------------------------- MODULE ForwardOpen ----------------------------
(***************************************************************************)
(* A forward_open from end to end: an originator writes it with             *)
(* ConnectionData::Serialize(), the target reads it back and checks it in   *)
(* the order of forward_open(), finds the instances its paths name and      *)
(* compares sizes; an originator that is told a corrected size tries again. *)
(* What follows the last check (pools, ids, sockets) is IoConnections; here *)
(* it grants the connection or refuses it.                                  *)
(***************************************************************************)
EXTENDS ConnectionPaths, FiniteSets

CONSTANTS
    Requests,           \* what originators compose: see the MC module
    Classes, Instances, \* of the target; instances are <<class, id>>
    AssemblySize,       \* bytes of each assembly instance
    Device,             \* <<vendor, device type, product code, major, minor>>
    Tick,               \* kCIPsterTimerTickInMicroSeconds
    RunIdleConsumed, RunIdleProduced, \* kCIPsterConsumedDataHasRunIdleHeader, ...
    MaxTries,           \* bound: attempts of an originator
    None

VARIABLES
    request,    \* the originator's, or None
    read,       \* ConnectionData of the last forward_open the target has read
    answer,     \* [gen, ext, corrected] or None
    established, \* triads of the connections on g_active_conns
    tries, corrected \* history: attempts, and the sizes the target has corrected

vars == <<request, read, answer, established, tries, corrected>>

Init ==
    /\ request = None /\ read = None /\ answer = None
    /\ established = {}
    /\ tries = 0 /\ corrected = {}

kCipMessageRouterClass == 2

-----------------------------------------------------------------------------
\* The request between the two ends.

\* NetCnParams: an end is [rpi, type, size, fixed]; bits of type and size.
TypeNames == <<"Null", "Multicast", "PointToPoint", "Invalid">>
TypeCode(type) == CHOOSE i \in 0 .. 3 : TypeNames[i + 1] = type
SizeSpan(large) == IF large THEN 65536 ELSE 512
VariableBit(large) == IF large THEN 33554432 ELSE 512
TypeBits(large) == IF large THEN 536870912 ELSE 8192

Bits(end, large) ==
    end.size + (IF end.fixed THEN 0 ELSE VariableBit(large)) + TypeBits(large) * TypeCode(end.type)

Params(bits, large) ==
    [size |-> bits % SizeSpan(large), fixed |-> (bits \div VariableBit(large)) % 2 = 0,
     type |-> TypeNames[((bits \div TypeBits(large)) % 4) + 1]]

\* The originator produces what goes O->T and consumes what goes T->O.
Serialize(r) ==
    LET bytes == SerializePath(r.path, r.compressed)
    IN  [triad |-> r.triad, multiplier |-> r.multiplier, trigger |-> r.trigger,
         o_t_rpi |-> r.producing.rpi, o_t |-> Bits(r.producing, r.large),
         t_o_rpi |-> r.consuming.rpi, t_o |-> Bits(r.consuming, r.large),
         words |-> (Len(bytes) \div 2) + r.cut, bytes |-> bytes]

\* The next faster multiple; 0 passes, although it is below the minimum.
Rounded(rpi) == (rpi \div Tick) * Tick
RPINotSupported(rpi) == rpi % Tick # 0 /\ Rounded(rpi) = 0

DeserializeEnd(rpi, bits, large) ==
    LET p == Params(bits, large)
    IN  [rpi |-> Rounded(rpi), type |-> p.type, size |-> p.size, fixed |-> p.fixed]

\* What the target has read, when it has got as far as its path.
NoRoles == [config |-> -1, consuming |-> -1, producing |-> -1]

DeserializeForwardOpenRequest(w, isLarge, parsed) ==
    [triad |-> w.triad, multiplier |-> w.multiplier, trigger |-> w.trigger,
     consuming |-> DeserializeEnd(w.o_t_rpi, w.o_t, isLarge),
     producing |-> DeserializeEnd(w.t_o_rpi, w.t_o, isLarge),
     parsed |-> ~parsed.bad, path |-> parsed.path, roles |-> NoRoles]

-----------------------------------------------------------------------------
\* What originators compose: paths of the grammar that Serialize() follows, an
\* end's size in the bits it has.

Word == 0 .. 2^16 - 1
Byte == 0 .. 255

\* "Either Instance ID or Connection Point, not both" in the assembly class, and
\* elsewhere either a connection point or an attribute.
LogicalPath(p) ==
    /\ p.tag = <<>> /\ p.members = <<>> /\ Has(p, CLASS)
    /\ ~(Has(p, CONN_PT)
         /\ Has(p, IF GetClass(p) = kCipAssemblyClass THEN INSTANCE_ID ELSE ATTRIBUTE))

SymbolicPath(p) ==
    /\ Len(p.tag) = 1 /\ Len(p.tag[1]) <= MaxTag /\ Len(p.members) <= 3
    /\ \A f \in Levels \ {CONN_PT} : ~Has(p, f)

\* Inhibit times are 31 bits of usecs, and msecs that are written in one byte.
GroupOK(g) ==
    /\ g.port # <<>> => Len(g.port[2]) \in Byte
    /\ g.pit \div 65536 < 32768
    /\ g.msecs => g.pit % 1000 = 0 /\ g.pit \div 1000 \in Byte
    /\ g.usecs \/ g.msecs \/ g.pit = 0

PathOK(c) ==
    /\ GroupOK(c.group)
    /\ Len(c.app_path) = 3
    /\ \A i \in 1 .. 3 : LET p == c.app_path[i]
                        IN  p = NoPath \/ LogicalPath(p) \/ SymbolicPath(p)
    /\ \A i \in 1 .. 2 : HasAny(c.app_path[i + 1]) => HasAny(c.app_path[i])
    /\ Len(c.data) <= 1
    /\ c.data # <<>> => Len(c.data[1]) \in Byte

Ends == [rpi : Nat, type : {TypeNames[i] : i \in 1 .. 4}, size : Nat, fixed : BOOLEAN]
AppPaths == [stuff : [Levels -> Nat \cup {Absent}], tag : Seq(Seq(Byte)), members : Seq(Nat)]
Groups == [key : {<<>>} \cup (Word \X Word \X Word \X Byte \X Byte), usecs : BOOLEAN,
           msecs : BOOLEAN, pit : Nat, port : {<<>>} \cup (Word \X Seq(Byte))]
Composed ==
    [triad : Nat, multiplier : Nat, trigger : [class : Nat, type : STRING],
     large : BOOLEAN, compressed : BOOLEAN, cut : Int, producing : Ends, consuming : Ends,
     path : [group : Groups, app_path : Seq(AppPaths), data : Seq(Seq(Word))]]

RequestOK(r) ==
    /\ r \in Composed /\ PathOK(r.path)
    /\ r.producing.size < SizeSpan(r.large) /\ r.consuming.size < SizeSpan(r.large)

ASSUME RequestAssumption == None \notin Composed /\ \A r \in Requests : RequestOK(r)

\* The size of a connection is a word, with the count and the header.
ASSUME AssemblyAssumption ==
    \A i \in DOMAIN AssemblySize : AssemblySize[i] \in 0 .. 2^16 - 7

ASSUME TickAssumption == Tick \in Nat \ {0}

ASSUME RunIdleAssumption == RunIdleConsumed \in BOOLEAN /\ RunIdleProduced \in BOOLEAN

-----------------------------------------------------------------------------
\* Checks: [fails, gen, ext], and the first one that fails.

Check(fails, ext) == [fails |-> fails, gen |-> "ConnectionFailure", ext |-> ext]
Passed == [fails |-> FALSE, gen |-> "Success", ext |-> "Success"]

FirstFailure(checks) ==
    LET failing == {i \in DOMAIN checks : checks[i].fails}
    IN  IF failing = {} THEN Passed
        ELSE checks[CHOOSE i \in failing : \A j \in failing : i <= j]

\* CipElectronicKeySegment::Check(); 0 stands for any, but not for a major or
\* minor revision in compatibility mode.
Matches(v, own) == v = 0 \/ v = own
KeyCheck(key) ==
    LET compatible == key[4] >= 128
        major == key[4] % 128
    IN  FirstFailure(<<
          Check(~Matches(key[1], Device[1]) \/ ~Matches(key[3], Device[3]),
                "VendorIdOrProductcodeError"),
          Check(~Matches(key[2], Device[2]), "DeviceTypeError"),
          Check(IF compatible THEN major # Device[4] \/ key[5] \notin 1 .. Device[5]
                ELSE ~Matches(major, Device[4]) \/ ~Matches(key[5], Device[5]),
                "RevisionMismatch")>>)

-----------------------------------------------------------------------------
\* ConnectionData::ResolveInstances().

IsSufficient(p) ==
    Has(p, CLASS) /\ (Has(p, INSTANCE_ID) \/ (GetClass(p) = kCipAssemblyClass /\ Has(p, CONN_PT)))

InstanceOf(p) == <<GetClass(p), GetInstanceOrConnPt(p)>>

check_path(p) ==
    FirstFailure(<<
        Check(~IsSufficient(p), "InvalidSegmentTypeInPath"),
        Check(GetClass(p) \notin Classes,
              IF GetClass(p) >= 200 THEN "InvalidSegmentTypeInPath"
              ELSE "InconsistentApplicationPathCombo"),
        Check(InstanceOf(p) \notin Instances, "InvalidSegmentTypeInPath")>>)

\* Fault: with two paths and no data segment, the first is taken for both.
SharedRoles(o_t, t_o, data, n) ==
    IF o_t /\ t_o /\ ~data THEN [config |-> 0, consuming |-> 1, producing |-> 1]
    ELSE [config |-> 1, consuming |-> n, producing |-> n]

\* Which of n paths configures, consumes and produces (0: none does), by the
\* connection types (o_t, t_o: not null) and whether there is a data segment.
Roles(config, consuming, producing) ==
    [config |-> config, consuming |-> consuming, producing |-> producing]

OneWayRoles(o_t, t_o, data, n) ==
    CASE ~o_t /\ ~t_o /\ data -> Roles(1, 0, 0)
      [] ~o_t /\ ~t_o /\ ~data /\ n = 1 -> Roles(0, 1, 0)
      [] o_t /\ data /\ n \in {1, 2} -> Roles(1, n, 0)
      [] o_t /\ ~data /\ n = 1 -> Roles(0, 1, 0)
      [] t_o /\ data /\ n \in {1, 2} -> Roles(1, 0, n)
      [] t_o /\ ~data /\ n = 1 -> Roles(0, 0, 1)
      [] OTHER -> NoRoles

TwoWayRoles(data, n) ==
    CASE data -> Roles(1, IF n = 1 THEN 1 ELSE 2, n)
      [] ~data /\ n = 3 -> Roles(0, 2, 3)
      [] OTHER -> Roles(0, 1, n)

AssignAppPaths(o_t, t_o, data, n) ==
    IF o_t /\ t_o THEN TwoWayRoles(data, n) ELSE OneWayRoles(o_t, t_o, data, n)

NotNull(end) == end.type # "Null"
PathCount(p) == Cardinality({1} \cup {i \in {2, 3} : HasAny(p.app_path[i])})
WithRoles(d) ==
    [d EXCEPT !.roles = AssignAppPaths(NotNull(d.consuming), NotNull(d.producing),
                                       d.path.data # <<>>, PathCount(d.path))]
PathOf(d, i) == IF i < 1 THEN NoPath ELSE d.path.app_path[i]

\* mgmnt_class: of the first path that is not ignored.
ManagementClass(d) ==
    GetClass(d.path.app_path[IF d.roles = [config |-> 0, consuming |-> 2, producing |-> 3]
                             THEN 2 ELSE 1])

ResolveInstances(d) ==
    LET roles == d.roles
        Used(i) == i \in {roles.config, roles.consuming, roles.producing}
        Missing(i) == Used(i) /\ check_path(d.path.app_path[i]).fails
        PathError(i) == IF i = roles.consuming THEN "InvalidConsumingApplicationPath"
                        ELSE "InvalidProducingApplicationPath"
        Foreign(i) == i > 0 /\ GetClass(PathOf(d, i)) # kCipAssemblyClass
        io == d.trigger.class \in {0, 1}
    IN  FirstFailure(<<
          check_path(d.path.app_path[1]),
          Check(roles = NoRoles, "InvalidSegmentTypeInPath"),
          Check(Missing(2), PathError(2)),
          Check(Missing(3), PathError(3)),
          Check(d.trigger.class = 3
                /\ InstanceOf(PathOf(d, roles.consuming)) # <<kCipMessageRouterClass, 1>>,
                "InconsistentApplicationPathCombo"),
          Check(io /\ Foreign(roles.config), "InvalidConfigurationApplicationPath"),
          Check(io /\ Foreign(roles.consuming), "InvalidConsumingApplicationPath"),
          Check(io /\ Foreign(roles.producing), "InvalidProducingApplicationPath")>>)

-----------------------------------------------------------------------------
\* CipConnectionClass::OpenIO() up to GetIoConnectionForConnectionData().

\* A triggered connection without an inhibit time gets a quarter of its RPI.
VerifyForwardOpenParams(d) ==
    Check(/\ d.trigger.type \in {"ChangeOfState", "Application"}
          /\ d.path.group.usecs \/ d.path.group.msecs
          /\ d.path.group.pit > d.producing.rpi, "PITGreaterThanRPI")

\* diff_size: what a connection needs besides the data; no run/idle header on a
\* heartbeat, whose assembly is empty.
Overhead(d, runidle, attr_size) ==
    (IF d.trigger.class = 1 THEN 2 ELSE 0) + (IF runidle /\ attr_size # 0 THEN 4 ELSE 0)

\* For a path that is not of the assembly class the code reads a size from an
\* instance that has none; here it is one that fits nothing.
SizeBytes(p) == IF InstanceOf(p) \in DOMAIN AssemblySize THEN AssemblySize[InstanceOf(p)] ELSE 0

WrongSize(d, end, p, runidle) ==
    LET attr_size == SizeBytes(p)
        diff_size == Overhead(d, runidle, attr_size)
    IN  /\ NotNull(end)
        /\ \/ end.size < diff_size
           \/ end.fixed /\ end.size - diff_size # attr_size
           \/ end.size - diff_size > attr_size

\* Fault: the corrected size leaves out the overhead.
SizeOfData(d, p, runidle) == SizeBytes(p)

CorrectedSize(d, p, runidle) ==
    SizeBytes(p) + Overhead(d, runidle, SizeBytes(p))

CorrectSizes(d) ==
    FirstFailure(<<
          Check(WrongSize(d, d.consuming, PathOf(d, d.roles.consuming), RunIdleConsumed),
                "InvalidOToTConnectionSize"),
          Check(WrongSize(d, d.producing, PathOf(d, d.roles.producing), RunIdleProduced),
                "InvalidTToOConnectionSize")>>)

OpenConnection(d) ==
    CASE ManagementClass(d) = kCipAssemblyClass ->
            FirstFailure(<<VerifyForwardOpenParams(d), CorrectSizes(d)>>)
      [] ManagementClass(d) = kCipMessageRouterClass -> Passed
      [] OTHER -> Check(TRUE, "InconsistentApplicationPathCombo")

-----------------------------------------------------------------------------
Rejected(w, d) ==
    FirstFailure(<<
          Check(w.triad \in established, "ConnectionInUse"),
          Check(w.multiplier > 7, "ConnectionTimeoutMultiplierNotAcceptable"),
          Check(d.consuming.type = "Invalid", "InvalidOToTConnectionType"),
          Check(d.producing.type = "Invalid", "InvalidTToOConnectionType"),
          Check(w.trigger.class > 3 \/ w.trigger.type = "undocumented",
                "TransportTriggerNotSupported"),
          Check(RPINotSupported(w.o_t_rpi) \/ RPINotSupported(w.t_o_rpi), "RPINotSupported"),
          [Check(2 * w.words < Len(w.bytes), "Success") EXCEPT !.gen = "TooMuchData"],
          [Check(2 * w.words > Len(w.bytes), "Success") EXCEPT !.gen = "NotEnoughData"],
          Check(~d.parsed, "Success"),
          IF d.path.group.key = <<>> THEN Passed ELSE KeyCheck(d.path.group.key),
          ResolveInstances(d), OpenConnection(d)>>)

Answer(check, d) ==
    [gen |-> check.gen, ext |-> check.ext,
     corrected |->
        CASE check.ext = "InvalidOToTConnectionSize" ->
                CorrectedSize(d, PathOf(d, d.roles.consuming), RunIdleConsumed)
          [] check.ext = "InvalidTToOConnectionSize" ->
                CorrectedSize(d, PathOf(d, d.roles.producing), RunIdleProduced)
          [] OTHER -> 0]

\* granted: a connection is free in the pool or among the explicit ones, its
\* configuration data is accepted and its sockets can be opened.
Respond(w, d, check, granted) ==
    /\ read' = d
    /\ answer' = IF check.fails \/ granted THEN Answer(check, d)
                 ELSE [gen |-> "ConnectionFailure", ext |-> "other", corrected |-> 0]
    /\ established' = IF check.fails \/ ~granted THEN established ELSE established \cup {w.triad}

forward_open(granted) ==
    LET Receive(w, d) == Respond(w, d, Rejected(w, d), granted)
        Read(w) == WithRoles(DeserializeForwardOpenRequest(w, request.large,
                                                           DeserializePath(w.bytes, w.words)))
        Arrive(w) == Receive(w, Read(w))
    IN  /\ request # None /\ answer = None
        /\ Arrive(Serialize(request))
        /\ UNCHANGED <<request, tries, corrected>>

\* An originator has composed a request.
Compose(r) ==
    /\ request = None
    /\ request' = r
    /\ tries' = 1 /\ corrected' = {}
    /\ UNCHANGED <<read, answer, established>>

\* It was told a corrected size and asks for that, by a large forward_open when
\* the size does not fit the bits of a small one.
Retry ==
    /\ answer # None /\ tries < MaxTries
    /\ LET large == request.large \/ answer.corrected >= SizeSpan(FALSE)
       IN  \/ /\ answer.ext = "InvalidOToTConnectionSize"
              /\ request' = [request EXCEPT !.producing.size = answer.corrected, !.large = large]
           \/ /\ answer.ext = "InvalidTToOConnectionSize"
              /\ request' = [request EXCEPT !.consuming.size = answer.corrected, !.large = large]
    /\ corrected' = corrected \cup {answer.ext}
    /\ tries' = tries + 1
    /\ answer' = None
    /\ UNCHANGED <<read, established>>

\* It has its answer and is done with this request.
Finish ==
    /\ answer # None
    /\ request' = None /\ answer' = None /\ read' = None
    /\ tries' = 0 /\ corrected' = {}
    /\ UNCHANGED established

\* forward_close with the path size of its request, by the same originator.
forward_close(c, cut) ==
    /\ request = None
    /\ established' = IF cut = 0 THEN established \ {c} ELSE established
    /\ UNCHANGED <<request, read, answer, tries, corrected>>

Next ==
    \/ \E r \in Requests : Compose(r)
    \/ \E granted \in BOOLEAN : forward_open(granted)
    \/ Retry \/ Finish
    \/ \E c \in established, cut \in {0, 1} : forward_close(c, cut)

Spec == Init /\ [][Next]_vars

-----------------------------------------------------------------------------
\* What a reader cannot tell apart: see ReadAsWritten.
Written(c, i) == {f \in Levels : Has(c.app_path[i], f)}
                 \ (IF i = 1 THEN {} ELSE Shared(c.app_path[i - 1], c.app_path[i]))
Continues(c, i) ==
    /\ \A f \in Written(c, i), g \in Written(c, i - 1) : f < g
    /\ ~(/\ CLASS \in Written(c, i - 1) /\ GetClass(c.app_path[i - 1]) = kCipAssemblyClass
         /\ ATTRIBUTE \notin Written(c, i - 1) /\ INSTANCE_ID \in Written(c, i - 1)
         /\ CONN_PT \in Written(c, i))
\* Levels the reader takes over, and those the writer relies on it to take over.
TakenOver(prev, p) ==
    LET last == CHOOSE f \in Levels : Has(p, f) /\ \A g \in 0 .. f - 1 : ~Has(p, g)
    IN  {f \in Inherited(prev, last) : Has(prev, f)}
Acquires(c, i) ==
    \E f \in TakenOver(c.app_path[i - 1], c.app_path[i]) : ~Has(c.app_path[i], f)
Loses(c, i) ==
    LET prev == c.app_path[i - 1]
        p == c.app_path[i]
    IN  \E f \in Shared(prev, p) : Has(p, f) /\ f \notin TakenOver(prev, p)
Logicals(r) == {i \in 2 .. 3 : HasAny(r.path.app_path[i]) /\ r.path.app_path[i].tag = <<>>}
Ambiguous(r) ==
    \/ \E i \in 1 .. 3, f \in Levels : r.path.app_path[i].stuff[f] >= 65536
    \/ \E i \in 1 .. 3 : \E m \in DOMAIN r.path.app_path[i].members :
          r.path.app_path[i].members[m] >= 65536
    \/ r.path.group.port # <<>> /\ r.path.group.port[1] = 15
    \/ \E i \in Logicals(r) : Acquires(r.path, i)
    \/ r.compressed /\ \E i \in Logicals(r) : Continues(r.path, i) \/ Loses(r.path, i)

\* The target reads the path its originator wrote, whichever segments it has and
\* whatever the later application paths leave out, with five exceptions: an id
\* of 32 bits, of which deserialize_logical() skips a byte; port 15, which
\* Serialize() writes as the mark of a long port; a path that lacks a level
\* above its last one which the path before it has, and which inherit() gives it
\* even if it names a class of its own; an instance left out after an equal one
\* of the assembly class, which inherit_assembly() does not restore to a path
\* that ends with a connection point; and a shortened path that
\* begins below the level the one before it ends with, which is read as more of
\* that one, unless that one names the assembly class and ends with an instance.
ReadAsWritten ==
    (read # None /\ ~Ambiguous(request)) => read.path = request.path

\* The place of the paths by cipconnection.cc:45, "in the order of
\* Configuration path, Consumption path, and Production path": the roles that
\* are asked for take the last paths in this order, and what has no path of its
\* own shares the last one.  Without any role the first is pinged.
Asked(r) ==
    LET asked == (IF r.path.data # <<>> THEN <<"config">> ELSE <<>>)
                 \o (IF NotNull(r.producing) THEN <<"consuming">> ELSE <<>>)
                 \o (IF NotNull(r.consuming) THEN <<"producing">> ELSE <<>>)
    IN  IF asked = <<>> THEN <<"consuming">> ELSE asked
Intended(r, role) ==
    LET asked == Asked(r)
        n == PathCount(r.path)
        Place(j) == CASE asked = <<"config">> -> 1
                      [] asked # <<"config">> /\ n >= Len(asked) -> n - Len(asked) + j
                      [] OTHER -> IF j < n THEN j ELSE n
        mine == {j \in DOMAIN asked : asked[j] = role}
    IN  IF mine = {} THEN NoPath ELSE r.path.app_path[Place(CHOOSE j \in mine : TRUE)]

\* The data of one direction is the assembly (a part of it, if variable), after
\* the overhead of its class and header; its packets come no slower than asked.
Fits(d, asked, got, p, runidle) ==
    LET data == asked.size - Overhead(d, runidle, SizeBytes(p))
    IN  /\ [got EXCEPT !.rpi = 0] = [asked EXCEPT !.rpi = 0]
        /\ got.rpi <= asked.rpi /\ asked.rpi - got.rpi < Tick
        /\ NotNull(asked) => IF asked.fixed THEN data = SizeBytes(p) ELSE data \in 0 .. SizeBytes(p)

\* A connection that is granted is the one its originator meant: what it
\* produces is consumed by the instance it named for that, what it consumes is
\* produced by the one named for that, in the sizes it asked for, and the
\* instances of an I/O connection are assemblies.
AcceptedAsAsked ==
    (answer # None /\ answer.gen = "Success" /\ ~Ambiguous(request)) =>
        LET d == read
            roles == d.roles
            Path(role) == Intended(request, role)
        IN  /\ request.triad \in established
            /\ \A role \in {"config", "consuming", "producing"} :
                  /\ PathOf(d, roles[role]) = Path(role)
                  /\ HasAny(Path(role)) /\ d.trigger.class \in {0, 1} =>
                        /\ InstanceOf(Path(role)) \in Instances
                        /\ GetClass(Path(role)) = kCipAssemblyClass
            /\ d.trigger.class \in {0, 1} =>
                  /\ Fits(d, request.producing, d.consuming, Path("consuming"), RunIdleConsumed)
                  /\ Fits(d, request.consuming, d.producing, Path("producing"), RunIdleProduced)

\* An originator that asks for the size it was told is not refused that size
\* again, so that it is granted or told the true reason after two corrections.
CorrectionAccepted == answer # None => answer.ext \notin corrected
=============================================================================
