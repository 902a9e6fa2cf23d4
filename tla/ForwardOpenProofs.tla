-------------------------- MODULE ForwardOpenProofs --------------------------
(* What is proved about a forward_open from end to end: the target reads the  *)
(* path that its originator wrote (ReadAsWritten), by following reader and    *)
(* writer segment by segment; what is granted is what was asked for           *)
(* (AcceptedAsAsked); and a size that was corrected is not refused again      *)
(* (CorrectionAccepted).                                                      *)
EXTENDS ForwardOpen, SequenceTheorems, FiniteSetTheorems, WellFoundedInduction, TLAPS

-----------------------------------------------------------------------------
(* The request as it arrives.                                                *)

Parsed(r) == DeserializePath(Serialize(r).bytes, Serialize(r).words)

ReadOf(r) == WithRoles(DeserializeForwardOpenRequest(Serialize(r), r.large, Parsed(r)))

\* An end as its target reads it.
EndRead(end) ==
    [rpi |-> Rounded(end.rpi), type |-> end.type, size |-> end.size, fixed |-> end.fixed]

LEMMA TypeCodes ==
    ASSUME NEW type \in {TypeNames[i] : i \in 1 .. 4}
    PROVE  TypeCode(type) \in 0 .. 3 /\ TypeNames[TypeCode(type) + 1] = type
<1>1. \E i \in 0 .. 3 : TypeNames[i + 1] = type
  <2>1. PICK j \in 1 .. 4 : TypeNames[j] = type
    OBVIOUS
  <2>2. j - 1 \in 0 .. 3 /\ (j - 1) + 1 = j
    OBVIOUS
  <2> QED
    BY <2>1, <2>2
<1> QED
  BY <1>1 DEF TypeCode

LEMMA BitsRoundTrip ==
    ASSUME NEW large \in BOOLEAN, NEW end \in Ends, end.size < SizeSpan(large)
    PROVE  Params(Bits(end, large), large)
              = [size |-> end.size, fixed |-> end.fixed, type |-> end.type]
<1> DEFINE k == TypeCode(end.type)
           size == end.size
           bits == Bits(end, large)
<1>1. size \in 0 .. SizeSpan(large) - 1 /\ end.fixed \in BOOLEAN
  BY DEF Ends, SizeSpan
<1>2. end.type \in {TypeNames[i] : i \in 1 .. 4}
  BY DEF Ends
<1>3. k \in 0 .. 3 /\ TypeNames[k + 1] = end.type
  BY <1>2, TypeCodes
<1>4. bits = size + (IF end.fixed THEN 0 ELSE VariableBit(large)) + TypeBits(large) * k
  BY DEF Bits
<1>5. /\ bits % SizeSpan(large) = size
      /\ ((bits \div VariableBit(large)) % 2 = 0) = end.fixed
      /\ (bits \div TypeBits(large)) % 4 = k
  <2>1. size \in Int /\ 0 <= size /\ bits \in Int
    BY <1>1, <1>3, <1>4 DEF SizeSpan, VariableBit, TypeBits
  <2>2. CASE large
    <3>1. size < 65536 /\ bits = size + (IF end.fixed THEN 0 ELSE 33554432) + 536870912 * k
      BY <1>1, <1>4, <2>2 DEF SizeSpan, VariableBit, TypeBits
    <3>2. /\ SizeSpan(large) = 65536 /\ VariableBit(large) = 33554432
          /\ TypeBits(large) = 536870912
      BY <2>2 DEF SizeSpan, VariableBit, TypeBits
    <3> HIDE DEF k, size, bits
    <3>3. \E q \in Nat : bits = size + 65536 * q
      <4>1. 8192 * k + (IF end.fixed THEN 0 ELSE 512) \in Nat
        BY <1>3
      <4>2. bits = size + 65536 * (8192 * k + (IF end.fixed THEN 0 ELSE 512))
        BY <1>3, <2>1, <3>1
      <4> QED
        BY <4>1, <4>2
    <3>4. bits % 65536 = size
      BY ONLY <2>1, <3>1, <3>3
    <3>5. (bits \div 536870912) % 4 = k
      BY <1>3, <2>1, <3>1
    <3>6. (bits \div 33554432) % 2 = IF end.fixed THEN 0 ELSE 1
      BY <1>3, <2>1, <3>1
    <3>7. bits % SizeSpan(large) = size
      BY ONLY <3>2, <3>4
    <3>8. (bits \div TypeBits(large)) % 4 = k
      BY ONLY <3>2, <3>5
    <3>9. (bits \div VariableBit(large)) % 2 = IF end.fixed THEN 0 ELSE 1
      BY ONLY <3>2, <3>6
    <3>10. ((bits \div VariableBit(large)) % 2 = 0) = end.fixed
      BY ONLY <1>1, <3>9
    <3> QED
      BY ONLY <3>7, <3>8, <3>10
  <2>3. CASE ~large
    <3>1. size < 512 /\ bits = size + (IF end.fixed THEN 0 ELSE 512) + 8192 * k
      BY <1>1, <1>4, <2>3 DEF SizeSpan, VariableBit, TypeBits
    <3>2. SizeSpan(large) = 512 /\ VariableBit(large) = 512 /\ TypeBits(large) = 8192
      BY <2>3 DEF SizeSpan, VariableBit, TypeBits
    <3> HIDE DEF k, size, bits
    <3>4. bits % 512 = size
      BY <1>3, <2>1, <3>1
    <3>5. (bits \div 8192) % 4 = k
      BY <1>3, <2>1, <3>1
    <3>6. (bits \div 512) % 2 = IF end.fixed THEN 0 ELSE 1
      BY <1>3, <2>1, <3>1
    <3>7. bits % SizeSpan(large) = size
      BY ONLY <3>2, <3>4
    <3>8. (bits \div TypeBits(large)) % 4 = k
      BY ONLY <3>2, <3>5
    <3>9. (bits \div VariableBit(large)) % 2 = IF end.fixed THEN 0 ELSE 1
      BY ONLY <3>2, <3>6
    <3>10. ((bits \div VariableBit(large)) % 2 = 0) = end.fixed
      BY ONLY <1>1, <3>9
    <3> QED
      BY ONLY <3>7, <3>8, <3>10
  <2> QED
    BY <2>2, <2>3
<1> QED
  BY <1>3, <1>5 DEF Params

LEMMA EndArrives ==
    ASSUME NEW large \in BOOLEAN, NEW end \in Ends, end.size < SizeSpan(large)
    PROVE  DeserializeEnd(end.rpi, Bits(end, large), large) = EndRead(end)
BY BitsRoundTrip DEF DeserializeEnd, EndRead

\* What the target has read of a request.
LEMMA Arrives ==
    ASSUME NEW r, RequestOK(r)
    PROVE  LET path == Parsed(r).path
           IN  ReadOf(r) =
                  [triad |-> r.triad, multiplier |-> r.multiplier, trigger |-> r.trigger,
                   consuming |-> EndRead(r.producing), producing |-> EndRead(r.consuming),
                   parsed |-> ~Parsed(r).bad, path |-> path,
                   roles |-> AssignAppPaths(NotNull(r.producing), NotNull(r.consuming),
                                            path.data # <<>>, PathCount(path))]
<1> DEFINE path == Parsed(r).path
           w == Serialize(r)
           d == DeserializeForwardOpenRequest(w, r.large, Parsed(r))
<1>1. /\ w.triad = r.triad /\ w.multiplier = r.multiplier /\ w.trigger = r.trigger
      /\ w.o_t_rpi = r.producing.rpi /\ w.o_t = Bits(r.producing, r.large)
      /\ w.t_o_rpi = r.consuming.rpi /\ w.t_o = Bits(r.consuming, r.large)
  BY DEF Serialize
<1>2. /\ DeserializeEnd(w.o_t_rpi, w.o_t, r.large) = EndRead(r.producing)
      /\ DeserializeEnd(w.t_o_rpi, w.t_o, r.large) = EndRead(r.consuming)
  BY <1>1, EndArrives DEF RequestOK, Composed
<1> HIDE DEF w
<1>3. d = [triad |-> r.triad, multiplier |-> r.multiplier, trigger |-> r.trigger,
           consuming |-> EndRead(r.producing), producing |-> EndRead(r.consuming),
           parsed |-> ~Parsed(r).bad, path |-> path, roles |-> NoRoles]
  BY <1>1, <1>2 DEF DeserializeForwardOpenRequest
<1>4. ReadOf(r) = WithRoles(d)
  BY DEF ReadOf, w
<1> HIDE DEF d
<1>5. /\ NotNull(d.consuming) = NotNull(r.producing)
      /\ NotNull(d.producing) = NotNull(r.consuming)
  BY <1>3 DEF NotNull, EndRead
<1> QED
  BY <1>3, <1>4, <1>5 DEF WithRoles

-----------------------------------------------------------------------------
(* The checks.                                                               *)

LEMMA LeastOf ==
    ASSUME NEW T \in SUBSET Nat, NEW m \in T
    PROVE  \E n \in T : \A k \in T : n <= k
<1>1. IsWellFoundedOn(OpToRel(<, Nat), Nat)
  BY NatLessThanWellFounded
<1>2. PICK n \in T : \A y \in T : ~(<<y, n>> \in OpToRel(<, Nat))
  BY <1>1, WFMin
<1>3. \A y \in T : ~(y < n)
  BY <1>2 DEF OpToRel
<1> QED
  BY <1>3

\* Either nothing fails, or the answer is that of a check that does.
LEMMA FirstFails ==
    ASSUME NEW checks, NEW n \in Nat, DOMAIN checks = 1 .. n
    PROVE  \/ FirstFailure(checks) = Passed /\ \A i \in 1 .. n : ~checks[i].fails
           \/ \E i \in 1 .. n : checks[i].fails /\ FirstFailure(checks) = checks[i]
<1> DEFINE failing == {i \in DOMAIN checks : checks[i].fails}
<1>1. CASE failing = {}
  BY <1>1 DEF FirstFailure
<1>2. CASE failing # {}
  <2>1. PICK m \in failing : TRUE
    BY <1>2
  <2>2. failing \in SUBSET Nat
    OBVIOUS
  <2>3. \E i \in failing : \A j \in failing : i <= j
    BY ONLY <2>1, <2>2, LeastOf
  <2>4. FirstFailure(checks) = checks[CHOOSE i \in failing : \A j \in failing : i <= j]
    BY <1>2 DEF FirstFailure
  <2> QED
    BY <2>3, <2>4
<1> QED
  BY <1>1, <1>2

\* A check that fails says so, for one of the reasons.
Tells(check, reasons) ==
    check.fails => check.gen # "Success" /\ check.ext \in reasons

LEMMA CheckTells == \A fails, ext, reasons : ext \in reasons => Tells(Check(fails, ext), reasons)
BY DEF Tells, Check

LEMMA PassedTells == \A reasons : Tells(Passed, reasons) /\ ~Passed.fails
BY DEF Tells, Passed

LEMMA FirstTells ==
    ASSUME NEW checks, NEW n \in Nat, DOMAIN checks = 1 .. n,
           NEW reasons, \A i \in 1 .. n : Tells(checks[i], reasons)
    PROVE  /\ Tells(FirstFailure(checks), reasons)
           /\ FirstFailure(checks).fails
                 => \E i \in 1 .. n : checks[i].fails /\ FirstFailure(checks) = checks[i]
           /\ ~FirstFailure(checks).fails
                 => FirstFailure(checks) = Passed /\ \A i \in 1 .. n : ~checks[i].fails
BY FirstFails, PassedTells

AllTell(checks, n, reasons) ==
    DOMAIN checks = 1 .. n /\ \A i \in 1 .. n : Tells(checks[i], reasons)
FirstSays(checks, n, reasons) ==
    /\ Tells(FirstFailure(checks), reasons)
    /\ ~FirstFailure(checks).fails
          => FirstFailure(checks) = Passed /\ \A i \in 1 .. n : ~checks[i].fails

LEMMA FirstSaysSo ==
    \A checks, reasons : \A n \in Nat :
        AllTell(checks, n, reasons) => FirstSays(checks, n, reasons)
BY FirstTells DEF AllTell, FirstSays

\* Everything but a wrong size.
OtherReasons ==
    {"Success", "ConnectionInUse", "ConnectionTimeoutMultiplierNotAcceptable",
     "InvalidOToTConnectionType", "InvalidTToOConnectionType", "TransportTriggerNotSupported",
     "RPINotSupported", "VendorIdOrProductcodeError", "DeviceTypeError", "RevisionMismatch",
     "InvalidSegmentTypeInPath", "InconsistentApplicationPathCombo",
     "InvalidConsumingApplicationPath", "InvalidProducingApplicationPath",
     "InvalidConfigurationApplicationPath", "PITGreaterThanRPI"}

LEMMA KeyTells == \A key : Tells(KeyCheck(key), OtherReasons)
<1> SUFFICES ASSUME NEW key PROVE Tells(KeyCheck(key), OtherReasons)
  OBVIOUS
<1> DEFINE compatible == key[4] >= 128
           major == key[4] % 128
           c1 == Check(~Matches(key[1], Device[1]) \/ ~Matches(key[3], Device[3]),
                       "VendorIdOrProductcodeError")
           c2 == Check(~Matches(key[2], Device[2]), "DeviceTypeError")
           c3 == Check(IF compatible THEN major # Device[4] \/ key[5] \notin 1 .. Device[5]
                       ELSE ~Matches(major, Device[4]) \/ ~Matches(key[5], Device[5]),
                       "RevisionMismatch")
<1>1. KeyCheck(key) = FirstFailure(<<c1, c2, c3>>)
  BY DEF KeyCheck
<1>2. /\ Tells(c1, OtherReasons) /\ Tells(c2, OtherReasons)
      /\ Tells(c3, OtherReasons)
  BY CheckTells DEF OtherReasons
<1> HIDE DEF c1, c2, c3
<1> DEFINE checks == <<c1, c2, c3>>
<1>3. DOMAIN checks = 1 .. 3 /\ checks[1] = c1 /\ checks[2] = c2 /\ checks[3] = c3
  OBVIOUS
<1> HIDE DEF checks
<1>4. \A i \in 1 .. 3 : Tells(checks[i], OtherReasons)
  BY <1>2, <1>3
<1>5. Tells(FirstFailure(checks), OtherReasons)
  <2>1. DOMAIN checks = 1 .. 3 /\ 3 \in Nat
    BY <1>3
  <2> QED
    BY ONLY <2>1, <1>4, FirstTells
<1> QED
  BY <1>1, <1>5 DEF checks

LEMMA PathTells ==
    ASSUME NEW p
    PROVE  /\ Tells(check_path(p), OtherReasons)
           /\ ~check_path(p).fails => IsSufficient(p) /\ InstanceOf(p) \in Instances
<1> DEFINE c1 == Check(~IsSufficient(p), "InvalidSegmentTypeInPath")
           c2 == Check(GetClass(p) \notin Classes,
                       IF GetClass(p) >= 200 THEN "InvalidSegmentTypeInPath"
                       ELSE "InconsistentApplicationPathCombo")
           c3 == Check(InstanceOf(p) \notin Instances, "InvalidSegmentTypeInPath")
<1>1. check_path(p) = FirstFailure(<<c1, c2, c3>>)
  BY DEF check_path
<1>2. /\ Tells(c1, OtherReasons) /\ Tells(c2, OtherReasons)
      /\ Tells(c3, OtherReasons)
  BY CheckTells DEF OtherReasons
<1>3. /\ ~c1.fails => IsSufficient(p)
      /\ ~c3.fails => InstanceOf(p) \in Instances
  BY DEF Check
<1> HIDE DEF c1, c2, c3
<1> DEFINE checks == <<c1, c2, c3>>
<1>4. DOMAIN checks = 1 .. 3 /\ checks[1] = c1 /\ checks[2] = c2 /\ checks[3] = c3
  OBVIOUS
<1>5. check_path(p) = FirstFailure(checks)
  BY <1>1
<1> HIDE DEF checks
<1>6. \A i \in 1 .. 3 : Tells(checks[i], OtherReasons)
  BY <1>2, <1>4
<1>7. /\ Tells(FirstFailure(checks), OtherReasons)
      /\ ~FirstFailure(checks).fails => \A i \in 1 .. 3 : ~checks[i].fails
  <2>1. DOMAIN checks = 1 .. 3 /\ 3 \in Nat
    BY <1>4
  <2> QED
    BY ONLY <2>1, <1>6, FirstTells
<1> QED
  BY <1>3, <1>4, <1>5, <1>7

LEMMA ResolveTells == ASSUME NEW d PROVE Tells(ResolveInstances(d), OtherReasons)
<1> DEFINE roles == d.roles
           Used(i) == i \in {roles.config, roles.consuming, roles.producing}
           Missing(i) == Used(i) /\ check_path(d.path.app_path[i]).fails
           PathError(i) == IF i = roles.consuming THEN "InvalidConsumingApplicationPath"
                           ELSE "InvalidProducingApplicationPath"
           Foreign(i) == i > 0 /\ GetClass(PathOf(d, i)) # kCipAssemblyClass
           io == d.trigger.class \in {0, 1}
           c1 == check_path(d.path.app_path[1])
           c2 == Check(roles = NoRoles, "InvalidSegmentTypeInPath")
           c3 == Check(Missing(2), PathError(2))
           c4 == Check(Missing(3), PathError(3))
           c5 == Check(d.trigger.class = 3
                       /\ InstanceOf(PathOf(d, roles.consuming)) # <<kCipMessageRouterClass, 1>>,
                       "InconsistentApplicationPathCombo")
           c6 == Check(io /\ Foreign(roles.config), "InvalidConfigurationApplicationPath")
           c7 == Check(io /\ Foreign(roles.consuming), "InvalidConsumingApplicationPath")
           c8 == Check(io /\ Foreign(roles.producing), "InvalidProducingApplicationPath")
           checks == <<c1, c2, c3, c4, c5, c6, c7, c8>>
<1>1. ResolveInstances(d) = FirstFailure(checks)
  BY DEF ResolveInstances
<1>2. /\ PathError(2) \in OtherReasons /\ PathError(3) \in OtherReasons
      /\ {"InvalidSegmentTypeInPath", "InconsistentApplicationPathCombo",
          "InvalidConfigurationApplicationPath", "InvalidConsumingApplicationPath",
          "InvalidProducingApplicationPath"} \subseteq OtherReasons
  BY DEF OtherReasons
<1> HIDE DEF Missing, PathError, Foreign, io
<1>3. /\ Tells(c1, OtherReasons) /\ Tells(c2, OtherReasons) /\ Tells(c3, OtherReasons)
      /\ Tells(c4, OtherReasons) /\ Tells(c5, OtherReasons) /\ Tells(c6, OtherReasons)
      /\ Tells(c7, OtherReasons) /\ Tells(c8, OtherReasons)
  BY <1>2, CheckTells, PathTells
<1> HIDE DEF c1, c2, c3, c4, c5, c6, c7, c8
<1>4. /\ DOMAIN checks = 1 .. 8 /\ checks[1] = c1 /\ checks[2] = c2 /\ checks[3] = c3
      /\ checks[4] = c4 /\ checks[5] = c5 /\ checks[6] = c6 /\ checks[7] = c7
      /\ checks[8] = c8
  OBVIOUS
<1> HIDE DEF checks
<1>5. \A i \in 1 .. 8 : Tells(checks[i], OtherReasons)
  <2> SUFFICES ASSUME NEW i \in 1 .. 8 PROVE Tells(checks[i], OtherReasons)
    OBVIOUS
  <2>1. i = 1 \/ i = 2 \/ i = 3 \/ i = 4 \/ i = 5 \/ i = 6 \/ i = 7 \/ i = 8
    OBVIOUS
  <2> QED
    BY <2>1, <1>3, <1>4
<1>6. Tells(FirstFailure(checks), OtherReasons)
  <2>1. DOMAIN checks = 1 .. 8 /\ 8 \in Nat
    BY <1>4
  <2> QED
    BY ONLY <2>1, <1>5, FirstTells
<1> QED
  BY <1>1, <1>6

\* ResolveInstances() lets pass what names the right instances.
LEMMA ResolvePasses ==
    ASSUME NEW d, ~ResolveInstances(d).fails
    PROVE  LET roles == d.roles
               used == {roles.config, roles.consuming, roles.producing}
           IN  /\ roles # NoRoles
               /\ ~check_path(d.path.app_path[1]).fails
               /\ \A i \in {2, 3} : i \in used => ~check_path(d.path.app_path[i]).fails
               /\ d.trigger.class \in {0, 1} =>
                     \A i \in used : i > 0 => GetClass(PathOf(d, i)) = kCipAssemblyClass
<1> DEFINE roles == d.roles
           Used(i) == i \in {roles.config, roles.consuming, roles.producing}
           Missing(i) == Used(i) /\ check_path(d.path.app_path[i]).fails
           PathError(i) == IF i = roles.consuming THEN "InvalidConsumingApplicationPath"
                           ELSE "InvalidProducingApplicationPath"
           Foreign(i) == i > 0 /\ GetClass(PathOf(d, i)) # kCipAssemblyClass
           io == d.trigger.class \in {0, 1}
           c1 == check_path(d.path.app_path[1])
           c2 == Check(roles = NoRoles, "InvalidSegmentTypeInPath")
           c3 == Check(Missing(2), PathError(2))
           c4 == Check(Missing(3), PathError(3))
           c5 == Check(d.trigger.class = 3
                       /\ InstanceOf(PathOf(d, roles.consuming)) # <<kCipMessageRouterClass, 1>>,
                       "InconsistentApplicationPathCombo")
           c6 == Check(io /\ Foreign(roles.config), "InvalidConfigurationApplicationPath")
           c7 == Check(io /\ Foreign(roles.consuming), "InvalidConsumingApplicationPath")
           c8 == Check(io /\ Foreign(roles.producing), "InvalidProducingApplicationPath")
           checks == <<c1, c2, c3, c4, c5, c6, c7, c8>>
<1>1. ResolveInstances(d) = FirstFailure(checks)
  BY DEF ResolveInstances
<1>2. /\ c2.fails <=> roles = NoRoles
      /\ c3.fails <=> Missing(2)
      /\ c4.fails <=> Missing(3)
      /\ c6.fails <=> io /\ Foreign(roles.config)
      /\ c7.fails <=> io /\ Foreign(roles.consuming)
      /\ c8.fails <=> io /\ Foreign(roles.producing)
  <2> HIDE DEF Missing, PathError, Foreign, io
  <2> QED
    BY DEF Check
<1> HIDE DEF c1, c2, c3, c4, c5, c6, c7, c8
<1>3. /\ DOMAIN checks = 1 .. 8 /\ checks[1] = c1 /\ checks[2] = c2 /\ checks[3] = c3
      /\ checks[4] = c4 /\ checks[6] = c6 /\ checks[7] = c7 /\ checks[8] = c8
  OBVIOUS
<1> HIDE DEF checks
<1>4. ~FirstFailure(checks).fails
  BY <1>1
<1>5. \A i \in 1 .. 8 : ~checks[i].fails
  BY <1>3, <1>4, FirstFails
<1>6. /\ ~c1.fails /\ roles # NoRoles /\ ~Missing(2) /\ ~Missing(3)
      /\ io => ~Foreign(roles.config) /\ ~Foreign(roles.consuming) /\ ~Foreign(roles.producing)
  <2> HIDE DEF Missing, Foreign, io
  <2> QED
    BY <1>2, <1>3, <1>5
<1> QED
  BY <1>6 DEF c1

WrongIn(d) == WrongSize(d, d.consuming, PathOf(d, d.roles.consuming), RunIdleConsumed)
WrongOut(d) == WrongSize(d, d.producing, PathOf(d, d.roles.producing), RunIdleProduced)

\* A size is a reason only when it is wrong.
Reasons(d) ==
    OtherReasons
    \cup (IF WrongIn(d) THEN {"InvalidOToTConnectionSize"} ELSE {})
    \cup (IF WrongOut(d) THEN {"InvalidTToOConnectionSize"} ELSE {})

LEMMA TellsMore ==
    ASSUME NEW check, NEW d, Tells(check, OtherReasons)
    PROVE  Tells(check, Reasons(d))
BY DEF Tells, Reasons

LEMMA SizesTell ==
    ASSUME NEW d
    PROVE  /\ Tells(CorrectSizes(d), Reasons(d))
           /\ ~CorrectSizes(d).fails => ~WrongIn(d) /\ ~WrongOut(d)
<1> DEFINE c1 == Check(WrongIn(d), "InvalidOToTConnectionSize")
           c2 == Check(WrongOut(d), "InvalidTToOConnectionSize")
           checks == <<c1, c2>>
<1>1. CorrectSizes(d) = FirstFailure(checks)
  BY DEF CorrectSizes, WrongIn, WrongOut
<1>2. /\ c1.fails <=> WrongIn(d)
      /\ c2.fails <=> WrongOut(d)
  BY DEF Check
<1>3. Tells(c1, Reasons(d)) /\ Tells(c2, Reasons(d))
  BY DEF Tells, Check, Reasons
<1> HIDE DEF c1, c2
<1>4. DOMAIN checks = 1 .. 2 /\ checks[1] = c1 /\ checks[2] = c2
  OBVIOUS
<1> HIDE DEF checks
<1>5. \A i \in 1 .. 2 : Tells(checks[i], Reasons(d))
  BY <1>3, <1>4
<1>6. /\ Tells(FirstFailure(checks), Reasons(d))
      /\ ~FirstFailure(checks).fails => \A i \in 1 .. 2 : ~checks[i].fails
  <2>1. DOMAIN checks = 1 .. 2 /\ 2 \in Nat
    BY <1>4
  <2> QED
    BY ONLY <2>1, <1>5, FirstTells
<1> QED
  BY <1>1, <1>2, <1>4, <1>6

LEMMA OpenTells ==
    ASSUME NEW d
    PROVE  /\ Tells(OpenConnection(d), Reasons(d))
           /\ ~OpenConnection(d).fails /\ ManagementClass(d) = kCipAssemblyClass
              => ~WrongIn(d) /\ ~WrongOut(d)
<1>1. CASE ManagementClass(d) = kCipAssemblyClass
  <2> DEFINE c1 == VerifyForwardOpenParams(d)
             c2 == CorrectSizes(d)
             checks == <<c1, c2>>
  <2>1. OpenConnection(d) = FirstFailure(checks)
    BY <1>1 DEF OpenConnection, kCipAssemblyClass, kCipMessageRouterClass
  <2>2. Tells(c1, OtherReasons)
    <3>1. "PITGreaterThanRPI" \in OtherReasons
      BY DEF OtherReasons
    <3> QED
      BY <3>1, CheckTells DEF VerifyForwardOpenParams
  <2>3. Tells(c1, Reasons(d)) /\ Tells(c2, Reasons(d))
    BY <2>2, TellsMore, SizesTell
  <2> HIDE DEF c1, c2
  <2>4. DOMAIN checks = 1 .. 2 /\ checks[1] = c1 /\ checks[2] = c2
    OBVIOUS
  <2> HIDE DEF checks
  <2>5. \A i \in 1 .. 2 : Tells(checks[i], Reasons(d))
    BY <2>3, <2>4
  <2>6. /\ Tells(FirstFailure(checks), Reasons(d))
        /\ ~FirstFailure(checks).fails => \A i \in 1 .. 2 : ~checks[i].fails
    <3>1. DOMAIN checks = 1 .. 2 /\ 2 \in Nat
      BY <2>4
    <3> QED
      BY ONLY <3>1, <2>5, FirstTells
  <2> QED
    BY <2>1, <2>4, <2>6, SizesTell DEF c2
<1>2. CASE ManagementClass(d) # kCipAssemblyClass
  <2>1. OpenConnection(d) = Passed
        \/ OpenConnection(d) = Check(TRUE, "InconsistentApplicationPathCombo")
    BY <1>2 DEF OpenConnection
  <2>2. Tells(OpenConnection(d), OtherReasons)
    <3>1. "InconsistentApplicationPathCombo" \in OtherReasons
      BY DEF OtherReasons
    <3> QED
      BY <2>1, <3>1, CheckTells, PassedTells
  <2> QED
    BY <1>2, <2>2, TellsMore
<1> QED
  BY <1>1, <1>2

LEMMA RejectedTells ==
    ASSUME NEW w, NEW d
    PROVE  /\ Tells(Rejected(w, d), Reasons(d))
           /\ ~Rejected(w, d).fails
                 => /\ Rejected(w, d) = Passed
                    /\ ~ResolveInstances(d).fails /\ ~OpenConnection(d).fails
<1> DEFINE c1 == Check(w.triad \in established, "ConnectionInUse")
           c2 == Check(w.multiplier > 7, "ConnectionTimeoutMultiplierNotAcceptable")
           c3 == Check(d.consuming.type = "Invalid", "InvalidOToTConnectionType")
           c4 == Check(d.producing.type = "Invalid", "InvalidTToOConnectionType")
           c5 == Check(w.trigger.class > 3 \/ w.trigger.type = "undocumented",
                       "TransportTriggerNotSupported")
           c6 == Check(RPINotSupported(w.o_t_rpi) \/ RPINotSupported(w.t_o_rpi),
                       "RPINotSupported")
           c7 == [Check(2 * w.words < Len(w.bytes), "Success") EXCEPT !.gen = "TooMuchData"]
           c8 == [Check(2 * w.words > Len(w.bytes), "Success") EXCEPT !.gen = "NotEnoughData"]
           c9 == Check(~d.parsed, "Success")
           c10 == IF d.path.group.key = <<>> THEN Passed ELSE KeyCheck(d.path.group.key)
           c11 == ResolveInstances(d)
           c12 == OpenConnection(d)
           checks == <<c1, c2, c3, c4, c5, c6, c7, c8, c9, c10, c11, c12>>
<1>1. Rejected(w, d) = FirstFailure(checks)
  BY DEF Rejected
<1>2. /\ Tells(c1, OtherReasons) /\ Tells(c2, OtherReasons) /\ Tells(c3, OtherReasons)
      /\ Tells(c4, OtherReasons) /\ Tells(c5, OtherReasons) /\ Tells(c6, OtherReasons)
      /\ Tells(c9, OtherReasons)
  BY CheckTells DEF OtherReasons
<1>3. Tells(c7, OtherReasons) /\ Tells(c8, OtherReasons)
  BY DEF Tells, Check, OtherReasons
<1>4. Tells(c10, OtherReasons)
  BY PassedTells, KeyTells
<1>5. Tells(c11, OtherReasons) /\ Tells(c12, Reasons(d))
  BY ResolveTells, OpenTells
<1> HIDE DEF c1, c2, c3, c4, c5, c6, c7, c8, c9, c10, c11, c12
<1>6. /\ DOMAIN checks = 1 .. 12 /\ checks[1] = c1 /\ checks[2] = c2 /\ checks[3] = c3
      /\ checks[4] = c4 /\ checks[5] = c5 /\ checks[6] = c6 /\ checks[7] = c7
      /\ checks[8] = c8 /\ checks[9] = c9 /\ checks[10] = c10 /\ checks[11] = c11
      /\ checks[12] = c12
  OBVIOUS
<1> HIDE DEF checks
<1>7. \A i \in 1 .. 12 : Tells(checks[i], Reasons(d))
  <2> SUFFICES ASSUME NEW i \in 1 .. 12 PROVE Tells(checks[i], Reasons(d))
    OBVIOUS
  <2>1. \/ i = 1 \/ i = 2 \/ i = 3 \/ i = 4 \/ i = 5 \/ i = 6 \/ i = 7 \/ i = 8
        \/ i = 9 \/ i = 10 \/ i = 11 \/ i = 12
    OBVIOUS
  <2>2. CASE i = 12
    BY <2>2, <1>5, <1>6
  <2>3. CASE i # 12
    <3>1. Tells(checks[i], OtherReasons)
      BY <2>1, <2>3, <1>2, <1>3, <1>4, <1>5, <1>6
    <3> QED
      BY <3>1, TellsMore
  <2> QED
    BY <2>2, <2>3
<1>8. /\ Tells(FirstFailure(checks), Reasons(d))
      /\ ~FirstFailure(checks).fails
            => FirstFailure(checks) = Passed /\ \A i \in 1 .. 12 : ~checks[i].fails
  <2>1. AllTell(checks, 12, Reasons(d))
    BY <1>6, <1>7 DEF AllTell
  <2>2. FirstSays(checks, 12, Reasons(d))
    BY ONLY <2>1, FirstSaysSo
  <2> QED
    BY <2>2 DEF FirstSays
<1> QED
  BY <1>1, <1>6, <1>8 DEF c11, c12

-----------------------------------------------------------------------------
(* Steps.                                                                    *)

\* The sizes that fit the instances which a request names.
WantedIn(r) ==
    CorrectedSize(ReadOf(r), PathOf(ReadOf(r), ReadOf(r).roles.consuming), RunIdleConsumed)
WantedOut(r) ==
    CorrectedSize(ReadOf(r), PathOf(ReadOf(r), ReadOf(r).roles.producing), RunIdleProduced)

\* What the answer to a request says of it.
AnswerFits ==
    /\ read = ReadOf(request)
    /\ answer.ext \notin corrected
    /\ answer.ext = "InvalidOToTConnectionSize" => answer.corrected = WantedIn(request)
    /\ answer.ext = "InvalidTToOConnectionSize" => answer.corrected = WantedOut(request)
    /\ answer.gen = "Success" => /\ request.triad \in established
                                 /\ ~ResolveInstances(read).fails
                                 /\ ~OpenConnection(read).fails

\* A size that has been corrected is the right one from then on, for nothing
\* that it depends on changes when the other one is.
FInv ==
    /\ request # None => RequestOK(request)
    /\ request = None => answer = None /\ read = None
    /\ read # None => read.path = Parsed(request).path
    /\ corrected \subseteq {"InvalidOToTConnectionSize", "InvalidTToOConnectionSize"}
    /\ "InvalidOToTConnectionSize" \in corrected => request.producing.size = WantedIn(request)
    /\ "InvalidTToOConnectionSize" \in corrected => request.consuming.size = WantedOut(request)
    /\ answer # None => AnswerFits

LEMMA SizeType == \A p : SizeBytes(p) \in 0 .. 2^16 - 7
BY AssemblyAssumption DEF SizeBytes

LEMMA WantedType ==
    ASSUME NEW d, NEW p, NEW runidle \in BOOLEAN
    PROVE  CorrectedSize(d, p, runidle) \in Nat /\ CorrectedSize(d, p, runidle) < 65536
<1> DEFINE size == SizeBytes(p)
<1>1. size \in Nat /\ size <= 65529
  <2>1. size \in 0 .. 2^16 - 7
    BY SizeType
  <2>2. 2^16 - 7 = 65529
    OBVIOUS
  <2> HIDE DEF size
  <2> QED
    BY <2>1, <2>2
<1>2. Overhead(d, runidle, size) \in 0 .. 6
  BY DEF Overhead
<1> HIDE DEF size
<1>3. CorrectedSize(d, p, runidle) = size + Overhead(d, runidle, size)
  BY DEF CorrectedSize, size
<1> QED
  BY <1>1, <1>2, <1>3

\* The size that fits is not wrong.
LEMMA WantedNotWrong ==
    ASSUME NEW d, NEW end, NEW p, NEW runidle \in BOOLEAN,
           end.size = CorrectedSize(d, p, runidle)
    PROVE  ~WrongSize(d, end, p, runidle)
<1> DEFINE attr == SizeBytes(p)
           diff == Overhead(d, runidle, attr)
<1>1. attr \in Nat
  BY SizeType
<1>2. diff \in 0 .. 6
  BY DEF Overhead
<1>3. end.size = attr + diff
  BY DEF CorrectedSize
<1>4. ~WrongSize(d, end, p, runidle)
         <=> ~(NotNull(end) /\ (\/ end.size < diff
                                \/ end.fixed /\ end.size - diff # attr
                                \/ end.size - diff > attr))
  BY DEF WrongSize
<1> HIDE DEF attr, diff
<1> QED
  BY <1>1, <1>2, <1>3, <1>4

\* What is wanted is found in the path, the connection types and the class.
LEMMA WantedFrom ==
    ASSUME NEW r, RequestOK(r), NEW s, RequestOK(s),
           s.path = r.path, s.compressed = r.compressed, s.cut = r.cut,
           s.trigger = r.trigger,
           s.producing.type = r.producing.type, s.consuming.type = r.consuming.type
    PROVE  /\ Parsed(s) = Parsed(r)
           /\ WantedIn(s) = WantedIn(r) /\ WantedOut(s) = WantedOut(r)
<1> DEFINE a == ReadOf(r)
           b == ReadOf(s)
<1>1. Parsed(s) = Parsed(r)
  BY DEF Parsed, Serialize
<1>2. /\ NotNull(s.producing) = NotNull(r.producing)
      /\ NotNull(s.consuming) = NotNull(r.consuming)
  BY DEF NotNull
<1>3. b.path = a.path /\ b.trigger = a.trigger /\ b.roles = a.roles
  BY <1>1, <1>2, Arrives
<1> HIDE DEF a, b
<1>4. \A i : PathOf(b, i) = PathOf(a, i)
  BY <1>3 DEF PathOf
<1>5. \A p, runidle : CorrectedSize(b, p, runidle) = CorrectedSize(a, p, runidle)
  BY <1>3 DEF CorrectedSize, Overhead
<1> QED
  BY <1>1, <1>3, <1>4, <1>5 DEF WantedIn, WantedOut, a, b

LEMMA OpenFInv ==
    ASSUME FInv, NEW granted \in BOOLEAN, forward_open(granted)
    PROVE  FInv'
<1> DEFINE w == Serialize(request)
           d == ReadOf(request)
           check == Rejected(w, d)
<1>1. Respond(w, d, check, granted)
  BY DEF forward_open, ReadOf, Parsed
<1>2. /\ request # None /\ answer = None /\ RequestOK(request)
      /\ request' = request /\ corrected' = corrected /\ read' = d
  BY <1>1 DEF forward_open, Respond, FInv
<1>3. d.path = Parsed(request).path /\ w.triad = request.triad
  BY <1>2, Arrives DEF Serialize
<1>4. /\ Tells(check, Reasons(d))
      /\ ~check.fails => check = Passed /\ ~ResolveInstances(d).fails /\ ~OpenConnection(d).fails
  BY RejectedTells
<1>5. /\ "InvalidOToTConnectionSize" \in corrected => ~WrongIn(d)
      /\ "InvalidTToOConnectionSize" \in corrected => ~WrongOut(d)
  <2>1. d.consuming.size = request.producing.size /\ d.producing.size = request.consuming.size
    BY <1>2, Arrives DEF EndRead
  <2>2. ASSUME "InvalidOToTConnectionSize" \in corrected PROVE ~WrongIn(d)
    BY <2>1, <2>2, WantedNotWrong, RunIdleAssumption DEF FInv, WantedIn, WrongIn
  <2>3. ASSUME "InvalidTToOConnectionSize" \in corrected PROVE ~WrongOut(d)
    BY <2>1, <2>3, WantedNotWrong, RunIdleAssumption DEF FInv, WantedOut, WrongOut
  <2> QED
    BY <2>2, <2>3
<1> HIDE DEF w, d, check
<1>6. check.fails => check.gen # "Success" /\ check.ext \notin corrected
  <2> SUFFICES ASSUME check.fails PROVE check.gen # "Success" /\ check.ext \notin corrected
    OBVIOUS
  <2>1. check.gen # "Success" /\ check.ext \in Reasons(d)
    BY <1>4 DEF Tells
  <2>2. CASE check.ext \in OtherReasons
    <3>1. /\ "InvalidOToTConnectionSize" \notin OtherReasons
          /\ "InvalidTToOConnectionSize" \notin OtherReasons
      BY DEF OtherReasons
    <3> QED
      BY <2>1, <2>2, <3>1 DEF FInv
  <2>3. CASE check.ext \notin OtherReasons
    BY <1>5, <2>1, <2>3 DEF Reasons
  <2> QED
    BY <2>2, <2>3
<1>7. /\ answer' = IF check.fails \/ granted THEN Answer(check, d)
                   ELSE [gen |-> "ConnectionFailure", ext |-> "other", corrected |-> 0]
      /\ established' = IF check.fails \/ ~granted THEN established
                        ELSE established \cup {w.triad}
  BY <1>1 DEF Respond
<1>8. AnswerFits'
  <2>1. read' = ReadOf(request')
    BY <1>2 DEF d
  <2>2. answer'.ext \notin corrected'
    BY <1>2, <1>4, <1>6, <1>7 DEF Answer, Passed, FInv
  <2>3. /\ answer'.ext = "InvalidOToTConnectionSize" => answer'.corrected = WantedIn(request')
        /\ answer'.ext = "InvalidTToOConnectionSize" => answer'.corrected = WantedOut(request')
    BY <1>2, <1>7 DEF Answer, WantedIn, WantedOut, d
  <2>4. answer'.gen = "Success" => ~check.fails /\ granted
    BY <1>6, <1>7 DEF Answer
  <2>5. answer'.gen = "Success" => /\ request'.triad \in established'
                                   /\ ~ResolveInstances(read').fails
                                   /\ ~OpenConnection(read').fails
    BY <1>2, <1>3, <1>4, <1>7, <2>4
  <2> QED
    BY <2>1, <2>2, <2>3, <2>5 DEF AnswerFits
<1> QED
  BY <1>2, <1>3, <1>8 DEF FInv

LEMMA RetryFInv == ASSUME FInv, Retry PROVE FInv'
<1> DEFINE large == request.large \/ answer.corrected >= SizeSpan(FALSE)
           in == [request EXCEPT !.producing.size = answer.corrected, !.large = large]
           out == [request EXCEPT !.consuming.size = answer.corrected, !.large = large]
<1>1. /\ answer # None /\ answer' = None /\ read' = read
      /\ corrected' = corrected \cup {answer.ext}
      /\ \/ answer.ext = "InvalidOToTConnectionSize" /\ request' = in
         \/ answer.ext = "InvalidTToOConnectionSize" /\ request' = out
  BY DEF Retry
<1>2. /\ request # None /\ RequestOK(request) /\ request \in Composed
      /\ AnswerFits /\ answer.ext \notin corrected
  BY <1>1 DEF FInv, AnswerFits, RequestOK
<1>3. request'.large = large
  BY <1>1, <1>2 DEF Composed
<1>4. /\ answer.corrected \in Nat /\ answer.corrected < SizeSpan(large)
      /\ request.producing.size < SizeSpan(large) /\ request.consuming.size < SizeSpan(large)
      /\ large \in BOOLEAN
  <2>1. answer.corrected \in Nat /\ answer.corrected < 65536
    BY <1>1, <1>2, WantedType, RunIdleAssumption DEF AnswerFits, WantedIn, WantedOut
  <2>2. /\ request.producing.size \in Nat /\ request.producing.size < SizeSpan(request.large)
        /\ request.consuming.size \in Nat /\ request.consuming.size < SizeSpan(request.large)
        /\ request.large \in BOOLEAN
    BY <1>2 DEF RequestOK, Composed, Ends
  <2>3. SizeSpan(TRUE) = 65536 /\ SizeSpan(FALSE) = 512
    BY DEF SizeSpan
  <2>4. CASE large
    BY <2>1, <2>2, <2>3, <2>4 DEF SizeSpan
  <2>5. CASE ~large
    BY <2>1, <2>2, <2>3, <2>5 DEF SizeSpan
  <2> QED
    BY <2>4, <2>5
<1> HIDE DEF large
<1>5. /\ RequestOK(request')
      /\ request'.path = request.path /\ request'.compressed = request.compressed
      /\ request'.cut = request.cut /\ request'.trigger = request.trigger
      /\ request'.producing.type = request.producing.type
      /\ request'.consuming.type = request.consuming.type
  <2>1. CASE answer.ext = "InvalidOToTConnectionSize" /\ request' = in
    <3>1. /\ in.producing = [request.producing EXCEPT !.size = answer.corrected]
          /\ in.consuming = request.consuming /\ in.large = large
          /\ in.path = request.path /\ in.compressed = request.compressed
          /\ in.cut = request.cut /\ in.trigger = request.trigger
          /\ in.triad = request.triad /\ in.multiplier = request.multiplier
      BY <1>2 DEF Composed
    <3>2. in \in Composed
      BY <1>2, <1>4 DEF Composed, Ends
    <3>3. in.producing.size = answer.corrected /\ in.producing.type = request.producing.type
      BY <1>2, <3>1 DEF Composed, Ends
    <3> HIDE DEF in
    <3> QED
      BY <1>2, <1>4, <2>1, <3>1, <3>2, <3>3 DEF RequestOK
  <2>2. CASE answer.ext = "InvalidTToOConnectionSize" /\ request' = out
    <3>1. /\ out.consuming = [request.consuming EXCEPT !.size = answer.corrected]
          /\ out.producing = request.producing /\ out.large = large
          /\ out.path = request.path /\ out.compressed = request.compressed
          /\ out.cut = request.cut /\ out.trigger = request.trigger
          /\ out.triad = request.triad /\ out.multiplier = request.multiplier
      BY <1>2 DEF Composed
    <3>2. out \in Composed
      BY <1>2, <1>4 DEF Composed, Ends
    <3>3. out.consuming.size = answer.corrected /\ out.consuming.type = request.consuming.type
      BY <1>2, <3>1 DEF Composed, Ends
    <3> HIDE DEF out
    <3> QED
      BY <1>2, <1>4, <2>2, <3>1, <3>2, <3>3 DEF RequestOK
  <2> QED
    BY <1>1, <2>1, <2>2
<1>6. /\ Parsed(request') = Parsed(request)
      /\ WantedIn(request') = WantedIn(request) /\ WantedOut(request') = WantedOut(request)
  BY <1>2, <1>5, WantedFrom
<1>7. CASE answer.ext = "InvalidOToTConnectionSize" /\ request' = in
  <2>1. /\ request'.producing.size = answer.corrected
        /\ request'.consuming = request.consuming
    BY <1>2, <1>7 DEF Composed, Ends
  <2>2. request'.producing.size = WantedIn(request')
    BY <1>2, <1>6, <1>7, <2>1 DEF AnswerFits
  <2>3. "InvalidTToOConnectionSize" \in corrected'
           => request'.consuming.size = WantedOut(request')
    BY <1>1, <1>6, <1>7, <2>1 DEF FInv
  <2> QED
    BY <1>1, <1>2, <1>5, <1>6, <1>7, <2>2, <2>3, RequestAssumption DEF FInv, RequestOK
<1>8. CASE answer.ext = "InvalidTToOConnectionSize" /\ request' = out
  <2>1. /\ request'.consuming.size = answer.corrected
        /\ request'.producing = request.producing
    BY <1>2, <1>8 DEF Composed, Ends
  <2>2. request'.consuming.size = WantedOut(request')
    BY <1>2, <1>6, <1>8, <2>1 DEF AnswerFits
  <2>3. "InvalidOToTConnectionSize" \in corrected'
           => request'.producing.size = WantedIn(request')
    BY <1>1, <1>6, <1>8, <2>1 DEF FInv
  <2> QED
    BY <1>1, <1>2, <1>5, <1>6, <1>8, <2>2, <2>3, RequestAssumption DEF FInv, RequestOK
<1> QED
  BY <1>1, <1>7, <1>8

LEMMA FInvInvariant == Spec => []FInv
<1>1. Init => FInv
  BY DEF Init, FInv
<1>2. FInv /\ [Next]_vars => FInv'
  <2> SUFFICES ASSUME FInv, [Next]_vars PROVE FInv'
    OBVIOUS
  <2>1. ASSUME NEW r \in Requests, Compose(r) PROVE FInv'
    BY <2>1, RequestAssumption DEF Compose, FInv
  <2>2. CASE Finish
    BY <2>2 DEF Finish, FInv
  <2>3. ASSUME NEW c, NEW cut, forward_close(c, cut) PROVE FInv'
    BY <2>3 DEF forward_close, FInv
  <2>4. CASE UNCHANGED vars
    BY <2>4 DEF vars, FInv, AnswerFits
  <2> QED
    BY <2>1, <2>2, <2>3, <2>4, OpenFInv, RetryFInv DEF Next
<1> QED
  BY <1>1, <1>2, PTL DEF Spec

\* An originator that asks for the size it was told is not told another one for
\* that direction, whatever it is told of the other.
THEOREM CorrectionsAccepted == Spec => []CorrectionAccepted
<1>1. FInv => CorrectionAccepted
  BY DEF FInv, AnswerFits, CorrectionAccepted
<1> QED
  BY <1>1, FInvInvariant, PTL

\* The first segment of what is read is in front of the rest of it.
LEMMA Front ==
    ASSUME NEW w \in Seq(Nat), NEW rest \in Seq(Nat)
    PROVE  /\ w \o rest \in Seq(Nat) /\ Len(w \o rest) = Len(w) + Len(rest)
           /\ Len(w) \in Nat /\ Len(rest) \in Nat
           /\ \A i \in 1 .. Len(w) : (w \o rest)[i] = w[i]
           /\ Past(w \o rest, Len(w)) = rest
<1>1. Past(w \o rest, Len(w)) = rest
  BY DEF Past
<1> QED
  BY <1>1

LEMMA FrontTwo ==
    ASSUME NEW w \in Seq(Nat), NEW rest \in Seq(Nat), Len(w) = 2
    PROVE  LET in == w \o rest
           IN  /\ in \in Seq(Nat) /\ Len(in) = 2 + Len(rest) /\ Len(rest) \in Nat
               /\ in[1] = w[1] /\ in[2] = w[2] /\ Past(in, 2) = rest
<1> DEFINE in == w \o rest
<1>1. 1 \in 1 .. Len(w) /\ 2 \in 1 .. Len(w)
  OBVIOUS
<1>2. /\ in \in Seq(Nat) /\ Len(in) = Len(w) + Len(rest) /\ Len(rest) \in Nat
      /\ \A i \in 1 .. Len(w) : in[i] = w[i]
      /\ Past(in, Len(w)) = rest
  BY Front
<1> HIDE DEF in
<1>3. Len(in) = 2 + Len(rest) /\ in[1] = w[1] /\ in[2] = w[2] /\ Past(in, 2) = rest
  BY <1>1, <1>2
<1> QED
  BY <1>2, <1>3 DEF in

LEMMA FrontFour ==
    ASSUME NEW w \in Seq(Nat), NEW rest \in Seq(Nat), Len(w) = 4
    PROVE  LET in == w \o rest
           IN  /\ in \in Seq(Nat) /\ Len(in) = 4 + Len(rest) /\ Len(rest) \in Nat
               /\ in[1] = w[1] /\ in[3] = w[3] /\ in[4] = w[4] /\ Past(in, 4) = rest
<1> DEFINE in == w \o rest
<1>1. 1 \in 1 .. Len(w) /\ 3 \in 1 .. Len(w) /\ 4 \in 1 .. Len(w)
  OBVIOUS
<1>2. /\ in \in Seq(Nat) /\ Len(in) = Len(w) + Len(rest) /\ Len(rest) \in Nat
      /\ \A i \in 1 .. Len(w) : in[i] = w[i]
      /\ Past(in, Len(w)) = rest
  BY Front
<1> HIDE DEF in
<1>3. /\ Len(in) = 4 + Len(rest) /\ in[1] = w[1] /\ in[3] = w[3] /\ in[4] = w[4]
      /\ Past(in, 4) = rest
  BY <1>1, <1>2
<1> QED
  BY <1>2, <1>3 DEF in

\* What segment something begins with.
Lead(in) == IF in = <<>> THEN Absent ELSE in[1] - (in[1] % 4)

Codes == {Code[f] : f \in Levels} \cup {MemberId}

LEMMA CodesAre ==
    /\ Codes = {32, 36, 40, 44, 48}
    /\ Code[CLASS] = 32 /\ Code[INSTANCE_ID] = 36 /\ Code[CONN_PT] = 44 /\ Code[ATTRIBUTE] = 48
<1>1. Levels = {0, 1, 2, 3}
  BY DEF Levels
<1>2. Code[3] = 32 /\ Code[2] = 36 /\ Code[1] = 44 /\ Code[0] = 48
  BY <1>1 DEF Code, CLASS, INSTANCE_ID, CONN_PT
<1> QED
  BY <1>1, <1>2 DEF Codes, CLASS, INSTANCE_ID, CONN_PT, ATTRIBUTE, MemberId

LEMMA LeadBegins ==
    ASSUME NEW in \in Seq(Nat), NEW c \in Codes
    PROVE  Begins(in, c) <=> Lead(in) = c
<1>1. c \in Nat /\ c # Absent
  BY CodesAre DEF Absent
<1> QED
  BY <1>1 DEF Begins, Lead, Absent

LEMMA Le16Is ==
    ASSUME NEW v \in Nat, v < 65536
    PROVE  /\ Le16(v) = <<v % 256, v \div 256>> /\ v % 256 \in Nat /\ v \div 256 \in Nat
           /\ (v % 256) + 256 * (v \div 256) = v
<1> DEFINE q == v \div 256
           m == v % 256
<1>1. q \in Nat /\ q < 256 /\ m \in Nat /\ v = 256 * q + m
  OBVIOUS
<1> HIDE DEF q, m
<1>2. q % 256 = q
  BY <1>1
<1> QED
  BY <1>1, <1>2 DEF Le16, q, m

LEMMA CodesEven == \A c \in Codes : c \in Nat /\ c > 0 /\ c % 4 = 0 /\ (c + 1) % 4 = 1
<1> SUFFICES ASSUME NEW c \in Codes
             PROVE  c \in Nat /\ c > 0 /\ c % 4 = 0 /\ (c + 1) % 4 = 1
  OBVIOUS
<1>1. c = 32 \/ c = 36 \/ c = 40 \/ c = 44 \/ c = 48
  BY CodesAre
<1>2. CASE c = 32
  BY <1>2
<1>3. CASE c = 36
  BY <1>3
<1>4. CASE c = 40
  BY <1>4
<1>5. CASE c = 44
  BY <1>5
<1>6. CASE c = 48
  BY <1>6
<1> QED
  BY <1>1, <1>2, <1>3, <1>4, <1>5, <1>6

\* By what the format is, which the provers would not carry into the cases.
LEMMA FormatRead ==
    ASSUME NEW in, NEW format, in[1] % 4 = format, format # 3,
           ~(Len(in) < Skipped(format) + Width(format))
    PROVE  LET at == Skipped(format) + 1
           IN  deserialize_logical(in) =
                  [bad |-> FALSE, size |-> Skipped(format) + Width(format),
                   value |-> IF format = 0 THEN in[at]
                             ELSE IF format = 1 THEN Number16(in, at) ELSE Number32(in, at)]
<1> DEFINE at == Skipped(format) + 1
           V == CASE format = 0 -> in[at] [] format = 1 -> Number16(in, at)
                  [] OTHER -> Number32(in, at)
<1>1. V = IF format = 0 THEN in[at]
          ELSE IF format = 1 THEN Number16(in, at) ELSE Number32(in, at)
  <2> HIDE DEF at
  <2> QED
    OBVIOUS
<1>2. deserialize_logical(in) =
         IF format = 3 \/ Len(in) < Skipped(format) + Width(format) THEN [bad |-> TRUE]
         ELSE [bad |-> FALSE, size |-> Skipped(format) + Width(format), value |-> V]
  BY Zenon DEF deserialize_logical
<1> HIDE DEF V
<1> QED
  BY <1>1, <1>2

\* A logical segment with an id of up to 16 bits.
LEMMA SegmentRead ==
    ASSUME NEW code \in Codes, NEW v \in Nat, v < 65536, NEW rest \in Seq(Nat)
    PROVE  LET w == serialize_logical(code, v)
               got == deserialize_logical(w \o rest)
           IN  /\ w \in Seq(Nat) /\ w # <<>> /\ w \o rest \in Seq(Nat)
               /\ Lead(w \o rest) = code
               /\ ~got.bad /\ got.value = v
               /\ Past(w \o rest, got.size) = rest
<1> DEFINE w == serialize_logical(code, v)
           in == w \o rest
<1>0. code \in Nat /\ code > 0 /\ code % 4 = 0 /\ (code + 1) % 4 = 1
  BY CodesEven
<1>1. CASE v < 256
  <2>1. w = <<code, v>>
    BY <1>1 DEF serialize_logical
  <2>2. w \in Seq(Nat) /\ w # <<>> /\ Len(w) = 2 /\ w[1] = code /\ w[2] = v
    BY <1>0, <2>1
  <2> HIDE DEF w
  <2>3. /\ in \in Seq(Nat) /\ Len(in) = 2 + Len(rest) /\ in[1] = code /\ in[2] = v
        /\ Past(in, 2) = rest /\ Len(rest) \in Nat
    BY <2>2, FrontTwo
  <2> HIDE DEF in
  <2>4. in[1] % 4 = 0 /\ in # <<>>
    BY <1>0, <2>3
  <2>5. Skipped(0) = 1 /\ Width(0) = 1
    BY DEF Skipped, Width
  <2>6. deserialize_logical(in) = [bad |-> FALSE, size |-> 2, value |-> v]
    <3>1. ~(Len(in) < Skipped(0) + Width(0)) /\ in[Skipped(0) + 1] = v /\ Skipped(0) + Width(0) = 2
      BY <2>3, <2>5
    <3>2. in[1] % 4 # 3
      BY <2>4
    <3> QED
      BY <2>4, <3>1, <3>2, FormatRead
  <2>7. Lead(in) = code
    BY <1>0, <2>3, <2>4 DEF Lead
  <2> QED
    BY <2>2, <2>3, <2>6, <2>7 DEF w, in
<1>2. CASE ~(v < 256)
  <2> DEFINE low == v % 256
             high == v \div 256
  <2>1. Le16(v) = <<low, high>> /\ low \in Nat /\ high \in Nat /\ low + 256 * high = v
    BY Le16Is
  <2>2. w = <<code + 1, 0>> \o Le16(v)
    BY <1>2 DEF serialize_logical
  <2> HIDE DEF low, high
  <2>3. w \in Seq(Nat) /\ w # <<>> /\ Len(w) = 4 /\ w[1] = code + 1 /\ w[3] = low /\ w[4] = high
    BY <1>0, <2>1, <2>2
  <2> HIDE DEF w
  <2>4. /\ in \in Seq(Nat) /\ Len(in) = 4 + Len(rest) /\ in[1] = code + 1 /\ in[3] = low
        /\ in[4] = high /\ Past(in, 4) = rest /\ Len(rest) \in Nat
    BY <2>3, FrontFour
  <2> HIDE DEF in
  <2>5. in[1] % 4 = 1 /\ in # <<>>
    BY <1>0, <2>4
  <2>6. Skipped(1) = 2 /\ Width(1) = 2
    BY DEF Skipped, Width
  <2>7. Number16(in, 3) = v
    BY <2>1, <2>4 DEF Number16
  <2>8. deserialize_logical(in) = [bad |-> FALSE, size |-> 4, value |-> v]
    <3>1. ~(Len(in) < Skipped(1) + Width(1)) /\ Skipped(1) + 1 = 3 /\ Skipped(1) + Width(1) = 4
      BY <2>4, <2>6
    <3>2. in[1] % 4 # 3 /\ in[1] % 4 # 0
      BY <2>5
    <3> QED
      BY <2>5, <2>7, <3>1, <3>2, FormatRead
  <2>9. Lead(in) = code
    BY <1>0, <2>4, <2>5 DEF Lead
  <2> QED
    BY <2>3, <2>4, <2>8, <2>9 DEF w, in
<1> QED
  BY <1>1, <1>2

-----------------------------------------------------------------------------
(* One application path.                                                     *)

Stuffs == [Levels -> Nat \cup {Absent}]

\* A reader that has got as far as in.
Reading(stuff, tag, members, in, last) ==
    [bad |-> FALSE, in |-> in, last |-> last,
     path |-> [stuff |-> stuff, tag |-> tag, members |-> members]]

LEMMA LevelIs ==
    ASSUME NEW st, NEW f, ~st.bad, Begins(st.in, Code[f]), ~Boundary(st, f),
           NEW got, got = deserialize_logical(st.in), ~got.bad
    PROVE  ReadLevel(st, f)
              = [bad |-> FALSE, in |-> Past(st.in, got.size), last |-> f,
                 path |-> [st.path EXCEPT !.stuff = [@ EXCEPT ![f] = got.value]]]
BY DEF ReadLevel

LEMMA StuffSet ==
    ASSUME NEW stuff, NEW tag, NEW members, NEW f, NEW v
    PROVE  [[stuff |-> stuff, tag |-> tag, members |-> members]
               EXCEPT !.stuff = [@ EXCEPT ![f] = v]]
              = [stuff |-> [stuff EXCEPT ![f] = v], tag |-> tag, members |-> members]
<1> DEFINE P == [stuff |-> stuff, tag |-> tag, members |-> members]
           s2 == [stuff EXCEPT ![f] = v]
<1>1. P.stuff = stuff
  OBVIOUS
<1>2. [P.stuff EXCEPT ![f] = v] = s2
  BY <1>1
<1> HIDE DEF s2
<1>3. [P EXCEPT !.stuff = s2] = [stuff |-> s2, tag |-> tag, members |-> members]
  OBVIOUS
<1>4. [P EXCEPT !.stuff = [@ EXCEPT ![f] = v]] = [P EXCEPT !.stuff = s2]
  <2> HIDE DEF P
  <2> QED
    BY <1>2
<1> QED
  BY <1>3, <1>4 DEF s2

\* in begins with the level f, which is v; rest comes after that.
LevelAhead(f, v, rest, st) ==
    /\ f \in Levels /\ v \in Nat /\ v < 65536 /\ rest \in Seq(Nat)
    /\ st.in = serialize_logical(Code[f], v) \o rest
    /\ ~Boundary(st, f)

LEMMA LevelRead ==
    \A f, v, rest, in, stuff, tag, members, last :
        LevelAhead(f, v, rest, Reading(stuff, tag, members, in, last))
        => ReadLevel(Reading(stuff, tag, members, in, last), f)
              = Reading([stuff EXCEPT ![f] = v], tag, members, rest, f)
<1> SUFFICES ASSUME NEW f, NEW v, NEW rest, NEW in, NEW stuff, NEW tag, NEW members, NEW last,
                    LevelAhead(f, v, rest, Reading(stuff, tag, members, in, last))
             PROVE  ReadLevel(Reading(stuff, tag, members, in, last), f)
                       = Reading([stuff EXCEPT ![f] = v], tag, members, rest, f)
  OBVIOUS
<1> DEFINE c == Code[f]
           got == deserialize_logical(in)
           st == Reading(stuff, tag, members, in, last)
           P == [stuff |-> stuff, tag |-> tag, members |-> members]
           Q == [P EXCEPT !.stuff = [@ EXCEPT ![f] = v]]
<1>3. st.bad = FALSE /\ st.in = in /\ st.path = P
  BY DEF Reading
<1>0. in = serialize_logical(c, v) \o rest
  BY <1>3 DEF LevelAhead
<1>1. c \in Codes /\ f \in Levels /\ v \in Nat /\ v < 65536 /\ rest \in Seq(Nat)
  BY DEF Codes, LevelAhead
<1>2. ~Boundary(st, f)
  BY DEF LevelAhead
<1>4. Q = [stuff |-> [stuff EXCEPT ![f] = v], tag |-> tag, members |-> members]
  BY StuffSet
<1> HIDE DEF c
<1>5. in \in Seq(Nat) /\ Lead(in) = c /\ ~got.bad /\ got.value = v /\ Past(in, got.size) = rest
  <2>1. LET w == serialize_logical(c, v)
            g == deserialize_logical(w \o rest)
        IN  /\ w \o rest \in Seq(Nat) /\ Lead(w \o rest) = c
            /\ ~g.bad /\ g.value = v /\ Past(w \o rest, g.size) = rest
    BY <1>1, SegmentRead
  <2> QED
    BY <1>0, <2>1
<1>6. Begins(in, c)
  BY <1>1, <1>5, LeadBegins
<1> HIDE DEF st, P
<1>7. got = deserialize_logical(st.in)
  BY <1>3
<1> HIDE DEF got
<1>8. ReadLevel(st, f) = [bad |-> FALSE, in |-> rest, last |-> f, path |-> Q]
  BY <1>2, <1>3, <1>5, <1>6, <1>7, LevelIs DEF c
<1> DEFINE s2 == [stuff EXCEPT ![f] = v]
<1>9. Q = [stuff |-> s2, tag |-> tag, members |-> members]
  BY <1>4
<1> HIDE DEF Q, s2
<1>10. ReadLevel(st, f) = Reading(s2, tag, members, rest, f)
  BY <1>8, <1>9 DEF Reading
<1> QED
  BY <1>10 DEF st, s2

LEMMA LevelPassed ==
    ASSUME NEW f \in Levels, NEW in \in Seq(Nat), NEW stuff, NEW tag, NEW members, NEW last,
           Lead(in) # Code[f] \/ Boundary(Reading(stuff, tag, members, in, last), f)
    PROVE  ReadLevel(Reading(stuff, tag, members, in, last), f)
              = Reading(stuff, tag, members, in, last)
<1>1. Code[f] \in Codes
  BY DEF Codes
<1>2. Begins(in, Code[f]) <=> Lead(in) = Code[f]
  BY <1>1, LeadBegins
<1>3. Reading(stuff, tag, members, in, last).in = in
  BY DEF Reading
<1> QED
  BY <1>2, <1>3 DEF ReadLevel

\* The segment of a level of p that is in W.
Segment(p, W, f) == IF f \in W THEN serialize_logical(Code[f], p.stuff[f]) ELSE <<>>

\* What is left when the levels from k on have been read, and what is known then.
Unread(p, W, k, rest) ==
    LET t1 == Segment(p, W, 0) \o rest
        t2 == Segment(p, W, 1) \o t1
        t3 == Segment(p, W, 2) \o t2
    IN  IF k = 0 THEN rest ELSE IF k = 1 THEN t1 ELSE IF k = 2 THEN t2 ELSE IF k = 3 THEN t3
        ELSE Segment(p, W, 3) \o t3

LEMMA UnreadIs ==
    \A p, W, rest, n : n \in Levels =>
        Unread(p, W, n + 1, rest) = Segment(p, W, n) \o Unread(p, W, n, rest)
<1> SUFFICES ASSUME NEW p, NEW W, NEW rest, NEW n \in Levels
             PROVE  Unread(p, W, n + 1, rest) = Segment(p, W, n) \o Unread(p, W, n, rest)
  OBVIOUS
<1>1. n = 0 \/ n = 1 \/ n = 2 \/ n = 3
  BY DEF Levels
<1>2. CASE n = 0
  <2>1. n + 1 = 1
    BY <1>2
  <2> QED
    BY <1>2, <2>1 DEF Unread
<1>3. CASE n = 1
  <2>1. n + 1 = 2
    BY <1>3
  <2> QED
    BY <1>3, <2>1 DEF Unread
<1>4. CASE n = 2
  <2>1. n + 1 = 3
    BY <1>4
  <2> QED
    BY <1>4, <2>1 DEF Unread
<1>5. CASE n = 3
  <2>1. n + 1 = 4
    BY <1>5
  <2> QED
    BY <1>5, <2>1 DEF Unread
<1> QED
  BY <1>1, <1>2, <1>3, <1>4, <1>5

Known(p, W, k) == [f \in Levels |-> IF f \in W /\ k <= f THEN p.stuff[f] ELSE Absent]
LastRead(W, k) ==
    IF k <= 0 /\ 0 \in W THEN 0 ELSE IF k <= 1 /\ 1 \in W THEN 1
    ELSE IF k <= 2 /\ 2 \in W THEN 2 ELSE IF k <= 3 /\ 3 \in W THEN 3 ELSE LOGICAL_END

\* What is written of p are ids of up to 16 bits.
Short(p, W) == W \subseteq Levels /\ p.stuff \in Stuffs
               /\ \A f \in W : p.stuff[f] \in Nat /\ p.stuff[f] < 65536

LEMMA UnreadLead ==
    ASSUME NEW p, NEW W, Short(p, W), NEW k \in 0 .. 4, NEW rest \in Seq(Nat)
    PROVE  /\ Unread(p, W, k, rest) \in Seq(Nat)
           /\ (\A g \in W : g >= k) => Unread(p, W, k, rest) = rest
           /\ (\E g \in W : g < k) =>
                 \E g \in W : /\ g < k /\ Lead(Unread(p, W, k, rest)) = Code[g]
                              /\ Unread(p, W, k, rest) # <<>>
                              /\ \A h \in W : h < k => h <= g
<1> DEFINE T(n) == Unread(p, W, n, rest)
           Good(n) ==
              /\ T(n) \in Seq(Nat)
              /\ (\A g \in W : g >= n) => T(n) = rest
              /\ (\E g \in W : g < n) =>
                    \E g \in W : /\ g < n /\ Lead(T(n)) = Code[g] /\ T(n) # <<>>
                                 /\ \A h \in W : h < n => h <= g
<1>0. Levels = {0, 1, 2, 3} /\ W \subseteq Levels
  BY DEF Levels, Short
<1>1. /\ T(0) = rest
      /\ \A n \in Levels : T(n + 1) = Segment(p, W, n) \o T(n)
  <2>1. T(0) = rest
    BY DEF Unread
  <2>2. ASSUME NEW n \in Levels
        PROVE  T(n + 1) = Segment(p, W, n) \o T(n)
    BY UnreadIs
  <2> QED
    BY <2>1, <2>2
<1>2. Good(0)
  BY <1>0, <1>1
<1> HIDE DEF T
<1>3. ASSUME NEW n \in Levels, Good(n)
      PROVE  Good(n + 1)
  <2>1. T(n + 1) = Segment(p, W, n) \o T(n) /\ T(n) \in Seq(Nat)
    BY <1>1, <1>3
  <2>2. CASE n \in W
    <3>1. Code[n] \in Codes /\ p.stuff[n] \in Nat /\ p.stuff[n] < 65536
      BY <1>0, <2>2 DEF Short, Codes
    <3>2. Segment(p, W, n) = serialize_logical(Code[n], p.stuff[n])
      BY <2>2 DEF Segment
    <3>3. T(n + 1) \in Seq(Nat) /\ Lead(T(n + 1)) = Code[n]
      <4> DEFINE c == Code[n]
                 v == p.stuff[n]
                 t == T(n)
      <4>1. c \in Codes /\ v \in Nat /\ v < 65536 /\ t \in Seq(Nat)
        BY <2>1, <3>1
      <4> HIDE DEF c, v, t
      <4>2. LET w == serialize_logical(c, v)
            IN  w \o t \in Seq(Nat) /\ Lead(w \o t) = c
        BY <4>1, SegmentRead
      <4> QED
        BY <2>1, <3>2, <4>2 DEF c, v, t
    <3>4. T(n + 1) # <<>>
      BY <3>1, <3>3, CodesEven DEF Lead, Absent
    <3>5. \A h \in W : h < n + 1 => h <= n
      BY <1>0
    <3>6. n < n + 1 /\ ~(n >= n + 1)
      BY <1>0
    <3> QED
      BY <2>2, <3>3, <3>4, <3>5, <3>6
  <2>3. CASE n \notin W
    <3>1. T(n + 1) = T(n)
      BY <2>1, <2>3, ConcatEmptySeq DEF Segment
    <3>2. \A g \in W : (g < n + 1 <=> g < n) /\ (g >= n + 1 <=> g >= n)
      BY <1>0, <2>3
    <3> QED
      BY <1>3, <3>1, <3>2
  <2> QED
    BY <2>2, <2>3
<1> HIDE DEF Good
<1>4. Good(1)
  BY <1>0, <1>2, <1>3
<1>5. Good(2)
  BY <1>0, <1>3, <1>4
<1>6. Good(3)
  BY <1>0, <1>3, <1>5
<1>7. Good(4)
  BY <1>0, <1>3, <1>6
<1>8. Good(k)
  BY <1>2, <1>4, <1>5, <1>6, <1>7
<1> QED
  BY <1>8 DEF Good, T

\* The reader when it is about to look for the levels below k.
At(p, W, k, rest) ==
    Reading(Known(p, W, k), <<>>, <<>>, Unread(p, W, k, rest), LastRead(W, k))

\* The assembly class with an instance, where a connection point is not read.
Closed(p, W) == CLASS \in W /\ p.stuff[CLASS] = kCipAssemblyClass /\ INSTANCE_ID \in W

\* What follows is not taken for more of p.
Apart(p, W, rest) ==
    \A f \in Levels : (\A g \in W : f < g) =>
        Lead(rest) # Code[f] \/ (f = CONN_PT /\ Closed(p, W))

LEMMA LevelNumbers ==
    /\ ATTRIBUTE = 0 /\ CONN_PT = 1 /\ INSTANCE_ID = 2 /\ CLASS = 3 /\ LOGICAL_END = 4
    /\ Levels = {0, 1, 2, 3}
BY DEF ATTRIBUTE, CONN_PT, INSTANCE_ID, CLASS, LOGICAL_END, Levels

LEMMA CodesDiffer ==
    \A f, g \in Levels : Code[f] = Code[g] => f = g
BY LevelNumbers, CodesAre

LEMMA BoundaryAt ==
    ASSUME NEW p, NEW W, Short(p, W), NEW rest, NEW f \in Levels
    PROVE  Boundary(At(p, W, f + 1, rest), f) <=> f = CONN_PT /\ Closed(p, W)
<1> DEFINE st == At(p, W, f + 1, rest)
           known == Known(p, W, f + 1)
<1>1. st.path.stuff = known /\ st.last = LastRead(W, f + 1)
  BY DEF At, Reading
<1>2. Boundary(st, f) <=> f = CONN_PT /\ GetClass(st.path) = kCipAssemblyClass /\ st.last = INSTANCE_ID
  BY DEF Boundary
<1> HIDE DEF st
<1>3. CASE f # CONN_PT
  BY <1>2, <1>3 DEF st
<1>4. CASE f = CONN_PT
  <2>1. f + 1 = 2
    BY <1>4, LevelNumbers
  <2>2. LastRead(W, f + 1) = INSTANCE_ID <=> INSTANCE_ID \in W
    BY <2>1, LevelNumbers DEF LastRead
  <2>3. known[CLASS] = IF CLASS \in W THEN p.stuff[CLASS] ELSE Absent
    BY <2>1, LevelNumbers DEF Known
  <2>4. GetClass(st.path) = IF known[CLASS] # Absent THEN known[CLASS] ELSE 0
    BY <1>1 DEF GetClass, GetField, Has
  <2> HIDE DEF known
  <2>5. GetClass(st.path) = kCipAssemblyClass <=> CLASS \in W /\ p.stuff[CLASS] = kCipAssemblyClass
    BY <2>3, <2>4 DEF kCipAssemblyClass, Absent
  <2> QED
    BY <1>1, <1>2, <1>4, <2>2, <2>5 DEF Closed, st
<1> QED
  BY <1>3, <1>4

LEMMA LevelStep ==
    ASSUME NEW p, NEW W, Short(p, W), NEW rest \in Seq(Nat), Apart(p, W, rest),
           ~(Closed(p, W) /\ CONN_PT \in W), NEW f \in Levels
    PROVE  ReadLevel(At(p, W, f + 1, rest), f) = At(p, W, f, rest)
<1> DEFINE st == At(p, W, f + 1, rest)
           in == Unread(p, W, f + 1, rest)
           left == Unread(p, W, f, rest)
<1>1. f \in 0 .. 4 /\ f + 1 \in 0 .. 4 /\ W \subseteq Levels
  BY LevelNumbers DEF Short
<1>2. in = Segment(p, W, f) \o left /\ left \in Seq(Nat) /\ in \in Seq(Nat)
  <2>1. left \in Seq(Nat) /\ in \in Seq(Nat)
    BY <1>1, UnreadLead
  <2>2. in = Segment(p, W, f) \o left
    BY UnreadIs
  <2> QED
    BY <2>1, <2>2
<1>3. Boundary(st, f) <=> f = CONN_PT /\ Closed(p, W)
  BY BoundaryAt
<1>4. st = Reading(Known(p, W, f + 1), <<>>, <<>>, in, LastRead(W, f + 1))
  BY DEF At
<1>5. At(p, W, f, rest) = Reading(Known(p, W, f), <<>>, <<>>, left, LastRead(W, f))
  BY DEF At
<1>6. CASE f \in W
  <2> DEFINE known == Known(p, W, f + 1)
             v == p.stuff[f]
  <2>1. v \in Nat /\ v < 65536
    BY <1>6 DEF Short
  <2>2. LevelAhead(f, v, left, st)
    <3>1. in = serialize_logical(Code[f], v) \o left
      BY <1>2, <1>6 DEF Segment
    <3>2. st.in = in
      BY DEF At, Reading
    <3>3. ~Boundary(st, f)
      BY <1>3, <1>6
    <3> HIDE DEF st, in, left, v
    <3> QED
      BY <1>2, <2>1, <3>1, <3>2, <3>3 DEF LevelAhead
  <2>3. [known EXCEPT ![f] = v] = Known(p, W, f)
    <3>1. \A g \in Levels : [known EXCEPT ![f] = v][g] = Known(p, W, f)[g]
      <4> SUFFICES ASSUME NEW g \in Levels
                   PROVE  [known EXCEPT ![f] = v][g] = Known(p, W, f)[g]
        OBVIOUS
      <4>1. f \in Int /\ g \in Int /\ (g # f => (f + 1 <= g <=> f <= g)) /\ f <= f
        BY LevelNumbers
      <4> QED
        BY <1>6, <4>1 DEF Known
    <3> QED
      BY <3>1 DEF Known
  <2>4. LastRead(W, f) = f
    BY <1>6, LevelNumbers DEF LastRead
  <2> DEFINE last == LastRead(W, f + 1)
  <2> HIDE DEF st, in, left, known, v
  <2> HIDE DEF last
  <2>5. st = Reading(known, <<>>, <<>>, in, last)
    BY <1>4 DEF known, last
  <2>6. ReadLevel(st, f) = Reading([known EXCEPT ![f] = v], <<>>, <<>>, left, f)
    BY <2>2, <2>5, LevelRead
  <2> QED
    BY <1>5, <2>3, <2>4, <2>6 DEF st, known
<1>7. CASE f \notin W
  <2>1. in = left
    BY <1>2, <1>7, ConcatEmptySeq DEF Segment
  <2>2. Known(p, W, f + 1) = Known(p, W, f)
    BY <1>1, <1>7, LevelNumbers DEF Known
  <2>3. LastRead(W, f + 1) = LastRead(W, f)
    BY <1>1, <1>7, LevelNumbers DEF LastRead
  <2>4. Lead(left) # Code[f] \/ Boundary(st, f)
    <3>1. CASE \E g \in W : g < f
      <4>0. f \in 0 .. 4
        BY <1>1
      <4>1. PICK g \in W : g < f /\ Lead(left) = Code[g]
        <5>1. (\E g \in W : g < f) => \E g \in W : g < f /\ Lead(left) = Code[g]
          <6> DEFINE k == f
          <6> HIDE DEF k
          <6>1. (\E g \in W : g < k) => \E g \in W : g < k /\ Lead(Unread(p, W, k, rest)) = Code[g]
            BY <4>0, UnreadLead DEF k
          <6> QED
            BY <6>1 DEF k
        <5> QED
          BY <3>1, <5>1
      <4>2. g # f
        BY <4>1, <1>1, LevelNumbers
      <4> QED
        BY <1>1, <4>1, <4>2, CodesDiffer
    <3>2. CASE ~ \E g \in W : g < f
      <4>1. \A g \in W : g >= f /\ f < g
        BY <1>1, <1>7, <3>2, LevelNumbers
      <4>2. left = rest
        BY <1>1, <4>1, UnreadLead
      <4> QED
        BY <1>3, <4>1, <4>2 DEF Apart
    <3> QED
      BY <3>1, <3>2
  <2> HIDE DEF st, in, left
  <2>5. ReadLevel(st, f) = st
    BY <1>2, <1>4, <2>1, <2>4, LevelPassed
  <2> QED
    BY <1>4, <1>5, <2>1, <2>2, <2>3, <2>5 DEF st
<1> QED
  BY <1>6, <1>7

LEMMA LevelsRead ==
    ASSUME NEW p, NEW W, Short(p, W), NEW rest \in Seq(Nat), Apart(p, W, rest),
           ~(Closed(p, W) /\ CONN_PT \in W), NEW prev
    PROVE  ReadLogical(Unread(p, W, 4, rest), prev) = Inherit(At(p, W, 0, rest), prev)
<1> DEFINE A(k) == At(p, W, k, rest)
           first == [bad |-> FALSE, in |-> Unread(p, W, 4, rest), path |-> NoPath,
                     last |-> LOGICAL_END]
<1>1. first = A(4)
  <2>1. Known(p, W, 4) = [f \in Levels |-> Absent]
    BY LevelNumbers DEF Known
  <2>2. LastRead(W, 4) = LOGICAL_END
    BY DEF LastRead
  <2> QED
    BY <2>1, <2>2 DEF At, Reading, NoPath
<1>2. \A f \in Levels : ReadLevel(A(f + 1), f) = A(f)
  BY LevelStep
<1>3. A(0).bad = FALSE
  BY DEF At, Reading
<1>4. ReadLogical(Unread(p, W, 4, rest), prev) =
         LET got == ReadLevel(ReadLevel(ReadLevel(ReadLevel(first, CLASS),
                                                  INSTANCE_ID), CONN_PT), ATTRIBUTE)
         IN  IF got.bad THEN got ELSE Inherit(got, prev)
  BY DEF ReadLogical
<1> HIDE DEF first, A
<1>5. ReadLevel(first, CLASS) = A(3)
  BY <1>1, <1>2, LevelNumbers
<1>6. ReadLevel(A(3), INSTANCE_ID) = A(2)
  BY <1>2, LevelNumbers
<1>7. ReadLevel(A(2), CONN_PT) = A(1)
  BY <1>2, LevelNumbers
<1>8. ReadLevel(A(1), ATTRIBUTE) = A(0)
  BY <1>2, LevelNumbers
<1>9. ReadLogical(Unread(p, W, 4, rest), prev) = Inherit(A(0), prev)
  BY <1>3, <1>4, <1>5, <1>6, <1>7, <1>8
<1> QED
  BY <1>9 DEF A

\* What is not in W comes from the path before.
Restored(prev, p, W) ==
    \A f \in Levels \ W :
        p.stuff[f] = IF f \in Inherited(prev, LastRead(W, 0)) THEN prev.stuff[f] ELSE Absent

LEMMA LogicalRead ==
    ASSUME NEW p \in AppPaths, p.tag = <<>>, p.members = <<>>,
           NEW W, Short(p, W), NEW rest \in Seq(Nat), Apart(p, W, rest),
           ~(Closed(p, W) /\ CONN_PT \in W), NEW prev, Restored(prev, p, W)
    PROVE  LET got == ReadLogical(Unread(p, W, 4, rest), prev)
           IN  ~got.bad /\ got.in = rest /\ got.path = p
<1> DEFINE st == At(p, W, 0, rest)
           known == Known(p, W, 0)
           last == LastRead(W, 0)
           From(f) == IF known[f] = Absent /\ f \in Inherited(prev, last)
                      THEN prev.stuff[f] ELSE known[f]
           S == [f \in Levels |-> From(f)]
           P == [stuff |-> known, tag |-> <<>>, members |-> <<>>]
<1>1. st.path = P /\ st.in = rest /\ st.last = last
  BY DEF At, Reading, Unread
<1>2. P.stuff = known
  OBVIOUS
<1>3. \A f \in Levels : known[f] = IF f \in W THEN p.stuff[f] ELSE Absent
  BY LevelNumbers DEF Known
<1> HIDE DEF st, known
<1>4. Inherit(st, prev) = [bad |-> FALSE, in |-> rest, last |-> last,
                           path |-> [P EXCEPT !.stuff = S]]
  <2> HIDE DEF P
  <2> QED
    BY <1>1, <1>2 DEF Inherit
<1>5. \A f \in Levels : From(f) = p.stuff[f]
  <2> SUFFICES ASSUME NEW f \in Levels PROVE From(f) = p.stuff[f]
    OBVIOUS
  <2>1. CASE f \in W
    <3>1. p.stuff[f] # Absent
      BY <2>1 DEF Short, Absent
    <3> HIDE DEF last
    <3> QED
      BY <1>3, <2>1, <3>1
  <2>2. CASE f \notin W
    <3> HIDE DEF last
    <3> QED
      BY <1>3, <2>2 DEF Restored, last
  <2> QED
    BY <2>1, <2>2
<1>6. S = p.stuff
  <2>1. p.stuff = [f \in Levels |-> p.stuff[f]]
    BY DEF AppPaths
  <2> HIDE DEF From
  <2> QED
    BY <1>5, <2>1
<1>7. p = [stuff |-> p.stuff, tag |-> <<>>, members |-> <<>>]
  BY DEF AppPaths
<1> HIDE DEF S
<1>8. [P EXCEPT !.stuff = S] = [stuff |-> S, tag |-> <<>>, members |-> <<>>]
  OBVIOUS
<1> HIDE DEF P, last
<1>9. Inherit(st, prev) = [bad |-> FALSE, in |-> rest, last |-> last, path |-> p]
  BY <1>4, <1>6, <1>7, <1>8
<1>10. ReadLogical(Unread(p, W, 4, rest), prev) = Inherit(st, prev)
  BY LevelsRead DEF st
<1> QED
  BY <1>9, <1>10

\* The levels of p that are written.
Kept(p, omit) == {f \in Levels : Has(p, f)} \ omit

\* What may be left out of p.
MayOmit(p, omit) ==
    /\ ATTRIBUTE \notin omit
    /\ CONN_PT \in omit => Has(p, ATTRIBUTE)

LEMMA SharedMayOmit == \A prev, p : MayOmit(p, Shared(prev, p)) /\ MayOmit(p, {})
BY LevelNumbers DEF MayOmit, Shared

LEMMA SegmentIsSeq ==
    ASSUME NEW code \in Codes, NEW v \in Nat, v < 65536
    PROVE  serialize_logical(code, v) \in Seq(Nat)
<1> DEFINE rest == <<>>
<1>1. rest \in Seq(Nat)
  OBVIOUS
<1> HIDE DEF rest
<1> QED
  BY <1>1, SegmentRead

LEMMA KeptSegments ==
    ASSUME NEW p \in AppPaths, NEW omit, Short(p, Kept(p, omit)), NEW f \in Levels
    PROVE  /\ Segment(p, Kept(p, omit), f) = Logical(p, f, omit)
           /\ Segment(p, Kept(p, omit), f) \in Seq(Nat)
<1> DEFINE W == Kept(p, omit)
           c == Code[f]
           v == p.stuff[f]
<1>1. f \in W <=> Has(p, f) /\ f \notin omit
  BY DEF Kept
<1>2. Segment(p, W, f) = Logical(p, f, omit)
  BY <1>1 DEF Segment, Logical
<1>3. CASE f \in W
  <2>1. c \in Codes /\ v \in Nat /\ v < 65536
    BY <1>3 DEF Codes, Short
  <2>2. Segment(p, W, f) = serialize_logical(c, v)
    BY <1>3 DEF Segment
  <2> HIDE DEF c, v, W
  <2>3. serialize_logical(c, v) \in Seq(Nat)
    BY <2>1, SegmentIsSeq
  <2> QED
    BY <1>2, <2>2, <2>3 DEF W
<1>4. CASE f \notin W
  BY <1>2, <1>4 DEF Segment
<1> QED
  BY <1>2, <1>3, <1>4

LEMMA Assoc == \A a, b, c \in Seq(Nat) : (a \o b) \o c = a \o (b \o c)
BY ConcatAssociative

LEMMA Both == \A a, b \in Seq(Nat) : a \o b \in Seq(Nat)
OBVIOUS

LEMMA FourParts ==
    \A a, b, c, d \in Seq(Nat) :
        (a \o b \o c) \o d = a \o (b \o (c \o d)) /\ a \o b \o c \in Seq(Nat)
<1> SUFFICES ASSUME NEW a \in Seq(Nat), NEW b \in Seq(Nat), NEW c \in Seq(Nat), NEW d \in Seq(Nat)
             PROVE  (a \o b \o c) \o d = a \o (b \o (c \o d)) /\ a \o b \o c \in Seq(Nat)
  BY Zenon
<1>1. a \o b \in Seq(Nat) /\ c \o d \in Seq(Nat)
  OBVIOUS
<1>2. (a \o b) \o (c \o d) = a \o (b \o (c \o d))
  BY <1>1, Assoc, ZenonT(60)
<1>3. ((a \o b) \o c) \o d = (a \o b) \o (c \o d)
  BY <1>1, Assoc, ZenonT(60)
<1>4. a \o b \o c \in Seq(Nat)
  BY <1>1
<1> QED
  BY <1>2, <1>3, <1>4, Zenon

LEMMA LogicalText ==
    ASSUME NEW p \in AppPaths, LogicalPath(p), NEW omit, MayOmit(p, omit),
           Short(p, Kept(p, omit)), NEW rest \in Seq(Nat)
    PROVE  /\ SerializeAppPath(p, omit) \in Seq(Nat)
           /\ SerializeAppPath(p, omit) \o rest = Unread(p, Kept(p, omit), 4, rest)
           /\ ~(Closed(p, Kept(p, omit)) /\ CONN_PT \in Kept(p, omit))
<1> DEFINE W == Kept(p, omit)
           s0 == Segment(p, W, 0)
           s1 == Segment(p, W, 1)
           s2 == Segment(p, W, 2)
           s3 == Segment(p, W, 3)
<1>1. /\ s0 \in Seq(Nat) /\ s1 \in Seq(Nat) /\ s2 \in Seq(Nat) /\ s3 \in Seq(Nat)
      /\ s0 = Logical(p, ATTRIBUTE, omit) /\ s1 = Logical(p, CONN_PT, omit)
      /\ s2 = Logical(p, INSTANCE_ID, omit) /\ s3 = Logical(p, CLASS, omit)
  BY KeptSegments, LevelNumbers
<1>10. s0 \in Seq(Nat) /\ s1 \in Seq(Nat) /\ s2 \in Seq(Nat) /\ s3 \in Seq(Nat)
  BY <1>1
<1>2. Unread(p, W, 4, rest) = s3 \o (s2 \o (s1 \o (s0 \o rest)))
  BY DEF Unread
<1>3. ATTRIBUTE \notin omit /\ (CONN_PT \in omit => Has(p, ATTRIBUTE)) /\ p.tag = <<>>
  BY DEF MayOmit, LogicalPath
<1>4. s0 = Logical(p, ATTRIBUTE, {})
  BY <1>1, <1>3 DEF Logical
<1>5. \A f \in Levels : f \in W => Has(p, f)
  BY DEF Kept
<1>6. \A a \in Seq(Nat) : <<>> \o a = a
  BY ConcatEmptySeq
<1>7. s0 \o rest \in Seq(Nat) /\ s1 \o (s0 \o rest) \in Seq(Nat)
  BY <1>1
<1>8. CASE GetClass(p) = kCipAssemblyClass
  <2>1. ~(Has(p, CONN_PT) /\ Has(p, INSTANCE_ID))
    BY <1>8 DEF LogicalPath
  <2>2. SerializeAppPath(p, omit) =
           s3 \o (IF Has(p, INSTANCE_ID) /\ INSTANCE_ID \notin omit THEN s2 ELSE s1) \o s0
    BY <1>1, <1>3, <1>4, <1>8 DEF SerializeAppPath
  <2>3. ~(Closed(p, W) /\ CONN_PT \in W)
    BY <1>5, <2>1, LevelNumbers DEF Closed
  <2>4. CASE Has(p, INSTANCE_ID) /\ INSTANCE_ID \notin omit
    <3>1. s1 = <<>>
      BY <1>1, <2>1, <2>4 DEF Logical
    <3> HIDE DEF s0, s1, s2, s3, W
    <3>2. /\ SerializeAppPath(p, omit) = s3 \o s2 \o s0
          /\ s1 \o (s0 \o rest) = s0 \o rest
      BY <1>6, <1>7, <2>2, <2>4, <3>1
    <3>3. (s3 \o s2 \o s0) \o rest = s3 \o (s2 \o (s0 \o rest)) /\ s3 \o s2 \o s0 \in Seq(Nat)
      BY <1>10, FourParts
    <3> QED
      BY <1>2, <2>3, <3>2, <3>3, Zenon DEF W
  <2>5. CASE ~(Has(p, INSTANCE_ID) /\ INSTANCE_ID \notin omit)
    <3>1. s2 = <<>>
      BY <1>1, <2>5 DEF Logical
    <3> HIDE DEF s0, s1, s2, s3, W
    <3>2. SerializeAppPath(p, omit) = s3 \o s1 \o s0
      BY <2>2, <2>5
    <3>3. (s3 \o s1 \o s0) \o rest = s3 \o (s1 \o (s0 \o rest)) /\ s3 \o s1 \o s0 \in Seq(Nat)
      BY <1>10, FourParts
    <3>4. s2 \o (s1 \o (s0 \o rest)) = s1 \o (s0 \o rest)
      BY <1>6, <1>7, <3>1
    <3> QED
      BY <1>2, <2>3, <3>2, <3>3, <3>4, Zenon DEF W
  <2> QED
    BY <2>4, <2>5
<1>9. CASE GetClass(p) # kCipAssemblyClass
  <2>1. ~(Has(p, CONN_PT) /\ Has(p, ATTRIBUTE))
    BY <1>9 DEF LogicalPath
  <2>2. SerializeAppPath(p, omit) = s3 \o s2 \o (IF Has(p, CONN_PT) THEN s1 ELSE s0)
    <3>1. Has(p, CONN_PT) => Logical(p, CONN_PT, {}) = s1
      BY <1>1, <1>3, <2>1 DEF Logical
    <3>2. SerializeAppPath(p, omit) =
             Logical(p, CLASS, omit) \o Logical(p, INSTANCE_ID, omit)
             \o (IF Has(p, CONN_PT) THEN Logical(p, CONN_PT, {}) ELSE Logical(p, ATTRIBUTE, {}))
      BY <1>3, <1>9 DEF SerializeAppPath
    <3> HIDE DEF s0, s1, s2, s3
    <3> QED
      BY <1>1, <1>4, <3>1, <3>2
  <2>3. ~(Closed(p, W) /\ CONN_PT \in W)
    <3>1. CASE CLASS \in W /\ p.stuff[CLASS] = kCipAssemblyClass
      BY <1>5, <1>9, <3>1, LevelNumbers DEF GetClass, GetField
    <3>2. CASE ~(CLASS \in W /\ p.stuff[CLASS] = kCipAssemblyClass)
      BY <3>2 DEF Closed
    <3> QED
      BY <3>1, <3>2
  <2>4. CASE Has(p, CONN_PT)
    <3>1. s0 = <<>>
      BY <1>1, <2>1, <2>4 DEF Logical
    <3> HIDE DEF s0, s1, s2, s3, W
    <3>2. SerializeAppPath(p, omit) = s3 \o s2 \o s1 /\ s0 \o rest = rest
      BY <1>6, <2>2, <2>4, <3>1
    <3>3. (s3 \o s2 \o s1) \o rest = s3 \o (s2 \o (s1 \o rest)) /\ s3 \o s2 \o s1 \in Seq(Nat)
      BY <1>10, FourParts
    <3> QED
      BY <1>2, <2>3, <3>2, <3>3, Zenon DEF W
  <2>5. CASE ~Has(p, CONN_PT)
    <3>1. s1 = <<>>
      BY <1>1, <2>5 DEF Logical
    <3> HIDE DEF s0, s1, s2, s3, W
    <3>2. SerializeAppPath(p, omit) = s3 \o s2 \o s0 /\ s1 \o (s0 \o rest) = s0 \o rest
      BY <1>6, <1>7, <2>2, <2>5, <3>1
    <3>3. (s3 \o s2 \o s0) \o rest = s3 \o (s2 \o (s0 \o rest)) /\ s3 \o s2 \o s0 \in Seq(Nat)
      BY <1>10, FourParts
    <3> QED
      BY <1>2, <2>3, <3>2, <3>3, Zenon DEF W
  <2> QED
    BY <2>4, <2>5
<1> QED
  BY <1>8, <1>9

LEMMA MemberIs ==
    ASSUME NEW st, ~st.bad, Begins(st.in, MemberId),
           NEW got, got = deserialize_logical(st.in), ~got.bad
    PROVE  ReadMember(st)
              = [bad |-> FALSE, in |-> Past(st.in, got.size), last |-> st.last,
                 path |-> [st.path EXCEPT !.members = Append(@, got.value)]]
BY DEF ReadMember

\* st begins with the member id v; rest comes after that.
MemberAhead(v, rest, st) ==
    /\ v \in Nat /\ v < 65536 /\ rest \in Seq(Nat)
    /\ st.in = serialize_logical(MemberId, v) \o rest

LEMMA MemberRead ==
    \A v, rest, in, stuff, tag, members, last :
        MemberAhead(v, rest, Reading(stuff, tag, members, in, last))
        => ReadMember(Reading(stuff, tag, members, in, last))
              = Reading(stuff, tag, Append(members, v), rest, last)
<1> SUFFICES ASSUME NEW v, NEW rest, NEW in, NEW stuff, NEW tag, NEW members, NEW last,
                    MemberAhead(v, rest, Reading(stuff, tag, members, in, last))
             PROVE  ReadMember(Reading(stuff, tag, members, in, last))
                       = Reading(stuff, tag, Append(members, v), rest, last)
  OBVIOUS
<1> DEFINE c == MemberId
           got == deserialize_logical(in)
           st == Reading(stuff, tag, members, in, last)
           P == [stuff |-> stuff, tag |-> tag, members |-> members]
           m2 == Append(members, v)
           Q == [P EXCEPT !.members = m2]
<1>1. st.bad = FALSE /\ st.in = in /\ st.path = P /\ st.last = last
  BY DEF Reading
<1>2. in = serialize_logical(c, v) \o rest
  BY <1>1 DEF MemberAhead
<1>3. c \in Codes /\ v \in Nat /\ v < 65536 /\ rest \in Seq(Nat)
  BY DEF Codes, MemberAhead
<1>4. P.members = members
  OBVIOUS
<1> HIDE DEF c, m2
<1>5. Q = [stuff |-> stuff, tag |-> tag, members |-> m2]
  OBVIOUS
<1>6. in \in Seq(Nat) /\ Lead(in) = c /\ ~got.bad /\ got.value = v /\ Past(in, got.size) = rest
  <2>1. LET w == serialize_logical(c, v)
            g == deserialize_logical(w \o rest)
        IN  /\ w \o rest \in Seq(Nat) /\ Lead(w \o rest) = c
            /\ ~g.bad /\ g.value = v /\ Past(w \o rest, g.size) = rest
    BY <1>3, SegmentRead
  <2> QED
    BY <1>2, <2>1
<1>7. Begins(in, c)
  BY <1>3, <1>6, LeadBegins
<1> HIDE DEF st, P
<1>8. got = deserialize_logical(st.in)
  BY <1>1
<1> HIDE DEF got
<1>9. ReadMember(st) = [bad |-> FALSE, in |-> rest, last |-> last, path |-> Q]
  BY <1>1, <1>4, <1>6, <1>7, <1>8, MemberIs DEF c, m2
<1> HIDE DEF Q
<1>10. ReadMember(st) = Reading(stuff, tag, m2, rest, last)
  BY <1>5, <1>9 DEF Reading
<1> QED
  BY <1>10 DEF st, m2

LEMMA MemberPassed ==
    ASSUME NEW in \in Seq(Nat), Lead(in) # MemberId,
           NEW stuff, NEW tag, NEW members, NEW last
    PROVE  ReadMember(Reading(stuff, tag, members, in, last))
              = Reading(stuff, tag, members, in, last)
<1>1. MemberId \in Codes
  BY DEF Codes
<1>2. ~Begins(in, MemberId)
  BY <1>1, LeadBegins
<1>3. Reading(stuff, tag, members, in, last).in = in
  BY DEF Reading
<1> QED
  BY <1>2, <1>3 DEF ReadMember

\* What is left when k member ids have been read, and those.
MembersLeft(p, k, rest) ==
    LET t2 == Member(p, 3) \o rest
        t1 == Member(p, 2) \o t2
    IN  IF k = 3 THEN rest ELSE IF k = 2 THEN t2 ELSE IF k = 1 THEN t1 ELSE Member(p, 1) \o t1

MembersRead(p, k) == IF k < Len(p.members) THEN SubSeq(p.members, 1, k) ELSE p.members

ShortMembers(p) ==
    /\ p.members \in Seq(Nat) /\ Len(p.members) <= 3
    /\ \A m \in DOMAIN p.members : p.members[m] < 65536

LEMMA MemberSegments ==
    ASSUME NEW p, ShortMembers(p), NEW k \in 1 .. 3
    PROVE  /\ Member(p, k) \in Seq(Nat)
           /\ k > Len(p.members) => Member(p, k) = <<>>
<1>1. CASE k <= Len(p.members)
  <2> DEFINE c == MemberId
             v == p.members[k]
  <2>1. c \in Codes /\ v \in Nat /\ v < 65536
    BY <1>1 DEF Codes, ShortMembers
  <2>2. Member(p, k) = serialize_logical(c, v)
    BY <1>1 DEF Member
  <2> HIDE DEF c, v
  <2>3. Member(p, k) \in Seq(Nat)
    BY <2>1, <2>2, SegmentIsSeq
  <2>4. ~(k > Len(p.members))
    BY <1>1 DEF ShortMembers
  <2> QED
    BY <2>3, <2>4
<1>2. CASE ~(k <= Len(p.members))
  BY <1>2 DEF Member
<1> QED
  BY <1>1, <1>2

LEMMA After == \A m, t \in Seq(Nat) : m \o t \in Seq(Nat) /\ (m = <<>> => m \o t = t)
OBVIOUS

LEMMA MembersLeftIs ==
    ASSUME NEW p, ShortMembers(p), NEW rest \in Seq(Nat)
    PROVE  /\ MembersLeft(p, 3, rest) = rest
           /\ \A k \in {1, 2, 3} :
                 /\ MembersLeft(p, k, rest) \in Seq(Nat)
                 /\ MembersLeft(p, k - 1, rest) = Member(p, k) \o MembersLeft(p, k, rest)
                 /\ k >= Len(p.members) => MembersLeft(p, k, rest) = rest
           /\ MembersLeft(p, 0, rest) \in Seq(Nat)
           /\ Len(p.members) = 0 => MembersLeft(p, 0, rest) = rest
<1> DEFINE n == Len(p.members)
           m1 == Member(p, 1)
           m2 == Member(p, 2)
           m3 == Member(p, 3)
           L(k) == MembersLeft(p, k, rest)
<1>1. L(3) = rest
  BY DEF MembersLeft
<1>2. L(2) = m3 \o L(3)
  BY DEF MembersLeft
<1>3. L(1) = m2 \o L(2)
  BY DEF MembersLeft
<1>4. L(0) = m1 \o L(1)
  BY DEF MembersLeft
<1>5. n \in Nat
  BY DEF ShortMembers
<1>6. /\ m1 \in Seq(Nat) /\ m2 \in Seq(Nat) /\ m3 \in Seq(Nat)
      /\ (1 > n => m1 = <<>>) /\ (2 > n => m2 = <<>>) /\ (3 > n => m3 = <<>>)
  BY MemberSegments
<1> HIDE DEF L, m1, m2, m3, n
<1>7. L(3) \in Seq(Nat)
  BY <1>1
<1>8. L(2) \in Seq(Nat) /\ (3 > n => L(2) = L(3))
  <2>1. m3 \o L(3) \in Seq(Nat) /\ (m3 = <<>> => m3 \o L(3) = L(3))
    BY <1>6, <1>7, After
  <2> QED
    BY <1>2, <1>6, <2>1, Zenon
<1>9. L(1) \in Seq(Nat) /\ (2 > n => L(1) = L(2))
  <2>1. m2 \o L(2) \in Seq(Nat) /\ (m2 = <<>> => m2 \o L(2) = L(2))
    BY <1>6, <1>8, After
  <2> QED
    BY <1>3, <1>6, <2>1, Zenon
<1>10. L(0) \in Seq(Nat) /\ (1 > n => L(0) = L(1))
  <2>1. m1 \o L(1) \in Seq(Nat) /\ (m1 = <<>> => m1 \o L(1) = L(1))
    BY <1>6, <1>9, After
  <2> QED
    BY <1>4, <1>6, <2>1, Zenon
<1>11. /\ 3 >= n => L(3) = rest
       /\ 2 >= n => L(2) = rest
       /\ 1 >= n => L(1) = rest
       /\ 0 = n => L(0) = rest
  BY <1>1, <1>5, <1>8, <1>9, <1>10
<1>12. ASSUME NEW k \in {1, 2, 3}
       PROVE  /\ MembersLeft(p, k, rest) \in Seq(Nat)
              /\ MembersLeft(p, k - 1, rest) = Member(p, k) \o MembersLeft(p, k, rest)
              /\ k >= Len(p.members) => MembersLeft(p, k, rest) = rest
  <2>1. CASE k = 1
    <3>1. k - 1 = 0
      BY <2>1
    <3> QED
      BY <1>4, <1>9, <1>11, <2>1, <3>1 DEF L, m1, n
  <2>2. CASE k = 2
    <3>1. k - 1 = 1
      BY <2>2
    <3> QED
      BY <1>3, <1>8, <1>11, <2>2, <3>1 DEF L, m2, n
  <2>3. CASE k = 3
    <3>1. k - 1 = 2
      BY <2>3
    <3> QED
      BY <1>2, <1>7, <1>11, <2>3, <3>1 DEF L, m3, n
  <2> QED
    BY <2>1, <2>2, <2>3
<1> QED
  BY <1>1, <1>10, <1>11, <1>12 DEF L, n

LEMMA GrowsByOne ==
    ASSUME NEW m \in Seq(Nat), NEW k \in Nat, 1 <= k, k <= Len(m)
    PROVE  Append(SubSeq(m, 1, k - 1), m[k]) = SubSeq(m, 1, k)
OBVIOUS

LEMMA MembersGrow ==
    ASSUME NEW p, ShortMembers(p), NEW k \in {1, 2, 3}
    PROVE  /\ k <= Len(p.members)
                 => Append(MembersRead(p, k - 1), p.members[k]) = MembersRead(p, k)
           /\ k > Len(p.members) => MembersRead(p, k - 1) = MembersRead(p, k)
           /\ MembersRead(p, 0) = <<>> /\ MembersRead(p, 3) = p.members
<1> DEFINE m == p.members
           n == Len(m)
<1>1. m \in Seq(Nat) /\ n \in Nat /\ n <= 3 /\ k \in Nat /\ k - 1 < k /\ 1 <= k
  BY DEF ShortMembers
<1>2. SubSeq(m, 1, n) = m /\ SubSeq(m, 1, 0) = <<>> /\ (n = 0 => m = <<>>)
  BY <1>1
<1>3. \A j : MembersRead(p, j) = IF j < n THEN SubSeq(m, 1, j) ELSE m
  BY DEF MembersRead
<1>4. ASSUME k <= n
      PROVE  Append(MembersRead(p, k - 1), m[k]) = MembersRead(p, k)
  <2> HIDE DEF m
  <2>1. k - 1 < Len(m) /\ k \in Nat /\ 1 <= k /\ k <= Len(m) /\ (~(k < Len(m)) => k = Len(m))
    BY <1>1, <1>4
  <2>2. Append(SubSeq(m, 1, k - 1), m[k]) = SubSeq(m, 1, k)
    BY <1>1, <2>1, GrowsByOne
  <2>3. MembersRead(p, k - 1) = SubSeq(m, 1, k - 1)
    BY <1>3, <2>1
  <2>4. MembersRead(p, k) = SubSeq(m, 1, k)
    BY <1>2, <1>3, <2>1
  <2> QED
    BY <2>2, <2>3, <2>4
<1>5. ASSUME k > n
      PROVE  MembersRead(p, k - 1) = MembersRead(p, k)
  <2>1. ~(k - 1 < n) /\ ~(k < n)
    BY <1>1, <1>5
  <2> QED
    BY <1>3, <2>1
<1>6. MembersRead(p, 0) = <<>> /\ MembersRead(p, 3) = m
  <2>1. ~(3 < n) /\ (0 < n \/ n = 0)
    BY <1>1
  <2> QED
    BY <1>2, <1>3, <2>1
<1> QED
  BY <1>4, <1>5, <1>6

LEMMA MembersStep ==
    ASSUME NEW p, ShortMembers(p), NEW rest \in Seq(Nat), Lead(rest) # MemberId,
           NEW stuff, NEW tag, NEW last, NEW k \in {1, 2, 3}
    PROVE  ReadMember(Reading(stuff, tag, MembersRead(p, k - 1), MembersLeft(p, k - 1, rest), last))
              = Reading(stuff, tag, MembersRead(p, k), MembersLeft(p, k, rest), last)
<1> DEFINE before == MembersRead(p, k - 1)
           after == MembersRead(p, k)
           in == MembersLeft(p, k - 1, rest)
           left == MembersLeft(p, k, rest)
<1>1. /\ left \in Seq(Nat) /\ in = Member(p, k) \o left
      /\ k >= Len(p.members) => left = rest
  BY MembersLeftIs
<1>2. k \in 1 .. 3 /\ Len(p.members) \in Nat
  BY DEF ShortMembers
<1>3. CASE k <= Len(p.members)
  <2> DEFINE v == p.members[k]
             st == Reading(stuff, tag, before, in, last)
  <2>1. v \in Nat /\ v < 65536
    BY <1>2, <1>3 DEF ShortMembers
  <2>2. MemberAhead(v, left, st)
    <3>1. in = serialize_logical(MemberId, v) \o left
      BY <1>1, <1>3 DEF Member
    <3>2. st.in = in
      BY DEF Reading
    <3>3. left \in Seq(Nat)
      BY <1>1
    <3> HIDE DEF st, in, left, v
    <3> QED
      BY <2>1, <3>1, <3>2, <3>3 DEF MemberAhead
  <2>3. Append(before, v) = after
    BY <1>3, MembersGrow
  <2> HIDE DEF before, after, in, left, v
  <2>4. ReadMember(st) = Reading(stuff, tag, Append(before, v), left, last)
    BY <2>2, MemberRead
  <2>5. ReadMember(st) = Reading(stuff, tag, after, left, last)
    BY <2>3, <2>4
  <2> QED
    BY <2>5 DEF before, after, in, left
<1>4. CASE ~(k <= Len(p.members))
  <2>1. k > Len(p.members) /\ k >= Len(p.members)
    BY <1>2, <1>4
  <2>2. before = after
    BY <2>1, MembersGrow
  <2>3. left = rest
    BY <1>1, <2>1
  <2>4. Member(p, k) = <<>>
    BY <1>2, <2>1, MemberSegments
  <2>5. <<>> \o rest = rest
    OBVIOUS
  <2> HIDE DEF before, after, left, in
  <2>6. in = rest
    BY <1>1, <2>3, <2>4, <2>5, Zenon
  <2>7. ReadMember(Reading(stuff, tag, before, rest, last)) = Reading(stuff, tag, before, rest, last)
    BY MemberPassed
  <2>8. ReadMember(Reading(stuff, tag, before, in, last)) = Reading(stuff, tag, after, left, last)
    BY <2>2, <2>3, <2>6, <2>7, Zenon
  <2> QED
    BY <2>8 DEF before, after, in, left
<1> QED
  BY <1>3, <1>4

LEMMA MembersAll ==
    ASSUME NEW p, ShortMembers(p), NEW rest \in Seq(Nat), Lead(rest) # MemberId,
           NEW stuff, NEW tag, NEW last
    PROVE  ReadMember(ReadMember(ReadMember(
              Reading(stuff, tag, <<>>, MembersLeft(p, 0, rest), last))))
              = Reading(stuff, tag, p.members, rest, last)
<1> DEFINE A(k) == Reading(stuff, tag, MembersRead(p, k), MembersLeft(p, k, rest), last)
<1>1. MembersRead(p, 0) = <<>> /\ MembersRead(p, 3) = p.members
  <2>1. 1 \in {1, 2, 3}
    OBVIOUS
  <2> QED
    BY <2>1, MembersGrow
<1>2. MembersLeft(p, 3, rest) = rest
  BY MembersLeftIs
<1>3. A(3) = Reading(stuff, tag, p.members, rest, last)
  BY <1>1, <1>2
<1>4. A(0) = Reading(stuff, tag, <<>>, MembersLeft(p, 0, rest), last)
  BY <1>1
<1>5. \A k \in {1, 2, 3} : ReadMember(A(k - 1)) = A(k)
  BY MembersStep
<1> HIDE DEF A
<1>6. ReadMember(A(0)) = A(1) /\ ReadMember(A(1)) = A(2) /\ ReadMember(A(2)) = A(3)
  <2>1. 1 - 1 = 0 /\ 2 - 1 = 1 /\ 3 - 1 = 2
    OBVIOUS
  <2> QED
    BY <1>5, <2>1
<1> QED
  BY <1>3, <1>4, <1>6

\* As an operator of our own, which the provers do not take apart.
Cat(a, b) == a \o b

LEMMA CatIs ==
    /\ \A a, b \in Seq(Nat) : Cat(a, b) \in Seq(Nat)
    /\ \A a, b, c \in Seq(Nat) : Cat(Cat(a, b), c) = Cat(a, Cat(b, c))
<1>1. \A a, b \in Seq(Nat) : Cat(a, b) \in Seq(Nat)
  BY DEF Cat
<1>2. \A a, b, c \in Seq(Nat) : Cat(Cat(a, b), c) = Cat(a, Cat(b, c))
  BY Assoc DEF Cat
<1> QED
  BY <1>1, <1>2

LEMMA SixParts ==
    ASSUME NEW h \in Seq(Nat), NEW l \in Seq(Nat), NEW a \in Seq(Nat),
           NEW b \in Seq(Nat), NEW c \in Seq(Nat), NEW d \in Seq(Nat)
    PROVE  /\ Cat(Cat(Cat(Cat(Cat(h, l), a), b), c), d)
                 = Cat(h, Cat(l, Cat(a, Cat(b, Cat(c, d)))))
           /\ Cat(Cat(Cat(Cat(h, l), a), b), c) \in Seq(Nat)
<1>1. /\ Cat(h, l) \in Seq(Nat) /\ Cat(c, d) \in Seq(Nat)
      /\ Cat(Cat(h, l), a) \in Seq(Nat) /\ Cat(b, Cat(c, d)) \in Seq(Nat)
      /\ Cat(Cat(Cat(h, l), a), b) \in Seq(Nat) /\ Cat(a, Cat(b, Cat(c, d))) \in Seq(Nat)
      /\ Cat(Cat(Cat(Cat(h, l), a), b), c) \in Seq(Nat)
  BY CatIs
<1>2. Cat(Cat(Cat(Cat(Cat(h, l), a), b), c), d) = Cat(Cat(Cat(Cat(h, l), a), b), Cat(c, d))
  BY <1>1, CatIs
<1>3. Cat(Cat(Cat(Cat(h, l), a), b), Cat(c, d)) = Cat(Cat(Cat(h, l), a), Cat(b, Cat(c, d)))
  BY <1>1, CatIs
<1>4. Cat(Cat(Cat(h, l), a), Cat(b, Cat(c, d))) = Cat(Cat(h, l), Cat(a, Cat(b, Cat(c, d))))
  BY <1>1, CatIs
<1>5. Cat(Cat(h, l), Cat(a, Cat(b, Cat(c, d)))) = Cat(h, Cat(l, Cat(a, Cat(b, Cat(c, d)))))
  BY <1>1, CatIs
<1> QED
  BY <1>1, <1>2, <1>3, <1>4, <1>5

LEMMA BytesAreNats ==
    /\ \A s \in Seq(Byte) : s \in Seq(Nat)
    /\ \A s \in Seq(Word) : s \in Seq(Nat)
<1>1. Byte \subseteq Nat /\ Word \subseteq Nat
  BY DEF Byte, Word
<1>2. \A s \in Seq(Byte) : s \in Seq(Nat)
  BY <1>1, SeqMonotonic
<1>3. \A s \in Seq(Word) : s \in Seq(Nat)
  BY <1>1, SeqMonotonic
<1> QED
  BY <1>2, <1>3

\* A sequence that is empty or has one member.
LEMMA OnlyMember ==
    ASSUME NEW S, NEW s \in Seq(S), Len(s) = 1
    PROVE  s[1] \in S /\ s # <<>> /\ s = <<s[1]>>
<1>1. s[1] \in S
  BY ElementOfSeq
<1>2. s # <<>>
  BY EmptySeq
<1>3. <<s[1]>> \in Seq(S) /\ Len(<<s[1]>>) = 1 /\ <<s[1]>>[1] = s[1]
  BY <1>1
<1> DEFINE one == <<s[1]>>
<1>4. \A i \in 1 .. Len(s) : s[i] = one[i]
  BY <1>3
<1>5. one \in Seq(S) /\ Len(s) = Len(one)
  BY <1>3
<1> HIDE DEF one
<1>6. s = one
  BY <1>4, <1>5, SeqEqual
<1> QED
  BY <1>1, <1>2, <1>6 DEF one

\* A symbol in front of what else there is in its path.
SymbolHead(t) == <<AnsiSymbol, Len(t)>> \o t \o (IF Odd(Len(t)) THEN <<0>> ELSE <<>>)

LEMMA HeadIs ==
    ASSUME NEW t \in Seq(Nat)
    PROVE  LET h == SymbolHead(t)
               n == Len(t)
           IN  /\ h \in Seq(Nat) /\ n \in Nat
               /\ Len(h) = 2 + n + ((2 + n) % 2)
               /\ h[1] = AnsiSymbol /\ h[2] = n
               /\ \A i \in 1 .. n : h[2 + i] = t[i]
<1> DEFINE n == Len(t)
           lead == <<AnsiSymbol, n>>
           pad == IF Odd(n) THEN <<0>> ELSE <<>>
           a == lead \o t
           h == SymbolHead(t)
<1>1. n \in Nat /\ lead \in Seq(Nat) /\ Len(lead) = 2 /\ lead[1] = AnsiSymbol /\ lead[2] = n
  BY DEF AnsiSymbol
<1>2. pad \in Seq(Nat) /\ Len(pad) = n % 2
  <2>1. CASE n % 2 = 1
    BY <2>1 DEF Odd
  <2>2. CASE n % 2 # 1
    <3>1. n % 2 = 0
      BY <1>1, <2>2
    <3> QED
      BY <2>2, <3>1 DEF Odd
  <2> QED
    BY <2>1, <2>2
<1>3. h = a \o pad
  BY DEF SymbolHead
<1>4. n % 2 = (2 + n) % 2 /\ n % 2 \in Nat
  BY <1>1
<1> HIDE DEF lead, pad, n
<1>5. a \in Seq(Nat) /\ Len(a) = 2 + n /\ a[1] = AnsiSymbol /\ a[2] = n
      /\ \A i \in 1 .. n : a[2 + i] = t[i]
  <2>1. /\ a \in Seq(Nat) /\ Len(a) = Len(lead) + Len(t)
        /\ \A i \in 1 .. Len(lead) : a[i] = lead[i]
        /\ \A i \in 1 .. Len(t) : a[Len(lead) + i] = t[i]
    <3>1. lead \in Seq(Nat)
      BY <1>1
    <3> QED
      BY <3>1
  <2>2. 1 \in 1 .. Len(lead) /\ 2 \in 1 .. Len(lead)
    BY <1>1
  <2> HIDE DEF a
  <2> QED
    BY <1>1, <2>1, <2>2 DEF n
<1> HIDE DEF a
<1>6. a \o pad \in Seq(Nat) /\ Len(a \o pad) = Len(a) + Len(pad)
      /\ \A i \in 1 .. Len(a) : (a \o pad)[i] = a[i]
  <2>1. a \in Seq(Nat) /\ pad \in Seq(Nat)
    BY <1>2, <1>5
  <2> QED
    BY ONLY <2>1, ConcatProperties
<1>7. 1 \in 1 .. Len(a) /\ 2 \in 1 .. Len(a) /\ \A i \in 1 .. n : 2 + i \in 1 .. Len(a)
  BY <1>1, <1>5
<1> HIDE DEF h
<1>8. Len(h) = 2 + n + (n % 2)
  BY <1>1, <1>2, <1>3, <1>5, <1>6
<1>9. h \in Seq(Nat) /\ h[1] = AnsiSymbol /\ h[2] = n /\ \A i \in 1 .. n : h[2 + i] = t[i]
  BY <1>3, <1>5, <1>6, <1>7
<1> QED
  BY <1>1, <1>4, <1>8, <1>9 DEF n, h

LEMMA SymbolText ==
    ASSUME NEW p \in AppPaths, SymbolicPath(p), NEW omit,
           Short(p, Kept(p, {})), ShortMembers(p), NEW rest \in Seq(Nat)
    PROVE  /\ SerializeAppPath(p, omit) \in Seq(Nat)
           /\ SerializeAppPath(p, omit) \o rest
                 = SymbolHead(p.tag[1]) \o (Logical(p, CONN_PT, {}) \o MembersLeft(p, 0, rest))
<1> DEFINE t == p.tag[1]
           h == SymbolHead(t)
           l == Logical(p, CONN_PT, {})
           a == Member(p, 1)
           b == Member(p, 2)
           c == Member(p, 3)
<1>1. t \in Seq(Nat) /\ p.tag # <<>>
  <2>1. p.tag \in Seq(Seq(Byte)) /\ Len(p.tag) = 1
    BY DEF SymbolicPath, AppPaths
  <2>2. t \in Seq(Byte) /\ p.tag # <<>>
    BY <2>1, OnlyMember
  <2> QED
    BY <2>2, BytesAreNats
<1>2. h \in Seq(Nat)
  BY <1>1, HeadIs
<1>3. l \in Seq(Nat)
  BY KeptSegments, LevelNumbers
<1>4. a \in Seq(Nat) /\ b \in Seq(Nat) /\ c \in Seq(Nat)
  BY MemberSegments
<1>5. SerializeAppPath(p, omit) = Cat(Cat(Cat(Cat(h, l), a), b), c)
  BY <1>1 DEF SerializeAppPath, SymbolHead, Cat
<1>6. MembersLeft(p, 0, rest) = Cat(a, Cat(b, Cat(c, rest)))
  BY DEF MembersLeft, Cat
<1> HIDE DEF h, l, a, b, c
<1>7. /\ Cat(Cat(Cat(Cat(Cat(h, l), a), b), c), rest)
            = Cat(h, Cat(l, Cat(a, Cat(b, Cat(c, rest)))))
      /\ Cat(Cat(Cat(Cat(h, l), a), b), c) \in Seq(Nat)
  BY <1>2, <1>3, <1>4, SixParts
<1>8. Cat(SerializeAppPath(p, omit), rest) = Cat(h, Cat(l, MembersLeft(p, 0, rest)))
  BY <1>5, <1>6, <1>7
<1> QED
  BY <1>5, <1>7, <1>8, Zenon DEF h, l, Cat

\* What a symbol is read into: no level, no member id.
NoStuff == [f \in Levels |-> Absent]

SymbolAhead(in, head, size, tag, tail) ==
    LET end == head + size + ((head + size) % 2)
    IN  /\ ~(size > MaxTag) /\ ~(Len(in) < end)
        /\ tag = <<SubSeq(in, head + 1, head + size)>> /\ tail = Past(in, end)

LEMMA SymbolStart ==
    \A in, head, size, tag, tail :
        SymbolAhead(in, head, size, tag, tail) =>
           ReadSymbol(in, head, size)
              = ReadMember(ReadMember(ReadMember(
                   ReadLevel(Reading(NoStuff, tag, <<>>, tail, LOGICAL_END), CONN_PT))))
<1> SUFFICES ASSUME NEW in, NEW head, NEW size, NEW tag, NEW tail,
                    SymbolAhead(in, head, size, tag, tail)
             PROVE  ReadSymbol(in, head, size)
                       = ReadMember(ReadMember(ReadMember(
                            ReadLevel(Reading(NoStuff, tag, <<>>, tail, LOGICAL_END), CONN_PT))))
  OBVIOUS
<1> DEFINE end == head + size + ((head + size) % 2)
           st == [bad |-> FALSE, in |-> Past(in, end), last |-> LOGICAL_END,
                  path |-> [stuff |-> NoPath.stuff, members |-> <<>>,
                            tag |-> <<SubSeq(in, head + 1, head + size)>>]]
<1>1. NoPath.stuff = NoStuff
  BY DEF NoPath, NoStuff
<1>2. ~(size > MaxTag \/ Len(in) < end)
  BY DEF SymbolAhead
<1>3. st = Reading(NoStuff, tag, <<>>, tail, LOGICAL_END)
  BY <1>1 DEF Reading, SymbolAhead
<1>4. ReadSymbol(in, head, size) = ReadMember(ReadMember(ReadMember(ReadLevel(st, CONN_PT))))
  BY <1>2, Zenon DEF ReadSymbol
<1> HIDE DEF st
<1> QED
  BY <1>3, <1>4

\* The connection point of a symbol, if it has one.
LEMMA SymbolLevel ==
    ASSUME NEW p \in AppPaths, SymbolicPath(p), Short(p, Kept(p, {})), ShortMembers(p),
           NEW rest \in Seq(Nat), Lead(rest) # MemberId, Lead(rest) # Code[CONN_PT],
           NEW tag
    PROVE  \E last :
              ReadLevel(Reading(NoStuff, tag, <<>>,
                                Logical(p, CONN_PT, {}) \o MembersLeft(p, 0, rest), LOGICAL_END), CONN_PT)
                 = Reading(p.stuff, tag, <<>>, MembersLeft(p, 0, rest), last)
<1> DEFINE l == Logical(p, CONN_PT, {})
           m == MembersLeft(p, 0, rest)
           v == p.stuff[CONN_PT]
           in == l \o m
           st == Reading(NoStuff, tag, <<>>, in, LOGICAL_END)
<1>1. m \in Seq(Nat)
  BY MembersLeftIs
<1>2. CONN_PT \in Levels /\ Code[CONN_PT] = 44 /\ MemberId = 40 /\ LOGICAL_END # INSTANCE_ID
  BY LevelNumbers, CodesAre DEF MemberId
<1>3. ~Boundary(st, CONN_PT) /\ st.in = in
  <2>1. st.last = LOGICAL_END /\ st.in = in
    BY DEF Reading
  <2> HIDE DEF st
  <2> QED
    BY <1>2, <2>1 DEF Boundary
<1>4. \A f \in Levels : f # CONN_PT => p.stuff[f] = Absent
  BY DEF SymbolicPath, Has
<1>5. CASE Has(p, CONN_PT)
  <2>1. l = serialize_logical(Code[CONN_PT], v)
    BY <1>5 DEF Logical
  <2>2. v \in Nat /\ v < 65536
    BY <1>2, <1>5 DEF Kept, Short
  <2>3. p.stuff = [NoStuff EXCEPT ![CONN_PT] = v]
    <3>1. p.stuff = [f \in Levels |-> p.stuff[f]]
      BY DEF AppPaths
    <3>2. [NoStuff EXCEPT ![CONN_PT] = v] = [f \in Levels |-> IF f = CONN_PT THEN v ELSE Absent]
      BY DEF NoStuff
    <3> QED
      BY <1>4, <3>1, <3>2
  <2>4. LevelAhead(CONN_PT, v, m, st)
    <3>1. in = serialize_logical(Code[CONN_PT], v) \o m
      BY <2>1
    <3>2. st.in = serialize_logical(Code[CONN_PT], v) \o m
      BY <1>3, <3>1, Zenon
    <3> HIDE DEF st, m, v, in
    <3> QED
      BY <1>1, <1>2, <1>3, <2>2, <3>2 DEF LevelAhead
  <2> HIDE DEF in, m, l, v
  <2>5. ReadLevel(st, CONN_PT) = Reading([NoStuff EXCEPT ![CONN_PT] = v], tag, <<>>, m, CONN_PT)
    BY <2>4, LevelRead
  <2>6. ReadLevel(st, CONN_PT) = Reading(p.stuff, tag, <<>>, m, CONN_PT)
    BY <2>3, <2>5
  <2> QED
    BY <2>6 DEF in, m, l
<1>6. CASE ~Has(p, CONN_PT)
  <2>1. l = <<>>
    BY <1>6 DEF Logical
  <2>2. in = m
    <3>1. <<>> \o m = m
      BY <1>1, ConcatEmptySeq
    <3> HIDE DEF m
    <3> QED
      BY <2>1, <3>1, Zenon
  <2>3. p.stuff = NoStuff
    <3>1. p.stuff = [f \in Levels |-> p.stuff[f]]
      BY DEF AppPaths
    <3>2. \A f \in Levels : p.stuff[f] = Absent
      BY <1>4, <1>6 DEF Has
    <3> QED
      BY <3>1, <3>2 DEF NoStuff
  <2>4. Lead(m) # Code[CONN_PT]
    <3>1. CASE Len(p.members) = 0
      <4>1. m = rest
        BY <3>1, MembersLeftIs
      <4> QED
        BY <4>1
    <3>2. CASE Len(p.members) # 0
      <4> DEFINE w == p.members[1]
                 t == MembersLeft(p, 1, rest)
      <4>1. w \in Nat /\ w < 65536 /\ 1 <= Len(p.members)
        BY <3>2 DEF ShortMembers
      <4>2. t \in Seq(Nat) /\ m = Member(p, 1) \o t
        <5>1. 1 \in {1, 2, 3} /\ 1 - 1 = 0
          OBVIOUS
        <5> QED
          BY <5>1, MembersLeftIs
      <4>3. Member(p, 1) = serialize_logical(MemberId, w)
        BY <4>1 DEF Member
      <4>4. MemberId \in Codes
        BY DEF Codes
      <4> HIDE DEF w, t, m
      <4>5. LET a == serialize_logical(MemberId, w)
            IN  Lead(a \o t) = MemberId
        BY <4>1, <4>2, <4>4, SegmentRead
      <4>6. m = serialize_logical(MemberId, w) \o t
        BY <4>2, <4>3, Zenon
      <4>7. Lead(m) = MemberId
        BY <4>5, <4>6, Zenon
      <4> QED
        BY <1>2, <4>7
    <3> QED
      BY <3>1, <3>2
  <2> HIDE DEF in, m, l
  <2>5. ReadLevel(Reading(NoStuff, tag, <<>>, m, LOGICAL_END), CONN_PT)
           = Reading(NoStuff, tag, <<>>, m, LOGICAL_END)
    BY <1>1, <1>2, <2>4, LevelPassed
  <2>6. ReadLevel(st, CONN_PT) = Reading(p.stuff, tag, <<>>, m, LOGICAL_END)
    BY <2>2, <2>3, <2>5
  <2> QED
    BY <2>6 DEF in, m, l
<1> QED
  BY <1>5, <1>6

LEMMA SymbolRead ==
    ASSUME NEW p \in AppPaths, SymbolicPath(p), Short(p, Kept(p, {})), ShortMembers(p),
           NEW rest \in Seq(Nat), Lead(rest) # MemberId, Lead(rest) # Code[CONN_PT],
           NEW omit, NEW in, in = Cat(SerializeAppPath(p, omit), rest), NEW prev
    PROVE  LET got == DeserializeAppPath(in, prev)
           IN  /\ in \in Seq(Nat) /\ in # <<>> /\ in[1] = AnsiSymbol
               /\ ~got.bad /\ got.in = rest /\ got.path = p
<1> DEFINE t == p.tag[1]
           n == Len(t)
           h == SymbolHead(t)
           tail == Logical(p, CONN_PT, {}) \o MembersLeft(p, 0, rest)
           end == 2 + n + ((2 + n) % 2)
           tag == <<SubSeq(in, 3, 2 + n)>>
<1>1. t \in Seq(Nat) /\ n \in Nat /\ n <= MaxTag /\ p.tag = <<t>>
  <2>1. p.tag \in Seq(Seq(Byte)) /\ Len(p.tag) = 1 /\ Len(p.tag[1]) <= MaxTag
    BY DEF SymbolicPath, AppPaths
  <2>2. t \in Seq(Byte) /\ p.tag = <<t>>
    BY <2>1, OnlyMember
  <2> QED
    BY <2>1, <2>2, BytesAreNats
<1>2. h \in Seq(Nat) /\ Len(h) = end /\ h[1] = AnsiSymbol /\ h[2] = n
      /\ \A i \in 1 .. n : h[2 + i] = t[i]
  BY <1>1, HeadIs
<1>3. tail \in Seq(Nat)
  <2>1. Logical(p, CONN_PT, {}) \in Seq(Nat)
    BY KeptSegments, LevelNumbers
  <2>2. MembersLeft(p, 0, rest) \in Seq(Nat)
    BY MembersLeftIs
  <2> QED
    BY <2>1, <2>2, Both
<1>4. in = h \o tail
  <2>1. in = SerializeAppPath(p, omit) \o rest
    BY DEF Cat
  <2> QED
    BY <2>1, SymbolText, Zenon
<1> HIDE DEF n
<1>9. end \in Nat /\ end >= 2 + n
  BY <1>1
<1> HIDE DEF h, tail, end, t
<1>5. /\ in \in Seq(Nat) /\ Len(in) = end + Len(tail) /\ Len(tail) \in Nat
      /\ \A i \in 1 .. end : in[i] = h[i]
      /\ Past(in, end) = tail
  <2>1. /\ h \o tail \in Seq(Nat) /\ Len(h \o tail) = Len(h) + Len(tail) /\ Len(tail) \in Nat
        /\ \A i \in 1 .. Len(h) : (h \o tail)[i] = h[i]
        /\ Past(h \o tail, Len(h)) = tail
    BY <1>2, <1>3, Front
  <2> QED
    BY <1>2, <1>4, <2>1, Zenon
<1>6. in[1] = AnsiSymbol /\ in[2] = n /\ in # <<>> /\ ~(Len(in) < 2) /\ ~(Len(in) < end)
  <2>1. 1 \in 1 .. end /\ 2 \in 1 .. end
    BY <1>1, <1>9
  <2>2. in[1] = AnsiSymbol /\ in[2] = n
    BY <1>2, <1>5, <2>1
  <2>3. ~(Len(in) < 2) /\ ~(Len(in) < end)
    BY <1>1, <1>5, <1>9
  <2>4. in # <<>>
    BY <1>5, <2>3
  <2> QED
    BY <2>2, <2>3, <2>4
<1>7. SubSeq(in, 3, 2 + n) = t
  <2> DEFINE s == SubSeq(in, 3, 2 + n)
  <2>1. s \in Seq(Nat) /\ Len(s) = n /\ \A i \in 1 .. n : s[i] = in[2 + i]
    <3>1. 3 \in 1 .. Len(in) + 1 /\ 2 + n \in 3 - 1 .. Len(in)
      BY <1>1, <1>5, <1>9
    <3>2. Len(s) = n
      BY <1>1, <1>5, <3>1
    <3>3. \A i \in 1 .. n : s[i] = in[2 + i]
      BY <1>1, <1>5, <3>1
    <3>4. s \in Seq(Nat)
      BY <1>1, <1>5, <3>1
    <3> QED
      BY <3>2, <3>3, <3>4
  <2>2. \A i \in 1 .. n : 2 + i \in 1 .. end
    BY <1>1, <1>9
  <2>3. \A i \in 1 .. n : s[i] = t[i]
    BY <1>2, <1>5, <2>1, <2>2
  <2> HIDE DEF s
  <2>4. s = t
    BY <1>1, <2>1, <2>3, SeqEqual DEF n
  <2> QED
    BY <2>4 DEF s
<1>8. DeserializeAppPath(in, prev) = ReadSymbol(in, 2, n)
  <2>1. DeserializeAppPath(in, prev) = ReadSymbol(in, 2, in[2])
    BY <1>6 DEF DeserializeAppPath, AnsiSymbol
  <2> QED
    BY <1>6, <2>1
<1>10. tag = p.tag
  BY <1>1, <1>7
<1>11. ReadSymbol(in, 2, n)
          = ReadMember(ReadMember(ReadMember(
               ReadLevel(Reading(NoStuff, p.tag, <<>>, tail, LOGICAL_END), CONN_PT))))
  <2>1. end = 2 + n + ((2 + n) % 2) /\ 2 + 1 = 3 /\ ~(n > MaxTag)
    BY <1>1 DEF end, MaxTag
  <2>2. p.tag = <<SubSeq(in, 2 + 1, 2 + n)>>
    BY <1>10, <2>1
  <2>3. tail = Past(in, end) /\ ~(Len(in) < end)
    BY <1>5, <1>6
  <2>4. SymbolAhead(in, 2, n, p.tag, tail)
    BY <2>1, <2>2, <2>3 DEF SymbolAhead
  <2> QED
    BY <2>4, SymbolStart
<1>12. PICK last :
          ReadLevel(Reading(NoStuff, p.tag, <<>>, tail, LOGICAL_END), CONN_PT)
             = Reading(p.stuff, p.tag, <<>>, MembersLeft(p, 0, rest), last)
  BY SymbolLevel DEF tail
<1> DEFINE whole == Reading(p.stuff, p.tag, p.members, rest, last)
<1>13. ReadMember(ReadMember(ReadMember(
          Reading(p.stuff, p.tag, <<>>, MembersLeft(p, 0, rest), last)))) = whole
  BY MembersAll
<1>14. whole.bad = FALSE /\ whole.in = rest /\ whole.path = p
  BY DEF Reading, AppPaths
<1> HIDE DEF whole
<1>15. DeserializeAppPath(in, prev) = whole
  BY <1>8, <1>11, <1>12, <1>13
<1> QED
  BY <1>5, <1>6, <1>14, <1>15

LEMMA Dispatch ==
    ASSUME NEW in \in Seq(Nat), in # <<>>, Lead(in) \in Codes \cup {SimpleData}, NEW prev
    PROVE  DeserializeAppPath(in, prev) = ReadLogical(in, prev)
<1> DEFINE b == in[1]
<1>1. b \in Nat
  <2>1. Len(in) \in Nat /\ Len(in) # 0
    BY EmptySeq, LenProperties
  <2>2. 1 \in 1 .. Len(in)
    BY <2>1
  <2> QED
    BY <2>2, ElementOfSeq
<1>2. Lead(in) = b - (b % 4)
  BY DEF Lead
<1> HIDE DEF b
<1>3. b - (b % 4) <= 48 \/ b - (b % 4) = 128
  BY <1>2, CodesAre DEF SimpleData
<1>4. b % 4 \in 0 .. 3
  BY <1>1
<1>5. b # 145 /\ ~(b \in 96 .. 127)
  <2> DEFINE m == b % 4
  <2>1. m \in 0 .. 3 /\ (b - m <= 48 \/ b - m = 128)
    BY <1>3, <1>4
  <2> HIDE DEF m
  <2> QED
    BY <1>1, <2>1
<1> QED
  BY <1>5 DEF DeserializeAppPath, AnsiSymbol, b

\* What a logical path that follows prev is read into, if rest comes after it.
LEMMA LogicalIsRead ==
    ASSUME NEW p \in AppPaths, LogicalPath(p), NEW omit, MayOmit(p, omit),
           Short(p, Kept(p, omit)), Kept(p, omit) # {}, NEW rest \in Seq(Nat),
           Apart(p, Kept(p, omit), rest), NEW prev, Restored(prev, p, Kept(p, omit)),
           NEW in, in = Cat(SerializeAppPath(p, omit), rest)
    PROVE  LET got == DeserializeAppPath(in, prev)
           IN  /\ in \in Seq(Nat) /\ in # <<>>
               /\ \E g \in Kept(p, omit) :
                     Lead(in) = Code[g] /\ \A h \in Kept(p, omit) : h <= g
               /\ ~got.bad /\ got.in = rest /\ got.path = p
<1> DEFINE W == Kept(p, omit)
<1>1. in = Unread(p, W, 4, rest) /\ ~(Closed(p, W) /\ CONN_PT \in W)
  <2>1. in = SerializeAppPath(p, omit) \o rest
    BY DEF Cat
  <2> QED
    BY <2>1, LogicalText, Zenon
<1>2. \A g \in W : g \in Levels /\ g < 4
  BY LevelNumbers DEF Short
<1>3. /\ in \in Seq(Nat)
      /\ \E g \in W : /\ Lead(in) = Code[g] /\ in # <<>>
                      /\ \A h \in W : h <= g
  <2>1. 4 \in 0 .. 4 /\ \E g \in W : g < 4
    BY <1>2
  <2> HIDE DEF W
  <2>2. /\ Unread(p, W, 4, rest) \in Seq(Nat)
        /\ \E g \in W : /\ g < 4 /\ Lead(Unread(p, W, 4, rest)) = Code[g]
                        /\ Unread(p, W, 4, rest) # <<>>
                        /\ \A h \in W : h < 4 => h <= g
    BY <2>1, UnreadLead DEF W
  <2> QED
    BY <1>1, <1>2, <2>2
<1>4. p.tag = <<>> /\ p.members = <<>>
  BY DEF LogicalPath
<1>5. LET got == ReadLogical(Unread(p, W, 4, rest), prev)
      IN  ~got.bad /\ got.in = rest /\ got.path = p
  <2> HIDE DEF W
  <2> QED
    BY <1>1, <1>4, LogicalRead DEF W
<1>6. Lead(in) \in Codes
  BY <1>2, <1>3 DEF Codes
<1> HIDE DEF W
<1>7. DeserializeAppPath(in, prev) = ReadLogical(in, prev)
  BY <1>3, <1>6, Dispatch
<1> QED
  BY <1>1, <1>3, <1>5, <1>7 DEF W

\* No path is read where there is none: at the end, or before the data.
LEMMA NothingIsRead ==
    ASSUME NEW in \in Seq(Nat), in # <<>>, Lead(in) = SimpleData, NEW prev
    PROVE  LET got == DeserializeAppPath(in, prev)
           IN  ~got.bad /\ got.in = in /\ got.path = NoPath
<1> DEFINE p == NoPath
           W == {}
<1>1. p \in AppPaths /\ p.tag = <<>> /\ p.members = <<>> /\ p.stuff = [f \in Levels |-> Absent]
  BY DEF NoPath, AppPaths
<1>2. Short(p, W) /\ ~(Closed(p, W) /\ CONN_PT \in W)
  BY <1>1 DEF Short, Stuffs
<1>3. Apart(p, W, in)
  <2>1. \A f \in Levels : Code[f] # SimpleData
    <3>1. \A c \in Codes : c # SimpleData
      BY CodesAre DEF SimpleData
    <3>2. \A f \in Levels : Code[f] \in Codes
      BY DEF Codes
    <3> QED
      BY <3>1, <3>2
  <2> QED
    BY <2>1 DEF Apart
<1>4. Restored(prev, p, W)
  <2>1. LastRead(W, 0) = 4
    BY LevelNumbers DEF LastRead
  <2>2. Inherited(prev, 4) = {}
    BY LevelNumbers DEF Inherited
  <2> QED
    BY <1>1, <2>1, <2>2 DEF Restored
<1>5. Unread(p, W, 4, in) = in
  BY <1>2, UnreadLead
<1> HIDE DEF p, W
<1>6. LET got == ReadLogical(Unread(p, W, 4, in), prev)
      IN  ~got.bad /\ got.in = in /\ got.path = p
  BY <1>1, <1>2, <1>3, <1>4, LogicalRead
<1>7. DeserializeAppPath(in, prev) = ReadLogical(in, prev)
  BY Dispatch
<1> QED
  BY <1>5, <1>6, <1>7 DEF p

-----------------------------------------------------------------------------
(* The data segment.                                                         *)

LEMMA Joined ==
    \A a, b \in Seq(Nat) :
        /\ a \o b \in Seq(Nat) /\ Len(a \o b) = Len(a) + Len(b)
        /\ \A i \in 1 .. Len(a) : (a \o b)[i] = a[i]
        /\ \A i \in 1 .. Len(b) : (a \o b)[Len(a) + i] = b[i]
OBVIOUS

LEMMA WordRange == \A v \in Word : v \in Nat /\ v < 65536
<1>1. 2^16 - 1 = 65535
  OBVIOUS
<1> SUFFICES ASSUME NEW v \in Word PROVE v \in Nat /\ v < 65536
  OBVIOUS
<1>2. v \in 0 .. 2^16 - 1
  BY DEF Word
<1> DEFINE top == 2^16 - 1
<1>0. top = 65535
  BY <1>1
<1>3. v \in 0 .. top
  BY <1>2
<1> HIDE DEF top
<1>4. v \in Nat /\ v <= top
  <2>1. \A n \in Nat : \A k \in 0 .. n : k \in Nat /\ k <= n
    OBVIOUS
  <2>2. top \in Nat
    BY <1>0
  <2> QED
    BY ONLY <1>3, <2>1, <2>2, Zenon
<1> QED
  BY ONLY <1>0, <1>4

LEMMA Halves ==
    ASSUME NEW j \in Nat, j >= 1
    PROVE  /\ ((2 * j - 1) + 1) \div 2 = j /\ (2 * j - 1) % 2 = 1
           /\ (2 * j + 1) \div 2 = j /\ (2 * j) % 2 = 0
OBVIOUS

\* The words of a data segment as bytes.
Bytes(w) == [i \in 1 .. 2 * Len(w) |-> Le16(w[(i + 1) \div 2])[2 - (i % 2)]]

LEMMA BytesAre ==
    ASSUME NEW w \in Seq(Word)
    PROVE  /\ Bytes(w) \in Seq(Nat) /\ Len(Bytes(w)) = 2 * Len(w)
           /\ \A j \in 1 .. Len(w) : Bytes(w)[2 * j - 1] + 256 * Bytes(w)[2 * j] = w[j]
<1> DEFINE n == Len(w)
           b == Bytes(w)
<1>1. n \in Nat /\ \A j \in 1 .. n : w[j] \in Nat /\ w[j] < 65536
  <2>1. \A v \in Word : v \in Nat /\ v < 65536
    BY WordRange
  <2>2. \A j \in 1 .. n : w[j] \in Word
    BY ElementOfSeq
  <2> QED
    BY <2>1, <2>2
<1>2. b = [i \in 1 .. 2 * n |-> Le16(w[(i + 1) \div 2])[2 - (i % 2)]]
  BY DEF Bytes
<1>3. ASSUME NEW i \in 1 .. 2 * n
      PROVE  b[i] \in Nat
  <2> DEFINE j == (i + 1) \div 2
             v == w[j]
             k == 2 - (i % 2)
  <2>1. j \in 1 .. n /\ k \in {1, 2}
    BY <1>1
  <2>2. v \in Nat /\ v < 65536
    BY <1>1, <2>1
  <2>3. b[i] = Le16(v)[k]
    BY <1>2
  <2> HIDE DEF v, k, b
  <2>4. Le16(v) = <<v % 256, v \div 256>> /\ v % 256 \in Nat /\ v \div 256 \in Nat
    BY <2>2, Le16Is
  <2> QED
    BY <2>1, <2>3, <2>4
<1>4. ASSUME NEW j \in 1 .. n
      PROVE  b[2 * j - 1] + 256 * b[2 * j] = w[j]
  <2> DEFINE v == w[j]
  <2>1. /\ 2 * j - 1 \in 1 .. 2 * n /\ 2 * j \in 1 .. 2 * n
        /\ ((2 * j - 1) + 1) \div 2 = j /\ (2 * j - 1) % 2 = 1
        /\ (2 * j + 1) \div 2 = j /\ (2 * j) % 2 = 0
    <3>1. j \in Nat /\ j >= 1
      BY <1>1
    <3> QED
      BY <1>1, <3>1, Halves
  <2>2. b[2 * j - 1] = Le16(v)[2 - 1] /\ b[2 * j] = Le16(v)[2 - 0]
    <3> DEFINE L(x) == Le16(w[x])
    <3>1. b = [i \in 1 .. 2 * n |-> L((i + 1) \div 2)[2 - (i % 2)]]
      BY <1>2
    <3> HIDE DEF L, b
    <3> SUFFICES b[2 * j - 1] = L(j)[2 - 1] /\ b[2 * j] = L(j)[2 - 0]
      BY DEF L
    <3>2. b[2 * j - 1] = L(((2 * j - 1) + 1) \div 2)[2 - ((2 * j - 1) % 2)]
      BY <2>1, <3>1
    <3>3. b[2 * j] = L((2 * j + 1) \div 2)[2 - ((2 * j) % 2)]
      BY <2>1, <3>1
    <3> QED
      BY <2>1, <3>2, <3>3
  <2>3. v \in Nat /\ v < 65536
    BY <1>1
  <2> HIDE DEF v, b
  <2>4. Le16(v) = <<v % 256, v \div 256>> /\ (v % 256) + 256 * (v \div 256) = v
    BY <2>3, Le16Is
  <2>5. b[2 * j - 1] = v % 256 /\ b[2 * j] = v \div 256
    BY <2>2, <2>4
  <2> QED
    BY <2>4, <2>5 DEF v
<1>5. b \in Seq(Nat) /\ Len(b) = 2 * n
  <2>1. DOMAIN b = 1 .. 2 * n /\ 2 * n \in Nat
    BY <1>1, <1>2
  <2>2. b = [i \in 1 .. 2 * n |-> b[i]]
    BY <1>2
  <2> HIDE DEF b, n
  <2>3. b \in [1 .. 2 * n -> Nat]
    BY <1>3, <2>2
  <2> QED
    BY <2>1, <2>3, LenProperties
<1> QED
  BY <1>4, <1>5

LEMMA DataRead ==
    ASSUME NEW data \in Seq(Seq(Word)), Len(data) <= 1, data # <<>> => Len(data[1]) \in Byte
    PROVE  LET in == SerializeData(data)
               got == DeserializeData(in)
           IN  /\ in \in Seq(Nat)
               /\ in # <<>> => Lead(in) = SimpleData
               /\ ~got.bad /\ got.data = data /\ got.in = <<>>
<1> DEFINE in == SerializeData(data)
<1>1. CASE data = <<>>
  <2>1. in = <<>> /\ in \in Seq(Nat)
    BY <1>1 DEF SerializeData
  <2>2. DeserializeData(in) = [bad |-> FALSE, data |-> <<>>, in |-> in]
    BY <2>1, Zenon DEF DeserializeData
  <2> HIDE DEF in
  <2> QED
    BY <1>1, <2>1, <2>2 DEF in
<1>2. CASE data # <<>>
  <2> DEFINE w == data[1]
             n == Len(w)
             head == <<SimpleData, n>>
             b == Bytes(w)
  <2>1. w \in Seq(Word) /\ data = <<w>>
    <3>1. Len(data) = 1
      <4>1. Len(data) \in Nat
        BY LenProperties
      <4>2. Len(data) # 0
        BY <1>2, EmptySeq
      <4>3. \A k \in Nat : k <= 1 /\ k # 0 => k = 1
        OBVIOUS
      <4> QED
        BY <4>1, <4>2, <4>3
    <3> QED
      BY <3>1, OnlyMember
  <2>2. n \in Nat /\ b \in Seq(Nat) /\ Len(b) = 2 * n
        /\ \A j \in 1 .. n : b[2 * j - 1] + 256 * b[2 * j] = w[j]
    BY <2>1, BytesAre
  <2>3. in = head \o b
    BY <1>2 DEF SerializeData, Bytes
  <2>4. head \in Seq(Nat) /\ Len(head) = 2 /\ head[1] = SimpleData /\ head[2] = n
    BY <2>2 DEF SimpleData
  <2> HIDE DEF in, head, b, n
  <2>5. /\ in \in Seq(Nat) /\ Len(in) = 2 + 2 * n
        /\ \A i \in 1 .. 2 : in[i] = head[i]
        /\ \A i \in 1 .. 2 * n : in[2 + i] = b[i]
    <3>1. /\ head \o b \in Seq(Nat) /\ Len(head \o b) = Len(head) + Len(b)
          /\ \A i \in 1 .. Len(head) : (head \o b)[i] = head[i]
          /\ \A i \in 1 .. Len(b) : (head \o b)[Len(head) + i] = b[i]
      <4>1. head \in Seq(Nat) /\ b \in Seq(Nat)
        BY <2>2, <2>4
      <4> QED
        BY ONLY <4>1, Joined, ZenonT(30)
    <3> QED
      BY <2>2, <2>3, <2>4, <3>1, Zenon
  <2>6. in[1] = SimpleData /\ in[2] = n /\ in # <<>>
    BY <2>2, <2>4, <2>5, EmptySeq
  <2>7. ASSUME NEW j \in 1 .. n
        PROVE  Number16(in, 2 * j + 1) = w[j]
    <3>1. /\ 2 * j - 1 \in 1 .. 2 * n /\ 2 * j \in 1 .. 2 * n
          /\ 2 + (2 * j - 1) = 2 * j + 1 /\ 2 + 2 * j = (2 * j + 1) + 1
      BY <2>2
    <3>2. in[2 * j + 1] = b[2 * j - 1] /\ in[(2 * j + 1) + 1] = b[2 * j]
      BY <2>5, <3>1
    <3> QED
      BY <2>2, <3>2 DEF Number16
  <2> DEFINE got == [bad |-> FALSE, in |-> Past(in, 2 + 2 * n),
                     data |-> <<[i \in 1 .. n |-> Number16(in, 2 * i + 1)]>>]
  <2>8. DeserializeData(in) = got
    <3>1. ~(Len(in) < 2 \/ Len(in) < 2 + 2 * in[2]) /\ ~(in = <<>> \/ in[1] # SimpleData)
      BY <2>2, <2>5, <2>6
    <3>2. DeserializeData(in) = [bad |-> FALSE, in |-> Past(in, 2 + 2 * in[2]),
                     data |-> <<[i \in 1 .. in[2] |-> Number16(in, 2 * i + 1)]>>]
      BY <3>1, Zenon DEF DeserializeData
    <3> QED
      BY <2>6, <3>2
  <2>9. [i \in 1 .. n |-> Number16(in, 2 * i + 1)] = w
    <3>1. w = [i \in 1 .. n |-> w[i]]
      BY <2>1, LenProperties DEF n
    <3> QED
      BY <2>7, <3>1
  <2>10. Past(in, 2 + 2 * n) = <<>>
    <3>1. 2 + 2 * n + 1 > Len(in) /\ 2 + 2 * n + 1 \in Int
      BY <2>2, <2>5
    <3> QED
      BY <2>5, <3>1 DEF Past
  <2>11. Lead(in) = SimpleData
    BY <2>6 DEF Lead, SimpleData
  <2> QED
    BY <2>1, <2>5, <2>6, <2>8, <2>9, <2>10, <2>11 DEF in
<1> QED
  BY <1>1, <1>2

-----------------------------------------------------------------------------
(* The application paths of a request.                                       *)

PathAt(r, i) == r.path.app_path[i]
PathBefore(r, i) == IF i = 1 THEN NoPath ELSE PathAt(r, i - 1)
Omitted(r, i) == IF ~r.compressed \/ i = 1 THEN {} ELSE Shared(PathAt(r, i - 1), PathAt(r, i))
KeptAt(r, i) == Kept(PathAt(r, i), Omitted(r, i))

Clear(r) == RequestOK(r) /\ ~Ambiguous(r)

LEMMA PathKinds ==
    ASSUME NEW r, Clear(r), NEW i \in {1, 2, 3}
    PROVE  LET p == PathAt(r, i)
           IN  /\ p \in AppPaths
               /\ p = NoPath \/ LogicalPath(p) \/ SymbolicPath(p)
               /\ p = NoPath <=> ~HasAny(p)
               /\ LogicalPath(p) => HasAny(p) /\ p.tag = <<>> /\ ~SymbolicPath(p)
               /\ SymbolicPath(p) => HasAny(p)
               /\ \A omit : Short(p, Kept(p, omit))
               /\ SymbolicPath(p) => ShortMembers(p)
<1> DEFINE p == PathAt(r, i)
           ps == r.path.app_path
<1>1. RequestOK(r) /\ r \in Composed /\ PathOK(r.path) /\ ~Ambiguous(r)
  BY DEF Clear, RequestOK
<1>2. ps \in Seq(AppPaths) /\ Len(ps) = 3
  BY <1>1 DEF PathOK, Composed
<1>3. p = ps[i] /\ i \in 1 .. 3 /\ i \in 1 .. Len(ps)
  BY <1>2 DEF PathAt
<1>4. p \in AppPaths
  BY <1>2, <1>3, ElementOfSeq
<1>5. p = NoPath \/ LogicalPath(p) \/ SymbolicPath(p)
  BY <1>1, <1>3 DEF PathOK
<1>6. p = NoPath <=> ~HasAny(p)
  BY DEF HasAny
<1>7. NoPath.stuff[CLASS] = Absent /\ NoPath.tag = <<>> /\ Len(NoPath.tag) = 0
  BY LevelNumbers DEF NoPath
<1>8. LogicalPath(p) => HasAny(p) /\ p.tag = <<>> /\ ~SymbolicPath(p)
  <2>1. ASSUME LogicalPath(p)
        PROVE  p.stuff[CLASS] # Absent /\ p.tag = <<>>
    BY <2>1 DEF LogicalPath, Has
  <2>2. ASSUME p.tag = <<>>, SymbolicPath(p)
        PROVE  FALSE
    BY <1>7, <2>2 DEF SymbolicPath
  <2> HIDE DEF p
  <2> QED
    BY <1>6, <1>7, <2>1, <2>2
<1>9. SymbolicPath(p) => HasAny(p)
  <2>1. ASSUME SymbolicPath(p)
        PROVE  Len(p.tag) = 1
    BY <2>1 DEF SymbolicPath
  <2> HIDE DEF p
  <2> QED
    BY <1>6, <1>7, <2>1
<1>10. p.stuff \in Stuffs /\ p.members \in Seq(Nat)
  BY <1>4 DEF AppPaths, Stuffs
<1>11. \A f \in Levels : ~(p.stuff[f] >= 65536)
  BY <1>1, <1>3 DEF Ambiguous
<1>12. \A m \in DOMAIN p.members : ~(p.members[m] >= 65536)
  BY <1>1, <1>3 DEF Ambiguous
<1> HIDE DEF p
<1>13. ASSUME NEW omit
       PROVE  Short(p, Kept(p, omit))
  <2>1. \A f \in Kept(p, omit) : f \in Levels /\ p.stuff[f] # Absent
    BY DEF Kept, Has
  <2>2. \A f \in Levels : p.stuff[f] \in Nat \cup {Absent}
    BY <1>10 DEF Stuffs
  <2>3. \A v \in Nat : ~(v >= 65536) => v < 65536
    OBVIOUS
  <2>4. \A f \in Kept(p, omit) : p.stuff[f] \in Nat /\ p.stuff[f] < 65536
    BY <1>11, <2>1, <2>2, <2>3
  <2> QED
    BY <1>10, <2>1, <2>4 DEF Short
<1>14. ASSUME SymbolicPath(p)
       PROVE  ShortMembers(p)
  <2>1. Len(p.members) <= 3
    BY <1>14 DEF SymbolicPath
  <2>2. \A m \in DOMAIN p.members : p.members[m] \in Nat
    BY <1>10
  <2>3. \A v \in Nat : ~(v >= 65536) => v < 65536
    OBVIOUS
  <2>4. \A m \in DOMAIN p.members : p.members[m] < 65536
    BY <1>12, <2>2, <2>3
  <2> QED
    BY <1>10, <2>1, <2>4 DEF ShortMembers
<1> QED
  BY <1>4, <1>5, <1>6, <1>8, <1>9, <1>13, <1>14 DEF p

\* Paths come one after another, without a gap.
LEMMA NoGaps ==
    ASSUME NEW r, Clear(r), NEW i \in {1, 2}, PathAt(r, i) = NoPath
    PROVE  PathAt(r, i + 1) = NoPath
<1>1. PathOK(r.path)
  BY DEF Clear, RequestOK
<1>2. HasAny(r.path.app_path[i + 1]) => HasAny(r.path.app_path[i])
  BY <1>1 DEF PathOK
<1> QED
  BY <1>2 DEF HasAny, PathAt

\* A logical path of the later ones, in the words of Ambiguous.
LEMMA LaterLogical ==
    ASSUME NEW r, Clear(r), NEW i \in {2, 3}, LogicalPath(PathAt(r, i))
    PROVE  /\ i \in Logicals(r) /\ ~Acquires(r.path, i)
           /\ r.compressed => ~Continues(r.path, i) /\ ~Loses(r.path, i)
           /\ i - 1 \in {1, 2} /\ PathAt(r, i - 1) # NoPath
<1>1. i \in {1, 2, 3} /\ i \in 2 .. 3 /\ i - 1 \in {1, 2} /\ (i - 1) + 1 = i
  OBVIOUS
<1>2. HasAny(PathAt(r, i)) /\ PathAt(r, i).tag = <<>> /\ PathAt(r, i) # NoPath
  <2>1. LET p == PathAt(r, i) IN HasAny(p) /\ p.tag = <<>> /\ (p = NoPath <=> ~HasAny(p))
    BY <1>1, PathKinds
  <2> QED
    BY <2>1
<1>3. i \in Logicals(r)
  BY <1>1, <1>2 DEF Logicals, PathAt
<1>4. ~Ambiguous(r)
  BY DEF Clear
<1>5. ~Acquires(r.path, i) /\ (r.compressed => ~Continues(r.path, i) /\ ~Loses(r.path, i))
  BY <1>3, <1>4 DEF Ambiguous
<1>6. PathAt(r, i - 1) # NoPath
  BY <1>1, <1>2, NoGaps
<1> QED
  BY <1>1, <1>3, <1>5, <1>6

LEMMA KeptIsWritten ==
    ASSUME NEW r, r.compressed, NEW i
    PROVE  KeptAt(r, i) = Written(r.path, i)
BY DEF KeptAt, Kept, Omitted, Written, PathAt

\* A level is left out only above one that the path has.
Lean(p, omit) ==
    /\ ATTRIBUTE \notin omit
    /\ CONN_PT \in omit => Has(p, ATTRIBUTE)
    /\ INSTANCE_ID \in omit => Has(p, CONN_PT) \/ Has(p, ATTRIBUTE)

LEMMA OmittedIsLean ==
    ASSUME NEW r, NEW i
    PROVE  Lean(PathAt(r, i), Omitted(r, i)) /\ MayOmit(PathAt(r, i), Omitted(r, i))
<1>1. \A prev, p : Lean(p, Shared(prev, p)) /\ Lean(p, {})
  BY LevelNumbers DEF Lean, Shared
<1>2. \A p, omit : Lean(p, omit) => MayOmit(p, omit)
  BY DEF Lean, MayOmit
<1>3. Lean(PathAt(r, i), Omitted(r, i))
  BY <1>1 DEF Omitted
<1> QED
  BY <1>2, <1>3

LEMMA KeptLogical ==
    ASSUME NEW r, Clear(r), NEW i \in {1, 2, 3}, LogicalPath(PathAt(r, i))
    PROVE  /\ KeptAt(r, i) # {} /\ KeptAt(r, i) \subseteq Levels
           /\ i = 1 => CLASS \in KeptAt(r, i)
           /\ ~r.compressed => CLASS \in KeptAt(r, i)
           /\ i # 1 /\ SymbolicPath(PathAt(r, i - 1)) => CLASS \in KeptAt(r, i)
<1> DEFINE p == PathAt(r, i)
           W == KeptAt(r, i)
<1>1. Has(p, CLASS) /\ CLASS \in Levels
  BY LevelNumbers DEF LogicalPath
<1>2. \A f : f \in W <=> f \in Levels /\ Has(p, f) /\ f \notin Omitted(r, i)
  BY DEF KeptAt, Kept
<1>3. ~r.compressed \/ i = 1 => CLASS \in W
  <2>1. ASSUME ~r.compressed \/ i = 1
        PROVE  Omitted(r, i) = {}
    BY <2>1 DEF Omitted
  <2> QED
    BY <1>1, <1>2, <2>1
<1>4. ASSUME r.compressed, i # 1
      PROVE  W # {} /\ (SymbolicPath(PathAt(r, i - 1)) => CLASS \in W)
  <2>1. ~Continues(r.path, i) /\ ~Loses(r.path, i)
    <3>1. i \in {2, 3}
      BY <1>4
    <3> QED
      BY <1>4, <3>1, LaterLogical
  <2>2. W = Written(r.path, i)
    BY <1>4, KeptIsWritten
  <2>3. W # {}
    BY <2>1, <2>2 DEF Continues
  <2>4. ASSUME SymbolicPath(PathAt(r, i - 1))
        PROVE  CLASS \in W
    <3> DEFINE prev == PathAt(r, i - 1)
    <3>1. ~Has(prev, CLASS)
      BY <1>1, <2>4, LevelNumbers DEF SymbolicPath
    <3>2. CLASS \notin TakenOver(prev, p)
      BY <3>1 DEF TakenOver
    <3>3. \A f \in Shared(prev, p) : Has(p, f) => f \in TakenOver(prev, p)
      BY <2>1 DEF Loses, PathAt
    <3>4. CLASS \notin Shared(prev, p)
      BY <1>1, <3>2, <3>3
    <3>5. Omitted(r, i) = Shared(prev, p)
      BY <1>4 DEF Omitted
    <3> QED
      BY <1>1, <1>2, <3>4, <3>5
  <2> QED
    BY <2>3, <2>4
<1>5. W \subseteq Levels
  BY <1>2
<1> QED
  BY <1>3, <1>4, <1>5

\* The lowest level of a path is written, so that it is the last one read.
LEMMA LowestKept ==
    ASSUME NEW p, NEW omit, Lean(p, omit), Kept(p, omit) # {}, Has(p, CLASS)
    PROVE  (CHOOSE f \in Levels : Has(p, f) /\ \A g \in 0 .. f - 1 : ~Has(p, g))
              = LastRead(Kept(p, omit), 0)
<1> DEFINE W == Kept(p, omit)
           last == LastRead(W, 0)
           Lowest(f) == Has(p, f) /\ \A g \in 0 .. f - 1 : ~Has(p, g)
           H(f) == Has(p, f)
<1>1. /\ 0 \in W <=> H(0)
      /\ H(1) /\ ~H(0) => 1 \in W
      /\ H(2) /\ ~H(1) /\ ~H(0) => 2 \in W
      /\ ~H(2) /\ ~H(1) /\ ~H(0) => 3 \in W
      /\ 1 \in W => H(1)
      /\ 2 \in W => H(2)
      /\ 3 \in W => H(3)
  <2>1. \A f : f \in W <=> f \in Levels /\ H(f) /\ f \notin omit
    BY DEF Kept
  <2>2. 0 \notin omit /\ (1 \in omit => H(0)) /\ (2 \in omit => H(1) \/ H(0))
    BY LevelNumbers DEF Lean
  <2>3. ~H(2) /\ ~H(1) /\ ~H(0) => 3 \in W
    <3>1. PICK f : f \in W
      OBVIOUS
    <3> HIDE DEF W, H
    <3> QED
      BY <2>1, <3>1, LevelNumbers
  <2> HIDE DEF W, H
  <2> QED
    BY <2>1, <2>2, <2>3, LevelNumbers
<1>2. last = IF 0 \in W THEN 0 ELSE IF 1 \in W THEN 1 ELSE IF 2 \in W THEN 2
             ELSE IF 3 \in W THEN 3 ELSE LOGICAL_END
  BY DEF LastRead
<1>3. \A f \in Levels : Lowest(f) <=>
         \/ f = 0 /\ H(0)
         \/ f = 1 /\ H(1) /\ ~H(0)
         \/ f = 2 /\ H(2) /\ ~H(1) /\ ~H(0)
         \/ f = 3 /\ H(3) /\ ~H(2) /\ ~H(1) /\ ~H(0)
  <2>1. 0 .. 0 - 1 = {} /\ 0 .. 1 - 1 = {0} /\ 0 .. 2 - 1 = {0, 1} /\ 0 .. 3 - 1 = {0, 1, 2}
    OBVIOUS
  <2> SUFFICES ASSUME NEW f \in Levels
               PROVE  Lowest(f) <=>
                         \/ f = 0 /\ H(0)
                         \/ f = 1 /\ H(1) /\ ~H(0)
                         \/ f = 2 /\ H(2) /\ ~H(1) /\ ~H(0)
                         \/ f = 3 /\ H(3) /\ ~H(2) /\ ~H(1) /\ ~H(0)
    OBVIOUS
  <2>2. Lowest(f) <=> H(f) /\ \A g \in 0 .. f - 1 : ~H(g)
    OBVIOUS
  <2> HIDE DEF Lowest, H
  <2>3. CASE f = 0
    BY <2>1, <2>2, <2>3
  <2>4. CASE f = 1
    BY <2>1, <2>2, <2>4
  <2>5. CASE f = 2
    BY <2>1, <2>2, <2>5
  <2>6. CASE f = 3
    BY <2>1, <2>2, <2>6
  <2> QED
    BY <2>3, <2>4, <2>5, <2>6, LevelNumbers
<1> HIDE DEF W, last, H
<1>4. last \in Levels /\ \A f \in Levels : Lowest(f) <=> f = last
  <2> HIDE DEF Lowest
  <2> QED
    BY <1>1, <1>2, <1>3, LevelNumbers
<1>5. (CHOOSE f \in Levels : Lowest(f)) = last
  <2> HIDE DEF Lowest
  <2> QED
    BY <1>4
<1> QED
  BY <1>5 DEF last, W

\* What a path lacks it gets from the one before it, or nowhere.
LEMMA RestoredFrom ==
    ASSUME NEW r, Clear(r), NEW i \in {1, 2, 3}, LogicalPath(PathAt(r, i))
    PROVE  Restored(PathBefore(r, i), PathAt(r, i), KeptAt(r, i))
<1> DEFINE p == PathAt(r, i)
           prev == PathBefore(r, i)
           omit == Omitted(r, i)
           W == KeptAt(r, i)
           last == LastRead(W, 0)
<1>1. \A f : f \in W <=> f \in Levels /\ Has(p, f) /\ f \notin omit
  BY DEF KeptAt, Kept
<1>2. CASE i = 1
  <2>1. prev = NoPath /\ omit = {}
    BY <1>2 DEF PathBefore, Omitted
  <2>2. \A f \in Levels : prev.stuff[f] = Absent
    BY <2>1 DEF NoPath
  <2>3. \A f \in Levels \ W : p.stuff[f] = Absent
    BY <1>1, <2>1 DEF Has
  <2> HIDE DEF p, prev, W
  <2>4. Restored(prev, p, W)
    BY <2>2, <2>3 DEF Restored
  <2> QED
    BY <2>4 DEF p, prev, W
<1>3. CASE i # 1
  <2>1. i \in {2, 3} /\ prev = PathAt(r, i - 1)
    BY <1>3 DEF PathBefore
  <2>2. ~Acquires(r.path, i) /\ (r.compressed => ~Loses(r.path, i))
    BY <2>1, LaterLogical
  <2>3. (CHOOSE f \in Levels : Has(p, f) /\ \A g \in 0 .. f - 1 : ~Has(p, g)) = last
    <3>1. Lean(p, omit)
      BY OmittedIsLean
    <3>2. W = Kept(p, omit) /\ W # {} /\ Has(p, CLASS)
      BY KeptLogical DEF KeptAt, LogicalPath
    <3> HIDE DEF p, omit, W
    <3> QED
      BY <3>1, <3>2, LowestKept
  <2>4. TakenOver(prev, p) = {f \in Inherited(prev, last) : Has(prev, f)}
    BY <2>3, Zenon DEF TakenOver
  <2>5. \A f \in TakenOver(prev, p) : Has(p, f)
    BY <2>1, <2>2 DEF Acquires, PathAt
  <2>6. r.compressed => \A f \in Shared(prev, p) : Has(p, f) => f \in TakenOver(prev, p)
    BY <2>1, <2>2 DEF Loses, PathAt
  <2>7. omit = IF r.compressed THEN Shared(prev, p) ELSE {}
    BY <1>3, <2>1 DEF Omitted
  <2> HIDE DEF p, prev, W, last, omit
  <2>8. ASSUME NEW f \in Levels \ W
        PROVE  p.stuff[f] = IF f \in Inherited(prev, last) THEN prev.stuff[f] ELSE Absent
    <3>1. CASE ~Has(p, f)
      <4>1. p.stuff[f] = Absent
        BY <3>1 DEF Has
      <4>2. f \in Inherited(prev, last) => prev.stuff[f] = Absent
        BY <2>4, <2>5, <3>1 DEF Has
      <4> QED
        BY <4>1, <4>2
    <3>2. CASE Has(p, f)
      <4>1. f \in omit
        BY <1>1, <2>8, <3>2
      <4>2. f \in Shared(prev, p) /\ f \in TakenOver(prev, p)
        BY <2>6, <2>7, <3>2, <4>1
      <4>3. GetField(prev, f) = GetField(p, f)
        BY <4>2 DEF Shared
      <4>4. f \in Inherited(prev, last) /\ Has(prev, f)
        BY <2>4, <4>2
      <4>5. prev.stuff[f] = p.stuff[f]
        BY <3>2, <4>3, <4>4 DEF GetField
      <4> QED
        BY <4>4, <4>5
    <3> QED
      BY <3>1, <3>2
  <2>9. Restored(prev, p, W)
    BY <2>8 DEF Restored, last
  <2> QED
    BY <2>9 DEF p, prev, W
<1> QED
  BY <1>2, <1>3

\* How the paths from i on begin, when they are in and rest is what comes after them.
Starts(r, i, in, rest) ==
    /\ i = 4 => in = rest
    /\ i # 4 /\ PathAt(r, i) = NoPath => in = rest
    /\ i # 4 /\ SymbolicPath(PathAt(r, i)) => Lead(in) = 144
    /\ i # 4 /\ LogicalPath(PathAt(r, i)) =>
          \E g \in KeptAt(r, i) : Lead(in) = Code[g] /\ \A h \in KeptAt(r, i) : h <= g

\* The end of the paths.
Ended(rest) == rest \in Seq(Nat) /\ (rest # <<>> => Lead(rest) = SimpleData)

LEMMA LeadOfEnd ==
    ASSUME NEW rest, Ended(rest)
    PROVE  Lead(rest) \notin Codes
<1>1. rest = <<>> => Lead(rest) = Absent
  BY DEF Lead
<1>2. \A c \in Codes : c # Absent /\ c # SimpleData
  BY CodesAre DEF Absent, SimpleData
<1> QED
  BY <1>1, <1>2 DEF Ended

\* What follows a symbol begins with another one, with a class or with the end.
LEMMA AfterSymbol ==
    ASSUME NEW r, Clear(r), NEW i \in {1, 2, 3}, SymbolicPath(PathAt(r, i)),
           NEW left, NEW rest, Ended(rest), Starts(r, i + 1, left, rest)
    PROVE  Lead(left) # MemberId /\ Lead(left) # Code[CONN_PT]
<1>1. /\ MemberId \in Codes /\ Code[CONN_PT] \in Codes
      /\ MemberId = 40 /\ Code[CONN_PT] = 44 /\ Code[CLASS] = 32
  BY CodesAre, LevelNumbers DEF Codes, MemberId
<1>2. CASE left = rest
  BY <1>1, <1>2, LeadOfEnd
<1>3. CASE left # rest
  <2> DEFINE q == PathAt(r, i + 1)
  <2>1. i + 1 # 4 /\ i + 1 \in {1, 2, 3} /\ i + 1 # 1 /\ (i + 1) - 1 = i
    <3>1. i + 1 # 4
      BY <1>3 DEF Starts
    <3> QED
      BY <3>1
  <2>2. q # NoPath
    BY <1>3, <2>1 DEF Starts
  <2>3. LogicalPath(q) \/ SymbolicPath(q)
    BY <2>1, <2>2, PathKinds
  <2>4. CASE SymbolicPath(q)
    BY <1>1, <2>1, <2>4 DEF Starts
  <2>5. CASE LogicalPath(q)
    <3>1. CLASS \in KeptAt(r, i + 1) /\ KeptAt(r, i + 1) \subseteq Levels
      BY <2>1, <2>5, KeptLogical
    <3>2. PICK g \in KeptAt(r, i + 1) :
             Lead(left) = Code[g] /\ \A h \in KeptAt(r, i + 1) : h <= g
      BY <2>1, <2>5 DEF Starts
    <3>3. g = CLASS
      <4>1. g \in Levels /\ CLASS <= g
        BY <3>1, <3>2
      <4> QED
        BY <4>1, LevelNumbers
    <3> QED
      BY <1>1, <3>2, <3>3
  <2> QED
    BY <2>3, <2>4, <2>5
<1> QED
  BY <1>2, <1>3

\* What follows a logical path is not taken for more of it.
LEMMA AfterLogical ==
    ASSUME NEW r, Clear(r), NEW i \in {1, 2, 3}, LogicalPath(PathAt(r, i)),
           NEW left, NEW rest, Ended(rest), Starts(r, i + 1, left, rest)
    PROVE  Apart(PathAt(r, i), KeptAt(r, i), left)
<1> DEFINE p == PathAt(r, i)
           q == PathAt(r, i + 1)
           W == KeptAt(r, i)
           V == KeptAt(r, i + 1)
<1>1. \A f \in Levels : Code[f] \in Codes /\ Code[f] # 144
  <2>1. \A c \in Codes : c # 144
    BY CodesAre
  <2> QED
    BY <2>1 DEF Codes
<1>2. W # {} /\ W \subseteq Levels
  BY KeptLogical
<1>3. CASE left = rest
  BY <1>1, <1>3, LeadOfEnd DEF Apart
<1>4. CASE left # rest
  <2>1. i + 1 # 4 /\ i + 1 \in {1, 2, 3} /\ i + 1 \in {2, 3} /\ (i + 1) - 1 = i
    <3>1. i + 1 # 4
      BY <1>4 DEF Starts
    <3> QED
      BY <3>1
  <2>2. q # NoPath
    BY <1>4, <2>1 DEF Starts
  <2>3. LogicalPath(q) \/ SymbolicPath(q)
    BY <2>1, <2>2, PathKinds
  <2>4. CASE SymbolicPath(q)
    <3>1. Lead(left) = 144
      BY <2>1, <2>4 DEF Starts
    <3> QED
      BY <1>1, <3>1 DEF Apart
  <2>5. CASE LogicalPath(q)
    <3>1. V # {} /\ V \subseteq Levels /\ (~r.compressed => CLASS \in V)
      BY <2>1, <2>5, KeptLogical
    <3>2. PICK g \in V : Lead(left) = Code[g] /\ \A h \in V : h <= g
      BY <2>1, <2>5 DEF Starts
    <3>3. ASSUME NEW f \in Levels, \A h \in W : f < h, Lead(left) = Code[f]
          PROVE  f = CONN_PT /\ Closed(p, W)
      <4>1. f = g
        BY <3>1, <3>2, <3>3, CodesDiffer
      <4>2. PICK h \in W : TRUE
        BY <1>2
      <4>3. h \in Levels /\ f < h
        BY <1>2, <3>3, <4>2
      <4>4. f # CLASS
        BY <4>3, LevelNumbers
      <4>5. CLASS \notin V
        <5>1. CLASS \in V => CLASS <= f
          BY <3>2, <4>1
        <5> QED
          BY <4>3, <4>4, <5>1, LevelNumbers
      <4>6. r.compressed /\ ~Continues(r.path, i + 1)
        BY <2>1, <2>5, <3>1, <4>5, LaterLogical
      <4>7. V = Written(r.path, i + 1) /\ W = Written(r.path, i)
        BY <4>6, KeptIsWritten
      <4>8. \A a \in V, b \in W : a < b
        <5> SUFFICES ASSUME NEW a \in V, NEW b \in W PROVE a < b
          OBVIOUS
        <5>1. a <= f /\ f < b /\ a \in Levels /\ b \in Levels
          BY <1>2, <3>1, <3>2, <3>3, <4>1
        <5> QED
          BY <5>1, LevelNumbers
      <4>9. /\ CLASS \in W /\ GetClass(p) = kCipAssemblyClass /\ ATTRIBUTE \notin W
            /\ INSTANCE_ID \in W /\ CONN_PT \in V
        BY <2>1, <4>6, <4>7, <4>8 DEF Continues, PathAt
      <4>10. f = CONN_PT
        <5>1. f < INSTANCE_ID /\ CONN_PT <= f
          BY <3>2, <3>3, <4>1, <4>9
        <5> QED
          BY <5>1, LevelNumbers
      <4>11. p.stuff[CLASS] = kCipAssemblyClass
        <5>1. Has(p, CLASS)
          BY DEF LogicalPath
        <5> QED
          BY <4>9, <5>1 DEF GetClass, GetField
      <4> QED
        BY <4>9, <4>10, <4>11 DEF Closed
    <3> HIDE DEF p, W
    <3>4. Apart(p, W, left)
      BY <3>3 DEF Apart
    <3> QED
      BY <3>4 DEF p, W
  <2> QED
    BY <2>3, <2>4, <2>5
<1> QED
  BY <1>3, <1>4

Text(r, i) == IF HasAny(PathAt(r, i)) THEN SerializeAppPath(PathAt(r, i), Omitted(r, i)) ELSE <<>>

\* The i-th path is read from in, which leaves left.
ReadAs(r, i, in, left) ==
    /\ in \in Seq(Nat)
    /\ in = <<>> => PathAt(r, i) = NoPath /\ left = <<>>
    /\ in # <<>> => LET got == DeserializeAppPath(in, PathBefore(r, i))
                    IN  ~got.bad /\ got.in = left /\ got.path = PathAt(r, i)

LEMMA NextPath ==
    ASSUME NEW r, Clear(r), NEW i \in {1, 2, 3}, NEW rest, Ended(rest),
           NEW left \in Seq(Nat), Starts(r, i + 1, left, rest),
           NEW in, in = Cat(Text(r, i), left)
    PROVE  Starts(r, i, in, rest) /\ ReadAs(r, i, in, left)
<1> DEFINE p == PathAt(r, i)
           omit == Omitted(r, i)
           prev == PathBefore(r, i)
<1>1. /\ p \in AppPaths
      /\ p = NoPath \/ LogicalPath(p) \/ SymbolicPath(p)
      /\ p = NoPath <=> ~HasAny(p)
      /\ LogicalPath(p) => HasAny(p) /\ ~SymbolicPath(p)
      /\ SymbolicPath(p) => HasAny(p)
      /\ \A o : Short(p, Kept(p, o))
      /\ SymbolicPath(p) => ShortMembers(p)
  BY PathKinds
<1>2. i # 4
  OBVIOUS
<1>3. CASE p = NoPath
  <2>1. Text(r, i) = <<>> /\ ~LogicalPath(p) /\ ~SymbolicPath(p)
    BY <1>1, <1>3 DEF Text
  <2>2. in = left
    <3>1. Cat(<<>>, left) = left
      BY ConcatEmptySeq DEF Cat
    <3> QED
      BY <2>1, <3>1, Zenon
  <2>3. left = rest
    <3>1. CASE i = 3
      <4>1. i + 1 = 4
        BY <3>1
      <4> QED
        BY <4>1 DEF Starts
    <3>2. CASE i # 3
      <4>1. i \in {1, 2} /\ i + 1 # 4
        BY <3>2
      <4>2. PathAt(r, i + 1) = NoPath
        BY <1>3, <4>1, NoGaps
      <4> QED
        BY <4>1, <4>2 DEF Starts
    <3> QED
      BY <3>1, <3>2
  <2>4. Starts(r, i, in, rest)
    BY <1>2, <1>3, <2>1, <2>2, <2>3 DEF Starts
  <2>5. ASSUME in # <<>>
        PROVE  LET got == DeserializeAppPath(in, prev)
               IN  ~got.bad /\ got.in = in /\ got.path = NoPath
    <3>1. in \in Seq(Nat) /\ Lead(in) = SimpleData
      BY <2>2, <2>3, <2>5 DEF Ended
    <3> HIDE DEF prev
    <3> QED
      BY <2>5, <3>1, NothingIsRead
  <2>6. ReadAs(r, i, in, left)
    BY <1>3, <2>2, <2>5 DEF ReadAs
  <2> QED
    BY <2>4, <2>6
<1>4. CASE LogicalPath(p)
  <2>1. in = Cat(SerializeAppPath(p, omit), left)
    BY <1>1, <1>4 DEF Text
  <2>2. Apart(p, Kept(p, omit), left)
    BY <1>4, AfterLogical DEF KeptAt
  <2>3. Restored(prev, p, Kept(p, omit))
    BY <1>4, RestoredFrom DEF KeptAt
  <2>4. Kept(p, omit) # {} /\ MayOmit(p, omit)
    BY <1>4, KeptLogical, OmittedIsLean DEF KeptAt
  <2>5. p # NoPath /\ ~SymbolicPath(p)
    BY <1>1, <1>4
  <2> HIDE DEF p, omit, prev
  <2>6. LET got == DeserializeAppPath(in, prev)
        IN  /\ in \in Seq(Nat) /\ in # <<>>
            /\ \E g \in Kept(p, omit) : Lead(in) = Code[g] /\ \A h \in Kept(p, omit) : h <= g
            /\ ~got.bad /\ got.in = left /\ got.path = p
    <3>1. p \in AppPaths /\ LogicalPath(p) /\ Short(p, Kept(p, omit))
      BY <1>1, <1>4
    <3> QED
      BY <2>1, <2>2, <2>3, <2>4, <3>1, LogicalIsRead
  <2>7. Starts(r, i, in, rest)
    BY <1>2, <2>5, <2>6 DEF Starts, p, KeptAt, omit
  <2>8. ReadAs(r, i, in, left)
    BY <2>6 DEF ReadAs, p, prev
  <2> QED
    BY <2>7, <2>8
<1>5. CASE SymbolicPath(p)
  <2>1. in = Cat(SerializeAppPath(p, omit), left)
    BY <1>1, <1>5 DEF Text
  <2>2. Lead(left) # MemberId /\ Lead(left) # Code[CONN_PT]
    BY <1>5, AfterSymbol
  <2>3. p # NoPath /\ ~LogicalPath(p)
    BY <1>1, <1>5
  <2> HIDE DEF p, omit, prev
  <2>4. LET got == DeserializeAppPath(in, prev)
        IN  /\ in \in Seq(Nat) /\ in # <<>> /\ in[1] = AnsiSymbol
            /\ ~got.bad /\ got.in = left /\ got.path = p
    <3>1. p \in AppPaths /\ Short(p, Kept(p, {})) /\ ShortMembers(p)
      BY <1>1, <1>5
    <3> QED
      BY <1>5, <2>1, <2>2, <3>1, SymbolRead
  <2>5. Lead(in) = 144
    BY <2>4 DEF Lead, AnsiSymbol
  <2>6. Starts(r, i, in, rest)
    BY <1>2, <2>3, <2>5 DEF Starts, p
  <2>7. ReadAs(r, i, in, left)
    BY <2>4 DEF ReadAs, p, prev
  <2> QED
    BY <2>6, <2>7
<1> QED
  BY <1>1, <1>3, <1>4, <1>5

LEMMA TextIsSeq ==
    ASSUME NEW r, Clear(r), NEW i \in {1, 2, 3}
    PROVE  Text(r, i) \in Seq(Nat)
<1> DEFINE p == PathAt(r, i)
           omit == Omitted(r, i)
           none == <<>>
<1>1. /\ p \in AppPaths
      /\ p = NoPath \/ LogicalPath(p) \/ SymbolicPath(p)
      /\ p = NoPath <=> ~HasAny(p)
      /\ \A o : Short(p, Kept(p, o))
      /\ SymbolicPath(p) => ShortMembers(p)
  BY PathKinds
<1>2. none \in Seq(Nat)
  OBVIOUS
<1>3. MayOmit(p, omit)
  BY OmittedIsLean
<1>4. Text(r, i) = IF HasAny(p) THEN SerializeAppPath(p, omit) ELSE none
  BY DEF Text
<1> HIDE DEF p, omit, none
<1>5. CASE LogicalPath(p)
  <2>1. SerializeAppPath(p, omit) \in Seq(Nat)
    BY <1>1, <1>2, <1>3, <1>5, LogicalText
  <2> QED
    BY <1>2, <1>4, <2>1
<1>6. CASE SymbolicPath(p)
  <2>1. SerializeAppPath(p, omit) \in Seq(Nat)
    BY <1>1, <1>2, <1>6, SymbolText
  <2> QED
    BY <1>2, <1>4, <2>1
<1> QED
  BY <1>1, <1>2, <1>4, <1>5, <1>6

LEMMA TextsAre ==
    ASSUME NEW r, Clear(r)
    PROVE  SerializeAppPaths(r.path.app_path, r.compressed)
              = Cat(Cat(Text(r, 1), Text(r, 2)), Text(r, 3))
<1> DEFINE ps == r.path.app_path
           Before(i) == {j \in 1 .. i - 1 : HasAny(ps[j])}
           Omit(i) == IF ~r.compressed \/ Before(i) = {} THEN {}
                      ELSE Shared(ps[CHOOSE j \in Before(i) : \A k \in Before(i) : k <= j], ps[i])
           W(i) == IF HasAny(ps[i]) THEN SerializeAppPath(ps[i], Omit(i)) ELSE <<>>
<1>1. SerializeAppPaths(ps, r.compressed) = Cat(Cat(W(1), W(2)), W(3))
  BY DEF SerializeAppPaths, Cat
<1>2. \A i \in 1 .. 2 : HasAny(ps[i + 1]) => HasAny(ps[i])
  BY DEF Clear, RequestOK, PathOK
<1>3. \A i : PathAt(r, i) = ps[i]
  BY DEF PathAt
<1> HIDE DEF ps
<1>4. W(1) = Text(r, 1)
  <2>1. Before(1) = {}
    OBVIOUS
  <2> HIDE DEF Before
  <2>2. Omit(1) = Omitted(r, 1)
    BY <2>1 DEF Omitted
  <2> HIDE DEF Omit
  <2> QED
    BY <1>3, <2>2 DEF Text
<1>5. W(2) = Text(r, 2)
  <2>1. CASE HasAny(ps[2])
    <3>1. HasAny(ps[1])
      <4>1. 1 \in 1 .. 2 /\ 1 + 1 = 2
        OBVIOUS
      <4> QED
        BY <1>2, <2>1, <4>1
    <3>2. Before(2) = {1}
      <4>1. 1 .. 2 - 1 = {1}
        OBVIOUS
      <4> QED
        BY <3>1, <4>1
    <3> HIDE DEF Before
    <3>3. (CHOOSE j \in Before(2) : \A k \in Before(2) : k <= j) = 1
      BY <3>2
    <3>4. Omit(2) = IF ~r.compressed THEN {} ELSE Shared(ps[1], ps[2])
      BY <3>2, <3>3
    <3>5. Omitted(r, 2) = IF ~r.compressed THEN {} ELSE Shared(ps[1], ps[2])
      <4>1. 2 - 1 = 1 /\ 2 # 1
        OBVIOUS
      <4> QED
        BY <1>3, <4>1 DEF Omitted
    <3> HIDE DEF Omit
    <3> QED
      BY <1>3, <3>4, <3>5 DEF Text
  <2>2. CASE ~HasAny(ps[2])
    BY <1>3, <2>2 DEF Text
  <2> QED
    BY <2>1, <2>2
<1>6. W(3) = Text(r, 3)
  <2>1. CASE HasAny(ps[3])
    <3>1. HasAny(ps[2]) /\ HasAny(ps[1])
      <4>1. 1 \in 1 .. 2 /\ 1 + 1 = 2 /\ 2 \in 1 .. 2 /\ 2 + 1 = 3
        OBVIOUS
      <4> QED
        BY <1>2, <2>1, <4>1
    <3>2. Before(3) = {1, 2}
      <4>1. 1 .. 3 - 1 = {1, 2}
        OBVIOUS
      <4> QED
        BY <3>1, <4>1
    <3> HIDE DEF Before
    <3>3. (CHOOSE j \in Before(3) : \A k \in Before(3) : k <= j) = 2
      BY <3>2
    <3>4. Omit(3) = IF ~r.compressed THEN {} ELSE Shared(ps[2], ps[3])
      BY <3>2, <3>3
    <3>5. Omitted(r, 3) = IF ~r.compressed THEN {} ELSE Shared(ps[2], ps[3])
      <4>1. 3 - 1 = 2 /\ 3 # 1
        OBVIOUS
      <4> QED
        BY <1>3, <4>1 DEF Omitted
    <3> HIDE DEF Omit
    <3> QED
      BY <1>3, <3>4, <3>5 DEF Text
  <2>2. CASE ~HasAny(ps[3])
    BY <1>3, <2>2 DEF Text
  <2> QED
    BY <2>1, <2>2
<1> HIDE DEF W
<1>7. SerializeAppPaths(ps, r.compressed) = Cat(Cat(Text(r, 1), Text(r, 2)), Text(r, 3))
  BY <1>1, <1>4, <1>5, <1>6
<1> QED
  BY <1>7 DEF ps

LEMMA ThirdAppended ==
    ASSUME NEW S, NEW s \in Seq(S), NEW e \in S, NEW t, t = Append(s, e)
    PROVE  Len(s) = 2 =>
              t \in Seq(S) /\ Len(t) = 3 /\ t[1] = s[1] /\ t[2] = s[2] /\ t[3] = e
<1>1. /\ t \in Seq(S) /\ Len(t) = Len(s) + 1 /\ t[Len(s) + 1] = e
      /\ \A i \in 1 .. Len(s) : t[i] = s[i]
  BY AppendProperties
<1>2. ASSUME Len(s) = 2
      PROVE  1 \in 1 .. Len(s) /\ 2 \in 1 .. Len(s) /\ Len(s) + 1 = 3
  BY <1>2
<1> QED
  BY <1>1, <1>2

\* A sequence that was put together from three members.
LEMMA ThreeAppended ==
    ASSUME NEW S, NEW a \in S, NEW b \in S, NEW c \in S
    PROVE  LET s == Append(Append(Append(<<>>, a), b), c)
           IN  s \in Seq(S) /\ Len(s) = 3 /\ s[1] = a /\ s[2] = b /\ s[3] = c
<1> DEFINE none == <<>>
           s1 == Append(none, a)
           s2 == Append(s1, b)
           s3 == Append(s2, c)
<1>1. none \in Seq(S) /\ Len(none) = 0
  OBVIOUS
<1> HIDE DEF none
<1>2. s1 \in Seq(S) /\ Len(s1) = 1 /\ s1[1] = a
  BY <1>1, AppendProperties
<1> HIDE DEF s1
<1>3. s2 \in Seq(S) /\ Len(s2) = 2 /\ s2[1] = a /\ s2[2] = b
  <2>1. 1 \in 1 .. Len(s1)
    BY <1>2
  <2> QED
    BY <1>2, <2>1, AppendProperties, SMTT(15)
<1> HIDE DEF s2
<1>4. s3 \in Seq(S) /\ Len(s3) = 3 /\ s3[1] = s2[1] /\ s3[2] = s2[2] /\ s3[3] = c
  <2>1. s2 \in Seq(S) /\ Len(s2) = 2
    BY <1>3
  <2>2. s3 = Append(s2, c)
    OBVIOUS
  <2> HIDE DEF s3
  <2> QED
    BY <2>1, <2>2, ThirdAppended
<1> HIDE DEF s3
<1> QED
  BY <1>3, <1>4 DEF s3, s2, s1, none

\* One path of three.
Ready(r, i, st, left) ==
    ~st.bad /\ st.prev = PathBefore(r, i) /\ ReadAs(r, i, st.in, left)

Taken(r, i, st, next, left) ==
    /\ ~next.bad /\ next.group = st.group /\ next.in = left
    /\ next.prev = PathAt(r, i) /\ next.paths = Append(st.paths, PathAt(r, i))

LEMMA PathTaken ==
    \A r, i, st, left : Ready(r, i, st, left) => Taken(r, i, st, ReadAppPath(st), left)
<1> SUFFICES ASSUME NEW r, NEW i, NEW st, NEW left, Ready(r, i, st, left)
             PROVE  Taken(r, i, st, ReadAppPath(st), left)
  OBVIOUS
<1>0. ~st.bad /\ st.prev = PathBefore(r, i) /\ ReadAs(r, i, st.in, left)
  BY DEF Ready
<1> DEFINE p == PathAt(r, i)
           Took(got) == [bad |-> st.bad \/ got.bad, group |-> st.group, in |-> got.in,
                         prev |-> got.path, paths |-> Append(st.paths, got.path)]
           got == IF st.in = <<>> THEN [bad |-> FALSE, in |-> <<>>, path |-> NoPath]
                  ELSE DeserializeAppPath(st.in, st.prev)
<1>1. ReadAppPath(st) = Took(got)
  BY DEF ReadAppPath
<1>2. ~got.bad /\ got.in = left /\ got.path = p
  <2>1. CASE st.in = <<>>
    <3>1. got = [bad |-> FALSE, in |-> <<>>, path |-> NoPath]
      BY <2>1
    <3>2. p = NoPath /\ left = <<>>
      BY <1>0, <2>1 DEF ReadAs
    <3> HIDE DEF got, p
    <3> QED
      BY <3>1, <3>2
  <2>2. CASE st.in # <<>>
    <3>1. got = DeserializeAppPath(st.in, PathBefore(r, i))
      BY <1>0, <2>2
    <3> HIDE DEF got
    <3> QED
      BY <1>0, <2>2, <3>1 DEF ReadAs
  <2> QED
    BY <2>1, <2>2
<1> HIDE DEF got, p
<1>3. Took(got) = [bad |-> st.bad \/ got.bad, group |-> st.group, in |-> left,
                   prev |-> p, paths |-> Append(st.paths, p)]
  BY <1>2
<1>4. ~Took(got).bad
  BY <1>0, <1>2
<1> HIDE DEF Took
<1>5. Taken(r, i, st, Took(got), left)
  BY <1>3, <1>4 DEF Taken, p
<1> QED
  BY <1>1, <1>5

LEMMA AppPathsRead ==
    ASSUME NEW r, Clear(r), NEW rest, Ended(rest), NEW st, ~st.bad, st.prev = NoPath,
           st.paths = <<>>,
           st.in = Cat(Text(r, 1), Cat(Text(r, 2), Cat(Text(r, 3), rest)))
    PROVE  /\ st.in \in Seq(Nat)
           /\ LET whole == ReadAppPath(ReadAppPath(ReadAppPath(st)))
              IN  /\ ~whole.bad /\ whole.group = st.group /\ whole.in = rest
                  /\ whole.paths = r.path.app_path
           /\ Starts(r, 1, st.in, rest)
<1> DEFINE x3 == Cat(Text(r, 3), rest)
           x2 == Cat(Text(r, 2), x3)
           x1 == Cat(Text(r, 1), x2)
           s1 == ReadAppPath(st)
           s2 == ReadAppPath(s1)
           s3 == ReadAppPath(s2)
           ps == r.path.app_path
<1>1. /\ Text(r, 1) \in Seq(Nat) /\ Text(r, 2) \in Seq(Nat) /\ Text(r, 3) \in Seq(Nat)
      /\ rest \in Seq(Nat)
  BY TextIsSeq DEF Ended
<1>2. x3 \in Seq(Nat)
  BY <1>1, CatIs
<1>3. x2 \in Seq(Nat)
  BY <1>1, <1>2, CatIs
<1> HIDE DEF x3, x2, x1
<1>4. Starts(r, 4, rest, rest)
  BY DEF Starts
<1>5. Starts(r, 3, x3, rest) /\ ReadAs(r, 3, x3, rest)
  <2>1. 3 + 1 = 4 /\ 3 \in {1, 2, 3}
    OBVIOUS
  <2> QED
    BY <1>1, <1>4, <2>1, NextPath DEF x3
<1>6. Starts(r, 2, x2, rest) /\ ReadAs(r, 2, x2, x3)
  <2>1. 2 + 1 = 3 /\ 2 \in {1, 2, 3}
    OBVIOUS
  <2> QED
    BY <1>2, <1>5, <2>1, NextPath DEF x2
<1>7. Starts(r, 1, x1, rest) /\ ReadAs(r, 1, x1, x2)
  <2>1. 1 + 1 = 2 /\ 1 \in {1, 2, 3}
    OBVIOUS
  <2> QED
    BY <1>3, <1>6, <2>1, NextPath DEF x1
<1>8. st.in = x1 /\ x1 \in Seq(Nat)
  BY <1>7 DEF x1, x2, x3, ReadAs
<1>9. PathBefore(r, 1) = NoPath /\ PathBefore(r, 2) = PathAt(r, 1) /\ PathBefore(r, 3) = PathAt(r, 2)
  BY DEF PathBefore
<1> HIDE DEF s1, s2, s3
<1>10. ~s1.bad /\ s1.group = st.group /\ s1.in = x2 /\ s1.prev = PathAt(r, 1)
       /\ s1.paths = Append(st.paths, PathAt(r, 1))
  <2>1. Ready(r, 1, st, x2)
    BY <1>7, <1>8, <1>9 DEF Ready
  <2>2. Taken(r, 1, st, s1, x2)
    BY <2>1, PathTaken DEF s1
  <2> QED
    BY <2>2 DEF Taken
<1>11. ~s2.bad /\ s2.group = s1.group /\ s2.in = x3 /\ s2.prev = PathAt(r, 2)
       /\ s2.paths = Append(s1.paths, PathAt(r, 2))
  <2>1. Ready(r, 2, s1, x3)
    BY <1>6, <1>9, <1>10 DEF Ready
  <2>2. Taken(r, 2, s1, s2, x3)
    BY <2>1, PathTaken DEF s2
  <2> QED
    BY <2>2 DEF Taken
<1>12. ~s3.bad /\ s3.group = s2.group /\ s3.in = rest
       /\ s3.paths = Append(s2.paths, PathAt(r, 3))
  <2>1. Ready(r, 3, s2, rest)
    BY <1>5, <1>9, <1>11 DEF Ready
  <2>2. Taken(r, 3, s2, s3, rest)
    BY <2>1, PathTaken DEF s3
  <2> QED
    BY <2>2 DEF Taken
<1>13. s3.paths = ps
  <2>1. ps \in Seq(AppPaths) /\ Len(ps) = 3
    BY DEF Clear, RequestOK, PathOK, Composed
  <2>2. ps[1] \in AppPaths /\ ps[2] \in AppPaths /\ ps[3] \in AppPaths
    <3>1. 1 \in 1 .. Len(ps) /\ 2 \in 1 .. Len(ps) /\ 3 \in 1 .. Len(ps)
      BY <2>1
    <3> QED
      BY <2>1, <3>1, ElementOfSeq
  <2>3. s3.paths = Append(Append(Append(<<>>, ps[1]), ps[2]), ps[3])
    BY <1>10, <1>11, <1>12 DEF PathAt
  <2> HIDE DEF ps
  <2> DEFINE qs == Append(Append(Append(<<>>, ps[1]), ps[2]), ps[3])
  <2>5. qs \in Seq(AppPaths) /\ Len(qs) = 3 /\ qs[1] = ps[1] /\ qs[2] = ps[2] /\ qs[3] = ps[3]
    BY <2>2, ThreeAppended
  <2>6. \A i \in 1 .. Len(qs) : qs[i] = ps[i]
    <3>1. \A i \in 1 .. Len(qs) : i = 1 \/ i = 2 \/ i = 3
      BY <2>5
    <3> HIDE DEF qs
    <3> QED
      BY <2>5, <3>1
  <2> HIDE DEF qs
  <2>7. qs = ps
    BY <2>1, <2>5, <2>6, SeqEqual
  <2> QED
    BY <2>3, <2>7 DEF qs
<1>14. s3.group = st.group
  BY <1>10, <1>11, <1>12
<1> QED
  BY <1>7, <1>8, <1>12, <1>13, <1>14 DEF s1, s2, s3, ps

-----------------------------------------------------------------------------
(* The group in front of the application paths.                              *)

\* The reader of the group, in front of in.
InGroup(group, in) == [bad |-> FALSE, short |-> FALSE, group |-> group, in |-> in]

LEMMA Ahead ==
    ASSUME NEW w \in Seq(Nat), NEW left \in Seq(Nat), NEW in, in = Cat(w, left)
    PROVE  /\ in \in Seq(Nat) /\ Len(in) = Len(w) + Len(left)
           /\ Len(w) \in Nat /\ Len(left) \in Nat
           /\ \A i \in 1 .. Len(w) : in[i] = w[i]
           /\ Past(in, Len(w)) = left
<1>1. LET x == w \o left
      IN  /\ x \in Seq(Nat) /\ Len(x) = Len(w) + Len(left)
          /\ Len(w) \in Nat /\ Len(left) \in Nat
          /\ \A i \in 1 .. Len(w) : x[i] = w[i]
          /\ Past(x, Len(w)) = left
  BY Front, Zenon
<1>2. in = w \o left
  BY DEF Cat
<1> QED
  BY <1>1, <1>2, Zenon

\* A pair of bytes, and one after others.
Pair(a, b) == <<a, b>>

PutAfter(s, a, b, t) ==
    /\ t \in Seq(Nat) /\ Len(t) = Len(s) + 2
    /\ \A i \in 1 .. Len(s) : t[i] = s[i]
    /\ t[Len(s) + 1] = a /\ t[Len(s) + 2] = b

LEMMA PairAfter ==
    \A s \in Seq(Nat), a, b \in Nat : PutAfter(s, a, b, Cat(s, Pair(a, b)))
<1> SUFFICES ASSUME NEW s \in Seq(Nat), NEW a \in Nat, NEW b \in Nat
             PROVE  PutAfter(s, a, b, Cat(s, Pair(a, b)))
  OBVIOUS
<1> DEFINE p == Pair(a, b)
           t == Cat(s, p)
<1>1. p \in Seq(Nat) /\ Len(p) = 2 /\ p[1] = a /\ p[2] = b
  BY DEF Pair
<1> HIDE DEF p
<1>2. /\ t \in Seq(Nat) /\ Len(t) = Len(s) + Len(p)
      /\ \A i \in 1 .. Len(s) : t[i] = s[i]
      /\ \A i \in 1 .. Len(p) : t[Len(s) + i] = p[i]
  BY <1>1, Joined DEF Cat
<1>3. 1 \in 1 .. Len(p) /\ 2 \in 1 .. Len(p)
  BY <1>1
<1> HIDE DEF t
<1>4. PutAfter(s, a, b, t)
  BY <1>1, <1>2, <1>3 DEF PutAfter
<1> QED
  BY <1>4 DEF t, p

IsWord(v, s) == \E a, b \in Nat : s = Pair(a, b) /\ a + 256 * b = v

LEMMA WordBytes == \A v \in Word : IsWord(v, Le16(v))
<1> SUFFICES ASSUME NEW v \in Word
             PROVE  \E a, b \in Nat : Le16(v) = Pair(a, b) /\ a + 256 * b = v
  BY DEF IsWord
<1>0. v \in Nat /\ v < 65536
  BY WordRange
<1> DEFINE low == v % 256
           high == v \div 256
<1>1. Le16(v) = <<low, high>> /\ low \in Nat /\ high \in Nat /\ low + 256 * high = v
  BY <1>0, Le16Is
<1> HIDE DEF low, high
<1>2. Le16(v) = Pair(low, high)
  BY <1>1 DEF Pair
<1> QED
  BY <1>1, <1>2

LEMMA KeyText ==
    ASSUME NEW key \in Word \X Word \X Word \X Byte \X Byte
    PROVE  LET w == SerializeKey(key)
           IN  /\ w \in Seq(Nat) /\ Len(w) = 10 /\ w[1] = 52 /\ w[2] = 4
               /\ w[3] + 256 * w[4] = key[1] /\ w[5] + 256 * w[6] = key[2]
               /\ w[7] + 256 * w[8] = key[3] /\ w[9] = key[4] /\ w[10] = key[5]
<1> DEFINE k1 == key[1]
           k2 == key[2]
           k3 == key[3]
           c == key[4]
           d == key[5]
<1>1. k1 \in Word /\ k2 \in Word /\ k3 \in Word /\ c \in Byte /\ d \in Byte
  OBVIOUS
<1>2. SerializeKey(key) = Cat(Cat(Cat(Cat(Pair(52, 4), Le16(k1)), Le16(k2)), Le16(k3)), Pair(c, d))
  BY DEF SerializeKey, Cat, Pair
<1> HIDE DEF k1, k2, k3, c, d
<1>3. c \in Nat /\ d \in Nat
  BY <1>1 DEF Byte
<1>30. IsWord(k1, Le16(k1)) /\ IsWord(k2, Le16(k2)) /\ IsWord(k3, Le16(k3))
  BY <1>1, WordBytes
<1>4. PICK a1 \in Nat, b1 \in Nat : Le16(k1) = Pair(a1, b1) /\ a1 + 256 * b1 = k1
  BY <1>30 DEF IsWord
<1>5. PICK a2 \in Nat, b2 \in Nat : Le16(k2) = Pair(a2, b2) /\ a2 + 256 * b2 = k2
  BY <1>30 DEF IsWord
<1>6. PICK a3 \in Nat, b3 \in Nat : Le16(k3) = Pair(a3, b3) /\ a3 + 256 * b3 = k3
  BY <1>30 DEF IsWord
<1> DEFINE s2 == Pair(52, 4)
           s4 == Cat(s2, Pair(a1, b1))
           s6 == Cat(s4, Pair(a2, b2))
           s8 == Cat(s6, Pair(a3, b3))
           w == Cat(s8, Pair(c, d))
<1>7. SerializeKey(key) = w
  BY <1>2, <1>4, <1>5, <1>6
<1>8. s2 \in Seq(Nat) /\ Len(s2) = 2 /\ s2[1] = 52 /\ s2[2] = 4
  BY DEF Pair
<1> HIDE DEF s2
<1>9. /\ s4 \in Seq(Nat) /\ Len(s4) = 4 /\ s4[1] = 52 /\ s4[2] = 4 /\ s4[3] = a1 /\ s4[4] = b1
  <2>1. s2 \in Seq(Nat)
    BY <1>8
  <2>2. PutAfter(s2, a1, b1, s4)
    BY <2>1, PairAfter
  <2> HIDE DEF s4
  <2> QED
    BY <1>8, <2>2 DEF PutAfter
<1> HIDE DEF s4
<1>10. /\ s6 \in Seq(Nat) /\ Len(s6) = 6 /\ s6[1] = 52 /\ s6[2] = 4 /\ s6[3] = a1 /\ s6[4] = b1
       /\ s6[5] = a2 /\ s6[6] = b2
  <2>1. s4 \in Seq(Nat)
    BY <1>9
  <2>2. PutAfter(s4, a2, b2, s6)
    BY <2>1, PairAfter
  <2> HIDE DEF s6
  <2> QED
    BY <1>9, <2>2 DEF PutAfter
<1> HIDE DEF s6
<1>11. /\ s8 \in Seq(Nat) /\ Len(s8) = 8 /\ s8[1] = 52 /\ s8[2] = 4 /\ s8[3] = a1 /\ s8[4] = b1
       /\ s8[5] = a2 /\ s8[6] = b2 /\ s8[7] = a3 /\ s8[8] = b3
  <2>1. s6 \in Seq(Nat)
    BY <1>10
  <2>2. PutAfter(s6, a3, b3, s8)
    BY <2>1, PairAfter
  <2> HIDE DEF s8
  <2> QED
    BY <1>10, <2>2 DEF PutAfter
<1> HIDE DEF s8
<1>12. /\ w \in Seq(Nat) /\ Len(w) = 10 /\ w[1] = 52 /\ w[2] = 4 /\ w[3] = a1 /\ w[4] = b1
       /\ w[5] = a2 /\ w[6] = b2 /\ w[7] = a3 /\ w[8] = b3 /\ w[9] = c /\ w[10] = d
  <2>1. s8 \in Seq(Nat)
    BY <1>11
  <2>2. PutAfter(s8, c, d, w)
    BY <1>3, <2>1, PairAfter
  <2> HIDE DEF w
  <2> QED
    BY <1>11, <2>2 DEF PutAfter
<1> HIDE DEF w
<1> QED
  BY <1>4, <1>5, <1>6, <1>7, <1>12 DEF k1, k2, k3, c, d

\* The turns of the loop over the segments of a group.
Took(st, size, group) == [bad |-> FALSE, short |-> FALSE, group |-> group, in |-> Past(st.in, size)]
PortTurn(st) ==
    IF DeserializePort(st.in).bad THEN [st EXCEPT !.bad = TRUE]
    ELSE Took(st, DeserializePort(st.in).size, [st.group EXCEPT !.port = DeserializePort(st.in).port])
KeyTurn(st) ==
    IF Len(st.in) < 10 \/ st.in[2] # 4 THEN [st EXCEPT !.short = TRUE]
    ELSE Took(st, 10, [st.group EXCEPT !.key =
             <<Number16(st.in, 3), Number16(st.in, 5), Number16(st.in, 7), st.in[9], st.in[10]>>])
\* So that the provers take it for a value like any other.
Yes == TRUE

TimedMsecs(g, pit, on) == [g EXCEPT !.pit = pit, !.msecs = on]
Thousands(in) == 1000 * in[2]
MsecsTurn(st, on) ==
    IF Len(st.in) < 2 THEN [st EXCEPT !.bad = TRUE]
    ELSE Took(st, 2, TimedMsecs(st.group, Thousands(st.in), on))
TimedUsecs(g, pit, on) == [g EXCEPT !.usecs = on, !.pit = pit]
UsecsTurn(st, on) ==
    IF Len(st.in) < 2 \/ st.in[2] \notin {1, 2} \/ Len(st.in) < 2 + 2 * st.in[2]
    THEN [st EXCEPT !.bad = TRUE]
    ELSE Took(st, 2 + 2 * st.in[2],
              TimedUsecs(st.group, IF st.in[2] = 1 THEN Number16(st.in, 3) ELSE Number32(st.in, 3), on))

FourWays(a, b, c, d, w, x, y, z, other) ==
    CASE a -> w [] b -> x [] c -> y [] d -> z [] OTHER -> other

LEMMA TurnIs ==
    \A st : ReadGroupSegment(st) =
        IF st.bad \/ st.short \/ st.in = <<>> THEN st
        ELSE FourWays(st.in[1] < 32, st.in[1] = 52, st.in[1] = 67, st.in[1] = 81,
                      PortTurn(st), KeyTurn(st), MsecsTurn(st, Yes), UsecsTurn(st, Yes), st)
BY Zenon DEF ReadGroupSegment, FourWays, PortTurn, KeyTurn, MsecsTurn, UsecsTurn, Took,
             TimedMsecs, TimedUsecs, Yes, Thousands
LEMMA Turns ==
    ASSUME NEW st, ~st.bad, ~st.short, st.in # <<>>, st.in[1] \in Nat
    PROVE  /\ st.in[1] < 32 => ReadGroupSegment(st) = PortTurn(st)
           /\ st.in[1] = 52 => ReadGroupSegment(st) = KeyTurn(st)
           /\ st.in[1] = 67 => ReadGroupSegment(st) = MsecsTurn(st, Yes)
           /\ st.in[1] = 81 => ReadGroupSegment(st) = UsecsTurn(st, Yes)
           /\ st.in[1] >= 32 /\ st.in[1] \notin {52, 67, 81} => ReadGroupSegment(st) = st
<1> DEFINE it == FourWays(st.in[1] < 32, st.in[1] = 52, st.in[1] = 67, st.in[1] = 81,
                      PortTurn(st), KeyTurn(st), MsecsTurn(st, Yes), UsecsTurn(st, Yes), st)
           a == st.in[1] < 32
           b == st.in[1] = 52
           c == st.in[1] = 67
           d == st.in[1] = 81
           msecs == MsecsTurn(st, Yes)
           usecs == UsecsTurn(st, Yes)
<1>1. ReadGroupSegment(st) = it
  BY TurnIs, Zenon
<1>2. a /\ ~b /\ ~c /\ ~d => it = PortTurn(st)
  BY Zenon DEF FourWays
<1>3. ~a /\ b /\ ~c /\ ~d => it = KeyTurn(st)
  BY Zenon DEF FourWays
<1>4. ~a /\ ~b /\ c /\ ~d => it = msecs
  BY Zenon DEF FourWays
<1>5. ~a /\ ~b /\ ~c /\ d => it = usecs
  BY Zenon DEF FourWays
<1>6. ~a /\ ~b /\ ~c /\ ~d => it = st
  BY Zenon DEF FourWays
<1> HIDE DEF it, msecs, usecs
<1>7. /\ st.in[1] < 32 => ReadGroupSegment(st) = PortTurn(st)
      /\ st.in[1] = 52 => ReadGroupSegment(st) = KeyTurn(st)
      /\ st.in[1] = 67 => ReadGroupSegment(st) = msecs
      /\ st.in[1] = 81 => ReadGroupSegment(st) = usecs
      /\ st.in[1] >= 32 /\ st.in[1] \notin {52, 67, 81} => ReadGroupSegment(st) = st
  BY <1>1, <1>2, <1>3, <1>4, <1>5, <1>6
<1> QED
  BY <1>7, Zenon DEF msecs, usecs

LEMMA FieldsPut ==
    \A k, u, m, p, o, v :
        LET g == [key |-> k, usecs |-> u, msecs |-> m, pit |-> p, port |-> o]
        IN  /\ [g EXCEPT !.key = v] = [key |-> v, usecs |-> u, msecs |-> m, pit |-> p, port |-> o]
            /\ [g EXCEPT !.usecs = v] = [key |-> k, usecs |-> v, msecs |-> m, pit |-> p, port |-> o]
            /\ [g EXCEPT !.msecs = v] = [key |-> k, usecs |-> u, msecs |-> v, pit |-> p, port |-> o]
            /\ [g EXCEPT !.pit = v] = [key |-> k, usecs |-> u, msecs |-> m, pit |-> v, port |-> o]
            /\ [g EXCEPT !.port = v] = [key |-> k, usecs |-> u, msecs |-> m, pit |-> p, port |-> v]
OBVIOUS

\* What has been read of a group.
Group(k, u, m, p, o) == [key |-> k, usecs |-> u, msecs |-> m, pit |-> p, port |-> o]

LEMMA FieldPut ==
    ASSUME NEW k, NEW u, NEW m, NEW p, NEW o
    PROVE  /\ \A v : [Group(k, u, m, p, o) EXCEPT !.key = v] = Group(v, u, m, p, o)
           /\ \A v : [Group(k, u, m, p, o) EXCEPT !.usecs = v] = Group(k, v, m, p, o)
           /\ \A v : [Group(k, u, m, p, o) EXCEPT !.msecs = v] = Group(k, u, v, p, o)
           /\ \A v : [Group(k, u, m, p, o) EXCEPT !.pit = v] = Group(k, u, m, v, o)
           /\ \A v : [Group(k, u, m, p, o) EXCEPT !.port = v] = Group(k, u, m, p, v)
BY FieldsPut DEF Group

LEMMA TimesPut ==
    ASSUME NEW k, NEW u, NEW m, NEW p, NEW o, NEW v, NEW on
    PROVE  /\ TimedMsecs(Group(k, u, m, p, o), v, on) = Group(k, u, on, v, o)
           /\ TimedUsecs(Group(k, u, m, p, o), v, on) = Group(k, on, m, v, o)
<1>1. /\ [Group(k, u, m, p, o) EXCEPT !.pit = v] = Group(k, u, m, v, o)
      /\ [Group(k, u, m, v, o) EXCEPT !.msecs = on] = Group(k, u, on, v, o)
  BY FieldPut
<1>2. /\ [Group(k, u, m, p, o) EXCEPT !.usecs = on] = Group(k, on, m, p, o)
      /\ [Group(k, on, m, p, o) EXCEPT !.pit = v] = Group(k, on, m, v, o)
  BY FieldPut
<1>3. [Group(k, u, m, p, o) EXCEPT !.pit = v, !.msecs = on] = Group(k, u, on, v, o)
  BY <1>1, Zenon
<1>4. [Group(k, u, m, p, o) EXCEPT !.usecs = on, !.pit = v] = Group(k, on, m, v, o)
  BY <1>2, Zenon
<1> QED
  BY <1>3, <1>4 DEF TimedMsecs, TimedUsecs

\* What is in front of what follows it.
InFront(w, left, in) ==
    /\ in \in Seq(Nat) /\ Len(in) = Len(w) + Len(left) /\ Len(left) \in Nat
    /\ \A i \in 1 .. Len(w) : in[i] = w[i]
    /\ Past(in, Len(w)) = left

LEMMA FrontIs == \A w, left \in Seq(Nat) : InFront(w, left, Cat(w, left))
<1> SUFFICES ASSUME NEW w \in Seq(Nat), NEW left \in Seq(Nat)
             PROVE  InFront(w, left, Cat(w, left))
  OBVIOUS
<1> DEFINE in == Cat(w, left)
<1>1. in = Cat(w, left)
  OBVIOUS
<1> HIDE DEF in
<1>2. /\ in \in Seq(Nat) /\ Len(in) = Len(w) + Len(left)
      /\ Len(w) \in Nat /\ Len(left) \in Nat
      /\ \A i \in 1 .. Len(w) : in[i] = w[i]
      /\ Past(in, Len(w)) = left
  BY <1>1, Ahead
<1>3. InFront(w, left, in)
  BY <1>2 DEF InFront
<1> QED
  BY <1>1, <1>3

\* What has been read up to there.
LEMMA TookIs ==
    ASSUME NEW st, NEW n, NEW left, NEW group, Past(st.in, n) = left
    PROVE  Took(st, n, group) = InGroup(group, left)
BY DEF Took, InGroup

LEMMA InGroupIs ==
    \A group, in : /\ ~InGroup(group, in).bad /\ ~InGroup(group, in).short
                   /\ InGroup(group, in).group = group /\ InGroup(group, in).in = in
BY DEF InGroup

LEMMA KeyRead ==
    ASSUME NEW key \in Word \X Word \X Word \X Byte \X Byte, NEW left \in Seq(Nat),
           NEW in, in = Cat(SerializeKey(key), left), NEW k, NEW u, NEW m, NEW p, NEW o
    PROVE  /\ in \in Seq(Nat) /\ Len(in) = 10 + Len(left)
           /\ ReadGroupSegment(InGroup(Group(k, u, m, p, o), in))
                 = InGroup(Group(key, u, m, p, o), left)
<1> DEFINE w == SerializeKey(key)
           g == Group(k, u, m, p, o)
           st == InGroup(g, in)
<1>1. /\ w \in Seq(Nat) /\ Len(w) = 10 /\ w[1] = 52 /\ w[2] = 4
      /\ w[3] + 256 * w[4] = key[1] /\ w[5] + 256 * w[6] = key[2]
      /\ w[7] + 256 * w[8] = key[3] /\ w[9] = key[4] /\ w[10] = key[5]
  BY KeyText
<1>2. in = Cat(w, left)
  OBVIOUS
<1>3. key = <<key[1], key[2], key[3], key[4], key[5]>>
  OBVIOUS
<1>4. ~st.bad /\ ~st.short /\ st.in = in /\ st.group = g
  BY InGroupIs
<1>5. [g EXCEPT !.key = key] = Group(key, u, m, p, o)
  BY FieldPut
<1> HIDE DEF w, g, st
<1>6. InFront(w, left, in)
  BY <1>1, <1>2, FrontIs
<1>7. /\ in \in Seq(Nat) /\ Len(in) = 10 + Len(left) /\ Len(left) \in Nat
      /\ \A i \in 1 .. 10 : in[i] = w[i]
      /\ Past(in, 10) = left
  BY <1>1, <1>6 DEF InFront
<1>8. in[1] = 52 /\ in[2] = 4 /\ in # <<>> /\ ~(Len(in) < 10 \/ in[2] # 4)
  <2>1. in[1] = 52 /\ in[2] = 4
    BY <1>1, <1>7
  <2>2. ~(Len(in) < 10) /\ Len(in) # 0
    <3>1. Len(in) = 10 + Len(left) /\ Len(left) \in Nat
      BY <1>7
    <3>2. \A x \in Nat : ~(10 + x < 10) /\ 10 + x # 0
      OBVIOUS
    <3> QED
      BY <3>1, <3>2
  <2> QED
    BY <2>1, <2>2, EmptySeq
<1>9. /\ Number16(in, 3) = key[1] /\ Number16(in, 5) = key[2] /\ Number16(in, 7) = key[3]
      /\ in[9] = key[4] /\ in[10] = key[5]
  <2>1. /\ in[3] = w[3] /\ in[4] = w[4] /\ in[5] = w[5] /\ in[6] = w[6]
        /\ in[7] = w[7] /\ in[8] = w[8] /\ in[9] = w[9] /\ in[10] = w[10]
    BY <1>7
  <2> QED
    BY <1>1, <2>1 DEF Number16
<1>10. ReadGroupSegment(st) = KeyTurn(st)
  <2>1. ~st.bad /\ ~st.short /\ st.in # <<>> /\ st.in[1] = 52 /\ st.in[1] \in Nat
    BY <1>4, <1>8
  <2> QED
    BY <2>1, Turns
<1>11. KeyTurn(st) = Took(st, 10, [g EXCEPT !.key =
              <<Number16(in, 3), Number16(in, 5), Number16(in, 7), in[9], in[10]>>])
  BY <1>4, <1>8, Zenon DEF KeyTurn
<1>12. KeyTurn(st) = Took(st, 10, [g EXCEPT !.key = key])
  BY <1>3, <1>9, <1>11, Zenon
<1>13. Took(st, 10, Group(key, u, m, p, o)) = InGroup(Group(key, u, m, p, o), left)
  BY <1>4, <1>7, TookIs
<1>14. ReadGroupSegment(st) = InGroup(Group(key, u, m, p, o), left)
  BY <1>5, <1>10, <1>12, <1>13, Zenon
<1> QED
  BY <1>7, <1>14 DEF st, g
LEMMA MsecsTook ==
    ASSUME NEW st, NEW g, NEW in, NEW left, NEW n,
           ~st.bad, ~st.short, st.in = in, st.group = g,
           in # <<>>, in[1] = 67, ~(Len(in) < 2), Thousands(in) = n, Past(in, 2) = left
    PROVE  ReadGroupSegment(st) = InGroup(TimedMsecs(g, n, Yes), left)
<1> DEFINE v == Thousands(st.in)
<1>1. ReadGroupSegment(st) = MsecsTurn(st, Yes)
  <2>1. st.in # <<>> /\ st.in[1] = 67 /\ st.in[1] \in Nat
    OBVIOUS
  <2> QED
    BY <2>1, Turns
<1>2. v = n
  OBVIOUS
<1>3. MsecsTurn(st, Yes) = Took(st, 2, TimedMsecs(st.group, v, Yes))
  BY Zenon DEF MsecsTurn
<1> HIDE DEF v
<1>4. Took(st, 2, TimedMsecs(g, n, Yes)) = InGroup(TimedMsecs(g, n, Yes), left)
  BY Zenon DEF Took, InGroup
<1> QED
  BY <1>1, <1>2, <1>3, <1>4, Zenon

UsecsAhead(st, g, in, left, n) ==
    /\ ~st.bad /\ ~st.short /\ st.in = in /\ st.group = g
    /\ in # <<>> /\ in[1] = 81 /\ in[2] = 2 /\ ~(Len(in) < 2) /\ ~(Len(in) < 6)
    /\ Number32(in, 3) = n /\ Past(in, 6) = left

LEMMA UsecsTook ==
    \A st, g, in, left, n : UsecsAhead(st, g, in, left, n) =>
        ReadGroupSegment(st) = InGroup(TimedUsecs(g, n, Yes), left)
<1> SUFFICES ASSUME NEW st, NEW g, NEW in, NEW left, NEW n, UsecsAhead(st, g, in, left, n)
             PROVE  ReadGroupSegment(st) = InGroup(TimedUsecs(g, n, Yes), left)
  OBVIOUS
<1> USE DEF UsecsAhead
<1> DEFINE v == IF st.in[2] = 1 THEN Number16(st.in, 3) ELSE Number32(st.in, 3)
           size == 2 + 2 * st.in[2]
<1>1. ReadGroupSegment(st) = UsecsTurn(st, Yes)
  <2>1. st.in # <<>> /\ st.in[1] = 81 /\ st.in[1] \in Nat
    OBVIOUS
  <2> QED
    BY <2>1, Turns
<1>2. size = 6 /\ v = n
  OBVIOUS
<1>3. ~(Len(st.in) < 2 \/ st.in[2] \notin {1, 2} \/ Len(st.in) < size)
  BY <1>2
<1>4. UsecsTurn(st, Yes) = Took(st, size, TimedUsecs(st.group, v, Yes))
  BY <1>3, Zenon DEF UsecsTurn
<1> HIDE DEF v, size
<1>5. Took(st, 6, TimedUsecs(g, n, Yes)) = InGroup(TimedUsecs(g, n, Yes), left)
  BY Zenon DEF Took, InGroup
<1> QED
  BY <1>1, <1>2, <1>4, <1>5, Zenon
LEMMA MsecsRead ==
    ASSUME NEW n \in Nat, NEW left \in Seq(Nat),
           NEW in, in = Cat(Pair(67, n), left), NEW k, NEW u, NEW m, NEW p, NEW o
    PROVE  /\ in \in Seq(Nat) /\ Len(in) = 2 + Len(left)
           /\ ReadGroupSegment(InGroup(Group(k, u, m, p, o), in))
                 = InGroup(Group(k, u, Yes, 1000 * n, o), left)
<1> DEFINE w == Pair(67, n)
           g == Group(k, u, m, p, o)
           st == InGroup(g, in)
           pit == 1000 * n
<1>1. w \in Seq(Nat) /\ Len(w) = 2 /\ w[1] = 67 /\ w[2] = n
  BY DEF Pair
<1>2. in = Cat(w, left)
  OBVIOUS
<1>3. ~st.bad /\ ~st.short /\ st.in = in /\ st.group = g
  BY InGroupIs
<1> HIDE DEF w, g, st
<1>4. InFront(w, left, in)
  BY <1>1, <1>2, FrontIs
<1>5. /\ in \in Seq(Nat) /\ Len(in) = 2 + Len(left) /\ Len(left) \in Nat
      /\ in[1] = 67 /\ in[2] = n /\ Past(in, 2) = left
  BY <1>1, <1>4 DEF InFront
<1>6. in # <<>> /\ ~(Len(in) < 2)
  <2>1. ~(Len(in) < 2) /\ Len(in) # 0
    BY <1>5
  <2> QED
    BY <2>1, EmptySeq
<1>7. Thousands(in) = pit
  BY <1>5 DEF Thousands
<1> HIDE DEF pit
<1>8. ReadGroupSegment(st) = InGroup(TimedMsecs(g, pit, Yes), left)
  <2>1. in[1] = 67 /\ Past(in, 2) = left
    BY <1>5
  <2> QED
    BY ONLY <2>1, <1>3, <1>6, <1>7, MsecsTook, SMTT(30)
<1> QED
  BY <1>5, <1>8, TimesPut DEF st, g, pit

LEMMA JoinedIs ==
    ASSUME NEW a \in Seq(Nat), NEW b \in Seq(Nat), NEW in, in = a \o b
    PROVE  /\ in \in Seq(Nat) /\ Len(in) = Len(a) + Len(b)
           /\ \A i \in 1 .. Len(a) : in[i] = a[i]
           /\ \A i \in 1 .. Len(b) : in[Len(a) + i] = b[i]
OBVIOUS

UsecsText(pit) == Cat(Pair(81, 2), Le32(pit))

\* Number32() has no sign to take off from what is below 2^31.
\* A sign-free inhibit time, and the bytes it is written in.
Positive(pit) == pit \in Nat /\ pit \div 65536 < 32768

IsUsecs(w, pit) ==
    /\ w \in Seq(Nat) /\ Len(w) = 6 /\ w[1] = 81 /\ w[2] = 2 /\ w[6] <= 127
    /\ (w[3] + 256 * w[4]) + 65536 * (w[5] + 256 * w[6]) = pit

LEMMA UsecsIs ==
    ASSUME NEW pit, Positive(pit), NEW w, w = UsecsText(pit)
    PROVE  IsUsecs(w, pit)
<1> DEFINE low == pit % 65536
           high == pit \div 65536
<1>1. low \in Nat /\ low < 65536 /\ high \in Nat /\ high < 65536 /\ high < 32768
      /\ low + 65536 * high = pit
  BY DEF Positive
<1>2. Le32(pit) = Cat(Le16(low), Le16(high))
  BY DEF Le32, Cat
<1> HIDE DEF low, high
<1>3. PICK a \in Nat, b \in Nat : Le16(low) = Pair(a, b) /\ a + 256 * b = low
  <2>1. Le16(low) = <<low % 256, low \div 256>> /\ low % 256 \in Nat /\ low \div 256 \in Nat
        /\ (low % 256) + 256 * (low \div 256) = low
    BY <1>1, Le16Is
  <2> QED
    BY <2>1 DEF Pair
<1>4. PICK c \in Nat, d \in Nat : Le16(high) = Pair(c, d) /\ c + 256 * d = high
  <2>1. Le16(high) = <<high % 256, high \div 256>> /\ high % 256 \in Nat /\ high \div 256 \in Nat
        /\ (high % 256) + 256 * (high \div 256) = high
    BY <1>1, Le16Is
  <2> QED
    BY <2>1 DEF Pair
<1> DEFINE s2 == Pair(81, 2)
           s4 == Pair(a, b)
           t4 == Cat(s4, Pair(c, d))
<1>5. s2 \in Seq(Nat) /\ Len(s2) = 2 /\ s2[1] = 81 /\ s2[2] = 2
  BY DEF Pair
<1>6. s4 \in Seq(Nat) /\ Len(s4) = 2 /\ s4[1] = a /\ s4[2] = b
  BY DEF Pair
<1> HIDE DEF s2, s4
<1>7. t4 \in Seq(Nat) /\ Len(t4) = 4 /\ t4[1] = a /\ t4[2] = b /\ t4[3] = c /\ t4[4] = d
  <2>1. s4 \in Seq(Nat)
    BY <1>6
  <2>2. PutAfter(s4, c, d, t4)
    BY <2>1, PairAfter
  <2> HIDE DEF t4
  <2> QED
    BY <1>6, <2>2 DEF PutAfter
<1> HIDE DEF t4
<1>8. w = Cat(s2, t4)
  BY <1>2, <1>3, <1>4 DEF UsecsText, s2, s4, t4
<1>9. w \in Seq(Nat) /\ Len(w) = Len(s2) + Len(t4)
      /\ (\A i \in 1 .. Len(s2) : w[i] = s2[i])
      /\ (\A i \in 1 .. Len(t4) : w[Len(s2) + i] = t4[i])
  <2>1. s2 \in Seq(Nat) /\ t4 \in Seq(Nat)
    BY <1>5, <1>7
  <2>4. w = s2 \o t4
    BY <1>8 DEF Cat
  <2> QED
    BY <2>1, <2>4, JoinedIs
<1>10. Len(w) = 6 /\ w[1] = 81 /\ w[2] = 2 /\ w[3] = a /\ w[4] = b /\ w[5] = c /\ w[6] = d
  <2>1. 1 \in 1 .. 2 /\ 2 \in 1 .. 2 /\ 1 \in 1 .. 4 /\ 2 \in 1 .. 4 /\ 3 \in 1 .. 4 /\ 4 \in 1 .. 4
    OBVIOUS
  <2>2. /\ Len(w) = 2 + 4
        /\ w[1] = s2[1] /\ w[2] = s2[2]
        /\ w[2 + 1] = t4[1] /\ w[2 + 2] = t4[2] /\ w[2 + 3] = t4[3] /\ w[2 + 4] = t4[4]
    BY <1>5, <1>7, <1>9, <2>1
  <2> QED
    BY <1>5, <1>7, <2>2
<1>11. d <= 127
  BY <1>1, <1>4
<1>12. (w[3] + 256 * w[4]) + 65536 * (w[5] + 256 * w[6]) = pit
  BY <1>1, <1>3, <1>4, <1>10
<1>13. w[6] <= 127
  BY <1>10, <1>11
<1>14. w \in Seq(Nat) /\ Len(w) = 6 /\ w[1] = 81 /\ w[2] = 2
  BY <1>9, <1>10, Zenon
<1> QED
  BY <1>12, <1>13, <1>14, SMT DEF IsUsecs

LEMMA Unsigned ==
    ASSUME NEW in, NEW w, NEW pit, IsUsecs(w, pit),
           in[3] = w[3], in[4] = w[4], in[5] = w[5], in[6] = w[6]
    PROVE  Number32(in, 3) = pit
<1>1. 3 + 1 = 4 /\ 3 + 2 = 5 /\ 5 + 1 = 6 /\ 3 + 3 = 6
  OBVIOUS
<1>2. w \in Seq(Nat) /\ Len(w) = 6 /\ w[6] <= 127
  BY DEF IsUsecs
<1>3. w[3] \in Nat /\ w[4] \in Nat /\ w[5] \in Nat /\ w[6] \in Nat
  <2>1. 3 \in 1 .. Len(w) /\ 4 \in 1 .. Len(w) /\ 5 \in 1 .. Len(w) /\ 6 \in 1 .. Len(w)
    BY <1>2
  <2> QED
    BY <1>2, <2>1, ElementOfSeq
<1>4. Number16(in, 3) = w[3] + 256 * w[4] /\ Number16(in, 3 + 2) = w[5] + 256 * w[6]
  BY <1>1 DEF Number16
<1>5. (IF in[3 + 3] > 127 THEN 65536 ELSE 0) = 0
  BY <1>1, <1>2, <1>3
<1>6. Number32(in, 3) = (w[3] + 256 * w[4]) + 65536 * (w[5] + 256 * w[6])
  BY <1>3, <1>4, <1>5 DEF Number32
<1> QED
  BY <1>6 DEF IsUsecs

LEMMA UsecsRead ==
    ASSUME NEW pit, Positive(pit), NEW left \in Seq(Nat),
           NEW in, in = Cat(UsecsText(pit), left), NEW k, NEW u, NEW m, NEW p, NEW o
    PROVE  /\ in \in Seq(Nat) /\ Len(in) = 6 + Len(left)
           /\ ReadGroupSegment(InGroup(Group(k, u, m, p, o), in))
                 = InGroup(Group(k, Yes, m, pit, o), left)
<1> DEFINE w == UsecsText(pit)
           g == Group(k, u, m, p, o)
           st == InGroup(g, in)
<1>1. IsUsecs(w, pit)
  BY UsecsIs
<1>2. in = Cat(w, left)
  OBVIOUS
<1>3. ~st.bad /\ ~st.short /\ st.in = in /\ st.group = g
  BY InGroupIs
<1> HIDE DEF w, g, st
<1>4. InFront(w, left, in)
  BY <1>1, <1>2, FrontIs DEF IsUsecs
<1>5. /\ in \in Seq(Nat) /\ Len(in) = 6 + Len(left) /\ Len(left) \in Nat
      /\ in[1] = 81 /\ in[2] = 2 /\ Past(in, 6) = left
      /\ in[3] = w[3] /\ in[4] = w[4] /\ in[5] = w[5] /\ in[6] = w[6]
  BY <1>1, <1>4 DEF InFront, IsUsecs
<1>6. in # <<>> /\ ~(Len(in) < 2) /\ ~(Len(in) < 6)
  <2>1. ~(Len(in) < 2) /\ Len(in) # 0 /\ ~(Len(in) < 6)
    BY <1>5
  <2> QED
    BY <2>1, EmptySeq
<1>7. Number32(in, 3) = pit
  BY <1>1, <1>5, Unsigned
<1>8. ReadGroupSegment(st) = InGroup(TimedUsecs(g, pit, Yes), left)
  <2>1. UsecsAhead(st, g, in, left, pit)
    BY <1>3, <1>5, <1>6, <1>7 DEF UsecsAhead
  <2> QED
    BY <2>1, UsecsTook
<1> QED
  BY <1>5, <1>8, TimesPut DEF st, g

\* A port: what is in front of its link address, by its number and the address's length.
Flagged(c, n) == Cat(<<(IF n = 1 THEN 0 ELSE 16) + c>>, IF n = 1 THEN <<>> ELSE <<n>>)
PortHead(v, n) == IF v <= 15 THEN Flagged(v, n) ELSE Cat(Flagged(15, n), Le16(v))
PadTo(s) == IF Odd(Len(s)) THEN Append(s, 0) ELSE s
PortText(v, link) == PadTo(Cat(PortHead(v, Len(link)), link))

LEMMA PortTextIs ==
    ASSUME NEW port \in Word \X Seq(Byte)
    PROVE  SerializePort(port) = PortText(port[1], port[2])
<1> DEFINE v == port[1]
           link == port[2]
           n == Len(link)
           one == n = 1
           size == IF one THEN <<>> ELSE <<n>>
           flag == IF one THEN 0 ELSE 16
           short == <<flag + v>> \o size
           long == <<flag + 15>> \o size \o Le16(v)
           bytes == (IF v <= 15 THEN short ELSE long) \o link
<1>1. SerializePort(port) = IF Odd(Len(bytes)) THEN Append(bytes, 0) ELSE bytes
  BY Zenon DEF SerializePort
<1>2. short = Flagged(v, n) /\ long = Cat(Flagged(15, n), Le16(v))
  BY Zenon DEF Flagged, Cat
<1> HIDE DEF short, long
<1>3. bytes = Cat(PortHead(v, n), link)
  BY <1>2, Zenon DEF PortHead, Cat
<1> HIDE DEF bytes
<1> QED
  BY <1>1, <1>3, Zenon DEF PortText, PadTo

Joins(a, b, s) ==
    /\ s \in Seq(Nat) /\ Len(s) = Len(a) + Len(b)
    /\ \A i \in 1 .. Len(a) : s[i] = a[i]
    /\ \A i \in 1 .. Len(b) : s[Len(a) + i] = b[i]

LEMMA CatJoins == \A a, b \in Seq(Nat) : Joins(a, b, Cat(a, b))
<1> SUFFICES ASSUME NEW a \in Seq(Nat), NEW b \in Seq(Nat)
             PROVE  Joins(a, b, Cat(a, b))
  OBVIOUS
<1> DEFINE s == Cat(a, b)
<1>1. s = a \o b
  BY DEF Cat
<1> HIDE DEF s
<1>2. Joins(a, b, s)
  BY <1>1, JoinedIs DEF Joins
<1> QED
  BY <1>2 DEF s

FlaggedIs(s, c, n) ==
    /\ s \in Seq(Nat) /\ Len(s) = (IF n = 1 THEN 1 ELSE 2)
    /\ s[1] = (IF n = 1 THEN 0 ELSE 16) + c
    /\ n # 1 => s[2] = n

LEMMA FlaggedRead == \A c, n \in Nat : FlaggedIs(Flagged(c, n), c, n)
<1> SUFFICES ASSUME NEW c \in Nat, NEW n \in Nat
             PROVE  FlaggedIs(Flagged(c, n), c, n)
  OBVIOUS
<1>1. CASE n = 1
  <2>1. Flagged(c, n) = <<c>>
    <3>1. <<c>> \o <<>> = <<c>>
      BY ConcatEmptySeq
    <3>2. (IF n = 1 THEN 0 ELSE 16) + c = c /\ (IF n = 1 THEN <<>> ELSE <<n>>) = <<>>
      BY <1>1
    <3> QED
      BY <3>1, <3>2, Zenon DEF Flagged, Cat
  <2> DEFINE s == <<c>>
  <2>2. s \in Seq(Nat) /\ Len(s) = 1 /\ s[1] = 0 + c
    OBVIOUS
  <2> HIDE DEF s
  <2>3. FlaggedIs(s, c, n)
    BY <1>1, <2>2 DEF FlaggedIs
  <2> QED
    BY <2>1, <2>3 DEF s
<1>2. CASE n # 1
  <2> DEFINE a == <<16 + c>>
             b == <<n>>
             s == Cat(a, b)
  <2>1. a \in Seq(Nat) /\ b \in Seq(Nat) /\ Len(a) = 1 /\ Len(b) = 1 /\ a[1] = 16 + c /\ b[1] = n
    OBVIOUS
  <2>2. Flagged(c, n) = s
    BY <1>2 DEF Flagged
  <2> HIDE DEF a, b
  <2>3. Joins(a, b, s)
    BY <2>1, CatJoins
  <2> HIDE DEF s
  <2>4. /\ s \in Seq(Nat) /\ Len(s) = Len(a) + Len(b)
        /\ \A i \in 1 .. Len(a) : s[i] = a[i]
        /\ \A i \in 1 .. Len(b) : s[Len(a) + i] = b[i]
    BY <2>1, <2>3 DEF Joins
  <2>5. Len(s) = 2 /\ s[1] = 16 + c /\ s[2] = n
    <3>1. 1 \in 1 .. 1 /\ 1 + 1 = 2
      OBVIOUS
    <3> QED
      BY <2>1, <2>4, <3>1
  <2>6. FlaggedIs(s, c, n)
    BY <1>2, <2>4, <2>5 DEF FlaggedIs
  <2> QED
    BY <2>2, <2>6
<1> QED
  BY <1>1, <1>2

\* What the reader of a port makes of what is in front of the address.
HeadRead(h, v, n) ==
    /\ h \in Seq(Nat)
    /\ Len(h) = 1 + (IF n = 1 THEN 0 ELSE 1) + (IF v <= 15 THEN 0 ELSE 2)
    /\ h[1] < 32
    /\ n = 1 => ~(h[1] >= 16)
    /\ n # 1 => h[1] >= 16 /\ h[2] = n
    /\ v <= 15 => h[1] % 16 # 15 /\ h[1] % 16 = v
    /\ v > 15 => h[1] % 16 = 15 /\ h[Len(h) - 1] + 256 * h[Len(h)] = v

LEMMA Modulo16 == \A c \in Nat : c <= 15 => c % 16 = c /\ (16 + c) % 16 = c
OBVIOUS

LEMMA PortHeadRead ==
    ASSUME NEW v \in Word, v # 15, NEW n \in Nat
    PROVE  HeadRead(PortHead(v, n), v, n)
<1>1. v \in Nat
  BY WordRange
<1>2. CASE v <= 15
  <2> DEFINE h == Flagged(v, n)
  <2>1. PortHead(v, n) = h
    BY <1>2 DEF PortHead
  <2>2. FlaggedIs(h, v, n)
    BY <1>1, FlaggedRead
  <2> HIDE DEF h
  <2>3. h \in Seq(Nat) /\ Len(h) = (IF n = 1 THEN 1 ELSE 2)
        /\ h[1] = (IF n = 1 THEN 0 ELSE 16) + v /\ (n # 1 => h[2] = n)
    BY <2>2 DEF FlaggedIs
  <2>4. v % 16 = v /\ (16 + v) % 16 = v
    BY <1>1, <1>2, Modulo16
  <2>5. h[1] % 16 = v /\ h[1] < 32
    BY <1>1, <1>2, <2>3, <2>4
  <2>6. (n = 1 => ~(h[1] >= 16)) /\ (n # 1 => h[1] >= 16)
    BY <1>1, <1>2, <2>3
  <2>7. HeadRead(h, v, n)
    BY <1>1, <1>2, <2>3, <2>5, <2>6 DEF HeadRead
  <2> QED
    BY <2>1, <2>7
<1>3. CASE ~(v <= 15)
  <2>1. PICK a \in Nat, b \in Nat : Le16(v) = Pair(a, b) /\ a + 256 * b = v
    <3>1. IsWord(v, Le16(v))
      BY WordBytes
    <3> QED
      BY <3>1 DEF IsWord
  <2> DEFINE f == Flagged(15, n)
             h == Cat(f, Pair(a, b))
  <2>2. PortHead(v, n) = h
    BY <1>3, <2>1 DEF PortHead
  <2>3. FlaggedIs(f, 15, n)
    BY FlaggedRead
  <2> HIDE DEF f
  <2>4. f \in Seq(Nat) /\ Len(f) = (IF n = 1 THEN 1 ELSE 2)
        /\ f[1] = (IF n = 1 THEN 0 ELSE 16) + 15 /\ (n # 1 => f[2] = n)
    BY <2>3 DEF FlaggedIs
  <2>5. PutAfter(f, a, b, h)
    BY <2>4, PairAfter
  <2> HIDE DEF h
  <2>6. /\ h \in Seq(Nat) /\ Len(h) = Len(f) + 2
        /\ \A i \in 1 .. Len(f) : h[i] = f[i]
        /\ h[Len(f) + 1] = a /\ h[Len(f) + 2] = b
    BY <2>5 DEF PutAfter
  <2>7. h[1] = f[1] /\ (n # 1 => h[2] = f[2])
    BY <2>4, <2>6
  <2>8. h[Len(h) - 1] = a /\ h[Len(h)] = b
    <3>1. CASE n = 1
      <4>1. Len(f) = 1 /\ Len(h) = 3 /\ 3 - 1 = 1 + 1 /\ 3 = 1 + 2
        BY <2>4, <2>6, <3>1
      <4> QED
        BY <2>6, <4>1
    <3>2. CASE n # 1
      <4>1. Len(f) = 2 /\ Len(h) = 4 /\ 4 - 1 = 2 + 1 /\ 4 = 2 + 2
        BY <2>4, <2>6, <3>2
      <4> QED
        BY <2>6, <4>1
    <3> QED
      BY <3>1, <3>2
  <2>9. h[1] % 16 = 15 /\ h[1] < 32 /\ (n = 1 => ~(h[1] >= 16)) /\ (n # 1 => h[1] >= 16 /\ h[2] = n)
    BY <2>4, <2>7
  <2>10. Len(h) = 1 + (IF n = 1 THEN 0 ELSE 1) + 2
    BY <2>4, <2>6
  <2>11. h[Len(h) - 1] + 256 * h[Len(h)] = v
    BY <2>1, <2>8
  <2>12. HeadRead(h, v, n)
    BY <1>1, <1>3, <2>6, <2>9, <2>10, <2>11 DEF HeadRead
  <2> QED
    BY <2>2, <2>12
<1> QED
  BY <1>2, <1>3

IsPadded(s, t) ==
    /\ t \in Seq(Nat) /\ Len(t) = Len(s) + (Len(s) % 2)
    /\ \A i \in 1 .. Len(s) : t[i] = s[i]

LEMMA Padded == \A s \in Seq(Nat) : IsPadded(s, PadTo(s))
<1> SUFFICES ASSUME NEW s \in Seq(Nat)
             PROVE  IsPadded(s, PadTo(s))
  OBVIOUS
<1>1. Len(s) \in Nat
  BY LenProperties
<1>2. CASE Odd(Len(s))
  <2> DEFINE t == Append(s, 0)
  <2>1. t \in Seq(Nat) /\ Len(t) = Len(s) + 1 /\ \A i \in 1 .. Len(s) : t[i] = s[i]
    BY AppendProperties
  <2>2. PadTo(s) = t /\ Len(s) % 2 = 1
    BY <1>2 DEF PadTo, Odd
  <2> HIDE DEF t
  <2> QED
    BY <2>1, <2>2 DEF IsPadded
<1>3. CASE ~Odd(Len(s))
  <2>1. PadTo(s) = s
    BY <1>3 DEF PadTo
  <2>2. Len(s) % 2 = 0
    BY <1>1, <1>3 DEF Odd
  <2>3. Len(s) = Len(s) + (Len(s) % 2)
    BY <1>1, <2>2
  <2>4. IsPadded(s, s)
    BY <2>3 DEF IsPadded
  <2> QED
    BY <2>1, <2>4
<1> QED
  BY <1>2, <1>3

LEMMA SliceIs ==
    ASSUME NEW in \in Seq(Nat), NEW head \in Nat, NEW link \in Seq(Nat),
           NEW n, n = Len(link), head + n <= Len(in),
           \A i \in 1 .. n : in[head + i] = link[i]
    PROVE  SubSeq(in, head + 1, head + n) = link
<1> DEFINE s == SubSeq(in, head + 1, head + n)
<1>1. n \in Nat /\ Len(in) \in Nat
  BY LenProperties
<1>2. head + 1 \in 1 .. Len(in) + 1 /\ head + n \in (head + 1) - 1 .. Len(in)
  BY <1>1
<1>3. s \in Seq(Nat) /\ Len(s) = n /\ \A i \in 1 .. n : s[i] = in[head + i]
  <2>1. Len(s) = n
    BY <1>1, <1>2
  <2>2. \A i \in 1 .. n : s[i] = in[head + i]
    BY <1>1, <1>2
  <2>3. s \in Seq(Nat)
    BY <1>1, <1>2
  <2> QED
    BY <2>1, <2>2, <2>3
<1> HIDE DEF s
<1>4. \A i \in 1 .. Len(s) : s[i] = link[i]
  BY <1>3
<1>5. s = link
  BY <1>3, <1>4, SeqEqual
<1> QED
  BY <1>5 DEF s

PortAhead(in, head, size, end) ==
    /\ head = 1 + (IF in[1] >= 16 THEN 1 ELSE 0) + (IF in[1] % 16 = 15 THEN 2 ELSE 0)
    /\ size = IF in[1] >= 16 THEN in[2] ELSE 1
    /\ end = head + size + ((head + size) % 2)
    /\ ~((in[1] >= 16 /\ Len(in) < 2) \/ Len(in) < end)

LEMMA PortFields ==
    ASSUME NEW in, NEW head, NEW size, NEW end, PortAhead(in, head, size, end)
    PROVE  DeserializePort(in) =
              [bad |-> FALSE, size |-> end,
               port |-> <<IF in[1] % 16 = 15 THEN Number16(in, head - 1) ELSE in[1] % 16,
                          SubSeq(in, head + 1, head + size)>>]
<1> DEFINE sized == in[1] >= 16
           long == in[1] % 16 = 15
           head2 == 1 + (IF sized THEN 1 ELSE 0) + (IF long THEN 2 ELSE 0)
           size2 == IF sized THEN in[2] ELSE 1
           end2 == head2 + size2 + ((head2 + size2) % 2)
           P(h, s, e) == [bad |-> FALSE, size |-> e,
               port |-> <<IF long THEN Number16(in, h - 1) ELSE in[1] % 16,
                          SubSeq(in, h + 1, h + s)>>]
<1>1. DeserializePort(in) = IF (sized /\ Len(in) < 2) \/ Len(in) < end2 THEN [bad |-> TRUE]
                            ELSE P(head2, size2, end2)
  BY Zenon DEF DeserializePort
<1>2. head2 = head /\ size2 = size
  BY Zenon DEF PortAhead
<1>3. end2 = end
  <2> HIDE DEF head2, size2
  <2> QED
    BY <1>2, Zenon DEF PortAhead
<1>4. ~((sized /\ Len(in) < 2) \/ Len(in) < end)
  BY Zenon DEF PortAhead
<1> HIDE DEF head2, size2, end2, P
<1>5. DeserializePort(in) = P(head, size, end)
  BY <1>1, <1>2, <1>3, <1>4, Zenon
<1> QED
  BY <1>5, Zenon DEF P

\* A port in front of left, which is read as it was written.
PortIs(in, v, link, left) ==
    LET p == DeserializePort(in)
    IN  /\ in \in Seq(Nat) /\ in # <<>> /\ in[1] < 32 /\ Len(in) > Len(left)
        /\ ~p.bad /\ p.port = <<v, link>> /\ Past(in, p.size) = left

LEMMA PortFieldRead ==
    ASSUME NEW v \in Word, v # 15, NEW link \in Seq(Byte), NEW left \in Seq(Nat),
           NEW in, in = Cat(PortText(v, link), left)
    PROVE  PortIs(in, v, link, left)
<1> DEFINE n == Len(link)
           h == PortHead(v, n)
           s == Cat(h, link)
           t == PadTo(s)
           head == Len(h)
           end == head + n + ((head + n) % 2)
<1>1. link \in Seq(Nat) /\ n \in Nat /\ v \in Nat
  <2>1. v \in Nat
    BY WordRange
  <2> QED
    BY <2>1, BytesAreNats, LenProperties
<1>2. HeadRead(h, v, n)
  BY <1>1, PortHeadRead
<1>3. in = Cat(t, left)
  BY DEF PortText
<1> HIDE DEF n, h
<1>4. /\ h \in Seq(Nat) /\ Len(h) = 1 + (IF n = 1 THEN 0 ELSE 1) + (IF v <= 15 THEN 0 ELSE 2)
      /\ h[1] < 32
      /\ n = 1 => ~(h[1] >= 16)
      /\ n # 1 => h[1] >= 16 /\ h[2] = n
      /\ v <= 15 => h[1] % 16 # 15 /\ h[1] % 16 = v
      /\ v > 15 => h[1] % 16 = 15 /\ h[Len(h) - 1] + 256 * h[Len(h)] = v
  BY <1>2 DEF HeadRead
<1>5. Joins(h, link, s)
  BY <1>1, <1>4, CatJoins
<1> HIDE DEF s
<1>6. /\ s \in Seq(Nat) /\ Len(s) = head + n
      /\ \A i \in 1 .. head : s[i] = h[i]
      /\ \A i \in 1 .. n : s[head + i] = link[i]
  BY <1>5 DEF Joins, n
<1>7. IsPadded(s, t)
  BY <1>6, Padded
<1> HIDE DEF t
<1>8. /\ t \in Seq(Nat) /\ Len(t) = end
      /\ \A i \in 1 .. head + n : t[i] = s[i]
  BY <1>6, <1>7 DEF IsPadded
<1>9. InFront(t, left, in)
  BY <1>3, <1>8, FrontIs
<1>10. head \in Nat /\ head >= 1 /\ (n # 1 => head >= 2) /\ (v > 15 => head - 1 >= 1 /\ head - 1 \in Nat)
  BY <1>1, <1>4
<1>11. end \in Nat /\ end >= head + n
  <2>1. head + n \in Nat
    BY <1>1, <1>10
  <2>2. \A k \in Nat : k + (k % 2) \in Nat /\ k + (k % 2) >= k
    OBVIOUS
  <2>3. end = (head + n) + ((head + n) % 2)
    OBVIOUS
  <2> HIDE DEF head, end
  <2> QED
    BY <2>1, <2>2, <2>3
<1> HIDE DEF head, end
<1>12. /\ in \in Seq(Nat) /\ Len(in) = end + Len(left) /\ Len(left) \in Nat
       /\ \A i \in 1 .. end : in[i] = t[i]
       /\ Past(in, end) = left
  BY <1>8, <1>9 DEF InFront
<1>13. /\ \A i \in 1 .. head : in[i] = h[i]
       /\ \A i \in 1 .. n : in[head + i] = link[i]
  <2>1. \A i \in 1 .. head : i \in 1 .. end /\ i \in 1 .. head + n
    BY <1>1, <1>10, <1>11
  <2>2. \A i \in 1 .. n : head + i \in 1 .. end /\ head + i \in 1 .. head + n
    BY <1>1, <1>10, <1>11
  <2> QED
    BY <1>6, <1>8, <1>12, <2>1, <2>2
<1>14. in[1] = h[1] /\ (n # 1 => in[2] = h[2])
       /\ (v > 15 => in[head - 1] = h[head - 1] /\ in[head] = h[head])
  <2>1. 1 \in 1 .. head /\ (n # 1 => 2 \in 1 .. head) /\ (v > 15 => head - 1 \in 1 .. head /\ head \in 1 .. head)
    BY <1>10
  <2> QED
    BY <1>13, <2>1
<1>15. PortAhead(in, head, n, end)
  <2>1. v <= 15 \/ v > 15
    BY <1>1
  <2>2. head = 1 + (IF in[1] >= 16 THEN 1 ELSE 0) + (IF in[1] % 16 = 15 THEN 2 ELSE 0)
    BY <1>1, <1>4, <1>14, <2>1 DEF head
  <2>3. n = IF in[1] >= 16 THEN in[2] ELSE 1
    BY <1>4, <1>14
  <2>4. end = head + n + ((head + n) % 2)
    BY DEF end
  <2>5. ~(in[1] >= 16 /\ Len(in) < 2)
    BY <1>1, <1>4, <1>10, <1>11, <1>12, <1>14
  <2>6. ~(Len(in) < end)
    BY <1>11, <1>12
  <2> QED
    BY <2>2, <2>3, <2>4, <2>5, <2>6 DEF PortAhead
<1> DEFINE num == IF in[1] % 16 = 15 THEN Number16(in, head - 1) ELSE in[1] % 16
           addr == SubSeq(in, head + 1, head + n)
<1>16. DeserializePort(in) = [bad |-> FALSE, size |-> end, port |-> <<num, addr>>]
  BY <1>15, PortFields
<1>17. num = v
  <2>1. CASE v <= 15
    BY <1>4, <1>14, <2>1
  <2>2. CASE v > 15
    <3>1. (head - 1) + 1 = head
      BY <1>10
    <3>2. Number16(in, head - 1) = h[head - 1] + 256 * h[head]
      BY <1>14, <2>2, <3>1 DEF Number16
    <3>3. h[head - 1] + 256 * h[head] = v
      BY <1>4, <2>2 DEF head
    <3> QED
      BY <1>4, <1>14, <2>2, <3>2, <3>3
  <2> QED
    BY <1>1, <2>1, <2>2
<1>18. addr = link
  <2>1. n = Len(link) /\ head + n <= Len(in)
    BY <1>1, <1>10, <1>11, <1>12 DEF n
  <2> QED
    BY <1>1, <1>10, <1>12, <1>13, <2>1, SliceIs
<1>19. in # <<>> /\ in[1] < 32 /\ Len(in) > Len(left)
  <2>1. Len(in) # 0 /\ Len(in) > Len(left)
    BY <1>1, <1>10, <1>11, <1>12
  <2> QED
    BY <1>4, <1>14, <2>1, EmptySeq
<1> HIDE DEF num, addr
<1> DEFINE p == DeserializePort(in)
<1>20. p.bad = FALSE /\ p.size = end /\ p.port = <<v, link>>
  BY <1>16, <1>17, <1>18
<1> HIDE DEF p
<1>21. /\ in \in Seq(Nat) /\ in # <<>> /\ in[1] < 32 /\ Len(in) > Len(left)
       /\ ~p.bad /\ p.port = <<v, link>> /\ Past(in, p.size) = left
  BY <1>12, <1>19, <1>20
<1> QED
  BY <1>21 DEF p, PortIs

LEMMA PortRead ==
    ASSUME NEW v \in Word, v # 15, NEW link \in Seq(Byte), NEW left \in Seq(Nat),
           NEW in, in = Cat(PortText(v, link), left), NEW k, NEW u, NEW m, NEW p, NEW o
    PROVE  /\ in \in Seq(Nat) /\ Len(in) > Len(left)
           /\ ReadGroupSegment(InGroup(Group(k, u, m, p, o), in))
                 = InGroup(Group(k, u, m, p, <<v, link>>), left)
<1> DEFINE g == Group(k, u, m, p, o)
           st == InGroup(g, in)
           x == DeserializePort(in)
           port == <<v, link>>
<1>1. /\ in \in Seq(Nat) /\ in # <<>> /\ in[1] < 32 /\ Len(in) > Len(left)
      /\ ~x.bad /\ x.port = port /\ Past(in, x.size) = left
  <2>1. PortIs(in, v, link, left)
    BY PortFieldRead
  <2> QED
    BY <2>1 DEF PortIs
<1>2. ~st.bad /\ ~st.short /\ st.in = in /\ st.group = g
  BY InGroupIs
<1>3. [g EXCEPT !.port = port] = Group(k, u, m, p, port)
  BY FieldPut
<1> HIDE DEF g, st, x, port
<1>4. ReadGroupSegment(st) = PortTurn(st)
  <2>1. ~st.bad /\ ~st.short /\ st.in # <<>> /\ st.in[1] < 32
    BY <1>1, <1>2
  <2>2. st.in[1] \in Nat
    <3>1. 1 \in 1 .. Len(in)
      BY <1>1, EmptySeq, LenProperties
    <3> QED
      BY <1>1, <1>2, <3>1, ElementOfSeq
  <2> QED
    BY <2>1, <2>2, Turns
<1>5. PortTurn(st) = Took(st, x.size, [g EXCEPT !.port = x.port])
  <2>1. DeserializePort(st.in) = x
    BY <1>2 DEF x
  <2>2. PortTurn(st) = IF x.bad THEN [st EXCEPT !.bad = TRUE]
                       ELSE Took(st, x.size, [st.group EXCEPT !.port = x.port])
    BY <2>1, Zenon DEF PortTurn
  <2> QED
    BY <1>1, <1>2, <2>2, Zenon
<1>6. PortTurn(st) = Took(st, x.size, Group(k, u, m, p, port))
  BY <1>1, <1>3, <1>5, Zenon
<1>7. Took(st, x.size, Group(k, u, m, p, port)) = InGroup(Group(k, u, m, p, port), left)
  BY <1>1, <1>2, TookIs
<1>8. ReadGroupSegment(st) = InGroup(Group(k, u, m, p, port), left)
  BY <1>4, <1>6, <1>7, Zenon
<1> QED
  BY <1>1, <1>8, Zenon DEF st, g, port

-----------------------------------------------------------------------------
(* The loop over the segments of a group.                                    *)

LEMMA SetInduction ==
    ASSUME NEW S \in SUBSET Nat, 0 \in S, \A n \in S : n + 1 \in S
    PROVE  S = Nat
<1> SUFFICES ASSUME NEW m \in Nat, m \notin S
             PROVE  FALSE
  OBVIOUS
<1>1. IsWellFoundedOn(OpToRel(<, Nat), Nat)
  BY NatLessThanWellFounded
<1>2. Nat \ S # {} /\ Nat \ S \subseteq Nat
  OBVIOUS
<1>3. PICK n \in Nat \ S : \A y \in Nat \ S : ~(<<y, n>> \in OpToRel(<, Nat))
  BY <1>1, <1>2, WFMin
<1>4. n # 0
  OBVIOUS
<1>5. n - 1 \in Nat /\ n - 1 < n /\ (n - 1) + 1 = n
  BY <1>4
<1>6. n - 1 \notin S
  BY <1>5
<1> QED
  BY <1>3, <1>5, <1>6 DEF OpToRel

TurnBody(f, in, i) == IF i = 0 THEN InGroup(NoGroup, in) ELSE ReadGroupSegment(f[i - 1])
Turning(in) == CHOOSE f : f = [i \in 0 .. Len(in) |-> TurnBody(f, in, i)]

LEMMA GroupIsLoop == \A in : DeserializeGroup(in) = Turning(in)[Len(in)]
BY Zenon DEF DeserializeGroup, Turning, TurnBody, InGroup

LEMMA TurningRuns ==
    ASSUME NEW in, Len(in) \in Nat
    PROVE  \A i \in 0 .. Len(in) : Turning(in)[i] = TurnBody(Turning(in), in, i)
<1> DEFINE n == Len(in)
           loop == Turning(in)
           E == {k \in Nat : \E f : \A i \in 0 .. n : i <= k => f[i] = TurnBody(f, in, i)}
<1>1. ASSUME NEW f, NEW g, NEW i \in 0 .. n, i # 0 => f[i - 1] = g[i - 1]
      PROVE  TurnBody(f, in, i) = TurnBody(g, in, i)
  BY <1>1 DEF TurnBody
<1>2. E = Nat
  <2>1. 0 \in E
    <3> DEFINE f == [i \in 0 .. n |-> InGroup(NoGroup, in)]
    <3>1. \A i \in 0 .. n : i <= 0 => f[i] = TurnBody(f, in, i)
      BY DEF TurnBody
    <3> HIDE DEF f
    <3> QED
      BY <3>1
  <2>2. ASSUME NEW k \in E
        PROVE  k + 1 \in E
    <3>1. PICK f : \A i \in 0 .. n : i <= k => f[i] = TurnBody(f, in, i)
      OBVIOUS
    <3> DEFINE g == [i \in 0 .. n |-> TurnBody(f, in, i)]
    <3>2. \A i \in 0 .. n : (i <= k => g[i] = f[i]) /\ g[i] = TurnBody(f, in, i)
      BY <3>1
    <3> HIDE DEF g
    <3>3. ASSUME NEW i \in 0 .. n, i <= k + 1
          PROVE  g[i] = TurnBody(g, in, i)
      <4>1. i # 0 => i - 1 \in 0 .. n /\ i - 1 <= k
        BY <3>3
      <4>2. TurnBody(f, in, i) = TurnBody(g, in, i)
        BY <1>1, <3>2, <4>1
      <4> QED
        BY <3>2, <4>2
    <3> QED
      BY <3>3
  <2> HIDE DEF E
  <2>3. E \in SUBSET Nat
    BY DEF E
  <2> QED
    BY <2>1, <2>2, <2>3, SetInduction
<1>3. loop = [i \in 0 .. n |-> TurnBody(loop, in, i)]
  <2>1. PICK f : \A i \in 0 .. n : i <= n => f[i] = TurnBody(f, in, i)
    BY <1>2
  <2> DEFINE g == [i \in 0 .. n |-> TurnBody(f, in, i)]
  <2>2. \A i \in 0 .. n : g[i] = f[i] /\ g[i] = TurnBody(f, in, i)
    BY <2>1
  <2>3. g = [i \in 0 .. n |-> g[i]]
    OBVIOUS
  <2> HIDE DEF g
  <2>4. ASSUME NEW i \in 0 .. n
        PROVE  g[i] = TurnBody(g, in, i)
    <3>1. i # 0 => i - 1 \in 0 .. n
      OBVIOUS
    <3>2. TurnBody(f, in, i) = TurnBody(g, in, i)
      BY <1>1, <2>2, <3>1
    <3> QED
      BY <2>2, <3>2
  <2>5. g = [i \in 0 .. n |-> TurnBody(g, in, i)]
    BY <2>3, <2>4
  <2> QED
    BY <2>5 DEF Turning
<1> HIDE DEF loop
<1> QED
  BY <1>3 DEF loop

\* What the loop comes to, if each of its turns takes bytes or is the last.
LEMMA LoopEnds ==
    ASSUME NEW in, Len(in) \in Nat, NEW W, NEW done \in W,
           InGroup(NoGroup, in) \in W,
           ReadGroupSegment(done) = done,
           \A a \in W : Len(a.in) \in Nat,
           \A a \in W : Len(a.in) = 0 => a = done,
           \A a \in W : \/ ReadGroupSegment(a) = done
                        \/ ReadGroupSegment(a) \in W /\ Len(ReadGroupSegment(a).in) < Len(a.in)
    PROVE  DeserializeGroup(in) = done
<1> DEFINE n == Len(in)
           turns == Turning(in)
           P(i) == turns[i] = done \/ (turns[i] \in W /\ Len(turns[i].in) + i <= n)
           E == {i \in Nat : i <= n => P(i)}
<1>1. \A i \in 0 .. n : turns[i] = TurnBody(turns, in, i)
  BY TurningRuns
<1>2. DeserializeGroup(in) = turns[n]
  BY GroupIsLoop
<1>8. n \in Nat /\ InGroup(NoGroup, in).in = in
  BY InGroupIs
<1>9. Len(InGroup(NoGroup, in).in) = n
  BY <1>8
<1> HIDE DEF turns, n
<1>3. 0 \in E
  <2>1. 0 \in 0 .. n
    BY <1>8
  <2>2. turns[0] = InGroup(NoGroup, in)
    BY <1>1, <2>1 DEF TurnBody
  <2>3. Len(turns[0].in) + 0 <= n
    BY <1>8, <1>9, <2>2
  <2>4. turns[0] \in W
    BY <2>2
  <2> QED
    BY <2>3, <2>4
<1>4. ASSUME NEW i \in E
      PROVE  i + 1 \in E
  <2>9. i \in Nat /\ (i <= n => P(i))
    BY <1>4
  <2>1. SUFFICES ASSUME i + 1 <= n
                 PROVE  P(i + 1)
    <3> HIDE DEF P
    <3> QED
      BY <2>9
  <2>2. i \in Nat /\ i <= n /\ i + 1 \in 0 .. n /\ i + 1 # 0 /\ (i + 1) - 1 = i
    BY <1>8, <2>9, <2>1
  <2>3. turns[i + 1] = ReadGroupSegment(turns[i])
    BY <1>1, <2>2 DEF TurnBody
  <2>4. P(i)
    BY <2>9, <2>2
  <2>5. CASE turns[i] = done
    BY <2>3, <2>5
  <2>6. CASE turns[i] \in W /\ Len(turns[i].in) + i <= n
    <3> DEFINE a == turns[i]
               b == turns[i + 1]
    <3>1. b = done \/ (b \in W /\ Len(b.in) < Len(a.in))
      BY <2>3, <2>6
    <3>2. ASSUME b \in W, Len(b.in) < Len(a.in)
          PROVE  Len(b.in) + (i + 1) <= n
      <4>1. Len(b.in) \in Nat /\ Len(a.in) \in Nat /\ Len(a.in) + i <= n
        BY <2>6, <3>2
      <4>2. \A x, y \in Nat : x < y /\ y + i <= n => x + (i + 1) <= n
        BY <1>8, <2>2
      <4> HIDE DEF a, b
      <4> QED
        BY <3>2, <4>1, <4>2, Zenon
    <3> QED
      BY <3>1, <3>2
  <2> QED
    BY <2>4, <2>5, <2>6
<1>5. E = Nat
  <2> HIDE DEF P
  <2>1. E \in SUBSET Nat
    OBVIOUS
  <2> HIDE DEF E
  <2> QED
    BY <1>3, <1>4, <2>1, SetInduction
<1>6. P(n)
  <2> HIDE DEF P
  <2> QED
    BY <1>5, <1>8
<1>7. turns[n] = done
  <2>1. SUFFICES ASSUME turns[n] \in W, Len(turns[n].in) + n <= n
                 PROVE  turns[n] = done
    BY <1>6
  <2>2. Len(turns[n].in) \in Nat
    BY <2>1
  <2>3. Len(turns[n].in) = 0
    BY <1>8, <2>1, <2>2
  <2> QED
    BY <2>1, <2>3
<1> QED
  BY <1>2, <1>7

\* One segment of the group, if there is one.
Turned(a, b) == a = b \/ (ReadGroupSegment(a) = b /\ Len(b.in) < Len(a.in))

LEMMA FourTurns ==
    ASSUME NEW in, Len(in) \in Nat, NEW a0, NEW a1, NEW a2, NEW a3, NEW a4,
           a0 = InGroup(NoGroup, in),
           Turned(a0, a1), Turned(a1, a2), Turned(a2, a3), Turned(a3, a4),
           ReadGroupSegment(a4) = a4,
           Len(a0.in) \in Nat, Len(a1.in) \in Nat, Len(a2.in) \in Nat, Len(a3.in) \in Nat,
           Len(a4.in) \in Nat
    PROVE  DeserializeGroup(in) = a4
<1> DEFINE W == {a0, a1, a2, a3, a4}
           Goes(a) == \/ ReadGroupSegment(a) = a4
                      \/ ReadGroupSegment(a) \in W /\ Len(ReadGroupSegment(a).in) < Len(a.in)
<1>1. \A a, b : Turned(a, b) /\ Goes(b) /\ b \in W => Goes(a)
  <2>1. \A a, b : Turned(a, b) => a = b \/ (ReadGroupSegment(a) = b /\ Len(b.in) < Len(a.in))
    BY DEF Turned
  <2> HIDE DEF W
  <2> QED
    BY <2>1
<1>2. \A a, b : /\ Turned(a, b) /\ Len(a.in) \in Nat /\ Len(b.in) \in Nat
                /\ (Len(b.in) = 0 => b = a4)
                => (Len(a.in) = 0 => a = a4)
  BY DEF Turned
<1>3. Goes(a4)
  OBVIOUS
<1>4. a0 \in W /\ a1 \in W /\ a2 \in W /\ a3 \in W /\ a4 \in W
  OBVIOUS
<1>5. \A a \in W : Len(a.in) \in Nat
  OBVIOUS
<1>6. \A a \in W : a = a0 \/ a = a1 \/ a = a2 \/ a = a3 \/ a = a4
  OBVIOUS
<1> HIDE DEF W, Goes
<1>7. Goes(a0) /\ Goes(a1) /\ Goes(a2) /\ Goes(a3)
  BY <1>1, <1>3, <1>4
<1>8. /\ Len(a3.in) = 0 => a3 = a4
      /\ Len(a2.in) = 0 => a2 = a4
      /\ Len(a1.in) = 0 => a1 = a4
      /\ Len(a0.in) = 0 => a0 = a4
  BY <1>2
<1>9. \A a \in W : Goes(a)
  BY <1>3, <1>6, <1>7
<1>10. \A a \in W : Len(a.in) = 0 => a = a4
  BY <1>6, <1>8
<1>11. \A a \in W : \/ ReadGroupSegment(a) = a4
                    \/ ReadGroupSegment(a) \in W /\ Len(ReadGroupSegment(a).in) < Len(a.in)
  BY <1>9 DEF Goes
<1> QED
  BY <1>4, <1>5, <1>10, <1>11, LoopEnds

\* The segments of a group.
KeyPart(g) == IF g.key # <<>> THEN SerializeKey(g.key) ELSE <<>>
UsecsPart(g) == IF g.usecs THEN UsecsText(g.pit) ELSE <<>>
MsecsPart(g) == IF g.msecs THEN Pair(67, g.pit \div 1000) ELSE <<>>
PortPart(g) == IF g.port # <<>> THEN PortText(g.port[1], g.port[2]) ELSE <<>>

GroupClear(g) ==
    g \in Groups /\ GroupOK(g) /\ ~(g.port # <<>> /\ g.port[1] = 15)

LEMMA GroupText ==
    ASSUME NEW g, GroupClear(g)
    PROVE  SerializeGroup(g) = Cat(Cat(Cat(KeyPart(g), UsecsPart(g)), MsecsPart(g)), PortPart(g))
<1> DEFINE a == IF g.key # <<>> THEN SerializeKey(g.key) ELSE <<>>
           b == IF g.usecs THEN <<81, 2>> \o Le32(g.pit) ELSE <<>>
           c == IF g.msecs THEN <<67, g.pit \div 1000>> ELSE <<>>
           d == IF g.port # <<>> THEN SerializePort(g.port) ELSE <<>>
<1>1. SerializeGroup(g) = Cat(Cat(Cat(a, b), c), d)
  BY DEF SerializeGroup, Cat
<1>2. a = KeyPart(g)
  BY DEF KeyPart
<1>3. b = UsecsPart(g)
  BY DEF UsecsPart, UsecsText, Cat, Pair
<1>4. c = MsecsPart(g)
  BY DEF MsecsPart, Pair
<1>5. d = PortPart(g)
  <2>1. CASE g.port # <<>>
    <3>1. g.port \in Word \X Seq(Byte)
      BY <2>1 DEF GroupClear, Groups
    <3> QED
      BY <2>1, <3>1, PortTextIs DEF PortPart
  <2> QED
    BY <2>1 DEF PortPart
<1> HIDE DEF a, b, c, d
<1> QED
  BY <1>1, <1>2, <1>3, <1>4, <1>5

No == FALSE

LEMMA Choices ==
    ASSUME NEW g, GroupClear(g)
    PROVE  /\ g.usecs => g.usecs = Yes
           /\ ~g.usecs => g.usecs = No
           /\ g.msecs => g.msecs = Yes
           /\ ~g.msecs => g.msecs = No
           /\ g = Group(g.key, g.usecs, g.msecs, g.pit, g.port)
<1>1. g \in Groups
  BY DEF GroupClear
<1>2. g.usecs \in BOOLEAN /\ g.msecs \in BOOLEAN
  BY <1>1 DEF Groups
<1>3. (g.usecs => g.usecs = TRUE) /\ (~g.usecs => g.usecs = FALSE)
  BY <1>2
<1>4. (g.msecs => g.msecs = TRUE) /\ (~g.msecs => g.msecs = FALSE)
  BY <1>2
<1>5. g = Group(g.key, g.usecs, g.msecs, g.pit, g.port)
  BY <1>1 DEF Groups, Group
<1> QED
  BY <1>3, <1>4, <1>5, Zenon DEF Yes, No

\* How far a group has been read.
Read1(g) == Group(g.key, No, No, 0, <<>>)
Read2(g) == Group(g.key, g.usecs, No, IF g.usecs THEN g.pit ELSE 0, <<>>)
Read3(g) == Group(g.key, g.usecs, g.msecs, g.pit, <<>>)

LEMMA TurnedIs ==
    ASSUME NEW g, NEW h, NEW in, NEW left, Len(left) < Len(in),
           ReadGroupSegment(InGroup(g, in)) = InGroup(h, left)
    PROVE  Turned(InGroup(g, in), InGroup(h, left))
<1>1. InGroup(g, in).in = in /\ InGroup(h, left).in = left
  BY InGroupIs
<1> QED
  BY <1>1 DEF Turned

LEMMA KeyTurned ==
    ASSUME NEW g, GroupClear(g), NEW left \in Seq(Nat), NEW in, in = Cat(KeyPart(g), left)
    PROVE  in \in Seq(Nat) /\ Turned(InGroup(NoGroup, in), InGroup(Read1(g), left))
<1>1. NoGroup = Group(<<>>, No, No, 0, <<>>)
  BY DEF NoGroup, Group, No
<1>2. CASE g.key = <<>>
  <2>1. in = left
    <3>1. Cat(<<>>, left) = left
      BY ConcatEmptySeq DEF Cat
    <3>2. KeyPart(g) = <<>>
      BY <1>2 DEF KeyPart
    <3> QED
      BY <3>1, <3>2, Zenon
  <2>2. NoGroup = Read1(g)
    BY <1>1, <1>2, Zenon DEF Read1
  <2> QED
    BY <2>1, <2>2 DEF Turned
<1>3. CASE g.key # <<>>
  <2>1. g.key \in Word \X Word \X Word \X Byte \X Byte
    BY <1>3 DEF GroupClear, Groups
  <2>2. in = Cat(SerializeKey(g.key), left)
    BY <1>3 DEF KeyPart
  <2>3. /\ in \in Seq(Nat) /\ Len(in) = 10 + Len(left)
        /\ ReadGroupSegment(InGroup(NoGroup, in)) = InGroup(Read1(g), left)
    BY <1>1, <2>1, <2>2, KeyRead DEF Read1
  <2>4. Len(left) < Len(in)
    BY <2>3
  <2> QED
    BY <2>3, <2>4, TurnedIs
<1> QED
  BY <1>2, <1>3

LEMMA UsecsTurned ==
    ASSUME NEW g, GroupClear(g), NEW left \in Seq(Nat), NEW in, in = Cat(UsecsPart(g), left)
    PROVE  in \in Seq(Nat) /\ Turned(InGroup(Read1(g), in), InGroup(Read2(g), left))
<1>1. CASE ~g.usecs
  <2>1. in = left
    <3>1. Cat(<<>>, left) = left
      BY ConcatEmptySeq DEF Cat
    <3>2. UsecsPart(g) = <<>>
      BY <1>1 DEF UsecsPart
    <3> QED
      BY <3>1, <3>2, Zenon
  <2>2. Read1(g) = Read2(g)
    <3>1. g.usecs = No
      BY <1>1, Choices
    <3>2. (IF g.usecs THEN g.pit ELSE 0) = 0
      BY <1>1
    <3> QED
      BY <3>1, <3>2, Zenon DEF Read1, Read2
  <2> QED
    BY <2>1, <2>2 DEF Turned
<1>2. CASE g.usecs
  <2>1. Positive(g.pit)
    BY DEF GroupClear, Groups, GroupOK, Positive
  <2>2. in = Cat(UsecsText(g.pit), left)
    BY <1>2 DEF UsecsPart
  <2>3. /\ in \in Seq(Nat) /\ Len(in) = 6 + Len(left)
        /\ ReadGroupSegment(InGroup(Read1(g), in))
              = InGroup(Group(g.key, Yes, No, g.pit, <<>>), left)
    BY <2>1, <2>2, UsecsRead DEF Read1
  <2>4. Read2(g) = Group(g.key, Yes, No, g.pit, <<>>)
    <3>1. g.usecs = Yes
      BY <1>2, Choices
    <3>2. (IF g.usecs THEN g.pit ELSE 0) = g.pit
      BY <1>2
    <3> QED
      BY <3>1, <3>2, Zenon DEF Read2
  <2>5. Len(left) < Len(in)
    BY <2>3
  <2> QED
    BY <2>3, <2>4, <2>5, TurnedIs
<1> QED
  BY <1>1, <1>2

LEMMA MsecsTurned ==
    ASSUME NEW g, GroupClear(g), NEW left \in Seq(Nat), NEW in, in = Cat(MsecsPart(g), left)
    PROVE  in \in Seq(Nat) /\ Turned(InGroup(Read2(g), in), InGroup(Read3(g), left))
<1>0. /\ g.pit \in Nat
      /\ g.msecs => g.pit % 1000 = 0
      /\ g.usecs \/ g.msecs \/ g.pit = 0
  BY DEF GroupClear, Groups, GroupOK
<1>1. CASE ~g.msecs
  <2>1. in = left
    <3>1. Cat(<<>>, left) = left
      BY ConcatEmptySeq DEF Cat
    <3>2. MsecsPart(g) = <<>>
      BY <1>1 DEF MsecsPart
    <3> QED
      BY <3>1, <3>2, Zenon
  <2>2. Read2(g) = Read3(g)
    <3>1. g.msecs = No
      BY <1>1, Choices
    <3>2. (IF g.usecs THEN g.pit ELSE 0) = g.pit
      BY <1>0, <1>1
    <3> QED
      BY <3>1, <3>2, Zenon DEF Read2, Read3
  <2> QED
    BY <2>1, <2>2 DEF Turned
<1>2. CASE g.msecs
  <2> DEFINE n == g.pit \div 1000
  <2>1. n \in Nat /\ 1000 * n = g.pit
    BY <1>0, <1>2
  <2>2. in = Cat(Pair(67, n), left)
    BY <1>2 DEF MsecsPart
  <2> HIDE DEF n
  <2>3. /\ in \in Seq(Nat) /\ Len(in) = 2 + Len(left)
        /\ ReadGroupSegment(InGroup(Read2(g), in))
              = InGroup(Group(g.key, g.usecs, Yes, 1000 * n, <<>>), left)
    BY <2>1, <2>2, MsecsRead DEF Read2
  <2>4. Read3(g) = Group(g.key, g.usecs, Yes, g.pit, <<>>)
    <3>1. g.msecs = Yes
      BY <1>2, Choices
    <3> QED
      BY <3>1, Zenon DEF Read3
  <2>5. Len(left) < Len(in)
    BY <2>3
  <2>6. ReadGroupSegment(InGroup(Read2(g), in)) = InGroup(Read3(g), left)
    BY <2>1, <2>3, <2>4
  <2> QED
    BY <2>3, <2>5, <2>6, TurnedIs
<1> QED
  BY <1>1, <1>2

LEMMA PortTurned ==
    ASSUME NEW g, GroupClear(g), NEW left \in Seq(Nat), NEW in, in = Cat(PortPart(g), left)
    PROVE  in \in Seq(Nat) /\ Turned(InGroup(Read3(g), in), InGroup(g, left))
<1>0. g = Group(g.key, g.usecs, g.msecs, g.pit, g.port)
  BY Choices
<1>1. CASE g.port = <<>>
  <2>1. in = left
    <3>1. Cat(<<>>, left) = left
      BY ConcatEmptySeq DEF Cat
    <3>2. PortPart(g) = <<>>
      BY <1>1 DEF PortPart
    <3> QED
      BY <3>1, <3>2, Zenon
  <2>2. Read3(g) = g
    BY <1>0, <1>1, Zenon DEF Read3
  <2> QED
    BY <2>1, <2>2 DEF Turned
<1>2. CASE g.port # <<>>
  <2> DEFINE v == g.port[1]
             link == g.port[2]
  <2>1. g.port \in Word \X Seq(Byte) /\ v # 15
    BY <1>2 DEF GroupClear, Groups
  <2>2. v \in Word /\ link \in Seq(Byte) /\ g.port = <<v, link>>
    BY <2>1
  <2>3. in = Cat(PortText(v, link), left)
    BY <1>2 DEF PortPart
  <2> HIDE DEF v, link
  <2>4. /\ in \in Seq(Nat) /\ Len(in) > Len(left)
        /\ ReadGroupSegment(InGroup(Read3(g), in))
              = InGroup(Group(g.key, g.usecs, g.msecs, g.pit, <<v, link>>), left)
    BY <2>1, <2>2, <2>3, PortRead DEF Read3
  <2>5. ReadGroupSegment(InGroup(Read3(g), in)) = InGroup(g, left)
    BY <1>0, <2>2, <2>4, Zenon
  <2>6. Len(left) < Len(in)
    BY <2>4
  <2> QED
    BY <2>4, <2>5, <2>6, TurnedIs
<1> QED
  BY <1>1, <1>2

\* Nothing of a group begins here.
Stops(in) ==
    in \in Seq(Nat) /\ (in # <<>> => in[1] >= 32 /\ in[1] \notin {52, 67, 81})

LEMMA GroupEnds ==
    ASSUME NEW g, NEW in, Stops(in)
    PROVE  ReadGroupSegment(InGroup(g, in)) = InGroup(g, in)
<1> DEFINE st == InGroup(g, in)
<1>1. ~st.bad /\ ~st.short /\ st.in = in
  BY InGroupIs
<1> HIDE DEF st
<1>2. CASE in = <<>>
  <2>1. st.in = <<>>
    BY <1>1, <1>2
  <2>2. ReadGroupSegment(st) = st
    BY <2>1, TurnIs, Zenon
  <2> QED
    BY <2>2 DEF st
<1>3. CASE in # <<>>
  <2>1. in[1] \in Nat /\ in[1] >= 32 /\ in[1] \notin {52, 67, 81}
    BY <1>3, ElementOfSeq DEF Stops
  <2>2. ReadGroupSegment(st) = st
    BY <1>1, <1>3, <2>1, Turns
  <2> QED
    BY <2>2 DEF st
<1> QED
  BY <1>2, <1>3

LEMMA PartsAre ==
    ASSUME NEW g, GroupClear(g)
    PROVE  /\ KeyPart(g) \in Seq(Nat) /\ UsecsPart(g) \in Seq(Nat)
           /\ MsecsPart(g) \in Seq(Nat) /\ PortPart(g) \in Seq(Nat)
<1>0. /\ g \in Groups /\ GroupOK(g)
      /\ g.port # <<>> => g.port[1] # 15
  BY DEF GroupClear
<1>1. KeyPart(g) \in Seq(Nat)
  <2>1. g.key # <<>> => g.key \in Word \X Word \X Word \X Byte \X Byte
    BY <1>0 DEF Groups
  <2>2. g.key # <<>> => SerializeKey(g.key) \in Seq(Nat)
    BY <2>1, KeyText
  <2> QED
    BY <2>2, EmptySeq DEF KeyPart
<1>2. UsecsPart(g) \in Seq(Nat)
  <2>1. g.usecs => UsecsText(g.pit) \in Seq(Nat)
    <3>1. Positive(g.pit)
      BY DEF GroupClear, Groups, GroupOK, Positive
    <3> QED
      BY <3>1, UsecsIs DEF IsUsecs
  <2> QED
    BY <2>1, EmptySeq DEF UsecsPart
<1>3. MsecsPart(g) \in Seq(Nat)
  <2>1. g.msecs => g.pit \div 1000 \in Byte
    BY <1>0 DEF GroupOK
  <2>2. \A n \in Byte : Pair(67, n) \in Seq(Nat)
    BY DEF Byte, Pair
  <2> HIDE DEF Byte
  <2> QED
    BY <2>1, <2>2, EmptySeq DEF MsecsPart
<1>4. PortPart(g) \in Seq(Nat)
  <2>1. CASE g.port # <<>>
    <3> DEFINE v == g.port[1]
               link == g.port[2]
    <3>1. g.port \in Word \X Seq(Byte)
      BY <1>0, <2>1 DEF Groups
    <3>2. v \in Word /\ link \in Seq(Byte) /\ v # 15
      BY <1>0, <2>1, <3>1
    <3> HIDE DEF v, link
    <3>3. link \in Seq(Nat) /\ Len(link) \in Nat
      BY <3>2, BytesAreNats
    <3>4. PortHead(v, Len(link)) \in Seq(Nat)
      BY <3>2, <3>3, PortHeadRead DEF HeadRead
    <3>5. Cat(PortHead(v, Len(link)), link) \in Seq(Nat)
      BY <3>3, <3>4, CatIs
    <3>6. PortText(v, link) \in Seq(Nat)
      BY <3>5, Padded DEF PortText, IsPadded
    <3> QED
      BY <2>1, <3>6 DEF PortPart, v, link
  <2> QED
    BY <2>1, EmptySeq DEF PortPart
<1> QED
  BY <1>1, <1>2, <1>3, <1>4

LEMMA FiveParts ==
    ASSUME NEW a \in Seq(Nat), NEW b \in Seq(Nat), NEW c \in Seq(Nat), NEW d \in Seq(Nat),
           NEW e \in Seq(Nat)
    PROVE  Cat(Cat(Cat(Cat(a, b), c), d), e) = Cat(a, Cat(b, Cat(c, Cat(d, e))))
<1>1. Cat(a, b) \in Seq(Nat) /\ Cat(Cat(a, b), c) \in Seq(Nat)
  BY CatIs
<1>2. Cat(d, e) \in Seq(Nat) /\ Cat(c, Cat(d, e)) \in Seq(Nat)
  BY CatIs
<1>3. Cat(Cat(Cat(Cat(a, b), c), d), e) = Cat(Cat(Cat(a, b), c), Cat(d, e))
  BY <1>1, CatIs
<1>4. Cat(Cat(Cat(a, b), c), Cat(d, e)) = Cat(Cat(a, b), Cat(c, Cat(d, e)))
  BY <1>1, <1>2, CatIs
<1>5. Cat(Cat(a, b), Cat(c, Cat(d, e))) = Cat(a, Cat(b, Cat(c, Cat(d, e))))
  BY <1>2, CatIs
<1> QED
  BY <1>3, <1>4, <1>5

\* The group is read as it was written, up to what follows it.
LEMMA GroupRead ==
    ASSUME NEW g, GroupClear(g), NEW rest, Stops(rest)
    PROVE  /\ Cat(SerializeGroup(g), rest) \in Seq(Nat)
           /\ DeserializeGroup(Cat(SerializeGroup(g), rest)) = InGroup(g, rest)
<1> DEFINE l3 == Cat(PortPart(g), rest)
           l2 == Cat(MsecsPart(g), l3)
           l1 == Cat(UsecsPart(g), l2)
           in == Cat(KeyPart(g), l1)
<1>1. Cat(SerializeGroup(g), rest) = in
  <2>1. rest \in Seq(Nat)
    BY DEF Stops
  <2>2. /\ KeyPart(g) \in Seq(Nat) /\ UsecsPart(g) \in Seq(Nat)
        /\ MsecsPart(g) \in Seq(Nat) /\ PortPart(g) \in Seq(Nat)
    BY PartsAre
  <2>3. Cat(Cat(Cat(Cat(KeyPart(g), UsecsPart(g)), MsecsPart(g)), PortPart(g)), rest) = in
    BY <2>1, <2>2, FiveParts
  <2>4. SerializeGroup(g)
           = Cat(Cat(Cat(KeyPart(g), UsecsPart(g)), MsecsPart(g)), PortPart(g))
    BY GroupText
  <2> QED
    BY <2>3, <2>4, Zenon
<1>2. l3 \in Seq(Nat) /\ Turned(InGroup(Read3(g), l3), InGroup(g, rest))
  BY PortTurned DEF Stops
<1> HIDE DEF l3
<1>3. l2 \in Seq(Nat) /\ Turned(InGroup(Read2(g), l2), InGroup(Read3(g), l3))
  BY <1>2, MsecsTurned
<1> HIDE DEF l2
<1>4. l1 \in Seq(Nat) /\ Turned(InGroup(Read1(g), l1), InGroup(Read2(g), l2))
  BY <1>3, UsecsTurned
<1> HIDE DEF l1
<1>5. in \in Seq(Nat) /\ Turned(InGroup(NoGroup, in), InGroup(Read1(g), l1))
  BY <1>4, KeyTurned
<1> HIDE DEF in
<1>6. \A h, s : s \in Seq(Nat) => Len(InGroup(h, s).in) \in Nat
  BY InGroupIs, LenProperties
<1>7. rest \in Seq(Nat) /\ Len(in) \in Nat
  BY <1>5, LenProperties DEF Stops
<1>8. ReadGroupSegment(InGroup(g, rest)) = InGroup(g, rest)
  BY GroupEnds
<1>9. DeserializeGroup(in) = InGroup(g, rest)
  BY <1>2, <1>3, <1>4, <1>5, <1>6, <1>7, <1>8, FourTurns
<1> QED
  BY <1>1, <1>5, <1>9

\* What follows the group is no part of it.
LEMMA GroupStops ==
    ASSUME NEW r, Clear(r), NEW rest, Ended(rest), NEW in \in Seq(Nat), Starts(r, 1, in, rest)
    PROVE  Stops(in)
<1> DEFINE p == PathAt(r, 1)
<1>1. Lead(in) \in {32, 36, 44, 48, 128, 144} \/ in = <<>>
  <2>1. p = NoPath \/ LogicalPath(p) \/ SymbolicPath(p)
    BY PathKinds
  <2>2. CASE p = NoPath
    <3>1. in = rest
      BY <2>2 DEF Starts
    <3> QED
      BY <3>1 DEF Ended, SimpleData
  <2>3. CASE SymbolicPath(p)
    BY <2>3 DEF Starts
  <2>4. CASE LogicalPath(p)
    <3>1. PICK f \in KeptAt(r, 1) : Lead(in) = Code[f]
      BY <2>4 DEF Starts
    <3>2. f \in Levels
      BY DEF KeptAt, Kept
    <3>3. Code[f] \in {32, 36, 44, 48}
      BY <3>2 DEF Code
    <3> QED
      BY <3>1, <3>3
  <2> QED
    BY <2>1, <2>2, <2>3, <2>4
<1>2. CASE in # <<>>
  <2>1. in[1] \in Nat
    BY <1>2, ElementOfSeq
  <2>2. in[1] - (in[1] % 4) \in {32, 36, 44, 48, 128, 144}
    BY <1>1, <1>2 DEF Lead
  <2> DEFINE first == in[1]
  <2>3. first \in Nat /\ first - (first % 4) \in {32, 36, 44, 48, 128, 144}
    BY <2>1, <2>2
  <2> HIDE DEF first
  <2>4. first >= 32 /\ first \notin {52, 67, 81}
    <3>1. \A n \in Nat : n - (n % 4) \in {32, 36, 44, 48, 128, 144}
                          => n >= 32 /\ n \notin {52, 67, 81}
      OBVIOUS
    <3> QED
      BY ONLY <2>3, <3>1
  <2> QED
    BY <2>4 DEF Stops, first
<1> QED
  BY <1>2 DEF Stops

-----------------------------------------------------------------------------
(* The whole path.                                                           *)

\* The application paths are still to be read.
AppStart(bad, group, in) ==
    [bad |-> bad, group |-> group, prev |-> NoPath, paths |-> <<>>, in |-> in]
AllPaths(st) == ReadAppPath(ReadAppPath(ReadAppPath(st)))

WholePath(apps, d, in) ==
    [bad |-> \/ apps.bad \/ d.bad \/ Len(d.in) > 1
             \/ (Len(d.in) = 1 /\ Odd(Len(in))),
     path |-> [group |-> apps.group, app_path |-> apps.paths, data |-> d.data]]

ReadAfter(g, in, before) ==
    LET apps == AllPaths(AppStart(g.bad, g.group, IF g.short THEN <<before>> \o in ELSE g.in))
    IN  WholePath(apps, DeserializeData(apps.in), in)

LEMMA PathIs ==
    \A in, before : DeserializePath(in, before) = ReadAfter(DeserializeGroup(in), in, before)
BY Zenon DEF DeserializePath, ReadAfter, WholePath, AllPaths, AppStart

LEMMA AfterGroup ==
    \A group, left, in, before :
        ReadAfter(InGroup(group, left), in, before)
            = LET apps == AllPaths(AppStart(No, group, left))
              IN  WholePath(apps, DeserializeData(apps.in), in)
<1> SUFFICES ASSUME NEW group, NEW left, NEW in, NEW before
             PROVE  ReadAfter(InGroup(group, left), in, before)
                        = LET apps == AllPaths(AppStart(No, group, left))
                          IN  WholePath(apps, DeserializeData(apps.in), in)
  OBVIOUS
<1> DEFINE g == InGroup(group, left)
           from == IF g.short THEN <<before>> \o in ELSE g.in
<1>1. g.bad = No /\ g.group = group /\ ~g.short /\ g.in = left
  BY DEF InGroup, No
<1> HIDE DEF g
<1>2. from = left
  BY <1>1, Zenon
<1> HIDE DEF from
<1>3. ReadAfter(g, in, before)
         = LET apps == AllPaths(AppStart(g.bad, g.group, from))
           IN  WholePath(apps, DeserializeData(apps.in), in)
  BY Zenon DEF ReadAfter, from
<1>4. AppStart(g.bad, g.group, from) = AppStart(No, group, left)
  BY <1>1, <1>2, Zenon
<1>5. ReadAfter(g, in, before)
         = LET apps == AllPaths(AppStart(No, group, left))
           IN  WholePath(apps, DeserializeData(apps.in), in)
  BY <1>3, <1>4, Zenon
<1> QED
  BY <1>5 DEF g

LEMMA AppStartIs ==
    \A group, in : LET st == AppStart(No, group, in)
                   IN  /\ ~st.bad /\ st.group = group /\ st.prev = NoPath
                       /\ st.paths = <<>> /\ st.in = in
BY DEF AppStart, No

LEMMA WholeIs ==
    ASSUME NEW c, NEW Gs, NEW As, NEW Ds, c \in [group : Gs, app_path : As, data : Ds],
           NEW apps, NEW d, NEW in, ~apps.bad, ~d.bad, d.in = <<>>,
           apps.group = c.group, apps.paths = c.app_path, d.data = c.data
    PROVE  ~WholePath(apps, d, in).bad /\ WholePath(apps, d, in).path = c
<1>1. Len(d.in) = 0
  OBVIOUS
<1>2. ~(apps.bad \/ d.bad \/ Len(d.in) > 1 \/ (Len(d.in) = 1 /\ Odd(Len(in))))
  BY <1>1
<1>3. WholePath(apps, d, in).bad
         <=> (apps.bad \/ d.bad \/ Len(d.in) > 1 \/ (Len(d.in) = 1 /\ Odd(Len(in))))
  BY DEF WholePath
<1>4. WholePath(apps, d, in).path
         = [group |-> apps.group, app_path |-> apps.paths, data |-> d.data]
  BY DEF WholePath
<1>5. c = [group |-> c.group, app_path |-> c.app_path, data |-> c.data]
  OBVIOUS
<1> QED
  BY <1>2, <1>3, <1>4, <1>5

LEMMA PathText ==
    ASSUME NEW r, Clear(r)
    PROVE  SerializePath(r.path, r.compressed)
              = Cat(SerializeGroup(r.path.group),
                    Cat(Text(r, 1), Cat(Text(r, 2),
                        Cat(Text(r, 3), SerializeData(r.path.data)))))
<1> DEFINE g == r.path.group
           G == SerializeGroup(g)
           A == SerializeAppPaths(r.path.app_path, r.compressed)
           D == SerializeData(r.path.data)
           a == Text(r, 1)
           b == Text(r, 2)
           c == Text(r, 3)
<1>1. SerializePath(r.path, r.compressed) = Cat(Cat(G, A), D)
  BY DEF SerializePath, Cat
<1>2. A = Cat(Cat(a, b), c)
  BY TextsAre
<1>3. a \in Seq(Nat) /\ b \in Seq(Nat) /\ c \in Seq(Nat)
  BY TextIsSeq
<1>4. GroupClear(g)
  BY DEF Clear, RequestOK, PathOK, Composed, Ambiguous, GroupClear
<1>5. G \in Seq(Nat)
  <2>1. /\ KeyPart(g) \in Seq(Nat) /\ UsecsPart(g) \in Seq(Nat)
        /\ MsecsPart(g) \in Seq(Nat) /\ PortPart(g) \in Seq(Nat)
    BY <1>4, PartsAre
  <2>2. Cat(Cat(Cat(KeyPart(g), UsecsPart(g)), MsecsPart(g)), PortPart(g)) \in Seq(Nat)
    BY <2>1, CatIs
  <2> QED
    BY <1>4, <2>2, GroupText
<1>6. D \in Seq(Nat)
  BY DataRead DEF Clear, RequestOK, PathOK, Composed
<1> HIDE DEF G, A, D, a, b, c
<1>7. Cat(a, b) \in Seq(Nat) /\ A \in Seq(Nat)
  BY <1>2, <1>3, CatIs
<1>8. Cat(Cat(G, A), D) = Cat(G, Cat(A, D))
  BY <1>5, <1>6, <1>7, CatIs
<1>9. Cat(Cat(Cat(a, b), c), D) = Cat(Cat(a, b), Cat(c, D)) /\ Cat(c, D) \in Seq(Nat)
  BY <1>3, <1>6, <1>7, CatIs
<1>10. Cat(Cat(a, b), Cat(c, D)) = Cat(a, Cat(b, Cat(c, D)))
  BY <1>3, <1>9, CatIs
<1>11. SerializePath(r.path, r.compressed) = Cat(G, Cat(a, Cat(b, Cat(c, D))))
  BY <1>1, <1>2, <1>8, <1>9, <1>10, Zenon
<1> QED
  BY <1>11 DEF G, a, b, c, D

\* What was written is read.
LEMMA PathRead ==
    ASSUME NEW r, Clear(r), NEW before
    PROVE  LET got == DeserializePath(SerializePath(r.path, r.compressed), before)
           IN  ~got.bad /\ got.path = r.path
<1> DEFINE g == r.path.group
           data == r.path.data
           rest == SerializeData(data)
           left == Cat(Text(r, 1), Cat(Text(r, 2), Cat(Text(r, 3), rest)))
           in == SerializePath(r.path, r.compressed)
           st == AppStart(No, g, left)
           apps == AllPaths(st)
           d == DeserializeData(rest)
<1>1. rest \in Seq(Nat) /\ (rest # <<>> => Lead(rest) = SimpleData)
      /\ ~d.bad /\ d.data = data /\ d.in = <<>>
  BY DataRead DEF Clear, RequestOK, PathOK, Composed
<1>2. GroupClear(g)
  BY DEF Clear, RequestOK, PathOK, Composed, Ambiguous, GroupClear
<1>3. r.path \in [group : Groups, app_path : Seq(AppPaths), data : Seq(Seq(Word))]
  BY DEF Clear, RequestOK, Composed
<1>4. in = Cat(SerializeGroup(g), left)
  BY PathText
<1> HIDE DEF in, g, data, d, rest
<1>5. Ended(rest)
  BY <1>1 DEF Ended
<1>6. ~st.bad /\ st.group = g /\ st.prev = NoPath /\ st.paths = <<>> /\ st.in = left
  BY AppStartIs
<1> HIDE DEF st
<1>7. /\ left \in Seq(Nat) /\ Starts(r, 1, left, rest)
      /\ ~apps.bad /\ apps.group = g /\ apps.in = rest /\ apps.paths = r.path.app_path
  <2>1. st.in = Cat(Text(r, 1), Cat(Text(r, 2), Cat(Text(r, 3), rest)))
    BY <1>6
  <2> HIDE DEF left
  <2> QED
    BY <1>5, <1>6, <2>1, AppPathsRead DEF AllPaths
<1> HIDE DEF left, apps
<1>8. Stops(left)
  BY <1>5, <1>7, GroupStops
<1>9. DeserializeGroup(in) = InGroup(g, left)
  BY <1>2, <1>4, <1>8, GroupRead
<1>10. DeserializePath(in, before) = WholePath(apps, DeserializeData(apps.in), in)
  <2>1. DeserializePath(in, before) = ReadAfter(InGroup(g, left), in, before)
    BY <1>9, PathIs, Zenon
  <2>2. ReadAfter(InGroup(g, left), in, before)
           = WholePath(apps, DeserializeData(apps.in), in)
    BY AfterGroup, Zenon DEF apps, st
  <2> QED
    BY <2>1, <2>2, Zenon
<1>11. DeserializeData(apps.in) = d
  BY <1>7 DEF d
<1>12. ~WholePath(apps, d, in).bad /\ WholePath(apps, d, in).path = r.path
  <2>1. apps.group = r.path.group /\ d.data = r.path.data
    BY <1>1, <1>7 DEF g, data
  <2> QED
    BY <1>1, <1>3, <1>7, <2>1, WholeIs
<1>13. /\ ~DeserializePath(in, before).bad
       /\ DeserializePath(in, before).path = r.path
  BY <1>10, <1>11, <1>12, Zenon
<1> QED
  BY <1>13 DEF in

\* A target has read the path of a clear request as its originator wrote it.
LEMMA ClearIsRead ==
    \A r : Clear(r) => ~Parsed(r).bad /\ Parsed(r).path = r.path
<1> SUFFICES ASSUME NEW r, Clear(r) PROVE ~Parsed(r).bad /\ Parsed(r).path = r.path
  OBVIOUS
<1>1. Serialize(r).bytes = SerializePath(r.path, r.compressed)
  BY DEF Serialize
<1>2. Parsed(r) = DeserializePath(SerializePath(r.path, r.compressed), Serialize(r).words)
  BY <1>1, Zenon DEF Parsed
<1> QED
  BY <1>2, PathRead

\* The target reads the path its originator wrote, however long and whichever of
\* its segments it has, compressed or not: Serialize() and Deserialize() of
\* ConnectionPath are inverse to each other but for the exceptions of Ambiguous.
THEOREM PathsReadAsWritten == Spec => []ReadAsWritten
<1>1. FInv => ReadAsWritten
  <2> SUFFICES ASSUME FInv, read # None, ~Ambiguous(request)
               PROVE  read.path = request.path
    BY DEF ReadAsWritten
  <2>1. RequestOK(request) /\ read.path = Parsed(request).path
    BY DEF FInv
  <2>2. Clear(request)
    BY <2>1 DEF Clear
  <2> QED
    BY <2>1, <2>2, ClearIsRead
<1> QED
  BY <1>1, FInvInvariant, PTL

-----------------------------------------------------------------------------
(* What is granted.  The seat of a role among the paths, 0 if it has none.   *)

Named(on, role) == IF on THEN <<role>> ELSE <<>>

AskedFor(o, t, data) ==
    LET asked == Named(data, "config") \o Named(o, "consuming") \o Named(t, "producing")
    IN  IF asked = <<>> THEN <<"consuming">> ELSE asked

Seat(asked, n, j) ==
    CASE asked = <<"config">> -> 1
      [] asked # <<"config">> /\ n >= Len(asked) -> n - Len(asked) + j
      [] OTHER -> IF j < n THEN j ELSE n

LEMMA AskedIs ==
    \A r : Asked(r) = AskedFor(NotNull(r.producing), NotNull(r.consuming), r.path.data # <<>>)
BY Zenon DEF Asked, AskedFor, Named

\* A role that is asked for once, and one that is not.
LEMMA SeatIs ==
    ASSUME NEW r, NEW role, NEW k \in DOMAIN Asked(r), Asked(r)[k] = role,
           \A j \in DOMAIN Asked(r) : Asked(r)[j] = role => j = k
    PROVE  Intended(r, role) = r.path.app_path[Seat(Asked(r), PathCount(r.path), k)]
<1> DEFINE mine == {j \in DOMAIN Asked(r) : Asked(r)[j] = role}
           it == IF mine = {} THEN NoPath
                 ELSE r.path.app_path[Seat(Asked(r), PathCount(r.path), CHOOSE j \in mine : TRUE)]
<1>1. Intended(r, role) = it
  BY Zenon DEF Intended, Seat
<1>2. mine = {k}
  OBVIOUS
<1> HIDE DEF mine
<1>3. (CHOOSE j \in mine : TRUE) = k
  BY <1>2
<1>4. it = r.path.app_path[Seat(Asked(r), PathCount(r.path), k)]
  <2>1. mine # {}
    BY <1>2
  <2> QED
    BY <1>3, <2>1, Zenon
<1> QED
  BY <1>1, <1>4, Zenon

LEMMA NoSeat ==
    ASSUME NEW r, NEW role, \A j \in DOMAIN Asked(r) : Asked(r)[j] # role
    PROVE  Intended(r, role) = NoPath
<1>1. {j \in DOMAIN Asked(r) : Asked(r)[j] = role} = {}
  OBVIOUS
<1> QED
  BY <1>1, Zenon DEF Intended

One(a) == <<a>>
Two(a, b) == <<a, b>>
Three(a, b, c) == <<a, b, c>>

\* Every combination of what may be asked for.
Table(o, t, data, asked) ==
    /\ data /\ o /\ t => asked = Three("config", "consuming", "producing")
    /\ data /\ o /\ ~t => asked = Two("config", "consuming")
    /\ data /\ ~o /\ t => asked = Two("config", "producing")
    /\ data /\ ~o /\ ~t => asked = One("config")
    /\ ~data /\ o /\ t => asked = Two("consuming", "producing")
    /\ ~data /\ o /\ ~t => asked = One("consuming")
    /\ ~data /\ ~o /\ t => asked = One("producing")
    /\ ~data /\ ~o /\ ~t => asked = One("consuming")

JoinedIn(S, a, b, s) ==
    /\ s \in Seq(S) /\ Len(s) = Len(a) + Len(b)
    /\ \A i \in 1 .. Len(a) : s[i] = a[i]
    /\ \A i \in 1 .. Len(b) : s[Len(a) + i] = b[i]

LEMMA CatJoinsIn == \A S : \A a, b \in Seq(S) : JoinedIn(S, a, b, Cat(a, b))
BY ConcatProperties DEF JoinedIn, Cat

LEMMA Literals ==
    \A a, b, c : /\ Cat(<<>>, <<>>) = <<>>
                 /\ Cat(One(a), <<>>) = One(a) /\ Cat(<<>>, One(a)) = One(a)
                 /\ Cat(One(a), One(b)) = Two(a, b) /\ Cat(Two(a, b), <<>>) = Two(a, b)
                 /\ Cat(Two(a, b), One(c)) = Three(a, b, c)
                 /\ One(a) # <<>> /\ Two(a, b) # <<>> /\ Three(a, b, c) # <<>>
<1> SUFFICES ASSUME NEW a, NEW b, NEW c
             PROVE  /\ Cat(<<>>, <<>>) = <<>>
                    /\ Cat(One(a), <<>>) = One(a) /\ Cat(<<>>, One(a)) = One(a)
                    /\ Cat(One(a), One(b)) = Two(a, b) /\ Cat(Two(a, b), <<>>) = Two(a, b)
                    /\ Cat(Two(a, b), One(c)) = Three(a, b, c)
                    /\ One(a) # <<>> /\ Two(a, b) # <<>> /\ Three(a, b, c) # <<>>
  OBVIOUS
<1> DEFINE S == {a, b, c}
<1>1. /\ <<>> \in Seq(S) /\ One(a) \in Seq(S) /\ One(b) \in Seq(S) /\ One(c) \in Seq(S)
      /\ Two(a, b) \in Seq(S) /\ Three(a, b, c) \in Seq(S)
  BY DEF One, Two, Three
<1>2. /\ Len(One(a)) = 1 /\ One(a)[1] = a /\ Len(One(b)) = 1 /\ One(b)[1] = b
      /\ Len(One(c)) = 1 /\ One(c)[1] = c
      /\ Len(Two(a, b)) = 2 /\ Two(a, b)[1] = a /\ Two(a, b)[2] = b
      /\ Len(Three(a, b, c)) = 3 /\ Three(a, b, c)[1] = a /\ Three(a, b, c)[2] = b
      /\ Three(a, b, c)[3] = c
  BY DEF One, Two, Three
<1> HIDE DEF S
<1>4. \A s, u \in Seq(S) : Len(s) = Len(u) /\ (\A i \in 1 .. Len(s) : s[i] = u[i]) => s = u
  BY SeqEqual
<1>5. \A s \in Seq(S) : Cat(s, <<>>) = s /\ Cat(<<>>, s) = s
  BY ConcatEmptySeq DEF Cat
<1>6. Cat(One(a), One(b)) = Two(a, b)
  <2> DEFINE one == One(a)
             next == One(b)
             w == Cat(One(a), One(b))
             two == Two(a, b)
  <2>1. JoinedIn(S, one, next, w)
    BY <1>1, CatJoinsIn
  <2>2. /\ Len(one) = 1 /\ one[1] = a /\ Len(next) = 1 /\ next[1] = b
        /\ two \in Seq(S) /\ Len(two) = 2 /\ two[1] = a /\ two[2] = b
    BY <1>1, <1>2
  <2> HIDE DEF one, next, w, two
  <2>3. w \in Seq(S) /\ Len(w) = 2 /\ w[1] = a /\ w[2] = b
    <3>1. 1 \in 1 .. 1 /\ 1 + 1 = 2
      OBVIOUS
    <3> QED
      BY <2>1, <2>2, <3>1 DEF JoinedIn
  <2>5. \A i \in 1 .. Len(w) : w[i] = two[i]
    <3>1. \A i \in 1 .. 2 : i = 1 \/ i = 2
      OBVIOUS
    <3> QED
      BY <2>2, <2>3, <3>1
  <2>6. w = two
    BY <1>4, <2>2, <2>3, <2>5
  <2> QED
    BY <2>6 DEF w, two
<1>7. Cat(Two(a, b), One(c)) = Three(a, b, c)
  <2> DEFINE two == Two(a, b)
             next == One(c)
             w == Cat(Two(a, b), One(c))
             three == Three(a, b, c)
  <2>1. JoinedIn(S, two, next, w)
    BY <1>1, CatJoinsIn
  <2>2. /\ Len(two) = 2 /\ two[1] = a /\ two[2] = b /\ Len(next) = 1 /\ next[1] = c
        /\ three \in Seq(S) /\ Len(three) = 3 /\ three[1] = a /\ three[2] = b /\ three[3] = c
    BY <1>1, <1>2
  <2> HIDE DEF two, next, w, three
  <2>3. w \in Seq(S) /\ Len(w) = 3 /\ w[1] = a /\ w[2] = b /\ w[3] = c
    <3>1. 1 \in 1 .. 1 /\ 1 \in 1 .. 2 /\ 2 \in 1 .. 2 /\ 2 + 1 = 3
      OBVIOUS
    <3> QED
      BY <2>1, <2>2, <3>1 DEF JoinedIn
  <2>5. \A i \in 1 .. Len(w) : w[i] = three[i]
    <3>1. \A i \in 1 .. 3 : i = 1 \/ i = 2 \/ i = 3
      OBVIOUS
    <3> QED
      BY <2>2, <2>3, <3>1
  <2>6. w = three
    BY <1>4, <2>2, <2>3, <2>5
  <2> QED
    BY <2>6 DEF w, three
<1>8. One(a) # <<>> /\ Two(a, b) # <<>> /\ Three(a, b, c) # <<>>
  BY DEF One, Two, Three
<1> QED
  BY <1>1, <1>5, <1>6, <1>7, <1>8

LEMMA AskedTable == \A o, t, data \in BOOLEAN : Table(o, t, data, AskedFor(o, t, data))
<1> SUFFICES ASSUME NEW o \in BOOLEAN, NEW t \in BOOLEAN, NEW data \in BOOLEAN
             PROVE  Table(o, t, data, AskedFor(o, t, data))
  OBVIOUS
<1> DEFINE a == Named(data, "config")
           b == Named(o, "consuming")
           c == Named(t, "producing")
           asked == Cat(Cat(a, b), c)
           it == AskedFor(o, t, data)
<1>1. /\ asked = <<>> => it = One("consuming")
      /\ asked # <<>> => it = asked
  BY Zenon DEF AskedFor, Cat, One
<1>2. /\ data => a = One("config")
      /\ ~data => a = <<>>
      /\ o => b = One("consuming")
      /\ ~o => b = <<>>
      /\ t => c = One("producing")
      /\ ~t => c = <<>>
  BY Zenon DEF Named, One
<1>3. asked = Cat(Cat(a, b), c)
  OBVIOUS
<1> HIDE DEF a, b, c, asked, it
<1>4. Table(o, t, data, it)
  <2>1. data /\ o /\ t => it = Three("config", "consuming", "producing")
    <3>1. Cat(Cat(One("config"), One("consuming")), One("producing"))
             = Three("config", "consuming", "producing")
      <4>1. \A x, y : Cat(One(x), One(y)) = Two(x, y)
        BY Literals, Zenon
      <4>2. \A x, y, z : Cat(Two(x, y), One(z)) = Three(x, y, z)
        BY Literals, Zenon
      <4> QED
        BY ONLY <4>1, <4>2, Zenon
    <3>2. Three("config", "consuming", "producing") # <<>>
      BY Literals, Zenon
    <3>3. data /\ o /\ t => asked = Cat(Cat(One("config"), One("consuming")), One("producing"))
      BY <1>2, <1>3, Zenon
    <3> QED
      BY <1>1, <3>1, <3>2, <3>3, Zenon
  <2>2. data /\ o /\ ~t => it = Two("config", "consuming")
    <3>1. Cat(Cat(One("config"), One("consuming")), <<>>) = Two("config", "consuming")
      BY Literals, Zenon
    <3>2. Two("config", "consuming") # <<>>
      BY Literals, Zenon
    <3>3. data /\ o /\ ~t => asked = Cat(Cat(One("config"), One("consuming")), <<>>)
      BY <1>2, <1>3, Zenon
    <3> QED
      BY <1>1, <3>1, <3>2, <3>3, Zenon
  <2>3. data /\ ~o /\ t => it = Two("config", "producing")
    <3>1. Cat(Cat(One("config"), <<>>), One("producing")) = Two("config", "producing")
      BY Literals, Zenon
    <3>2. Two("config", "producing") # <<>>
      BY Literals, Zenon
    <3>3. data /\ ~o /\ t => asked = Cat(Cat(One("config"), <<>>), One("producing"))
      BY <1>2, <1>3, Zenon
    <3> QED
      BY <1>1, <3>1, <3>2, <3>3, Zenon
  <2>4. data /\ ~o /\ ~t => it = One("config")
    <3>1. Cat(Cat(One("config"), <<>>), <<>>) = One("config")
      BY Literals, Zenon
    <3>2. One("config") # <<>>
      BY Literals, Zenon
    <3>3. data /\ ~o /\ ~t => asked = Cat(Cat(One("config"), <<>>), <<>>)
      BY <1>2, <1>3, Zenon
    <3> QED
      BY <1>1, <3>1, <3>2, <3>3, Zenon
  <2>5. ~data /\ o /\ t => it = Two("consuming", "producing")
    <3>1. Cat(Cat(<<>>, One("consuming")), One("producing")) = Two("consuming", "producing")
      BY Literals, Zenon
    <3>2. Two("consuming", "producing") # <<>>
      BY Literals, Zenon
    <3>3. ~data /\ o /\ t => asked = Cat(Cat(<<>>, One("consuming")), One("producing"))
      BY <1>2, <1>3, Zenon
    <3> QED
      BY <1>1, <3>1, <3>2, <3>3, Zenon
  <2>6. ~data /\ o /\ ~t => it = One("consuming")
    <3>1. Cat(Cat(<<>>, One("consuming")), <<>>) = One("consuming")
      BY Literals, Zenon
    <3>2. One("consuming") # <<>>
      BY Literals, Zenon
    <3>3. ~data /\ o /\ ~t => asked = Cat(Cat(<<>>, One("consuming")), <<>>)
      BY <1>2, <1>3, Zenon
    <3> QED
      BY <1>1, <3>1, <3>2, <3>3, Zenon
  <2>7. ~data /\ ~o /\ t => it = One("producing")
    <3>1. Cat(Cat(<<>>, <<>>), One("producing")) = One("producing")
      BY Literals, Zenon
    <3>2. One("producing") # <<>>
      BY Literals, Zenon
    <3>3. ~data /\ ~o /\ t => asked = Cat(Cat(<<>>, <<>>), One("producing"))
      BY <1>2, <1>3, Zenon
    <3> QED
      BY <1>1, <3>1, <3>2, <3>3, Zenon
  <2>8. ~data /\ ~o /\ ~t => it = One("consuming")
    <3>1. Cat(Cat(<<>>, <<>>), <<>>) = <<>>
      BY Literals, Zenon
    <3>2. ~data /\ ~o /\ ~t => asked = Cat(Cat(<<>>, <<>>), <<>>)
      BY <1>2, <1>3, Zenon
    <3> QED
      BY <1>1, <3>1, <3>2, Zenon
  <2> QED
    BY <2>1, <2>2, <2>3, <2>4, <2>5, <2>6, <2>7, <2>8, Zenon DEF Table
<1> QED
  BY <1>4 DEF it

LEMMA EntriesAre ==
    \A a, b, c :
        /\ Len(One(a)) = 1 /\ DOMAIN One(a) = {1} /\ One(a)[1] = a
        /\ Len(Two(a, b)) = 2 /\ DOMAIN Two(a, b) = {1, 2}
        /\ Two(a, b)[1] = a /\ Two(a, b)[2] = b
        /\ Len(Three(a, b, c)) = 3 /\ DOMAIN Three(a, b, c) = {1, 2, 3}
        /\ Three(a, b, c)[1] = a /\ Three(a, b, c)[2] = b /\ Three(a, b, c)[3] = c
        /\ (One(a) = One("config")) <=> (a = "config")
        /\ Two(a, b) # One("config") /\ Three(a, b, c) # One("config")
BY DEF One, Two, Three

LEMMA SeatTable ==
    ASSUME NEW n \in {1, 2, 3}
    PROVE  /\ Seat(One("config"), n, 1) = 1
           /\ \A a : a # "config" => Seat(One(a), n, 1) = n
           /\ \A a, b : /\ Seat(Two(a, b), n, 1) = IF n = 1 THEN 1 ELSE n - 1
                        /\ Seat(Two(a, b), n, 2) = n
           /\ \A a, b, c : /\ Seat(Three(a, b, c), n, 1) = 1
                           /\ Seat(Three(a, b, c), n, 2) = IF n = 1 THEN 1 ELSE 2
                           /\ Seat(Three(a, b, c), n, 3) = n
<1>1. ASSUME NEW asked, NEW j
      PROVE  /\ asked = One("config") => Seat(asked, n, j) = 1
             /\ asked # One("config") /\ n >= Len(asked)
                   => Seat(asked, n, j) = n - Len(asked) + j
             /\ asked # One("config") /\ ~(n >= Len(asked))
                   => Seat(asked, n, j) = IF j < n THEN j ELSE n
  <2>1. asked = One("config") => Seat(asked, n, j) = 1
    BY Zenon DEF Seat, One
  <2>2. asked # One("config") /\ n >= Len(asked) => Seat(asked, n, j) = n - Len(asked) + j
    BY Zenon DEF Seat, One
  <2>3. asked # One("config") /\ ~(n >= Len(asked))
            => Seat(asked, n, j) = IF j < n THEN j ELSE n
    BY Zenon DEF Seat, One
  <2> QED
    BY <2>1, <2>2, <2>3
<1>2. ASSUME NEW asked, NEW j \in Nat, NEW k \in Nat, asked # One("config"), Len(asked) = k
      PROVE  Seat(asked, n, j) = IF n >= k THEN n - k + j ELSE IF j < n THEN j ELSE n
  BY <1>1, <1>2
<1>3. \A a : a # "config" => Seat(One(a), n, 1) = n
  <2> SUFFICES ASSUME NEW a, a # "config" PROVE Seat(One(a), n, 1) = n
    OBVIOUS
  <2>1. One(a) # One("config") /\ Len(One(a)) = 1
    BY EntriesAre
  <2>2. Seat(One(a), n, 1) = IF n >= 1 THEN n - 1 + 1 ELSE IF 1 < n THEN 1 ELSE n
    BY <1>2, <2>1
  <2> QED
    BY <2>2
<1>4. ASSUME NEW a, NEW b
      PROVE  /\ Seat(Two(a, b), n, 1) = IF n = 1 THEN 1 ELSE n - 1
             /\ Seat(Two(a, b), n, 2) = n
  <2>1. Two(a, b) # One("config") /\ Len(Two(a, b)) = 2
    BY EntriesAre
  <2>2. Seat(Two(a, b), n, 1) = IF n >= 2 THEN n - 2 + 1 ELSE IF 1 < n THEN 1 ELSE n
    BY <1>2, <2>1
  <2>3. Seat(Two(a, b), n, 2) = IF n >= 2 THEN n - 2 + 2 ELSE IF 2 < n THEN 2 ELSE n
    BY <1>2, <2>1
  <2> QED
    BY <2>2, <2>3
<1>5. ASSUME NEW a, NEW b, NEW c
      PROVE  /\ Seat(Three(a, b, c), n, 1) = 1
             /\ Seat(Three(a, b, c), n, 2) = IF n = 1 THEN 1 ELSE 2
             /\ Seat(Three(a, b, c), n, 3) = n
  <2>1. Three(a, b, c) # One("config") /\ Len(Three(a, b, c)) = 3
    BY EntriesAre
  <2>2. Seat(Three(a, b, c), n, 1) = IF n >= 3 THEN n - 3 + 1 ELSE IF 1 < n THEN 1 ELSE n
    BY <1>2, <2>1
  <2>3. Seat(Three(a, b, c), n, 2) = IF n >= 3 THEN n - 3 + 2 ELSE IF 2 < n THEN 2 ELSE n
    BY <1>2, <2>1
  <2>4. Seat(Three(a, b, c), n, 3) = IF n >= 3 THEN n - 3 + 3 ELSE IF 3 < n THEN 3 ELSE n
    BY <1>2, <2>1
  <2> QED
    BY <2>2, <2>3, <2>4
<1>6. Seat(One("config"), n, 1) = 1
  BY <1>1
<1> QED
  BY <1>3, <1>4, <1>5, <1>6

RolesAre(roles, config, consuming, producing) ==
    roles.config = config /\ roles.consuming = consuming /\ roles.producing = producing

LEMMA RolesIs == \A i, j, k : RolesAre(Roles(i, j, k), i, j, k)
BY DEF Roles, RolesAre

\* What is assigned, if anything is.
LEMMA RolesTable ==
    ASSUME NEW o \in BOOLEAN, NEW t \in BOOLEAN, NEW data \in BOOLEAN, NEW n \in {1, 2, 3},
           NEW roles, roles = AssignAppPaths(o, t, data, n), roles # NoRoles
    PROVE  /\ data /\ o /\ t => roles = Roles(1, IF n = 1 THEN 1 ELSE 2, n)
           /\ data /\ o /\ ~t => n \in {1, 2} /\ roles = Roles(1, n, 0)
           /\ data /\ ~o /\ t => n \in {1, 2} /\ roles = Roles(1, 0, n)
           /\ data /\ ~o /\ ~t => roles = Roles(1, 0, 0)
           /\ ~data /\ o /\ t => roles = IF n = 3 THEN Roles(0, 2, 3) ELSE Roles(0, 1, n)
           /\ ~data /\ o /\ ~t => n = 1 /\ roles = Roles(0, 1, 0)
           /\ ~data /\ ~o /\ t => n = 1 /\ roles = Roles(0, 0, 1)
           /\ ~data /\ ~o /\ ~t => n = 1 /\ roles = Roles(0, 1, 0)
<1>1. /\ o /\ t => roles = TwoWayRoles(data, n)
      /\ ~(o /\ t) => roles = OneWayRoles(o, t, data, n)
  BY Zenon DEF AssignAppPaths
<1>2. data => TwoWayRoles(data, n) = Roles(1, IF n = 1 THEN 1 ELSE 2, n)
  BY Zenon DEF TwoWayRoles
<1>3. ~data => TwoWayRoles(data, n) = IF n = 3 THEN Roles(0, 2, 3) ELSE Roles(0, 1, n)
  BY Zenon DEF TwoWayRoles
<1>4. data /\ o /\ ~t => \/ n \in {1, 2} /\ OneWayRoles(o, t, data, n) = Roles(1, n, 0)
                         \/ OneWayRoles(o, t, data, n) = NoRoles
  BY Zenon DEF OneWayRoles
<1>5. data /\ ~o /\ t => \/ n \in {1, 2} /\ OneWayRoles(o, t, data, n) = Roles(1, 0, n)
                         \/ OneWayRoles(o, t, data, n) = NoRoles
  BY Zenon DEF OneWayRoles
<1>6. data /\ ~o /\ ~t => OneWayRoles(o, t, data, n) = Roles(1, 0, 0)
  BY Zenon DEF OneWayRoles
<1>7. ~data /\ o /\ ~t => \/ n = 1 /\ OneWayRoles(o, t, data, n) = Roles(0, 1, 0)
                          \/ OneWayRoles(o, t, data, n) = NoRoles
  BY Zenon DEF OneWayRoles
<1>8. ~data /\ ~o /\ t => \/ n = 1 /\ OneWayRoles(o, t, data, n) = Roles(0, 0, 1)
                          \/ OneWayRoles(o, t, data, n) = NoRoles
  BY Zenon DEF OneWayRoles
<1>9. ~data /\ ~o /\ ~t => \/ n = 1 /\ OneWayRoles(o, t, data, n) = Roles(0, 1, 0)
                           \/ OneWayRoles(o, t, data, n) = NoRoles
  BY Zenon DEF OneWayRoles
<1> QED
  BY <1>1, <1>2, <1>3, <1>4, <1>5, <1>6, <1>7, <1>8, <1>9

PathFor(r, i) == IF i < 1 THEN NoPath ELSE r.path.app_path[i]

LEMMA PathForIs ==
    /\ \A r : PathFor(r, 0) = NoPath
    /\ \A r, i : i \in {1, 2, 3} => PathFor(r, i) = r.path.app_path[i]
BY DEF PathFor

LEMMA OneAsked ==
    ASSUME NEW r, NEW a, Asked(r) = One(a), NEW i \in {1, 2, 3},
           Seat(One(a), PathCount(r.path), 1) = i
    PROVE  Intended(r, a) = PathFor(r, i) /\ \A role : role # a => Intended(r, role) = PathFor(r, 0)
<1>1. DOMAIN Asked(r) = {1} /\ Asked(r)[1] = a
  BY EntriesAre
<1>2. Intended(r, a) = r.path.app_path[Seat(Asked(r), PathCount(r.path), 1)]
  BY <1>1, SeatIs
<1>3. \A role : role # a => Intended(r, role) = NoPath
  BY <1>1, NoSeat
<1> QED
  BY <1>2, <1>3, PathForIs

LEMMA TwoAsked ==
    ASSUME NEW r, NEW a, NEW b, a # b, Asked(r) = Two(a, b),
           NEW i \in {1, 2, 3}, NEW j \in {1, 2, 3},
           Seat(Two(a, b), PathCount(r.path), 1) = i,
           Seat(Two(a, b), PathCount(r.path), 2) = j
    PROVE  Intended(r, a) = PathFor(r, i) /\ Intended(r, b) = PathFor(r, j)
<1>1. DOMAIN Asked(r) = {1, 2} /\ Asked(r)[1] = a /\ Asked(r)[2] = b
  BY EntriesAre
<1>2. Intended(r, a) = r.path.app_path[Seat(Asked(r), PathCount(r.path), 1)]
  BY <1>1, SeatIs
<1>3. Intended(r, b) = r.path.app_path[Seat(Asked(r), PathCount(r.path), 2)]
  BY <1>1, SeatIs
<1> QED
  BY <1>2, <1>3, PathForIs

LEMMA NotOfTwo ==
    ASSUME NEW r, NEW a, NEW b, Asked(r) = Two(a, b), NEW c, c # a, c # b
    PROVE  Intended(r, c) = PathFor(r, 0)
<1>1. DOMAIN Asked(r) = {1, 2} /\ Asked(r)[1] = a /\ Asked(r)[2] = b
  BY EntriesAre
<1>2. Intended(r, c) = NoPath
  BY <1>1, NoSeat
<1> QED
  BY <1>2, PathForIs

LEMMA ThreeAsked ==
    ASSUME NEW r, NEW a, NEW b, NEW c, a # b, a # c, b # c, Asked(r) = Three(a, b, c),
           NEW i \in {1, 2, 3}, NEW j \in {1, 2, 3}, NEW k \in {1, 2, 3},
           Seat(Three(a, b, c), PathCount(r.path), 1) = i,
           Seat(Three(a, b, c), PathCount(r.path), 2) = j,
           Seat(Three(a, b, c), PathCount(r.path), 3) = k
    PROVE  Intended(r, a) = PathFor(r, i) /\ Intended(r, b) = PathFor(r, j) /\ Intended(r, c) = PathFor(r, k)
<1>1. DOMAIN Asked(r) = {1, 2, 3} /\ Asked(r)[1] = a /\ Asked(r)[2] = b /\ Asked(r)[3] = c
  BY EntriesAre
<1>2. Intended(r, a) = r.path.app_path[Seat(Asked(r), PathCount(r.path), 1)]
  BY <1>1, SeatIs
<1>3. Intended(r, b) = r.path.app_path[Seat(Asked(r), PathCount(r.path), 2)]
  BY <1>1, SeatIs
<1>4. Intended(r, c) = r.path.app_path[Seat(Asked(r), PathCount(r.path), 3)]
  BY <1>1, SeatIs
<1> QED
  BY <1>2, <1>3, <1>4, PathForIs

LEMMA CountIs == \A c : PathCount(c) \in {1, 2, 3}
<1> SUFFICES ASSUME NEW c PROVE PathCount(c) \in {1, 2, 3}
  OBVIOUS
<1> DEFINE S == {i \in {2, 3} : HasAny(c.app_path[i])}
<1>1. PathCount(c) = Cardinality({1} \cup S)
  BY DEF PathCount
<1>2. S = {} \/ S = {2} \/ S = {3} \/ S = {2, 3}
  <2>1. \A X : X \subseteq {2, 3} => X = {} \/ X = {2} \/ X = {3} \/ X = {2, 3}
    OBVIOUS
  <2>2. S \subseteq {2, 3}
    OBVIOUS
  <2> HIDE DEF S
  <2> QED
    BY <2>1, <2>2
<1> HIDE DEF S
<1>3. IsFiniteSet({1}) /\ Cardinality({1}) = 1
  BY FS_Singleton
<1>4. IsFiniteSet({1, 2}) /\ Cardinality({1, 2}) = 2
  BY <1>3, FS_AddElement
<1>5. IsFiniteSet({1, 3}) /\ Cardinality({1, 3}) = 2
  BY <1>3, FS_AddElement
<1>6. Cardinality({1, 2, 3}) = 3
  <2>1. {1, 2, 3} = {1, 2} \cup {3} /\ 3 \notin {1, 2}
    OBVIOUS
  <2> QED
    BY <1>4, <2>1, FS_AddElement
<1>7. \/ {1} \cup S = {1} \/ {1} \cup S = {1, 2} \/ {1} \cup S = {1, 3}
      \/ {1} \cup S = {1, 2, 3}
  BY <1>2
<1> QED
  BY <1>1, <1>3, <1>4, <1>5, <1>6, <1>7

\* Whoever asks for a role gets the path it meant for it.
LEMMA RolesAsIntended ==
    ASSUME NEW r, NEW roles, roles # NoRoles,
           roles = AssignAppPaths(NotNull(r.producing), NotNull(r.consuming),
                                  r.path.data # <<>>, PathCount(r.path))
    PROVE  /\ Intended(r, "config") = PathFor(r, roles.config)
           /\ Intended(r, "consuming") = PathFor(r, roles.consuming)
           /\ Intended(r, "producing") = PathFor(r, roles.producing)
           /\ roles.config \in 0 .. 3 /\ roles.consuming \in 0 .. 3 /\ roles.producing \in 0 .. 3
           /\ ~RolesAre(roles, 0, 2, 3)
                 => 1 \in {roles.config, roles.consuming, roles.producing}
<1> DEFINE o == NotNull(r.producing)
           t == NotNull(r.consuming)
           data == r.path.data # <<>>
           n == PathCount(r.path)
           Goal == /\ Intended(r, "config") = PathFor(r, roles.config)
                   /\ Intended(r, "consuming") = PathFor(r, roles.consuming)
                   /\ Intended(r, "producing") = PathFor(r, roles.producing)
                   /\ roles.config \in 0 .. 3 /\ roles.consuming \in 0 .. 3
                   /\ roles.producing \in 0 .. 3
                   /\ ~RolesAre(roles, 0, 2, 3)
                         => 1 \in {roles.config, roles.consuming, roles.producing}
<1>1. o \in BOOLEAN /\ t \in BOOLEAN /\ data \in BOOLEAN /\ n \in {1, 2, 3}
  BY CountIs DEF NotNull
<1>2. Asked(r) = AskedFor(o, t, data)
  BY AskedIs
<1>3. roles = AssignAppPaths(o, t, data, n)
  OBVIOUS
<1>4. Table(o, t, data, Asked(r))
  <2> HIDE DEF o, t, data
  <2> QED
    BY <1>1, <1>2, AskedTable
<1>5. n = PathCount(r.path)
  OBVIOUS
<1> HIDE DEF o, t, data, n
<1>6. SUFFICES Goal
  OBVIOUS
<1>7. CASE data /\ o /\ t
  <2>1. roles = Roles(1, IF n = 1 THEN 1 ELSE 2, n)
    BY <1>1, <1>3, <1>7, RolesTable
  <2>2. RolesAre(roles, 1, IF n = 1 THEN 1 ELSE 2, n)
    BY <2>1, RolesIs
  <2>3. Asked(r) = Three("config", "consuming", "producing")
    BY <1>4, <1>7 DEF Table
  <2>4. /\ Intended(r, "config") = PathFor(r, 1)
        /\ Intended(r, "consuming") = PathFor(r, IF n = 1 THEN 1 ELSE 2)
        /\ Intended(r, "producing") = PathFor(r, n)
    <3>1. (IF n = 1 THEN 1 ELSE 2) \in {1, 2, 3}
      OBVIOUS
    <3>2. /\ Seat(Asked(r), n, 1) = 1
          /\ Seat(Asked(r), n, 2) = IF n = 1 THEN 1 ELSE 2
          /\ Seat(Asked(r), n, 3) = n
      BY <1>1, <2>3, SeatTable
    <3> QED
      BY <1>1, <1>5, <2>3, <3>1, <3>2, ThreeAsked
  <2> QED
    BY <1>1, <2>2, <2>4 DEF RolesAre
<1>8. CASE data /\ o /\ ~t
  <2>1. n \in {1, 2} /\ roles = Roles(1, n, 0)
    BY <1>1, <1>3, <1>8, RolesTable
  <2>2. RolesAre(roles, 1, n, 0)
    BY <2>1, RolesIs
  <2>3. Asked(r) = Two("config", "consuming")
    BY <1>4, <1>8 DEF Table
  <2>4. /\ Intended(r, "config") = PathFor(r, 1) /\ Intended(r, "consuming") = PathFor(r, n)
        /\ Intended(r, "producing") = PathFor(r, 0)
    <3>1. /\ Seat(Two("config", "consuming"), PathCount(r.path), 1) = 1
          /\ Seat(Two("config", "consuming"), PathCount(r.path), 2) = n
      <4>1. (IF n = 1 THEN 1 ELSE n - 1) = 1
        BY <2>1
      <4> QED
        BY <1>1, <1>5, <4>1, SeatTable
    <3>2. "config" # "consuming" /\ "producing" # "config" /\ "producing" # "consuming"
      OBVIOUS
    <3>3. Intended(r, "config") = PathFor(r, 1) /\ Intended(r, "consuming") = PathFor(r, n)
      BY <1>1, <2>3, <3>1, <3>2, TwoAsked
    <3>4. Intended(r, "producing") = PathFor(r, 0)
      BY <2>3, <3>2, NotOfTwo
    <3> QED
      BY <3>3, <3>4
  <2> QED
    BY <1>1, <2>2, <2>4 DEF RolesAre
<1>9. CASE data /\ ~o /\ t
  <2>1. n \in {1, 2} /\ roles = Roles(1, 0, n)
    BY <1>1, <1>3, <1>9, RolesTable
  <2>2. RolesAre(roles, 1, 0, n)
    BY <2>1, RolesIs
  <2>3. Asked(r) = Two("config", "producing")
    BY <1>4, <1>9 DEF Table
  <2>4. /\ Intended(r, "config") = PathFor(r, 1) /\ Intended(r, "producing") = PathFor(r, n)
        /\ Intended(r, "consuming") = PathFor(r, 0)
    <3>1. /\ Seat(Two("config", "producing"), PathCount(r.path), 1) = 1
          /\ Seat(Two("config", "producing"), PathCount(r.path), 2) = n
      <4>1. (IF n = 1 THEN 1 ELSE n - 1) = 1
        BY <2>1
      <4> QED
        BY <1>1, <1>5, <4>1, SeatTable
    <3>2. "config" # "producing" /\ "consuming" # "config" /\ "consuming" # "producing"
      OBVIOUS
    <3>3. Intended(r, "config") = PathFor(r, 1) /\ Intended(r, "producing") = PathFor(r, n)
      BY <1>1, <2>3, <3>1, <3>2, TwoAsked
    <3>4. Intended(r, "consuming") = PathFor(r, 0)
      BY <2>3, <3>2, NotOfTwo
    <3> QED
      BY <3>3, <3>4
  <2> QED
    BY <1>1, <2>2, <2>4 DEF RolesAre
<1>10. CASE data /\ ~o /\ ~t
  <2>1. roles = Roles(1, 0, 0)
    BY <1>1, <1>3, <1>10, RolesTable
  <2>2. RolesAre(roles, 1, 0, 0)
    BY <2>1, RolesIs
  <2>3. Asked(r) = One("config")
    BY <1>4, <1>10 DEF Table
  <2>4. /\ Intended(r, "config") = PathFor(r, 1) /\ Intended(r, "consuming") = PathFor(r, 0)
        /\ Intended(r, "producing") = PathFor(r, 0)
    <3>1. Seat(One("config"), n, 1) = 1
      BY <1>1, SeatTable
    <3> QED
      BY <1>1, <1>5, <2>3, <3>1, OneAsked
  <2> QED
    BY <1>1, <2>2, <2>4 DEF RolesAre
<1>11. CASE ~data /\ o /\ t
  <2> DEFINE m == IF n = 1 THEN 1 ELSE n - 1
  <2>1. roles = IF n = 3 THEN Roles(0, 2, 3) ELSE Roles(0, 1, n)
    BY <1>1, <1>3, <1>11, RolesTable
  <2>2. RolesAre(roles, 0, m, n)
    <3>1. n = 3 => RolesAre(roles, 0, 2, 3)
      BY <2>1, RolesIs
    <3>2. n # 3 => RolesAre(roles, 0, 1, n)
      BY <2>1, RolesIs
    <3> QED
      BY <1>1, <3>1, <3>2
  <2>3. Asked(r) = Two("consuming", "producing")
    BY <1>4, <1>11 DEF Table
  <2>4. m \in {1, 2, 3} /\ (n # 3 => m = 1) /\ (n = 3 => m = 2)
    BY <1>1
  <2>5. /\ Intended(r, "consuming") = PathFor(r, m) /\ Intended(r, "producing") = PathFor(r, n)
        /\ Intended(r, "config") = PathFor(r, 0)
    <3>1. /\ Seat(Two("consuming", "producing"), PathCount(r.path), 1) = m
          /\ Seat(Two("consuming", "producing"), PathCount(r.path), 2) = n
      BY <1>1, <1>5, SeatTable
    <3> HIDE DEF m
    <3>2. "consuming" # "producing" /\ "config" # "consuming" /\ "config" # "producing"
      OBVIOUS
    <3>3. Intended(r, "consuming") = PathFor(r, m) /\ Intended(r, "producing") = PathFor(r, n)
      BY <1>1, <2>3, <2>4, <3>1, <3>2, TwoAsked
    <3>4. Intended(r, "config") = PathFor(r, 0)
      BY <2>3, <3>2, NotOfTwo
    <3> QED
      BY <3>3, <3>4
  <2> HIDE DEF m
  <2> QED
    BY <1>1, <2>2, <2>4, <2>5 DEF RolesAre
<1>12. CASE ~data /\ ~o /\ t
  <2>1. n = 1 /\ roles = Roles(0, 0, 1)
    BY <1>1, <1>3, <1>12, RolesTable
  <2>2. RolesAre(roles, 0, 0, 1)
    BY <2>1, RolesIs
  <2>3. Asked(r) = One("producing")
    BY <1>4, <1>12 DEF Table
  <2>4. /\ Intended(r, "producing") = PathFor(r, 1) /\ Intended(r, "consuming") = PathFor(r, 0)
        /\ Intended(r, "config") = PathFor(r, 0)
    <3>1. Seat(One("producing"), n, 1) = 1
      BY <1>1, <2>1, SeatTable
    <3> QED
      BY <1>1, <1>5, <2>3, <3>1, OneAsked
  <2> QED
    BY <1>1, <2>2, <2>4 DEF RolesAre
<1>13. CASE ~data /\ ~t
  <2>1. n = 1 /\ roles = Roles(0, 1, 0)
    BY <1>1, <1>3, <1>13, RolesTable
  <2>2. RolesAre(roles, 0, 1, 0)
    BY <2>1, RolesIs
  <2>3. Asked(r) = One("consuming")
    BY <1>4, <1>13 DEF Table
  <2>4. /\ Intended(r, "consuming") = PathFor(r, 1) /\ Intended(r, "producing") = PathFor(r, 0)
        /\ Intended(r, "config") = PathFor(r, 0)
    <3>1. Seat(One("consuming"), n, 1) = 1
      BY <1>1, <2>1, SeatTable
    <3> QED
      BY <1>1, <1>5, <2>3, <3>1, OneAsked
  <2> QED
    BY <1>1, <2>2, <2>4 DEF RolesAre
<1> QED
  BY <1>1, <1>7, <1>8, <1>9, <1>10, <1>11, <1>12, <1>13

LEMMA PathOfIs == \A r, d, i : d.path = r.path => PathOf(d, i) = PathFor(r, i)
BY DEF PathOf, PathFor

LEMMA RoundedIs ==
    ASSUME NEW rpi \in Nat
    PROVE  Rounded(rpi) \in Nat /\ Rounded(rpi) <= rpi /\ rpi - Rounded(rpi) < Tick
<1>1. Tick \in Nat /\ Tick > 0
  BY TickAssumption
<1>2. \A b \in Nat : b > 0 => \E q \in Nat, m \in Nat : m < b /\ rpi = q * b + m
                                    /\ rpi \div b = q
  OBVIOUS
<1>3. PICK q \in Nat, m \in Nat : m < Tick /\ rpi = q * Tick + m /\ rpi \div Tick = q
  BY <1>1, <1>2
<1>4. Rounded(rpi) = q * Tick
  BY <1>3 DEF Rounded
<1>5. q * Tick \in Nat
  BY <1>1
<1> QED
  BY <1>1, <1>3, <1>4, <1>5

\* A size that is not wrong is that of the data and what goes with it.
LEMMA SizeFits ==
    ASSUME NEW d, NEW end \in Ends, NEW p, NEW runidle \in BOOLEAN,
           ~WrongSize(d, EndRead(end), p, runidle)
    PROVE  Fits(d, end, EndRead(end), p, runidle)
<1> DEFINE attr == SizeBytes(p)
           over == Overhead(d, runidle, attr)
           got == EndRead(end)
<1>1. attr \in Nat
  BY SizeType
<1>2. over \in 0 .. 6
  BY DEF Overhead
<1>3. /\ end.rpi \in Nat /\ end.size \in Nat /\ end.fixed \in BOOLEAN
      /\ got.rpi = Rounded(end.rpi) /\ got.type = end.type /\ got.size = end.size
      /\ got.fixed = end.fixed
  BY DEF Ends, EndRead
<1>4. got.rpi <= end.rpi /\ end.rpi - got.rpi < Tick
  BY <1>3, RoundedIs
<1>5. [got EXCEPT !.rpi = 0] = [end EXCEPT !.rpi = 0]
  BY DEF Ends, EndRead
<1>6. ~(NotNull(got) /\ (\/ got.size < over
                         \/ got.fixed /\ got.size - over # attr
                         \/ got.size - over > attr))
  BY DEF WrongSize
<1>7. NotNull(got) <=> NotNull(end)
  BY <1>3 DEF NotNull
<1> HIDE DEF attr, over, got
<1>8. NotNull(end) => /\ end.fixed => end.size - over = attr
                      /\ end.size - over \in 0 .. attr
  BY <1>1, <1>2, <1>3, <1>6, <1>7
<1>9. NotNull(end) => IF end.fixed THEN end.size - over = attr ELSE end.size - over \in 0 .. attr
  BY <1>8
<1> QED
  BY <1>4, <1>5, <1>9 DEF Fits, attr, over, got

\* A path that has passed the checks of ResolveInstances() for its role.
LEMMA RolePasses ==
    ASSUME NEW r, NEW d, d.path = r.path, ~ResolveInstances(d).fails, NEW i \in 0 .. 3,
           i \in {d.roles.config, d.roles.consuming, d.roles.producing}
    PROVE  HasAny(PathFor(r, i)) /\ d.trigger.class \in {0, 1} =>
              /\ InstanceOf(PathFor(r, i)) \in Instances
              /\ GetClass(PathFor(r, i)) = kCipAssemblyClass
<1> SUFFICES ASSUME HasAny(PathFor(r, i)), d.trigger.class \in {0, 1}
             PROVE  /\ InstanceOf(PathFor(r, i)) \in Instances
                    /\ GetClass(PathFor(r, i)) = kCipAssemblyClass
  OBVIOUS
<1>1. i \in {1, 2, 3}
  <2>1. i # 0
    BY PathForIs DEF HasAny
  <2> QED
    BY <2>1
<1>2. PathFor(r, i) = d.path.app_path[i] /\ PathOf(d, i) = PathFor(r, i)
  BY <1>1, PathForIs, PathOfIs
<1>3. ~check_path(d.path.app_path[i]).fails
  <2>1. CASE i = 1
    BY <2>1, ResolvePasses
  <2>2. CASE i \in {2, 3}
    BY <2>2, ResolvePasses
  <2> QED
    BY <1>1, <2>1, <2>2
<1>4. InstanceOf(PathFor(r, i)) \in Instances
  BY <1>2, <1>3, PathTells
<1>5. GetClass(PathOf(d, i)) = kCipAssemblyClass
  <2>1. i > 0
    BY <1>1
  <2> QED
    BY <2>1, ResolvePasses
<1> QED
  BY <1>2, <1>4, <1>5

\* What an I/O connection is opened on.
LEMMA Managed ==
    ASSUME NEW d, d.trigger.class \in {0, 1}, ~ResolveInstances(d).fails,
           ~RolesAre(d.roles, 0, 2, 3)
              => 1 \in {d.roles.config, d.roles.consuming, d.roles.producing},
           d.roles = Roles(d.roles.config, d.roles.consuming, d.roles.producing)
    PROVE  ManagementClass(d) = kCipAssemblyClass
<1> DEFINE direct == d.roles = [config |-> 0, consuming |-> 2, producing |-> 3]
           used == {d.roles.config, d.roles.consuming, d.roles.producing}
<1>1. \A i \in used : i > 0 => GetClass(PathOf(d, i)) = kCipAssemblyClass
  BY ResolvePasses
<1>2. \A i : i > 0 /\ i \in {1, 2} => PathOf(d, i) = d.path.app_path[i]
  BY DEF PathOf
<1>3. CASE direct
  <2>1. 2 \in used
    BY <1>3
  <2>2. GetClass(d.path.app_path[2]) = kCipAssemblyClass
    BY <1>1, <1>2, <2>1
  <2>3. ManagementClass(d) = GetClass(d.path.app_path[2])
    BY <1>3, Zenon DEF ManagementClass
  <2> QED
    BY <2>2, <2>3
<1>4. CASE ~direct
  <2>1. ~RolesAre(d.roles, 0, 2, 3)
    BY <1>4 DEF RolesAre, Roles
  <2>2. GetClass(d.path.app_path[1]) = kCipAssemblyClass
    BY <1>1, <1>2, <2>1
  <2>3. ManagementClass(d) = GetClass(d.path.app_path[1])
    BY <1>4, Zenon DEF ManagementClass
  <2> QED
    BY <2>2, <2>3
<1> QED
  BY <1>3, <1>4

\* Every answer of AssignAppPaths() is one of the three roles.
LEMMA RolesShape ==
    ASSUME NEW r, NEW roles, roles # NoRoles,
           roles = AssignAppPaths(NotNull(r.producing), NotNull(r.consuming),
                                  r.path.data # <<>>, PathCount(r.path))
    PROVE  roles = Roles(roles.config, roles.consuming, roles.producing)
<1>1. \E i, j, k : roles = Roles(i, j, k)
  <2> DEFINE o == NotNull(r.producing)
             t == NotNull(r.consuming)
             data == r.path.data # <<>>
             n == PathCount(r.path)
  <2>1. o \in BOOLEAN /\ t \in BOOLEAN /\ data \in BOOLEAN /\ n \in {1, 2, 3}
    BY CountIs DEF NotNull
  <2>2. roles = AssignAppPaths(o, t, data, n)
    OBVIOUS
  <2> HIDE DEF o, t, data, n
  <2>3. \/ roles = Roles(1, IF n = 1 THEN 1 ELSE 2, n) \/ roles = Roles(1, n, 0)
        \/ roles = Roles(1, 0, n) \/ roles = Roles(1, 0, 0) \/ roles = Roles(0, 2, 3)
        \/ roles = Roles(0, 1, n) \/ roles = Roles(0, 1, 0) \/ roles = Roles(0, 0, 1)
    BY <2>1, <2>2, RolesTable
  <2> QED
    BY <2>3, Zenon
<1> QED
  BY <1>1 DEF Roles

\* A connection that is granted is the one its originator meant: every role is
\* played by the path that was written for it, the instances exist and, of an I/O
\* connection, are assemblies of the sizes that were asked for.
THEOREM GrantedAsAsked == Spec => []AcceptedAsAsked
<1>1. FInv => AcceptedAsAsked
  <2> SUFFICES ASSUME FInv, answer # None, answer.gen = "Success", ~Ambiguous(request)
               PROVE  AcceptedAsAsked
    BY DEF AcceptedAsAsked
  <2> DEFINE r == request
             d == read
             io == d.trigger.class \in {0, 1}
             Goal(role, i) ==
                 /\ PathOf(d, i) = Intended(r, role)
                 /\ HasAny(Intended(r, role)) /\ io =>
                       /\ InstanceOf(Intended(r, role)) \in Instances
                       /\ GetClass(Intended(r, role)) = kCipAssemblyClass
  <2>1. /\ RequestOK(r) /\ d = ReadOf(r) /\ r.triad \in established
        /\ ~ResolveInstances(d).fails /\ ~OpenConnection(d).fails
    BY RequestAssumption DEF FInv, AnswerFits
  <2>2. Parsed(r).path = r.path
    <3>1. Clear(r)
      BY <2>1 DEF Clear
    <3> QED
      BY <3>1, ClearIsRead
  <2>3. /\ d.path = r.path
        /\ d.consuming = EndRead(r.producing) /\ d.producing = EndRead(r.consuming)
        /\ d.roles = AssignAppPaths(NotNull(r.producing), NotNull(r.consuming),
                                    r.path.data # <<>>, PathCount(r.path))
    BY <2>1, <2>2, Arrives
  <2>4. r.producing \in Ends /\ r.consuming \in Ends
    BY <2>1 DEF RequestOK, Composed
  <2> HIDE DEF r, d
  <2>5. d.roles # NoRoles
    BY <2>1, ResolvePasses
  <2>6. /\ Intended(r, "config") = PathFor(r, d.roles.config)
        /\ Intended(r, "consuming") = PathFor(r, d.roles.consuming)
        /\ Intended(r, "producing") = PathFor(r, d.roles.producing)
        /\ d.roles.config \in 0 .. 3 /\ d.roles.consuming \in 0 .. 3
        /\ d.roles.producing \in 0 .. 3
        /\ ~RolesAre(d.roles, 0, 2, 3)
              => 1 \in {d.roles.config, d.roles.consuming, d.roles.producing}
    BY <2>3, <2>5, RolesAsIntended
  <2>7. /\ Goal("config", d.roles.config) /\ Goal("consuming", d.roles.consuming)
        /\ Goal("producing", d.roles.producing)
    <3>1. Goal("config", d.roles.config)
      BY <2>1, <2>3, <2>6, PathOfIs, RolePasses
    <3>2. Goal("consuming", d.roles.consuming)
      BY <2>1, <2>3, <2>6, PathOfIs, RolePasses
    <3>3. Goal("producing", d.roles.producing)
      BY <2>1, <2>3, <2>6, PathOfIs, RolePasses
    <3> QED
      BY <3>1, <3>2, <3>3
  <2>8. ASSUME io
        PROVE  /\ Fits(d, r.producing, d.consuming, Intended(r, "consuming"), RunIdleConsumed)
               /\ Fits(d, r.consuming, d.producing, Intended(r, "producing"), RunIdleProduced)
    <3>1. d.roles = Roles(d.roles.config, d.roles.consuming, d.roles.producing)
      BY <2>3, <2>5, RolesShape
    <3>2. ManagementClass(d) = kCipAssemblyClass
      BY <2>1, <2>6, <2>8, <3>1, Managed
    <3>3. ~WrongIn(d) /\ ~WrongOut(d)
      BY <2>1, <3>2, OpenTells
    <3>4. /\ PathOf(d, d.roles.consuming) = Intended(r, "consuming")
          /\ PathOf(d, d.roles.producing) = Intended(r, "producing")
      BY <2>7
    <3>5. /\ ~WrongSize(d, EndRead(r.producing), Intended(r, "consuming"), RunIdleConsumed)
          /\ ~WrongSize(d, EndRead(r.consuming), Intended(r, "producing"), RunIdleProduced)
      BY <2>3, <3>3, <3>4 DEF WrongIn, WrongOut
    <3> QED
      BY <2>3, <2>4, <3>5, SizeFits, RunIdleAssumption
  <2>9. \A role \in {"config", "consuming", "producing"} : Goal(role, d.roles[role])
    BY <2>7
  <2> QED
    BY <2>1, <2>8, <2>9 DEF AcceptedAsAsked, r, d
<1> QED
  BY <1>1, FInvInvariant, PTL
==============================================================================
