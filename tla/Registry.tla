------------------------------- MODULE Registry -------------------------------
(***************************************************************************)
(* A CipClass as the code keeps it: vectors of instances, services and      *)
(* attributes that every insertion has to keep sorted, the binary searches  *)
(* that rely on it, the two masks of GetAttributeAll, and the way of a      *)
(* request from NotifyMR() through a service to an attribute.               *)
(***************************************************************************)
EXTENDS Integers, Sequences, FiniteSets, SequencesExt

CONSTANTS
    Objects,        \* instances: records with an id
    Services,       \* ["I", "C" -> set of [id, fn]] that can be inserted
    Attributes,     \* ["I", "C" -> set of attribute records] that can be inserted
    FirstServices, FirstAttributes, \* ["I", "C" -> sequence] of the constructor
    ByteArrays,     \* types of the data and length views of a byte array
    Space,          \* bytes that fit into a response
    Requests        \* [instance, service, attribute, data]; instance -1: none in the path

ASSUME IdAssumption ==
    /\ \A o \in Objects : o.id \in 1 .. 2^16 - 1
    /\ \A ci \in {"I", "C"} :
          /\ \A s \in Services[ci] \cup Range(FirstServices[ci]) : s.id \in 1 .. 127
          /\ \A a \in Attributes[ci] \cup Range(FirstAttributes[ci]) :
                a.id \in 1 .. 2^16 - 1 /\ a.where \in Nat /\ a.size \in Nat

VARIABLES
    instances,      \* vector of instances
    owned,          \* objects whose owning_class is set
    services,       \* services[_I], services[_C]
    attributes,     \* attributes[_I], attributes[_C]
    getable_all     \* the bits of inst_ and clss_getable_all_mask

vars == <<instances, owned, services, attributes, getable_all>>

CI == {"I", "C"}

\* The attributes that the inserters make of a member of the instance or of
\* static storage: a flag that is not given leaves the function NULL.
attrInsertOff(id, name, getable, all, set, type, size, where, bytes) ==
    [id |-> id, name |-> name, getter |-> IF getable THEN "GetAttrData" ELSE "NULL",
     set |-> set, all |-> all, type |-> type, size |-> size, where |-> where,
     offset |-> TRUE, bytes |-> bytes]

attrInsertPtr(id, name, getable, all, set, type, size, where, bytes) ==
    [attrInsertOff(id, name, getable, all, set, type, size, where, bytes)
        EXCEPT !.offset = FALSE]

\* AttributeInsert() with a getter of the class: two bytes of no CIP type.
WithGetter(id, getter) ==
    [attrInsertPtr(id, getter, TRUE, TRUE, FALSE, "Any", 0, 0, 2) EXCEPT !.getter = getter]

NULL == [id |-> -1]

\* A binary search for id among the positions [begin, end) of a vector counted
\* from 0.  Both searches return an iterator; the end says that none was found.
Halve(s, id) ==
    LET middle(b, e) == b + (e - b - 1) \div 2
        search[be \in (0 .. Len(s)) \X (0 .. Len(s))] ==
            LET b == be[1]
                e == be[2]
                x == s[middle(b, e) + 1].id
            IN  IF b >= e THEN [hit |-> FALSE, at |-> e]
                ELSE CASE id < x -> search[<<b, middle(b, e)>>]
                       [] id > x -> search[<<middle(b, e) + 1, e>>]
                       [] OTHER -> [hit |-> TRUE, at |-> middle(b, e)]
    IN  search[<<0, Len(s)>>]

vec_search(s, id) == IF Halve(s, id).hit THEN Halve(s, id).at ELSE Len(s)
vec_search_gte(s, id) == Halve(s, id).at

At(s, it) == IF it = Len(s) THEN NULL ELSE s[it + 1]

Service(ci, id) == At(services[ci], vec_search(services[ci], id))
Attribute(ci, id) == At(attributes[ci], vec_search(attributes[ci], id))
Instance(id) == At(instances, vec_search(instances, id))
InstanceNext(id) == At(instances, vec_search_gte(instances, id))

\* The loop of every insertion stops at the first member whose id is not less.
Slot(s, id) ==
    CHOOSE i \in 1 .. Len(s) + 1 :
        /\ \A j \in 1 .. i - 1 : s[j].id < id
        /\ i <= Len(s) => s[i].id >= id

Taken(s, id) == Slot(s, id) <= Len(s) /\ s[Slot(s, id)].id = id

\* Fault: the member with the same id is not erased.
Beside(s, x) ==
    LET it == Slot(s, x.id)
    IN  SubSeq(s, 1, it - 1) \o <<x>> \o SubSeq(s, it, Len(s))

\* Services and attributes override the member with their id, in its slot.
Override(s, x) ==
    LET it == Slot(s, x.id)
        rest == IF Taken(s, x.id) THEN it + 1 ELSE it
    IN  SubSeq(s, 1, it - 1) \o <<x>> \o SubSeq(s, rest, Len(s))

\* InstanceRemove() and ServiceRemove() erase the first member with the id.
Erase(s, id) ==
    IF \E i \in DOMAIN s : s[i].id = id
    THEN LET it == CHOOSE i \in DOMAIN s :
                      s[i].id = id /\ \A j \in 1 .. i - 1 : s[j].id # id
         IN  SubSeq(s, 1, it - 1) \o SubSeq(s, it + 1, Len(s))
    ELSE s

MaskBits(S) == {a.id : a \in {b \in S : b.id < 32 /\ b.all}}

\* The constructor has inserted its services and attributes.
Constructed(first) ==
    LET built[n \in 0 .. Len(first)] ==
            IF n = 0 THEN <<>> ELSE Override(built[n - 1], first[n])
    IN  built[Len(first)]

Init ==
    /\ instances = <<>> /\ owned = {}
    /\ services = [ci \in CI |-> Constructed(FirstServices[ci])]
    /\ attributes = [ci \in CI |-> Constructed(FirstAttributes[ci])]
    /\ getable_all = [ci \in CI |-> MaskBits(Range(FirstAttributes[ci]))]

InstanceInsert(o) ==
    /\ o \notin owned
    /\ ~Taken(instances, o.id)
    /\ instances' = Override(instances, o)
    /\ owned' = owned \cup {o}
    /\ UNCHANGED <<services, attributes, getable_all>>

\* The object that is returned keeps its owning_class.
InstanceRemove(id) ==
    /\ instances' = Erase(instances, id)
    /\ UNCHANGED <<owned, services, attributes, getable_all>>

ServiceInsert(ci, s) ==
    /\ services' = [services EXCEPT ![ci] = Override(@, s)]
    /\ UNCHANGED <<instances, owned, attributes, getable_all>>

ServiceRemove(ci, id) ==
    /\ services' = [services EXCEPT ![ci] = Erase(@, id)]
    /\ UNCHANGED <<instances, owned, attributes, getable_all>>

\* Fault: only the starts of two storages are compared.
SameStart(a, e) == a.where = e.where

\* An attribute of a type of no size has no storage that could overlap.
Overlap(a, e) ==
    LET aHi == a.where + a.size
        eHi == e.where + e.size
    IN  a.where < eHi /\ e.where < aHi

Aliases(a, e) ==
    /\ a.size # 0 /\ e.size # 0
    /\ a.offset = e.offset
    /\ Overlap(a, e)
    /\ a.type # e.type
    /\ ~(a.type \in ByteArrays /\ e.type \in ByteArrays)

\* The constructor gives each of its services and attributes an id and storage
\* of its own.
ASSUME ConstructorAssumption ==
    \A ci \in CI :
        /\ \A first \in {FirstServices[ci], FirstAttributes[ci]} :
              /\ Len(first) \in Nat /\ DOMAIN first = 1 .. Len(first)
              /\ \A i, j \in DOMAIN first : first[i].id = first[j].id => i = j
        /\ \A a, e \in Range(FirstAttributes[ci]) : a # e => ~Aliases(a, e)

\* What a request and an answer are made of.  GetAttributeAll() is served under
\* its own id, by which CipAttribute::Get() knows it, and GetAttributeSingle()
\* under any other.
ASSUME RequestAssumption ==
    /\ Space \in Nat
    /\ \A r \in Requests : /\ r.instance \in Int /\ r.instance >= -1
                           /\ r.service \in Int /\ r.attribute \in Int
                           /\ r.data \in {"none", "bad", "good"}
    /\ \A ci \in CI : \A s \in Services[ci] \cup Range(FirstServices[ci]) :
          \/ s.fn = "GetAttributeAll" /\ s.id = 1
          \/ s.fn = "GetAttributeSingle" /\ s.id # 1
          \/ s.fn \in {"SetAttributeSingle", "Reset"}
    /\ \A ci \in CI : \A a \in Attributes[ci] \cup Range(FirstAttributes[ci]) :
          /\ a.getter \in {"NULL", "GetAttrData", "getInstanceCount", "getLargestInstanceId",
                           "getLargestInstanceAttributeId", "getLargestClassAttributeId"}
          /\ a.bytes \in Nat /\ a.all \in BOOLEAN

\* Nothing clears a bit of the mask, an override included.
AttributeInsert(ci, a) ==
    /\ \A i \in DOMAIN attributes[ci] :
          attributes[ci][i].id = a.id \/ ~Aliases(a, attributes[ci][i])
    /\ attributes' = [attributes EXCEPT ![ci] = Override(@, a)]
    /\ getable_all' = [getable_all EXCEPT ![ci] = @ \cup MaskBits({a})]
    /\ UNCHANGED <<instances, owned, services>>

Next ==
    \/ \E o \in Objects : InstanceInsert(o) \/ InstanceRemove(o.id)
    \/ \E ci \in CI : \E s \in Services[ci] :
          ServiceInsert(ci, s) \/ ServiceRemove(ci, s.id)
    \/ \E ci \in CI : \E a \in Attributes[ci] : AttributeInsert(ci, a)

Spec == Init /\ [][Next]_vars

-----------------------------------------------------------------------------
\* Requests do not change the tables.

kGetAttributeAll == 1
kGetAttributeSingle == 14

Reply(status, data) == [result |-> "OkSend", status |-> status, data |-> data]
NoReply(result) == [result |-> result, status |-> "Success", data |-> <<>>]

HighestId(s) == IF s = <<>> THEN 0 ELSE s[Len(s)].id

getInstanceCount == Len(instances)
getLargestInstanceId == HighestId(instances)
getLargestInstanceAttributeId == HighestId(attributes["I"])
getLargestClassAttributeId == HighestId(attributes["C"])

\* The getter of an attribute; what GetAttrData() encodes is not told apart.
Getter(a) ==
    CASE a.getter = "getInstanceCount" -> getInstanceCount
      [] a.getter = "getLargestInstanceId" -> getLargestInstanceId
      [] a.getter = "getLargestInstanceAttributeId" -> getLargestInstanceAttributeId
      [] a.getter = "getLargestClassAttributeId" -> getLargestClassAttributeId
      [] a.getter = "GetAttrData" -> 0

\* Fault: what an attribute says of GetAttributeAll is left to the mask.
GetMasked(a, service, room) ==
    IF a.getter = "NULL" THEN Reply("AttributeNotGettable", <<>>)
    ELSE IF a.bytes > room THEN NoReply("Error")
    ELSE Reply("Success", <<<<a.name, Getter(a)>>>>)

\* CipAttribute::Get() with room bytes left.
Get(a, service, room) ==
    IF a.getter = "NULL" \/ (service = kGetAttributeAll /\ ~a.all)
    THEN Reply("AttributeNotGettable", <<>>)
    ELSE IF a.bytes > room THEN NoReply("Error")
    ELSE Reply("Success", <<<<a.name, Getter(a)>>>>)

\* CipAttribute::Set(): the data may be missing or refused by DecodeData().
Set(a, data) ==
    IF ~a.set THEN Reply("AttributeNotSetable", <<>>)
    ELSE CASE data = "none" -> Reply("NotEnoughData", <<>>)
           [] data = "bad" -> Reply("InvalidAttributeValue", <<>>)
           [] data = "good" -> Reply("Success", <<a.name>>)

GetAttributeSingle(ci, id, service, room) ==
    LET a == Attribute(ci, id)
    IN  IF a = NULL THEN Reply("AttributeNotSupported", <<>>) ELSE Get(a, service, room)

SetAttributeSingle(ci, id, data) ==
    LET a == Attribute(ci, id)
    IN  IF a = NULL THEN Reply("AttributeNotSupported", <<>>) ELSE Set(a, data)

\* The loop over the attributes clears the status of each, and stops when one
\* does not fit.
GetAttributeAll(ci, service) ==
    LET all == attributes[ci]
        loop[i \in 0 .. Len(all)] ==
            IF i = 0 THEN [room |-> Space, reply |-> Reply("Success", <<>>)]
            ELSE LET before == loop[i - 1]
                     one == GetAttributeSingle(ci, all[i].id, service, before.room)
                 IN  IF \/ all[i].id >= 32 \/ all[i].id \notin getable_all[ci]
                        \/ before.reply.result # "OkSend"
                     THEN before
                     ELSE IF one.result # "OkSend"
                     THEN [before EXCEPT !.reply = NoReply("Error")]
                     ELSE [room |-> IF one.data = <<>> THEN before.room
                                    ELSE before.room - all[i].bytes,
                           reply |-> Reply("Success", before.reply.data \o one.data)]
    IN  IF Service(ci, kGetAttributeSingle) = NULL THEN NoReply("Ok")
        ELSE IF all = <<>> THEN Reply("ServiceNotSupported", <<>>)
        ELSE loop[Len(all)].reply

Reset(data) == Reply(IF data = "none" THEN "Success" ELSE "InvalidParameter", <<>>)

ServiceFunction(fn, ci, r) ==
    CASE fn = "GetAttributeSingle" -> GetAttributeSingle(ci, r.attribute, r.service, Space)
      [] fn = "SetAttributeSingle" -> SetAttributeSingle(ci, r.attribute, r.data)
      [] fn = "GetAttributeAll" -> GetAttributeAll(ci, r.service)
      [] fn = "Reset" -> Reset(r.data)

NotifyMR(r) ==
    LET ci == IF r.instance = 0 THEN "C" ELSE "I"
        service == Service(ci, r.service)
    IN  IF r.instance = -1 THEN Reply("PathDestinationUnknown", <<>>)
        ELSE IF service = NULL THEN Reply("ServiceNotSupported", <<>>)
        ELSE IF r.instance # 0 /\ Instance(r.instance) = NULL
        THEN Reply("PathDestinationUnknown", <<>>)
        ELSE ServiceFunction(service.fn, ci, r)

\* Fault: the count of the instances is taken for the highest id.
CountPlusOne == Len(instances) + 1

\* The first gap in the ids of a sorted vector.
FindUniqueFreeId ==
    LET last[i \in 0 .. Len(instances)] ==
            IF i = 0 THEN 0
            ELSE IF instances[i].id > last[i - 1] + 1 THEN last[i - 1]
            ELSE instances[i].id
    IN  last[Len(instances)] + 1

-----------------------------------------------------------------------------
OM == INSTANCE ObjectModel WITH
    instances <- Range(instances),
    services <- [ci \in CI |-> Range(services[ci])],
    attributes <- [ci \in CI |-> Range(attributes[ci])]

\* The vectors change as sets that an id addresses: no insertion, override or
\* removal loses, doubles or replaces anything but the member with that id.
ImplementsObjectModel == OM!Spec

\* The way of a request through sorted vectors, binary searches, masks that
\* are never cleared and a shrinking reply buffer ends in the answer that the
\* sets call for, whatever was inserted, overridden and removed before.
AnswersMatch == \A r \in Requests : NotifyMR(r) = OM!Answer(r)

\* cipclass.h: FindUniqueFreeId "returns the first unused instance Id", and
\* InstanceNext returns "aInstanceId if it exists, else the next greater".
IdsAgree ==
    LET ids == {o.id : o \in Range(instances)}
        AtLeast(id) == {o \in Range(instances) : o.id >= id}
    IN  /\ FindUniqueFreeId \notin ids
        /\ 1 .. FindUniqueFreeId - 1 \subseteq ids
        /\ \A o \in Objects : \A id \in {o.id, o.id + 1} :
              LET found == InstanceNext(id)
              IN  IF AtLeast(id) = {} THEN found = NULL
                  ELSE found \in AtLeast(id) /\ \A p \in AtLeast(id) : found.id <= p.id

\* No two attributes read and write the same bytes as different types, in
\* whatever order they came and whatever they replaced.
NoAliasing ==
    \A ci \in CI : \A a, b \in Range(attributes[ci]) :
        \A byte \in 0 .. 64 :
            (/\ a.offset = b.offset
             /\ byte \in a.where .. a.where + a.size - 1
             /\ byte \in b.where .. b.where + b.size - 1)
            => a.type = b.type \/ {a.type, b.type} \subseteq ByteArrays
=============================================================================
