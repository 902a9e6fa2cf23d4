----------------------------- MODULE ObjectModel -----------------------------
(***************************************************************************)
(* What the object model of one class promises: sets of instances, services *)
(* and attributes in which an id names at most one member, and answers to   *)
(* requests that follow from these sets alone.  It says nothing of vectors, *)
(* of their order, of searches or of bit masks; Registry implements it.     *)
(***************************************************************************)
EXTENDS Integers, Sequences, FiniteSets, FiniteSetsExt, SequencesExt

CONSTANTS
    Objects,        \* instances: records with an id
    Services,       \* ["I", "C" -> set of [id, fn]] that can be inserted
    Attributes,     \* ["I", "C" -> set of attribute records] that can be inserted
    FirstServices, FirstAttributes, \* ["I", "C" -> sequence] the constructor inserts
    ByteArrays,     \* types of the data and length views of a byte array
    Space           \* bytes that fit into a response

VARIABLES
    instances,      \* the set of instances of the class
    owned,          \* the set of objects that were once inserted
    services,       \* [CI -> set of services]
    attributes      \* [CI -> set of attributes]

vars == <<instances, owned, services, attributes>>

CI == {"I", "C"}

Named(S, id) == {x \in S : x.id = id}
Others(S, id) == S \ Named(S, id)

\* Two attributes give the same bytes different meanings.
Clash(a, b) ==
    /\ a.size > 0 /\ b.size > 0 /\ a.offset = b.offset
    /\ a.where < b.where + b.size /\ b.where < a.where + a.size
    /\ a.type # b.type
    /\ ~ {a.type, b.type} \subseteq ByteArrays

Init ==
    /\ instances = {} /\ owned = {}
    /\ services = [ci \in CI |-> Range(FirstServices[ci])]
    /\ attributes = [ci \in CI |-> Range(FirstAttributes[ci])]

Insert(o) ==
    /\ o \notin owned /\ Named(instances, o.id) = {}
    /\ instances' = instances \cup {o}
    /\ owned' = owned \cup {o}
    /\ UNCHANGED <<services, attributes>>

Delete(id) ==
    /\ instances' = Others(instances, id)
    /\ UNCHANGED <<owned, services, attributes>>

Serve(ci, s) ==
    /\ services' = [services EXCEPT ![ci] = Others(@, s.id) \cup {s}]
    /\ UNCHANGED <<instances, owned, attributes>>

Withdraw(ci, id) ==
    /\ services' = [services EXCEPT ![ci] = Others(@, id)]
    /\ UNCHANGED <<instances, owned, attributes>>

Offer(ci, a) ==
    /\ \A b \in Others(attributes[ci], a.id) : ~Clash(a, b)
    /\ attributes' = [attributes EXCEPT ![ci] = Others(@, a.id) \cup {a}]
    /\ UNCHANGED <<instances, owned, services>>

Next ==
    \/ \E o \in Objects : Insert(o) \/ Delete(o.id)
    \/ \E ci \in CI : \/ \E s \in Services[ci] : Serve(ci, s) \/ Withdraw(ci, s.id)
                      \/ \E a \in Attributes[ci] : Offer(ci, a)

Spec == Init /\ [][Next]_vars

-----------------------------------------------------------------------------
\* The answer that a request must get.  A reply lists what was read or written.

Says(status, data) == [result |-> "OkSend", status |-> status, data |-> data]
Failed == [result |-> "Error", status |-> "Success", data |-> <<>>]
Silent == [result |-> "Ok", status |-> "Success", data |-> <<>>]

Highest(S) == IF S = {} THEN 0 ELSE Max({x.id : x \in S})

Value(a) ==
    CASE a.getter = "getInstanceCount" -> Cardinality(instances)
      [] a.getter = "getLargestInstanceId" -> Highest(instances)
      [] a.getter = "getLargestInstanceAttributeId" -> Highest(attributes["I"])
      [] a.getter = "getLargestClassAttributeId" -> Highest(attributes["C"])
      [] OTHER -> 0

Read(a) == <<a.name, Value(a)>>

\* What GetAttributeAll has to return: all that is marked for it, by id.
AllOf(ci) ==
    {a \in attributes[ci] : a.id < 32 /\ a.all /\ a.getter # "NULL"}

ReadAll(ci) ==
    LET all == AllOf(ci)
        inOrder == [i \in 1 .. Cardinality(all) |->
            CHOOSE a \in all : Cardinality({b \in all : b.id <= a.id}) = i]
    IN  IF MapThenSumSet(LAMBDA a : a.bytes, all) > Space THEN Failed
        ELSE Says("Success", [i \in DOMAIN inOrder |-> Read(inOrder[i])])

ReadOne(a) ==
    CASE a.getter = "NULL" -> Says("AttributeNotGettable", <<>>)
      [] a.getter # "NULL" /\ a.bytes > Space -> Failed
      [] OTHER -> Says("Success", <<Read(a)>>)

WriteOne(a, data) ==
    CASE ~a.set -> Says("AttributeNotSetable", <<>>)
      [] a.set /\ data = "none" -> Says("NotEnoughData", <<>>)
      [] a.set /\ data = "bad" -> Says("InvalidAttributeValue", <<>>)
      [] OTHER -> Says("Success", <<a.name>>)

OfAttribute(ci, id, Do(_)) ==
    LET at == Named(attributes[ci], id)
    IN  IF at = {} THEN Says("AttributeNotSupported", <<>>)
        ELSE Do(CHOOSE a \in at : TRUE)

GetSingle == 14

Perform(ci, fn, r) ==
    CASE fn = "GetAttributeSingle" -> OfAttribute(ci, r.attribute, ReadOne)
      [] fn = "SetAttributeSingle" ->
            OfAttribute(ci, r.attribute, LAMBDA a : WriteOne(a, r.data))
      [] fn = "Reset" ->
            Says(IF r.data = "none" THEN "Success" ELSE "InvalidParameter", <<>>)
      [] fn = "GetAttributeAll" ->
            CASE Named(services[ci], GetSingle) = {} -> Silent
              [] Named(services[ci], GetSingle) # {} /\ attributes[ci] = {} ->
                    Says("ServiceNotSupported", <<>>)
              [] OTHER -> ReadAll(ci)

\* A service of the class that does not exist is told before an instance that
\* does not exist.
Answer(r) ==
    LET ci == IF r.instance = 0 THEN "C" ELSE "I"
        serving == Named(services[ci], r.service)
    IN  CASE r.instance = -1 -> Says("PathDestinationUnknown", <<>>)
          [] r.instance >= 0 /\ serving = {} -> Says("ServiceNotSupported", <<>>)
          [] r.instance > 0 /\ serving # {} /\ Named(instances, r.instance) = {} ->
                Says("PathDestinationUnknown", <<>>)
          [] OTHER -> Perform(ci, (CHOOSE s \in serving : TRUE).fn, r)
=============================================================================
