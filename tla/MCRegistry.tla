------------------------------ MODULE MCRegistry ------------------------------
(* A class with the class attributes and services of its constructor, to      *)
(* which instances with ids 1 and 3 (two objects have id 3), services and    *)
(* attributes are added: overrides that are not for GetAttributeAll any more, *)
(* ids around 32, storage that overlaps.                                      *)
EXTENDS Registry, TLC

Zero(id) == attrInsertPtr(id, "Zero", TRUE, TRUE, FALSE, "Uint", 2, 10, 2)
Revision == attrInsertPtr(1, "revision", TRUE, TRUE, FALSE, "Uint", 2, 20, 2)

MCObjects == {[id |-> 1, o |-> 1], [id |-> 3, o |-> 2], [id |-> 3, o |-> 3]}
GetOne == [id |-> 14, fn |-> "GetAttributeSingle"]
SetOne == [id |-> 16, fn |-> "SetAttributeSingle"]
All == [id |-> 1, fn |-> "GetAttributeAll"]
MCServices == ("I" :> {GetOne, All}) @@ ("C" :> {[id |-> 5, fn |-> "GetAttributeSingle"]})
MCFirstServices ==
    ("C" :> <<GetOne, All, [id |-> 5, fn |-> "Reset"]>>) @@ ("I" :> <<GetOne, SetOne>>)
MCFirstAttributes ==
    ("C" :> <<Revision, WithGetter(2, "getLargestInstanceId"),
              WithGetter(3, "getInstanceCount"), Zero(4), Zero(5),
              WithGetter(6, "getLargestClassAttributeId"),
              WithGetter(7, "getLargestInstanceAttributeId")>>)
    @@ ("I" :> <<>>)
MCAttributes ==
    ("I" :> {attrInsertOff(1, "status", TRUE, TRUE, FALSE, "Dword", 4, 0, 4),
             attrInsertOff(1, "hidden", TRUE, FALSE, TRUE, "Dword", 4, 0, 4),
             attrInsertOff(2, "low", TRUE, TRUE, TRUE, "Uint", 2, 2, 2),
             attrInsertOff(31, "write only", FALSE, TRUE, TRUE, "Usint", 1, 4, 1),
             attrInsertOff(32, "again", TRUE, TRUE, FALSE, "Dword", 4, 0, 4),
             attrInsertOff(3, "bytes", TRUE, TRUE, TRUE, "ByteArray", 8, 8, 6),
             attrInsertOff(4, "length", TRUE, TRUE, FALSE, "ByteArrayLength", 8, 8, 2)})
    @@ ("C" :> {attrInsertOff(9, "extra", TRUE, TRUE, FALSE, "Udint", 4, 0, 4)})
MCRequests ==
    [instance : {0, 1, 2, 3}, service : {1, 5, 14}, attribute : {2, 3, 32},
     data : {"none"}]
    \cup [instance : {-1, 1}, service : {16}, attribute : {1, 31}, data : {"none", "bad", "good"}]
    \cup [instance : {0}, service : {5, 14}, attribute : {2, 6, 7}, data : {"good"}]
=============================================================================
