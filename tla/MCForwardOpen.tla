--------------------------- MODULE MCForwardOpen ---------------------------
(* Requests that vary one thing or two around the usual ones: which paths a   *)
(* request has against its connection types, how they are written, what is    *)
(* in the group before them, sizes, intervals, keys and path sizes.           *)
EXTENDS ForwardOpen

P(class, instance, point, attribute) ==
    [NoPath EXCEPT !.stuff = [f \in Levels |->
        CASE f = CLASS -> class [] f = INSTANCE_ID -> instance
          [] f = CONN_PT -> point [] OTHER -> attribute]]
Instance(i) == P(4, i, Absent, Absent)
Point(i) == P(4, Absent, i, Absent)

Symbol == [NoPath EXCEPT !.tag = <<<<65, 66, 67>>>>, !.members = <<2, 300>>]

MCClasses == {1, 2, 4}
MCInstances == {<<1, 1>>, <<2, 1>>, <<4, 1>>, <<4, 2>>, <<4, 300>>, <<4, 5>>}
MCAssemblySize == [i \in {<<4, 1>>, <<4, 2>>, <<4, 300>>, <<4, 5>>} |->
    CASE i[2] = 1 -> 8 [] i[2] = 2 -> 510 [] i[2] = 300 -> 2 [] OTHER -> 0]
MCDevice == <<5, 12, 7, 2, 3>>

End(type, size) == [rpi |-> 20, type |-> type, size |-> size, fixed |-> TRUE]
Base == [triad |-> 1, multiplier |-> 0, compressed |-> TRUE, cut |-> 0, large |-> FALSE,
         trigger |-> [class |-> 1, type |-> "Cyclic"],
         producing |-> End("PointToPoint", 14), consuming |-> End("PointToPoint", 8),
         path |-> [group |-> NoGroup, data |-> <<>>,
                   app_path |-> <<Instance(1), Point(300), NoPath>>]]
With(app_path, data) ==
    [Base EXCEPT !.path.app_path = app_path, !.path.data = data]

\* Which path plays which role.
Kinds == {"Null", "PointToPoint", "Multicast"}
PathLists == {<<Instance(1), NoPath, NoPath>>, <<Instance(5), Point(1), NoPath>>,
             <<Instance(5), Instance(1), Instance(300)>>,
             <<Instance(2), Point(1), Point(300)>>,
             <<P(1, 1, Absent, Absent), Point(1), Instance(300)>>,
             <<P(2, 1, Absent, Absent), NoPath, NoPath>>,
             <<P(2, 1, Absent, Absent), P(9, 1, Absent, Absent), NoPath>>}
RoleRequests ==
    {[With(ps, data) EXCEPT !.producing.type = o, !.consuming.type = t, !.trigger.class = class] :
        ps \in PathLists, data \in {<<>>, <<<<7, 513>>>>}, o \in Kinds, t \in {"Null", "PointToPoint"},
        class \in {0, 1, 2, 3}}

\* How paths are written.
Some == {Instance(1), Instance(300), Point(2), P(4, 1, Absent, 3), P(4, Absent, 2, 3),
         P(1, 1, Absent, Absent), P(1, 1, Absent, 5), P(2, 1, 4, Absent), Symbol,
         P(4, 70000, Absent, Absent)}
PathRequests ==
    {[With(<<p, q, r>>, data) EXCEPT !.compressed = c] :
        p \in Some, q \in Some, r \in Some \cup {NoPath}, data \in {<<<<9>>>>}, c \in BOOLEAN}

\* The group in front, its keys and ports.
Keys == {<<>>, <<5, 12, 7, 2, 3>>, <<0, 0, 0, 0, 0>>, <<5, 0, 7, 130, 2>>, <<5, 12, 7, 130, 4>>,
         <<6, 12, 7, 2, 3>>, <<5, 11, 7, 2, 3>>, <<5, 12, 7, 3, 3>>}
Ports == {<<>>, <<2, <<1>>>>, <<14, <<>>>>, <<15, <<4>>>>, <<16, <<4>>>>, <<300, <<49, 48>>>>}
GroupRequests ==
    {[Base EXCEPT !.path.group = [key |-> k, usecs |-> u, msecs |-> ms, pit |-> IF u \/ ms THEN 2000 ELSE 0, port |-> p],
                  !.trigger.type = t, !.consuming.rpi = rpi] :
        k \in Keys, u \in BOOLEAN, ms \in BOOLEAN, p \in Ports, t \in {"Cyclic", "Application"},
        rpi \in {1999, 2010}}

\* Sizes, intervals and the rest.
SizeRequests ==
    {[With(ps, <<>>) EXCEPT !.producing.size = o, !.consuming.size = t, !.producing.fixed = f,
                            !.trigger.class = class, !.large = large] :
        ps \in {<<Instance(1), Point(300), NoPath>>, <<Instance(5), Instance(2), NoPath>>,
                <<Instance(2), NoPath, NoPath>>},
        o \in {1, 2, 13, 14, 15, 511}, t \in {3, 8, 511}, f \in BOOLEAN, class \in {0, 1},
        large \in BOOLEAN}
OtherRequests ==
    {[Base EXCEPT !.multiplier = mu, !.cut = cut, !.producing.rpi = rpi,
                  !.trigger.type = t, !.triad = triad] :
        mu \in {7, 8}, cut \in {-1, 0, 1}, rpi \in {0, 9, 10, 25}, t \in {"Cyclic", "undocumented"},
        triad \in {1, 2}}
    \cup {[Base EXCEPT !.producing.type = "Invalid"], [Base EXCEPT !.consuming.type = "Invalid"],
          [Base EXCEPT !.trigger.class = 4]}

MCRequests == RoleRequests \cup PathRequests \cup GroupRequests \cup SizeRequests \cup OtherRequests
=============================================================================
