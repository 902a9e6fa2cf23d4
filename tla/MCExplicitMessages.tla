-------------------------- MODULE MCExplicitMessages --------------------------
(* Two clients on TCP, whose messages are cut by recv() anywhere, a host that *)
(* asks by UDP, one class 3 connection that comes and goes.                   *)
EXTENDS ExplicitMessages

CONSTANTS s1, s2

Tcp(cmd, handle, len, body) ==
    [cmd |-> cmd, faulty |-> FALSE, handle |-> handle, len |-> len, body |-> body]

Item(type) == [type |-> type, cid |-> 0, request |-> None]
Request(service, attribute, data) ==
    [service |-> service, attribute |-> attribute, data |-> data, size |-> 0]
Get(size) == [Request("GetAttributeAll", 1, <<>>) EXCEPT !.size = size]
Data(type, r) == [Item(type) EXCEPT !.request = r]

SetTTL(v) == Request("SetAttributeSingle", 8, <<v>>)
SetMulticast(data) == Request("SetAttributeSingle", 9, data)
Unconnected(r) == <<Item("Null"), Data("UnconnectedData", r)>>
Connected(c, r) == <<[Item("Connected") EXCEPT !.cid = c], Data("ConnectedData", r)>>

MCTcpMessages ==
    {Tcp("RegisterSession", 0, 1, b) : b \in {"good", "version", "short"}}
    \cup {Tcp("UnRegisterSession", h, 0, <<>>) : h \in {1, 2}}
    \cup {Tcp("SendRRData", h, 2, Unconnected(SetTTL(v))) : h \in {1, 2}, v \in {2}}
    \cup {Tcp("SendRRData", 1, 2, Unconnected(r)) :
            r \in {SetTTL(0), Request("SetAttributeSingle", 13, <<5>>), Get(1), Get(4), Get(5),
                   Request("SetAttributeSingle", None, <<>>)}}
    \cup {Tcp("SendRRData", 2, 2, Unconnected(SetMulticast(d))) :
            d \in {<<1, 0, 1, 1>>}}
    \cup {Tcp("SendRRData", 1, 2, <<Item("Null"), Item("other"), Data("UnconnectedData", SetTTL(2))>>),
          Tcp("SendRRData", 1, 0, <<>>),
          Tcp("SendUnitData", 2, 2, Connected(7, SetTTL(1))),
          Tcp("SendUnitData", 1, 2, Connected(7, Get(1))),
          Tcp("SendUnitData", 1, 2, Connected(7, Get(4))),
          Tcp("SendUnitData", 1, 2, Connected(7, Get(5))),
          Tcp("SendUnitData", 1, 2, Connected(7, None)),
          Tcp("SendUnitData", 1, 2, Unconnected(SetTTL(1))),
          Tcp("List", 0, 0, <<>>), Tcp("NOP", 0, 1, <<>>), Tcp("unknown", 0, 3, <<>>),
          Tcp("List", 0, 4, <<>>), Tcp("List", 0, 6, <<>>),
          [Tcp("SendRRData", 1, 2, Unconnected(SetTTL(2))) EXCEPT !.faulty = TRUE]}

Udp(cmd, wait) == [cmd |-> cmd, status |-> 0, options |-> 0, wait |-> wait]
MCUdpMessages ==
    {Udp("ListIdentity", w) : w \in {0, 2}} \cup {Udp("SendRRData", 0)}
    \cup {[Udp("List", 0) EXCEPT !.options = 1], [Udp("ListIdentity", 0) EXCEPT !.status = 1]}

MCFirstAttributes == [ttl |-> 1, alloc |-> 0, number |-> 1, start |-> 9, secs |-> 120]

(* Bound: more than one request by broadcast only while no client has written  *)
(* and none is registered.                                                     *)
Apart == asks <= 1 \/ (attributes = MCFirstAttributes /\ active = Conns
                       /\ \A s \in Sockets : ~registered[s])
=============================================================================
