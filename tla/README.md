# A TLA+ model of CIPster

CIPster is an EtherNet/IP adapter stack in C++: a device that is opened,
configured and read over the network by scanners, its originators. This
directory holds TLA+ modules translated from its sources, the configurations
with which TLC checks them, and proofs that TLAPS checks. `PROJECT.json` maps
each definition to the lines it stands for, and lists the runs, the mutants that
each property must refute, the hazards of the code, and the theorems.

Paths below are relative to `src/source/src/`.

## The system

The stack is one thread. The application calls `NetworkHandlerProcessOnce()`
(enet_encap/networkhandler.cc) again and again; each call polls the sockets,
handles what has arrived, and runs the timers for the time that has passed.
Nothing preempts a handler. What is hard is the *order* in which independent
originators, their retries, their disappearance and the timers drive the
handlers, and the state that one handler leaves for another: lists, pools,
handles and reference counts that are shared by connections of different
originators.

| part | state | operations | interacts with |
|---|---|---|---|
| I/O connection pools (cip/appcontype.cc) | three pools of reserved `CipConn`s, each entry with its output, input and configuration point | `Configure*ConnectionPoint`, `GetIoConnectionForConnectionData`, `Alloc`, scans for producers and heirs, `CloseAllConnections*` | called by `OpenIO`, `Close`, `timeOut`; scans the active list |
| connection manager (cip/cipconnectionmanager.cc) | `g_active_conns`, an intrusive list | `forward_open`, `forward_close`, `ManageConnections`, `RecvConnectedData`, `CheckForTimedOut...`, `CloseClass3Connections` | every connection, the session table, assemblies |
| one connection (cip/cipconnection.cc, .h) | state, ids, sequence counts, three timers, socket pointers, session handle | `GeneralConfiguration`, `Activate`, `Close`, `timeOut`, `SendConnectedData`, `HandleReceivedIoConnectionData` | pools, list, UDP sockets, application callbacks |
| sessions (enet_encap/encap.cc) | `sessions[]`, `DelayedMsg::messages[]` | `RegisterTcpConnection`, `RegisterSession`, `UnregisterSession`, `CloseBy*`, `AgeInactivity`, `HandleReceivedExplicit{Tcp,Udp}Data` | event loop, class 3 connections |
| event loop and UDP sockets (enet_encap/networkhandler.cc) | `master_set`, `highest_socket_handle`, `UdpSocketMgr`'s sockets and counts, elapsed time | accept, receive, `GrabSocket`, `ReleaseSocket`, `CloseSocket` | all of the above |
| message router and explicit connections (cip/cipmessagerouter.cc) | six explicit `CipConn`s | `NotifyMR`, `OpenConnection` | registry, connection manager |
| class registry (cip/cipclass.cc, cipinstance, cipattribute) | sorted classes, instances, services, attributes | inserts, removes, lookups, `Get/SetAttribute*` | message router, `check_path` |
| assemblies (cip/cipassembly.cc) | byte arrays of the application | `RecvData`, attributes 3 and 4 | consumed data, configuration data |
| paths and formats (cip/cipepath.cc, enet_encap/cpf.cc, cip/cipcommon.cc, byte_bufs) | none | parsing and serialising | everything that reads or writes messages |
| device objects (cipidentity, ciptcpipinterface, cipethernetlink) | attribute values | getters, setters, reset | registry; the inactivity timeout is read by the sessions |

What makes each part correct, and what is hard to test about it:

* **Pools, list, connections.** Several connections may produce one input to one
  multicast address, and only one of them, the *control master*, holds the
  socket. Opens take it over, closes and timeouts hand it on, in any order;
  listen only connections must go when, and only when, the production ends; a
  forward_open that fails half way must give everything back; a repeated
  forward_open must not open twice. A test walks one of the orders.
* **Ids and sequence numbers.** Consumers follow a production through every
  change of producer by its connection id and drop packets whose number does not
  grow.
* **Sessions.** Handles are places of a small table and descriptors are numbers
  of a small range; both are used again, while connections keep a handle for
  longer than the session lives.
* **UDP sockets and event loop.** Sockets are counted by their users and by the
  multicast groups on them; a descriptor that is closed is used again at once,
  while `read_set` and `master_set` still speak of the old one; what select()
  reports must be looked at, and be what the loop takes it for.
* **Timers.** 32 bit differences of a wrapping clock, a loop over a list that
  its own body shortens, late calls that make up for several ticks.
* **Consumed data.** The network loses, repeats and reorders frames; two wrapping
  sequence filters stand before one assembly that attribute services and
  configuration data can write too.
* **Explicit messages.** TCP cuts messages anywhere; each must be answered, or
  its connection closed, and only a registered session may write.
* **Request checks and paths.** What the originator shortens the target has to
  complete; which path plays which role depends on connection types and data.
* **Registry.** Sorted vectors, binary searches and masks that every insertion
  in any order, override and removal has to keep true.

The full list of hazards, each at its line and with the properties that cover
it, is in `PROJECT.json`.

## The modules

Abstract specifications:

* **`ProducerOwnership`**: connections share, or listen to, the production of an
  input; one sharer owns it; a taker takes it over when it joins; when an owner
  leaves, another sharer owns it in the same step, or the production ends and
  nobody listens any more. It knows no lists, sockets or pools. `IoConnections`
  implements it.
* **`ObjectModel`**: instances, services and attributes of a class as sets in
  which an id names one member, and the answers that follow from the sets.
  `Registry` implements it.

The code:

* **`IoConnections`** (appcontype.cc, cipconnection.cc, cipconnectionmanager.cc):
  `state`, `active` and `behind` are `CipConn::state`, membership of
  `g_active_conns` and its order (`behind[c]` is what follows `c` on the list),
  `ptype` is the T->O connection type, `consuming` and `producing` say which
  socket pointers are set, `triad` and `opener` identify the opening request,
  `refs` is the sum of the UDP sockets' reference counts. Each action is a whole
  handler: `ForwardOpen` and `ForwardOpenFails` go through the check for an
  existing connection, the search of the three pools, `GeneralConfiguration()`,
  `Activate()` with every point at which it may give up; `ForwardClose`,
  `TimeOut` and `CloseAllConnections` are the ways to end. One `Close()` may
  close other connections (`Shut`) or hand its socket to an heir (`HandOver`);
  these appear in closed form, as the set that ends and the one that inherits.
* **`CloseLoops`** walks the same closings step by step over the linked list
  (`head`, `next`; `Remove` is that of `CipConnBox`): an iterator that is advanced
  before `Close()`, which may close others by the same kind of loop.
  `LoopsSkipNobody` compares where the walk ends, links included, with the closed
  form, so that `IoConnections` may be read, and proved about, without loops. A
  loop is a recursive function over its turns, of which it has no more than there
  are members.
* **`IoProduction`** extends `IoConnections` with what is sent: the ids
  `GeneralConfiguration()` takes from the counter, the one that
  `openProducingMulticastConnection()` puts in their place, the id of the reply,
  and the encapsulation sequence number. What the target does not choose (the
  consuming id of an end that is not point to point) stays the originator's.
  `cidCall`, `pidCall` and `wire` are history: the call of the counter that gave
  an id, and the last number sent for an input since a producer began with a count
  of its own.
* **`Sessions`** (encap.cc, TCP side): the table (`socket`, `peer`, `registered`,
  `age`, the static `index`), the open sockets and `master_set`, and the class 3
  connections with the handle and address they were opened with. `stalled` is
  the socket on whose half message `EnsuredTcpRecv()` waits, `failing` says that
  passes are left by an exception; with either nothing at the end of a pass
  happens. `waiting` is history, the places that have been free ever since a
  handle was given out. `Accept`,
  `AcceptUnnamed` and `AcceptRejected` are the outcomes of
  `RegisterTcpConnection()`; `TimeOut` includes the search for other connections
  of the session, `AgeInactivity` the class 3 connections it closes.
* **`UdpSockets`** (networkhandler.cc): `UdpSocketMgr`'s sockets and groups with
  their counts, system calls that fail at each point, hand-overs of a use,
  `master_set`, `highest_socket_handle`, descriptors that the system uses again.
* **`EventLoop`** composes `UdpSockets` with one pass of
  `NetworkHandlerProcessOnce()`: select(), listeners, UDP sockets, TCP
  connections in the code's order, where handling a message may open and close
  any socket; start-up, its failures, and the stop. `unnamed` are the sockets that
  have a session and are not watched because `getpeername()` failed: the
  inactivity check or the shutdown closes them (`CloseUnnamed`); one that found no
  place is never closed (`AcceptRejected`).
* **`Timers`**: the three timers of a connection as points in wrapping time,
  the accounting of ticks, `ManageConnections()`, the loop that ends at a
  timeout, and the pass that an exception of `SendUdpData()` leaves with its tick
  not subtracted. A timeout is a product of 32 bits. **`TrueTime`** runs it
  beside time that does not wrap and notes what was opened, heard and sent when;
  the properties compare the two.
* **`ConsumedData`**: datagram to assembly through both sequence filters with
  wrapping numbers, run/idle header, configuration data of a forward_open,
  attribute 3, and a network that loses, delays, repeats and reorders.
* **`ExplicitMessages`** (encap.cc, cpf.cc, cipmessagerouter.cc,
  ciptcpipinterface.cc): the message that is being read and how much of it has
  come, the header and its checks, sessions, the common packet format, the order
  of refusals of `NotifyMR()`, three settable attributes with their checks, and
  the two delayed ListIdentity replies. Of a reply the size matters, for it may
  not fit the buffer of the message router (`MessageBuffer`) or the frame
  (`FrameRoom`): the first is an error status, the second an exception, and what
  becomes of them differs with the command. A `sendto()` of a delayed reply may
  fail at any of the slots that are due.
* **`Registry`** (cipclass.cc, cipattribute.cc, cipcommon.cc): vectors kept by
  insertion, override and removal; binary search, `FindUniqueFreeId()`, getable
  masks, the aliasing check, `GetAttributeSingle` and `GetAttributeAll`.
* **`ConnectionPaths`** (cipepath.cc): the words a path is written as, compressed
  or whole, and the reader with what it inherits. **`ForwardOpen`** uses it: what
  an originator composes is serialized, read back, checked
  in the order of `forward_open()`, resolved to instances, compared in size, and
  answered; an originator that is told a corrected size tries again.

The `MC*` modules give the constants values and name symmetries. Definitions
commented "Fault" are plausible bugs; no specification uses them, they are what
the mutants of `PROJECT.json` put in place of the definition that follows them.
The `*Proofs` modules hold the theorems.

## The runs

| run | instance | what it shows |
|---|---|---|
| `pools` | 3 exclusive owners, 2 input only, 3 listen only over two inputs, 4 triads, 2 originators | safety and action properties of `IoConnections`; the close loops; the refinement |
| `production` | 2 owners of one output, 2 input only, 1 listener, two inputs, 3 triads, a counter of 3 ids that is called 6 times, 2 packets | one id for each production, ids that repeat only after a full turn of the counter, numbers that go on after a hand-over |
| `sessions` | 2 places, 3 descriptors, 1 client, 2 class 3 connections, inactivity of 2 periods; half messages and failing replies | places, descriptors, how sessions end, handles that take turns, and that silent places come back while passes end |
| `network` | 2 users, one bind address and group, 4 descriptors, 2 listeners, backlog 2; accepted sockets that are not watched | counts, the sets of select(), what is read as TCP, service to all who wait |
| `time` | a cyclic, a triggered and a slow connection, of which two at a time, clock of 40 units that starts at 30, tick 2, calls up to 3 units late, passes left by an exception, 11 units long | timeouts neither early nor later than cut passes explain; productions on schedule |
| `consumed` | 3 connections, an output and a configuration assembly of 2 words, numbers modulo 6 that begin at 0, 2 or 5, 2 frames in flight | the newest datum wins, the owner writes alone, configurations stay |
| `registry` | instances with ids 1, 3, 3; attributes around id 32, two clashing | the vectors answer as the sets do |
| `explicit` | 2 TCP clients, 1 host that broadcasts, 1 connection, buffer for 3 units of data, replies that fit, that fit `mmr_temp` only, and that fit nothing | only sessions write, everybody is answered whose reply fits, delayed replies in time |
| `requests` | path shapes, groups, sizes, types and intervals varied in turn; 3 attempts | what was written is read, granted as asked, and a corrected size is accepted |
| `told_pid`, `inhibit`, `plain_items` | as `production`, `time`, `consumed` | the findings below |

Why the bounds are enough. A hand-over involves the leaving master, its heir and
at most one connection that should not have been chosen; two inputs show one
disturb the other, and two owners of one output a conflict. Ids and packets are
bounded in `production` (so deadlock is not checked), and three opens with two
packets reach every take-over followed by every hand-over; `IdSpace` is 3, so that
the counter comes round twice within its 6 calls, and connections that are open
then do have equal ids. In `sessions` three sockets for two
places give a rejection and a descriptor that is used again. In `network` four
descriptors are the two listeners, one UDP socket and one TCP connection, so that
each closed one is taken by something else; `PerRef` stands for the 64 datagrams
for each reference. In `time` the clock wraps in every behaviour longer than 10
units, and 11 units are several timeouts and productions long; the first timeout
is 9, the shortest one 8, and that of `l`, 32, is more than the half of 40 that
reads as the future. What an exception leaves to be made up for is bounded
(`MaxBacklog`), the number of exceptions is not. In `consumed` a
window is half of 6, the widest `Span` the code's comparison allows is 2, two
incarnations are enough for a late frame of the first to meet the second, and of
the counts with which class 1 data begin 0 and 5 are not ahead of the target's 0.
Attribute masks have 32 bits and `registry` has attributes on either side. In
`explicit` the constraint `Apart` drops only states in which more than one
broadcast was asked after a client has already registered or written: the two
halves share no variable but the last reply.

**Fairness.** A pass of `NetworkHandlerProcessOnce()` calls `AgeInactivity()` at
its end, when half a second has gone by. It need not come to its end: the one
thread waits in `recv()` for the rest of a message as long as that takes
(encap.cc:386), and an exception skips the rest of the pass (networkhandler.cc:905,
encap.cc:1162). So the check is enabled again and again at most, and `FairSpec` of
`Sessions` has strong fairness of it (`Check`), no fairness of anything that makes
a half message complete or a reply leave, and `SilentPlacesFreed` has the premise
that passes come to their end again and again (`[]<>Running`). One client that
vanishes in the middle of a message takes the premise away, and with it every
client's place. `FairLoopSpec` of `EventLoop` has weak fairness of the loop's own
next step: the application owes the stack the repeated call of that function, and
messages come whole and are handled without an exception. Originators,
disconnections and frames are never assumed to happen.

## What the code does otherwise than it says

Three runs refute a comment or a documented promise; `PROJECT.json` quotes them.

* `told_pid`: the second originator of a shared input is told an id nobody
  produces (cip/cipconnection.cc:1793).
* `inhibit`: the production inhibit time of a request is erased before it is
  used (cip/cipconnection.cc:1284).
* `plain_items`: frames with a plain connected address item are dropped after the
  first (cip/cipconnectionmanager.cc:141).

Met while translating, modelled as they are, and no property claims otherwise:

* Connections. A take-over by an exclusive owner restarts the sequence number of
  a running production (cipconnection.cc:1802), and so may the timeout of an input
  only master (:1633), which does not copy the count to its heir;
  `CloseKeepsSequence` begins anew there. The 16 bit id counter wraps into
  ids in use (:1217): `IdsRepeatAfterTurn` says when at the earliest. A class 1
  datum numbered 0, or 0x8000 and more, is taken for a duplicate while nothing has
  come yet (:1548); `FreshDataKept` speaks of what comes after one that is ahead
  of 0. Transport class 2, and class 3 with a data
  segment, reach `CorrectSizes()` with instances that need not be assemblies; the
  model takes their size as 0. An RPI of 0 passes the minimum; a path that cannot
  be parsed is refused with extended status 0; a corrected size above 511 can only
  be asked for by large_forward_open. A connection that a close loop ends is
  reported to the application twice.
* Timers. The timeout is a product of 32 bits and is compared as `int32_t`
  (cipconnection.h:958): one of 2^31 microseconds or more times out at once, one
  of 2^32 or more after what the product wraps to; when that is 0 the timer stays
  at the time at which the connection was cleared.
  An RPI of 4.2 s with a multiplier of 512 is accepted and is such a one. The
  properties of `TrueTime` except them by `TimeoutFits`.
* Sessions. A TCP connection that finds the table full stays open, and nobody
  watches it (networkhandler.cc:301); it also moves on the place at which the next
  search begins (encap.cc:98). One whose address cannot be read keeps its place,
  not watched, until the inactivity check (encap.cc:120). Class 3 connections
  outlive the session of a client that disconnects (encap.cc:249), and their
  timeout may close the connection of the client that has the handle now
  (cipconnection.cc:1664). The inactivity product overflows (encap.cc:293).
* Explicit messages. The receive blocks until a message is complete
  (encap.cc:386), and with it everything else. A reply that the message router
  cannot encode is answered with a status under SendRRData, and ends the TCP
  connection under SendUnitData (cpf.cc:96, :174). One that fits `mmr_temp` and
  not the frame ends it under SendUnitData (cpf.cc:214), and is an exception that
  nobody catches under SendRRData; with the sizes of the sample configuration,
  1600 and 1800 bytes, that does not happen. A delayed reply whose `sendto()` fails
  is one too: it keeps its slot, the slots behind it are not looked at, and the
  tick is not subtracted, so that the next pass tries again (encap.cc:1162,
  networkhandler.cc:853); the sample applications, which do not catch, end. An
  oversized message is read away and its connection closed all the
  same; SendUnitData with a bad item or an unknown connection id closes the
  connection too; its reply to a request that cannot be parsed carries the
  consuming id; ListServices and ListInterfaces by UDP with options are answered
  with 24 bytes of what was in the buffer; a request that is too short gets no reply. A
  multicast configuration that is cut short leaves the attribute half set.
* Network. The datagrams of a pass are 64 for each reference, so an open socket
  that nobody uses is reported for ever and not read (networkhandler.cc:483).
* Assemblies. A configuration assembly can be written by attribute 3 while a
  connection relies on it, which is why `ConfigKept` excepts edited ones.
* Registry. The constructor asks for the getable-all mask of instances before any
  attribute can have set it, so that it never gives instances the service
  `GetAttributeAll` (cipclass.cc:156); a removed instance keeps its owning class.
* Paths. `ReadAsWritten` names five exceptions: ids of 32 bits, member ids among
  them, of which the reader skips a byte; port 15, which is the mark of a long
  port; a path that acquires a level it did not have; one that loses a level the
  writer relied on; and one that is read as more of the path before it. A wrong
  key segment steps back one byte.

## What is proved

Eight modules hold proofs. Every theorem holds for all values of the constants
that the assumptions it cites allow: `PoolAssumption`, `IdAssumption` and
`PointerAssumption` of `IoConnections`, `IoProduction` and `CloseLoops`
(`PointerAssumption`: the NULL that ends the list is no connection),
`SizeAssumption` and `NoneAssumption` of `Sessions` and `ExplicitMessages` with
`MessageAssumption` and `AttributeAssumption` of the latter, `SocketAssumption`
and `ListenerAssumption`, `AssemblyAssumption` and `SequenceAssumption`,
`TimerAssumption` and `TimeAssumption`, `IdAssumption`, `ConstructorAssumption`
and `RequestAssumption` of `Registry`, and `RequestAssumption`,
`AssemblyAssumption`, `TickAssumption` and `RunIdleAssumption` of `ForwardOpen`.
TLC evaluates each of them in a run. What a theorem needs beyond these is a
hypothesis in its statement, and is said below.

**`IoConnectionsProofs`**: the type invariant and every invariant and action
property of `pools`. `OneControlMaster` is not inductive alone: whether a
hand-over finds its heir depends on who is listed and on who may hold a socket,
and whether the counts balance depends on the heir having held none. `IInv` is
therefore the conjunction of the type invariant, `ListedIffEstablished`,
`SocketsHeld`, `OneControlMaster`, `ListenersHaveMaster` and `SocketsBalanced`.
All ways of closing are reduced to two: a set of connections ends with everything
that hears its productions (`EndsWhole`), or it ends and one remaining sharer
inherits (`EndsWithHeir`). One lemma shows that either preserves `IInv`, and one
lemma for each closing action that it is one of the two. `ScansFindOne` needs the
order of the list, and that every finite set of listed connections has a member
that all others are behind. `UniqueTriads` and `ExclusiveOutputs` have short
inductions of their own.

The same module proves the refinement, `Spec => ImplementsOwnership`: opens are
`Join`, `Listen` or a stutter, both forms of ending are `Leave`. That the abstract
specification keeps one owner for each shared input, so that the promise says what
it should, is proved of the promise alone and holds of the connections through the
refinement (`EveryInputOwned`).

The next part is about `IoProduction`. A step of it is a step of `IoConnections`
or leaves that alone (`ProdRefines`), so the theorems carry over. `OnePidPerInput`
then rests on `OneControlMaster`: who shares or hears a production has a master,
and a new member takes the master's id. `IdsRepeatAfterTurn` needs to know how far
the counter has gone on since it gave an id: `IdInv` adds that each id of an open
connection that was given within the last turn stands as many calls behind the
counter as have been made since (`Given`), so that the next call meets only ids a
full turn old. `CloseKeepsSequence` needs no assumption about the counter, as the
count belongs to the input and not to the id; it holds because a production
changes hands only where the heir gets the count or the input begins anew.

The last part is `LoopsReachAll`, that the loops of `CloseLoops` end where the
handlers of `IoConnections` say. `Remove()` keeps the rest of the list linked in
its order (`RemoveKeepsLinks`), so that a stack in the middle of a handler is known
by its members, its producers and the count (`Linked`), and each step of a handler
is an equation between such stacks. A loop steps on before it closes whom it
stands on, and closes nobody before that one but those it has passed, so that its
walk is the one along the list with which it began (`Walk`), and what it has closed
at any turn is what lies behind it (`ListenerTurnOf`, `SharerTurnOf`). The hard
case is an exclusive owner's timeout, whose loop calls a `Close()` that may scan
the list, hand over the socket or start a loop of its own under the first one's
feet. The last does not happen: the owner itself is still listed and may inherit,
so that a closing sharer always finds an heir (`SharerCloses`). The owner's own
`Close()` then finds the heir that the closed form names (`OwnerTimeOutReaches`).
In the shutdown anyone may inherit from anyone; there it is enough that a `Close()`
keeps the count the number of sockets held (`CloseCounts`), since with nobody left
it is zero. That who is off the list has no link (`Unlinked`) is an invariant of
its own.

**`SessionsProofs`**: the type invariant, `PlacesOwnSockets`, `WatchedArePlaced`,
`SessionsEndWhole`, `HandlesRotate`. A closed socket leaves `master_set` through
its place, so the two invariants support each other and only their conjunction is
inductive. `HandlesRotate` says that a place is given out only when every other one
has been in use since it was given out last. It is not a statement about `index`,
which clients that are turned away move as well; its invariant (`Behind`) is that
the search meets the places that have been free since the handle of `s` was given
out before it comes to `s` again. A search that finds nothing can move `index`
only while no place is free, when nothing is to be met.

**`EventLoopProofs`**: of `UdpSockets`, `CountsBalanced` (each count is the number
of uses and groups), `HeldAreWatched` and `HighestCovers`, with the type invariant
as the strengthening, for any users, addresses, groups and descriptors. Every
step of the loop but its start is a step of `UdpSockets` or leaves it alone, so
these hold of the composition too. `OnlyTcpRead` rests on `PassInv`: what is
watched is a connection, a listener or a UDP socket; nothing that is still in
`read_set` is closed, for the only descriptor that a message closes is the one
being served; and listeners and UDP sockets have left `read_set` when their turn
has passed. A descriptor that is opened meanwhile is not in `read_set`, because
all that is there is open.

**`ConsumedDataProofs`**: who writes an assembly does not depend on the sequence
filters. An output has one connection (`OneByOutput`), it takes only what bears
its id and comes from its peer, and nobody else writes the assembly meanwhile:
`OwnerWritesAlone`. `ConfigKept` follows since configuration data are written
only where nobody relies on the assembly.

That the newest datum stays (`FreshDataKept`) does depend on the filters. The
counts on the wire wrap, so the invariant `FInv` ties each to the number it
stands for: all frames of a connection that are under way lie within `Span` of
its last sending, and so does the latest that has come (`InWindow`); the 32 bit
count stands at that one (`Counted`) and the 16 bit count at the datum it brought
(`Handled`), the words of which are in the assembly when they fit (`Kept`); and
what an earlier connection sent bears another id (`IdsFresh`). A window narrower
than half of what a count counts makes the comparison by subtraction agree with
the numbers. The constructor starts the class 1 count at 0, and no flag tells that
nothing has come: until a datum is ahead of 0 the count stays there and all are
dropped, from then on it follows them (`Handled`). `NewestDatumKept` has one
hypothesis, that data have a first word.

**`TrueTimeProofs`**: a timer differs from the clock by what is really left of
it, up to whole turns of the 32 bit word, wherever the clock starts (`Wound`), and
a production is never more than its interval ahead (`NotAhead`). Either is true
only of timeouts and intervals that `int32_t` can hold, of which alone the
properties speak (`TimeoutFits`, `Cyclic`). From this alone a timeout is never
early (`NeverEarly`), however late the loop comes. How late a connection can be
is bounded by the time not made up for and a tick for each pass that a timeout
of another connection cut short before it got there (`InTime`): `ClosedInTurn`
and `ProductionOnSchedule`. These two have a hypothesis, `FewCuts`: the cut
passes, and what passes that an exception left have not made up for, take no
more than half a turn of the word, beyond which a difference changes its sign.
It holds throughout the run `time`.

**`ExplicitMessagesProofs`**: `OnlySessionsWrite`, `EveryRequestAnswered` and
`DelayedInTime`. While a message is read its socket stays open, and a message is
given up unread only when it is too long (`ReadingInv`). What a whole one leads to
is either a reply, a fault of the message that `Malformed` names, or a reply too
long for one of the buffers, whose sizes are arbitrary. Occupied slots
and waiting requests correspond one to one, each slot with less left than its
request can still wait (`SlotsInv`), so that a slot is free exactly when fewer than
two requests wait. A `sendto()` that fails leaves slot and request as they are.

**`RegistryProofs`**: the invariant (`RegistryInv`) is that the vectors are sorted
with one member of an id, that the storage of attributes is apart, and that the
bits for `GetAttributeAll` cover what is marked for it; an override leaves bits
behind, so they can not be equal. On it rest
`NoAliasing`; `Spec => ImplementsObjectModel`, for the slot that an insertion
finds is the one place of the id; `IdsAgree`, by invariants of the two halving
searches and of the search for a gap; and `AnswersMatch`: each of the three
lookups of a request finds the one member that the sets name, and after `i` passes
of `GetAttributeAll` either the reply has what there is to read among the first
`i` attributes, in the order of the ids, and the room is what is left of it, or
that was already more than fits (`ReadSoFar`). The functions that the searches,
the loop, the constructor and the sum over a set are defined by recursion on are
shown to exist first: the numbers up to which such a function exists contain 0
and with each its successor, so they are all (`SetInduction`). The theorems of the
library that would give this take the property as an operator, which the provers
can not instantiate. `RequestAssumption` says that `GetAttributeAll` is registered
under its own number and `GetAttributeSingle` under another; `CipAttribute::Get()`
goes by the number of the service (cipattribute.cc).

**`ForwardOpenProofs`**: the three properties of `ForwardOpen`, for any set of
requests that follow the grammar of `Serialize()` (`RequestAssumption`: numbers of
any size, links and data of up to 255 bytes or words, symbols of up to 41
characters) and any target whose assemblies fit into the size word of a
connection. The invariant (`FInv`) says what an answer tells of its request: the
target has read `ReadOf(request)`, a size that was corrected is the one wanted
from then on, since nothing that it depends on changes when the other one does,
and a success has passed `ResolveInstances()` and `OpenConnection()`. A check that
fails says so with a reason of its own (`RejectedTells`); a wrong size is a reason
only when it is wrong, so `CorrectionAccepted` follows.

`ReadAsWritten` is a statement about one path, its writing and its reading
(`PathRead`), and is proved segment by segment from the front. A reader that is
given what a writer wrote, followed by anything that does not begin like more of
it, takes exactly that and leaves the rest: so for an id (`SegmentRead`), the
levels of a logical path (`LevelsRead`, where the loop over segments is one over
levels), a symbol with its padding and members (`SymbolRead`), key, inhibit times
and port (`KeyRead`, `UsecsRead`, `MsecsRead`, `PortRead`) and data (`DataRead`).
What follows a path does not begin like more of it because its first segment is of
a level that is not below (`AfterLogical`); here the exceptions are needed. A path
that was shortened gets back what it left out, no more and no less, from the one
before it (`RestoredFrom`). The loop over the group ends after at most four turns
that take something (`LoopEnds`, by the set of its states).

For `AcceptedAsAsked` the path that was read is therefore the one that was
written; each of the eight combinations of roles is seated by `AssignAppPaths()`
on the paths that `Intended` gives it, for one, two or three paths
(`RolesAsIntended`); whoever plays a role has passed `check_path()` and, of an I/O
connection, is an assembly (`RolePasses`), the first path too, which decides who
opens the connection (`Managed`); and a size that is not wrong fits (`SizeFits`).

**Only model-checked**: liveness (`SilentPlacesFreed`, `WaitingAreServed`), which
is out of the prover's reach, as is ENABLED. The type invariant of `Timers` is
part of that of `TrueTime`.

## What is not modelled, and why

* Within the modelled parts: requests name a pool entry directly in
  `IoConnections`, while the checks on their content are `ForwardOpen`, which in
  turn takes what the pools say as a choice; I/O connections with a Null end and
  the configuration of pools at start-up; application callbacks; the second, 16
  bit count of produced data, which moves with the first; connections that
  produce point to point in `IoProduction`. I/O connections also carry a session
  handle, which only the class 3 connections of `Sessions` do here: composing both
  state spaces is out of TLC's reach at sizes at which anything happens.
* In `ExplicitMessages` one settable object stands for the router's targets;
  symbolic requests and services of other classes are left out, as are the socket
  address items of a forward_open.
* The identity object (constant attributes and a reset that calls the
  application and always answers DeviceStateConflict), start-up and shutdown
  (straight-line registration; what they start and stop are actions of
  `EventLoop`, `Sessions`, `IoConnections`), the encoding of elementary types (a
  switch without state), vendor table, traces and printing, and the sample
  application.
* The product of the inactivity timeout overflows outside the range of
  `Sessions`, which counts whole periods.
