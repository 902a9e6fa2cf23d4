------------------------------- MODULE Timers -------------------------------
(***************************************************************************)
(* The timers of the connections (cipconnection.h) and the loop that looks *)
(* at them, ManageConnections() (cipconnectionmanager.cc), which           *)
(* NetworkHandlerProcessOnce() (networkhandler.cc) calls once for each     *)
(* tick that has passed.                                                   *)
(*                                                                         *)
(* A timer is the point in time at which it runs out, as a 32 bit word;    *)
(* what is left of it is a signed difference to the current word.  The     *)
(* connections here produce and consume point to point, so that a timeout  *)
(* closes just the connection that timed out.                              *)
(***************************************************************************)
EXTENDS Integers, Sequences, FiniteSets, Functions

CONSTANTS
    Conns,      \* connections that originators ask for
    Pool,       \* how many there is room for
    Triggered,  \* those that the application triggers; the others are cyclic
    Rate,       \* RPI, the expected packet rate, a multiple of the tick
    Multiplier, \* TimeoutMultiplier()
    Inhibit,    \* PIT that forward_open asked for or VerifyForwardOpenParams() set
    Initial,    \* the "pre-consumption" timeout, 10 s
    Tick,       \* kCIPsterTimerTickInMicroSeconds
    MaxLag,     \* bound: time between two calls of ProcessOnce()
    MaxBacklog, \* bound: what an exception may leave to be made up for
    Word,       \* 2^32 microseconds
    Start       \* values of the clock at start-up

ASSUME TimerAssumption ==
    /\ Triggered \subseteq Conns
    /\ Tick \in Nat \ {0} /\ MaxLag \in Nat /\ MaxBacklog \in Nat
    /\ Pool \in Nat /\ Initial \in Nat /\ Word \in Nat \ {0}
    /\ Initial < Word \div 2   \* 10 s in 2^31 microseconds
    /\ Start \subseteq 0 .. Word - 1
    /\ \A c \in Conns : /\ Rate[c] \in Nat \ {0} /\ Rate[c] % Tick = 0
                        /\ Multiplier[c] \in Nat \ {0} /\ Inhibit[c] \in Nat

VARIABLES
    now,      \* g_current_usecs, its lower word
    elapsed,  \* elapsed_time_usecs
    thrown,   \* an exception has left ManageConnections() in this pass
    list,     \* g_active_conns, from its head
    watchdog, \* inactivity_watchdog_timer_usecs
    trigger,  \* transmission_trigger_timer_usecs
    inhibit,  \* production_inhibit_timer_usecs
    pit       \* port_segs.pit_usecs of the connection

timers == <<watchdog, trigger, inhibit, pit>>
vars == <<now, elapsed, thrown, list, timers>>

Words == 0 .. Word - 1

TypeOK ==
    /\ now \in Words
    /\ elapsed \in Nat /\ thrown \in BOOLEAN
    /\ list \in Seq(Conns)
    /\ watchdog \in [Conns -> Words]
    /\ trigger \in [Conns -> Words]
    /\ inhibit \in [Conns -> Words]
    /\ pit \in [Conns -> Nat]

\* Clear() sets the timers to the present; as nothing reads the timers of a
\* connection that is not open, the model forgets them.
Forgotten == 0

Init ==
    /\ now \in Start
    /\ elapsed = 0 /\ thrown = FALSE
    /\ list = <<>>
    /\ watchdog = [c \in Conns |-> Forgotten]
    /\ trigger = [c \in Conns |-> Forgotten]
    /\ inhibit = [c \in Conns |-> Forgotten]
    /\ pit = [c \in Conns |-> 0]

----------------------------------------------------------------------------
(* Timer arithmetic                                                        *)

\* Fault: a word read as uint32_t.
Unsigned(w) == w

\* A word read as int32_t.
Signed(w) == IF w < Word \div 2 THEN w ELSE w - Word

\* Fault: the points in time are compared as they are.
LeftUnwrapped(t) == t - now

\* How much is left of a timer.
Left(t) == Signed((t - now) % Word)

\* A timer that is set to run out in d.
In(d) == (now + d) % Word

\* Fault: the next packet is due one interval after this one was sent.
BumpedFromNow(t, d) == In(d)

\* BumpTransmissionTriggerTimerUSecs()
Bumped(t, d) == (t + d) % Word

\* RxTimeoutUSecs(), a product of 32 bits.
RxTimeout(c) == (Rate[c] * Multiplier[c]) % Word

\* Fault: only the rate is waited for at first.
InitialRx(c) == RxTimeout(c)

\* The timeout that GeneralConfiguration() sets before the first frame.
InitialTimeout(c) == IF RxTimeout(c) > Initial THEN RxTimeout(c) ELSE Initial

\* GeneralConfiguration() ends with SetPIT_USecs( 0 ).
ConfiguredPit(c) == 0

----------------------------------------------------------------------------
(* Opening, closing, receiving and triggering.  A product of 0 leaves the   *)
(* watchdog at the time, any time, at which the connection was cleared.     *)

\* The ticks that were due have been made up for.
Caught == elapsed < Tick

\* Messages are handled when ProcessOnce() is called again.
Called == Caught \/ thrown

Open(c) ==
    /\ Called
    /\ c \notin Range(list) /\ Len(list) < Pool
    /\ list' = <<c>> \o list
    /\ trigger' = [trigger EXCEPT ![c] = In(0)]
    /\ inhibit' = [inhibit EXCEPT ![c] = In(0)]
    /\ pit' = [pit EXCEPT ![c] = ConfiguredPit(c)]
    /\ IF RxTimeout(c) # 0
       THEN watchdog' = [watchdog EXCEPT ![c] = In(InitialTimeout(c))]
       ELSE \E w \in Words : watchdog' = [watchdog EXCEPT ![c] = w]
    /\ UNCHANGED <<now, elapsed, thrown>>

\* CipConn::Clear() at the end of Close().
Cleared(f, c) == [f EXCEPT ![c] = Forgotten]

\* CipConnBox::Remove() of the connection at place k.
Without(k) == SubSeq(list, 1, k - 1) \o SubSeq(list, k + 1, Len(list))

\* forward_close
Close(c) ==
    /\ Called
    /\ \E k \in DOMAIN list : list[k] = c /\ list' = Without(k)
    /\ watchdog' = Cleared(watchdog, c)
    /\ trigger' = Cleared(trigger, c)
    /\ inhibit' = Cleared(inhibit, c)
    /\ UNCHANGED <<now, elapsed, thrown, pit>>

\* RecvConnectedData() accepts a frame.
Receive(c) ==
    /\ Called
    /\ c \in Range(list)
    /\ watchdog' = [watchdog EXCEPT ![c] = In(RxTimeout(c))]
    /\ UNCHANGED <<now, elapsed, thrown, list, trigger, inhibit, pit>>

\* TriggerConnections(): "produce at the next allowed occurrence".
TriggerConnections(c) ==
    /\ Called
    /\ c \in Range(list) /\ c \in Triggered
    /\ trigger' = [trigger EXCEPT ![c] = In(Left(inhibit[c]))]
    /\ UNCHANGED <<now, elapsed, thrown, list, watchdog, inhibit, pit>>

----------------------------------------------------------------------------
(* The event loop                                                          *)

\* NetworkHandlerProcessOnce() finds that d has passed.
Pass(d) ==
    /\ Called
    /\ now' = (now + d) % Word
    /\ elapsed' = elapsed + d
    /\ thrown' = FALSE
    /\ UNCHANGED <<list, timers>>

\* What is left over of a tick is kept.
ElapsedAfter == elapsed - Tick

Expired(c) == Left(watchdog[c]) <= 0

ExpiredAt == {k \in DOMAIN list : Expired(list[k])}

\* timeOut() takes the connection on which the loop stands off the list, and
\* with it the link to the next one: the loop ends there.
GoodEnd == IF ExpiredAt = {} THEN Len(list)
           ELSE (CHOOSE k \in ExpiredAt : \A m \in ExpiredAt : k <= m) - 1

\* The connections that the loop gets to and that do not time out.
Visited == {list[k] : k \in 1 .. GoodEnd}

\* The connection that times out in this pass, if any.
TimedOut == {list[k] : k \in {GoodEnd + 1} \cap DOMAIN list}

\* Those that are due to send.
Sending == {c \in Visited : Left(trigger[c]) <= 0}

\* A delayed reply can not be sent: SendUdpData() throws in
\* ManageEncapsulationMessages(), which ManageConnections() calls before the
\* loop, and the tick is not subtracted.
ReplyThrows ==
    /\ ~Called
    /\ elapsed <= MaxBacklog
    /\ thrown' = TRUE
    /\ UNCHANGED <<now, elapsed, list, timers>>

ManageConnections ==
    /\ ~Called
    /\ elapsed' = ElapsedAfter
    /\ list' = Without(GoodEnd + 1)
    /\ watchdog' = [c \in Conns |-> IF c \in TimedOut THEN Forgotten ELSE watchdog[c]]
    /\ trigger' = [c \in Conns |->
                     CASE c \in TimedOut -> Forgotten
                       [] c \in Sending -> Bumped(trigger[c], Rate[c])
                       [] OTHER -> trigger[c]]
    /\ inhibit' = [c \in Conns |->
                     CASE c \in TimedOut -> Forgotten
                       [] c \in Sending \cap Triggered -> In(pit[c])
                       [] OTHER -> inhibit[c]]
    /\ UNCHANGED <<now, thrown, pit>>

Next ==
    \/ \E c \in Conns : Open(c) \/ Close(c) \/ Receive(c) \/ TriggerConnections(c)
    \/ \E d \in 1 .. MaxLag : Pass(d)
    \/ ReplyThrows
    \/ ManageConnections

Spec == Init /\ [][Next]_vars

=============================================================================
