------------------------------ MODULE TrueTime ------------------------------
(* The timers of Timers against time as it really passes: when each         *)
(* connection was opened, last heard and last sent, in numbers that do not  *)
(* wrap.  The words of the program must lead to the same decisions.         *)
EXTENDS Timers

CONSTANTS
    MaxTime     \* bound: length of a behaviour

ASSUME TimeAssumption == MaxTime \in Nat

VARIABLES
    time,       \* history: time since start-up
    opened,     \* history: when each connection was opened
    heard,      \* history: its last frame, or its opening
    first,      \* history: it has not received a frame yet
    sent,       \* history: packets a cyclic one has produced since it was opened
    lastSent,   \* history: the last of a triggered one, -1 before the first
    early,      \* history: an inhibited packet was sent too early
    cut         \* history: passes that ended before they got to it

history == <<time, opened, heard, first, sent, lastSent, early, cut>>
trueVars == <<vars, history>>

TrueTypeOK ==
    /\ TypeOK
    /\ time \in 0 .. MaxTime
    /\ opened \in [Conns -> 0 .. MaxTime] /\ heard \in [Conns -> 0 .. MaxTime]
    /\ first \in [Conns -> BOOLEAN] /\ early \in BOOLEAN
    /\ sent \in [Conns -> Nat] /\ lastSent \in [Conns -> -1 .. MaxTime]
    /\ cut \in [Conns -> Nat]

TrueInit ==
    /\ Init
    /\ time = 0
    /\ opened = [c \in Conns |-> 0] /\ heard = [c \in Conns |-> 0]
    /\ first = [c \in Conns |-> TRUE] /\ early = FALSE
    /\ sent = [c \in Conns |-> 0] /\ lastSent = [c \in Conns |-> -1]
    /\ cut = [c \in Conns |-> 0]

\* What is recorded of c starts at point t.
Restart(c, t) ==
    /\ opened' = [opened EXCEPT ![c] = t]
    /\ heard' = [heard EXCEPT ![c] = t]
    /\ first' = [first EXCEPT ![c] = TRUE]
    /\ sent' = [sent EXCEPT ![c] = 0]
    /\ lastSent' = [lastSent EXCEPT ![c] = -1]
    /\ cut' = [cut EXCEPT ![c] = 0]
    /\ UNCHANGED <<time, early>>

TrueOpen(c) == Open(c) /\ Restart(c, time)

\* What is over is forgotten.
TrueClose(c) == Close(c) /\ Restart(c, 0)

TrueReceive(c) ==
    /\ Receive(c)
    /\ heard' = [heard EXCEPT ![c] = time]
    /\ first' = [first EXCEPT ![c] = FALSE]
    /\ UNCHANGED <<time, opened, sent, lastSent, early, cut>>

TrueTrigger(c) == TriggerConnections(c) /\ UNCHANGED history

TruePass(d) ==
    /\ Pass(d)
    /\ time' = time + d
    /\ time' <= MaxTime
    /\ UNCHANGED <<opened, heard, first, sent, lastSent, early, cut>>

\* The packets of Sending leave now.
TooEarly(c) ==
    c \in Triggered /\ lastSent[c] >= 0 /\ time - lastSent[c] < Inhibit[c]

Skipped == Range(list) \ (Visited \cup TimedOut)

TrueThrow == ReplyThrows /\ UNCHANGED history

TrueManage ==
    /\ ManageConnections
    /\ sent' = [c \in Conns |-> CASE c \in TimedOut -> 0
                                  [] c \in Sending \ Triggered -> sent[c] + 1
                                  [] OTHER -> sent[c]]
    /\ lastSent' = [c \in Conns |-> CASE c \in TimedOut -> -1
                                      [] c \in Sending \cap Triggered -> time
                                      [] OTHER -> lastSent[c]]
    /\ early' = (early \/ \E c \in Sending : TooEarly(c))
    /\ cut' = [c \in Conns |-> CASE c \in TimedOut -> 0
                                 [] c \in Skipped -> cut[c] + 1
                                 [] OTHER -> cut[c]]
    /\ opened' = [c \in Conns |-> IF c \in TimedOut THEN 0 ELSE opened[c]]
    /\ heard' = [c \in Conns |-> IF c \in TimedOut THEN 0 ELSE heard[c]]
    /\ first' = [c \in Conns |-> first[c] \/ c \in TimedOut]
    /\ UNCHANGED time

TrueNext ==
    \/ \E c \in Conns : \/ TrueOpen(c) \/ TrueReceive(c)
                        \/ TrueClose(c) \/ TrueTrigger(c)
    \/ \E d \in 1 .. MaxLag : TruePass(d)
    \/ TrueThrow
    \/ TrueManage

TrueSpec == TrueInit /\ [][TrueNext]_trueVars

----------------------------------------------------------------------------
(* Properties                                                              *)

\* The silence after which a connection may be closed: "greater of 10 seconds
\* or expected_packet_rate x connection_timeout_multiplier" before its first
\* frame, the product afterwards.
Timeout(c) ==
    LET product == Rate[c] * Multiplier[c]
    IN  IF first[c] /\ product < Initial THEN Initial ELSE product

\* int32_t can hold d: what is left of a longer timer reads as negative.
Fits(d) == d < Word \div 2

\* The timeouts and the intervals that the timers can hold.  forward_open
\* accepts others: an RPI of 4.2 s and a multiplier of 512 are enough.
TimeoutFits(c) == Fits(Rate[c] * Multiplier[c])
Cyclic(c) == c \notin Triggered /\ Fits(Rate[c])

\* Whatever the clock reads when it wraps and however late a pass is, no
\* connection times out before its time (RxTimeoutUSecs, ManageConnections),
\* but for those whose timeout is 2^31 microseconds or more: these are closed
\* by the next pass, or after what the product wraps to.
TimeOutStep ==
    ManageConnections =>
        \A c \in TimedOut : TimeoutFits(c) => time - heard[c] >= Timeout(c)
NeverEarly == [][TimeOutStep]_trueVars

\* When the passes that were due have been made up for, an expired connection
\* whose timeout int32_t can hold is still there only because of passes that
\* other timeouts have cut short before they got to it, a tick for each.
ClosedInTurn ==
    Caught => \A c \in Range(list) :
                  TimeoutFits(c) =>
                      time - heard[c] - Timeout(c) < Tick * (1 + cut[c])

\* A cyclic production whose interval int32_t can hold keeps to the schedule that
\* starts with its opening: late calls, and calls that an exception left, are
\* made up for, and only the cut passes delay it; it is never ahead
\* (BumpTransmissionTriggerTimerUSecs).
Due(c) == opened[c] + sent[c] * Rate[c]
ProductionOnSchedule ==
    Caught => \A c \in Range(list) :
                  Cyclic(c) =>
                      /\ time - Due(c) < Tick * (1 + cut[c])
                      /\ Due(c) - time <= Rate[c]

\* cipster_api.h:258: triggered productions happen "Depending on the values for
\* the RPI and the production inhibit timer": two packets of a triggered
\* connection are at least the inhibit time apart.
InhibitKept == ~early

=============================================================================
