--------------------------- MODULE TrueTimeProofs ---------------------------
(* Proofs about TrueTime, for any connections, rates, multipliers, tick,     *)
(* width of the word, start of the clock and delay of the event loop.        *)
(*                                                                           *)
(* A timer of a connection on the list differs from the clock by what is     *)
(* really left of it, up to whole turns of the word (Wound); a production is *)
(* never more than its interval ahead (NotAhead).  This needs no bound on    *)
(* lateness, and a timeout can not come early.  How late a connection is,    *)
(* is bounded by the time that the loop has not made up for yet and a tick   *)
(* for each pass that was cut before it got there (InTime): a pass that      *)
(* visits the connection finds it in time, and a pass that does not counts   *)
(* a cut.  Reading the difference of two words as signed is right as long as *)
(* this bound is less than half a turn of the word (FewCuts).  All this is    *)
(* said of the timeouts and intervals that are themselves less than that.    *)
EXTENDS TrueTime, SequenceTheorems, WellFoundedInduction, TLAPS

\* Half a turn of the word is more than the cut passes take and what passes
\* that an exception left have not made up for.
FewCuts == \A c \in Conns : Tick * cut[c] + elapsed <= Word \div 2

Once == \A i, j \in 1 .. Len(list) : list[i] = list[j] => i = j

TInv == TrueTypeOK /\ Once

\* c's watchdog and the timer of its next packet stand where they should.
Wound(c) ==
    /\ heard[c] <= time
    /\ TimeoutFits(c) => watchdog[c] = In(heard[c] + Timeout(c) - time)
    /\ Cyclic(c) => trigger[c] = In(Due(c) - time)

NotAhead(c) == Cyclic(c) => Due(c) - time <= Rate[c]

InTime(c) ==
    /\ TimeoutFits(c) => time - heard[c] - Timeout(c) < elapsed + Tick * cut[c]
    /\ Cyclic(c) => time - Due(c) <= elapsed + Tick * cut[c]

WInv == \A c \in Range(list) : Wound(c) /\ NotAhead(c)
LInv == \A c \in Range(list) : InTime(c)

----------------------------------------------------------------------------
(* Words.                                                                    *)

LEMMA ModDef ==
    ASSUME NEW m \in Nat \ {0}, NEW x \in Int
    PROVE  x % m \in 0 .. m - 1 /\ x = m * (x \div m) + (x % m) /\ x \div m \in Int
OBVIOUS

LEMMA ModSmall ==
    ASSUME NEW m \in Nat \ {0}, NEW r \in 0 .. m - 1
    PROVE  r % m = r /\ (r - m) % m = r
OBVIOUS

LEMMA NoTurn ==
    ASSUME NEW m \in Nat \ {0}, NEW k \in Int, m * k > -m, m * k < m
    PROVE  k = 0
OBVIOUS

LEMMA ModUnique ==
    ASSUME NEW m \in Nat \ {0}, NEW x \in Int, NEW q \in Int, NEW r \in 0 .. m - 1,
           x = m * q + r
    PROVE  x % m = r
<1> DEFINE s == x % m
           p == x \div m
<1>1. s \in 0 .. m - 1 /\ p \in Int /\ x = m * p + s
  BY ModDef
<1> HIDE DEF s, p
<1>2. m * (p - q) = r - s
  <2>1. m * (p - q) = m * p - m * q
    BY <1>1
  <2> QED
    BY <1>1, <2>1
<1>3. p - q = 0
  BY <1>1, <1>2, NoTurn
<1>4. r = s
  BY <1>1, <1>2, <1>3
<1> QED
  BY <1>4 DEF s

\* Whole turns do not count.
LEMMA Turned ==
    ASSUME NEW m \in Nat \ {0}, NEW x \in Int, NEW d \in Int
    PROVE  ((x % m) + d) % m = (x + d) % m
<1> DEFINE s == x % m
           p == x \div m
           e == (s + d) % m
           q == (s + d) \div m
<1>1. s \in 0 .. m - 1 /\ p \in Int /\ x = m * p + s
  BY ModDef
<1>2. e \in 0 .. m - 1 /\ q \in Int /\ s + d = m * q + e
  BY <1>1, ModDef
<1> HIDE DEF s, p, e, q
<1>3. x + d = m * (p + q) + e
  <2>1. m * (p + q) = m * p + m * q
    BY <1>1, <1>2
  <2> QED
    BY <1>1, <1>2, <2>1
<1>4. (x + d) % m = e
  <2>1. x + d \in Int /\ p + q \in Int
    BY <1>1, <1>2
  <2> QED
    BY <1>2, <1>3, <2>1, ModUnique
<1> QED
  BY <1>4 DEF e, s

LEMMA WordNat == Word \in Nat \ {0} /\ Word \div 2 \in Nat /\ Word \div 2 + Word \div 2 <= Word
BY TimerAssumption DEF TimerAssumption

\* What is left of a timer is read right when it is less than half a turn.
LEMMA LeftIsTrue ==
    ASSUME now \in Words, NEW d \in Int, d < Word \div 2
    PROVE  /\ In(d) \in Words
           /\ d > 0 => Left(In(d)) > 0
           /\ -d <= Word \div 2 => Left(In(d)) = d
<1>1. /\ Word \in Nat \ {0} /\ Word \div 2 \in Nat /\ Word \div 2 + Word \div 2 <= Word
      /\ now \in 0 .. Word - 1
  BY WordNat DEF Words
<1> DEFINE w == (now + d) % Word
<1>2. w \in 0 .. Word - 1
  BY <1>1, ModDef
<1>3. (w - now) % Word = d % Word
  <2>1. (w + (-now)) % Word = ((now + d) + (-now)) % Word
    <3>1. now + d \in Int /\ -now \in Int
      BY <1>1
    <3> QED
      BY <1>1, <3>1, Turned
  <2>2. w + (-now) = w - now /\ (now + d) + (-now) = d
    BY <1>1, <1>2
  <2> QED
    BY <2>1, <2>2
<1> HIDE DEF w
<1>4. CASE d >= 0
  <2>1. d % Word = d
    BY <1>1, <1>4, ModSmall
  <2> QED
    BY <1>1, <1>2, <1>3, <1>4, <2>1 DEF Left, Signed, In, Words, w
<1>5. CASE d < 0
  <2>1. CASE -d <= Word \div 2
    <3>1. d + Word \in 0 .. Word - 1 /\ (d + Word) - Word = d /\ d + Word >= Word \div 2
      BY <1>1, <1>5, <2>1
    <3>2. d % Word = d + Word
      BY <1>1, <3>1, ModSmall
    <3> QED
      BY <1>1, <1>2, <1>3, <1>5, <3>1, <3>2 DEF Left, Signed, In, Words, w
  <2>2. CASE ~(-d <= Word \div 2)
    BY <1>2, <1>5, <2>2 DEF In, Words, w
  <2> QED
    BY <2>1, <2>2
<1> QED
  BY <1>4, <1>5

LEMMA LeftNumber ==
    ASSUME now \in Words, NEW d \in Int
    PROVE  Left(In(d)) \in Int
<1> DEFINE w == In(d)
<1>1. Word \in Nat \ {0} /\ now \in Int /\ now + d \in Int
  BY WordNat DEF Words
<1>2. w \in Int
  BY <1>1, ModDef DEF In
<1> HIDE DEF w
<1>3. w - now \in Int
  BY <1>1, <1>2
<1>4. (w - now) % Word \in Int
  BY <1>1, <1>3, ModDef
<1> QED
  BY <1>1, <1>4 DEF Left, Signed, w

LEMMA InWords ==
    ASSUME NEW x \in Int, now \in Words
    PROVE  In(x) \in Words
BY WordNat, ModDef DEF In, Words

----------------------------------------------------------------------------
(* The list of connections.                                                  *)

\* A set of places has a first one.
LEMMA FirstPlace ==
    ASSUME NEW n \in Nat, NEW S \in SUBSET (1 .. n), S # {}
    PROVE  \E i \in S : \A j \in S : i <= j
<1>1. S \subseteq Nat
  OBVIOUS
<1>2. PICK x \in S : \A y \in S : ~(<<y, x>> \in OpToRel(<, Nat))
  BY <1>1, NatLessThanWellFounded, WFMin
<1>3. ASSUME NEW y \in S
      PROVE  x <= y
  <2>1. x \in Nat /\ y \in Nat
    BY <1>1
  <2>2. <<y, x>> \in Nat \X Nat /\ <<y, x>>[1] = y /\ <<y, x>>[2] = x
    BY <2>1
  <2>3. ~(y < x)
    BY <1>2, <2>2 DEF OpToRel
  <2> QED
    BY <2>1, <2>3
<1> QED
  BY <1>3

\* The loop ends at the first connection that has expired.
LEMMA EndIsGood ==
    ASSUME list \in Seq(Conns)
    PROVE  /\ GoodEnd \in 0 .. Len(list)
           /\ \A k \in 1 .. GoodEnd : ~Expired(list[k])
           /\ GoodEnd < Len(list) => Expired(list[GoodEnd + 1])
<1>1. Len(list) \in Nat /\ DOMAIN list = 1 .. Len(list)
  OBVIOUS
<1>2. CASE ExpiredAt = {}
  BY <1>1, <1>2 DEF GoodEnd, ExpiredAt
<1>3. CASE ExpiredAt # {}
  <2> DEFINE k == CHOOSE k \in ExpiredAt : \A m \in ExpiredAt : k <= m
  <2>1. ExpiredAt \in SUBSET (1 .. Len(list))
    BY <1>1 DEF ExpiredAt
  <2>2. \E i \in ExpiredAt : \A j \in ExpiredAt : i <= j
    BY <1>1, <1>3, <2>1, FirstPlace
  <2>3. k \in ExpiredAt /\ \A m \in ExpiredAt : k <= m
    BY <2>2
  <2>4. GoodEnd = k - 1
    BY <1>3 DEF GoodEnd
  <2> HIDE DEF k
  <2> QED
    BY <1>1, <2>1, <2>3, <2>4 DEF ExpiredAt
<1> QED
  BY <1>2, <1>3

\* Removal of a connection leaves the others.
LEMMA WithoutKeeps ==
    ASSUME list \in Seq(Conns), Once, NEW k \in 1 .. Len(list) + 1, list' = Without(k)
    PROVE  /\ list' \in Seq(Conns) /\ Once'
           /\ Range(list') = Range(list) \ {list[i] : i \in {k} \cap DOMAIN list}
<1> DEFINE n == Len(list)
           l == SubSeq(list, 1, k - 1)
           r == SubSeq(list, k + 1, n)
<1>1. n \in Nat /\ DOMAIN list = 1 .. n /\ \A i \in 1 .. n : list[i] \in Conns
  OBVIOUS
<1>2. /\ l \in Seq(Conns) /\ Len(l) = k - 1
      /\ \A i \in 1 .. k - 1 : l[i] = list[i]
  BY <1>1
<1>3. CASE k = n + 1
  <2>1. r = <<>>
    BY <1>1, <1>3, SubSeqEmpty
  <2>2. l = list
    BY <1>1, <1>3, SubSeqFull
  <2>3. list' = list
    BY <2>1, <2>2, ConcatEmptySeq DEF Without
  <2> QED
    BY <1>1, <1>3, <2>3 DEF Once
<1>4. CASE k # n + 1
  <2>1. /\ r \in Seq(Conns) /\ Len(r) = n - k
        /\ \A i \in 1 .. n - k : r[i] = list[k + i]
    <3>1. \A i \in k + 1 .. n : list[i] \in Conns
      BY <1>1
    <3>2. /\ r \in Seq(Conns) /\ Len(r) = IF k + 1 <= n THEN n - (k + 1) + 1 ELSE 0
          /\ \A i \in 1 .. n - (k + 1) + 1 : r[i] = list[(k + 1) + i - 1]
      BY <1>1, <3>1, SubSeqProperties
    <3>3. n - (k + 1) + 1 = n - k /\ \A i \in Int : (k + 1) + i - 1 = k + i
      BY <1>1
    <3> HIDE DEF r
    <3>4. Len(r) = n - k
      <4>1. k \in 1 .. n
        BY <1>1, <1>4
      <4>2. Len(r) = IF k + 1 <= n THEN n - (k + 1) + 1 ELSE 0
        BY <3>2
      <4> HIDE DEF n
      <4> QED
        BY <1>1, <4>1, <4>2
    <3>5. \A i \in 1 .. n - k : i \in 1 .. n - (k + 1) + 1 /\ i \in Int
      BY <3>3
    <3> QED
      BY <3>2, <3>3, <3>4, <3>5
  <2>2. list' = l \o r
    BY DEF Without
  <2> HIDE DEF l, r
  <2>3. /\ list' \in Seq(Conns) /\ Len(list') = n - 1
        /\ \A i \in 1 .. n - 1 : list'[i] = list[IF i < k THEN i ELSE i + 1]
    <3>1. list' \in Seq(Conns) /\ Len(list') = n - 1
      <4>1. list' \in Seq(Conns) /\ Len(list') = Len(l) + Len(r)
        BY <1>2, <2>1, <2>2, ConcatProperties
      <4> QED
        BY <1>1, <1>2, <2>1, <4>1
    <3>2. ASSUME NEW i \in 1 .. n - 1
          PROVE  list'[i] = list[IF i < k THEN i ELSE i + 1]
      <4>1. CASE i < k
        BY <1>1, <1>2, <1>4, <2>1, <2>2, <4>1
      <4>2. CASE ~(i < k)
        <5>1. list'[i] = r[i - (k - 1)]
          BY <1>1, <1>2, <1>4, <2>1, <2>2, <4>2
        <5>2. i - (k - 1) \in 1 .. n - k /\ k + (i - (k - 1)) = i + 1
          BY <1>1, <1>4, <4>2
        <5> QED
          BY <2>1, <4>2, <5>1, <5>2
      <4> QED
        BY <4>1, <4>2
    <3> QED
      BY <3>1, <3>2
  <2> HIDE DEF n
  <2>4. Once'
    BY <1>1, <2>3 DEF Once, n
  <2>5. DOMAIN list' = 1 .. n - 1
    BY <2>3
  <2>6. ASSUME NEW c
        PROVE  (\E j \in 1 .. n - 1 : list'[j] = c)
                 <=> (\E i \in 1 .. n : list[i] = c /\ i # k)
    <3>1. ASSUME NEW i \in 1 .. n, list[i] = c, i # k
          PROVE  \E j \in 1 .. n - 1 : list'[j] = c
      <4>1. CASE i < k
        BY <1>1, <1>4, <2>3, <3>1, <4>1 DEF n
      <4>2. CASE i > k
        <5>1. i - 1 \in 1 .. n - 1 /\ ~(i - 1 < k) /\ (i - 1) + 1 = i
          BY <1>1, <3>1, <4>2
        <5> QED
          BY <2>3, <3>1, <5>1
      <4> QED
        BY <3>1, <4>1, <4>2
    <3>2. ASSUME NEW j \in 1 .. n - 1, list'[j] = c
          PROVE  \E i \in 1 .. n : list[i] = c /\ i # k
      BY <1>1, <2>3, <3>2
    <3> QED
      BY <3>1, <3>2
  <2>7. k \in 1 .. n
    BY <1>1, <1>4 DEF n
  <2>8. {list[i] : i \in {k} \cap DOMAIN list} = {list[k]}
    BY <1>1, <2>7
  <2>9. ASSUME NEW c
        PROVE  c \in Range(list') <=> c \in Range(list) /\ c # list[k]
    <3>1. c \in Range(list') <=> \E j \in 1 .. n - 1 : list'[j] = c
      BY <2>5 DEF Range
    <3>2. c \in Range(list) <=> \E i \in 1 .. n : list[i] = c
      BY <1>1 DEF Range
    <3>3. \A i \in 1 .. n : list[i] = list[k] <=> i = k
      BY <2>7 DEF Once, n
    <3> QED
      BY <2>6, <3>1, <3>2, <3>3
  <2> QED
    BY <2>3, <2>4, <2>8, <2>9
<1> QED
  BY <1>3, <1>4

----------------------------------------------------------------------------
(* Types, and that no connection is on the list twice.                       *)

LEMMA CloseOnly ==
    ASSUME TInv, NEW c \in Conns, Close(c)
    PROVE  list' \in Seq(Conns) /\ Once' /\ Range(list') = Range(list) \ {c}
<1>1. PICK k \in DOMAIN list : list[k] = c /\ list' = Without(k)
  BY DEF Close
<1>2. list \in Seq(Conns) /\ k \in 1 .. Len(list) /\ k \in 1 .. Len(list) + 1
  <2>1. list \in Seq(Conns)
    BY DEF TInv, TrueTypeOK, TypeOK
  <2> QED
    BY <2>1
<1>3. {list[i] : i \in {k} \cap DOMAIN list} = {c}
  BY <1>1
<1> QED
  BY <1>1, <1>2, <1>3, WithoutKeeps DEF TInv

LEMMA FirstOfList ==
    ASSUME list \in Seq(Conns), Once, NEW c \in Conns, c \notin Range(list), list' = <<c>> \o list
    PROVE  list' \in Seq(Conns) /\ Once' /\ Range(list') = Range(list) \cup {c}
<1> DEFINE n == Len(list)
<1>1. /\ n \in Nat /\ DOMAIN list = 1 .. n
      /\ \A i \in 1 .. n : list[i] \in Conns /\ list[i] # c
  BY DEF Range
<1>2. /\ list' \in Seq(Conns) /\ Len(list') = n + 1 /\ DOMAIN list' = 1 .. n + 1
      /\ list'[1] = c /\ \A i \in 1 .. n : list'[i + 1] = list[i]
  OBVIOUS
<1> HIDE DEF n
<1>3. \A i \in 2 .. n + 1 : i - 1 \in 1 .. n /\ list'[i] = list[i - 1]
  <2> SUFFICES ASSUME NEW i \in 2 .. n + 1
               PROVE  i - 1 \in 1 .. n /\ list'[i] = list[i - 1]
    OBVIOUS
  <2>1. i - 1 \in 1 .. n /\ (i - 1) + 1 = i
    BY <1>1
  <2> QED
    BY <1>2, <2>1
<1>4. \A i \in 1 .. n + 1 : i = 1 \/ i \in 2 .. n + 1
  BY <1>1
<1>5. Once'
  <2> SUFFICES ASSUME NEW i \in 1 .. n + 1, NEW j \in 1 .. n + 1, list'[i] = list'[j]
               PROVE  i = j
    BY <1>2 DEF Once
  <2>1. CASE i = 1 \/ j = 1
    BY <1>1, <1>2, <1>3, <1>4, <2>1
  <2>2. CASE i \in 2 .. n + 1 /\ j \in 2 .. n + 1
    <3>1. i - 1 = j - 1
      BY <1>3, <2>2 DEF Once, n
    <3> QED
      BY <2>2, <3>1
  <2> QED
    BY <1>4, <2>1, <2>2
<1>6. ASSUME NEW d
      PROVE  d \in Range(list') <=> d \in Range(list) \cup {c}
  <2>1. d \in Range(list') <=> \E i \in 1 .. n + 1 : d = list'[i]
    BY <1>2 DEF Range
  <2>2. d \in Range(list) <=> \E i \in 1 .. n : d = list[i]
    BY <1>1 DEF Range
  <2>3. (\E i \in 1 .. n + 1 : d = list'[i]) => d = c \/ \E i \in 1 .. n : d = list[i]
    BY <1>2, <1>3, <1>4
  <2>4. d = c => \E i \in 1 .. n + 1 : d = list'[i]
    BY <1>1, <1>2
  <2>5. (\E i \in 1 .. n : d = list[i]) => \E i \in 1 .. n + 1 : d = list'[i]
    <3> SUFFICES ASSUME NEW i \in 1 .. n, d = list[i]
                 PROVE  \E j \in 1 .. n + 1 : d = list'[j]
      OBVIOUS
    <3>1. i + 1 \in 1 .. n + 1 /\ d = list'[i + 1]
      BY <1>1, <1>2
    <3> QED
      BY <3>1
  <2> QED
    BY <2>1, <2>2, <2>3, <2>4, <2>5
<1> QED
  BY <1>2, <1>5, <1>6

LEMMA RangeOfList ==
    ASSUME list \in Seq(Conns)
    PROVE  Range(list) \subseteq Conns /\ TimedOut \subseteq Range(list)
                                       /\ Visited \subseteq Range(list)
<1>1. GoodEnd \in 0 .. Len(list) /\ DOMAIN list = 1 .. Len(list) /\ Len(list) \in Nat
  BY EndIsGood
<1>2. \A k \in 1 .. GoodEnd : k \in DOMAIN list
  BY <1>1
<1> QED
  BY <1>1, <1>2 DEF Range, TimedOut, Visited

LEMMA TimedOutGo ==
    ASSUME TInv, ManageConnections
    PROVE  list' \in Seq(Conns) /\ Once' /\ Range(list') = Range(list) \ TimedOut
<1>1. list \in Seq(Conns) /\ list' = Without(GoodEnd + 1)
  BY DEF ManageConnections, TInv, TrueTypeOK, TypeOK
<1>2. GoodEnd + 1 \in 1 .. Len(list) + 1
  BY <1>1, EndIsGood
<1> QED
  BY <1>1, <1>2, WithoutKeeps DEF TimedOut, TInv

HistoryOK ==
    /\ time \in 0 .. MaxTime
    /\ opened \in [Conns -> 0 .. MaxTime] /\ heard \in [Conns -> 0 .. MaxTime]
    /\ first \in [Conns -> BOOLEAN] /\ early \in BOOLEAN
    /\ sent \in [Conns -> Nat] /\ lastSent \in [Conns -> -1 .. MaxTime]
    /\ cut \in [Conns -> Nat]

LEMMA RestartTypes ==
    ASSUME HistoryOK, NEW c \in Conns, NEW t \in 0 .. MaxTime, Restart(c, t)
    PROVE  HistoryOK'
<1>1. time' \in 0 .. MaxTime /\ early' \in BOOLEAN
  BY DEF HistoryOK, Restart
<1>2. opened' \in [Conns -> 0 .. MaxTime] /\ heard' \in [Conns -> 0 .. MaxTime]
  BY DEF HistoryOK, Restart
<1>3. first' \in [Conns -> BOOLEAN]
  BY DEF HistoryOK, Restart
<1>4. sent' \in [Conns -> Nat] /\ cut' \in [Conns -> Nat]
  BY DEF HistoryOK, Restart
<1>5. lastSent' \in [Conns -> -1 .. MaxTime]
  <2>1. -1 \in -1 .. MaxTime
    BY TimeAssumption DEF TimeAssumption
  <2> QED
    BY <2>1 DEF HistoryOK, Restart
<1> QED
  BY <1>1, <1>2, <1>3, <1>4, <1>5 DEF HistoryOK

LEMMA TrueTypes ==
    ASSUME TInv, [TrueNext]_trueVars
    PROVE  TInv'
<1> USE DEF TInv, TrueTypeOK, TypeOK
<1>1. /\ Word \in Nat \ {0} /\ Tick \in Nat \ {0} /\ MaxLag \in Nat /\ MaxTime \in Nat
      /\ 0 \in Words /\ \A x \in Int : In(x) \in Words
      /\ Words \subseteq Int /\ \A x \in Int : x % Word \in Words
  <2>1. now \in Words
    OBVIOUS
  <2> USE DEF Words
  <2> HIDE DEF TInv, TrueTypeOK, TypeOK
  <2>2. Word \in Nat \ {0} /\ Tick \in Nat \ {0} /\ MaxLag \in Nat /\ MaxTime \in Nat
    BY TimerAssumption, TimeAssumption DEF TimerAssumption, TimeAssumption
  <2>3. Words \subseteq Int /\ 0 \in Words
    BY <2>2
  <2>4. \A x \in Int : In(x) \in Words
    BY <2>1, InWords
  <2>5. \A x \in Int : x % Word \in Words
    BY <2>2, ModDef
  <2> QED
    BY <2>2, <2>3, <2>4, <2>5
<1>2. \A c \in Conns : /\ Rate[c] \in Nat /\ RxTimeout(c) \in Int /\ InitialTimeout(c) \in Int
                       /\ Rate[c] * Multiplier[c] \in Nat
  <2>1. \A c \in Conns : Rate[c] \in Nat /\ Multiplier[c] \in Nat /\ Rate[c] * Multiplier[c] \in Nat
    BY TimerAssumption DEF TimerAssumption
  <2> HIDE DEF TInv, TrueTypeOK, TypeOK
  <2>2. \A c \in Conns : RxTimeout(c) \in Int
    BY <1>1, <2>1 DEF RxTimeout
  <2>3. Initial \in Int
    BY TimerAssumption DEF TimerAssumption
  <2> QED
    BY <2>1, <2>2, <2>3 DEF InitialTimeout
<1>3. ASSUME NEW c \in Conns, TrueOpen(c)
      PROVE  TInv'
  <2>1. /\ list' = <<c>> \o list /\ c \notin Range(list)
        /\ trigger' = [trigger EXCEPT ![c] = In(0)] /\ inhibit' = [inhibit EXCEPT ![c] = In(0)]
        /\ pit' = [pit EXCEPT ![c] = 0]
        /\ \E w \in Words : watchdog' = [watchdog EXCEPT ![c] = w]
        /\ UNCHANGED <<now, elapsed, thrown>>
    BY <1>1, <1>2, <1>3 DEF TrueOpen, Open, ConfiguredPit
  <2>2. list' \in Seq(Conns) /\ Once'
    BY <2>1, FirstOfList
  <2>3. TypeOK'
    BY <1>1, <2>1, <2>2
  <2>4. HistoryOK'
    <3>1. time \in 0 .. MaxTime /\ Restart(c, time)
      BY <1>3 DEF TrueOpen
    <3> QED
      BY <3>1, RestartTypes DEF HistoryOK
  <2> QED
    BY <2>2, <2>3, <2>4 DEF HistoryOK
<1>4. ASSUME NEW c \in Conns, TrueClose(c)
      PROVE  TInv'
  <2>1. list' \in Seq(Conns) /\ Once'
    BY <1>4, CloseOnly DEF TrueClose
  <2>2. TypeOK'
    BY <1>1, <1>4, <2>1 DEF TrueClose, Close, Cleared, Forgotten
  <2>3. HistoryOK'
    <3>1. 0 \in 0 .. MaxTime /\ Restart(c, 0)
      BY <1>1, <1>4 DEF TrueClose
    <3> QED
      BY <3>1, RestartTypes DEF HistoryOK
  <2> QED
    BY <2>1, <2>2, <2>3 DEF HistoryOK
<1>5. ASSUME NEW c \in Conns, TrueReceive(c)
      PROVE  TInv'
  <2>1. TypeOK'
    BY <1>1, <1>2, <1>5 DEF TrueReceive, Receive
  <2> QED
    BY <1>1, <1>5, <2>1 DEF TrueReceive, Receive, Once
<1>6. ASSUME NEW c \in Conns, TrueTrigger(c)
      PROVE  TInv'
  <2>1. inhibit[c] - now \in Int /\ (inhibit[c] - now) % Word \in Int
    <3>1. inhibit[c] \in Words /\ now \in Words
      OBVIOUS
    <3> HIDE DEF TInv, TrueTypeOK, TypeOK
    <3>2. inhibit[c] - now \in Int
      <4>1. inhibit[c] \in Int /\ now \in Int
        BY <1>1, <3>1
      <4> QED
        BY <4>1
    <3> QED
      BY <1>1, <3>2
  <2>2. Left(inhibit[c]) \in Int
    <3> HIDE DEF TInv, TrueTypeOK, TypeOK
    <3> QED
      BY <1>1, <2>1 DEF Left, Signed
  <2>3. TypeOK'
    BY <1>1, <1>6, <2>2 DEF TrueTrigger, TriggerConnections
  <2> QED
    BY <1>1, <1>6, <2>3 DEF TrueTrigger, TriggerConnections, Once, history
<1>7. ASSUME NEW d \in 1 .. MaxLag, TruePass(d)
      PROVE  TInv'
  <2>1. now' \in Words
    <3>1. now' = In(d) /\ d \in Int
      BY <1>7 DEF TruePass, Pass, In
    <3> QED
      BY <1>1, <3>1
  <2>2. elapsed' \in Nat /\ thrown' \in BOOLEAN
    <3>1. elapsed' = elapsed + d /\ elapsed \in Nat /\ d \in Nat
      BY <1>7 DEF TruePass, Pass
    <3>2. thrown' \in BOOLEAN
      BY <1>7, Zenon DEF TruePass, Pass
    <3>3. elapsed' \in Nat
      BY ONLY <3>1
    <3> QED
      BY <3>2, <3>3
  <2> QED
    <3>1. /\ UNCHANGED <<list, watchdog, trigger, inhibit, pit>>
          /\ time' = time + d /\ time' <= MaxTime /\ d \in Nat
          /\ UNCHANGED <<opened, heard, first, sent, lastSent, early, cut>>
      BY <1>7 DEF TruePass, Pass, timers
    <3>2. TypeOK'
      BY <2>1, <2>2, <3>1
    <3>3. time' \in 0 .. MaxTime
      BY <1>1, <3>1
    <3> QED
      BY <3>1, <3>2, <3>3 DEF Once
<1>8. ASSUME TrueManage
      PROVE  TInv'
  <2>1. list' \in Seq(Conns) /\ Once'
    BY <1>8, TimedOutGo DEF TrueManage
  <2>2. now' \in Words /\ elapsed' \in Nat /\ thrown' \in BOOLEAN /\ pit' \in [Conns -> Nat]
    <3>1. elapsed' = elapsed - Tick /\ ~(elapsed < Tick) /\ UNCHANGED <<now, thrown, pit>>
      BY <1>8 DEF TrueManage, ManageConnections, ElapsedAfter, Called, Caught
    <3>2. now \in Words /\ elapsed \in Nat /\ thrown \in BOOLEAN /\ pit \in [Conns -> Nat]
      OBVIOUS
    <3> HIDE DEF TInv, TrueTypeOK, TypeOK
    <3>3. elapsed' \in Nat
      BY <1>1, <3>1, <3>2
    <3> QED
      BY <3>1, <3>2, <3>3
  <2>3. watchdog' \in [Conns -> Words]
    BY <1>1, <1>8 DEF TrueManage, ManageConnections, Forgotten
  <2>4. trigger' \in [Conns -> Words]
    <3>1. \A c \in Conns : Bumped(trigger[c], Rate[c]) \in Words
      <4>1. \A c \in Conns : trigger[c] \in Int
        BY <1>1
      <4> HIDE DEF TInv, TrueTypeOK, TypeOK
      <4> QED
        BY <1>1, <1>2, <4>1 DEF Bumped
    <3>2. \A c \in Conns : trigger'[c] \in {Forgotten, Bumped(trigger[c], Rate[c]), trigger[c]}
      BY <1>8 DEF TrueManage, ManageConnections
    <3>3. trigger' = [c \in Conns |-> trigger'[c]]
      BY <1>8 DEF TrueManage, ManageConnections
    <3> QED
      BY <1>1, <3>1, <3>2, <3>3 DEF Forgotten
  <2>5. inhibit' \in [Conns -> Words]
    <3>1. \A c \in Conns : inhibit'[c] \in {Forgotten, In(pit[c]), inhibit[c]}
      BY <1>8 DEF TrueManage, ManageConnections
    <3>2. inhibit' = [c \in Conns |-> inhibit'[c]]
      BY <1>8 DEF TrueManage, ManageConnections
    <3>3. \A c \in Conns : inhibit[c] \in Words /\ pit[c] \in Nat
      OBVIOUS
    <3>4. \A c \in Conns : In(pit[c]) \in Words
      BY <1>1, <3>3
    <3>5. \A c \in Conns : inhibit'[c] \in Words
      BY <1>1, <3>1, <3>3, <3>4 DEF Forgotten
    <3> HIDE DEF TInv, TrueTypeOK, TypeOK
    <3> QED
      BY <3>2, <3>5
  <2>6. /\ time' \in 0 .. MaxTime /\ opened' \in [Conns -> 0 .. MaxTime]
        /\ heard' \in [Conns -> 0 .. MaxTime] /\ first' \in [Conns -> BOOLEAN]
        /\ early' \in BOOLEAN
    <3>1. /\ time' = time
          /\ opened' = [c \in Conns |-> IF c \in TimedOut THEN 0 ELSE opened[c]]
          /\ heard' = [c \in Conns |-> IF c \in TimedOut THEN 0 ELSE heard[c]]
      BY <1>8 DEF TrueManage
    <3>2. /\ first' = [c \in Conns |-> first[c] \/ c \in TimedOut]
          /\ early' = (early \/ \E c \in Sending : TooEarly(c))
      BY <1>8 DEF TrueManage
    <3>3. first' \in [Conns -> BOOLEAN] /\ early' \in BOOLEAN
      BY <3>2
    <3>4. time' \in 0 .. MaxTime /\ opened' \in [Conns -> 0 .. MaxTime]
      BY <1>1, <3>1
    <3>5. heard' \in [Conns -> 0 .. MaxTime]
      BY <1>1, <3>1
    <3> QED
      BY <3>3, <3>4, <3>5
  <2>7. sent' \in [Conns -> Nat] /\ cut' \in [Conns -> Nat]
    <3>1. \A c \in Conns : sent'[c] \in {0, sent[c] + 1, sent[c]} /\ cut'[c] \in {0, cut[c] + 1, cut[c]}
      BY <1>8 DEF TrueManage
    <3>2. sent' = [c \in Conns |-> sent'[c]] /\ cut' = [c \in Conns |-> cut'[c]]
      BY <1>8 DEF TrueManage
    <3>3. \A c \in Conns : sent[c] \in Nat /\ cut[c] \in Nat
      OBVIOUS
    <3> HIDE DEF TInv, TrueTypeOK, TypeOK
    <3>4. \A c \in Conns : sent'[c] \in Nat /\ cut'[c] \in Nat
      BY <3>1, <3>3
    <3> QED
      BY <3>2, <3>4
  <2>8. lastSent' \in [Conns -> -1 .. MaxTime]
    <3>1. \A c \in Conns : lastSent'[c] \in {-1, time, lastSent[c]}
      BY <1>8 DEF TrueManage
    <3>2. lastSent' = [c \in Conns |-> lastSent'[c]]
      BY <1>8 DEF TrueManage
    <3>3. -1 \in -1 .. MaxTime /\ time \in -1 .. MaxTime
             /\ \A c \in Conns : lastSent[c] \in -1 .. MaxTime
      BY <1>1
    <3> HIDE DEF TInv, TrueTypeOK, TypeOK
    <3> QED
      BY <3>1, <3>2, <3>3
  <2> QED
    BY <2>1, <2>2, <2>3, <2>4, <2>5, <2>6, <2>7, <2>8
<1>9. CASE UNCHANGED trueVars
  BY <1>9 DEF trueVars, vars, timers, history, Once
<1>10. CASE TrueThrow
  BY <1>10 DEF TrueThrow, ReplyThrows, timers, history, Once
<1> QED
  BY <1>3, <1>4, <1>5, <1>6, <1>7, <1>8, <1>9, <1>10 DEF TrueNext

LEMMA TrueTypeInvariance == TrueSpec => []TInv
<1>1. TrueInit => TInv
  <2> SUFFICES ASSUME TrueInit
               PROVE  TInv
    OBVIOUS
  <2>1. TypeOK
    <3>1. /\ Word \in Nat \ {0} /\ Start \subseteq Words
      BY TimerAssumption DEF TimerAssumption, Words
    <3>2. 0 \in Words
      BY <3>1 DEF Words
    <3>3. 0 \in Nat
      OBVIOUS
    <3>4. pit = [c \in Conns |-> 0] => pit \in [Conns -> Nat]
      BY <3>3
    <3>5. thrown \in BOOLEAN
      BY Zenon DEF TrueInit, Init
    <3> QED
      BY <3>1, <3>2, <3>3, <3>4, <3>5 DEF TrueInit, Init, TypeOK, Forgotten
  <2>2. HistoryOK
    <3>1. 0 \in 0 .. MaxTime /\ -1 \in -1 .. MaxTime
      BY TimeAssumption DEF TimeAssumption
    <3> QED
      BY <3>1 DEF TrueInit, HistoryOK
  <2>3. Once
    BY DEF TrueInit, Init, Once
  <2> QED
    BY <2>1, <2>2, <2>3 DEF TInv, TrueTypeOK, HistoryOK
<1> QED
  BY <1>1, TrueTypes, PTL DEF TrueSpec

(* Type correctness: whatever is added to or taken from a timer, it stays a  *)
(* word, and what is left of the time not made up for is not negative.       *)
THEOREM TrueTypeCorrect == TrueSpec => []TrueTypeOK
BY TrueTypeInvariance, PTL DEF TInv

----------------------------------------------------------------------------
(* Where the timers stand.                                                   *)

LEMMA RateIsTicks ==
    ASSUME NEW r \in Nat \ {0}, NEW t \in Nat \ {0}, r % t = 0
    PROVE  t <= r
<1>1. CASE r < t
  <2>1. r \in 0 .. t - 1
    BY <1>1
  <2>2. r % t = r
    BY <2>1, ModSmall
  <2> QED
    BY <2>2
<1> QED
  BY <1>1

LEMMA Product ==
    ASSUME NEW r \in Nat \ {0}, NEW k \in Nat \ {0}
    PROVE  r * k \in Nat \ {0} /\ r <= r * k
OBVIOUS

\* The constants, and the timers that the words can hold.
LEMMA ShortNumbers ==
    ASSUME TInv, NEW c \in Conns
    PROVE  /\ Rate[c] \in Nat /\ Tick <= Rate[c]
           /\ Rate[c] * Multiplier[c] \in Nat \ {0}
           /\ Timeout(c) \in Nat \ {0} /\ Initial \in Nat
           /\ TimeoutFits(c) => /\ RxTimeout(c) = Rate[c] * Multiplier[c]
                                /\ Timeout(c) < Word \div 2
           /\ Cyclic(c) => Rate[c] < Word \div 2
<1> DEFINE p == Rate[c] * Multiplier[c]
<1>1. /\ Word \in Nat \ {0} /\ Word \div 2 \in Nat /\ Word \div 2 + Word \div 2 <= Word
  BY WordNat
<1>2. /\ Rate[c] \in Nat \ {0} /\ Multiplier[c] \in Nat \ {0} /\ Initial \in Nat
      /\ Tick \in Nat \ {0} /\ Rate[c] % Tick = 0 /\ Initial < Word \div 2
  BY TimerAssumption DEF TimerAssumption
<1>3. p \in Nat \ {0}
  BY <1>2, Product
<1>4. TimeoutFits(c) <=> p < Word \div 2
  BY DEF TimeoutFits, Fits
<1>5. Tick <= Rate[c]
  BY <1>2, RateIsTicks
<1>6. Cyclic(c) => Rate[c] < Word \div 2
  BY DEF Cyclic, Fits
<1>7. Timeout(c) = IF first[c] /\ p < Initial THEN Initial ELSE p
  BY DEF Timeout, p
<1>8. ASSUME TimeoutFits(c)
      PROVE  RxTimeout(c) = p /\ Timeout(c) < Word \div 2
  <2> HIDE DEF p
  <2>1. p \in 0 .. Word - 1
    BY <1>1, <1>3, <1>4, <1>8
  <2>2. p % Word = p
    BY <1>1, <2>1, ModSmall
  <2>3. RxTimeout(c) = p
    BY <2>2 DEF RxTimeout, p
  <2>4. Timeout(c) < Word \div 2
    BY <1>2, <1>4, <1>7, <1>8
  <2> QED
    BY <2>3, <2>4
<1> HIDE DEF p
<1>9. Timeout(c) \in Nat \ {0}
  BY <1>2, <1>3, <1>7
<1> QED
  BY <1>2, <1>3, <1>5, <1>6, <1>8, <1>9 DEF p

\* The values from which it is computed where a connection stands.
LEMMA Numbers ==
    ASSUME TInv, NEW c \in Conns
    PROVE  /\ now \in Words /\ now \in Int /\ time \in Nat /\ heard[c] \in Nat
           /\ opened[c] \in Nat /\ sent[c] \in Nat /\ cut[c] \in Nat
           /\ elapsed \in Nat
           /\ first[c] \in BOOLEAN /\ Due(c) \in Nat /\ Tick * cut[c] \in Nat
           /\ watchdog[c] \in Words /\ trigger[c] \in Words
<1>1. /\ now \in Words /\ time \in Nat /\ heard[c] \in Nat /\ opened[c] \in Nat
      /\ sent[c] \in Nat /\ cut[c] \in Nat /\ elapsed \in Nat
      /\ first[c] \in BOOLEAN /\ watchdog[c] \in Words /\ trigger[c] \in Words
  BY DEF TInv, TrueTypeOK, TypeOK
<1>2. Tick \in Nat /\ Rate[c] \in Nat /\ MaxLag \in Nat /\ now \in Int
  BY <1>1, WordNat, TimerAssumption DEF TimerAssumption, Words
<1>3. sent[c] * Rate[c] \in Nat /\ Tick * cut[c] \in Nat
  BY <1>1, <1>2
<1>4. Due(c) \in Nat
  BY <1>1, <1>3 DEF Due
<1> QED
  BY <1>1, <1>2, <1>3, <1>4

\* A connection that a step leaves alone stands where it stood.
Still(c) ==
    /\ heard'[c] = heard[c] /\ first'[c] = first[c] /\ opened'[c] = opened[c]
    /\ sent'[c] = sent[c] /\ watchdog'[c] = watchdog[c]
    /\ c \notin Triggered => trigger'[c] = trigger[c]
    /\ cut'[c] = cut[c]

LEMMA StillStands ==
    ASSUME NEW c, Still(c), UNCHANGED <<now, time>>
    PROVE  /\ Wound(c) => Wound(c)'
           /\ NotAhead(c) => NotAhead(c)'
           /\ elapsed' = elapsed => (InTime(c) => InTime(c)')
BY DEF Still, Wound, NotAhead, InTime, Due, Timeout, In, Cyclic, TimeoutFits, Fits

\* Steps of one connection leave the others alone.
LEMMA OthersStand ==
    ASSUME TInv, NEW d \in Conns, NEW c \in Conns,
           \/ c # d /\ (TrueOpen(d) \/ TrueClose(d) \/ TrueReceive(d))
           \/ TrueTrigger(d)
    PROVE  /\ Wound(c) => Wound(c)'
           /\ NotAhead(c) => NotAhead(c)'
           /\ InTime(c) => InTime(c)'
<1>1. UNCHANGED <<now, time, elapsed>>
  BY DEF TrueOpen, TrueClose, TrueReceive, TrueTrigger, Open, Close, Receive, TriggerConnections,
         Restart, history
<1>2. Still(c)
  <2>1. CASE c # d /\ TrueOpen(d)
    <3>1. heard'[c] = heard[c] /\ first'[c] = first[c] /\ opened'[c] = opened[c]
             /\ sent'[c] = sent[c] /\ cut'[c] = cut[c]
      BY <2>1 DEF TrueOpen, Restart, TInv, TrueTypeOK
    <3>2. watchdog'[c] = watchdog[c] /\ trigger'[c] = trigger[c]
      BY <2>1 DEF TrueOpen, Open, TInv, TrueTypeOK, TypeOK
    <3> QED
      BY <3>1, <3>2 DEF Still
  <2>2. CASE c # d /\ TrueClose(d)
    <3>1. heard'[c] = heard[c] /\ first'[c] = first[c] /\ opened'[c] = opened[c]
             /\ sent'[c] = sent[c] /\ cut'[c] = cut[c]
      BY <2>2 DEF TrueClose, Restart, TInv, TrueTypeOK
    <3>2. watchdog'[c] = watchdog[c] /\ trigger'[c] = trigger[c]
      BY <2>2 DEF TrueClose, Close, Cleared, TInv, TrueTypeOK, TypeOK
    <3> QED
      BY <3>1, <3>2 DEF Still
  <2>3. CASE c # d /\ TrueReceive(d)
    BY <2>3 DEF TrueReceive, Receive, Still, TInv, TrueTypeOK, TypeOK
  <2>4. CASE TrueTrigger(d)
    BY <2>4 DEF TrueTrigger, TriggerConnections, Still, history, TInv, TrueTypeOK, TypeOK
  <2> QED
    BY <2>1, <2>2, <2>3, <2>4
<1> QED
  BY <1>1, <1>2, StillStands

\* A connection that has just been opened.
LEMMA OpenStands ==
    ASSUME TInv, NEW c \in Conns, TrueOpen(c)
    PROVE  Wound(c)' /\ NotAhead(c)' /\ InTime(c)'
<1>1. /\ Rate[c] \in Nat /\ Rate[c] * Multiplier[c] \in Nat \ {0} /\ Initial \in Nat
      /\ TimeoutFits(c) => RxTimeout(c) = Rate[c] * Multiplier[c]
  BY ShortNumbers
<1>2. time \in Nat /\ elapsed \in Nat /\ Tick \in Nat
  BY Numbers, TimerAssumption DEF TimerAssumption
<1>3. /\ opened'[c] = time /\ heard'[c] = time /\ first'[c] = TRUE /\ sent'[c] = 0
      /\ cut'[c] = 0 /\ UNCHANGED <<time, now, elapsed>>
      /\ trigger'[c] = In(0)
      /\ TimeoutFits(c) => watchdog'[c] = In(InitialTimeout(c))
  BY <1>1 DEF TrueOpen, Restart, Open, TInv, TrueTypeOK, TypeOK
<1>4. /\ TimeoutFits(c) => Timeout(c)' = InitialTimeout(c)
      /\ Timeout(c)' \in Nat \ {0}
  BY <1>1, <1>3 DEF Timeout, InitialTimeout
<1>5. Due(c)' = time
  BY <1>1, <1>2, <1>3 DEF Due
<1>6. Tick * cut'[c] = 0
  BY <1>2, <1>3
<1>7. /\ heard'[c] + Timeout(c)' - time' = Timeout(c)' /\ Due(c)' - time' = 0
      /\ time' - heard'[c] - Timeout(c)' < 0
  BY <1>2, <1>3, <1>4, <1>5
<1>8. Wound(c)'
  BY <1>2, <1>3, <1>4, <1>7 DEF Wound, In, TimeoutFits, Fits, Cyclic
<1>9. NotAhead(c)'
  BY <1>1, <1>7 DEF NotAhead
<1>10. InTime(c)'
  BY <1>2, <1>3, <1>4, <1>5, <1>6, <1>7 DEF InTime
<1> QED
  BY <1>8, <1>9, <1>10

\* A connection that has just received a frame.
LEMMA ReceiveStands ==
    ASSUME TInv, NEW c \in Conns, TrueReceive(c)
    PROVE  /\ Wound(c) => Wound(c)'
           /\ NotAhead(c) => NotAhead(c)'
           /\ InTime(c) => InTime(c)'
<1>1. /\ Rate[c] \in Nat /\ Rate[c] * Multiplier[c] \in Nat \ {0}
      /\ TimeoutFits(c) => RxTimeout(c) = Rate[c] * Multiplier[c]
  BY ShortNumbers
<1>2. time \in Nat /\ elapsed \in Nat /\ Tick * cut[c] \in Nat
  BY Numbers
<1>3. /\ heard'[c] = time /\ first'[c] = FALSE
      /\ UNCHANGED <<time, now, elapsed, opened, sent, cut, trigger>>
      /\ watchdog'[c] = In(RxTimeout(c))
  BY DEF TrueReceive, Receive, TInv, TrueTypeOK, TypeOK
<1>4. /\ Timeout(c)' \in Nat \ {0}
      /\ TimeoutFits(c) => Timeout(c)' = RxTimeout(c)
  BY <1>1, <1>3 DEF Timeout
<1>5. Due(c)' = Due(c)
  BY <1>3 DEF Due
<1>6. /\ heard'[c] + Timeout(c)' - time' = Timeout(c)'
      /\ time' - heard'[c] - Timeout(c)' < 0
  BY <1>2, <1>3, <1>4
<1>7. Wound(c) => Wound(c)'
  BY <1>2, <1>3, <1>4, <1>5, <1>6 DEF Wound, In, TimeoutFits, Fits, Cyclic
<1>8. NotAhead(c) => NotAhead(c)'
  BY <1>3, <1>5 DEF NotAhead, Cyclic, Fits
<1>9. InTime(c) => InTime(c)'
  <2>1. Tick * cut'[c] = Tick * cut[c] /\ elapsed + Tick * cut[c] >= 0
    BY <1>2, <1>3
  <2>2. time' - heard'[c] - Timeout(c)' < elapsed' + Tick * cut'[c]
    <3>1. time' - heard'[c] - Timeout(c)' \in Int
      BY <1>1, <1>2, <1>3, <1>4
    <3> QED
      BY <1>2, <1>3, <1>6, <2>1, <3>1
  <2> QED
    BY <1>3, <1>5, <2>1, <2>2 DEF InTime, Cyclic, Fits
<1> QED
  BY <1>7, <1>8, <1>9

\* Time passes for all timers alike, and for what has to be made up for.
LEMMA PassStands ==
    ASSUME TInv, NEW d \in 1 .. MaxLag, TruePass(d), NEW c \in Conns
    PROVE  /\ Wound(c) => Wound(c)'
           /\ NotAhead(c) => NotAhead(c)'
           /\ InTime(c) => InTime(c)'
<1>1. /\ Rate[c] \in Nat /\ Timeout(c) \in Nat /\ Word \in Nat \ {0}
  BY ShortNumbers, WordNat
<1>2. /\ time \in Nat /\ elapsed \in Nat /\ Tick * cut[c] \in Nat /\ now \in Int
      /\ heard[c] \in Nat /\ Due(c) \in Nat /\ d \in Nat
  BY Numbers
<1>3. /\ now' = (now + d) % Word /\ time' = time + d /\ elapsed' = elapsed + d
      /\ UNCHANGED <<watchdog, trigger, opened, heard, first, sent, cut>>
  BY DEF TruePass, Pass, timers
<1>4. Timeout(c)' = Timeout(c) /\ Due(c)' = Due(c)
  BY <1>3 DEF Timeout, Due
<1>5. ASSUME NEW x \in Int
      PROVE  (now' + (x - d)) % Word = (now + x) % Word
  <2>1. now + d \in Int /\ x - d \in Int
    BY <1>2
  <2>2. (((now + d) % Word) + (x - d)) % Word = ((now + d) + (x - d)) % Word
    BY <1>1, <2>1, Turned
  <2>3. (now + d) + (x - d) = now + x
    BY <1>2
  <2> QED
    BY <1>3, <2>2, <2>3
<1>6. Wound(c) => Wound(c)'
  <2>1. heard[c] + Timeout(c) - time \in Int /\ Due(c) - time \in Int
    BY <1>1, <1>2
  <2>2. /\ heard'[c] + Timeout(c)' - time' = (heard[c] + Timeout(c) - time) - d
        /\ Due(c)' - time' = (Due(c) - time) - d
    BY <1>1, <1>2, <1>3, <1>4
  <2>3. /\ (now' + (heard'[c] + Timeout(c)' - time')) % Word
             = (now + (heard[c] + Timeout(c) - time)) % Word
        /\ (now' + (Due(c)' - time')) % Word = (now + (Due(c) - time)) % Word
    BY <1>5, <2>1, <2>2
  <2>4. heard[c] <= time => heard'[c] <= time'
    BY <1>2, <1>3
  <2> QED
    BY <1>3, <2>3, <2>4 DEF Wound, In, TimeoutFits, Cyclic, Fits
<1>7. NotAhead(c) => NotAhead(c)'
  BY <1>1, <1>2, <1>3, <1>4 DEF NotAhead, Cyclic, Fits
<1>8. InTime(c) => InTime(c)'
  BY <1>1, <1>2, <1>3, <1>4 DEF InTime, TimeoutFits, Cyclic, Fits
<1> QED
  BY <1>6, <1>7, <1>8

\* What a pass of the loop does to a connection that does not time out.
LEMMA ManageEach ==
    ASSUME TInv, TrueManage, NEW c \in Range(list) \ TimedOut
    PROVE  /\ c \in Conns /\ UNCHANGED <<now, time>>
           /\ heard'[c] = heard[c] /\ first'[c] = first[c] /\ opened'[c] = opened[c]
           /\ watchdog'[c] = watchdog[c]
           /\ elapsed' = elapsed - Tick /\ elapsed >= Tick
           /\ sent'[c] = IF c \in Sending \ Triggered THEN sent[c] + 1 ELSE sent[c]
           /\ trigger'[c] = IF c \in Sending THEN Bumped(trigger[c], Rate[c])
                                             ELSE trigger[c]
           /\ IF c \in Visited THEN cut'[c] = cut[c] /\ ~Expired(c)
                               ELSE cut'[c] = cut[c] + 1 /\ c \notin Sending
           /\ c \in Visited => (c \in Sending <=> Left(trigger[c]) <= 0)
<1>1. list \in Seq(Conns) /\ Range(list) \subseteq Conns /\ c \in Conns /\ c \notin TimedOut
  <2>1. list \in Seq(Conns)
    BY DEF TInv, TrueTypeOK, TypeOK
  <2> QED
    BY <2>1, RangeOfList
<1>2. c \in Visited => ~Expired(c)
  BY <1>1, EndIsGood DEF Visited
<1>3. c \in Skipped <=> c \notin Visited
  BY <1>1 DEF Skipped
<1>4. c \in Sending => c \in Visited
  BY DEF Sending
<1>5. c \in Visited => (c \in Sending <=> Left(trigger[c]) <= 0)
  BY DEF Sending
<1>6. /\ UNCHANGED <<now, time>> /\ elapsed' = elapsed - Tick /\ elapsed >= Tick
      /\ heard'[c] = heard[c] /\ opened'[c] = opened[c] /\ watchdog'[c] = watchdog[c]
  <2>1. elapsed \in Nat /\ Tick \in Nat
    BY <1>1, Numbers, TimerAssumption DEF TimerAssumption
  <2>2. ~(elapsed < Tick)
    BY DEF TrueManage, ManageConnections, Called, Caught
  <2>3. elapsed >= Tick
    BY <2>1, <2>2
  <2> QED
    BY <1>1, <2>3 DEF TrueManage, ManageConnections, ElapsedAfter
<1>7. first'[c] = first[c]
  <2>1. first'[c] = (first[c] \/ c \in TimedOut) /\ first[c] \in BOOLEAN
    BY <1>1 DEF TrueManage, TInv, TrueTypeOK
  <2> QED
    BY <1>1, <2>1
<1>8. sent'[c] = IF c \in Sending \ Triggered THEN sent[c] + 1 ELSE sent[c]
  BY <1>1 DEF TrueManage
<1>9. trigger'[c] = IF c \in Sending THEN Bumped(trigger[c], Rate[c])
                                   ELSE trigger[c]
  BY <1>1 DEF TrueManage, ManageConnections
<1>10. cut'[c] = IF c \in Skipped THEN cut[c] + 1 ELSE cut[c]
  BY <1>1 DEF TrueManage
<1> QED
  BY <1>1, <1>2, <1>3, <1>4, <1>5, <1>6, <1>7, <1>8, <1>9, <1>10

LEMMA OneMore ==
    ASSUME NEW k \in Nat, NEW r \in Nat
    PROVE  (k + 1) * r = k * r + r /\ r * (k + 1) = r * k + r
OBVIOUS

\* A packet is sent when it is due, and the next one is due an interval later.
LEMMA DueMoves ==
    ASSUME TInv, TrueManage, NEW c \in Range(list) \ TimedOut,
           Wound(c), NotAhead(c), Cyclic(c)
    PROVE  /\ c \in Sending => Due(c) - time <= 0 /\ Due(c)' = Due(c) + Rate[c]
           /\ c \notin Sending => Due(c)' = Due(c)
           /\ trigger'[c] = (now + (Due(c)' - time)) % Word
<1>1. c \in Conns
  BY ManageEach
<1>2. /\ Rate[c] \in Nat /\ Rate[c] < Word \div 2 /\ Word \in Nat \ {0} /\ Word \div 2 \in Nat
  BY <1>1, ShortNumbers, WordNat
<1>3. /\ time \in Nat /\ now \in Words /\ now \in Int /\ Due(c) \in Nat
      /\ opened[c] \in Nat /\ sent[c] \in Nat
  BY <1>1, Numbers
<1>4. /\ opened'[c] = opened[c]
      /\ IF c \in Sending
         THEN sent'[c] = sent[c] + 1 /\ trigger'[c] = Bumped(trigger[c], Rate[c])
         ELSE sent'[c] = sent[c] /\ trigger'[c] = trigger[c]
      /\ c \in Sending => Left(trigger[c]) <= 0
  BY ManageEach DEF Sending, Cyclic
<1>5. trigger[c] = In(Due(c) - time) /\ Due(c) - time <= Rate[c]
  BY DEF Wound, NotAhead
<1>6. CASE c \in Sending
  <2>1. (sent[c] + 1) * Rate[c] = sent[c] * Rate[c] + Rate[c] /\ sent[c] * Rate[c] \in Nat
    BY <1>2, <1>3, OneMore
  <2>2. Due(c)' = Due(c) + Rate[c]
    BY <1>2, <1>3, <1>4, <1>6, <2>1 DEF Due
  <2>3. Due(c) - time <= 0
    <3>1. SUFFICES ASSUME Due(c) - time > 0
                   PROVE  FALSE
      BY <1>3
    <3>2. Due(c) - time \in Int /\ Due(c) - time < Word \div 2
      BY <1>2, <1>3, <1>5
    <3>3. Left(In(Due(c) - time)) > 0 /\ In(Due(c) - time) \in Words
      BY <1>3, <3>1, <3>2, LeftIsTrue
    <3>4. Left(In(Due(c) - time)) \in Int
      BY <1>3, <3>2, LeftNumber
    <3> QED
      BY <1>4, <1>5, <1>6, <3>3, <3>4
  <2>4. trigger'[c] = (now + (Due(c)' - time)) % Word
    <3>1. trigger'[c] = (((now + (Due(c) - time)) % Word) + Rate[c]) % Word
      BY <1>4, <1>5, <1>6 DEF Bumped, In
    <3>2. now + (Due(c) - time) \in Int
      BY <1>3
    <3>3. trigger'[c] = ((now + (Due(c) - time)) + Rate[c]) % Word
      <4> DEFINE z == now + (Due(c) - time)
      <4>1. z \in Int /\ Rate[c] \in Int /\ Word \in Nat \ {0}
        BY <1>2, <3>2
      <4> HIDE DEF z
      <4>2. ((z % Word) + Rate[c]) % Word = (z + Rate[c]) % Word
        BY <4>1, Turned
      <4> QED
        BY <3>1, <4>2 DEF z
    <3>4. (now + (Due(c) - time)) + Rate[c] = now + (Due(c)' - time)
      BY <1>2, <1>3, <2>2
    <3> QED
      BY <3>3, <3>4
  <2> QED
    BY <1>6, <2>2, <2>3, <2>4
<1>7. CASE c \notin Sending
  <2>1. Due(c)' = Due(c)
    BY <1>4, <1>7 DEF Due
  <2> QED
    BY <1>4, <1>5, <1>7, <2>1 DEF In
<1> QED
  BY <1>6, <1>7

LEMMA ManageWound ==
    ASSUME TInv, TrueManage, NEW c \in Range(list) \ TimedOut,
           Wound(c), NotAhead(c)
    PROVE  Wound(c)' /\ NotAhead(c)'
<1>1. /\ c \in Conns /\ UNCHANGED <<now, time>>
      /\ heard'[c] = heard[c] /\ first'[c] = first[c] /\ watchdog'[c] = watchdog[c]
  BY ManageEach
<1>2. Rate[c] \in Nat /\ time \in Nat /\ Due(c) \in Nat
  BY <1>1, ShortNumbers, Numbers
<1>3. Timeout(c)' = Timeout(c)
  BY <1>1 DEF Timeout
<1>4. Wound(c)'
  <2>1. Cyclic(c) => trigger'[c] = (now + (Due(c)' - time)) % Word
    BY DueMoves
  <2> QED
    BY <1>1, <1>3, <2>1 DEF Wound, In, TimeoutFits, Cyclic, Fits
<1>5. NotAhead(c)'
  <2>1. SUFFICES ASSUME Cyclic(c)
                 PROVE  Due(c)' - time <= Rate[c]
    BY <1>1 DEF NotAhead, Cyclic, Fits
  <2>2. \/ Due(c) - time <= 0 /\ Due(c)' = Due(c) + Rate[c]
        \/ Due(c)' = Due(c)
    BY <2>1, DueMoves
  <2> QED
    BY <1>2, <2>1, <2>2 DEF NotAhead
<1> QED
  BY <1>4, <1>5

\* A pass finds a connection in time, or is counted as cut.
LEMMA ManageInTime ==
    ASSUME FewCuts, TInv, TrueManage, NEW c \in Range(list) \ TimedOut,
           Wound(c), NotAhead(c), InTime(c)
    PROVE  InTime(c)'
<1>1. /\ c \in Conns /\ UNCHANGED <<now, time>>
      /\ heard'[c] = heard[c] /\ first'[c] = first[c] /\ watchdog'[c] = watchdog[c]
      /\ elapsed' = elapsed - Tick /\ elapsed >= Tick
      /\ IF c \in Visited THEN cut'[c] = cut[c] /\ ~Expired(c)
                          ELSE cut'[c] = cut[c] + 1 /\ c \notin Sending
      /\ c \in Visited => (c \in Sending <=> Left(trigger[c]) <= 0)
  BY ManageEach
<1>2. /\ Rate[c] \in Nat /\ Tick <= Rate[c] /\ Timeout(c) \in Nat \ {0}
      /\ Cyclic(c) => Rate[c] < Word \div 2
      /\ TimeoutFits(c) => Timeout(c) < Word \div 2
      /\ Word \in Nat \ {0} /\ Word \div 2 \in Nat
  BY <1>1, ShortNumbers, WordNat
<1>3. /\ time \in Nat /\ now \in Words /\ Due(c) \in Nat /\ heard[c] \in Nat
      /\ cut[c] \in Nat /\ elapsed \in Nat /\ Tick * cut[c] \in Nat /\ Tick \in Nat
  BY <1>1, Numbers, TimerAssumption DEF TimerAssumption
<1>4. Timeout(c)' = Timeout(c)
  BY <1>1 DEF Timeout
<1>5. elapsed + Tick * cut[c] <= Word \div 2
  <2> DEFINE late == Tick * cut[c]
  <2>1. late + elapsed <= Word \div 2 /\ late \in Nat
    BY <1>1, <1>3 DEF FewCuts
  <2> HIDE DEF late
  <2>2. elapsed + late <= Word \div 2
    BY <1>2, <1>3, <2>1
  <2> QED
    BY <2>2 DEF late
<1>6. Tick * (cut[c] + 1) = Tick * cut[c] + Tick
  BY <1>3, OneMore
<1>7. ASSUME TimeoutFits(c)
      PROVE  time - heard[c] - Timeout(c) < elapsed' + Tick * cut'[c]
  <2> DEFINE left == heard[c] + Timeout(c) - time
  <2>1. left \in Int /\ left < Word \div 2 /\ -left < elapsed + Tick * cut[c]
    BY <1>2, <1>3, <1>7 DEF Wound, InTime
  <2>2. CASE c \in Visited
    <3>1. -left <= Word \div 2
      BY <1>2, <1>3, <1>5, <2>1
    <3>2. Left(watchdog[c]) = left
      <4> HIDE DEF left
      <4>1. watchdog[c] = In(left)
        BY <1>7 DEF Wound, left
      <4> QED
        BY <1>3, <2>1, <3>1, <4>1, LeftIsTrue
    <3>3. left > 0
      BY <1>1, <2>1, <2>2, <3>2 DEF Expired
    <3> QED
      BY <1>1, <1>2, <1>3, <2>2, <3>3
  <2>3. CASE c \notin Visited
    BY <1>1, <1>2, <1>3, <1>6, <2>1, <2>3
  <2> QED
    BY <2>2, <2>3
<1>8. ASSUME Cyclic(c)
      PROVE  time - Due(c)' <= elapsed' + Tick * cut'[c]
  <2>1. time - Due(c) <= elapsed + Tick * cut[c]
    BY <1>8 DEF InTime
  <2>2. CASE c \in Sending
    <3>1. c \in Visited /\ Due(c)' = Due(c) + Rate[c]
      BY <1>1, <1>8, <2>2, DueMoves
    <3> QED
      BY <1>1, <1>2, <1>3, <2>1, <3>1
  <2>3. CASE c \notin Visited
    <3>1. Due(c)' = Due(c)
      BY <1>1, <1>8, <2>3, DueMoves
    <3> QED
      BY <1>1, <1>3, <1>6, <2>1, <2>3, <3>1
  <2>4. CASE c \in Visited /\ c \notin Sending
    <3> DEFINE left == Due(c) - time
    <3>1. left \in Int /\ left < Word \div 2 /\ -left <= Word \div 2
      BY <1>2, <1>3, <1>5, <1>8, <2>1 DEF NotAhead
    <3>2. Due(c)' = Due(c)
      BY <1>8, <2>4, DueMoves
    <3>3. Left(trigger[c]) = left
      <4> HIDE DEF left
      <4>1. trigger[c] = In(left)
        BY <1>8 DEF Wound, left
      <4> QED
        BY <1>3, <3>1, <4>1, LeftIsTrue
    <3>4. left > 0
      BY <1>1, <2>4, <3>1, <3>3
    <3> QED
      BY <1>1, <1>3, <2>4, <3>2, <3>4
  <2> QED
    BY <2>2, <2>3, <2>4
<1> QED
  BY <1>1, <1>4, <1>7, <1>8 DEF InTime, TimeoutFits, Cyclic, Fits

----------------------------------------------------------------------------
(* The invariants and the theorems.                                          *)

LEMMA WoundKept ==
    ASSUME TInv, WInv, [TrueNext]_trueVars
    PROVE  WInv'
<1> SUFFICES ASSUME NEW c \in Range(list)'
             PROVE  Wound(c)' /\ NotAhead(c)'
  BY DEF WInv
<1>1. list \in Seq(Conns) /\ Once /\ Range(list) \subseteq Conns
  BY RangeOfList DEF TInv, TrueTypeOK, TypeOK
<1>2. \A d \in Range(list) : Wound(d) /\ NotAhead(d)
  BY DEF WInv
<1>3. ASSUME NEW d \in Conns, TrueOpen(d)
      PROVE  Wound(c)' /\ NotAhead(c)'
  <2>1. list' = <<d>> \o list /\ d \notin Range(list)
    BY <1>3 DEF TrueOpen, Open
  <2>2. c = d \/ c \in Range(list) \ {d}
    BY <1>1, <2>1, FirstOfList
  <2>3. CASE c = d
    BY <1>3, <2>3, OpenStands
  <2>4. CASE c \in Range(list) \ {d}
    BY <1>1, <1>2, <1>3, <2>4, OthersStand
  <2> QED
    BY <2>2, <2>3, <2>4
<1>4. ASSUME NEW d \in Conns, TrueClose(d)
      PROVE  Wound(c)' /\ NotAhead(c)'
  <2>1. c \in Range(list) \ {d}
    BY <1>4, CloseOnly DEF TrueClose
  <2> QED
    BY <1>1, <1>2, <1>4, <2>1, OthersStand
<1>5. ASSUME NEW d \in Conns, TrueReceive(d)
      PROVE  Wound(c)' /\ NotAhead(c)'
  <2>1. c \in Range(list)
    BY <1>5 DEF TrueReceive, Receive
  <2>2. CASE c = d
    BY <1>2, <1>5, <2>1, <2>2, ReceiveStands
  <2>3. CASE c # d
    BY <1>1, <1>2, <1>5, <2>1, <2>3, OthersStand
  <2> QED
    BY <2>2, <2>3
<1>6. ASSUME NEW d \in Conns, TrueTrigger(d)
      PROVE  Wound(c)' /\ NotAhead(c)'
  <2>1. c \in Range(list)
    BY <1>6 DEF TrueTrigger, TriggerConnections
  <2> QED
    BY <1>1, <1>2, <1>6, <2>1, OthersStand
<1>7. ASSUME NEW d \in 1 .. MaxLag, TruePass(d)
      PROVE  Wound(c)' /\ NotAhead(c)'
  <2>1. c \in Range(list)
    BY <1>7 DEF TruePass, Pass
  <2> QED
    BY <1>1, <1>2, <1>7, <2>1, PassStands
<1>8. ASSUME TrueManage
      PROVE  Wound(c)' /\ NotAhead(c)'
  <2>1. c \in Range(list) \ TimedOut
    BY <1>8, TimedOutGo DEF TrueManage
  <2> QED
    BY <1>2, <1>8, <2>1, ManageWound
<1>9. ASSUME TrueThrow \/ UNCHANGED trueVars
      PROVE  Wound(c)' /\ NotAhead(c)'
  <2>1. c \in Range(list) /\ Still(c) /\ UNCHANGED <<now, time>>
    BY <1>9 DEF TrueThrow, ReplyThrows, trueVars, vars, timers, history, Still
  <2> QED
    BY <1>2, <2>1, StillStands
<1> QED
  BY <1>3, <1>4, <1>5, <1>6, <1>7, <1>8, <1>9 DEF TrueNext

LEMMA InTimeKept ==
    ASSUME FewCuts, TInv, WInv, LInv, [TrueNext]_trueVars
    PROVE  LInv'
<1> SUFFICES ASSUME NEW c \in Range(list)'
             PROVE  InTime(c)'
  BY DEF LInv
<1>1. list \in Seq(Conns) /\ Once /\ Range(list) \subseteq Conns
  BY RangeOfList DEF TInv, TrueTypeOK, TypeOK
<1>2. \A d \in Range(list) : Wound(d) /\ NotAhead(d) /\ InTime(d)
  BY DEF WInv, LInv
<1>3. ASSUME NEW d \in Conns, TrueOpen(d)
      PROVE  InTime(c)'
  <2>1. list' = <<d>> \o list /\ d \notin Range(list)
    BY <1>3 DEF TrueOpen, Open
  <2>2. c = d \/ c \in Range(list) \ {d}
    BY <1>1, <2>1, FirstOfList
  <2>3. CASE c = d
    BY <1>3, <2>3, OpenStands
  <2>4. CASE c \in Range(list) \ {d}
    BY <1>1, <1>2, <1>3, <2>4, OthersStand
  <2> QED
    BY <2>2, <2>3, <2>4
<1>4. ASSUME NEW d \in Conns, TrueClose(d)
      PROVE  InTime(c)'
  <2>1. c \in Range(list) \ {d}
    BY <1>4, CloseOnly DEF TrueClose
  <2> QED
    BY <1>1, <1>2, <1>4, <2>1, OthersStand
<1>5. ASSUME NEW d \in Conns, TrueReceive(d)
      PROVE  InTime(c)'
  <2>1. c \in Range(list)
    BY <1>5 DEF TrueReceive, Receive
  <2>2. CASE c = d
    BY <1>2, <1>5, <2>1, <2>2, ReceiveStands
  <2>3. CASE c # d
    BY <1>1, <1>2, <1>5, <2>1, <2>3, OthersStand
  <2> QED
    BY <2>2, <2>3
<1>6. ASSUME NEW d \in Conns, TrueTrigger(d)
      PROVE  InTime(c)'
  <2>1. c \in Range(list)
    BY <1>6 DEF TrueTrigger, TriggerConnections
  <2> QED
    BY <1>1, <1>2, <1>6, <2>1, OthersStand
<1>7. ASSUME NEW d \in 1 .. MaxLag, TruePass(d)
      PROVE  InTime(c)'
  <2>1. c \in Range(list)
    BY <1>7 DEF TruePass, Pass
  <2> QED
    BY <1>1, <1>2, <1>7, <2>1, PassStands
<1>8. ASSUME TrueManage
      PROVE  InTime(c)'
  <2>1. c \in Range(list) \ TimedOut
    BY <1>8, TimedOutGo DEF TrueManage
  <2> QED
    BY <1>2, <1>8, <2>1, ManageInTime
<1>9. ASSUME TrueThrow \/ UNCHANGED trueVars
      PROVE  InTime(c)'
  <2>1. c \in Range(list) /\ Still(c) /\ UNCHANGED <<now, time, elapsed>>
    BY <1>9 DEF TrueThrow, ReplyThrows, trueVars, vars, timers, history, Still
  <2> QED
    BY <1>2, <2>1, StillStands
<1> QED
  BY <1>3, <1>4, <1>5, <1>6, <1>7, <1>8, <1>9 DEF TrueNext

LEMMA WoundInvariance == TrueSpec => []WInv
<1>1. TrueInit => WInv
  BY DEF TrueInit, Init, WInv, Range
<1>2. TInv /\ WInv /\ [TrueNext]_trueVars => WInv'
  BY WoundKept
<1> QED
  BY <1>1, <1>2, TrueTypeInvariance, PTL DEF TrueSpec

\* Whatever the clock reads at start-up and however often it wraps, however
\* late the passes of the event loop are and whatever they cut: a connection
\* is not timed out by ManageConnections() before its time.
THEOREM TimersNeverEarly == TrueSpec => NeverEarly
<1>1. ASSUME TInv, WInv, [TrueNext]_trueVars
      PROVE  [TimeOutStep]_trueVars
  <2>1. ASSUME NEW c \in TimedOut, TimeoutFits(c)
        PROVE  time - heard[c] >= Timeout(c)
    <3>1. list \in Seq(Conns)
      BY <1>1 DEF TInv, TrueTypeOK, TypeOK
    <3>2. c \in Range(list) /\ c \in Conns
      BY <3>1, RangeOfList
    <3>3. Expired(c)
      BY <3>1, EndIsGood DEF TimedOut
    <3> DEFINE left == heard[c] + Timeout(c) - time
    <3>4. /\ now \in Words /\ time \in Nat /\ heard[c] \in Nat /\ Timeout(c) \in Nat
          /\ Timeout(c) < Word \div 2 /\ Word \div 2 \in Nat /\ Word \in Nat \ {0}
      BY <1>1, <2>1, <3>2, ShortNumbers, Numbers, WordNat
    <3>5. watchdog[c] = In(left) /\ heard[c] <= time
      BY <1>1, <2>1, <3>2 DEF WInv, Wound
    <3>6. left \in Int /\ left < Word \div 2
      BY <3>4, <3>5
    <3> HIDE DEF left
    <3>7. ~(left > 0)
      <4>1. left > 0 => Left(watchdog[c]) > 0
        BY <3>4, <3>5, <3>6, LeftIsTrue
      <4>2. Left(watchdog[c]) <= 0
        BY <3>3 DEF Expired
      <4>3. Left(watchdog[c]) \in Int
        BY <3>4, <3>5, <3>6, LeftNumber
      <4> QED
        BY <4>1, <4>2, <4>3
    <3> QED
      BY <3>4, <3>6, <3>7 DEF left
  <2> QED
    BY <2>1 DEF TimeOutStep
<1> QED
  BY <1>1, TrueTypeInvariance, WoundInvariance, PTL DEF TrueSpec, NeverEarly

\* The lateness of connections, as long as few passes are cut short.
LEMMA InTimeInvariance == TrueSpec /\ []FewCuts => []LInv
<1>1. TrueInit => LInv
  BY DEF TrueInit, Init, LInv, Range
<1>2. FewCuts /\ TInv /\ WInv /\ LInv /\ [TrueNext]_trueVars => LInv'
  BY InTimeKept
<1> QED
  BY <1>1, <1>2, TrueTypeInvariance, WoundInvariance, PTL DEF TrueSpec

\* What was not made up for is less than a tick once ProcessOnce() is through.
LEMMA CaughtUp ==
    ASSUME TInv, Caught, NEW c \in Conns
    PROVE  elapsed + Tick * cut[c] < Tick * (1 + cut[c])
<1>1. elapsed \in Nat /\ cut[c] \in Nat /\ Tick \in Nat /\ Tick * cut[c] \in Nat /\ elapsed < Tick
  BY Numbers, TimerAssumption DEF TimerAssumption, Caught
<1>2. Tick * (cut[c] + 1) = Tick * cut[c] + Tick
  BY <1>1, OneMore
<1>3. 1 + cut[c] = cut[c] + 1
  BY <1>1
<1> QED
  BY <1>1, <1>2, <1>3

\* As long as the passes cut short are fewer than half a turn of the word
\* holds: a connection whose time is over is taken off the list in the first
\* pass of ManageConnections() that gets to it.
THEOREM ExpiredClosed == TrueSpec /\ []FewCuts => []ClosedInTurn
<1>1. TInv /\ LInv => ClosedInTurn
  <2> SUFFICES ASSUME TInv, LInv, Caught, NEW c \in Range(list), TimeoutFits(c)
               PROVE  time - heard[c] - Timeout(c) < Tick * (1 + cut[c])
    BY DEF ClosedInTurn
  <2>1. c \in Conns /\ InTime(c)
    BY RangeOfList DEF LInv, TInv, TrueTypeOK, TypeOK
  <2>2. /\ time - heard[c] - Timeout(c) \in Int /\ elapsed + Tick * cut[c] \in Nat
        /\ Tick * (1 + cut[c]) \in Nat
    <3>1. /\ time \in Nat /\ heard[c] \in Nat /\ Timeout(c) \in Nat /\ elapsed \in Nat
          /\ Tick * cut[c] \in Nat /\ 1 + cut[c] \in Nat /\ Tick \in Nat
      BY <2>1, Numbers, ShortNumbers, TimerAssumption DEF TimerAssumption
    <3>2. Tick * (1 + cut[c]) \in Nat
      BY <3>1
    <3> QED
      BY <3>1, <3>2
  <2> QED
    BY <2>1, <2>2, CaughtUp DEF InTime
<1> QED
  BY <1>1, TrueTypeInvariance, InTimeInvariance, PTL

\* Under the same bound: a cyclic connection sends neither ahead of its
\* schedule nor behind, however late the passes of the event loop are, but for
\* a tick for each pass that was cut short before it.
THEOREM CyclicOnSchedule == TrueSpec /\ []FewCuts => []ProductionOnSchedule
<1>1. TInv /\ WInv /\ LInv => ProductionOnSchedule
  <2> SUFFICES ASSUME TInv, WInv, LInv, Caught, NEW c \in Range(list), Cyclic(c)
               PROVE  time - Due(c) < Tick * (1 + cut[c]) /\ Due(c) - time <= Rate[c]
    BY DEF ProductionOnSchedule
  <2>1. c \in Conns /\ InTime(c) /\ NotAhead(c)
    BY RangeOfList DEF WInv, LInv, TInv, TrueTypeOK, TypeOK
  <2>2. /\ time - Due(c) \in Int /\ elapsed + Tick * cut[c] \in Nat
        /\ Tick * (1 + cut[c]) \in Nat
    <3>1. /\ time \in Nat /\ Due(c) \in Nat /\ elapsed \in Nat
          /\ Tick * cut[c] \in Nat /\ 1 + cut[c] \in Nat /\ Tick \in Nat
      BY <2>1, Numbers, TimerAssumption DEF TimerAssumption
    <3>2. Tick * (1 + cut[c]) \in Nat
      BY <3>1
    <3> QED
      BY <3>1, <3>2
  <2> QED
    BY <2>1, <2>2, CaughtUp DEF InTime, NotAhead
<1> QED
  BY <1>1, TrueTypeInvariance, WoundInvariance, InTimeInvariance, PTL

============================================================================
