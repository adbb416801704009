----------------------------- MODULE AvLogProofs -----------------------------
(***************************************************************************)
(* Proofs about AvLog, for every size of the ring and of the index: the    *)
(* inductive invariant of the log follower, the four properties of its     *)
(* lines, and that it implements FollowedLog.                              *)
(*                                                                         *)
(* The module starts with the arithmetic of remainders, which the provers  *)
(* do not know: slots are found by message number modulo Total, and the    *)
(* firmware's index is the message number modulo Word.                     *)
(***************************************************************************)
EXTENDS AvLog, TLAPS

-----------------------------------------------------------------------------
LEMMA Divided ==
    ASSUME NEW n \in Nat \ {0}, NEW a \in Int
    PROVE  /\ a \div n \in Int /\ a % n \in 0..n - 1
           /\ a = n * (a \div n) + (a % n)
OBVIOUS

LEMMA Remainder ==
    ASSUME NEW n \in Nat \ {0}, NEW q \in Int, NEW r \in 0..n - 1
    PROVE  (n * q + r) % n = r
OBVIOUS

\* Two numbers less than n apart with the same remainder are equal.
LEMMA Near ==
    ASSUME NEW n \in Nat \ {0}, NEW a \in Int, NEW b \in Int, a % n = b % n,
           a - b < n, b - a < n
    PROVE  a = b
<1> DEFINE p == a \div n
           q == b \div n
           r == b % n
<1>1. p \in Int /\ q \in Int /\ r \in 0..n - 1 /\ a = n * p + r /\ b = n * q + r
  BY Divided
<1> HIDE DEF p, q, r
<1>2. ASSUME NEW x \in Int, NEW y \in Int, x - y >= 1 PROVE n * x >= n * y + n
  <2>1. n * (x - y) >= n
    <3> DEFINE d == x - y
    <3>1. d \in Int /\ d >= 1
      BY <1>2
    <3> HIDE DEF d
    <3>2. n * d >= n
      BY <3>1
    <3> QED
      BY <3>2 DEF d
  <2> QED
    BY <2>1
<1>3. CASE p - q >= 1
  <2>1. n * p >= n * q + n
    BY <1>1, <1>2, <1>3
  <2> DEFINE u == n * p
             v == n * q
  <2>2. u \in Int /\ v \in Int /\ u >= v + n /\ a = u + r /\ b = v + r
    BY <1>1, <2>1
  <2> HIDE DEF u, v
  <2> QED
    BY <2>2, <1>1
<1>4. CASE q - p >= 1
  <2>1. n * q >= n * p + n
    BY <1>1, <1>2, <1>4
  <2> DEFINE u == n * p
             v == n * q
  <2>2. u \in Int /\ v \in Int /\ v >= u + n /\ a = u + r /\ b = v + r
    BY <1>1, <2>1
  <2> HIDE DEF u, v
  <2> QED
    BY <2>2, <1>1
<1>5. CASE p = q
  BY <1>1, <1>5
<1> QED
  BY <1>1, <1>3, <1>4, <1>5

\* Multiples of n do not change a remainder.
LEMMA Multiple ==
    ASSUME NEW n \in Nat \ {0}, NEW a \in Int, NEW k \in Int
    PROVE  (a + n * k) % n = a % n
<1> DEFINE q == a \div n
           r == a % n
<1>1. q \in Int /\ r \in 0..n - 1 /\ a = n * q + r
  BY Divided
<1> HIDE DEF q
<1>2. a + n * k = n * (q + k) + r
  <2>1. n * (q + k) = n * q + n * k
    BY <1>1
  <2> QED
    BY <1>1, <2>1
<1>3. q + k \in Int
  BY <1>1
<1> HIDE DEF r
<1>4. (n * (q + k) + r) % n = r
  BY <1>1, <1>3, Remainder
<1> QED
  BY <1>2, <1>4 DEF r

LEMMA Ring == ASSUME NEW n \in Nat \ {0}, NEW a \in Int
  PROVE (a + n) % n = a % n /\ (a - n) % n = a % n
<1>0. 1 \in Int /\ -1 \in Int
  OBVIOUS
<1>1. (a + n * 1) % n = a % n /\ (a + n * (-1)) % n = a % n
  BY <1>0, Multiple, Zenon
<1>2. n * 1 = n /\ a + n * (-1) = a - n
  OBVIOUS
<1> QED
  BY <1>1, <1>2

\* Equal differences.
LEMMA Shifted ==
    ASSUME NEW n \in Nat \ {0}, NEW a \in Int, NEW b \in Int, NEW d \in Int, a % n = b % n
    PROVE  (a + d) % n = (b + d) % n
<1> DEFINE p == a \div n
           q == b \div n
           r == b % n
<1>1. p \in Int /\ q \in Int /\ r \in 0..n - 1 /\ a = n * p + r /\ b = n * q + r
  BY Divided
<1> HIDE DEF p, q, r
<1>2. p - q \in Int /\ n * (p - q) = n * p - n * q
  BY <1>1
<1>3. (b + d) + n * (p - q) = a + d
  <2> DEFINE u == n * p
             v == n * q
             x == n * (p - q)
  <2>1. u \in Int /\ v \in Int /\ x = u - v /\ a = u + r /\ b = v + r
    BY <1>1, <1>2
  <2> HIDE DEF u, v, x
  <2>2. (b + d) + x = a + d
    BY <2>1, <1>1
  <2> QED
    BY <2>2 DEF x
<1>4. ((b + d) + n * (p - q)) % n = (b + d) % n
  <2>1. b + d \in Int /\ p - q \in Int
    BY <1>2
  <2> QED
    BY <2>1, Multiple, Zenon
<1> QED
  BY <1>3, <1>4

\* A remainder of a remainder
LEMMA Nested ==
    ASSUME NEW n \in Nat \ {0}, NEW w \in Nat \ {0}, w % n = 0, NEW a \in Int
    PROVE  (a % w) % n = a % n
<1> DEFINE m == w \div n
           q == a \div w
           r == a % w
<1>1. m \in Int /\ w = n * m
  <2>1. w = n * (w \div n) + (w % n) /\ w \div n \in Int
    BY Divided
  <2> QED
    BY <2>1
<1>2. q \in Int /\ r \in 0..w - 1 /\ a = w * q + r
  BY Divided
<1> HIDE DEF m, q, r
<1>3. a = r + n * (m * q) /\ m * q \in Int /\ r \in Int
  <2>1. w * q = (n * m) * q
    BY <1>1
  <2>2. (n * m) * q = n * (m * q)
    BY <1>1, <1>2
  <2> QED
    BY <1>1, <1>2, <2>1, <2>2
<1>4. (r + n * (m * q)) % n = r % n
  BY <1>3, Multiple
<1> QED
  BY <1>3, <1>4 DEF r

-----------------------------------------------------------------------------
(***************************************************************************)
(* The inductive invariant                                                 *)
(***************************************************************************)

\* 1 while the firmware is in the middle of a message.
Unfinished == IF writing THEN 1 ELSE 0

Types ==
    /\ sent \in Nat /\ writing \in BOOLEAN
    /\ slot \in [0..Total - 1 -> Int \cup {Torn}]
    /\ pc \in {"start", "poll", "batch", "fetch", "end", "exit"}
    /\ step \in 1..11
    /\ rd \in 0..Word - 1 /\ wr \in 0..Word - 1 /\ i \in 0..Word - 1
    /\ half \in Int \cup {Torn}
    /\ lines \in Seq(Line)
    /\ base \in Nat /\ rdSent \in Nat /\ wrSent \in Nat /\ wrapped \in BOOLEAN

\* The ring holds the last Total messages, but for the one that is being
\* overwritten.
Holds ==
    \A n \in sent - Total..sent - 1 :
        slot[n % Total] = IF writing /\ n = sent - Total THEN Torn ELSE n

\* rd stands for message rdSent, and the firmware is less than a lap of its
\* index ahead of it.
Sampled ==
    /\ pc = "start" => step <= 10 /\ lines = <<>> /\ ~wrapped /\ base = rdSent
    /\ pc \in {"poll", "batch", "fetch"} => step = 11
    /\ step >= 10 => /\ rd = rdSent % Word
                     /\ base <= rdSent /\ rdSent <= sent
                     /\ sent + Unfinished - rdSent < Word

\* wr stands for message wrSent, and i goes from rd to wr, if wr is not less.
Batch ==
    pc \in {"batch", "fetch"} =>
        /\ wr = wrSent % Word
        /\ rdSent <= wrSent /\ wrSent <= sent
        /\ rd <= i /\ (i <= wr \/ i = rd)
        /\ pc = "fetch" => i < wr

\* v is what the slot of message d shows, once d is written.
Shows(v, d) ==
    /\ \/ v \in d..sent - 1 /\ v % Total = d % Total
       \/ v = Torn
    /\ ~Overwritten(d) => v = d

\* The first half of a fetch.
HalfSeen == pc = "fetch" => Shows(half, Due)

\* The message after the last line, while the tool follows.
NextDue == IF pc \in {"batch", "fetch"} THEN Due ELSE rdSent

\* Lines are in order, and complete until the index wraps.
Book ==
    /\ pc \notin {"end", "exit"} =>
          /\ \A j \in 1..Len(lines) : lines[j].due < NextDue
          /\ ~wrapped => Len(lines) = NextDue - base
    /\ ~wrapped => \A j \in 1..Len(lines) : lines[j].due = base + j - 1

\* The first line of the batch has lost its message.
SomeLoss == \E k \in 1..Len(lines) : lines[k].due = rdSent /\ lines[k].lapped

\* It has once it is printed, in a marked batch.
FirstLost == pc \in {"batch", "fetch"} /\ i > rd /\ Mark => SomeLoss

FollowInv ==
    /\ Types /\ Holds /\ Sampled /\ Batch /\ HalfSeen /\ Book /\ FirstLost
    /\ ShowsItsMessage /\ LostBeforeSampleIsMarked /\ MarkMeansLoss

LEMMA Constants ==
    /\ Total \in Nat \ {0} /\ Word \in Nat \ {0} /\ Word % Total = 0 /\ Word > Total
    /\ FirstSent \subseteq Nat /\ MaxSent \in Nat /\ Torn \notin Int
BY LogRingAssumption, AvLogAssumption

\* There is a message of every slot among the last Total ones.
LEMMA Covered ==
    ASSUME NEW s \in Int, NEW k \in 0..Total - 1
    PROVE  \E n \in s - Total..s - 1 : n % Total = k
<1> DEFINE q == (s - 1 - k) \div Total
           r == (s - 1 - k) % Total
<1>1. q \in Int /\ r \in 0..Total - 1 /\ s - 1 - k = Total * q + r
  <2>1. s - 1 - k \in Int
    BY Constants
  <2> QED
    BY <2>1, Constants, Divided
<1> HIDE DEF q, r
<1>2. (Total * q + k) % Total = k
  BY <1>1, Constants, Remainder
<1> DEFINE u == Total * q
<1>3. u \in Int /\ s - 1 - k = u + r
  BY <1>1, Constants
<1>4. (u + k) % Total = k
  BY <1>2
<1> HIDE DEF u
<1>5. u + k \in s - Total..s - 1
  BY <1>1, <1>3, Constants
<1> QED
  BY <1>4, <1>5

\* What the slot of a written message shows.
LEMMA SlotShows ==
    ASSUME Types, Holds, NEW d \in Int, d < sent
    PROVE  Shows(slot[d % Total], d)
<1>1. d % Total \in 0..Total - 1
  BY Constants, Divided
<1>2. PICK n \in sent - Total..sent - 1 : n % Total = d % Total
  BY <1>1, Covered DEF Types
<1>3. slot[d % Total] = IF writing /\ n = sent - Total THEN Torn ELSE n
  BY <1>2 DEF Holds
<1>4. n \in Int /\ sent \in Nat /\ writing \in BOOLEAN /\ Total \in Nat \ {0}
  BY <1>2, Constants DEF Types
<1>5. n >= d
  <2>1. SUFFICES ASSUME n < d PROVE FALSE
    BY <1>4
  <2>2. n - d < Total /\ d - n < Total
    BY <1>2, <1>4, <2>1
  <2>3. n = d
    BY <1>2, <1>4, <2>2, Near, Zenon
  <2> QED
    BY <1>4, <2>1, <2>3
<1>6. n = d \/ n - d >= Total
  <2>1. SUFFICES ASSUME n - d < Total PROVE n = d
    BY <1>4
  <2>2. d - n < Total
    BY <1>4, <1>5
  <2> QED
    BY <1>2, <1>4, <2>1, <2>2, Near, Zenon
<1> HIDE DEF Holds
<1>7. CASE writing /\ n = sent - Total
  BY <1>3, <1>4, <1>5, <1>7 DEF Shows, Overwritten
<1>8. CASE ~(writing /\ n = sent - Total)
  <2>1. slot[d % Total] = n
    BY <1>3, <1>8
  <2>2. n \in d..sent - 1
    BY <1>2, <1>4, <1>5
  <2>3. ~Overwritten(d) => n = d
    BY <1>2, <1>4, <1>6 DEF Overwritten
  <2> QED
    BY <1>2, <2>1, <2>2, <2>3 DEF Shows
<1> QED
  BY <1>7, <1>8

-----------------------------------------------------------------------------
(***************************************************************************)
(* The invariant holds at first, and every step keeps it                   *)
(***************************************************************************)

\* Overwritten, in a form that the arithmetic of the proofs can use.
LEMMA Lap ==
    ASSUME NEW d
    PROVE  /\ Overwritten(d) <=> sent + Unfinished > d + Total
           /\ Overwritten(d)' <=> sent' + Unfinished' > d + Total
           /\ Unfinished \in 0..1 /\ Unfinished' \in 0..1
<1>1. /\ Overwritten(d) <=> sent + Unfinished > d + Total
      /\ Overwritten(d)' <=> sent' + Unfinished' > d + Total
  BY Zenon DEF Overwritten, Unfinished
<1>2. Unfinished \in {0, 1} /\ Unfinished' \in {0, 1}
  BY Zenon DEF Unfinished
<1>3. {0, 1} = 0..1
  OBVIOUS
<1> QED
  BY <1>1, <1>2, <1>3

\* A message that is in its slot stays in its slot or is overwritten.
LEMMA ShowsLater ==
    ASSUME NEW v, NEW d \in Int, Shows(v, d), sent \in Nat, sent' \in Nat, sent' >= sent,
           sent' + Unfinished' >= sent + Unfinished
    PROVE  Shows(v, d)'
<1> DEFINE m == sent
           n == sent'
           x == Unfinished
           y == Unfinished'
<1>1. /\ m \in Nat /\ n \in Nat /\ n >= m /\ n + y >= m + x /\ x \in 0..1 /\ y \in 0..1
      /\ Total \in Nat
      /\ (Overwritten(d) <=> m + x > d + Total)
      /\ (Overwritten(d)' <=> n + y > d + Total)
  BY Lap, Constants
<1>2. /\ (v \in d..m - 1 /\ v % Total = d % Total) \/ v = Torn
      /\ ~Overwritten(d) => v = d
  BY DEF Shows
<1>3. ((v \in d..n - 1 /\ v % Total = d % Total) \/ v = Torn) /\ (~Overwritten(d)' => v = d)
           => Shows(v, d)'
  BY Zenon DEF Shows
<1> HIDE DEF m, n, x, y
<1>4. v \in d..m - 1 => v \in d..n - 1
  BY <1>1
<1>5. Overwritten(d) => Overwritten(d)'
  BY <1>1
<1> QED
  BY <1>2, <1>3, <1>4, <1>5, Zenon

LEMMA AtFirst == Init => FollowInv
<1> SUFFICES ASSUME Init PROVE FollowInv
  OBVIOUS
<1>1. Total \in Nat \ {0} /\ sent \in Nat /\ Word \in Nat \ {0}
  BY Constants DEF Init, RingInit
<1>2. \A k \in 0..Total - 1 : /\ slot[k] \in sent - Total..sent - 1
                             /\ slot[k] % Total = k
  <2> TAKE k \in 0..Total - 1
  <2>1. \E n \in sent - Total..sent - 1 : n % Total = k
    <3>1. sent \in Int
      BY <1>1
    <3> QED
      BY <3>1, Covered, Zenon
  <2>2. slot[k] = CHOOSE n \in sent - Total..sent - 1 : n % Total = k
    BY DEF Init, RingInit
  <2> QED
    BY <2>1, <2>2
<1>3. Types
  <2>1. slot \in [0..Total - 1 -> Int \cup {Torn}]
    <3>1. slot = [k \in 0..Total - 1 |->
                    CHOOSE n \in sent - Total..sent - 1 : n % Total = k]
      BY DEF Init, RingInit
    <3>2. \A k \in 0..Total - 1 : slot[k] \in Int \cup {Torn}
      BY <1>1, <1>2
    <3> QED
      BY <3>1, <3>2
  <2>2. lines \in Seq(Line)
    BY DEF Init
  <2> QED
    <3>1. /\ pc = "start" /\ step = 1 /\ rd = 0 /\ wr = 0 /\ i = 0 /\ half = Torn
          /\ base = 0 /\ rdSent = 0 /\ wrSent = 0
      BY DEF Init
    <3>2. writing \in BOOLEAN /\ wrapped \in BOOLEAN
      BY DEF Init, RingInit
    <3>3. 0 \in 0..Word - 1 /\ 1 \in 1..11
      BY <1>1
    <3> QED
      BY <1>1, <2>1, <2>2, <3>1, <3>2, <3>3 DEF Types
<1>4. Holds
  <2> SUFFICES ASSUME NEW n \in sent - Total..sent - 1
               PROVE  slot[n % Total] = n
    BY DEF Holds, Init, RingInit
  <2> DEFINE m == slot[n % Total]
  <2>1. n \in Int /\ n % Total \in 0..Total - 1
    BY <1>1, Divided
  <2>2. m \in sent - Total..sent - 1 /\ m % Total = n % Total
    BY <1>2, <2>1
  <2> HIDE DEF m
  <2>3. m \in Int /\ m - n < Total /\ n - m < Total
    BY <1>1, <2>2
  <2>4. m = n
    BY <1>1, <2>1, <2>2, <2>3, Near, Zenon
  <2> QED
    BY <2>4 DEF m
<1>5. Len(lines) = 0
  BY DEF Init
<1>6. Sampled /\ Batch /\ HalfSeen /\ Book /\ FirstLost
  BY <1>1, <1>5 DEF Init, Sampled, Batch, HalfSeen, Book, FirstLost, NextDue
<1>7. ShowsItsMessage /\ LostBeforeSampleIsMarked /\ MarkMeansLoss
  BY <1>5 DEF ShowsItsMessage, LostBeforeSampleIsMarked, MarkMeansLoss
<1> QED
  BY <1>3, <1>4, <1>6, <1>7 DEF FollowInv

\* What the firmware does to the ring.
LEMMA RingSteps ==
    ASSUME Types, Holds, StartMessage \/ FinishMessage
    PROVE  /\ Holds'
           /\ slot' \in [0..Total - 1 -> Int \cup {Torn}]
           /\ sent' \in Nat /\ writing' \in BOOLEAN
           /\ sent' >= sent /\ sent' + Unfinished' >= sent + Unfinished
<1>1. Total \in Nat \ {0} /\ sent \in Nat /\ writing \in BOOLEAN
  BY Constants DEF Types
<1>2. sent % Total \in 0..Total - 1
  BY <1>1, Divided
<1>3. slot \in [0..Total - 1 -> Int \cup {Torn}]
  BY DEF Types
<1>4. ASSUME NEW n \in sent - Total + 1..sent - 1
      PROVE  n % Total \in 0..Total - 1 /\ n % Total # sent % Total
  <2>1. n \in Int /\ n - sent < Total /\ sent - n < Total /\ n # sent
    BY <1>1
  <2>2. n % Total \in 0..Total - 1
    BY <1>1, <2>1, Divided
  <2>3. n % Total # sent % Total
    <3>1. sent \in Int
      BY <1>1
    <3> QED
      BY <1>1, <2>1, <3>1, Near, Zenon
  <2> QED
    BY <2>2, <2>3
<1>5. CASE StartMessage
  <2>1. ~writing /\ writing' = TRUE /\ sent' = sent
        /\ slot' = [slot EXCEPT ![sent % Total] = Torn]
    BY <1>5 DEF StartMessage
  <2>2. slot' \in [0..Total - 1 -> Int \cup {Torn}]
    BY <1>3, <2>1
  <2>3. Holds'
    <3> SUFFICES ASSUME NEW n \in sent - Total..sent - 1
                 PROVE  slot'[n % Total] = IF n = sent - Total THEN Torn ELSE n
      BY <2>1 DEF Holds
    <3>1. CASE n = sent - Total
      <4>1. n % Total = sent % Total
        <5>1. sent \in Int
          BY <1>1
        <5> QED
          BY <1>1, <3>1, <5>1, Ring, Zenon
      <4> QED
        BY <1>2, <1>3, <2>1, <3>1, <4>1
    <3>2. CASE n # sent - Total
      <4>1. n \in sent - Total + 1..sent - 1
        BY <1>1, <3>2
      <4>2. slot[n % Total] = n
        BY <2>1, <3>2 DEF Holds
      <4>3. slot'[n % Total] = slot[n % Total]
        BY <1>2, <1>3, <1>4, <2>1, <4>1
      <4> QED
        BY <3>2, <4>2, <4>3
    <3> QED
      BY <3>1, <3>2
  <2>4. Unfinished = 0 /\ Unfinished' = 1
    BY <2>1, Zenon DEF Unfinished
  <2> QED
    BY <1>1, <2>1, <2>2, <2>3, <2>4
<1>6. CASE FinishMessage
  <2>1. writing /\ writing' = FALSE /\ sent' = sent + 1
        /\ slot' = [slot EXCEPT ![sent % Total] = sent]
    BY <1>6 DEF FinishMessage
  <2>2. slot' \in [0..Total - 1 -> Int \cup {Torn}]
    BY <1>1, <1>3, <2>1
  <2>3. Holds'
    <3> SUFFICES ASSUME NEW n \in sent + 1 - Total..sent
                 PROVE  slot'[n % Total] = n
      BY <1>1, <2>1 DEF Holds
    <3>1. CASE n = sent
      BY <1>2, <1>3, <2>1, <3>1
    <3>2. CASE n # sent
      <4>1. n \in sent - Total + 1..sent - 1
        BY <1>1, <3>2
      <4>2. n \in sent - Total..sent - 1 /\ n # sent - Total
        BY <1>1, <4>1
      <4>3. slot[n % Total] = n
        BY <4>2 DEF Holds
      <4>4. slot'[n % Total] = slot[n % Total]
        BY <1>2, <1>3, <1>4, <2>1, <4>1
      <4> QED
        BY <4>3, <4>4
    <3> QED
      BY <3>1, <3>2
  <2>4. Unfinished = 1 /\ Unfinished' = 0
    BY <2>1, Zenon DEF Unfinished
  <2>5. sent \in Nat /\ sent' = sent + 1 /\ writing' \in BOOLEAN
    BY <1>1, <2>1
  <2>6. sent' \in Nat /\ sent' >= sent /\ sent' + Unfinished' >= sent + Unfinished
    BY <2>4, <2>5
  <2> QED
    BY <2>2, <2>3, <2>5, <2>6, Zenon
<1> QED
  BY <1>5, <1>6

\* A message of the firmware.
LEMMA FirmwareKeeps ==
    ASSUME FollowInv, BeginMessage \/ EndMessage
    PROVE  FollowInv'
<1>1. StartMessage \/ FinishMessage
  BY DEF BeginMessage, EndMessage
<1>2. UNCHANGED <<pc, step, rd, wr, i, half, lines, history>>
  BY DEF BeginMessage, EndMessage
<1>3. /\ Holds'
      /\ slot' \in [0..Total - 1 -> Int \cup {Torn}]
      /\ sent' \in Nat /\ writing' \in BOOLEAN
      /\ sent' >= sent /\ sent' + Unfinished' >= sent + Unfinished
  BY <1>1, RingSteps DEF FollowInv
<1>4. Types'
  BY <1>2, <1>3 DEF FollowInv, Types, history
<1>5. step >= 10 => sent' + Unfinished' - rdSent < Word
  <2>1. CASE BeginMessage
    BY <2>1 DEF BeginMessage, StartMessage, StartUp, Unfinished
  <2>2. CASE EndMessage
    BY <2>2 DEF EndMessage, FinishMessage, Unfinished, FollowInv, Types, Sampled
  <2> QED
    BY <2>1, <2>2
<1>6. Sampled'
  BY <1>2, <1>3, <1>5 DEF FollowInv, Types, Sampled, history
<1>7. Batch'
  BY <1>2, <1>3 DEF FollowInv, Types, Batch, history
<1>8. HalfSeen'
  <2>1. Due \in Int /\ sent \in Nat /\ writing \in BOOLEAN /\ Due' = Due
    BY <1>2 DEF FollowInv, Types, Due, history
  <2>2. Shows(half, Due) => Shows(half, Due)'
    <3> SUFFICES ASSUME Shows(half, Due) PROVE Shows(half, Due)'
      OBVIOUS
    <3>1. ASSUME NEW d, NEW v, d = Due, v = half PROVE Shows(v, d)'
      BY <1>3, <2>1, <3>1, ShowsLater
    <3>2. \A d, v : d = Due /\ v = half => Shows(v, d)'
      BY <3>1
    <3> QED
      BY <1>2, <2>1, <3>2
  <2> QED
    BY <1>2, <2>2 DEF FollowInv, HalfSeen
<1>9. Book' /\ FirstLost'
  BY <1>2 DEF FollowInv, Book, FirstLost, NextDue, Due, SomeLoss, Mark, history
<1>10. ShowsItsMessage' /\ LostBeforeSampleIsMarked' /\ MarkMeansLoss'
  BY <1>2 DEF FollowInv, ShowsItsMessage, LostBeforeSampleIsMarked, MarkMeansLoss
<1> QED
  BY <1>3, <1>4, <1>6, <1>7, <1>8, <1>9, <1>10 DEF FollowInv

-----------------------------------------------------------------------------
\* Between two samples the index of 32 bits counts as message numbers do,
\* unless it has wrapped.
LEMMA BatchLength ==
    ASSUME Types, Sampled, Batch, pc \in {"batch", "fetch"}, wr >= rd
    PROVE  /\ wr - rd = wrSent - rdSent
           /\ Mark <=> wrSent - rdSent > Total
<1>1. /\ Word \in Nat \ {0} /\ Total \in Nat /\ rd \in 0..Word - 1 /\ wr \in 0..Word - 1
      /\ rdSent \in Nat /\ wrSent \in Nat /\ sent \in Nat
      /\ wr = wrSent % Word /\ rd = rdSent % Word
      /\ rdSent <= wrSent /\ wrSent <= sent
  BY Constants DEF Types, Sampled, Batch
<1>2. wrSent - rdSent < Word
  <2>1. sent + Unfinished - rdSent < Word
    BY DEF Sampled
  <2> DEFINE x == Unfinished
  <2>2. x \in 0..1 /\ sent + x - rdSent < Word
    BY <2>1, Lap
  <2> HIDE DEF x
  <2> QED
    BY <1>1, <2>2
<1> DEFINE d == wr - rd
           b == rdSent + d
<1>3. d \in 0..Word - 1 /\ d \in Int /\ b \in Int /\ rd + d = wr /\ b = rdSent + d
  BY <1>1
<1>4. rd % Word = rdSent % Word /\ wr % Word = wr
  BY <1>1
<1>5. rd \in Int /\ rdSent \in Int /\ wrSent \in Int
  BY <1>1
<1> HIDE DEF d, b
<1>6. (rd + d) % Word = (rdSent + d) % Word
  <2>1. Word \in Nat \ {0} /\ d \in Int /\ rd % Word = rdSent % Word
    BY <1>1, <1>3, <1>4
  <2> QED
    BY <2>1, <1>5, Shifted
<1>7. wrSent % Word = b % Word
  BY <1>1, <1>3, <1>4, <1>6, Zenon
<1>8. wrSent - b < Word /\ b - wrSent < Word
  BY <1>1, <1>2, <1>3
<1>9. wrSent = b
  BY <1>1, <1>3, <1>5, <1>7, <1>8, Near, Zenon
<1>10. wr - rd = wrSent - rdSent
  BY <1>1, <1>3, <1>9
<1>11. (wr - rd) % Word = wr - rd
  BY <1>1
<1> QED
  BY <1>10, <1>11 DEF Mark, Minus

\* Line i reads the slot of its message.
LEMMA SlotOfLine ==
    ASSUME Types, Sampled, pc \in {"batch", "fetch"}
    PROVE  Due \in Int /\ Slot(i) = slot[Due % Total]
<1>1. /\ Word \in Nat \ {0} /\ Total \in Nat \ {0} /\ Word % Total = 0
      /\ rd \in Int /\ i \in Int /\ rdSent \in Int /\ rd = rdSent % Word
  BY Constants DEF Types, Sampled
<1>2. rd % Total = rdSent % Total
  BY <1>1, Nested, Zenon
<1> DEFINE d == i - rd
<1>3. d \in Int /\ rd + d = i /\ Due = rdSent + d
  BY <1>1 DEF Due
<1> HIDE DEF d
<1>4. (rd + d) % Total = (rdSent + d) % Total
  <2>1. Total \in Nat \ {0} /\ d \in Int /\ rd \in Int /\ rdSent \in Int
    BY <1>1, <1>3
  <2> QED
    BY <1>2, <2>1, Shifted
<1>5. i % Total = Due % Total
  BY <1>3, <1>4, Zenon
<1> QED
  BY <1>1, <1>5 DEF Slot, Due

\* A line in the middle of a batch stands for a message that is written.
LEMMA DueIsWritten ==
    ASSUME Types, Sampled, Batch, pc \in {"batch", "fetch"}, i < wr
    PROVE  /\ Due \in rdSent..wrSent - 1 /\ Due < sent
           /\ wr >= rd
<1>1. /\ rd \in Int /\ i \in Int /\ rdSent \in Int /\ wr \in Int /\ wrSent \in Int
      /\ sent \in Int /\ rd <= i /\ wrSent <= sent
  BY Constants DEF Types, Batch
<1>2. wr >= rd
  BY <1>1
<1>3. wr - rd = wrSent - rdSent
  BY <1>2, BatchLength
<1> QED
  BY <1>1, <1>2, <1>3 DEF Due

LEMMA StartKeeps == ASSUME FollowInv, Start PROVE FollowInv'
<1>1. step \in 1..10 /\ pc = "start" /\ lines = <<>> /\ ~wrapped /\ base = rdSent
  BY DEF FollowInv, Types, Sampled, Start
<1>2. UNCHANGED <<sent, writing, slot, wr, i, half, lines, wrSent, wrapped>>
  BY DEF Start, firmware
<1>0. /\ Len(StartUp) = 10
      /\ \A k \in 1..10 : /\ StartUp[k] = "AVMIPS_VERSION" => k = 4
                          /\ StartUp[k] = "log_desc" <=> k = 9
  <2>1. \A k \in 1..10 : k = 1 \/ k = 2 \/ k = 3 \/ k = 4 \/ k = 5 \/ k = 6 \/ k = 7
                           \/ k = 8 \/ k = 9 \/ k = 10
    OBVIOUS
  <2> QED
    BY <2>1 DEF StartUp
<1>3. /\ step' \in 1..11
      /\ pc' = IF step' > 10 THEN "poll" ELSE "start"
      /\ step' >= 10 => step >= 9
  <2>0. StartUp[step] = "AVMIPS_VERSION" => step = 4
    BY <1>0, <1>1, Zenon
  <2>1. step' = step + 1 \/ (step = 4 /\ step' = step + 2)
    BY <2>0, Zenon DEF Start
  <2>2. pc' = IF step' > 10 THEN "poll" ELSE "start"
    BY <1>0 DEF Start
  <2> QED
    BY <1>1, <2>1, <2>2
<1>4. /\ step = 9 => rd' = sent % Word /\ base' = sent /\ rdSent' = sent
      /\ step # 9 => UNCHANGED <<rd, base, rdSent>>
  BY <1>0, <1>1 DEF Start, index
<1>5. sent \in Nat /\ Word \in Nat \ {0} /\ Word > 1 /\ base \in Nat /\ rdSent \in Nat
  BY Constants DEF FollowInv, Types
<1>6. sent % Word \in 0..Word - 1
  BY <1>5
<1>7. pc' \in {"poll", "start"} /\ (pc' = "start" => step' <= 10) /\ (pc' = "poll" => step' = 11)
  BY <1>3
<1>8. base' = rdSent' /\ base' \in Nat /\ rd' \in 0..Word - 1
  BY <1>1, <1>4, <1>5, <1>6 DEF FollowInv, Types
<1>9. Types'
  BY <1>2, <1>3, <1>7, <1>8 DEF FollowInv, Types
<1>10. step' >= 10 => /\ rd' = rdSent' % Word
                      /\ base' <= rdSent' /\ rdSent' <= sent'
                      /\ sent' + Unfinished' - rdSent' < Word
  <2> SUFFICES ASSUME step' >= 10
               PROVE  /\ rd' = rdSent' % Word
                      /\ base' <= rdSent' /\ rdSent' <= sent'
                      /\ sent' + Unfinished' - rdSent' < Word
    OBVIOUS
  <2>1. Unfinished' = Unfinished
    BY <1>2 DEF Unfinished
  <2>2. CASE step = 9
    <3> DEFINE x == Unfinished
    <3>1. x \in 0..1 /\ Unfinished' = x
      BY <2>1, Lap
    <3> HIDE DEF x
    <3> QED
      BY <1>2, <1>4, <1>5, <2>2, <3>1
  <2>3. CASE step # 9
    <3>1. step >= 10
      BY <1>1, <1>3, <2>3
    <3> QED
      BY <1>2, <1>4, <2>1, <2>3, <3>1 DEF FollowInv, Sampled
  <2> QED
    BY <2>2, <2>3
<1>11. Sampled'
  BY <1>1, <1>2, <1>7, <1>8, <1>10 DEF Sampled
<1>12. Holds'
  BY <1>2 DEF FollowInv, Holds
<1>13. Batch' /\ HalfSeen' /\ FirstLost'
  BY <1>7 DEF Batch, HalfSeen, FirstLost
<1>14. Len(lines') = 0
  BY <1>1, <1>2
<1>15. Book'
  <2>1. NextDue' = rdSent'
    BY <1>7 DEF NextDue
  <2>2. NextDue' - base' = 0
    <3>1. \A x \in Nat : x - x = 0
      OBVIOUS
    <3> QED
      BY <1>8, <2>1, <3>1, Zenon
  <2> QED
    BY <1>14, <2>2 DEF Book
<1>16. ShowsItsMessage' /\ LostBeforeSampleIsMarked' /\ MarkMeansLoss'
  BY <1>14 DEF ShowsItsMessage, LostBeforeSampleIsMarked, MarkMeansLoss
<1> QED
  BY <1>9, <1>11, <1>12, <1>13, <1>15, <1>16 DEF FollowInv

\* The tool stops.
LEMMA StopKeeps == ASSUME FollowInv, StartFails \/ ReadFails PROVE FollowInv'
<1>1. pc' \in {"end", "exit"} /\ UNCHANGED <<firmware, step, rd, wr, i, half, lines, history>>
  BY DEF StartFails, ReadFails
<1>2. Types' /\ Holds'
  BY <1>1 DEF FollowInv, Types, Holds, firmware, history
<1>3. Sampled'
  BY <1>1 DEF FollowInv, Sampled, Unfinished, firmware, history
<1>4. Batch' /\ HalfSeen' /\ FirstLost' /\ Book'
  BY <1>1 DEF FollowInv, Batch, HalfSeen, FirstLost, Book, history
<1>5. ShowsItsMessage' /\ LostBeforeSampleIsMarked' /\ MarkMeansLoss'
  BY <1>1 DEF FollowInv, ShowsItsMessage, LostBeforeSampleIsMarked, MarkMeansLoss
<1> QED
  BY <1>2, <1>3, <1>4, <1>5 DEF FollowInv

LEMMA PollKeeps == ASSUME FollowInv, Poll PROVE FollowInv'
<1>1. /\ pc = "poll" /\ pc' = "batch" /\ wr' = sent % Word /\ wrSent' = sent /\ i' = rd
      /\ UNCHANGED <<sent, writing, slot, step, rd, half, lines, base, rdSent, wrapped>>
  BY DEF Poll, firmware, index
<1>2. sent \in Nat /\ Word \in Nat \ {0} /\ sent % Word \in 0..Word - 1
  BY Constants DEF FollowInv, Types
<1>3. Types' /\ Holds'
  BY <1>1, <1>2 DEF FollowInv, Types, Holds
<1>4. Sampled'
  BY <1>1 DEF FollowInv, Sampled, Unfinished
<1>5. rd \in Int /\ rdSent \in Int /\ rdSent <= sent
  BY <1>1, Constants DEF FollowInv, Types, Sampled
<1>6. Batch' /\ HalfSeen' /\ FirstLost'
  BY <1>1, <1>2, <1>5 DEF Batch, HalfSeen, FirstLost
<1>7. NextDue = rdSent /\ NextDue' = rdSent
  BY <1>1, <1>5 DEF NextDue, Due
<1>8. Book'
  BY <1>1, <1>7 DEF FollowInv, Book
<1>9. ShowsItsMessage' /\ LostBeforeSampleIsMarked' /\ MarkMeansLoss'
  BY <1>1 DEF FollowInv, ShowsItsMessage, LostBeforeSampleIsMarked, MarkMeansLoss
<1> QED
  BY <1>3, <1>4, <1>6, <1>8, <1>9 DEF FollowInv

LEMMA FetchFirstKeeps == ASSUME FollowInv, FetchFirst PROVE FollowInv'
<1>1. /\ pc = "batch" /\ i < wr /\ half' = Slot(i) /\ pc' = "fetch"
      /\ UNCHANGED <<sent, writing, slot, step, rd, wr, i, lines, base, rdSent, wrSent, wrapped>>
  BY DEF FetchFirst, firmware, history
<1>2. Due \in Int /\ Slot(i) = slot[Due % Total] /\ Due < sent
  BY <1>1, SlotOfLine, DueIsWritten DEF FollowInv
<1>3. Shows(half', Due)
  BY <1>1, <1>2, SlotShows DEF FollowInv
<1>4. Due % Total \in 0..Total - 1
  BY <1>2, Constants, Divided
<1>5. half' \in Int \cup {Torn}
  BY <1>1, <1>2, <1>4 DEF FollowInv, Types
<1>6. Types' /\ Holds'
  BY <1>1, <1>5 DEF FollowInv, Types, Holds
<1>7. Sampled'
  BY <1>1 DEF FollowInv, Sampled, Unfinished
<1>8. Batch'
  BY <1>1 DEF FollowInv, Batch
<1>9. HalfSeen'
  BY <1>1, <1>3 DEF HalfSeen, Shows, Due, Overwritten
<1>10. FirstLost' /\ Book'
  BY <1>1 DEF FollowInv, FirstLost, Mark, Minus, SomeLoss, Book, NextDue, Due
<1>11. ShowsItsMessage' /\ LostBeforeSampleIsMarked' /\ MarkMeansLoss'
  BY <1>1 DEF FollowInv, ShowsItsMessage, LostBeforeSampleIsMarked, MarkMeansLoss
<1> QED
  BY <1>6, <1>7, <1>8, <1>9, <1>10, <1>11 DEF FollowInv

LEMMA DueTypes ==
    ASSUME lines \in Seq(Line)
    PROVE  \A j \in 1..Len(lines) : lines[j].due \in Nat
<1> TAKE j \in 1..Len(lines)
<1>1. lines[j] \in Line
  OBVIOUS
<1> QED
  BY <1>1 DEF Line

\* The line that a fetch prints.
NewLine ==
    [due    |-> Due,
     first  |-> rdSent,
     shown  |-> IF Slot(i) = half THEN Slot(i) ELSE Torn,
     mark   |-> Mark,
     behind |-> wrSent - Due > Total,
     lapped |-> Overwritten(Due)]

LEMMA NewLineShows ==
    ASSUME FollowInv, FetchSecond
    PROVE  /\ Due \in Nat /\ Due < sent /\ rdSent <= Due
           /\ Shows(NewLine.shown, Due)
           /\ NewLine \in Line
<1>1. pc = "fetch" /\ i < wr
  BY DEF FetchSecond, FollowInv, Batch
<1>2. Due \in rdSent..wrSent - 1 /\ Due < sent /\ rdSent \in Nat /\ wrSent \in Nat /\ sent \in Nat
  BY <1>1, DueIsWritten DEF FollowInv, Types
<1>3. Due \in Nat /\ rdSent <= Due
  BY <1>2
<1>4. Shows(Slot(i), Due)
  BY <1>1, <1>2, <1>3, SlotOfLine, SlotShows DEF FollowInv
<1>5. Shows(half, Due)
  BY <1>1 DEF FollowInv, HalfSeen
<1>6. Shows(Torn, Due) \/ Slot(i) = half
  BY <1>4, <1>5, Zenon DEF Shows
<1>7. NewLine.shown = IF Slot(i) = half THEN Slot(i) ELSE Torn
  BY DEF NewLine
<1>8. Shows(NewLine.shown, Due)
  BY <1>4, <1>6, <1>7, Zenon
<1>9. NewLine.shown \in Nat \cup {Torn}
  BY <1>2, <1>3, <1>8 DEF Shows
<1>10. Mark \in BOOLEAN /\ (wrSent - Due > Total) \in BOOLEAN /\ Overwritten(Due) \in BOOLEAN
  <2>1. Mark \in BOOLEAN
    BY DEF Mark
  <2>2. (wrSent - Due > Total) \in BOOLEAN
    OBVIOUS
  <2>3. Overwritten(Due) \in BOOLEAN
    BY DEF Overwritten
  <2> QED
    BY <2>1, <2>2, <2>3
<1>11. NewLine \in Line
  BY <1>2, <1>3, <1>7, <1>9, <1>10 DEF NewLine, Line
<1> QED
  BY <1>2, <1>3, <1>8, <1>11

LEMMA FetchSecondKeeps == ASSUME FollowInv, FetchSecond PROVE FollowInv'
<1>1. /\ pc = "fetch" /\ pc' = "batch" /\ i' = i + 1 /\ lines' = Append(lines, NewLine)
      /\ UNCHANGED <<sent, writing, slot, step, rd, wr, half, base, rdSent, wrSent, wrapped>>
  BY DEF FetchSecond, firmware, history, NewLine
<1>2. i < wr /\ lines \in Seq(Line)
  BY <1>1 DEF FollowInv, Batch, Types
<1>3. Due \in Nat /\ Due < sent /\ rdSent <= Due /\ Shows(NewLine.shown, Due) /\ NewLine \in Line
  BY NewLineShows
<1>4. /\ lines' \in Seq(Line) /\ Len(lines) \in Nat /\ Len(lines') = Len(lines) + 1
      /\ lines'[Len(lines) + 1] = NewLine
      /\ \A j \in 1..Len(lines) : lines'[j] = lines[j]
  BY <1>1, <1>2, <1>3
<1>5. \A j \in 1..Len(lines') : j \in 1..Len(lines) \/ j = Len(lines) + 1
  BY <1>4
<1>6. /\ NewLine.due = Due /\ NewLine.first = rdSent /\ NewLine.mark = Mark
      /\ NewLine.behind = (wrSent - Due > Total) /\ NewLine.lapped = Overwritten(Due)
  BY DEF NewLine
<1>7. /\ rd \in Int /\ i \in Int /\ wr \in Int /\ wr <= Word - 1 /\ rdSent \in Int
      /\ wrSent \in Int /\ base \in Int /\ sent \in Int
      /\ rd <= i /\ wrSent <= sent /\ Total \in Nat /\ Word \in Nat
  BY <1>1, Constants DEF FollowInv, Types, Batch
<1>8. wr - rd = wrSent - rdSent /\ (Mark <=> wrSent - rdSent > Total)
  BY <1>1, <1>2, <1>7, BatchLength DEF FollowInv
<1>9. Types' /\ Holds'
  <2>1. i + 1 \in 0..Word - 1
    BY <1>2, <1>7, <1>1 DEF FollowInv, Types
  <2> QED
    BY <1>1, <1>4, <2>1 DEF FollowInv, Types, Holds
<1>10. Sampled'
  <2>1. /\ step' = 11 /\ pc' = "batch"
        /\ rd = rdSent % Word /\ base <= rdSent /\ rdSent <= sent
        /\ sent + Unfinished - rdSent < Word /\ Unfinished' = Unfinished
    BY <1>1 DEF FollowInv, Sampled, Unfinished
  <2> QED
    BY <1>1, <2>1 DEF Sampled
<1>11. Batch'
  BY <1>1, <1>2, <1>7 DEF FollowInv, Batch
<1>12. HalfSeen'
  BY <1>1 DEF HalfSeen
<1>13. Book'
  <2>1. Due' = Due + 1
    BY <1>1, <1>7 DEF Due
  <2>2. NextDue = Due /\ NextDue' = Due + 1
    BY <1>1, <2>1 DEF NextDue
  <2>3. /\ \A j \in 1..Len(lines) : lines[j].due < Due
        /\ ~wrapped => Len(lines) = Due - base
        /\ ~wrapped => \A j \in 1..Len(lines) : lines[j].due = base + j - 1
    BY <1>1, <2>2 DEF FollowInv, Book
  <2>4. \A j \in 1..Len(lines) : lines[j].due \in Nat
    BY <1>2, DueTypes
  <2>5. \A j \in 1..Len(lines') : lines'[j].due < Due + 1
    BY <1>3, <1>4, <1>5, <1>6, <2>3, <2>4
  <2>6. ~wrapped => Len(lines') = Due + 1 - base
    BY <1>3, <1>4, <1>7, <2>3
  <2>7. ~wrapped => \A j \in 1..Len(lines') : lines'[j].due = base + j - 1
    BY <1>3, <1>4, <1>5, <1>6, <1>7, <2>3
  <2>8. wrapped' = wrapped /\ base' = base
    BY <1>1
  <2>9. \A j \in 1..Len(lines') : lines'[j].due < NextDue'
    BY <2>2, <2>5
  <2>10. ~wrapped => Len(lines') = NextDue' - base'
    <3>1. base' = base
      BY <2>8
    <3> QED
      BY <1>3, <1>4, <1>7, <2>2, <2>6, <3>1
  <2>11. ~wrapped => \A j \in 1..Len(lines') : lines'[j].due = base' + j - 1
    BY <2>7, <2>8
  <2> QED
    BY <2>8, <2>9, <2>10, <2>11, Zenon DEF Book
<1>14. Mark /\ i = rd => Overwritten(Due)
  <2>1. Mark /\ i = rd => sent > Due + Total /\ Due = rdSent
    BY <1>7, <1>8 DEF Due
  <2> DEFINE x == Unfinished
             d == Due
  <2>2. x \in 0..1 /\ (Overwritten(Due) <=> sent + x > d + Total) /\ d \in Int
    BY <1>3, Lap
  <2>3. Mark /\ i = rd => sent > d + Total
    BY <2>1
  <2> HIDE DEF x, d
  <2> QED
    BY <1>7, <2>2, <2>3
<1>15. Mark => SomeLoss'
  <2> SUFFICES ASSUME Mark PROVE SomeLoss'
    OBVIOUS
  <2>1. CASE i > rd
    <3>1. PICK k \in 1..Len(lines) : lines[k].due = rdSent /\ lines[k].lapped
      BY <1>1, <2>1 DEF FollowInv, FirstLost, SomeLoss
    <3>2. k \in 1..Len(lines') /\ lines'[k].due = rdSent' /\ lines'[k].lapped
      BY <1>1, <1>4, <3>1
    <3> QED
      BY <3>2 DEF SomeLoss
  <2>2. CASE i = rd
    <3>1. Len(lines) + 1 \in 1..Len(lines')
      BY <1>4
    <3>2. Due = rdSent
      BY <1>7, <2>2 DEF Due
    <3>3. lines'[Len(lines) + 1].due = rdSent' /\ lines'[Len(lines) + 1].lapped
      BY <1>1, <1>4, <1>6, <1>14, <2>2, <3>2
    <3> QED
      BY <3>1, <3>3 DEF SomeLoss
  <2> QED
    BY <1>7, <2>1, <2>2
<1>16. FirstLost'
  BY <1>1, <1>15 DEF FirstLost, Mark, Minus
<1>17. ShowsItsMessage'
  <2>1. ~Overwritten(Due) => NewLine.shown = Due
    BY <1>3, Zenon DEF Shows
  <2> QED
    BY <1>4, <1>5, <1>6, <2>1 DEF FollowInv, ShowsItsMessage
<1>18. LostBeforeSampleIsMarked'
  <2>1. wrSent - Due > Total => Mark
    BY <1>3, <1>7, <1>8
  <2> QED
    BY <1>4, <1>5, <1>6, <2>1 DEF FollowInv, LostBeforeSampleIsMarked
<1>19. MarkMeansLoss'
  <2> SUFFICES ASSUME NEW j \in 1..Len(lines'), lines'[j].mark
               PROVE  \E k \in 1..j : lines'[k].due = lines'[j].first /\ lines'[k].lapped
    BY DEF MarkMeansLoss
  <2>1. CASE j \in 1..Len(lines)
    <3>1. PICK k \in 1..j : lines[k].due = lines[j].first /\ lines[k].lapped
      BY <1>4, <2>1 DEF FollowInv, MarkMeansLoss
    <3>2. k \in 1..Len(lines)
      BY <1>4, <2>1, <3>1
    <3> QED
      BY <1>4, <2>1, <3>1, <3>2
  <2>2. CASE j = Len(lines) + 1
    <3>1. SomeLoss'
      BY <1>4, <1>6, <1>15, <2>2
    <3>2. lines'[j].first = rdSent'
      BY <1>1, <1>4, <1>6, <2>2
    <3> QED
      BY <1>4, <2>2, <3>1, <3>2 DEF SomeLoss
  <2> QED
    BY <1>5, <2>1, <2>2
<1> QED
  BY <1>9, <1>10, <1>11, <1>12, <1>13, <1>16, <1>17, <1>18, <1>19 DEF FollowInv

LEMMA EndBatchKeeps == ASSUME FollowInv, EndBatch PROVE FollowInv'
<1>1. /\ pc = "batch" /\ pc' = "poll" /\ i >= wr /\ rd' = wr /\ rdSent' = wrSent
      /\ wrapped' = (wrapped \/ wr < rd)
      /\ UNCHANGED <<sent, writing, slot, step, wr, i, half, lines, base, wrSent>>
  BY DEF EndBatch, firmware
<1>2. /\ rd \in Int /\ i \in Int /\ wr \in Int /\ rdSent \in Nat /\ wrSent \in Nat
      /\ base \in Nat /\ sent \in Nat /\ Word \in Nat
      /\ rd <= i /\ (i <= wr \/ i = rd) /\ rdSent <= wrSent /\ wrSent <= sent
      /\ wr = wrSent % Word
  BY <1>1, Constants DEF FollowInv, Types, Batch
<1>3. /\ step = 11 /\ base <= rdSent /\ sent + Unfinished - rdSent < Word
      /\ Unfinished' = Unfinished
  BY <1>1 DEF FollowInv, Sampled, Unfinished
<1>4. Due <= wrSent /\ Due \in Int /\ (Due = wrSent \/ wr < rd)
  <2>1. CASE wr >= rd
    <3>1. wr - rd = wrSent - rdSent
      BY <1>1, <2>1, BatchLength DEF FollowInv
    <3> QED
      BY <1>1, <1>2, <2>1, <3>1 DEF Due
  <2>2. CASE wr < rd
    BY <1>1, <1>2, <2>2 DEF Due
  <2> QED
    BY <1>2, <2>1, <2>2
<1>5. wrapped' \in BOOLEAN
  BY <1>1, Zenon
<1>6. Types' /\ Holds'
  BY <1>1, <1>2, <1>5 DEF FollowInv, Types, Holds
<1>7. sent + Unfinished - wrSent < Word
  <2> DEFINE x == Unfinished
  <2>1. x \in 0..1 /\ sent + x - rdSent < Word
    BY <1>3, Lap
  <2> HIDE DEF x
  <2>2. sent + x - wrSent < Word
    BY <1>2, <2>1
  <2> QED
    BY <2>2 DEF x
<1>8. Sampled'
  <2>1. base <= wrSent
    BY <1>2, <1>3
  <2> QED
    BY <1>1, <1>2, <1>3, <1>7, <2>1 DEF Sampled
<1>9. Batch' /\ HalfSeen' /\ FirstLost'
  BY <1>1 DEF Batch, HalfSeen, FirstLost
<1>10. Book'
  <2>1. NextDue = Due /\ NextDue' = wrSent
    BY <1>1 DEF NextDue
  <2>2. /\ \A j \in 1..Len(lines) : lines[j].due < Due
        /\ ~wrapped => Len(lines) = Due - base
        /\ ~wrapped => \A j \in 1..Len(lines) : lines[j].due = base + j - 1
    BY <1>1, <2>1 DEF FollowInv, Book
  <2>3. \A j \in 1..Len(lines) : lines[j].due \in Nat
    BY DueTypes DEF FollowInv, Types
  <2>4. \A j \in 1..Len(lines) : lines[j].due < wrSent
    BY <1>2, <1>4, <2>2, <2>3
  <2>5. ~wrapped' => ~wrapped /\ Due = wrSent
    BY <1>1, <1>4, Zenon
  <2>6. ~wrapped' => Len(lines) = wrSent - base
    BY <2>2, <2>5
  <2>7. ~wrapped' => \A j \in 1..Len(lines) : lines[j].due = base + j - 1
    BY <2>2, <2>5
  <2> QED
    BY <1>1, <2>1, <2>4, <2>6, <2>7 DEF Book
<1>11. ShowsItsMessage' /\ LostBeforeSampleIsMarked' /\ MarkMeansLoss'
  BY <1>1 DEF FollowInv, ShowsItsMessage, LostBeforeSampleIsMarked, MarkMeansLoss
<1> QED
  BY <1>6, <1>8, <1>9, <1>10, <1>11 DEF FollowInv

LEMMA StutterKeeps == ASSUME FollowInv, UNCHANGED vars PROVE FollowInv'
<1>1. UNCHANGED <<sent, writing, slot, pc, step, rd, wr, i, half, lines, base, rdSent,
                  wrSent, wrapped>>
  BY DEF vars, firmware, history
<1>2. Types' /\ Holds' /\ Batch'
  BY <1>1 DEF FollowInv, Types, Holds, Batch
<1>3. Sampled'
  BY <1>1 DEF FollowInv, Sampled, Unfinished
<1>4. HalfSeen'
  BY <1>1 DEF FollowInv, HalfSeen, Shows, Due, Overwritten
<1>5. Book' /\ FirstLost'
  BY <1>1 DEF FollowInv, Book, NextDue, Due, FirstLost, SomeLoss, Mark, Minus
<1>6. ShowsItsMessage' /\ LostBeforeSampleIsMarked' /\ MarkMeansLoss'
  BY <1>1 DEF FollowInv, ShowsItsMessage, LostBeforeSampleIsMarked, MarkMeansLoss
<1> QED
  BY <1>2, <1>3, <1>4, <1>5, <1>6 DEF FollowInv

LEMMA StepKeeps == FollowInv /\ [Next]_vars => FollowInv'
<1> SUFFICES ASSUME FollowInv, [Next]_vars PROVE FollowInv'
  OBVIOUS
<1>1. CASE BeginMessage \/ EndMessage
  BY <1>1, FirmwareKeeps
<1>2. CASE Start
  BY <1>2, StartKeeps
<1>3. CASE StartFails \/ ReadFails
  BY <1>3, StopKeeps
<1>4. CASE Poll
  BY <1>4, PollKeeps
<1>5. CASE FetchFirst
  BY <1>5, FetchFirstKeeps
<1>6. CASE FetchSecond
  BY <1>6, FetchSecondKeeps
<1>7. CASE EndBatch
  BY <1>7, EndBatchKeeps
<1>8. CASE UNCHANGED vars
  BY <1>8, StutterKeeps
<1> QED
  BY <1>1, <1>2, <1>3, <1>4, <1>5, <1>6, <1>7, <1>8 DEF Next, Firmware, Tool, Follow

\* Wherever the firmware and the tool are, the invariant holds.
THEOREM FollowInvariant == Spec => []FollowInv
<1> QED
  BY AtFirst, StepKeeps, PTL DEF Spec

-----------------------------------------------------------------------------
(***************************************************************************)
(* What avlog prints                                                       *)
(***************************************************************************)

\* Every variable holds a value of its kind, rd, wr and i below the wrap of the
\* index, and no line shows a message from before message 0.
THEOREM TypesKept == Spec => []TypeOK
<1>1. Len(StartUp) + 1 = 11
  BY DEF StartUp
<1>2. FollowInv => TypeOK
  BY <1>1 DEF FollowInv, Types, TypeOK, RingTypeOK
<1> QED
  BY <1>2, FollowInvariant, PTL

\* Every message from the first sample on has its line, in order and once,
\* until the index of the firmware wraps: rd, wr and i of main.
THEOREM MessagesHaveLines == Spec => []EveryMessageHasItsLine
<1>1. FollowInv => EveryMessageHasItsLine
  BY DEF FollowInv, Book, NextDue, EveryMessageHasItsLine
<1> QED
  BY <1>1, FollowInvariant, PTL

\* A line whose slot was not overtaken shows its own message, although the
\* firmware writes while the fetch reads.
THEOREM LinesShowMessages == Spec => []ShowsItsMessage
<1>1. FollowInv => ShowsItsMessage
  BY DEF FollowInv
<1> QED
  BY <1>1, FollowInvariant, PTL

\* What had been overwritten when main sampled the index is marked with '!'.
THEOREM LossIsMarked == Spec => []LostBeforeSampleIsMarked
<1>1. FollowInv => LostBeforeSampleIsMarked
  BY DEF FollowInv
<1> QED
  BY <1>1, FollowInvariant, PTL

\* The '!' is never a false alarm: the first message of the marked batch itself
\* was lost before its line was printed, in every batch.
THEOREM MarksAreTrue == Spec => []MarkMeansLoss
<1>1. FollowInv => MarkMeansLoss
  BY DEF FollowInv
<1> QED
  BY <1>1, FollowInvariant, PTL

\* A line as far as the screen shows it, and all of them.
Cut(l) == [due |-> l.due, shown |-> l.shown]
Screen == [j \in 1..Len(lines) |-> Cut(lines[j])]

LEMMA ScreenIsIt == Screen = [j \in 1..Len(lines) |->
                                [due |-> lines[j].due, shown |-> lines[j].shown]]
BY DEF Screen, Cut

LEMMA PrintingIsFollowing ==
    ASSUME FollowInv, FetchSecond
    PROVE  Followed!Follow
<1>1. /\ pc = "fetch" /\ lines \in Seq(Line) /\ lines' = Append(lines, NewLine) /\ sent' = sent
      /\ Total \in Nat \ {0} /\ sent \in Nat
  BY Constants DEF FetchSecond, firmware, NewLine, FollowInv, Types
<1>2. Due \in Nat /\ Due < sent /\ Shows(NewLine.shown, Due) /\ NewLine.due = Due
      /\ NewLine \in Line
  BY NewLineShows DEF NewLine
<1> DEFINE d == Due
           v == NewLine.shown
<1>3. d \in 0..sent - 1 /\ d \in Int
  BY <1>1, <1>2
<1>4. v \in {s \in d..sent - 1 : (s - d) % Total = 0} \cup {Torn}
  <2>1. CASE v = Torn
    BY <2>1
  <2>2. CASE v \in d..sent - 1 /\ v % Total = d % Total
    <3> HIDE DEF d, v
    <3>1. v \in Int /\ -d \in Int /\ v + (-d) = v - d /\ d + (-d) = 0
      BY <1>1, <1>3, <2>2
    <3>2. (v + (-d)) % Total = (d + (-d)) % Total
      BY <1>1, <1>3, <2>2, <3>1, Shifted, Zenon
    <3>3. 0 % Total = 0
      BY <1>1
    <3> QED
      BY <2>2, <3>1, <3>2, <3>3
  <2> QED
    BY <1>2, <2>1, <2>2 DEF Shows
<1>5. /\ lines' \in Seq(Line) /\ Len(lines) \in Nat /\ Len(lines') = Len(lines) + 1
      /\ lines'[Len(lines) + 1] = NewLine
      /\ \A j \in 1..Len(lines) : lines'[j] = lines[j]
  BY <1>1, <1>2
<1>6. /\ Len(Screen) = Len(lines)
      /\ \A j \in 1..Len(lines) : Screen[j] = Cut(lines[j])
      /\ Screen \in Seq({Cut(l) : l \in Line})
  BY <1>1, <1>5 DEF Screen
<1>7. \A j \in 1..Len(Screen) : Screen[j].due < d
  <2>1. \A j \in 1..Len(lines) : lines[j].due < d
    BY <1>1 DEF FollowInv, Book, NextDue
  <2> HIDE DEF d
  <2>2. ASSUME NEW j \in 1..Len(lines) PROVE Screen[j].due = lines[j].due
    <3>1. Screen[j] = Cut(lines[j])
      BY <1>6
    <3> QED
      BY <3>1 DEF Cut
  <2> QED
    BY <1>6, <2>1, <2>2
<1>8. Cut(NewLine) = [due |-> d, shown |-> v]
  BY <1>2 DEF Cut
<1>9. Screen' = Append(Screen, Cut(NewLine))
  BY <1>5, <1>6 DEF Screen
<1> HIDE DEF d, v
<1> QED
  BY <1>1, <1>3, <1>4, <1>7, <1>8, <1>9, ScreenIsIt DEF Followed!Follow, Screen, Cut

\* What avlog prints keeps the promise of FollowedLog: no message twice or
\* out of order, none before it is written, even when the index wraps.
THEOREM ImplementsFollowedLog == Spec => FollowsTheLog
<1>1. Init => Followed!Init
  <2> SUFFICES ASSUME Init PROVE Followed!Init
    OBVIOUS
  <2>1. sent \in Nat /\ Len(lines) = 0
    BY Constants DEF Init, RingInit
  <2>2. [j \in 1..Len(lines) |-> [due |-> lines[j].due, shown |-> lines[j].shown]] = <<>>
    BY <2>1
  <2> QED
    BY <2>1, <2>2 DEF Followed!Init
<1>2. FollowInv /\ [Next]_vars =>
        [Followed!Next]_<<sent, [j \in 1..Len(lines) |->
                                   [due |-> lines[j].due, shown |-> lines[j].shown]]>>
  <2> SUFFICES ASSUME FollowInv, [Next]_vars
               PROVE  Followed!Next \/ UNCHANGED <<sent, lines>>
    OBVIOUS
  <2>1. CASE FetchSecond
    BY <2>1, PrintingIsFollowing DEF Followed!Next
  <2>2. CASE EndMessage
    BY <2>2 DEF EndMessage, FinishMessage, Followed!Next, Followed!Emit
  <2>3. CASE BeginMessage
    BY <2>3 DEF BeginMessage, StartMessage
  <2>4. CASE Start \/ StartFails \/ ReadFails \/ Poll \/ FetchFirst \/ EndBatch
    BY <2>4 DEF Start, StartFails, ReadFails, Poll, FetchFirst, EndBatch, firmware
  <2>5. CASE UNCHANGED vars
    BY <2>5 DEF vars, firmware
  <2> QED
    BY <2>1, <2>2, <2>3, <2>4, <2>5 DEF Next, Firmware, Tool, Follow
<1> QED
  BY <1>1, <1>2, FollowInvariant, PTL DEF Spec, FollowsTheLog, Followed!Spec
=============================================================================
