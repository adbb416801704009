---------------------------- MODULE PrintMsgProofs ----------------------------
(***************************************************************************)
(* Proofs about PrintMsg, for every size of the ring and every number of   *)
(* messages: which lines printmsg prints, what they show, and that it      *)
(* implements FollowedLog, lapped or not.                                  *)
(*                                                                         *)
(* printmsg compares indices that are masked to the ring, so the argument  *)
(* is about numbers with the same remainder: as long as the tool is less   *)
(* than a ring behind, the masked indices tell exactly how far it is, and  *)
(* when it is further behind they tell a later message of the same slot.   *)
(* What the arithmetic and the ring need comes first; it is the part that  *)
(* AvLogProofs says of the same ring, where the index has a wrap of its    *)
(* own.                                                                    *)
(***************************************************************************)
EXTENDS PrintMsg, TLAPS

-----------------------------------------------------------------------------
LEMMA Divided ==
    ASSUME NEW n \in Nat \ {0}, NEW a \in Int
    PROVE  /\ a \div n \in Int /\ a % n \in 0..n - 1
           /\ a = n * (a \div n) + (a % n)
OBVIOUS

LEMMA Remainder ==
    ASSUME NEW n \in Nat \ {0}, NEW q \in Int, NEW r \in 0..n - 1
    PROVE  (n * q + r) % n = r
OBVIOUS

\* Two numbers less than n apart with the same remainder are equal.
LEMMA Near ==
    ASSUME NEW n \in Nat \ {0}, NEW a \in Int, NEW b \in Int, a % n = b % n,
           a - b < n, b - a < n
    PROVE  a = b
<1> DEFINE p == a \div n
           q == b \div n
           r == b % n
<1>1. p \in Int /\ q \in Int /\ r \in 0..n - 1 /\ a = n * p + r /\ b = n * q + r
  BY Divided
<1> HIDE DEF p, q, r
<1>2. ASSUME NEW x \in Int, NEW y \in Int, x - y >= 1 PROVE n * x >= n * y + n
  <2>1. n * (x - y) >= n
    <3> DEFINE d == x - y
    <3>1. d \in Int /\ d >= 1
      BY <1>2
    <3> HIDE DEF d
    <3>2. n * d >= n
      BY <3>1
    <3> QED
      BY <3>2 DEF d
  <2> QED
    BY <2>1
<1>3. CASE p - q >= 1
  <2>1. n * p >= n * q + n
    BY <1>1, <1>2, <1>3
  <2> DEFINE u == n * p
             v == n * q
  <2>2. u \in Int /\ v \in Int /\ u >= v + n /\ a = u + r /\ b = v + r
    BY <1>1, <2>1
  <2> HIDE DEF u, v
  <2> QED
    BY <2>2, <1>1
<1>4. CASE q - p >= 1
  <2>1. n * q >= n * p + n
    BY <1>1, <1>2, <1>4
  <2> DEFINE u == n * p
             v == n * q
  <2>2. u \in Int /\ v \in Int /\ v >= u + n /\ a = u + r /\ b = v + r
    BY <1>1, <2>1
  <2> HIDE DEF u, v
  <2> QED
    BY <2>2, <1>1
<1>5. CASE p = q
  BY <1>1, <1>5
<1> QED
  BY <1>1, <1>3, <1>4, <1>5

\* Multiples of n do not change a remainder.
LEMMA Multiple ==
    ASSUME NEW n \in Nat \ {0}, NEW a \in Int, NEW k \in Int
    PROVE  (a + n * k) % n = a % n
<1> DEFINE q == a \div n
           r == a % n
<1>1. q \in Int /\ r \in 0..n - 1 /\ a = n * q + r
  BY Divided
<1> HIDE DEF q
<1>2. a + n * k = n * (q + k) + r
  <2>1. n * (q + k) = n * q + n * k
    BY <1>1
  <2> QED
    BY <1>1, <2>1
<1>3. q + k \in Int
  BY <1>1
<1> HIDE DEF r
<1>4. (n * (q + k) + r) % n = r
  BY <1>1, <1>3, Remainder
<1> QED
  BY <1>2, <1>4 DEF r

LEMMA Ring == ASSUME NEW n \in Nat \ {0}, NEW a \in Int
  PROVE (a + n) % n = a % n /\ (a - n) % n = a % n
<1>0. 1 \in Int /\ -1 \in Int
  OBVIOUS
<1>1. (a + n * 1) % n = a % n /\ (a + n * (-1)) % n = a % n
  BY <1>0, Multiple, Zenon
<1>2. n * 1 = n /\ a + n * (-1) = a - n
  OBVIOUS
<1> QED
  BY <1>1, <1>2

\* Equal differences.
LEMMA Shifted ==
    ASSUME NEW n \in Nat \ {0}, NEW a \in Int, NEW b \in Int, NEW d \in Int, a % n = b % n
    PROVE  (a + d) % n = (b + d) % n
<1> DEFINE p == a \div n
           q == b \div n
           r == b % n
<1>1. p \in Int /\ q \in Int /\ r \in 0..n - 1 /\ a = n * p + r /\ b = n * q + r
  BY Divided
<1> HIDE DEF p, q, r
<1>2. p - q \in Int /\ n * (p - q) = n * p - n * q
  BY <1>1
<1>3. (b + d) + n * (p - q) = a + d
  <2> DEFINE u == n * p
             v == n * q
             x == n * (p - q)
  <2>1. u \in Int /\ v \in Int /\ x = u - v /\ a = u + r /\ b = v + r
    BY <1>1, <1>2
  <2> HIDE DEF u, v, x
  <2>2. (b + d) + x = a + d
    BY <2>1, <1>1
  <2> QED
    BY <2>2 DEF x
<1>4. ((b + d) + n * (p - q)) % n = (b + d) % n
  <2>1. b + d \in Int /\ p - q \in Int
    BY <1>2
  <2> QED
    BY <2>1, Multiple, Zenon
<1> QED
  BY <1>3, <1>4

-----------------------------------------------------------------------------
(***************************************************************************)
(* The inductive invariant                                                 *)
(***************************************************************************)

\* 1 while the firmware is in the middle of a message.
Unfinished == IF writing THEN 1 ELSE 0

\* The ring holds the last Total messages, but for the one that is being
\* overwritten.
Holds ==
    \A n \in sent - Total..sent - 1 :
        slot[n % Total] = IF writing /\ n = sent - Total THEN Torn ELSE n

\* v is what the slot of message d shows, once d is written.
Shows(v, d) ==
    /\ \/ v \in d..sent - 1 /\ v % Total = d % Total
       \/ v = Torn
    /\ ~Overwritten(d) => v = d

\* rd_idx is in the slot of the message that is expected next, or, while a
\* message is printed, of one that a sample found; this is not older, and it
\* is the expected one unless some sample came too late.
Following ==
    /\ pc = "start" => lines = <<>> /\ ~lapped
    /\ pc = "poll" => Expected <= sent /\ rd % Total = Expected % Total
    /\ pc \in {"print", "rest"} =>
          /\ rd = due % Total /\ Expected <= due /\ due < sent
          /\ ~lapped => due = Expected

\* The first half of a message.
HalfSeen == pc = "rest" => Shows(half, due)

\* Lines are in order, and complete until a sample comes too late.
Book ==
    /\ Expected \in Nat
    /\ \A j \in 1..Len(lines) : lines[j].due < Expected
    /\ ~lapped => /\ Expected = base + Len(lines)
                  /\ \A j \in 1..Len(lines) : lines[j].due = base + j - 1

PrintInv ==
    /\ TypeOK /\ Holds /\ Following /\ HalfSeen /\ Book /\ ShowsItsMessage

LEMMA Constants ==
    /\ Total \in Nat \ {0}
    /\ FirstSent \subseteq Nat /\ MaxSent \in Nat /\ Torn \notin Int
BY LogRingAssumption

\* There is a message of every slot among the last Total ones.
LEMMA Covered ==
    ASSUME NEW s \in Int, NEW k \in 0..Total - 1
    PROVE  \E n \in s - Total..s - 1 : n % Total = k
<1> DEFINE q == (s - 1 - k) \div Total
           r == (s - 1 - k) % Total
<1>1. q \in Int /\ r \in 0..Total - 1 /\ s - 1 - k = Total * q + r
  <2>1. s - 1 - k \in Int
    BY Constants
  <2> QED
    BY <2>1, Constants, Divided
<1> HIDE DEF q, r
<1>2. (Total * q + k) % Total = k
  BY <1>1, Constants, Remainder
<1> DEFINE u == Total * q
<1>3. u \in Int /\ s - 1 - k = u + r
  BY <1>1, Constants
<1>4. (u + k) % Total = k
  BY <1>2
<1> HIDE DEF u
<1>5. u + k \in s - Total..s - 1
  BY <1>1, <1>3, Constants
<1> QED
  BY <1>4, <1>5

\* What the slot of a written message shows.
LEMMA SlotShows ==
    ASSUME RingTypeOK, Holds, NEW d \in Int, d < sent
    PROVE  Shows(slot[d % Total], d)
<1>1. d % Total \in 0..Total - 1
  BY Constants, Divided
<1>2. PICK n \in sent - Total..sent - 1 : n % Total = d % Total
  BY <1>1, Covered DEF RingTypeOK
<1>3. slot[d % Total] = IF writing /\ n = sent - Total THEN Torn ELSE n
  BY <1>2 DEF Holds
<1>4. n \in Int /\ sent \in Nat /\ writing \in BOOLEAN /\ Total \in Nat \ {0}
  BY <1>2, Constants DEF RingTypeOK
<1>5. n >= d
  <2>1. SUFFICES ASSUME n < d PROVE FALSE
    BY <1>4
  <2>2. n - d < Total /\ d - n < Total
    BY <1>2, <1>4, <2>1
  <2>3. n = d
    BY <1>2, <1>4, <2>2, Near, Zenon
  <2> QED
    BY <1>4, <2>1, <2>3
<1>6. n = d \/ n - d >= Total
  <2>1. SUFFICES ASSUME n - d < Total PROVE n = d
    BY <1>4
  <2>2. d - n < Total
    BY <1>4, <1>5
  <2> QED
    BY <1>2, <1>4, <2>1, <2>2, Near, Zenon
<1> HIDE DEF Holds
<1>7. CASE writing /\ n = sent - Total
  BY <1>3, <1>4, <1>5, <1>7 DEF Shows, Overwritten
<1>8. CASE ~(writing /\ n = sent - Total)
  <2>1. slot[d % Total] = n
    BY <1>3, <1>8
  <2>2. n \in d..sent - 1
    BY <1>2, <1>4, <1>5
  <2>3. ~Overwritten(d) => n = d
    BY <1>2, <1>4, <1>6 DEF Overwritten
  <2> QED
    BY <1>2, <2>1, <2>2, <2>3 DEF Shows
<1> QED
  BY <1>7, <1>8

\* Overwritten, in a form that the arithmetic of the proofs can use.
LEMMA Lap ==
    ASSUME NEW d
    PROVE  /\ Overwritten(d) <=> sent + Unfinished > d + Total
           /\ Overwritten(d)' <=> sent' + Unfinished' > d + Total
           /\ Unfinished \in 0..1 /\ Unfinished' \in 0..1
<1>1. /\ Overwritten(d) <=> sent + Unfinished > d + Total
      /\ Overwritten(d)' <=> sent' + Unfinished' > d + Total
  BY Zenon DEF Overwritten, Unfinished
<1>2. Unfinished \in {0, 1} /\ Unfinished' \in {0, 1}
  BY Zenon DEF Unfinished
<1>3. {0, 1} = 0..1
  OBVIOUS
<1> QED
  BY <1>1, <1>2, <1>3

\* A message that is in its slot stays in its slot or is overwritten.
LEMMA ShowsLater ==
    ASSUME NEW v, NEW d \in Int, Shows(v, d), sent \in Nat, sent' \in Nat, sent' >= sent,
           sent' + Unfinished' >= sent + Unfinished
    PROVE  Shows(v, d)'
<1> DEFINE m == sent
           n == sent'
           x == Unfinished
           y == Unfinished'
<1>1. /\ m \in Nat /\ n \in Nat /\ n >= m /\ n + y >= m + x /\ x \in 0..1 /\ y \in 0..1
      /\ Total \in Nat
      /\ (Overwritten(d) <=> m + x > d + Total)
      /\ (Overwritten(d)' <=> n + y > d + Total)
  BY Lap, Constants
<1>2. /\ (v \in d..m - 1 /\ v % Total = d % Total) \/ v = Torn
      /\ ~Overwritten(d) => v = d
  BY DEF Shows
<1>3. ((v \in d..n - 1 /\ v % Total = d % Total) \/ v = Torn) /\ (~Overwritten(d)' => v = d)
           => Shows(v, d)'
  BY Zenon DEF Shows
<1> HIDE DEF m, n, x, y
<1>4. v \in d..m - 1 => v \in d..n - 1
  BY <1>1
<1>5. Overwritten(d) => Overwritten(d)'
  BY <1>1
<1> QED
  BY <1>2, <1>3, <1>4, <1>5, Zenon

\* What the firmware does to the ring.
LEMMA RingSteps ==
    ASSUME RingTypeOK, Holds, StartMessage \/ FinishMessage
    PROVE  /\ Holds'
           /\ slot' \in [0..Total - 1 -> Int \cup {Torn}]
           /\ sent' \in Nat /\ writing' \in BOOLEAN
           /\ sent' >= sent /\ sent' + Unfinished' >= sent + Unfinished
<1>1. Total \in Nat \ {0} /\ sent \in Nat /\ writing \in BOOLEAN
  BY Constants DEF RingTypeOK
<1>2. sent % Total \in 0..Total - 1
  BY <1>1, Divided
<1>3. slot \in [0..Total - 1 -> Int \cup {Torn}]
  BY DEF RingTypeOK
<1>4. ASSUME NEW n \in sent - Total + 1..sent - 1
      PROVE  n % Total \in 0..Total - 1 /\ n % Total # sent % Total
  <2>1. n \in Int /\ n - sent < Total /\ sent - n < Total /\ n # sent
    BY <1>1
  <2>2. n % Total \in 0..Total - 1
    BY <1>1, <2>1, Divided
  <2>3. n % Total # sent % Total
    <3>1. sent \in Int
      BY <1>1
    <3> QED
      BY <1>1, <2>1, <3>1, Near, Zenon
  <2> QED
    BY <2>2, <2>3
<1>5. CASE StartMessage
  <2>1. ~writing /\ writing' = TRUE /\ sent' = sent
        /\ slot' = [slot EXCEPT ![sent % Total] = Torn]
    BY <1>5 DEF StartMessage
  <2>2. slot' \in [0..Total - 1 -> Int \cup {Torn}]
    BY <1>3, <2>1
  <2>3. Holds'
    <3> SUFFICES ASSUME NEW n \in sent - Total..sent - 1
                 PROVE  slot'[n % Total] = IF n = sent - Total THEN Torn ELSE n
      BY <2>1 DEF Holds
    <3>1. CASE n = sent - Total
      <4>1. n % Total = sent % Total
        <5>1. sent \in Int
          BY <1>1
        <5> QED
          BY <1>1, <3>1, <5>1, Ring, Zenon
      <4> QED
        BY <1>2, <1>3, <2>1, <3>1, <4>1
    <3>2. CASE n # sent - Total
      <4>1. n \in sent - Total + 1..sent - 1
        BY <1>1, <3>2
      <4>2. slot[n % Total] = n
        BY <2>1, <3>2 DEF Holds
      <4>3. slot'[n % Total] = slot[n % Total]
        BY <1>2, <1>3, <1>4, <2>1, <4>1
      <4> QED
        BY <3>2, <4>2, <4>3
    <3> QED
      BY <3>1, <3>2
  <2>4. Unfinished = 0 /\ Unfinished' = 1
    BY <2>1, Zenon DEF Unfinished
  <2> QED
    BY <1>1, <2>1, <2>2, <2>3, <2>4
<1>6. CASE FinishMessage
  <2>1. writing /\ writing' = FALSE /\ sent' = sent + 1
        /\ slot' = [slot EXCEPT ![sent % Total] = sent]
    BY <1>6 DEF FinishMessage
  <2>2. slot' \in [0..Total - 1 -> Int \cup {Torn}]
    BY <1>1, <1>3, <2>1
  <2>3. Holds'
    <3> SUFFICES ASSUME NEW n \in sent + 1 - Total..sent
                 PROVE  slot'[n % Total] = n
      BY <1>1, <2>1 DEF Holds
    <3>1. CASE n = sent
      BY <1>2, <1>3, <2>1, <3>1
    <3>2. CASE n # sent
      <4>1. n \in sent - Total + 1..sent - 1
        BY <1>1, <3>2
      <4>2. n \in sent - Total..sent - 1 /\ n # sent - Total
        BY <1>1, <4>1
      <4>3. slot[n % Total] = n
        BY <4>2 DEF Holds
      <4>4. slot'[n % Total] = slot[n % Total]
        BY <1>2, <1>3, <1>4, <2>1, <4>1
      <4> QED
        BY <4>3, <4>4
    <3> QED
      BY <3>1, <3>2
  <2>4. Unfinished = 1 /\ Unfinished' = 0
    BY <2>1, Zenon DEF Unfinished
  <2>5. sent \in Nat /\ sent' = sent + 1 /\ writing' \in BOOLEAN
    BY <1>1, <2>1
  <2>6. sent' \in Nat /\ sent' >= sent /\ sent' + Unfinished' >= sent + Unfinished
    BY <2>4, <2>5
  <2> QED
    BY <2>2, <2>3, <2>5, <2>6, Zenon
<1> QED
  BY <1>5, <1>6

-----------------------------------------------------------------------------
(***************************************************************************)
(* The invariant holds at first, and every step keeps it                   *)
(***************************************************************************)

\* A line as TypeOK has it.
LineKinds == [due : Nat, shown : Nat \cup {Torn}, lapped : BOOLEAN]

LEMMA LinesTypes ==
    ASSUME TypeOK
    PROVE  /\ lines \in Seq(LineKinds) /\ Len(lines) \in Nat
           /\ \A j \in 1..Len(lines) : lines[j] \in LineKinds /\ lines[j].due \in Nat
<1>1. lines \in Seq(LineKinds)
  BY DEF TypeOK, LineKinds
<1>2. \A j \in 1..Len(lines) : lines[j] \in LineKinds
  BY <1>1
<1>3. \A l \in LineKinds : l.due \in Nat
  BY DEF LineKinds
<1> QED
  BY <1>1, <1>2, <1>3

LEMMA RingInitHolds ==
    ASSUME RingInit
    PROVE  RingTypeOK /\ Holds
<1>1. Total \in Nat \ {0} /\ sent \in Nat /\ writing = FALSE
  BY Constants DEF RingInit
<1>2. \A k \in 0..Total - 1 : /\ slot[k] \in sent - Total..sent - 1
                             /\ slot[k] % Total = k
  <2> TAKE k \in 0..Total - 1
  <2>1. \E n \in sent - Total..sent - 1 : n % Total = k
    <3>1. sent \in Int
      BY <1>1
    <3> QED
      BY <3>1, Covered, Zenon
  <2>2. slot[k] = CHOOSE n \in sent - Total..sent - 1 : n % Total = k
    BY DEF RingInit
  <2> QED
    BY <2>1, <2>2
<1>3. slot \in [0..Total - 1 -> Int \cup {Torn}]
  <2>1. slot = [k \in 0..Total - 1 |-> CHOOSE n \in sent - Total..sent - 1 : n % Total = k]
    BY DEF RingInit
  <2>2. \A k \in 0..Total - 1 : slot[k] \in Int \cup {Torn}
    BY <1>1, <1>2
  <2> QED
    BY <2>1, <2>2
<1>4. Holds
  <2> SUFFICES ASSUME NEW n \in sent - Total..sent - 1
               PROVE  slot[n % Total] = n
    BY <1>1 DEF Holds
  <2> DEFINE m == slot[n % Total]
  <2>1. n \in Int /\ n % Total \in 0..Total - 1
    BY <1>1, Divided
  <2>2. m \in sent - Total..sent - 1 /\ m % Total = n % Total
    BY <1>2, <2>1
  <2> HIDE DEF m
  <2>3. m \in Int /\ m - n < Total /\ n - m < Total
    BY <1>1, <2>2
  <2>4. m = n
    BY <1>1, <2>1, <2>2, <2>3, Near, Zenon
  <2> QED
    BY <2>4 DEF m
<1> QED
  BY <1>1, <1>3, <1>4 DEF RingTypeOK

LEMMA AtFirst == Init => PrintInv
<1> SUFFICES ASSUME Init PROVE PrintInv
  OBVIOUS
<1>1. /\ RingTypeOK /\ Holds /\ Total \in Nat \ {0} /\ Len(lines) = 0
      /\ pc = "start" /\ rd = 0 /\ wr = 0 /\ half = Torn /\ lines = <<>>
      /\ base = 0 /\ due = 0 /\ lapped = FALSE
  BY RingInitHolds, Constants DEF Init
<1>2. TypeOK
  <2>1. lines \in Seq([due : Nat, shown : Nat \cup {Torn}, lapped : BOOLEAN])
    BY <1>1
  <2>2. 0 \in 0..Total /\ 0 \in 0..Total - 1 /\ 0 \in Nat /\ 0 \in Int
    BY <1>1
  <2> QED
    BY <1>1, <2>1, <2>2 DEF TypeOK
<1>3. Expected = 0
  BY <1>1 DEF Expected
<1>4. Following /\ HalfSeen
  BY <1>1 DEF Following, HalfSeen
<1>5. Book /\ ShowsItsMessage
  BY <1>1, <1>3 DEF Book, ShowsItsMessage
<1> QED
  BY <1>1, <1>2, <1>4, <1>5 DEF PrintInv

\* A message of the firmware.
LEMMA FirmwareKeeps ==
    ASSUME PrintInv, BeginMessage \/ EndMessage
    PROVE  PrintInv'
<1>1. StartMessage \/ FinishMessage
  BY DEF BeginMessage, EndMessage
<1>2. UNCHANGED <<pc, rd, wr, half, lines, base, due, lapped>>
  BY DEF BeginMessage, EndMessage, history
<1>3. RingTypeOK /\ Holds
  BY DEF PrintInv, TypeOK
<1>4. /\ Holds'
      /\ slot' \in [0..Total - 1 -> Int \cup {Torn}]
      /\ sent' \in Nat /\ writing' \in BOOLEAN
      /\ sent' >= sent /\ sent' + Unfinished' >= sent + Unfinished
  BY <1>1, <1>3, RingSteps
<1>5. TypeOK'
  BY <1>2, <1>4 DEF PrintInv, TypeOK, RingTypeOK
<1>6. Expected' = Expected /\ Expected \in Nat
  BY <1>2 DEF PrintInv, Book, Expected
<1>7. Following'
  <2>1. sent \in Nat /\ due \in Int
    BY DEF PrintInv, TypeOK, RingTypeOK
  <2> QED
    BY <1>2, <1>4, <1>6, <2>1 DEF PrintInv, Following
<1>8. HalfSeen'
  <2>1. due \in Int /\ sent \in Nat
    BY DEF PrintInv, TypeOK, RingTypeOK
  <2>2. ASSUME NEW d, NEW v, d = due, v = half, Shows(v, d) PROVE Shows(v, d)'
    BY <1>4, <2>1, <2>2, ShowsLater
  <2>3. \A d, v : d = due /\ v = half /\ Shows(v, d) => Shows(v, d)'
    BY <2>2
  <2> QED
    BY <1>2, <2>3 DEF PrintInv, HalfSeen
<1>9. Book'
  BY <1>2, <1>6 DEF PrintInv, Book
<1>10. ShowsItsMessage'
  BY <1>2 DEF PrintInv, ShowsItsMessage
<1> QED
  BY <1>4, <1>5, <1>7, <1>8, <1>9, <1>10 DEF PrintInv

LEMMA StartKeeps == ASSUME PrintInv, Start \/ StartFails PROVE PrintInv'
<1>1. /\ pc = "start" /\ lines = <<>> /\ ~lapped
      /\ UNCHANGED <<sent, writing, slot, wr, half, lines, due, lapped>>
  BY DEF PrintInv, Following, Start, StartFails, firmware, history
<1>2. Total \in Nat \ {0} /\ sent \in Nat /\ Len(lines) = 0 /\ Expected' = base'
  BY <1>1, Constants DEF PrintInv, TypeOK, RingTypeOK, Expected
<1>3. \/ pc' = "poll" /\ rd' = sent % Total /\ base' = sent
      \/ pc' = "exit" /\ rd' = rd /\ base' = base
  BY DEF Start, StartFails, index, history
<1>4. sent % Total \in 0..Total - 1 /\ (sent % Total) % Total = sent % Total
  BY <1>2
<1>5. rd' \in 0..Total /\ base' \in Nat
  BY <1>2, <1>3, <1>4 DEF PrintInv, TypeOK
<1>6. TypeOK'
  BY <1>1, <1>3, <1>5 DEF PrintInv, TypeOK, RingTypeOK
<1>7. Holds'
  BY <1>1 DEF PrintInv, Holds
<1>8. Following' /\ HalfSeen'
  <2>1. CASE pc' = "poll" /\ rd' = sent % Total /\ base' = sent
    <3>1. Expected' = sent /\ sent' = sent /\ sent <= sent
      BY <1>1, <1>2, <2>1
    <3> QED
      BY <1>4, <2>1, <3>1 DEF Following, HalfSeen
  <2>2. CASE pc' = "exit"
    BY <2>2 DEF Following, HalfSeen
  <2> QED
    BY <1>3, <2>1, <2>2
<1>9. Len(lines') = 0 /\ \A j \in 1..Len(lines') : FALSE
  BY <1>1, <1>2
<1>10. Book'
  <2>1. Expected' \in Nat /\ Expected' = base' + Len(lines')
    <3> DEFINE b == base'
    <3>1. b \in Nat /\ Expected' = b
      BY <1>2, <1>5
    <3> HIDE DEF b
    <3>2. b + 0 = b
      BY <3>1
    <3> QED
      BY <1>9, <3>1, <3>2 DEF b
  <2> QED
    BY <1>9, <2>1, Zenon DEF Book
<1>11. ShowsItsMessage'
  BY <1>9 DEF ShowsItsMessage
<1> QED
  BY <1>6, <1>7, <1>8, <1>10, <1>11 DEF PrintInv

-----------------------------------------------------------------------------
\* Going back from s by what the masked indices of s and e are apart leads to a
\* message of the slot of e, less than a ring before s.
LEMMA GoingBack ==
    ASSUME NEW n \in Nat \ {0}, NEW s \in Int, NEW e \in Int
    PROVE  LET a == ((s % n) - (e % n)) % n
           IN  a \in 0..n - 1 /\ (s - a) % n = e % n
<1> DEFINE x == s % n
           r == e % n
           a == (x - r) % n
<1>1. x \in 0..n - 1 /\ r \in 0..n - 1 /\ x % n = s % n
  <2>1. x \in 0..n - 1 /\ r \in 0..n - 1
    BY Divided
  <2> HIDE DEF x, r
  <2>2. x % n = x
    BY <2>1
  <2> QED
    BY <2>1, <2>2 DEF x
<1>2. (x - r) % n = (s - r) % n
  <2> HIDE DEF x, r
  <2>1. x \in Int /\ -r \in Int /\ x + (-r) = x - r /\ s + (-r) = s - r
    BY <1>1
  <2>2. (x + (-r)) % n = (s + (-r)) % n
    BY <1>1, <2>1, Shifted, Zenon
  <2> QED
    BY <2>1, <2>2
<1> DEFINE q == (s - r) \div n
<1>3. q \in Int /\ a \in 0..n - 1 /\ s - r = n * q + a
  <2> HIDE DEF x, r
  <2>1. s - r \in Int
    BY <1>1
  <2>2. q \in Int /\ (s - r) % n \in 0..n - 1 /\ s - r = n * q + ((s - r) % n)
    BY <2>1, Divided
  <2> QED
    BY <1>2, <2>2
<1> HIDE DEF x, r, q, a
<1>4. s - a = n * q + r
  <2> DEFINE u == n * q
  <2>1. u \in Int /\ s - r = u + a /\ r \in Int /\ a \in Int
    BY <1>1, <1>3
  <2> HIDE DEF u
  <2>2. s - a = u + r
    BY <2>1
  <2> QED
    BY <2>2 DEF u
<1>5. (n * q + r) % n = r
  BY <1>1, <1>3, Remainder
<1> QED
  BY <1>3, <1>4, <1>5 DEF a, x, r

\* What a sample finds: a message of the slot that rd_idx is in, which is the
\* expected one unless the firmware is a ring ahead of that, and is a written one
\* unless the masked indices are equal.
LEMMA SampleFinds ==
    ASSUME PrintInv, Poll
    PROVE  /\ due' \in Int /\ Expected <= due' /\ due' <= sent
           /\ rd' = due' % Total
           /\ rd' # sent % Total => due' < sent
           /\ ~lapped' => due' = Expected
<1> DEFINE e == Expected
           a == ((sent % Total) - (e % Total)) % Total
<1>1. /\ Total \in Nat \ {0} /\ sent \in Nat /\ e \in Nat /\ e <= sent
      /\ rd % Total = e % Total
  BY Constants DEF PrintInv, TypeOK, RingTypeOK, Following, Book, Poll
<1>2. /\ rd' = rd % Total /\ lapped' = (lapped \/ sent - e >= Total)
      /\ due' = sent - Ahead(rd', sent % Total)
  BY DEF Poll, Sampled, index
<1>3. due' = sent - a
  <2>1. rd' = e % Total
    BY <1>1, <1>2
  <2> QED
    BY <1>2, <2>1 DEF Ahead
<1>4. a \in 0..Total - 1 /\ (sent - a) % Total = e % Total
  <2>1. sent \in Int /\ e \in Int
    BY <1>1
  <2> HIDE DEF e
  <2> QED
    BY <1>1, <2>1, GoingBack
<1> HIDE DEF e, a
<1> DEFINE d == sent - a
<1>5. d \in Int /\ d % Total = e % Total /\ d <= sent /\ d > sent - Total /\ due' = d
  BY <1>1, <1>3, <1>4
<1> HIDE DEF d
<1>6. e <= d
  <2> SUFFICES ASSUME d < e PROVE FALSE
    BY <1>1, <1>5
  <2>1. e \in Int /\ d \in Int /\ e - d < Total /\ d - e < Total /\ e % Total = d % Total
    BY <1>1, <1>5
  <2>2. e = d
    BY <1>1, <2>1, Near, Zenon
  <2> QED
    BY <1>1, <1>5, <2>2
<1>7. ~lapped' => d = e
  <2>0. ~lapped' => ~(sent - e >= Total)
    BY <1>2, Zenon
  <2> SUFFICES ASSUME sent - e < Total PROVE d = e
    BY <1>1, <2>0
  <2>1. e \in Int /\ d \in Int /\ e - d < Total /\ d - e < Total /\ e % Total = d % Total
    BY <1>1, <1>5
  <2> QED
    BY <1>1, <2>1, Near, Zenon
<1>8. rd' # sent % Total => d < sent
  BY <1>1, <1>2, <1>5
<1>9. rd' = d % Total
  BY <1>1, <1>2, <1>5
<1> QED
  BY <1>5, <1>6, <1>7, <1>8, <1>9 DEF e

LEMMA PollKeeps == ASSUME PrintInv, Poll PROVE PrintInv'
<1>1. /\ pc = "poll" /\ rd' = rd % Total /\ wr' = sent % Total
      /\ pc' = IF rd' = sent % Total THEN "poll" ELSE "print"
      /\ lapped' = (lapped \/ sent - Expected >= Total)
      /\ UNCHANGED <<sent, writing, slot, half, lines, base>>
  BY DEF Poll, Sampled, index, firmware
<1>2. /\ Total \in Nat \ {0} /\ sent \in Nat /\ rd \in 0..Total
      /\ Expected <= sent /\ rd % Total = Expected % Total /\ Expected \in Nat
  BY <1>1, Constants DEF PrintInv, TypeOK, RingTypeOK, Following, Book
<1>3. Expected' = Expected
  BY <1>1 DEF Expected
<1>4. /\ rd % Total \in 0..Total - 1 /\ sent % Total \in 0..Total - 1
      /\ (rd % Total) % Total = rd % Total
  BY <1>2
<1>5. /\ due' \in Int /\ Expected <= due' /\ rd' = due' % Total
      /\ rd' # sent % Total => due' < sent
      /\ ~lapped' => due' = Expected
  BY SampleFinds
<1>6. TypeOK'
  <2>1. rd' \in 0..Total /\ rd' < Total /\ wr' \in 0..Total - 1 /\ lapped' \in BOOLEAN
    BY <1>1, <1>2, <1>4 DEF PrintInv, TypeOK
  <2>2. pc' \in {"poll", "print"}
    BY <1>1
  <2> QED
    BY <1>1, <1>5, <2>1, <2>2 DEF PrintInv, TypeOK, RingTypeOK
<1>7. Holds'
  BY <1>1 DEF PrintInv, Holds
<1>8. Following'
  <2>1. CASE rd' = sent % Total
    <3>1. rd' % Total = Expected % Total
      BY <1>1, <1>2, <1>4
    <3> QED
      BY <1>1, <1>2, <1>3, <2>1, <3>1 DEF Following
  <2>2. CASE rd' # sent % Total
    BY <1>1, <1>3, <1>5, <2>2 DEF Following
  <2> QED
    BY <2>1, <2>2
<1>9. HalfSeen'
  BY <1>1 DEF HalfSeen
<1>10. Book'
  BY <1>1, <1>3 DEF PrintInv, Book
<1>11. ShowsItsMessage'
  BY <1>1 DEF PrintInv, ShowsItsMessage
<1> QED
  BY <1>6, <1>7, <1>8, <1>9, <1>10, <1>11 DEF PrintInv

\* The message that is being printed.
LEMMA Printing ==
    ASSUME PrintInv, pc \in {"print", "rest"}
    PROVE  /\ due \in Nat /\ due < sent /\ Expected <= due
           /\ rd = due % Total /\ Shows(slot[rd], due)
           /\ slot[rd] \in Int \cup {Torn}
<1>1. /\ due \in Int /\ due < sent /\ Expected <= due /\ Expected \in Nat /\ rd = due % Total
      /\ Total \in Nat \ {0} /\ RingTypeOK /\ Holds
  BY Constants DEF PrintInv, TypeOK, Following, Book
<1>2. rd \in 0..Total - 1
  BY <1>1, Divided
<1>3. Shows(slot[rd], due)
  BY <1>1, SlotShows
<1>4. slot[rd] \in Int \cup {Torn}
  BY <1>1, <1>2 DEF RingTypeOK
<1> QED
  BY <1>1, <1>3, <1>4

LEMMA PrintFirstKeeps == ASSUME PrintInv, PrintFirst PROVE PrintInv'
<1>1. /\ pc = "print" /\ pc' = "rest" /\ half' = slot[rd]
      /\ UNCHANGED <<sent, writing, slot, rd, wr, lines, base, due, lapped>>
  BY DEF PrintFirst, firmware, history
<1>2. Shows(slot[rd], due) /\ slot[rd] \in Int \cup {Torn}
  BY <1>1, Printing
<1>3. TypeOK' /\ Holds'
  BY <1>1, <1>2 DEF PrintInv, TypeOK, RingTypeOK, Holds
<1>4. Expected' = Expected
  BY <1>1 DEF Expected
<1>5. Following' /\ Book' /\ ShowsItsMessage'
  BY <1>1, <1>4 DEF PrintInv, Following, Book, ShowsItsMessage
<1>6. HalfSeen'
  BY <1>1, <1>2 DEF HalfSeen, Shows, Overwritten
<1> QED
  BY <1>3, <1>5, <1>6 DEF PrintInv

\* What the screen shows of the message, from the two halves.
Seen == IF slot[rd] = half THEN half ELSE Torn

LEMMA SeenShows ==
    ASSUME PrintInv, pc = "rest"
    PROVE  Shows(Seen, due) /\ Line(Seen) \in LineKinds
<1>1. due \in Nat /\ Shows(slot[rd], due) /\ Shows(half, due) /\ sent \in Nat
  BY Printing DEF PrintInv, HalfSeen, TypeOK, RingTypeOK
<1>2. Shows(Seen, due)
  <2>1. CASE slot[rd] = half
    BY <1>1, <2>1 DEF Seen
  <2>2. CASE slot[rd] # half
    <3>1. Overwritten(due)
      BY <1>1, <2>2, Zenon DEF Shows
    <3> QED
      BY <2>2, <3>1 DEF Shows, Seen
  <2> QED
    BY <2>1, <2>2
<1>3. Seen \in Nat \cup {Torn}
  BY <1>1, <1>2 DEF Shows
<1>4. Overwritten(due) \in BOOLEAN
  BY DEF Overwritten
<1> QED
  BY <1>1, <1>2, <1>3, <1>4 DEF Line, LineKinds

LEMMA PrintSecondKeeps == ASSUME PrintInv, PrintSecond PROVE PrintInv'
<1>1. /\ pc = "rest" /\ pc' = "poll" /\ rd' = rd + 1 /\ lines' = Append(lines, Line(Seen))
      /\ UNCHANGED <<sent, writing, slot, wr, half, base, due, lapped>>
  BY DEF PrintSecond, firmware, history, Seen
<1>2. /\ due \in Nat /\ due < sent /\ Expected <= due /\ rd = due % Total
      /\ Shows(Seen, due) /\ Line(Seen) \in LineKinds
  BY <1>1, Printing, SeenShows
<1>3. /\ Total \in Nat \ {0} /\ sent \in Nat /\ base \in Nat /\ rd \in 0..Total - 1
      /\ Expected \in Nat /\ (~lapped => due = Expected)
  BY <1>1, Constants DEF PrintInv, TypeOK, RingTypeOK, Following, Book
<1>4. /\ lines \in Seq(LineKinds) /\ Len(lines) \in Nat
      /\ \A j \in 1..Len(lines) : lines[j].due \in Nat
  BY LinesTypes DEF PrintInv
<1>5. /\ lines' \in Seq(LineKinds) /\ Len(lines') = Len(lines) + 1 /\ lines' # <<>>
      /\ lines'[Len(lines) + 1] = Line(Seen)
      /\ \A j \in 1..Len(lines) : lines'[j] = lines[j]
  BY <1>1, <1>2, <1>4
<1>6. \A j \in 1..Len(lines') : j \in 1..Len(lines) \/ j = Len(lines) + 1
  BY <1>4, <1>5
<1>7. /\ Line(Seen).due = due /\ Line(Seen).shown = Seen
      /\ Line(Seen).lapped = Overwritten(due)
  BY DEF Line
<1>8. Expected' = due + 1
  BY <1>5, <1>7 DEF Expected
<1>9. TypeOK' /\ Holds'
  <2>1. rd + 1 \in 0..Total
    BY <1>3
  <2> QED
    BY <1>1, <1>5, <2>1 DEF PrintInv, TypeOK, RingTypeOK, Holds, LineKinds
<1>10. Following'
  <2>1. rd % Total = due % Total /\ rd \in Int /\ due \in Int /\ 1 \in Int
    BY <1>2, <1>3
  <2>2. (rd + 1) % Total = (due + 1) % Total
    BY <1>3, <2>1, Shifted
  <2> QED
    BY <1>1, <1>2, <1>3, <1>8, <2>2 DEF Following
<1>11. HalfSeen'
  BY <1>1 DEF HalfSeen
<1>12. Book'
  <2>1. /\ \A j \in 1..Len(lines) : lines[j].due < Expected
        /\ ~lapped => /\ Expected = base + Len(lines)
                      /\ \A j \in 1..Len(lines) : lines[j].due = base + j - 1
    BY DEF PrintInv, Book
  <2>2. \A j \in 1..Len(lines') : lines'[j].due < due + 1
    <3>1. \A j \in 1..Len(lines) : lines'[j].due < due + 1
      BY <1>2, <1>3, <1>4, <1>5, <2>1
    <3>2. lines'[Len(lines) + 1].due < due + 1
      BY <1>2, <1>5, <1>7
    <3> QED
      BY <1>6, <3>1, <3>2
  <2>3. ~lapped => due + 1 = base + Len(lines')
    BY <1>2, <1>3, <1>4, <1>5, <2>1
  <2>4. ~lapped => \A j \in 1..Len(lines') : lines'[j].due = base + j - 1
    BY <1>3, <1>4, <1>5, <1>6, <1>7, <2>1
  <2> QED
    BY <1>1, <1>2, <1>8, <2>2, <2>3, <2>4 DEF Book
<1>13. ShowsItsMessage'
  <2>1. ~Overwritten(due) => Seen = due
    BY <1>2, Zenon DEF Shows
  <2> QED
    BY <1>5, <1>6, <1>7, <2>1 DEF PrintInv, ShowsItsMessage
<1> QED
  BY <1>9, <1>10, <1>11, <1>12, <1>13 DEF PrintInv

LEMMA StutterKeeps == ASSUME PrintInv, UNCHANGED vars PROVE PrintInv'
<1>1. UNCHANGED <<sent, writing, slot, pc, rd, wr, half, lines, base, due, lapped>>
  BY DEF vars, firmware, history
<1>2. TypeOK' /\ Holds'
  BY <1>1 DEF PrintInv, TypeOK, RingTypeOK, Holds
<1>3. Expected' = Expected
  BY <1>1 DEF Expected
<1>4. Following' /\ Book' /\ ShowsItsMessage'
  BY <1>1, <1>3 DEF PrintInv, Following, Book, ShowsItsMessage
<1>5. HalfSeen'
  BY <1>1 DEF PrintInv, HalfSeen, Shows, Overwritten
<1> QED
  BY <1>2, <1>4, <1>5 DEF PrintInv

LEMMA StepKeeps == PrintInv /\ [Next]_vars => PrintInv'
<1> SUFFICES ASSUME PrintInv, [Next]_vars PROVE PrintInv'
  OBVIOUS
<1>1. CASE BeginMessage \/ EndMessage
  BY <1>1, FirmwareKeeps
<1>2. CASE Start \/ StartFails
  BY <1>2, StartKeeps
<1>3. CASE Poll
  BY <1>3, PollKeeps
<1>4. CASE PrintFirst
  BY <1>4, PrintFirstKeeps
<1>5. CASE PrintSecond
  BY <1>5, PrintSecondKeeps
<1>6. CASE UNCHANGED vars
  BY <1>6, StutterKeeps
<1> QED
  BY <1>1, <1>2, <1>3, <1>4, <1>5, <1>6 DEF Next, Tool

\* Wherever the firmware and printmsg are, the invariant holds.
THEOREM PrintInvariant == Spec => []PrintInv
<1> QED
  BY AtFirst, StepKeeps, PTL DEF Spec

-----------------------------------------------------------------------------
(***************************************************************************)
(* What printmsg prints                                                    *)
(***************************************************************************)

\* Every variable holds a value of its kind, and rd_idx is inside the ring
\* whenever main reads a message through it.
THEOREM TypesKept == Spec => []TypeOK
<1>1. PrintInv => TypeOK
  BY DEF PrintInv
<1> QED
  BY <1>1, PrintInvariant, PTL

\* While no sample finds printmsg a ring behind, every message from the first
\* sample on has its line, in order and once: the masked indices are enough.
THEOREM MessagesHaveLines == Spec => []EveryMessageHasItsLine
<1>1. PrintInv => EveryMessageHasItsLine
  BY DEF PrintInv, Book, EveryMessageHasItsLine
<1> QED
  BY <1>1, PrintInvariant, PTL

\* A line whose slot was not being overwritten shows its own message, although
\* printf reads while the firmware writes.
THEOREM LinesShowMessages == Spec => []ShowsItsMessage
<1>1. PrintInv => ShowsItsMessage
  BY DEF PrintInv
<1> QED
  BY <1>1, PrintInvariant, PTL

\* A line as far as the screen shows it, and all of them.
Cut(l) == [due |-> l.due, shown |-> l.shown]
Screen == [j \in 1..Len(lines) |-> Cut(lines[j])]

LEMMA ScreenIsIt == Screen = [j \in 1..Len(lines) |->
                                [due |-> lines[j].due, shown |-> lines[j].shown]]
BY DEF Screen, Cut

LEMMA PrintingIsFollowing ==
    ASSUME PrintInv, PrintSecond
    PROVE  Followed!Follow
<1>1. /\ pc = "rest" /\ lines' = Append(lines, Line(Seen)) /\ sent' = sent
      /\ Total \in Nat \ {0} /\ sent \in Nat
  BY Constants DEF PrintSecond, firmware, Seen, PrintInv, TypeOK, RingTypeOK
<1>2. /\ due \in Nat /\ due < sent /\ Expected <= due /\ Expected \in Nat /\ Shows(Seen, due)
      /\ Line(Seen) \in LineKinds
  BY <1>1, Printing, SeenShows DEF PrintInv, Book
<1>3. due \in 0..sent - 1 /\ due \in Int
  BY <1>1, <1>2
<1> DEFINE v == Seen
<1>4. v \in {s \in due..sent - 1 : (s - due) % Total = 0} \cup {Torn}
  <2>1. CASE v = Torn
    BY <2>1
  <2>2. CASE v \in due..sent - 1 /\ v % Total = due % Total
    <3> HIDE DEF v
    <3>1. v \in Int /\ -due \in Int /\ v + (-due) = v - due /\ due + (-due) = 0
      BY <1>1, <1>3, <2>2
    <3>2. (v + (-due)) % Total = (due + (-due)) % Total
      BY <1>1, <1>3, <2>2, <3>1, Shifted, Zenon
    <3>3. 0 % Total = 0
      BY <1>1
    <3> QED
      BY <2>2, <3>1, <3>2, <3>3
  <2> QED
    BY <1>2, <2>1, <2>2 DEF Shows
<1>5. lines \in Seq(LineKinds) /\ Len(lines) \in Nat
      /\ \A j \in 1..Len(lines) : lines[j].due \in Nat
  BY LinesTypes DEF PrintInv
<1>6. /\ lines' \in Seq(LineKinds) /\ Len(lines') = Len(lines) + 1
      /\ lines'[Len(lines) + 1] = Line(Seen)
      /\ \A j \in 1..Len(lines) : lines'[j] = lines[j]
  BY <1>1, <1>2, <1>5
<1>7. /\ Len(Screen) = Len(lines)
      /\ \A j \in 1..Len(lines) : Screen[j] = Cut(lines[j])
      /\ Screen \in Seq({Cut(l) : l \in LineKinds})
  BY <1>5 DEF Screen
<1>8. \A j \in 1..Len(Screen) : Screen[j].due < due
  <2>1. \A j \in 1..Len(lines) : lines[j].due < due
    BY <1>2, <1>5 DEF PrintInv, Book
  <2>2. ASSUME NEW j \in 1..Len(lines) PROVE Screen[j].due = lines[j].due
    <3>1. Screen[j] = Cut(lines[j])
      BY <1>7
    <3> QED
      BY <3>1 DEF Cut
  <2> QED
    BY <1>7, <2>1, <2>2
<1>9. Cut(Line(Seen)) = [due |-> due, shown |-> v]
  BY DEF Cut, Line
<1>10. Screen' = Append(Screen, Cut(Line(Seen)))
  BY <1>6, <1>7 DEF Screen
<1> HIDE DEF v
<1> QED
  BY <1>1, <1>3, <1>4, <1>8, <1>9, <1>10, ScreenIsIt DEF Followed!Follow, Screen, Cut

\* What printmsg prints keeps the promise of FollowedLog, although it cannot
\* tell that it was lapped: no message twice or out of order, none before it is
\* written, and none in the place of an older one.
THEOREM ImplementsFollowedLog == Spec => FollowsTheLog
<1>1. Init => Followed!Init
  <2> SUFFICES ASSUME Init PROVE Followed!Init
    OBVIOUS
  <2>1. sent \in Nat /\ Len(lines) = 0
    BY Constants DEF Init, RingInit
  <2>2. [j \in 1..Len(lines) |-> [due |-> lines[j].due, shown |-> lines[j].shown]] = <<>>
    BY <2>1
  <2> QED
    BY <2>1, <2>2 DEF Followed!Init
<1>2. PrintInv /\ [Next]_vars =>
        [Followed!Next]_<<sent, [j \in 1..Len(lines) |->
                                   [due |-> lines[j].due, shown |-> lines[j].shown]]>>
  <2> SUFFICES ASSUME PrintInv, [Next]_vars
               PROVE  Followed!Next \/ UNCHANGED <<sent, lines>>
    OBVIOUS
  <2>1. CASE PrintSecond
    BY <2>1, PrintingIsFollowing DEF Followed!Next
  <2>2. CASE EndMessage
    BY <2>2 DEF EndMessage, FinishMessage, Followed!Next, Followed!Emit
  <2>3. CASE BeginMessage
    BY <2>3 DEF BeginMessage, StartMessage
  <2>4. CASE Start \/ StartFails \/ Poll \/ PrintFirst
    BY <2>4 DEF Start, StartFails, Poll, PrintFirst, firmware
  <2>5. CASE UNCHANGED vars
    BY <2>5 DEF vars, firmware
  <2> QED
    BY <2>1, <2>2, <2>3, <2>4, <2>5 DEF Next, Tool
<1> QED
  BY <1>1, <1>2, PrintInvariant, PTL DEF Spec, FollowsTheLog, Followed!Spec
==============================================================================
