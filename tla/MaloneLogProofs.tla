--------------------------- MODULE MaloneLogProofs ---------------------------
(***************************************************************************)
(* Proofs about MaloneLog, for every size of the ring and of the pointers  *)
(* and any number of bytes: the log is in order, and it is whole but for   *)
(* three ways to lose a byte.                                              *)
(***************************************************************************)
EXTENDS MaloneLog, TLAPS

-----------------------------------------------------------------------------
(***************************************************************************)
(* Remainders, which the provers do not know                               *)
(***************************************************************************)

LEMMA Divided ==
    ASSUME NEW n \in Nat \ {0}, NEW a \in Int
    PROVE  /\ a \div n \in Int /\ a % n \in 0..n - 1
           /\ a = n * (a \div n) + (a % n)
OBVIOUS

LEMMA Remainder ==
    ASSUME NEW n \in Nat \ {0}, NEW q \in Int, NEW r \in 0..n - 1
    PROVE  (n * q + r) % n = r
OBVIOUS

\* Two numbers less than n apart with the same remainder are equal.
LEMMA Near ==
    ASSUME NEW n \in Nat \ {0}, NEW a \in Int, NEW b \in Int, a % n = b % n,
           a - b < n, b - a < n
    PROVE  a = b
<1> DEFINE p == a \div n
           q == b \div n
           r == b % n
<1>1. p \in Int /\ q \in Int /\ r \in 0..n - 1 /\ a = n * p + r /\ b = n * q + r
  BY Divided
<1> HIDE DEF p, q, r
<1>2. ASSUME NEW x \in Int, NEW y \in Int, x - y >= 1 PROVE n * x >= n * y + n
  <2>1. n * (x - y) >= n
    <3> DEFINE d == x - y
    <3>1. d \in Int /\ d >= 1
      BY <1>2
    <3> HIDE DEF d
    <3>2. n * d >= n
      BY <3>1
    <3> QED
      BY <3>2 DEF d
  <2> QED
    BY <2>1
<1>3. CASE p - q >= 1
  <2>1. n * p >= n * q + n
    BY <1>1, <1>2, <1>3
  <2> DEFINE u == n * p
             v == n * q
  <2>2. u \in Int /\ v \in Int /\ u >= v + n /\ a = u + r /\ b = v + r
    BY <1>1, <2>1
  <2> HIDE DEF u, v
  <2> QED
    BY <2>2, <1>1
<1>4. CASE q - p >= 1
  <2>1. n * q >= n * p + n
    BY <1>1, <1>2, <1>4
  <2> DEFINE u == n * p
             v == n * q
  <2>2. u \in Int /\ v \in Int /\ v >= u + n /\ a = u + r /\ b = v + r
    BY <1>1, <2>1
  <2> HIDE DEF u, v
  <2> QED
    BY <2>2, <1>1
<1>5. CASE p = q
  BY <1>1, <1>5
<1> QED
  BY <1>1, <1>3, <1>4, <1>5

\* Multiples of n do not change a remainder.
LEMMA Multiple ==
    ASSUME NEW n \in Nat \ {0}, NEW a \in Int, NEW k \in Int
    PROVE  (a + n * k) % n = a % n
<1> DEFINE q == a \div n
           r == a % n
<1>1. q \in Int /\ r \in 0..n - 1 /\ a = n * q + r
  BY Divided
<1> HIDE DEF q
<1>2. a + n * k = n * (q + k) + r
  <2>1. n * (q + k) = n * q + n * k
    BY <1>1
  <2> QED
    BY <1>1, <2>1
<1>3. q + k \in Int
  BY <1>1
<1> HIDE DEF r
<1>4. (n * (q + k) + r) % n = r
  BY <1>1, <1>3, Remainder
<1> QED
  BY <1>2, <1>4 DEF r

\* A remainder of a remainder
LEMMA Nested ==
    ASSUME NEW n \in Nat \ {0}, NEW w \in Nat \ {0}, w % n = 0, NEW a \in Int
    PROVE  (a % w) % n = a % n
<1> DEFINE m == w \div n
           q == a \div w
           r == a % w
<1>1. m \in Int /\ w = n * m
  <2>1. w = n * (w \div n) + (w % n) /\ w \div n \in Int
    BY Divided
  <2> QED
    BY <2>1
<1>2. q \in Int /\ r \in 0..w - 1 /\ a = w * q + r
  BY Divided
<1> HIDE DEF m, q, r
<1>3. a = r + n * (m * q) /\ m * q \in Int /\ r \in Int
  <2>1. w * q = (n * m) * q
    BY <1>1
  <2>2. (n * m) * q = n * (m * q)
    BY <1>1, <1>2
  <2> QED
    BY <1>1, <1>2, <2>1, <2>2
<1>4. (r + n * (m * q)) % n = r % n
  BY <1>3, Multiple
<1> QED
  BY <1>3, <1>4 DEF r

LEMMA Constants ==
    /\ Size \in Nat \ {0} /\ Wide \in Nat \ {0} /\ MaxBytes \in Nat
    /\ Wide % Size = 0 /\ Wide > Size /\ Junk \notin Nat
BY MaloneLogAssumption

-----------------------------------------------------------------------------
(***************************************************************************)
(* The inductive invariant                                                 *)
(***************************************************************************)

\* The number of the first byte that lies at the start of the ring after
\* those that wait to be copied began.
Around == taken - (taken % Size) + Size

Byte == Nat \cup {Junk}

Kinds ==
    /\ sent \in Nat /\ taken \in Nat /\ taken <= sent /\ sent - taken <= Size
    /\ pc \in {"start", "exit", "wait", "compare", "first", "second", "plain",
               "reset", "check", "done"}
    /\ file \in Seq(Byte)

\* What the comparison found stays true while the round goes on.
Compared ==
    /\ pc \in {"first", "second"} => Around <= sent
    /\ pc = "plain" /\ ~raced /\ ~brim => sent <= Around

\* The byte that comes next in the file.
NextByte == CASE pc = "second" -> Around [] pc = "reset" -> sent [] OTHER -> taken

\* No byte in the file is beyond it ...
Below == \A k \in 1..Len(file) : file[k] = Junk \/ file[k] < NextByte

\* ... and in order they are;
Sorted ==
    \A j, k \in 1..Len(file) :
        j < k /\ file[j] # Junk /\ file[k] # Junk => file[j] < file[k]

\* and if nothing has gone wrong, they are all there.
Whole ==
    ~raced /\ ~brim /\ ~refused =>
        /\ \A k \in 1..Len(file) : file[k] = k - 1
        /\ Len(file) = NextByte

LogInv == Kinds /\ Compared /\ Below /\ Sorted /\ Whole

-----------------------------------------------------------------------------
(***************************************************************************)
(* The ring                                                                *)
(***************************************************************************)

\* Where the bytes of this lap and of the next one lie.
LEMMA Laps ==
    ASSUME taken \in Nat
    PROVE  /\ taken % Size \in 0..Size - 1 /\ Around \in Nat
           /\ Around = taken - (taken % Size) + Size
           /\ \A n \in Around - Size..Around - 1 : n % Size = n - (Around - Size)
           /\ \A n \in Around..Around + Size - 1 : n % Size = n - Around
<1> DEFINE q == taken \div Size
           z == taken % Size
           u == Size * q
           v == Size * (q + 1)
<1>1. q \in Int /\ z \in 0..Size - 1 /\ taken = u + z /\ u \in Int /\ Size \in Nat \ {0}
  BY Constants, Divided
<1>2. v = u + Size /\ q + 1 \in Int
  <2> HIDE DEF q
  <2> QED
    BY <1>1
<1>3. Around = v
  BY <1>1, <1>2 DEF Around
<1>4. ASSUME NEW n \in u..u + Size - 1 PROVE n % Size = n - u
  <2> DEFINE r == n - u
  <2>1. r \in 0..Size - 1 /\ n = u + r
    BY <1>1
  <2> HIDE DEF r, q, z
  <2>2. (Size * q + r) % Size = r
    BY <1>1, <2>1, Remainder
  <2>3. n % Size = r
    BY <2>1, <2>2
  <2> QED
    BY <1>1, <2>1, <2>3
<1>5. ASSUME NEW n \in v..v + Size - 1 PROVE n % Size = n - v
  <2> DEFINE r == n - v
  <2>1. r \in 0..Size - 1 /\ n = v + r
    BY <1>1, <1>2
  <2> HIDE DEF r, q, z
  <2>2. (Size * (q + 1) + r) % Size = r
    BY <1>1, <1>2, <2>1, Remainder
  <2>3. n % Size = r
    BY <2>1, <2>2
  <2> QED
    BY <1>1, <1>2, <2>1, <2>3
<1>6. v >= 0 /\ v \in Int
  BY <1>1, <1>2
<1>7. Around - Size = u
  BY <1>1, <1>2, <1>3
<1>8. taken % Size \in 0..Size - 1 /\ Around = taken - (taken % Size) + Size
  BY <1>1 DEF Around
<1> HIDE DEF u, v, q, z
<1>9. Around \in Nat /\ Around - 1 = u + Size - 1
  BY <1>1, <1>2, <1>3, <1>6
<1>10. \A n \in Around - Size..Around - 1 : n % Size = n - (Around - Size)
  BY <1>4, <1>7, <1>9
<1>11. \A n \in Around..Around + Size - 1 : n % Size = n - Around
  BY <1>3, <1>5
<1> QED
  BY <1>8, <1>9, <1>10, <1>11

\* The masks of the pointers, although these wrap before.
LEMMA Masks ==
    ASSUME sent \in Nat, taken \in Nat
    PROVE  Masked(rd) = taken % Size /\ Masked(wr) = sent % Size
<1>1. sent \in Int /\ taken \in Int
  OBVIOUS
<1>2. (taken % Wide) % Size = taken % Size /\ (sent % Wide) % Size = sent % Size
  BY <1>1, Constants, Nested
<1> QED
  BY <1>2 DEF Masked, rd, wr

\* The last Size bytes are in their places.
LEMMA HeldAt ==
    ASSUME sent \in Nat, NEW n \in Nat, n < sent, n >= sent - Size
    PROVE  Held(n % Size) = n
<1> DEFINE q == n \div Size
           o == n % Size
           u == Size * q
<1>1. q \in Int /\ o \in 0..Size - 1 /\ n = u + o /\ u \in Int /\ Size \in Nat \ {0}
  BY Constants, Divided
<1>2. o <= n
  <2>1. q >= 0
    BY <1>1
  <2> HIDE DEF q, o
  <2>2. u >= 0
    BY <1>1, <2>1
  <2> QED
    BY <1>1, <2>2
<1> DEFINE m == sent - 1 - n
<1>3. m \in 0..Size - 1 /\ m % Size = m /\ m \in Int
  BY <1>1
<1>4. (m + Size * q) % Size = m % Size
  <2> HIDE DEF q, m
  <2> QED
    BY <1>1, <1>3, Multiple
<1>5. m + u = sent - 1 - o
  BY <1>1
<1>6. (sent - 1 - o) % Size = m
  BY <1>3, <1>4, <1>5
<1>7. sent - 1 - m = n /\ o < Size /\ o < sent
  BY <1>1, <1>2
<1> HIDE DEF o, m
<1>8. Held(o) = n
  BY <1>6, <1>7 DEF Held
<1> QED
  BY <1>8 DEF o

\* What a copy takes out of the ring: the bytes that come next, and nothing
\* of another lap.
LEMMA BytesOfThisLap ==
    ASSUME Kinds, NEW n \in Nat, taken + n <= sent
    PROVE  /\ Bytes(taken % Size, n) \in Seq(Byte)
           /\ Len(Bytes(taken % Size, n)) = n
           /\ \A k \in 1..n : LET b == Bytes(taken % Size, n)[k]
                             IN  /\ b = Junk \/ b = taken + k - 1
                                 /\ taken + k - 1 < Around => b = taken + k - 1
<1>1. /\ sent \in Nat /\ taken \in Nat /\ sent - taken <= Size /\ Size \in Nat \ {0}
      /\ taken % Size \in 0..Size - 1 /\ Around \in Nat
      /\ Around = taken - (taken % Size) + Size
      /\ \A m \in Around - Size..Around - 1 : m % Size = m - (Around - Size)
  BY Constants, Laps DEF Kinds
<1>2. ASSUME NEW k \in 1..n
      PROVE  /\ taken + k - 1 < Around => Held((taken % Size) + k - 1) = taken + k - 1
             /\ taken + k - 1 >= Around => Held((taken % Size) + k - 1) = Junk
  <2> DEFINE m == taken + k - 1
             z == taken % Size
  <2>1. m \in Nat /\ m < sent /\ m >= sent - Size /\ z \in Int
    BY <1>1
  <2>2. CASE m < Around
    <3>1. m \in Around - Size..Around - 1
      BY <1>1, <2>1, <2>2
    <3>2. m % Size = m - (Around - Size)
      BY <1>1, <3>1
    <3>3. m % Size = z + k - 1
      BY <1>1, <2>1, <3>2
    <3> HIDE DEF m, z
    <3>4. Held(m % Size) = m
      BY <1>1, <2>1, HeldAt
    <3> QED
      BY <2>1, <2>2, <3>3, <3>4, <1>1 DEF m, z
  <2>3. CASE m >= Around
    <3>1. ~(z + k - 1 < Size)
      BY <1>1, <2>1, <2>3
    <3>2. Held(z + k - 1) = Junk
      BY <3>1 DEF Held
    <3> QED
      BY <1>1, <2>1, <2>3, <3>2
  <2> QED
    BY <1>1, <2>1, <2>2, <2>3
<1> DEFINE s == Bytes(taken % Size, n)
           H(k) == Held((taken % Size) + k - 1)
<1>3. s = [k \in 1..n |-> H(k)]
  BY DEF Bytes
<1>4. \A k \in 1..n : /\ H(k) \in Byte
                      /\ H(k) = Junk \/ H(k) = taken + k - 1
                      /\ taken + k - 1 < Around => H(k) = taken + k - 1
  <2> TAKE k \in 1..n
  <2>1. taken + k - 1 \in Nat /\ (taken + k - 1 < Around \/ taken + k - 1 >= Around)
    BY <1>1
  <2>2. CASE taken + k - 1 < Around
    BY <1>2, <2>1, <2>2 DEF Byte
  <2>3. CASE taken + k - 1 >= Around
    <3>1. H(k) = Junk
      BY <1>2, <2>3
    <3>2. ~(taken + k - 1 < Around)
      BY <1>1, <2>3
    <3> QED
      BY <3>1, <3>2 DEF Byte
  <2> QED
    BY <2>1, <2>2, <2>3
<1> HIDE DEF H
<1>5. s \in Seq(Byte) /\ Len(s) = n /\ \A k \in 1..n : s[k] = H(k)
  BY <1>3, <1>4
<1> QED
  BY <1>4, <1>5

\* The same from the start of the ring on.
LEMMA BytesOfNextLap ==
    ASSUME Kinds, NEW n \in Nat, Around + n <= sent
    PROVE  /\ Bytes(0, n) \in Seq(Byte) /\ Len(Bytes(0, n)) = n
           /\ \A k \in 1..n : Bytes(0, n)[k] = Around + k - 1
<1>1. /\ sent \in Nat /\ taken \in Nat /\ sent - taken <= Size /\ Size \in Nat \ {0}
      /\ taken % Size \in 0..Size - 1 /\ Around \in Nat
      /\ Around = taken - (taken % Size) + Size
      /\ \A m \in Around..Around + Size - 1 : m % Size = m - Around
  BY Constants, Laps DEF Kinds
<1>2. ASSUME NEW k \in 1..n PROVE Held(0 + k - 1) = Around + k - 1
  <2> DEFINE m == Around + k - 1
  <2>1. m \in Nat /\ m < sent /\ m >= sent - Size
    BY <1>1
  <2>2. m \in Around..Around + Size - 1
    BY <1>1, <2>1
  <2>3. m % Size = m - Around
    BY <1>1, <2>2
  <2>4. m % Size = 0 + k - 1
    BY <1>1, <2>3
  <2> HIDE DEF m
  <2>5. Held(m % Size) = m
    BY <1>1, <2>1, HeldAt
  <2> QED
    BY <2>4, <2>5 DEF m
<1> DEFINE s == Bytes(0, n)
           H(k) == Held(0 + k - 1)
<1>3. s = [k \in 1..n |-> H(k)]
  BY DEF Bytes
<1>4. \A k \in 1..n : H(k) \in Byte /\ H(k) = Around + k - 1
  BY <1>1, <1>2 DEF Byte
<1> HIDE DEF H
<1>5. s \in Seq(Byte) /\ Len(s) = n /\ \A k \in 1..n : s[k] = H(k)
  BY <1>3, <1>4
<1> QED
  BY <1>4, <1>5

\* What write2file makes of the file, if it is given bytes in order.
LEMMA Written ==
    ASSUME Kinds, Below, Sorted, Whole,
           NEW s \in Seq(Byte), Write(s),
           NextByte \in Nat, NEW next, next = NextByte + Len(s),
           \A k \in 1..Len(s) : s[k] = Junk \/ s[k] = NextByte + k - 1,
           UNCHANGED <<raced, brim>>
    PROVE  /\ file' \in Seq(Byte)
           /\ \A k \in 1..Len(file') : file'[k] = Junk \/ file'[k] < next
           /\ Sorted'
           /\ ~raced /\ ~brim /\ ~refused' /\ (\A k \in 1..Len(s) : s[k] = NextByte + k - 1) =>
                 /\ \A k \in 1..Len(file') : file'[k] = k - 1
                 /\ Len(file') = next
<1>1. file \in Seq(Byte) /\ Len(file) \in Nat /\ Len(s) \in Nat /\ next \in Nat
  BY DEF Kinds
<1>2. PICK n \in 0..Len(s) : /\ file' = file \o SubSeq(s, 1, n)
                             /\ ~refused' => n = Len(s) /\ ~refused
  <2>1. CASE file' = file \o s /\ UNCHANGED refused
    <3>1. s = SubSeq(s, 1, Len(s)) /\ Len(s) \in 0..Len(s)
      BY <1>1
    <3>2. file' = file \o SubSeq(s, 1, Len(s))
      BY <2>1, <3>1, Zenon
    <3> QED
      BY <2>1, <3>1, <3>2, Zenon
  <2>2. CASE \E n \in 0..Len(s) - 1 : file' = file \o SubSeq(s, 1, n) /\ refused'
    <3>1. \A n \in 0..Len(s) - 1 : n \in 0..Len(s)
      BY <1>1
    <3> QED
      BY <2>2, <3>1
  <2> QED
    BY <2>1, <2>2 DEF Write
<1> DEFINE t == SubSeq(s, 1, n)
<1>3. /\ t \in Seq(Byte) /\ Len(t) = n
      /\ \A k \in 1..n : t[k] = s[k]
  BY <1>1
<1> HIDE DEF t
<1>4. /\ file' \in Seq(Byte) /\ Len(file') = Len(file) + n
      /\ \A k \in 1..Len(file) : file'[k] = file[k]
      /\ \A k \in 1..n : file'[Len(file) + k] = s[k]
  BY <1>1, <1>2, <1>3 DEF t
<1>5. \A j \in 1..Len(file') : \/ j \in 1..Len(file)
                               \/ \E k \in 1..n : j = Len(file) + k
  <2> TAKE j \in 1..Len(file')
  <2>1. j \in 1..Len(file) \/ (j - Len(file) \in 1..n /\ j = Len(file) + (j - Len(file)))
    BY <1>1, <1>4
  <2> QED
    BY <2>1
<1>6. \A k \in 1..n : k \in 1..Len(s)
  BY <1>1
<1>7. \A k \in 1..Len(file') : file'[k] = Junk \/ file'[k] < next
  <2> TAKE k \in 1..Len(file')
  <2>1. CASE k \in 1..Len(file)
    <3>1. file[k] \in Byte /\ file'[k] = file[k]
      BY <1>1, <1>4, <2>1
    <3> QED
      BY <1>1, <2>1, <3>1 DEF Below, Byte
  <2>2. CASE \E m \in 1..n : k = Len(file) + m
    <3>1. PICK m \in 1..n : k = Len(file) + m
      BY <2>2
    <3>2. file'[k] = s[m] /\ m \in 1..Len(s)
      BY <1>4, <1>6, <3>1
    <3>3. s[m] = Junk \/ s[m] = NextByte + m - 1
      BY <3>2
    <3>4. NextByte + m - 1 < next
      BY <1>1, <3>2
    <3> QED
      BY <3>2, <3>3, <3>4
  <2> QED
    BY <1>5, <2>1, <2>2
<1>8. Sorted'
  <2> SUFFICES ASSUME NEW j \in 1..Len(file'), NEW k \in 1..Len(file'), j < k,
                      file'[j] # Junk, file'[k] # Junk
               PROVE  file'[j] < file'[k]
    BY DEF Sorted
  <2>1. CASE k \in 1..Len(file)
    <3>1. j \in 1..Len(file)
      BY <1>1, <1>4, <2>1
    <3> QED
      BY <1>4, <2>1, <3>1 DEF Sorted
  <2>2. CASE j \in 1..Len(file) /\ \E m \in 1..n : k = Len(file) + m
    <3>1. file[j] \in Byte /\ file'[j] = file[j] /\ file[j] < NextByte
      BY <1>1, <1>4, <2>2 DEF Below
    <3>2. PICK m \in 1..n : k = Len(file) + m
      BY <2>2
    <3>3. file'[k] = NextByte + m - 1
      BY <1>4, <1>6, <3>2
    <3>4. file[j] \in Nat
      BY <3>1 DEF Byte
    <3> QED
      BY <3>1, <3>2, <3>3, <3>4
  <2>3. CASE (\E m \in 1..n : j = Len(file) + m) /\ (\E m \in 1..n : k = Len(file) + m)
    <3>1. PICK l \in 1..n : j = Len(file) + l
      BY <2>3
    <3>2. PICK m \in 1..n : k = Len(file) + m
      BY <2>3
    <3>3. file'[j] = NextByte + l - 1 /\ file'[k] = NextByte + m - 1
      BY <1>4, <1>6, <3>1, <3>2
    <3> QED
      BY <1>1, <3>1, <3>2, <3>3
  <2> QED
    BY <1>5, <2>1, <2>2, <2>3
<1>9. ASSUME ~raced, ~brim, ~refused', \A k \in 1..Len(s) : s[k] = NextByte + k - 1
      PROVE  (\A k \in 1..Len(file') : file'[k] = k - 1) /\ Len(file') = next
  <2>1. n = Len(s) /\ ~refused
    BY <1>2, <1>9
  <2>2. (\A k \in 1..Len(file) : file[k] = k - 1) /\ Len(file) = NextByte
    BY <1>9, <2>1 DEF Whole
  <2>3. \A k \in 1..Len(file') : file'[k] = k - 1
    <3> TAKE k \in 1..Len(file')
    <3>1. CASE k \in 1..Len(file)
      BY <1>4, <2>2, <3>1
    <3>2. CASE \E m \in 1..n : k = Len(file) + m
      <4>1. PICK m \in 1..n : k = Len(file) + m
        BY <3>2
      <4>2. file'[k] = NextByte + m - 1
        BY <1>4, <1>6, <1>9, <4>1
      <4> QED
        BY <1>1, <2>2, <4>1, <4>2
    <3> QED
      BY <1>5, <3>1, <3>2
  <2> QED
    BY <1>4, <2>1, <2>2, <2>3
<1> QED
  BY <1>4, <1>7, <1>8, <1>9

\* The unsigned difference of the pointers is what waits to be copied.
LEMMA Waiting ==
    ASSUME Kinds
    PROVE  (wr - rd) % Wide = sent - taken
<1> DEFINE p == sent \div Wide
           q == taken \div Wide
           a == sent % Wide
           b == taken % Wide
           u == Wide * p
           v == Wide * q
           w == Wide * (p - q)
<1>1. /\ sent \in Int /\ taken \in Int /\ sent - taken \in 0..Size /\ Size < Wide
      /\ Wide \in Nat \ {0} /\ Size \in Nat
  BY Constants DEF Kinds
<1>2. p \in Int /\ a \in 0..Wide - 1 /\ sent = u + a
  BY <1>1, Divided
<1>3. q \in Int /\ b \in 0..Wide - 1 /\ taken = v + b
  BY <1>1, Divided
<1> HIDE DEF p, q, a, b
<1>4. w = u - v /\ p - q \in Int /\ u \in Int /\ v \in Int
  BY <1>1, <1>2, <1>3
<1>5. a - b \in Int
  BY <1>2, <1>3
<1>6. ((a - b) + Wide * (p - q)) % Wide = (a - b) % Wide
  BY <1>1, <1>4, <1>5, Multiple
<1>7. ((a - b) + w) % Wide = (a - b) % Wide
  BY <1>6
<1> HIDE DEF u, v, w
<1>8. (a - b) + w = sent - taken
  BY <1>1, <1>2, <1>3, <1>4
<1>9. (sent - taken) % Wide = sent - taken
  BY <1>1
<1>10. (a - b) % Wide = sent - taken
  BY <1>7, <1>8, <1>9
<1> QED
  BY <1>10 DEF a, b, wr, rd

-----------------------------------------------------------------------------
(***************************************************************************)
(* Every step keeps the invariant                                          *)
(***************************************************************************)

LEMMA LogInit == Init => LogInv
<1> SUFFICES ASSUME Init PROVE LogInv
  OBVIOUS
<1>1. Size \in Nat /\ Len(file) = 0 /\ file \in Seq(Byte)
  BY Constants DEF Init
<1>2. Kinds
  BY <1>1 DEF Init, Kinds
<1>3. NextByte = 0
  BY DEF Init, NextByte
<1> QED
  BY <1>1, <1>2, <1>3 DEF Init, LogInv, Compared, Below, Sorted, Whole

\* The steps that leave the bytes alone.
LEMMA OtherSteps ==
    ASSUME LogInv, UNCHANGED <<sent, taken, file, raced, refused>>,
           pc' \in {"start", "exit", "wait", "compare", "first", "plain", "check", "done"},
           pc' = pc \/ pc \in {"start", "wait", "compare", "check"},
           brim => brim',
           (pc' = "first" => Around <= sent),
           (pc' = "plain" /\ ~raced /\ ~brim' => sent <= Around)
    PROVE  LogInv'
<1>1. Kinds' /\ Around' = Around
  BY DEF LogInv, Kinds, Around
<1>2. NextByte = taken /\ NextByte' = taken
  BY DEF NextByte
<1>3. Compared'
  BY <1>1 DEF Compared
<1>4. Below' /\ Sorted'
  BY <1>2 DEF LogInv, Below, Sorted
<1>5. Whole'
  BY <1>2 DEF LogInv, Whole
<1> QED
  BY <1>1, <1>3, <1>4, <1>5 DEF LogInv

LEMMA AcceptStep == ASSUME LogInv, Accept PROVE LogInv'
<1>1. /\ sent' = sent + 1 /\ sent - taken < Size
      /\ UNCHANGED <<taken, pc, file, brim, refused>>
      /\ raced' = (raced \/ pc = "reset"
                          \/ (pc = "plain" /\ Masked(wr) = 0 /\ Masked(rd) # 0))
  BY DEF Accept
<1>2. /\ sent \in Nat /\ taken \in Nat /\ taken <= sent /\ Size \in Nat \ {0}
      /\ Around \in Nat /\ Around' = Around
  BY <1>1, Laps, Constants DEF LogInv, Kinds, Around
<1>3. Kinds'
  BY <1>1, <1>2 DEF LogInv, Kinds
<1>4. pc = "plain" /\ ~raced' /\ ~brim => sent + 1 <= Around
  <2> SUFFICES ASSUME pc = "plain", ~raced', ~brim PROVE sent + 1 <= Around
    OBVIOUS
  <2>1. ~raced /\ ~(sent % Size = 0 /\ taken % Size # 0)
    BY <1>1, <1>2, Masks
  <2>2. sent <= Around
    BY <2>1 DEF LogInv, Compared
  <2>3. CASE sent = Around
    <3>1. Around \in Around..Around + Size - 1
      BY <1>2
    <3>2. sent % Size = 0
      <4>1. Around % Size = Around - Around
        BY <1>2, <3>1, Laps
      <4> QED
        BY <1>2, <2>3, <4>1
    <3>3. Around = taken + Size
      BY <1>2, <2>1, <3>2 DEF Around
    <3> QED
      BY <1>1, <1>2, <2>3, <3>3
  <2> QED
    BY <1>2, <2>2, <2>3
<1>5. Compared'
  <2>1. pc \in {"first", "second"} => Around <= sent + 1
    BY <1>2 DEF LogInv, Compared
  <2> QED
    BY <1>1, <1>2, <1>4, <2>1 DEF Compared
<1>6. \A k \in 1..Len(file) : file[k] \in Byte
  BY DEF LogInv, Kinds
<1>7. Below'
  <2>1. CASE pc = "reset"
    <3>1. NextByte = sent /\ NextByte' = sent + 1
      BY <1>1, <2>1 DEF NextByte
    <3> QED
      BY <1>1, <1>2, <1>6, <3>1 DEF LogInv, Below, Byte
  <2>2. CASE pc # "reset"
    <3>1. NextByte' = NextByte
      BY <1>1, <1>2, <2>2 DEF NextByte
    <3> QED
      BY <1>1, <3>1 DEF LogInv, Below
  <2> QED
    BY <2>1, <2>2
<1>8. Sorted'
  BY <1>1 DEF LogInv, Sorted
<1>9. Whole'
  <2>1. CASE pc = "reset"
    BY <1>1, <2>1 DEF Whole
  <2>2. CASE pc # "reset"
    <3>1. NextByte' = NextByte
      BY <1>1, <1>2, <2>2 DEF NextByte
    <3>2. ~raced' => ~raced
      BY <1>1
    <3> QED
      BY <1>1, <3>1, <3>2 DEF LogInv, Whole
  <2> QED
    BY <2>1, <2>2
<1> QED
  BY <1>3, <1>5, <1>7, <1>8, <1>9 DEF LogInv

LEMMA CompareStep == ASSUME LogInv, Compare PROVE LogInv'
<1>1. /\ pc = "compare" /\ UNCHANGED <<sent, taken, file, raced, refused>>
      /\ pc' = IF Masked(rd) > Masked(wr) THEN "first" ELSE "plain"
      /\ brim' = (brim \/ (sent - taken = Size /\ Masked(rd) # 0))
  BY DEF Compare
<1> DEFINE z == taken % Size
           y == sent % Size
<1>2. /\ sent \in Nat /\ taken \in Nat /\ taken <= sent /\ sent - taken <= Size
      /\ Size \in Nat \ {0} /\ Around \in Nat /\ z \in 0..Size - 1 /\ Around = taken - z + Size
      /\ \A n \in Around - Size..Around - 1 : n % Size = n - (Around - Size)
      /\ \A n \in Around..Around + Size - 1 : n % Size = n - Around
  BY Constants, Laps DEF LogInv, Kinds
<1>3. Masked(rd) = z /\ Masked(wr) = y
  BY <1>2, Masks
<1>4. sent < Around => y = sent - (Around - Size)
  <2>1. sent < Around => sent \in Around - Size..Around - 1
    BY <1>2
  <2> QED
    BY <1>2, <2>1
<1>5. sent >= Around => y = sent - Around
  <2>1. sent >= Around => sent \in Around..Around + Size - 1
    BY <1>2
  <2> QED
    BY <1>2, <2>1
<1> HIDE DEF z, y
<1>6. y \in Int
  BY <1>2, <1>4, <1>5
<1>7. z > y => Around <= sent
  BY <1>2, <1>4, <1>6
<1>8. ~(z > y) /\ ~(sent - taken = Size /\ z # 0) => sent <= Around
  BY <1>2, <1>5, <1>6
<1>9. pc' = "first" => Around <= sent
  BY <1>1, <1>3, <1>7
<1>10. pc' = "plain" /\ ~brim' => sent <= Around
  <2>1. pc' = "plain" => ~(z > y)
    BY <1>1, <1>3
  <2>2. ~brim' => ~(sent - taken = Size /\ z # 0)
    BY <1>1, <1>3
  <2> QED
    BY <1>8, <2>1, <2>2
<1>11. brim => brim'
  BY <1>1
<1>12. pc' \in {"first", "plain"}
  BY <1>1
<1> QED
  BY <1>1, <1>9, <1>10, <1>11, <1>12, OtherSteps

\* A write and what comes after it.
LEMMA WriteStep ==
    ASSUME LogInv, NEW s \in Seq(Byte), Write(s),
           UNCHANGED <<sent, taken, raced, brim>>,
           pc \in {"first", "second", "plain"}, pc' \in {"second", "reset"},
           pc' = "second" => pc = "first",
           NextByte \in Nat, NextByte' = NextByte + Len(s),
           \A k \in 1..Len(s) : s[k] = Junk \/ s[k] = NextByte + k - 1,
           ~raced /\ ~brim => \A k \in 1..Len(s) : s[k] = NextByte + k - 1
    PROVE  LogInv'
<1> DEFINE next == NextByte'
<1>1. next = NextByte + Len(s)
  OBVIOUS
<1> HIDE DEF next
<1>2. /\ file' \in Seq(Byte)
      /\ \A k \in 1..Len(file') : file'[k] = Junk \/ file'[k] < next
      /\ Sorted'
      /\ ~raced /\ ~brim /\ ~refused' /\ (\A k \in 1..Len(s) : s[k] = NextByte + k - 1) =>
            /\ \A k \in 1..Len(file') : file'[k] = k - 1
            /\ Len(file') = next
  BY <1>1, Written DEF LogInv
<1>3. Kinds'
  BY <1>2 DEF LogInv, Kinds
<1>4. Compared'
  BY DEF LogInv, Compared, Around
<1>5. Below'
  BY <1>2 DEF Below, next
<1>6. Whole'
  BY <1>2 DEF Whole, next
<1> QED
  BY <1>2, <1>3, <1>4, <1>5, <1>6 DEF LogInv

LEMMA FirstStep == ASSUME LogInv, WriteFirst PROVE LogInv'
<1> DEFINE n == Size - (taken % Size)
           s == Bytes(taken % Size, n)
<1>1. /\ sent \in Nat /\ taken \in Nat /\ Size \in Nat \ {0} /\ taken % Size \in 0..Size - 1
      /\ Around = taken - (taken % Size) + Size /\ Kinds
  BY Constants, Laps DEF LogInv, Kinds
<1>2. /\ pc = "first" /\ pc' = "second" /\ Write(s) /\ Around <= sent
      /\ UNCHANGED <<sent, taken, raced, brim>>
  BY <1>1, Masks DEF WriteFirst, LogInv, Compared
<1>3. n \in Nat /\ taken + n = Around /\ taken + n <= sent
  BY <1>1, <1>2
<1>4. /\ s \in Seq(Byte) /\ Len(s) = n
      /\ \A k \in 1..n : taken + k - 1 < Around => s[k] = taken + k - 1
  BY <1>1, <1>3, BytesOfThisLap
<1> HIDE DEF n, s
<1>5. \A k \in 1..Len(s) : s[k] = taken + k - 1
  BY <1>1, <1>3, <1>4
<1>6. NextByte = taken /\ NextByte' = Around
  BY <1>2 DEF NextByte, Around
<1>7. NextByte \in Nat /\ NextByte' = NextByte + Len(s)
  BY <1>1, <1>3, <1>4, <1>6
<1>8. \A k \in 1..Len(s) : s[k] = NextByte + k - 1
  BY <1>5, <1>6
<1> QED
  BY <1>2, <1>4, <1>7, <1>8, WriteStep

LEMMA SecondStep == ASSUME LogInv, WriteSecond PROVE LogInv'
<1> DEFINE n == sent % Size
           s == Bytes(0, n)
<1>1. /\ sent \in Nat /\ taken \in Nat /\ sent - taken <= Size /\ Size \in Nat \ {0}
      /\ taken % Size \in 0..Size - 1 /\ Around = taken - (taken % Size) + Size /\ Kinds
      /\ Around \in Nat
      /\ \A m \in Around..Around + Size - 1 : m % Size = m - Around
  BY Constants, Laps DEF LogInv, Kinds
<1>2. /\ pc = "second" /\ pc' = "reset" /\ Write(s) /\ Around <= sent
      /\ UNCHANGED <<sent, taken, raced, brim>>
  BY <1>1, Masks DEF WriteSecond, LogInv, Compared
<1>3. n = sent - Around
  <2>1. sent \in Around..Around + Size - 1
    BY <1>1, <1>2
  <2> QED
    BY <1>1, <2>1
<1>4. n \in Nat /\ Around + n = sent /\ Around + n <= sent
  BY <1>1, <1>2, <1>3
<1>5. /\ s \in Seq(Byte) /\ Len(s) = n
      /\ \A k \in 1..n : s[k] = Around + k - 1
  BY <1>1, <1>4, BytesOfNextLap
<1> HIDE DEF n, s
<1>6. NextByte = Around /\ NextByte' = sent
  BY <1>2 DEF NextByte
<1>7. NextByte \in Nat /\ NextByte' = NextByte + Len(s)
  BY <1>1, <1>4, <1>5, <1>6
<1>8. \A k \in 1..Len(s) : s[k] = NextByte + k - 1
  BY <1>5, <1>6
<1> QED
  BY <1>2, <1>5, <1>7, <1>8, WriteStep

LEMMA PlainStep == ASSUME LogInv, WritePlain PROVE LogInv'
<1> DEFINE n == sent - taken
           s == Bytes(taken % Size, n)
<1>1. /\ sent \in Nat /\ taken \in Nat /\ taken <= sent /\ Kinds /\ Around \in Nat
  BY Laps DEF LogInv, Kinds
<1>2. /\ pc = "plain" /\ pc' = "reset" /\ Write(s)
      /\ UNCHANGED <<sent, taken, raced, brim>>
  BY <1>1, Masks, Waiting DEF WritePlain
<1>3. ~raced /\ ~brim => sent <= Around
  BY <1>2 DEF LogInv, Compared
<1>4. n \in Nat /\ taken + n = sent /\ taken + n <= sent
  BY <1>1
<1>5. /\ s \in Seq(Byte) /\ Len(s) = n
      /\ \A k \in 1..n : /\ s[k] = Junk \/ s[k] = taken + k - 1
                         /\ taken + k - 1 < Around => s[k] = taken + k - 1
  BY <1>1, <1>4, BytesOfThisLap
<1> HIDE DEF n, s
<1>6. NextByte = taken /\ NextByte' = sent
  BY <1>2 DEF NextByte
<1>7. NextByte \in Nat /\ NextByte' = NextByte + Len(s)
  BY <1>1, <1>4, <1>5, <1>6
<1>8. \A k \in 1..Len(s) : s[k] = Junk \/ s[k] = NextByte + k - 1
  BY <1>5, <1>6
<1>9. ~raced /\ ~brim => \A k \in 1..Len(s) : s[k] = NextByte + k - 1
  <2> SUFFICES ASSUME ~raced, ~brim, NEW k \in 1..Len(s) PROVE s[k] = NextByte + k - 1
    OBVIOUS
  <2>1. k \in 1..n /\ taken + k - 1 < Around
    BY <1>1, <1>3, <1>4, <1>5
  <2> QED
    BY <1>5, <1>6, <2>1
<1> QED
  BY <1>2, <1>5, <1>7, <1>8, <1>9, WriteStep

LEMMA ResetStep == ASSUME LogInv, Reset PROVE LogInv'
<1>1. /\ pc = "reset" /\ pc' = "check" /\ taken' = sent
      /\ UNCHANGED <<sent, file, raced, brim, refused>>
  BY DEF Reset
<1>2. Kinds'
  BY <1>1, Constants DEF LogInv, Kinds
<1>3. NextByte = sent /\ NextByte' = sent
  BY <1>1 DEF NextByte
<1>4. Compared' /\ Below' /\ Sorted' /\ Whole'
  BY <1>1, <1>3 DEF LogInv, Compared, Below, Sorted, Whole
<1> QED
  BY <1>2, <1>4 DEF LogInv

LEMMA LogStep == LogInv /\ [Next]_vars => LogInv'
<1> SUFFICES ASSUME LogInv, [Next]_vars PROVE LogInv'
  OBVIOUS
<1>1. CASE Accept
  BY <1>1, AcceptStep
<1>2. CASE Compare
  BY <1>2, CompareStep
<1>3. CASE WriteFirst
  BY <1>3, FirstStep
<1>4. CASE WriteSecond
  BY <1>4, SecondStep
<1>5. CASE WritePlain
  BY <1>5, PlainStep
<1>6. CASE Reset
  BY <1>6, ResetStep
<1>7. CASE Map \/ MapFails \/ Wait \/ Check
  BY <1>7, OtherSteps DEF Map, MapFails, Wait, Check
<1>8. CASE Interrupt \/ UNCHANGED vars
  <2>1. UNCHANGED <<sent, taken, pc, file, raced, brim, refused>>
    BY <1>8 DEF Interrupt, vars
  <2>2. Kinds' /\ Compared' /\ Below' /\ Sorted' /\ Whole'
    BY <2>1 DEF LogInv, Kinds, Compared, Around, Below, NextByte, Sorted, Whole
  <2> QED
    BY <2>2 DEF LogInv
<1> QED
  BY <1>1, <1>2, <1>3, <1>4, <1>5, <1>6, <1>7, <1>8 DEF Next, Recorder

\* Wherever the firmware and the recorder are, the invariant holds.
THEOREM LogInvariant == Spec => []LogInv
BY LogInit, LogStep, PTL DEF Spec

\* The write pointer is read anew wherever main needs it, and still no byte
\* comes twice or before an earlier one.
THEOREM LogIsInOrder == Spec => []InOrder
<1>1. LogInv => InOrder
  <2> SUFFICES ASSUME LogInv PROVE InOrder
    OBVIOUS
  <2>1. file \in Seq(Byte)
    BY DEF LogInv, Kinds
  <2> QED
    BY <2>1 DEF LogInv, Sorted, InOrder
<1> QED
  BY <1>1, LogInvariant, PTL

\* Between two rounds the file is the whole log up to the read pointer but
\* for a byte at a bad moment, a ring that is exactly full, or a refused
\* write.
THEOREM LogIsWhole == Spec => []WholeLog
<1>1. LogInv => WholeLog
  <2> SUFFICES ASSUME LogInv PROVE WholeLog
    OBVIOUS
  <2>1. file \in Seq(Byte)
    BY DEF LogInv, Kinds
  <2>2. pc \in {"compare", "check", "done"} => NextByte = taken
    BY DEF NextByte
  <2> QED
    BY <2>1, <2>2 DEF LogInv, Whole, WholeLog
<1> QED
  BY <1>1, LogInvariant, PTL

\* What the invariant leaves out of the kinds: the bound on the bytes, and the
\* flags.
Flags ==
    /\ sent <= MaxBytes
    /\ stop \in BOOLEAN /\ end \in BOOLEAN
    /\ raced \in BOOLEAN /\ brim \in BOOLEAN /\ refused \in BOOLEAN

LEMMA FlagsInit == Init => Flags
<1> SUFFICES ASSUME Init PROVE Flags
  OBVIOUS
<1>1. sent <= MaxBytes
  BY Constants DEF Init
<1> QED
  BY <1>1 DEF Init, Flags

LEMMA FlagsStep == LogInv /\ Flags /\ [Next]_vars => Flags'
<1> SUFFICES ASSUME LogInv, Flags, [Next]_vars PROVE Flags'
  OBVIOUS
<1>1. sent' <= MaxBytes
  <2>1. CASE Accept
    BY <2>1, Constants DEF Accept, LogInv, Kinds
  <2>2. CASE Recorder \/ Interrupt \/ UNCHANGED vars
    BY <2>2 DEF Flags, Recorder, Interrupt, Map, MapFails, Wait, Compare, WriteFirst,
               WriteSecond, WritePlain, Reset, Check, vars
  <2> QED
    BY <2>1, <2>2 DEF Next
<1>2. stop' \in BOOLEAN /\ end' \in BOOLEAN
  BY Zenon DEF Flags, Next, Recorder, Accept, Interrupt, Map, MapFails, Wait, Compare, WriteFirst,
         WriteSecond, WritePlain, Reset, Check, vars
<1>3. raced' \in BOOLEAN /\ brim' \in BOOLEAN
  BY Zenon DEF Flags, Next, Recorder, Accept, Interrupt, Map, MapFails, Wait, Compare, WriteFirst,
         WriteSecond, WritePlain, Reset, Check, vars
<1>4. refused' \in BOOLEAN
  BY Zenon DEF Flags, Next, Recorder, Accept, Interrupt, Map, MapFails, Wait, Compare, WriteFirst,
         WriteSecond, WritePlain, Reset, Check, Write, vars
<1> QED
  BY <1>1, <1>2, <1>3, <1>4 DEF Flags

\* Every variable holds a value of its kind; never is more handed back than
\* there is, and never more than a ring is left waiting.
THEOREM TypesKept == Spec => []TypeOK
<1>1. Spec => []Flags
  BY FlagsInit, FlagsStep, LogInvariant, PTL DEF Spec
<1>2. LogInv /\ Flags => TypeOK
  <2> SUFFICES ASSUME LogInv, Flags PROVE TypeOK
    OBVIOUS
  <2>1. /\ sent \in Nat /\ taken \in Nat /\ taken <= sent /\ sent <= MaxBytes /\ MaxBytes \in Nat
        /\ file \in Seq(Byte) /\ NextByte \in Int /\ NextByte <= sent
    <3>1. Around \in Nat /\ taken <= sent /\ sent \in Nat /\ taken \in Nat
      BY Laps DEF LogInv, Kinds
    <3>2. NextByte \in Int /\ NextByte <= sent
      BY <3>1 DEF NextByte, LogInv, Compared
    <3> QED
      BY <3>1, <3>2, Constants DEF LogInv, Kinds, Flags
  <2>2. \A k \in 1..Len(file) : file[k] \in (0..MaxBytes - 1) \cup {Junk}
    <3> TAKE k \in 1..Len(file)
    <3>1. file[k] \in Byte
      BY <2>1
    <3>2. file[k] = Junk \/ file[k] < NextByte
      BY DEF LogInv, Below
    <3> QED
      BY <2>1, <3>1, <3>2 DEF Byte
  <2>3. file \in Seq((0..MaxBytes - 1) \cup {Junk})
    BY <2>1, <2>2
  <2>4. sent \in 0..MaxBytes /\ taken \in 0..sent
    BY <2>1
  <2>5. {stop, end, raced, brim, refused} \subseteq BOOLEAN
    BY Zenon DEF Flags
  <2> QED
    BY <2>3, <2>4, <2>5 DEF TypeOK, LogInv, Kinds
<1> QED
  BY <1>1, <1>2, LogInvariant, PTL
=============================================================================
