--------------------------- MODULE RecorderProofs ---------------------------
(***************************************************************************)
(* What TLAPS proves of the two recorders.  Of the elementary-stream       *)
(* recorder: first when one channel is selected, for every ring size,      *)
(* address, layout and disk, then of the semaphore handshake, for every    *)
(* choice of channels.  Of the time-stamp recorder: that it implements the *)
(* other one until it misreads a descriptor, that all of this holds for it *)
(* until then, and the handshake in any case.                              *)
(*                                                                         *)
(* FaithfulRecording is not inductive.  The invariant below adds what the  *)
(* statics and the thread's samples must look like at each step, what the  *)
(* cells of the ring hold relative to the write pointer, and how far the   *)
(* recorder is behind: `sent - pos' is the distance, around the ring, from *)
(* the thread's place to the write pointer as long as it was never lapped. *)
(***************************************************************************)
EXTENDS PtsRecorder, FiniteSetTheorems, TLAPS

\* The distance from offset a to offset b going round a ring of s units.
Around(a, b, s) == IF b >= a THEN b - a ELSE b - a + s

\* The number that offset i holds after n units, with the pointer at w.
Held(n, w, i, s) == n - w + i - (IF i >= w THEN s ELSE 0)

HasFile(c) == filecnt[c] = 1

\* Kinds of the values of channel c, as far as the argument needs them.
Kinds(c) ==
    /\ wp \in [Channel -> Int] /\ wp[c] \in 0..Size[c] - 1
    /\ sent \in [Channel -> Int] /\ sent[c] \in Nat
    /\ DOMAIN ring = Channel
    /\ DOMAIN ring[c] = 0..Size[c] - 1
    /\ sem \in {0, 1}
    /\ pc \in [Channel -> {"none", "wait", "open", "setup", "sample", "take", "write", "done"}]
    /\ fp \in [Channel -> Int]
    /\ pos \in [Channel -> Int] /\ pos[c] \in Nat
    /\ filecnt \in [Channel -> Int] /\ filecnt[c] \in {0, 1}
    /\ DOMAIN prev = Channel /\ DOMAIN cur = Channel /\ DOMAIN piece = Channel
    /\ DOMAIN files = FileNo
    /\ free \in Nat
    /\ overrun \in [Channel -> BOOLEAN]

\* The statics, as main sets them for the one channel.
Statics(c) ==
    /\ chan = c
    /\ mpc \in {"addr", "descriptor", "buffer", "map", "init", "post", "create", "idle",
                "crashed"}
    /\ mpc = "addr" /\ Layout[c] # "demux" => dtv = FALSE
    /\ dtv \in BOOLEAN
    /\ mpc \in {"addr", "descriptor", "buffer", "map", "init", "post"} => sem = 0
    /\ mpc = "create" => sem = 1
    /\ mpc \in {"addr", "descriptor", "buffer", "map", "init", "post", "create"} =>
           pc[c] = "none"
    /\ mpc = "idle" => pc[c] # "none"
    /\ mpc \in {"descriptor", "buffer", "map", "init", "post", "create"} \/ pc[c] # "none" =>
           dtv = (Layout[c] = "demux")
    /\ mpc \in {"buffer", "map", "init", "post", "create"} \/ pc[c] # "none" => esDesc = c
    /\ mpc \in {"init", "post", "create"} \/ pc[c] # "none" =>
           esBuffer \in {NoBuffer, [chan |-> c, start |-> Base[c], len |-> Size[c]]}

\* Where the thread is, against its file and the one post it was given.
Thread(c) ==
    /\ pc[c] = "none" => ~HasFile(c)
    /\ pc[c] = "wait" => (sem = 1 <=> ~HasFile(c))
    /\ pc[c] = "open" => sem = 0 /\ ~HasFile(c)
    /\ pc[c] \in {"setup", "sample", "take", "write"} => sem = 0 /\ HasFile(c)
    /\ pc[c] = "done" => sem = 0
    /\ pc[c] \in {"wait", "setup", "sample", "take", "write"} /\ HasFile(c) => fp[c] = 0
    /\ pc[c] \in {"open", "setup"} \/ ~HasFile(c) => pos[c] = 0
    /\ DOMAIN files[0] = 0..pos[c] - 1

\* A descriptor of the channel: its ring, and a write pointer in it.
OfChannel(d, c) ==
    /\ d.start = Base[c] /\ d.end = Base[c] + Size[c]
    /\ d.wp \in Base[c]..Base[c] + Size[c] - 1
    /\ d = [start |-> d.start, end |-> d.end, wp |-> d.wp]

Sampled(c) ==
    /\ pc[c] \in {"wait", "sample", "take", "write"} /\ HasFile(c) => OfChannel(prev[c], c)
    /\ pc[c] \in {"take", "write"} => OfChannel(cur[c], c)

\* What is left to write ends at the current sample.
Piece(c) ==
    pc[c] = "write" =>
        /\ piece[c] = [buf |-> piece[c].buf, at |-> piece[c].at, left |-> piece[c].left,
                       more |-> piece[c].more, short |-> piece[c].short]
        /\ piece[c].buf \in {NoBuffer, [chan |-> c, start |-> Base[c], len |-> Size[c]]}
        /\ piece[c].at \in Nat /\ piece[c].left \in Nat /\ piece[c].more \in Nat
        /\ piece[c].short \in BOOLEAN
        /\ piece[c].at + piece[c].left <= Size[c]
        /\ piece[c].more <= Size[c]
        /\ piece[c].short => free = 0 \/ piece[c].buf = NoBuffer
        /\ ~piece[c].short =>
            \/ piece[c].more = 0 /\ piece[c].at + piece[c].left = cur[c].wp - Base[c]
            \/ piece[c].more = cur[c].wp - Base[c] /\ piece[c].at + piece[c].left = Size[c]

\* What the cells hold: the newest unit is just before the write pointer.
RingContents(c) ==
    \A i \in 0..Size[c] - 1 :
        ring[c][i] = Held(sent[c], wp[c], i, Size[c])

\* How far the recorder is behind, if it was never lapped.
Lag(c) ==
    ~overrun[c] =>
        /\ sent[c] - pos[c] < Size[c]
        /\ ~HasFile(c) \/ pc[c] = "setup" => sent[c] = wp[c]
        /\ pc[c] \in {"wait", "sample"} /\ HasFile(c) =>
              sent[c] - pos[c] = Around(prev[c].wp - Base[c], wp[c], Size[c])
        /\ pc[c] = "take" =>
              sent[c] - pos[c] = Around(prev[c].wp, cur[c].wp, Size[c])
                                 + Around(cur[c].wp - Base[c], wp[c], Size[c])
        /\ pc[c] = "write" /\ ~piece[c].short =>
              sent[c] - pos[c] = piece[c].left + piece[c].more
                                 + Around(cur[c].wp - Base[c], wp[c], Size[c])

Contents(c) ==
    ~overrun[c] => \A i \in 0..pos[c] - 1 : files[0][i] = <<c, i>>

SingleInv(c) ==
    /\ Kinds(c)
    /\ Statics(c)
    /\ Thread(c)
    /\ Sampled(c)
    /\ Piece(c)
    /\ RingContents(c)
    /\ Lag(c)
    /\ Contents(c)

-----------------------------------------------------------------------------
(***************************************************************************)
(* Arithmetic on a ring of s units: the write pointer w moves on to x.     *)
(***************************************************************************)

\* The place after offset w.
After(w, s) == IF w + 1 = s THEN 0 ELSE w + 1

LEMMA AfterInRing ==
    ASSUME NEW s \in Nat, NEW w \in 0..s - 1
    PROVE  After(w, s) \in 0..s - 1
BY DEF After

\* A place that is not a whole ring behind is one unit further behind.
LEMMA AroundAfter ==
    ASSUME NEW s \in Nat, NEW w \in 0..s - 1, NEW a \in 0..s - 1, Around(a, w, s) + 1 < s
    PROVE  Around(a, After(w, s), s) = Around(a, w, s) + 1
BY DEF After, Around

LEMMA AroundInRing ==
    ASSUME NEW s \in Nat, NEW a \in 0..s - 1, NEW b \in 0..s - 1
    PROVE  Around(a, b, s) \in Nat /\ Around(a, b, s) < s
BY DEF Around

LEMMA HeldAfter ==
    ASSUME NEW s \in Nat, NEW w \in 0..s - 1, NEW i \in 0..s - 1, NEW n \in Int
    PROVE  Held(n + 1, After(w, s), i, s) = IF i = w THEN n ELSE Held(n, w, i, s)
BY DEF After, Held

-----------------------------------------------------------------------------
(***************************************************************************)
(* Initiation                                                              *)
(***************************************************************************)

\* Init establishes the invariant.
LEMMA SingleInit ==
    ASSUME NEW c \in Channel, Selected = {c}, RestInit,
           dtv = FALSE \/ (dtv = TRUE /\ Layout[c] = "demux")
    PROVE  SingleInv(c)
<1> USE EsRecorderAssumption DEF Channel, FileNo, NoFile, NoChannel
<1>1. wp[c] \in 0..Size[c] - 1 /\ DOMAIN wp = Channel /\ wp \in [Channel -> Int]
  BY DEF RestInit
<1>2. DOMAIN files[0] = 0..-1
  BY DEF RestInit, EmptyFile
<1>3. Kinds(c)
  BY <1>1 DEF RestInit, Kinds
<1>4. Statics(c)
  BY DEF RestInit, Statics
<1>5. Thread(c)
  BY <1>2 DEF RestInit, Thread, HasFile
<1>6. Sampled(c) /\ Piece(c)
  BY DEF RestInit, Sampled, Piece
<1>7. RingContents(c)
  <2>1. /\ sent[c] = wp[c] /\ Size[c] \in Nat
        /\ ring[c] = [i \in 0..Size[c] - 1 |-> IF i < wp[c] THEN i ELSE i - Size[c]]
    BY DEF RestInit
  <2>2. ASSUME NEW i \in 0..Size[c] - 1
        PROVE  ring[c][i] = Held(sent[c], wp[c], i, Size[c])
    BY <1>1, <2>1 DEF Held
  <2> QED
    BY <2>2 DEF RingContents
<1>8. Lag(c) /\ Contents(c)
  BY <1>1 DEF RestInit, Lag, HasFile, Contents
<1> QED
  BY <1>3, <1>4, <1>5, <1>6, <1>7, <1>8 DEF SingleInv

-----------------------------------------------------------------------------
(***************************************************************************)
(* The firmware's step                                                     *)
(***************************************************************************)

\* The firmware may write a unit at any moment.
LEMMA SingleSend ==
    ASSUME NEW c \in Channel, SingleInv(c), Send(c)
    PROVE  SingleInv(c)'
<1> USE DEF SingleInv
<1>0. /\ Size[c] \in Nat /\ Size[c] > 0 /\ Base[c] \in Nat
      /\ wp[c] \in 0..Size[c] - 1 /\ sent[c] \in Nat /\ pos[c] \in Nat
  BY EsRecorderAssumption DEF Kinds
<1>1. /\ wp' = [wp EXCEPT ![c] = IF wp[c] + 1 = Size[c] THEN 0 ELSE wp[c] + 1]
      /\ sent' = [sent EXCEPT ![c] = sent[c] + 1]
      /\ ring' = [ring EXCEPT ![c][wp[c]] = sent[c]]
      /\ overrun' = [overrun EXCEPT ![c] = overrun[c] \/ sent[c] + 1 - pos[c] >= Size[c]]
      /\ UNCHANGED <<dtv, esDesc, esBuffer, sem, mpc, chan, pc>>
      /\ UNCHANGED <<fp, pos, filecnt, prev, cur, piece, files, free>>
  BY DEF Send, statics, main, locals, disk
<1>2. wp'[c] = After(wp[c], Size[c])
  BY <1>1 DEF Kinds, After
<1>3. sent'[c] = sent[c] + 1
  BY <1>1 DEF Kinds
<1>4. wp'[c] \in 0..Size[c] - 1
  BY <1>0, <1>2, AfterInRing
<1>5. Kinds(c)'
  <2>1. wp' \in [Channel -> Int] /\ sent' \in [Channel -> Int] /\ sent'[c] \in Nat
    BY <1>0, <1>1, <1>3 DEF Kinds
  <2>2. DOMAIN ring' = Channel /\ DOMAIN ring'[c] = 0..Size[c] - 1
    BY <1>1 DEF Kinds
  <2>3. overrun' \in [Channel -> BOOLEAN]
    BY <1>1 DEF Kinds
  <2> QED
    BY <1>1, <1>4, <2>1, <2>2, <2>3 DEF Kinds
<1>6. Statics(c)' /\ Thread(c)'
  BY <1>1 DEF Statics, Thread, HasFile
<1>7. Sampled(c)' /\ Piece(c)'
  BY <1>1 DEF Sampled, Piece, OfChannel, HasFile
<1>8. RingContents(c)'
  <2>1. SUFFICES ASSUME NEW i \in 0..Size[c] - 1
                 PROVE  ring'[c][i] = Held(sent'[c], wp'[c], i, Size[c])
    BY DEF RingContents
  <2>2. ring'[c][i] = IF i = wp[c] THEN sent[c] ELSE ring[c][i]
    BY <1>1 DEF Kinds
  <2>3. ring[c][i] = Held(sent[c], wp[c], i, Size[c])
    BY DEF RingContents
  <2> QED
    BY <1>0, <1>2, <1>3, <2>2, <2>3, HeldAfter
<1>9. Lag(c)'
  <2> SUFFICES ASSUME ~overrun'[c] PROVE Lag(c)'
    BY DEF Lag
  <2>1. ~overrun[c] /\ ~(sent[c] + 1 - pos[c] >= Size[c])
    BY <1>1, Zenon DEF Kinds
  <2>2. sent[c] + 1 - pos[c] < Size[c]
    BY <1>0, <2>1
  <2>3. ASSUME NEW a \in 0..Size[c] - 1, NEW rest \in Nat,
               sent[c] - pos[c] = rest + Around(a, wp[c], Size[c])
        PROVE  sent'[c] - pos[c] = rest + Around(a, wp'[c], Size[c])
    <3>1. Around(a, wp[c], Size[c]) \in Nat
      BY <1>0, AroundInRing
    <3>2. Around(a, wp[c], Size[c]) + 1 < Size[c]
      BY <1>0, <2>2, <2>3, <3>1
    <3>3. Around(a, wp'[c], Size[c]) = Around(a, wp[c], Size[c]) + 1
      BY <1>0, <1>2, <3>2, AroundAfter
    <3> QED
      BY <1>0, <1>3, <2>3, <3>1, <3>3
  <2>4. ~HasFile(c)' \/ pc'[c] = "setup" => sent'[c] = wp'[c]
    <3>1. ~HasFile(c) \/ pc[c] = "setup" => sent[c] = wp[c] /\ pos[c] = 0
      BY <2>1 DEF Lag, Thread
    <3> QED
      BY <1>0, <1>1, <1>2, <1>3, <2>2, <3>1 DEF HasFile, After
  <2>5. pc'[c] \in {"wait", "sample"} /\ HasFile(c)' =>
          sent'[c] - pos'[c] = Around(prev'[c].wp - Base[c], wp'[c], Size[c])
    <3> SUFFICES ASSUME pc[c] \in {"wait", "sample"}, HasFile(c)
                 PROVE  sent'[c] - pos[c] = Around(prev[c].wp - Base[c], wp'[c], Size[c])
      BY <1>1 DEF HasFile
    <3>1. prev[c].wp - Base[c] \in 0..Size[c] - 1
      BY <1>0 DEF Sampled, OfChannel
    <3>2. sent[c] - pos[c] = 0 + Around(prev[c].wp - Base[c], wp[c], Size[c])
      <4>1. sent[c] - pos[c] = Around(prev[c].wp - Base[c], wp[c], Size[c])
        BY <2>1 DEF Lag
      <4> QED
        BY <1>0, <4>1
    <3>3. sent'[c] - pos[c] = 0 + Around(prev[c].wp - Base[c], wp'[c], Size[c])
      BY <2>3, <3>1, <3>2
    <3> QED
      BY <1>0, <1>4, <3>1, <3>3, AroundInRing
  <2>6. pc'[c] = "take" =>
          sent'[c] - pos'[c] = Around(prev'[c].wp, cur'[c].wp, Size[c])
                               + Around(cur'[c].wp - Base[c], wp'[c], Size[c])
    <3> SUFFICES ASSUME pc[c] = "take"
                 PROVE  sent'[c] - pos[c] = Around(prev[c].wp, cur[c].wp, Size[c])
                                            + Around(cur[c].wp - Base[c], wp'[c], Size[c])
      BY <1>1
    <3>1. cur[c].wp - Base[c] \in 0..Size[c] - 1
      BY <1>0 DEF Sampled, OfChannel
    <3>2. Around(prev[c].wp, cur[c].wp, Size[c]) \in Nat
      <4>1. HasFile(c)
        BY DEF Thread
      <4>2. /\ prev[c].wp \in Base[c]..Base[c] + Size[c] - 1
            /\ cur[c].wp \in Base[c]..Base[c] + Size[c] - 1
        BY <4>1 DEF Sampled, OfChannel
      <4> QED
        BY <1>0, <4>2 DEF Around
    <3> QED
      BY <2>1, <2>3, <3>1, <3>2 DEF Lag
  <2>7. pc'[c] = "write" /\ ~piece'[c].short =>
          sent'[c] - pos'[c] = piece'[c].left + piece'[c].more
                               + Around(cur'[c].wp - Base[c], wp'[c], Size[c])
    <3> SUFFICES ASSUME pc[c] = "write", ~piece[c].short
                 PROVE  sent'[c] - pos[c] = piece[c].left + piece[c].more
                                            + Around(cur[c].wp - Base[c], wp'[c], Size[c])
      BY <1>1
    <3>1. cur[c].wp - Base[c] \in 0..Size[c] - 1
      BY <1>0 DEF Sampled, OfChannel
    <3>2. piece[c].left + piece[c].more \in Nat
      BY DEF Piece
    <3> QED
      BY <2>1, <2>3, <3>1, <3>2 DEF Lag
  <2>8. sent'[c] - pos'[c] < Size[c]
    BY <1>0, <1>1, <1>3, <2>2
  <2> QED
    BY <2>4, <2>5, <2>6, <2>7, <2>8 DEF Lag
<1>10. Contents(c)'
  BY <1>1 DEF Contents, Kinds
<1> QED
  BY <1>5, <1>6, <1>7, <1>8, <1>9, <1>10

-----------------------------------------------------------------------------
(***************************************************************************)
(* What descriptor_get returns once the statics are set for the channel    *)
(***************************************************************************)

\* Read with the flag that fits its owner, a descriptor gives the ring and
\* the write pointer, whichever the order of its words.
LEMMA DescriptorOfChannel ==
    ASSUME NEW c \in Channel, Kinds(c), esDesc = c, dtv = (Layout[c] = "demux")
    PROVE  descriptor_get = [start |-> Base[c], end |-> Base[c] + Size[c], wp |-> Base[c] + wp[c]]
<1>1. Base[c] \in Int /\ Size[c] \in Int /\ wp[c] \in Int
  BY EsRecorderAssumption DEF Kinds
<1>2. CASE Layout[c] = "demux"
  BY <1>2 DEF descriptor_get, DescriptorWords
<1>3. CASE Layout[c] # "demux"
  <2>1. dtv = FALSE
    BY <1>3
  <2>2. /\ DescriptorWords(c)[1] = Base[c]
        /\ DescriptorWords(c)[2] = Base[c] + Size[c] - 1
        /\ DescriptorWords(c)[3] = Base[c] + wp[c]
    BY <1>1, <1>3 DEF DescriptorWords
  <2>3. descriptor_get = [start |-> DescriptorWords(c)[1], end |-> DescriptorWords(c)[2] + 1,
                          wp |-> DescriptorWords(c)[3]]
    BY <2>1 DEF descriptor_get
  <2> QED
    BY <1>1, <2>2, <2>3
<1> QED
  BY <1>2, <1>3

-----------------------------------------------------------------------------
(***************************************************************************)
(* The main thread's steps                                                 *)
(***************************************************************************)

\* func_vesdump prepares the statics, posts and starts the thread.
\* func_vesdump's steps, and its copy's way of mapping the buffer at once.
MapAtOnce == MapFrom("buffer")

LEMMA SingleMain ==
    ASSUME NEW c \in Channel, Selected = {c}, SingleInv(c), Main \/ MapAtOnce
    PROVE  SingleInv(c)'
<1> USE DEF SingleInv
<1>0. /\ Size[c] \in Nat /\ Size[c] > 0 /\ Base[c] \in Nat
      /\ wp[c] \in 0..Size[c] - 1 /\ Base[c] + Size[c] < AddrSpace
  BY EsRecorderAssumption DEF Kinds
<1>1. UNCHANGED <<firmware, locals, disk, overrun>>
  BY DEF Main, GetAddr, MapDescriptor, MapDescriptorFails, RawBuffer, MapBuffer, MapAtOnce,
         MapFrom, SemInit,
         SemPost, CreateThread
<1>2. UNCHANGED <<wp, ring, sent, fp, pos, filecnt, prev, cur, piece, files, free, overrun>>
  BY <1>1 DEF firmware, locals, disk
<1>3. pc[c] = "none" /\ chan = c
  BY DEF Main, GetAddr, MapDescriptor, MapDescriptorFails, RawBuffer, MapBuffer, MapAtOnce,
         MapFrom, SemInit,
         SemPost, CreateThread, Statics
<1>4. RingContents(c)' /\ Contents(c)'
  BY <1>2 DEF RingContents, Contents
<1>5. CASE CreateThread
  <2>1. pc' = [pc EXCEPT ![c] = "wait"] /\ sem' = 1 /\ sem = 1 /\ mpc' = "idle" /\ chan' = c
    BY <1>3, <1>5 DEF CreateThread, statics, Statics, Channel
  <2>2. pc'[c] = "wait" /\ ~HasFile(c)
    BY <1>3, <2>1 DEF Kinds, Thread
  <2>3. UNCHANGED <<dtv, esDesc, esBuffer>>
    BY <1>5 DEF CreateThread, statics
  <2>4. Kinds(c)'
    BY <1>2, <2>1 DEF Kinds
  <2>5. Statics(c)'
    BY <1>5, <2>1, <2>2, <2>3 DEF Statics, CreateThread
  <2>6. Thread(c)' /\ Sampled(c)' /\ Piece(c)'
    BY <1>2, <1>3, <2>1, <2>2 DEF Thread, Sampled, Piece, HasFile
  <2>7. Lag(c)'
    BY <1>2, <1>3, <2>2 DEF Lag, HasFile
  <2> QED
    BY <1>4, <2>4, <2>5, <2>6, <2>7
<1>6. CASE ~CreateThread
  <2>1. UNCHANGED <<pc, chan>> /\ mpc' # "idle"
    BY <1>6 DEF Main, GetAddr, MapDescriptor, MapDescriptorFails, RawBuffer, MapBuffer, MapAtOnce,
         MapFrom, SemInit,
         SemPost
  <2>2. mpc \in {"addr", "descriptor", "buffer", "map", "init", "post"}
    BY <1>6 DEF Main, GetAddr, MapDescriptor, MapDescriptorFails, RawBuffer, MapBuffer, MapAtOnce,
         MapFrom, SemInit,
         SemPost
  <2>3. Sampled(c)' /\ Piece(c)' /\ Lag(c)'
    BY <1>2, <1>3, <2>1 DEF Sampled, Piece, Lag, HasFile
  <2>4. sem = 0
    BY <2>2 DEF Statics
  <2>5. sem' \in {0, 1}
    BY <1>6, <2>4 DEF Main, GetAddr, MapDescriptor, MapDescriptorFails, RawBuffer, MapBuffer,
         MapAtOnce, MapFrom, SemInit, SemPost, statics
  <2>6. Kinds(c)' /\ Thread(c)'
    BY <1>2, <1>3, <2>1, <2>5 DEF Kinds, Thread, HasFile
  <2>7. Statics(c)'
    <3>1. CASE GetAddr
      BY <1>3, <2>1, <2>4, <3>1 DEF GetAddr, Statics
    <3>2. CASE MapDescriptor
      BY <1>3, <2>1, <2>4, <3>2 DEF MapDescriptor, Statics
    <3>3. CASE MapDescriptorFails
      BY <1>3, <2>1, <2>4, <3>3 DEF MapDescriptorFails, Statics, statics
    <3>4. CASE RawBuffer
      BY <1>3, <2>1, <2>4, <3>4 DEF RawBuffer, Statics
    <3>5. CASE MapBuffer \/ MapAtOnce
      <4>1. descriptor_get = [start |-> Base[c], end |-> Base[c] + Size[c], wp |-> Base[c] + wp[c]]
        BY <3>5, DescriptorOfChannel DEF MapBuffer, MapAtOnce, MapFrom, Statics
      <4>2. esBuffer' \in {NoBuffer, [chan |-> c, start |-> Base[c], len |-> Size[c]]}
        BY <1>0, <3>5, <4>1 DEF MapBuffer, MapAtOnce, MapFrom, Statics, Minus
      <4> QED
        BY <1>3, <2>1, <2>4, <3>5, <4>2 DEF MapBuffer, MapAtOnce, MapFrom, Statics
    <3>6. CASE SemInit
      BY <1>3, <2>1, <2>4, <3>6 DEF SemInit, Statics
    <3>7. CASE SemPost
      BY <1>3, <2>1, <2>4, <3>7 DEF SemPost, Statics
    <3> QED
      BY <1>6, <3>1, <3>2, <3>3, <3>4, <3>5, <3>6, <3>7 DEF Main
  <2> QED
    BY <1>4, <2>3, <2>6, <2>7
<1> QED
  BY <1>5, <1>6

-----------------------------------------------------------------------------
(***************************************************************************)
(* The recorder's steps                                                    *)
(***************************************************************************)

\* All a recorder's step leaves alone: the firmware, the statics but the
\* semaphore, and with them two parts of the invariant.
LEMMA RecorderFrame ==
    ASSUME NEW c \in Channel, SingleInv(c), Recorder(c)
    PROVE  /\ UNCHANGED <<wp, ring, sent, dtv, esDesc, esBuffer, chan, overrun>>
           /\ dtv = (Layout[c] = "demux") /\ esDesc = c
           /\ Statics(c)' /\ RingContents(c)'
<1> USE DEF SingleInv
<1>1. UNCHANGED <<wp, ring, sent, dtv, esDesc, esBuffer, chan, overrun>>
  BY DEF Recorder, TakePost, TimeOut, Open, OpenFails, Setup, Sample, TakeNothing,
         TakeRecord, WriteUnit, WriteOutside, Crash, ShortWrite, SecondPiece, Recorded,
         GiveUp, firmware, statics, main
<1>2. pc[c] # "none" /\ mpc # "crashed"
  BY DEF Recorder, TakePost, TimeOut, Open, OpenFails, Setup, Sample, TakeNothing,
         TakeRecord, WriteUnit, WriteOutside, Crash, ShortWrite, SecondPiece, Recorded,
         GiveUp, Go
<1>3. mpc = "idle"
  BY <1>2 DEF Statics
<1>4. mpc' \in {"idle", "crashed"}
  BY <1>3 DEF Recorder, TakePost, TimeOut, Open, OpenFails, Setup, Sample, TakeNothing,
         TakeRecord, WriteUnit, WriteOutside, Crash, ShortWrite, SecondPiece, Recorded,
         GiveUp, main
<1>5. pc'[c] # "none"
  BY <1>2 DEF Recorder, TakePost, TimeOut, Open, OpenFails, Setup, Sample, TakeNothing,
         TakeRecord, WriteUnit, WriteOutside, Crash, ShortWrite, SecondPiece, Recorded,
         GiveUp, Go, Kinds
<1>6. Statics(c)'
  BY <1>1, <1>2, <1>4, <1>5 DEF Statics
<1>7. RingContents(c)'
  BY <1>1 DEF RingContents
<1> QED
  BY <1>1, <1>2, <1>6, <1>7 DEF Statics

\* The steps up to the first sample of the file, and those that end the thread.
LEMMA SingleSetup ==
    ASSUME NEW c \in Channel, SingleInv(c),
           TakePost(c) \/ TimeOut(c) \/ Open(c) \/ OpenFails(c) \/ Setup(c) \/ TakeNothing(c)
           \/ GiveUp(c) \/ Crash(c)
    PROVE  SingleInv(c)'
<1> USE DEF SingleInv, HasFile
<1>0. /\ UNCHANGED <<wp, ring, sent, dtv, esDesc, esBuffer, chan, overrun>>
      /\ dtv = (Layout[c] = "demux") /\ esDesc = c
      /\ Statics(c)' /\ RingContents(c)'
  BY RecorderFrame DEF Recorder
<1>1. CASE TakePost(c)
  <2>1. /\ pc' = [pc EXCEPT ![c] = "open"] /\ fp' = [fp EXCEPT ![c] = NoFile]
        /\ pc[c] = "wait" /\ sem = 1 /\ sem' = 0
        /\ UNCHANGED <<pos, filecnt, prev, cur, piece, files, free>>
    BY <1>1 DEF TakePost, Go, Kinds, disk
  <2>2. pc'[c] = "open" /\ ~HasFile(c)
    BY <2>1 DEF Kinds, Thread
  <2>3. Kinds(c)' /\ Thread(c)'
    BY <1>0, <2>1, <2>2 DEF Kinds, Thread, NoFile
  <2> QED
    BY <1>0, <2>1, <2>2, <2>3 DEF Sampled, Piece, Lag, Contents
<1>2. CASE TimeOut(c)
  <2>1. /\ pc' = [pc EXCEPT ![c] = "sample"] /\ pc[c] = "wait" /\ sem = 0
        /\ UNCHANGED <<sem, fp, pos, filecnt, prev, cur, piece, files, free>>
    BY <1>2 DEF TimeOut, Go, statics, locals, disk
  <2>2. pc'[c] = "sample" /\ HasFile(c)
    BY <2>1 DEF Kinds, Thread
  <2>3. Kinds(c)' /\ Thread(c)'
    BY <1>0, <2>1, <2>2 DEF Kinds, Thread
  <2> QED
    BY <1>0, <2>1, <2>2, <2>3 DEF Sampled, Piece, Lag, Contents, OfChannel
<1>3. CASE Open(c)
  <2>1. /\ pc' = [pc EXCEPT ![c] = "setup"] /\ pc[c] = "open"
        /\ fp' = [fp EXCEPT ![c] = filecnt[c]]
        /\ pos' = [pos EXCEPT ![c] = 0]
        /\ filecnt' = [filecnt EXCEPT ![c] = filecnt[c] + 1]
        /\ files' = [files EXCEPT ![filecnt[c]] = EmptyFile]
        /\ free' = free + Cardinality(DOMAIN files[filecnt[c]])
        /\ UNCHANGED <<sem, prev, cur, piece>>
    BY <1>3 DEF Open, Go, statics, Length
  <2>2. pc'[c] = "setup" /\ filecnt[c] = 0 /\ sem = 0 /\ pos[c] = 0
    BY <2>1 DEF Kinds, Thread
  <2>3. filecnt'[c] = 1 /\ fp'[c] = 0 /\ pos'[c] = 0
    BY <2>1, <2>2 DEF Kinds
  <2>4. DOMAIN files'[0] = 0..-1 /\ DOMAIN files' = FileNo
    BY <2>1, <2>2 DEF Kinds, EmptyFile, FileNo
  <2>5. free' = free
    <3>1. DOMAIN files[0] = {}
      BY <2>2 DEF Thread
    <3> QED
      BY <2>1, <2>2, <3>1, FS_EmptySet DEF Kinds
  <2>6. Kinds(c)' /\ Thread(c)'
    BY <1>0, <2>1, <2>2, <2>3, <2>4, <2>5 DEF Kinds, Thread
  <2>7. Lag(c)'
    BY <1>0, <2>1, <2>2, <2>3 DEF Lag
  <2> QED
    BY <1>0, <2>1, <2>2, <2>3, <2>6, <2>7 DEF Sampled, Piece, Contents
<1>4. CASE Setup(c)
  <2>1. /\ pc' = [pc EXCEPT ![c] = "sample"] /\ pc[c] = "setup"
        /\ prev' = [prev EXCEPT ![c] = [descriptor_get EXCEPT !.wp = descriptor_get.start]]
        /\ UNCHANGED <<sem, fp, pos, filecnt, cur, piece, files, free>>
    BY <1>4 DEF Setup, Go, statics, disk
  <2>2. pc'[c] = "sample" /\ HasFile(c) /\ pos[c] = 0
    BY <2>1 DEF Kinds, Thread
  <2>3. /\ prev'[c] = [start |-> Base[c], end |-> Base[c] + Size[c], wp |-> Base[c]]
        /\ DOMAIN prev' = Channel
    <3>1. descriptor_get = [start |-> Base[c], end |-> Base[c] + Size[c], wp |-> Base[c] + wp[c]]
      BY <1>0, DescriptorOfChannel
    <3>2. [descriptor_get EXCEPT !.wp = descriptor_get.start]
            = [start |-> Base[c], end |-> Base[c] + Size[c], wp |-> Base[c]]
      BY <3>1
    <3> QED
      BY <2>1, <3>2 DEF Kinds
  <2>4. Kinds(c)' /\ Thread(c)'
    BY <1>0, <2>1, <2>2, <2>3 DEF Kinds, Thread
  <2>5. Sampled(c)' /\ Piece(c)' /\ Contents(c)'
    BY <1>0, <2>1, <2>2, <2>3, EsRecorderAssumption DEF Sampled, OfChannel, Piece, Contents
  <2>6. Lag(c)'
    <3> SUFFICES ASSUME ~overrun[c] PROVE Lag(c)'
      BY <1>0 DEF Lag
    <3>1. sent[c] - pos[c] < Size[c] /\ sent[c] = wp[c]
      BY <2>1 DEF Lag
    <3>2. sent[c] - pos[c] = Around(prev'[c].wp - Base[c], wp[c], Size[c])
      BY <2>2, <2>3, <3>1, EsRecorderAssumption DEF Around, Kinds
    <3> QED
      BY <1>0, <2>1, <2>2, <3>1, <3>2 DEF Lag
  <2> QED
    BY <1>0, <2>4, <2>5, <2>6
<1>5. CASE OpenFails(c) \/ TakeNothing(c) \/ GiveUp(c)
  <2>1. /\ pc' = [pc EXCEPT ![c] = "done"] /\ pc[c] \in {"open", "take", "write"}
        /\ UNCHANGED <<sem, pos, filecnt, prev, cur, piece, files, free>>
        /\ fp' = fp \/ fp' = [fp EXCEPT ![c] = NoFile]
    BY <1>5 DEF OpenFails, TakeNothing, GiveUp, Go, statics, locals, disk
  <2>2. pc'[c] = "done" /\ sem = 0
    BY <2>1 DEF Kinds, Thread
  <2>3. Kinds(c)' /\ Thread(c)'
    BY <1>0, <2>1, <2>2 DEF Kinds, Thread, NoFile
  <2> QED
    BY <1>0, <2>1, <2>2, <2>3 DEF Sampled, Piece, Lag, Contents
<1>6. CASE Crash(c)
  <2>1. UNCHANGED <<pc, sem, fp, pos, filecnt, prev, cur, piece, files, free>>
    BY <1>6 DEF Crash, statics, locals, disk
  <2>2. Kinds(c)' /\ Thread(c)' /\ Sampled(c)' /\ Contents(c)'
    BY <1>0, <2>1 DEF Kinds, Thread, Sampled, OfChannel, Contents
  <2>3. Piece(c)' /\ Lag(c)'
    BY <1>0, <2>1 DEF Piece, Lag
  <2> QED
    BY <1>0, <2>2, <2>3
<1> QED
  BY <1>1, <1>2, <1>3, <1>4, <1>5, <1>6

\* Sampling the write pointer, and deriving the writes from two samples.
LEMMA SingleSample ==
    ASSUME NEW c \in Channel, SingleInv(c), Sample(c) \/ TakeRecord(c)
    PROVE  SingleInv(c)'
<1> USE DEF SingleInv, HasFile
<1>0. /\ UNCHANGED <<wp, ring, sent, dtv, esDesc, esBuffer, chan, overrun>>
      /\ dtv = (Layout[c] = "demux") /\ esDesc = c
      /\ Statics(c)' /\ RingContents(c)'
  BY RecorderFrame DEF Recorder
<1>s. /\ Size[c] \in Nat /\ Size[c] > 0 /\ Base[c] \in Nat
      /\ wp[c] \in 0..Size[c] - 1 /\ sent[c] \in Nat /\ pos[c] \in Nat
  BY EsRecorderAssumption DEF Kinds
<1>1. CASE Sample(c)
  <2>1. /\ pc' = [pc EXCEPT ![c] = "take"] /\ pc[c] = "sample"
        /\ cur' = [cur EXCEPT ![c] = descriptor_get]
        /\ UNCHANGED <<sem, fp, pos, filecnt, prev, piece, files, free>>
    BY <1>1 DEF Sample, Go, statics, disk
  <2>2. pc'[c] = "take" /\ HasFile(c) /\ DOMAIN cur' = Channel
    BY <2>1 DEF Kinds, Thread
  <2>3. cur'[c] = [start |-> Base[c], end |-> Base[c] + Size[c], wp |-> Base[c] + wp[c]]
    <3>1. descriptor_get = [start |-> Base[c], end |-> Base[c] + Size[c], wp |-> Base[c] + wp[c]]
      BY <1>0, DescriptorOfChannel
    <3> QED
      BY <2>1, <3>1 DEF Kinds
  <2>4. Kinds(c)' /\ Thread(c)'
    BY <1>0, <2>1, <2>2 DEF Kinds, Thread
  <2>5. Sampled(c)' /\ Piece(c)' /\ Contents(c)'
    BY <1>0, <1>s, <2>1, <2>2, <2>3 DEF Sampled, OfChannel, Piece, Contents
  <2>6. Lag(c)'
    <3> SUFFICES ASSUME ~overrun[c] PROVE Lag(c)'
      BY <1>0 DEF Lag
    <3>1. /\ sent[c] - pos[c] < Size[c]
          /\ sent[c] - pos[c] = Around(prev[c].wp - Base[c], wp[c], Size[c])
      BY <2>1, <2>2 DEF Lag
    <3>2. prev[c].wp - Base[c] \in 0..Size[c] - 1 /\ prev[c].wp \in Nat
      BY <1>s, <2>1, <2>2 DEF Sampled, OfChannel
    <3>3. Around(prev[c].wp, cur'[c].wp, Size[c])
            = Around(prev[c].wp - Base[c], wp[c], Size[c])
      BY <1>s, <2>3, <3>2 DEF Around
    <3>4. Around(cur'[c].wp - Base[c], wp[c], Size[c]) = 0
      BY <1>s, <2>3 DEF Around
    <3>5. sent[c] - pos[c] = Around(prev[c].wp, cur'[c].wp, Size[c])
                             + Around(cur'[c].wp - Base[c], wp[c], Size[c])
      BY <1>s, <3>1, <3>3, <3>4
    <3> QED
      BY <1>0, <2>1, <2>2, <3>1, <3>5 DEF Lag
  <2> QED
    BY <1>0, <2>4, <2>5, <2>6
<1>2. CASE TakeRecord(c)
  <2> DEFINE p == Pieces(prev[c], cur[c], esBuffer)
  <2>1. /\ pc' = [pc EXCEPT ![c] = "write"] /\ pc[c] = "take"
        /\ piece' = [piece EXCEPT ![c] = p]
        /\ UNCHANGED <<sem, fp, pos, filecnt, prev, cur, files, free>>
    BY <1>2 DEF TakeRecord, Go, statics, disk
  <2>2. pc'[c] = "write" /\ HasFile(c) /\ DOMAIN piece' = Channel /\ piece'[c] = p
    BY <2>1 DEF Kinds, Thread
  <2>3. /\ prev[c].start = Base[c] /\ prev[c].end = Base[c] + Size[c]
        /\ cur[c].start = Base[c]
        /\ prev[c].wp \in Base[c]..Base[c] + Size[c] - 1
        /\ cur[c].wp \in Base[c]..Base[c] + Size[c] - 1
    BY <2>1, <2>2 DEF Sampled, OfChannel
  <2>4. /\ p.at = prev[c].wp - Base[c]
        /\ cur[c].wp >= prev[c].wp => p.left = cur[c].wp - prev[c].wp /\ p.more = 0
        /\ cur[c].wp < prev[c].wp =>
             p.left = Base[c] + Size[c] - prev[c].wp /\ p.more = cur[c].wp - Base[c]
        /\ p.short = FALSE /\ p.buf = esBuffer
    BY <1>s, <2>3 DEF Pieces, Minus
  <2>5. Kinds(c)' /\ Thread(c)' /\ Contents(c)'
    BY <1>0, <2>1, <2>2 DEF Kinds, Thread, Contents
  <2>6. Sampled(c)'
    BY <1>0, <2>1, <2>2 DEF Sampled, OfChannel
  <2>7. esBuffer \in {NoBuffer, [chan |-> c, start |-> Base[c], len |-> Size[c]]}
    BY <2>1 DEF Statics
  <2>8. Piece(c)'
    <3>1. p = [buf |-> p.buf, at |-> p.at, left |-> p.left, more |-> p.more, short |-> p.short]
      BY DEF Pieces
    <3>2. /\ p.at \in Nat /\ p.left \in Nat /\ p.more \in Nat
          /\ p.at + p.left <= Size[c] /\ p.more <= Size[c]
          /\ \/ p.more = 0 /\ p.at + p.left = cur[c].wp - Base[c]
             \/ p.more = cur[c].wp - Base[c] /\ p.at + p.left = Size[c]
      BY <1>s, <2>3, <2>4
    <3>3. p.short = FALSE
      BY <2>4
    <3> HIDE DEF p
    <3> QED
      BY <2>1, <2>2, <2>4, <2>7, <3>1, <3>2, <3>3 DEF Piece
  <2>9. Lag(c)'
    <3> SUFFICES ASSUME ~overrun[c] PROVE Lag(c)'
      BY <1>0 DEF Lag
    <3>1. /\ sent[c] - pos[c] < Size[c]
          /\ sent[c] - pos[c] = Around(prev[c].wp, cur[c].wp, Size[c])
                                + Around(cur[c].wp - Base[c], wp[c], Size[c])
      BY <2>1 DEF Lag
    <3>2. Around(prev[c].wp, cur[c].wp, Size[c]) = p.left + p.more
      BY <1>s, <2>3, <2>4 DEF Around
    <3>3. sent[c] - pos[c] = p.left + p.more + Around(cur[c].wp - Base[c], wp[c], Size[c])
      BY <3>1, <3>2
    <3> QED
      BY <1>0, <2>1, <2>2, <3>1, <3>3 DEF Lag
  <2> QED
    BY <1>0, <2>5, <2>6, <2>8, <2>9
<1> QED
  BY <1>1, <1>2

\* One unit goes from the ring to the file: it is the one that is due.
LEMMA SingleWriteUnit ==
    ASSUME NEW c \in Channel, SingleInv(c), WriteUnit(c)
    PROVE  SingleInv(c)'
<1> USE DEF SingleInv, HasFile
<1>0. /\ UNCHANGED <<wp, ring, sent, dtv, esDesc, esBuffer, chan, overrun>>
      /\ Statics(c)' /\ RingContents(c)'
  BY RecorderFrame DEF Recorder
<1>s. /\ Size[c] \in Nat /\ Size[c] > 0 /\ Base[c] \in Nat
      /\ wp[c] \in 0..Size[c] - 1 /\ sent[c] \in Nat /\ pos[c] \in Nat
  BY EsRecorderAssumption DEF Kinds
<1> DEFINE unit == UnitAt(piece[c].buf, piece[c].at)
<1>1. /\ pc' = [pc EXCEPT ![c] = "write"] /\ pc[c] = "write"
      /\ piece[c].left > 0 /\ piece[c].at < piece[c].buf.len /\ free > 0
      /\ files' = [files EXCEPT ![fp[c]] = WriteAt(@, pos[c], unit)]
      /\ free' = IF pos[c] \in DOMAIN files[fp[c]] THEN free ELSE free - 1
      /\ pos' = [pos EXCEPT ![c] = pos[c] + 1]
      /\ piece' = [piece EXCEPT ![c].at = @ + 1, ![c].left = @ - 1]
      /\ UNCHANGED <<sem, fp, filecnt, prev, cur>>
  BY DEF WriteUnit, Write, Go, Mapped, statics
<1>2. pc'[c] = "write" /\ pc' = pc /\ pos'[c] = pos[c] + 1 /\ HasFile(c) /\ fp[c] = 0 /\ sem = 0
  BY <1>1 DEF Kinds, Thread
<1>3. /\ piece[c].at \in Nat /\ piece[c].left \in Nat /\ piece[c].more \in Nat
      /\ piece[c].at + piece[c].left <= Size[c]
      /\ piece[c].buf = [chan |-> c, start |-> Base[c], len |-> Size[c]]
      /\ piece[c].short = FALSE
  BY <1>1 DEF Piece, NoBuffer, Kinds
<1>4. /\ piece'[c] = [buf |-> piece[c].buf, at |-> piece[c].at + 1, left |-> piece[c].left - 1,
                      more |-> piece[c].more, short |-> piece[c].short]
      /\ DOMAIN piece' = Channel
  BY <1>1 DEF Piece, Kinds
<1>5. files'[0] = [i \in 0..pos[c] |-> IF i = pos[c] THEN unit ELSE files[0][i]]
  BY <1>1, <1>2, <1>s DEF Kinds, Thread, WriteAt, FileNo
<1>6. Kinds(c)'
  BY <1>0, <1>1, <1>2, <1>4 DEF Kinds
<1>7. Thread(c)'
  BY <1>1, <1>2, <1>5, <1>s DEF Thread
<1>8. Sampled(c)'
  BY <1>0, <1>1, <1>2 DEF Sampled, OfChannel
<1>9. Piece(c)'
  BY <1>s, <1>1, <1>2, <1>3, <1>4 DEF Piece
<1>10. cur[c].wp - Base[c] \in 0..Size[c] - 1
  BY <1>s, <1>1 DEF Sampled, OfChannel
<1>11. ~overrun[c] =>
         /\ sent[c] - pos[c] < Size[c]
         /\ sent[c] - pos[c] = piece[c].left + piece[c].more
                               + Around(cur[c].wp - Base[c], wp[c], Size[c])
  BY <1>1, <1>3 DEF Lag
<1>12. Around(cur[c].wp - Base[c], wp[c], Size[c]) \in Nat
  BY <1>s, <1>10, AroundInRing
<1>13. Lag(c)'
  <2> SUFFICES ASSUME ~overrun[c] PROVE Lag(c)'
    BY <1>0 DEF Lag
  <2>1. sent[c] - pos'[c] < Size[c]
    BY <1>s, <1>2, <1>11
  <2>2. sent[c] - pos'[c] = piece'[c].left + piece'[c].more
                            + Around(cur[c].wp - Base[c], wp[c], Size[c])
    BY <1>s, <1>2, <1>3, <1>4, <1>11, <1>12
  <2> QED
    BY <1>0, <1>1, <1>2, <2>1, <2>2 DEF Lag
<1>14. Contents(c)'
  <2> SUFFICES ASSUME ~overrun[c], NEW i \in 0..pos[c] PROVE files'[0][i] = <<c, i>>
    BY <1>s, <1>0, <1>2 DEF Contents
  <2>1. CASE i # pos[c]
    BY <1>s, <1>5, <2>1 DEF Contents
  <2>2. CASE i = pos[c]
    <3> DEFINE at == piece[c].at
    <3>1. at \in 0..Size[c] - 1
      BY <1>s, <1>1, <1>3
    <3>2. unit = <<c, ring[c][at]>>
      BY <1>s, <1>3, <3>1 DEF UnitAt
    <3>3. ring[c][at] = Held(sent[c], wp[c], at, Size[c])
      BY <3>1 DEF RingContents
    <3>4. \/ piece[c].more = 0 /\ at + piece[c].left = cur[c].wp - Base[c]
          \/ piece[c].more = cur[c].wp - Base[c] /\ at + piece[c].left = Size[c]
      BY <1>1, <1>3 DEF Piece
    <3>5. Held(sent[c], wp[c], at, Size[c]) = pos[c]
      BY <1>s, <1>1, <1>3, <1>10, <1>11, <3>1, <3>4 DEF Held, Around
    <3> QED
      BY <1>5, <2>2, <3>2, <3>3, <3>5
  <2> QED
    BY <2>1, <2>2
<1> QED
  BY <1>0, <1>6, <1>7, <1>8, <1>9, <1>13, <1>14

\* The ends of a write, of a second write, and of take_record.  Nothing is
\* ever written from outside the mapping.
LEMMA SingleWriteEnds ==
    ASSUME NEW c \in Channel, SingleInv(c),
           WriteOutside(c) \/ ShortWrite(c) \/ SecondPiece(c) \/ Recorded(c)
    PROVE  SingleInv(c)'
<1> USE DEF SingleInv, HasFile
<1>0. /\ UNCHANGED <<wp, ring, sent, dtv, esDesc, esBuffer, chan, overrun>>
      /\ Statics(c)' /\ RingContents(c)'
  BY RecorderFrame DEF Recorder
<1>s. /\ Size[c] \in Nat /\ Size[c] > 0 /\ Base[c] \in Nat
      /\ wp[c] \in 0..Size[c] - 1 /\ sent[c] \in Nat /\ pos[c] \in Nat
  BY EsRecorderAssumption DEF Kinds
<1>w. pc[c] = "write"
  BY DEF WriteOutside, ShortWrite, SecondPiece, Recorded, Go
<1>p. /\ piece[c] = [buf |-> piece[c].buf, at |-> piece[c].at, left |-> piece[c].left,
                     more |-> piece[c].more, short |-> piece[c].short]
      /\ piece[c].buf \in {NoBuffer, [chan |-> c, start |-> Base[c], len |-> Size[c]]}
      /\ piece[c].at \in Nat /\ piece[c].left \in Nat /\ piece[c].more \in Nat
      /\ piece[c].short \in BOOLEAN
      /\ piece[c].at + piece[c].left <= Size[c] /\ piece[c].more <= Size[c]
  BY <1>w DEF Piece
<1>f. HasFile(c) /\ sem = 0
  BY <1>w DEF Thread
<1>1. ~WriteOutside(c)
  BY <1>s, <1>p DEF WriteOutside, Mapped, NoBuffer
<1>2. CASE ShortWrite(c)
  <2>1. /\ pc' = pc /\ piece[c].left > 0
        /\ free = 0 \/ piece[c].buf = NoBuffer
        /\ piece' = [piece EXCEPT ![c].left = 0, ![c].short = TRUE]
        /\ UNCHANGED <<sem, fp, pos, filecnt, prev, cur, files, free>>
    BY <1>2, <1>s, <1>p DEF ShortWrite, Mapped, Go, Kinds, statics, disk
  <2>2. /\ piece'[c] = [buf |-> piece[c].buf, at |-> piece[c].at, left |-> 0,
                        more |-> piece[c].more, short |-> TRUE]
        /\ DOMAIN piece' = Channel
    BY <2>1, <1>p DEF Kinds
  <2>3. Kinds(c)' /\ Thread(c)' /\ Sampled(c)' /\ Contents(c)'
    BY <1>0, <2>1, <2>2 DEF Kinds, Thread, Sampled, OfChannel, Contents
  <2>4. Piece(c)'
    BY <1>s, <1>p, <2>1, <2>2 DEF Piece
  <2>5. Lag(c)'
    BY <1>0, <1>w, <1>f, <2>1, <2>2 DEF Lag
  <2> QED
    BY <1>0, <2>3, <2>4, <2>5
<1>3. CASE SecondPiece(c)
  <2>1. /\ pc' = pc /\ piece[c].left = 0 /\ piece[c].more > 0
        /\ piece' = [piece EXCEPT ![c].at = 0, ![c].left = piece[c].more, ![c].more = 0]
        /\ UNCHANGED <<sem, fp, pos, filecnt, prev, cur, files, free>>
    BY <1>3 DEF SecondPiece, Go, Kinds, statics, disk
  <2>2. /\ piece'[c] = [buf |-> piece[c].buf, at |-> 0, left |-> piece[c].more,
                        more |-> 0, short |-> piece[c].short]
        /\ DOMAIN piece' = Channel
    BY <2>1, <1>p DEF Kinds
  <2>3. Kinds(c)' /\ Thread(c)' /\ Sampled(c)' /\ Contents(c)'
    BY <1>0, <2>1, <2>2 DEF Kinds, Thread, Sampled, OfChannel, Contents
  <2>4. ~piece[c].short => piece[c].more = cur[c].wp - Base[c]
    BY <1>w, <2>1 DEF Piece
  <2>5. Piece(c)'
    BY <1>s, <1>w, <1>p, <2>1, <2>2, <2>4 DEF Piece
  <2>6. Lag(c)'
    <3> SUFFICES ASSUME ~overrun[c] PROVE Lag(c)'
      BY <1>0 DEF Lag
    <3>1. piece[c].left + piece[c].more = piece'[c].left + piece'[c].more
      BY <1>p, <2>1, <2>2
    <3> QED
      BY <1>0, <1>w, <1>f, <2>1, <2>2, <3>1 DEF Lag
  <2> QED
    BY <1>0, <2>3, <2>5, <2>6
<1>4. CASE Recorded(c)
  <2>1. /\ pc' = [pc EXCEPT ![c] = "wait"]
        /\ piece[c].left = 0 /\ piece[c].more = 0 /\ ~piece[c].short
        /\ prev' = [prev EXCEPT ![c] = cur[c]]
        /\ UNCHANGED <<sem, fp, pos, filecnt, cur, piece, files, free>>
    BY <1>4 DEF Recorded, Go, statics, disk
  <2>2. pc'[c] = "wait" /\ DOMAIN prev' = Channel /\ prev'[c] = cur[c]
    BY <2>1 DEF Kinds
  <2>3. Kinds(c)' /\ Thread(c)' /\ Contents(c)'
    BY <1>0, <1>w, <1>f, <2>1, <2>2 DEF Kinds, Thread, Contents
  <2>4. Sampled(c)' /\ Piece(c)'
    BY <1>0, <1>w, <2>1, <2>2 DEF Sampled, OfChannel, Piece
  <2>5. Lag(c)'
    <3> SUFFICES ASSUME ~overrun[c] PROVE Lag(c)'
      BY <1>0 DEF Lag
    <3>1. cur[c].wp - Base[c] \in 0..Size[c] - 1
      BY <1>s, <1>w DEF Sampled, OfChannel
    <3>2. Around(cur[c].wp - Base[c], wp[c], Size[c]) \in Nat
      BY <1>s, <3>1, AroundInRing
    <3>3. sent[c] - pos[c] = piece[c].left + piece[c].more
                             + Around(cur[c].wp - Base[c], wp[c], Size[c])
      BY <1>w, <2>1 DEF Lag
    <3>4. sent[c] - pos[c] = Around(cur[c].wp - Base[c], wp[c], Size[c])
      BY <2>1, <3>2, <3>3
    <3> QED
      BY <1>0, <1>w, <1>f, <2>1, <2>2, <3>4 DEF Lag
  <2> QED
    BY <1>0, <2>3, <2>4, <2>5
<1> QED
  BY <1>1, <1>2, <1>3, <1>4

-----------------------------------------------------------------------------
(***************************************************************************)
(* The theorems                                                            *)
(***************************************************************************)

\* Every step of a run with one channel keeps the invariant.
LEMMA SingleStep ==
    ASSUME NEW c \in Channel, Selected = {c}
    PROVE  SingleInv(c) /\ [Next \/ MapAtOnce]_vars => SingleInv(c)'
<1> SUFFICES ASSUME SingleInv(c), [Next \/ MapAtOnce]_vars
             PROVE  SingleInv(c)'
  OBVIOUS
<1>1. CASE Main \/ MapAtOnce
  BY <1>1, SingleMain
<1>2. CASE Send(c)
  BY <1>2, SingleSend
<1>3. CASE Recorder(c)
  BY <1>3, SingleSetup, SingleSample, SingleWriteUnit, SingleWriteEnds DEF Recorder
<1>4. CASE UNCHANGED vars
  <2>1. UNCHANGED <<wp, ring, sent, dtv, esDesc, esBuffer, sem, mpc, chan, pc, fp, pos,
                    filecnt, prev, cur, piece, files, free, overrun>>
    BY <1>4 DEF vars, firmware, statics, main, locals, disk
  <2>2. Kinds(c)' /\ Statics(c)' /\ Thread(c)' /\ Sampled(c)'
    BY <2>1 DEF SingleInv, Kinds, Statics, Thread, Sampled, OfChannel, HasFile
  <2>3. Piece(c)' /\ RingContents(c)' /\ Lag(c)' /\ Contents(c)'
    BY <2>1 DEF SingleInv, Piece, RingContents, Lag, Contents, HasFile
  <2> QED
    BY <2>2, <2>3 DEF SingleInv
<1> QED
  BY <1>1, <1>2, <1>3, <1>4 DEF Next

\* The invariant holds in every reachable state of a run with one channel.
THEOREM SingleInvariant ==
    ASSUME NEW c \in Channel, Selected = {c}
    PROVE  Behaviour => []SingleInv(c)
<1>1. Init => SingleInv(c)
  BY SingleInit DEF Init
<1> QED
  BY <1>1, SingleStep, PTL DEF Behaviour

\* What the invariant says of the properties.
LEMMA SingleIsFaithful ==
    ASSUME NEW c \in Channel, Selected = {c}
    PROVE  SingleInv(c) => FaithfulRecording /\ StaysInBuffer /\ WarnsWithReason
                             /\ NeverWithoutFile
<1> SUFFICES ASSUME SingleInv(c)
             PROVE  FaithfulRecording /\ StaysInBuffer /\ WarnsWithReason /\ NeverWithoutFile
  OBVIOUS
<1>1. FaithfulRecording
  <2> SUFFICES ASSUME ~overrun[c], NEW i \in 0..pos[c] - 1
               PROVE  Recording(c)[i] = <<c, i>>
    BY DEF FaithfulRecording
  <2>1. filecnt[c] = 1
    BY DEF SingleInv, Kinds, Thread, HasFile
  <2> QED
    BY <2>1 DEF SingleInv, Contents, Recording
<1>2. StaysInBuffer
  BY DEF SingleInv, Piece, StaysInBuffer
<1>3. WarnsWithReason
  BY DEF SingleInv, Piece, WarnsWithReason
<1>4. NeverWithoutFile
  BY DEF SingleInv, Thread, HasFile, NeverWithoutFile, NoFile
<1> QED
  BY <1>1, <1>2, <1>3, <1>4

\* A single recorder's file is the stream, without a gap or a repetition, for
\* as long as the firmware never got a whole ring ahead: for every ring,
\* every layout of the descriptor, every point at which the disk fills up.
THEOREM SingleRecordsFaithfully ==
    ASSUME NEW c \in Channel, Selected = {c}
    PROVE  Behaviour => []FaithfulRecording
BY SingleInvariant, SingleIsFaithful, PTL

\* It reads inside the stream buffer only, lapped or not.
THEOREM SingleStaysInBuffer ==
    ASSUME NEW c \in Channel, Selected = {c}
    PROVE  Behaviour => []StaysInBuffer
BY SingleInvariant, SingleIsFaithful, PTL

\* It blames the disk only when the disk is full or there is no buffer.
THEOREM SingleWarnsWithReason ==
    ASSUME NEW c \in Channel, Selected = {c}
    PROVE  Behaviour => []WarnsWithReason
BY SingleInvariant, SingleIsFaithful, PTL

\* It always has a file when it samples.
THEOREM SingleNeverWithoutFile ==
    ASSUME NEW c \in Channel, Selected = {c}
    PROVE  Behaviour => []NeverWithoutFile
BY SingleInvariant, SingleIsFaithful, PTL

-----------------------------------------------------------------------------
(***************************************************************************)
(* The semaphore handshake of func_vesdump.c, for every choice of          *)
(* channels, although the second call resets the semaphore under the first *)
(* thread.  Only the places of the threads, the semaphore and the numbers  *)
(* of the files matter; what is sampled and written does not.              *)
(***************************************************************************)

Places  == {"none", "wait", "open", "setup", "sample", "take", "write", "done"}
Calling == {"addr", "descriptor", "buffer", "map", "init", "post"}

\* Threads about to open a file, and calls of func_vesdump before this one.
Opening(t) == IF pc[t] = "open" THEN 1 ELSE 0
Calls      == IF chan = 1 /\ 0 \in Selected THEN 1 ELSE 0
Posts      == IF mpc \in Calling THEN Calls ELSE Calls + 1

HandTypes ==
    /\ chan \in Selected
    /\ mpc \in Calling \cup {"create", "idle", "crashed"}
    /\ sem \in {0, 1}
    /\ pc \in [Channel -> Places] /\ filecnt \in [Channel -> Nat]

\* A thread that does not exist has no file; main is in the call for a thread
\* that does not exist, nor do the ones after it; the post is still to come.
Order ==
    /\ \A c \in Channel : pc[c] = "none" => filecnt[c] = 0
    /\ mpc \notin {"idle", "crashed"} => pc[chan] = "none"
    /\ chan = 0 => pc[1] = "none"
    /\ mpc = "post" => sem = 0

\* Files opened or about to be, and the post, were all posted.
Count ==
    mpc # "crashed" => filecnt[0] + filecnt[1] + Opening(0) + Opening(1) + sem <= Posts

HandInv == HandTypes /\ Order /\ Count /\ PostNotStranded

LEMMA ChannelFacts ==
    /\ 0 \in Channel /\ 1 \in Channel
    /\ \A c \in Selected : c \in Channel
    /\ \A c \in Channel : c = 0 \/ c = 1
BY EsRecorderAssumption DEF Channel

\* Everything but a step of a thread's handshake: a file count that stays, a
\* place that changes to none of those that count.
LEMMA HandsOff ==
    ASSUME HandInv, NEW t \in Channel, mpc # "crashed",
           pc[t] \notin {"none", "open"}, pc[t] = "wait" => sem = 0,
           NEW place \in {"setup", "sample", "take", "write", "done", "wait"},
           pc' = [pc EXCEPT ![t] = place],
           UNCHANGED <<sem, mpc, chan, filecnt>>
    PROVE  HandInv'
<1> USE DEF HandInv
<1>1. /\ pc'[t] = place /\ \A c \in Channel \ {t} : pc'[c] = pc[c]
      /\ pc' \in [Channel -> Places]
  BY DEF HandTypes, Places
<1>2. HandTypes'
  BY <1>1 DEF HandTypes
<1>3. \A c \in Channel : (pc'[c] = "none" <=> pc[c] = "none") /\ (pc'[c] = "open" <=> pc[c] = "open")
  BY <1>1
<1>4. Order'
  BY <1>3, ChannelFacts DEF Order, HandTypes
<1>5. Opening(0)' = Opening(0) /\ Opening(1)' = Opening(1) /\ Posts' = Posts
  BY <1>3, ChannelFacts DEF Opening, Posts, Calls
<1>6. Count'
  BY <1>5 DEF Count
<1>7. PostNotStranded'
  <2>1. mpc = "idle" /\ sem = 1 => chan # t
    BY DEF PostNotStranded
  <2> QED
    BY <1>1, <2>1, ChannelFacts DEF PostNotStranded, HandTypes
<1> QED
  BY <1>2, <1>4, <1>6, <1>7

LEMMA HandStep ==
    HandInv /\ [Next]_vars => HandInv'
<1> SUFFICES ASSUME HandInv, [Next]_vars PROVE HandInv'
  OBVIOUS
<1>0. HandTypes /\ Order /\ Count /\ PostNotStranded
  BY DEF HandInv
<1>c. chan \in Channel
  BY <1>0, ChannelFacts DEF HandTypes
\* Steps of main that do not touch the semaphore.
<1>1. CASE GetAddr \/ MapDescriptor \/ MapDescriptorFails \/ RawBuffer \/ MapBuffer
  <2>1. /\ UNCHANGED <<sem, chan, pc, filecnt>>
        /\ mpc \in {"addr", "descriptor", "buffer", "map"}
        /\ mpc' \in {"descriptor", "buffer", "map", "init", "crashed"}
    <3>1. CASE GetAddr \/ MapDescriptor \/ MapDescriptorFails
      BY <3>1 DEF GetAddr, MapDescriptor, MapDescriptorFails, locals, statics
    <3>2. CASE RawBuffer \/ MapBuffer
      BY <3>2 DEF RawBuffer, MapBuffer, MapFrom, locals
    <3> QED
      BY <1>1, <3>1, <3>2
  <2>2. HandTypes' /\ Order' /\ PostNotStranded'
    BY <1>0, <2>1 DEF HandTypes, Order, PostNotStranded, Calling
  <2>3. Count'
    BY <1>0, <2>1 DEF Count, Opening, Posts, Calls, Calling
  <2> QED
    BY <2>2, <2>3 DEF HandInv
<1>2. CASE SemInit
  <2>1. /\ UNCHANGED <<chan, pc, filecnt>> /\ mpc = "init" /\ mpc' = "post" /\ sem' = 0
    BY <1>2 DEF SemInit, locals
  <2>2. HandTypes' /\ Order' /\ PostNotStranded'
    BY <1>0, <2>1 DEF HandTypes, Order, PostNotStranded, Calling
  <2>3. Count'
    <3>1. /\ Opening(0)' = Opening(0) /\ Opening(1)' = Opening(1) /\ Posts' = Posts
          /\ Opening(0) \in {0, 1} /\ Opening(1) \in {0, 1} /\ Posts \in Nat
          /\ filecnt[0] \in Nat /\ filecnt[1] \in Nat /\ sem \in {0, 1}
      BY <1>0, <2>1, ChannelFacts DEF Opening, Posts, Calls, Calling, HandTypes
    <3> QED
      BY <1>0, <2>1, <3>1 DEF Count
  <2> QED
    BY <2>2, <2>3 DEF HandInv
<1>3. CASE SemPost
  <2>1. /\ UNCHANGED <<chan, pc, filecnt>> /\ mpc = "post" /\ mpc' = "create" /\ sem' = sem + 1
        /\ sem = 0
    BY <1>0, <1>3 DEF SemPost, locals, Order
  <2>2. HandTypes' /\ Order' /\ PostNotStranded'
    BY <1>0, <2>1 DEF HandTypes, Order, PostNotStranded, Calling
  <2>3. Count'
    <3>1. /\ Opening(0)' = Opening(0) /\ Opening(1)' = Opening(1)
          /\ Opening(0) \in {0, 1} /\ Opening(1) \in {0, 1}
          /\ filecnt[0] \in Nat /\ filecnt[1] \in Nat
      BY <1>0, <2>1, ChannelFacts DEF Opening, HandTypes
    <3>2. Posts' = Posts + 1 /\ Posts \in Nat
      BY <2>1 DEF Posts, Calls, Calling
    <3> QED
      BY <1>0, <2>1, <3>1, <3>2 DEF Count
  <2> QED
    BY <2>2, <2>3 DEF HandInv
<1>4. CASE CreateThread
  <2>1. /\ UNCHANGED <<sem, filecnt>> /\ mpc = "create" /\ pc[chan] = "none" /\ filecnt[chan] = 0
        /\ pc' = [pc EXCEPT ![chan] = "wait"]
        /\ \/ chan = 0 /\ 1 \in Selected /\ mpc' = "addr" /\ chan' = 1
           \/ ~(chan = 0 /\ 1 \in Selected) /\ mpc' = "idle" /\ chan' = chan
    BY <1>0, <1>4, <1>c DEF CreateThread, locals, statics, Order
  <2>2. /\ pc'[chan] = "wait" /\ \A c \in Channel \ {chan} : pc'[c] = pc[c]
        /\ pc' \in [Channel -> Places]
    BY <1>0, <1>c, <2>1 DEF HandTypes, Places
  <2>3. HandTypes'
    BY <1>0, <2>1, <2>2 DEF HandTypes, Calling
  <2>4. Order' /\ PostNotStranded'
    BY <1>0, <1>c, <2>1, <2>2, ChannelFacts DEF Order, PostNotStranded
  <2>5. Count'
    <3>1. Opening(0)' = Opening(0) /\ Opening(1)' = Opening(1)
      BY <2>1, <2>2, ChannelFacts DEF Opening
    <3>2. Posts' = Posts
      <4>1. CASE chan = 0 /\ 1 \in Selected
        BY <1>0, <2>1, <4>1 DEF Posts, Calls, Calling, HandTypes
      <4>2. CASE ~(chan = 0 /\ 1 \in Selected)
        BY <2>1, <4>2 DEF Posts, Calls, Calling
      <4> QED
        BY <4>1, <4>2
    <3> QED
      BY <1>0, <2>1, <3>1, <3>2 DEF Count
  <2> QED
    BY <2>3, <2>4, <2>5 DEF HandInv
<1>5. ASSUME NEW c \in Selected, TakePost(c) PROVE HandInv'
  <2>0. c \in Channel
    BY ChannelFacts
  <2>1. /\ UNCHANGED <<mpc, chan, filecnt>> /\ mpc # "crashed" /\ pc[c] = "wait"
        /\ pc' = [pc EXCEPT ![c] = "open"] /\ sem = 1 /\ sem' = 0
    BY <1>0, <1>5 DEF TakePost, Go, main, HandTypes
  <2>2. /\ pc'[c] = "open" /\ \A d \in Channel \ {c} : pc'[d] = pc[d]
        /\ pc' \in [Channel -> Places]
    BY <1>0, <2>0, <2>1 DEF HandTypes, Places
  <2>3. HandTypes'
    BY <1>0, <2>1, <2>2 DEF HandTypes
  <2>4. \A d \in Channel : pc'[d] = "none" <=> pc[d] = "none"
    BY <2>1, <2>2
  <2>5. Order' /\ PostNotStranded'
    BY <1>0, <1>c, <2>1, <2>4, ChannelFacts DEF Order, PostNotStranded
  <2>6. Count'
    <3>1. Opening(0)' + Opening(1)' = Opening(0) + Opening(1) + 1
      <4>1. CASE c = 0
        <5>1. Opening(0) = 0 /\ Opening(0)' = 1 /\ Opening(1)' = Opening(1) /\ Opening(1) \in {0, 1}
          BY <2>1, <2>2, <4>1, ChannelFacts DEF Opening
        <5> QED
          BY <5>1
      <4>2. CASE c = 1
        <5>1. Opening(1) = 0 /\ Opening(1)' = 1 /\ Opening(0)' = Opening(0) /\ Opening(0) \in {0, 1}
          BY <2>1, <2>2, <4>2, ChannelFacts DEF Opening
        <5> QED
          BY <5>1
      <4> QED
        BY <2>0, <4>1, <4>2, ChannelFacts
    <3>2. Posts' = Posts /\ filecnt' = filecnt
      BY <2>1 DEF Posts, Calls
    <3>3. /\ filecnt[0] \in Nat /\ filecnt[1] \in Nat /\ Posts \in Nat
          /\ Opening(0) \in Nat /\ Opening(1) \in Nat /\ Opening(0)' \in Nat /\ Opening(1)' \in Nat
      BY <1>0, ChannelFacts DEF HandTypes, Posts, Calls, Opening
    <3>4. filecnt[0] + filecnt[1] + Opening(0)' + Opening(1)' + 0 <= Posts
      BY <1>0, <2>1, <3>1, <3>3 DEF Count
    <3> QED
      BY <2>1, <3>2, <3>4 DEF Count
  <2> QED
    BY <2>3, <2>5, <2>6 DEF HandInv
<1>6. ASSUME NEW c \in Selected, Open(c) PROVE HandInv'
  <2>0. c \in Channel
    BY ChannelFacts
  <2>1. /\ UNCHANGED <<sem, mpc, chan>> /\ mpc # "crashed" /\ pc[c] = "open"
        /\ pc' = [pc EXCEPT ![c] = "setup"]
        /\ filecnt' = [filecnt EXCEPT ![c] = filecnt[c] + 1]
    BY <1>6 DEF Open, Go, main, statics
  <2>2. /\ pc'[c] = "setup" /\ \A d \in Channel \ {c} : pc'[d] = pc[d]
        /\ pc' \in [Channel -> Places]
        /\ filecnt'[c] = filecnt[c] + 1 /\ \A d \in Channel \ {c} : filecnt'[d] = filecnt[d]
        /\ filecnt' \in [Channel -> Nat] /\ filecnt[c] \in Nat
    BY <1>0, <2>0, <2>1 DEF HandTypes, Places
  <2>3. HandTypes'
    BY <1>0, <2>1, <2>2 DEF HandTypes
  <2>4. Order'
    BY <1>0, <1>c, <2>0, <2>1, <2>2, ChannelFacts DEF Order
  <2>5. PostNotStranded'
    BY <1>0, <1>c, <2>1, <2>2 DEF PostNotStranded
  <2>6. Count'
    <3>1. filecnt'[0] + filecnt'[1] + Opening(0)' + Opening(1)'
            = filecnt[0] + filecnt[1] + Opening(0) + Opening(1)
      <4>0. filecnt[0] \in Nat /\ filecnt[1] \in Nat
        BY <1>0, ChannelFacts DEF HandTypes
      <4>1. CASE c = 0
        <5>1. /\ Opening(0) = 1 /\ Opening(0)' = 0 /\ Opening(1)' = Opening(1)
              /\ Opening(1) \in {0, 1}
              /\ filecnt'[0] = filecnt[0] + 1 /\ filecnt'[1] = filecnt[1]
          BY <2>1, <2>2, <4>1, ChannelFacts DEF Opening
        <5> QED
          BY <4>0, <5>1
      <4>2. CASE c = 1
        <5>1. /\ Opening(1) = 1 /\ Opening(1)' = 0 /\ Opening(0)' = Opening(0)
              /\ Opening(0) \in {0, 1}
              /\ filecnt'[1] = filecnt[1] + 1 /\ filecnt'[0] = filecnt[0]
          BY <2>1, <2>2, <4>2, ChannelFacts DEF Opening
        <5> QED
          BY <4>0, <5>1
      <4> QED
        BY <2>0, <4>1, <4>2, ChannelFacts
    <3>2. Posts' = Posts /\ sem' = sem
      BY <2>1 DEF Posts, Calls
    <3> QED
      BY <1>0, <2>1, <3>1, <3>2 DEF Count
  <2> QED
    BY <2>3, <2>4, <2>5, <2>6 DEF HandInv
\* The thread's other steps, and those that end it.
<1>7. ASSUME NEW c \in Selected,
             TimeOut(c) \/ Setup(c) \/ Sample(c) \/ TakeNothing(c) \/ TakeRecord(c)
             \/ WriteUnit(c) \/ WriteOutside(c) \/ ShortWrite(c) \/ SecondPiece(c) \/ Recorded(c)
             \/ GiveUp(c)
      PROVE  HandInv'
  <2>1. /\ UNCHANGED <<sem, mpc, chan, filecnt>> /\ mpc # "crashed"
        /\ pc[c] \notin {"none", "open"} /\ (pc[c] = "wait" => sem = 0)
        /\ \E place \in {"setup", "sample", "take", "write", "done", "wait"} :
               pc' = [pc EXCEPT ![c] = place]
    BY <1>7 DEF TimeOut, Setup, Sample, TakeNothing, TakeRecord, WriteUnit, WriteOutside,
                ShortWrite, SecondPiece, Recorded, GiveUp, Go, main, statics, locals
  <2> QED
    BY <2>1, HandsOff, ChannelFacts
<1>8. ASSUME NEW c \in Selected, OpenFails(c) PROVE HandInv'
  <2>0. c \in Channel
    BY ChannelFacts
  <2>1. /\ UNCHANGED <<sem, mpc, chan, filecnt>> /\ mpc # "crashed" /\ pc[c] = "open"
        /\ pc' = [pc EXCEPT ![c] = "done"]
    BY <1>8 DEF OpenFails, Go, main, statics, locals
  <2>2. /\ pc'[c] = "done" /\ \A d \in Channel \ {c} : pc'[d] = pc[d]
        /\ pc' \in [Channel -> Places]
    BY <1>0, <2>0, <2>1 DEF HandTypes, Places
  <2>3. HandTypes' /\ Order' /\ PostNotStranded'
    BY <1>0, <1>c, <2>1, <2>2, ChannelFacts DEF HandTypes, Order, PostNotStranded
  <2>4. Count'
    <3>1. /\ Opening(0)' <= Opening(0) /\ Opening(1)' <= Opening(1)
          /\ Opening(0) \in Nat /\ Opening(1) \in Nat /\ Opening(0)' \in Nat /\ Opening(1)' \in Nat
      BY <2>1, <2>2, ChannelFacts DEF Opening
    <3>2. Posts' = Posts /\ Posts \in Nat /\ filecnt[0] \in Nat /\ filecnt[1] \in Nat /\ sem \in Nat
      BY <1>0, <2>1, ChannelFacts DEF Posts, Calls, HandTypes
    <3> QED
      BY <1>0, <2>1, <3>1, <3>2 DEF Count
  <2> QED
    BY <2>3, <2>4 DEF HandInv
<1>9. ASSUME NEW c \in Selected, Crash(c) PROVE HandInv'
  <2>1. UNCHANGED <<sem, chan, pc, filecnt>> /\ mpc' = "crashed"
    BY <1>9 DEF Crash, statics, locals
  <2> QED
    BY <1>0, <2>1 DEF HandInv, HandTypes, Order, Count, PostNotStranded
<1>10. CASE UNCHANGED vars \/ \E c \in Selected : Send(c)
  <2>1. UNCHANGED <<sem, mpc, chan, pc, filecnt>>
    BY <1>10 DEF vars, Send, statics, main, locals
  <2>2. HandTypes' /\ Order' /\ PostNotStranded'
    BY <1>0, <2>1 DEF HandTypes, Order, PostNotStranded
  <2>3. Count'
    BY <1>0, <2>1 DEF Count, Opening, Posts, Calls
  <2> QED
    BY <2>2, <2>3 DEF HandInv
<1> QED
  BY <1>1, <1>2, <1>3, <1>4, <1>5, <1>6, <1>7, <1>8, <1>9, <1>10 DEF Next, Main, Recorder

LEMMA HandInit == RestInit => HandInv
<1> SUFFICES ASSUME RestInit PROVE HandInv
  OBVIOUS
<1>1. /\ sem = 0 /\ mpc = "addr" /\ chan = (IF 0 \in Selected THEN 0 ELSE 1)
      /\ pc = [c \in Channel |-> "none"] /\ filecnt = [c \in Channel |-> 0]
  BY DEF RestInit
<1>2. chan \in Selected
  BY <1>1, EsRecorderAssumption DEF Channel
<1>3. pc[0] = "none" /\ pc[1] = "none" /\ filecnt[0] = 0 /\ filecnt[1] = 0
  BY <1>1, ChannelFacts
<1>4. HandTypes
  BY <1>1, <1>2 DEF HandTypes, Calling, Places
<1>5. Order
  BY <1>1, <1>2, <1>3, ChannelFacts DEF Order
<1>6. Count
  BY <1>1, <1>3 DEF Count, Opening, Posts, Calls, Calling
<1> QED
  BY <1>1, <1>4, <1>5, <1>6 DEF HandInv, PostNotStranded

\* Places, semaphore and files fit together in every reachable state, whichever
\* channels are selected.
THEOREM HandshakeInvariant == Behaviour => []HandInv
<1> QED
  BY HandInit, HandStep, PTL DEF Behaviour, Init

\* The number of calls, and of threads that open a file, as the property
\* counts them.
LEMMA Counted ==
    ASSUME HandTypes
    PROVE  /\ PostsMade = Posts
           /\ Cardinality({t \in Channel : pc[t] = "open"}) = Opening(0) + Opening(1)
<1>1. Cardinality({c \in Selected : c < chan}) = Calls
  <2>1. chan \in Channel
    BY ChannelFacts DEF HandTypes
  <2>2. CASE chan = 1 /\ 0 \in Selected
    <3>1. {c \in Selected : c < chan} = {0}
      BY <2>2, ChannelFacts
    <3> QED
      BY <2>2, <3>1, FS_Singleton DEF Calls
  <2>3. CASE ~(chan = 1 /\ 0 \in Selected)
    <3>1. {c \in Selected : c < chan} = {}
      BY <2>1, <2>3, ChannelFacts
    <3> QED
      BY <2>3, <3>1, FS_EmptySet DEF Calls
  <2> QED
    BY <2>2, <2>3
<1>2. PostsMade = Posts
  BY <1>1 DEF PostsMade, Posts, Calling
<1>3. Cardinality({t \in Channel : pc[t] = "open"}) = Opening(0) + Opening(1)
  <2> DEFINE S == {t \in Channel : pc[t] = "open"}
  <2>1. CASE pc[0] = "open" /\ pc[1] = "open"
    <3>1. S = {0, 1} /\ 0 # 1
      BY <2>1 DEF Channel
    <3>2. Cardinality({0, 1}) = 2
      <4>1. IsFiniteSet({1}) /\ Cardinality({1}) = 1
        BY FS_Singleton
      <4>2. Cardinality({1} \cup {0}) = 2
        BY <4>1, FS_AddElement
      <4> QED
        BY <4>2, {0, 1} = {1} \cup {0}
    <3> QED
      BY <2>1, <3>1, <3>2 DEF Opening
  <2>2. CASE pc[0] = "open" /\ pc[1] # "open"
    <3>1. S = {0}
      BY <2>2 DEF Channel
    <3> QED
      <4>1. Cardinality(S) = 1
        BY <3>1, FS_Singleton
      <4>2. Opening(0) = 1 /\ Opening(1) = 0
        BY <2>2 DEF Opening
      <4> QED
        BY <4>1, <4>2
  <2>3. CASE pc[0] # "open" /\ pc[1] = "open"
    <3>1. S = {1}
      BY <2>3 DEF Channel
    <3> QED
      <4>1. Cardinality(S) = 1
        BY <3>1, FS_Singleton
      <4>2. Opening(0) = 0 /\ Opening(1) = 1
        BY <2>3 DEF Opening
      <4> QED
        BY <4>1, <4>2
  <2>4. CASE pc[0] # "open" /\ pc[1] # "open"
    <3>1. S = {}
      BY <2>4 DEF Channel
    <3> QED
      BY <2>4, <3>1, FS_EmptySet DEF Opening
  <2> QED
    BY <2>1, <2>2, <2>3, <2>4
<1> QED
  BY <1>2, <1>3

LEMMA HandshakeCounts == HandInv => OneFilePerPost
<1> SUFFICES ASSUME HandInv, mpc # "crashed"
             PROVE  filecnt[0] + filecnt[1] + Cardinality({t \in Channel : pc[t] = "open"})
                      + sem <= PostsMade
  BY DEF OneFilePerPost
<1>1. filecnt[0] + filecnt[1] + Opening(0) + Opening(1) + sem <= Posts
  BY DEF HandInv, Count
<1>2. /\ filecnt[0] \in Nat /\ filecnt[1] \in Nat /\ sem \in Nat
      /\ Opening(0) \in Nat /\ Opening(1) \in Nat /\ Posts \in Nat
  BY ChannelFacts DEF HandInv, HandTypes, Opening, Posts, Calls
<1>3. /\ PostsMade = Posts
      /\ Cardinality({t \in Channel : pc[t] = "open"}) = Opening(0) + Opening(1)
  BY Counted DEF HandInv
<1> QED
  BY <1>1, <1>2, <1>3

\* func_vesdump: every file is opened for a post of its own, with both
\* channels selected as well.
THEOREM FilesForPosts == Behaviour => []OneFilePerPost
BY HandshakeCounts, HandshakeInvariant, PTL

\* func_vesdump: while the last post is untaken, the thread created last is
\* there to take it, and has no file yet.
THEOREM LastPostIsNotStranded == Behaviour => []PostNotStranded
<1>1. HandInv => PostNotStranded
  BY DEF HandInv
<1> QED
  BY <1>1, HandshakeInvariant, PTL

-----------------------------------------------------------------------------
(***************************************************************************)
(* Kinds of values, with both channels: a descriptor may be read with the  *)
(* flag of the other's layout, and gives addresses all the same; fopen     *)
(* finds the numbers of its files in range because of the handshake.       *)
(***************************************************************************)
Values ==
    /\ wp \in [Channel -> Nat] /\ (\A c \in Channel : wp[c] < Size[c])
    /\ DOMAIN ring = Channel /\ (\A c \in Channel : ring[c] \in [0..Size[c] - 1 -> Int])
    /\ sent \in [Channel -> Nat] /\ overrun \in [Channel -> BOOLEAN]
    /\ dtv \in BOOLEAN /\ esDesc \in Channel \cup {NoChannel} /\ esBuffer \in Buffer
    /\ mpc \in {"buffer", "map", "init", "post", "create"} => esDesc \in Channel
    /\ \A c \in Channel : pc[c] # "none" => esDesc \in Channel

Locals ==
    /\ fp \in [Channel -> FileNo \cup {NoFile}] /\ pos \in [Channel -> Nat]
    /\ prev \in [Channel -> Descriptor] /\ cur \in [Channel -> Descriptor]
    /\ piece \in [Channel -> [buf : Buffer, at : Nat, left : Nat, more : Nat, short : BOOLEAN]]
    /\ \A c \in Channel : pc[c] = "write" => fp[c] \in FileNo

IsFile(f) == IsFiniteSet(DOMAIN f) /\ \A i \in DOMAIN f : i \in Nat /\ f[i] \in Unit

Disk == DOMAIN files = FileNo /\ (\A n \in FileNo : IsFile(files[n])) /\ free \in Nat

TypeInv == HandInv /\ Values /\ Locals /\ Disk

LEMMA MinusInSpace ==
    ASSUME NEW a \in Addr, NEW b \in Addr
    PROVE  Minus(a, b) \in Addr
BY EsRecorderAssumption DEF Minus, Addr

\* Whichever flag a descriptor is read with.
LEMMA DescriptorTyped ==
    ASSUME Values, esDesc \in Channel
    PROVE  descriptor_get \in Descriptor
<1> DEFINE b == Base[esDesc]
           z == Size[esDesc]
           w == wp[esDesc]
<1>1. b \in Nat /\ z \in Nat /\ w \in Nat /\ w < z /\ b + z < AddrSpace /\ AddrSpace \in Nat
  BY EsRecorderAssumption DEF Values
<1>2. b \in Addr /\ b + w \in Addr /\ b + w + 1 \in Addr /\ b + z \in Addr /\ ((b + z) - 1) + 1 \in Addr
  BY <1>1 DEF Addr
<1>3. DescriptorWords(esDesc) \in {<<b + w, b + w, b, b + z>>, <<b, (b + z) - 1, b + w, b + w>>}
  <2>1. DescriptorWords(esDesc) = IF Layout[esDesc] = "demux"
                                  THEN <<b + w, b + w, b, b + z>>
                                  ELSE <<b, (b + z) - 1, b + w, b + w>>
    BY Zenon DEF DescriptorWords
  <2> QED
    BY <2>1, Zenon
<1>4. CASE DescriptorWords(esDesc) = <<b + w, b + w, b, b + z>>
  <2>1. descriptor_get = IF dtv THEN [start |-> b, end |-> b + z, wp |-> b + w]
                                ELSE [start |-> b + w, end |-> b + w + 1, wp |-> b]
    BY <1>4 DEF descriptor_get
  <2> QED
    BY <1>2, <2>1 DEF Descriptor
<1>5. CASE DescriptorWords(esDesc) = <<b, (b + z) - 1, b + w, b + w>>
  <2>1. descriptor_get = IF dtv THEN [start |-> b + w, end |-> b + w, wp |-> b]
                                ELSE [start |-> b, end |-> ((b + z) - 1) + 1, wp |-> b + w]
    BY <1>5 DEF descriptor_get
  <2> QED
    BY <1>2, <2>1 DEF Descriptor
<1> QED
  BY <1>3, <1>4, <1>5

\* What two samples leave to be written.
LEMMA PiecesTyped ==
    ASSUME NEW p \in Descriptor, NEW c \in Descriptor, NEW buf \in Buffer
    PROVE  Pieces(p, c, buf) \in [buf : Buffer, at : Nat, left : Nat, more : Nat, short : BOOLEAN]
<1>1. /\ p.start \in Addr /\ p.end \in Addr /\ p.wp \in Addr /\ c.wp \in Addr /\ c.start \in Addr
  BY DEF Descriptor
<1>2. /\ Minus(p.wp, p.start) \in Addr /\ Minus(p.end, p.wp) \in Addr
      /\ Minus(c.wp, c.start) \in Addr
  BY <1>1, MinusInSpace
<1>3. Addr \subseteq Nat /\ (c.wp >= p.wp => c.wp - p.wp \in Nat)
  BY <1>1, EsRecorderAssumption DEF Addr
<1> QED
  BY <1>2, <1>3 DEF Pieces

\* What fwrite finds in the mapping.
LEMMA UnitTyped ==
    ASSUME Values, NEW buf \in Buffer, NEW i \in Nat, Mapped(buf, i)
    PROVE  UnitAt(buf, i) \in Unit
<1>1. buf # NoBuffer
  BY DEF Mapped, NoBuffer
<1>2. buf.chan \in Channel
  BY <1>1 DEF Buffer
<1> QED
  BY <1>2 DEF UnitAt, Unit, Values

\* What it leaves of the file.
LEMMA FileTyped ==
    ASSUME NEW f, IsFile(f), NEW at \in Nat, NEW unit \in Unit
    PROVE  IsFile(WriteAt(f, at, unit))
<1>1. IsFiniteSet(0..at)
  BY FS_Interval
<1>2. DOMAIN WriteAt(f, at, unit) = DOMAIN f \cup 0..at
  BY DEF WriteAt
<1>3. IsFiniteSet(DOMAIN WriteAt(f, at, unit))
  BY <1>1, <1>2, FS_Union DEF IsFile
<1>4. ASSUME NEW i \in DOMAIN WriteAt(f, at, unit)
      PROVE  i \in Nat /\ WriteAt(f, at, unit)[i] \in Unit
  BY <1>4 DEF WriteAt, IsFile, Unit
<1> QED
  BY <1>3, <1>4 DEF IsFile

LEMMA ValuesStep ==
    ASSUME TypeInv, Next
    PROVE  Values'
<1> USE DEF TypeInv
<1>1. ASSUME NEW c \in Selected, Send(c) PROVE Values'
  <2>1. c \in Channel
    BY ChannelFacts
  <2>2. /\ ring' = [ring EXCEPT ![c][wp[c]] = sent[c]]
        /\ wp' = [wp EXCEPT ![c] = IF wp[c] + 1 = Size[c] THEN 0 ELSE wp[c] + 1]
        /\ sent' = [sent EXCEPT ![c] = sent[c] + 1]
        /\ overrun' = [overrun EXCEPT ![c] = overrun[c] \/ sent[c] + 1 - pos[c] >= Size[c]]
        /\ UNCHANGED <<dtv, esDesc, esBuffer, mpc, pc>>
    BY <1>1 DEF Send, statics, main
  <2>3. wp[c] \in Nat /\ Size[c] \in Nat /\ wp[c] < Size[c] /\ sent[c] \in Nat
    BY <2>1, EsRecorderAssumption DEF Values
  <2>4. wp'[c] \in Nat /\ wp'[c] < Size[c]
    BY <2>1, <2>2, <2>3 DEF Values
  <2>5. wp' \in [Channel -> Nat] /\ \A d \in Channel : wp'[d] < Size[d]
    BY <2>1, <2>2, <2>3, <2>4 DEF Values
  <2>6. ring'[c] \in [0..Size[c] - 1 -> Int]
    BY <2>1, <2>2, <2>3 DEF Values
  <2>7. DOMAIN ring' = Channel /\ \A d \in Channel : ring'[d] \in [0..Size[d] - 1 -> Int]
    BY <2>1, <2>2, <2>6 DEF Values
  <2>8. sent' \in [Channel -> Nat] /\ overrun' \in [Channel -> BOOLEAN]
    <3>1. sent' \in [Channel -> Nat]
      BY <2>1, <2>2, <2>3 DEF Values
    <3>2. (overrun[c] \/ sent[c] + 1 - pos[c] >= Size[c]) \in BOOLEAN
      BY Zenon
    <3>3. overrun' \in [Channel -> BOOLEAN]
      BY <2>2, <3>2, Zenon DEF Values
    <3> QED
      BY <3>1, <3>3
  <2> QED
    BY <2>2, <2>5, <2>7, <2>8 DEF Values
<1>2. ASSUME Main PROVE Values'
  <2>1. UNCHANGED <<wp, ring, sent, overrun>>
    BY <1>2 DEF Main, GetAddr, MapDescriptor, MapDescriptorFails, RawBuffer, MapBuffer, MapFrom,
                SemInit, SemPost, CreateThread, firmware
  <2>2. chan \in Channel
    BY ChannelFacts DEF HandInv, HandTypes
  <2>3. CASE GetAddr
    <3>1. (dtv \/ Layout[chan] = "demux") \in BOOLEAN
      BY Zenon
    <3> QED
      BY <2>1, <2>3, <3>1 DEF GetAddr, Values
  <2>4. CASE MapDescriptor \/ MapDescriptorFails
    BY <2>1, <2>2, <2>4 DEF MapDescriptor, MapDescriptorFails, Values, statics
  <2>5. CASE RawBuffer \/ MapBuffer
    <3> DEFINE d == descriptor_get
    <3>1. esDesc \in Channel
      BY <2>5 DEF RawBuffer, MapBuffer, MapFrom, Values
    <3>2. d.start \in Addr /\ d.end \in Addr
      BY <3>1, DescriptorTyped DEF Descriptor
    <3>3. Minus(d.end, d.start) \in Addr
      BY <3>2, MinusInSpace
    <3>4. 0 \in Addr
      BY <3>2, EsRecorderAssumption DEF Addr
    <3>5. esBuffer' \in Buffer
      BY <2>5, <3>1, <3>2, <3>3, <3>4 DEF RawBuffer, MapBuffer, MapFrom, Buffer
    <3> QED
      BY <2>1, <2>5, <3>1, <3>5 DEF RawBuffer, MapBuffer, MapFrom, Values
  <2>6. CASE SemInit \/ SemPost
    BY <2>1, <2>6 DEF SemInit, SemPost, Values
  <2>7. CASE CreateThread
    <3>1. UNCHANGED <<dtv, esDesc, esBuffer>> /\ mpc = "create" /\ mpc' \in {"addr", "idle"}
      BY <2>7 DEF CreateThread, statics
    <3> QED
      BY <2>1, <3>1 DEF Values
  <2> QED
    BY <1>2, <2>3, <2>4, <2>5, <2>6, <2>7 DEF Main
<1>3. ASSUME NEW c \in Selected, Recorder(c) PROVE Values'
  <2>1. /\ UNCHANGED <<wp, ring, sent, overrun, dtv, esDesc, esBuffer>>
        /\ mpc' \in {mpc, "crashed"}
        /\ pc[c] # "none" /\ (pc' = pc \/ \E place : pc' = [pc EXCEPT ![c] = place])
    <3>1. CASE TakePost(c) \/ TimeOut(c) \/ Open(c) \/ OpenFails(c) \/ Setup(c) \/ Sample(c)
               \/ TakeNothing(c)
      BY <3>1 DEF TakePost, TimeOut, Open, OpenFails, Setup, Sample, TakeNothing, Go,
                  firmware, statics, main
    <3>2. CASE TakeRecord(c) \/ WriteUnit(c) \/ WriteOutside(c) \/ Crash(c) \/ ShortWrite(c)
               \/ SecondPiece(c) \/ Recorded(c) \/ GiveUp(c)
      BY <3>2 DEF TakeRecord, WriteUnit, WriteOutside, Crash, ShortWrite, SecondPiece, Recorded,
                  GiveUp, Go, firmware, statics, main
    <3> QED
      BY <1>3, <3>1, <3>2 DEF Recorder
  <2>2. c \in Channel
    BY ChannelFacts
  <2>3. esDesc \in Channel
    BY <2>1, <2>2 DEF Values
  <2> QED
    BY <2>1, <2>3 DEF Values
<1> QED
  BY <1>1, <1>2, <1>3 DEF Next

\* The steps of a thread that touch neither its file nor its piece.
LEMMA LocalsKeep ==
    ASSUME TypeInv, NEW c \in Selected,
           TakePost(c) \/ TimeOut(c) \/ OpenFails(c) \/ Setup(c) \/ Sample(c) \/ TakeNothing(c)
           \/ Recorded(c) \/ GiveUp(c) \/ Crash(c)
    PROVE  Locals' /\ Disk'
<1> USE DEF TypeInv
<1>1. c \in Channel
  BY ChannelFacts
<1>2. UNCHANGED <<pos, piece, files, free>>
  BY DEF TakePost, TimeOut, OpenFails, Setup, Sample, TakeNothing, Recorded, GiveUp, Crash,
         locals, disk
<1>3. /\ fp' = fp \/ fp' = [fp EXCEPT ![c] = NoFile]
      /\ \/ pc' = pc /\ fp' = fp
         \/ \E place \in {"open", "sample", "done", "take", "wait"} :
               pc' = [pc EXCEPT ![c] = place]
  <2>1. CASE TakePost(c) \/ TimeOut(c) \/ OpenFails(c) \/ TakeNothing(c) \/ GiveUp(c)
    BY <2>1 DEF TakePost, TimeOut, OpenFails, TakeNothing, GiveUp, Go, locals
  <2>2. CASE Setup(c) \/ Sample(c) \/ Recorded(c) \/ Crash(c)
    BY <2>2 DEF Setup, Sample, Recorded, Crash, Go, locals
  <2> QED
    BY <2>1, <2>2
<1>4. fp' \in [Channel -> FileNo \cup {NoFile}]
  BY <1>1, <1>3 DEF Locals
<1>5. \A d \in Channel : pc'[d] = "write" => fp'[d] \in FileNo
  <2> SUFFICES ASSUME NEW d \in Channel, pc'[d] = "write" PROVE fp'[d] \in FileNo
    OBVIOUS
  <2>1. CASE pc' = pc /\ fp' = fp
    BY <2>1 DEF Locals
  <2>2. ASSUME NEW place \in {"open", "sample", "done", "take", "wait"},
               pc' = [pc EXCEPT ![c] = place]
        PROVE  fp'[d] \in FileNo
    <3>1. d # c /\ pc[d] = "write"
      BY <1>1, <2>2 DEF HandInv, HandTypes
    <3> QED
      BY <1>3, <3>1 DEF Locals
  <2> QED
    BY <1>3, <2>1, <2>2
<1>6. prev' \in [Channel -> Descriptor] /\ cur' \in [Channel -> Descriptor]
  <2>1. CASE Setup(c)
    <3>1. descriptor_get \in Descriptor
      BY <1>1, <2>1, DescriptorTyped DEF Setup, Go, Values
    <3>2. [descriptor_get EXCEPT !.wp = descriptor_get.start] \in Descriptor
      BY <3>1 DEF Descriptor
    <3> QED
      BY <2>1, <3>2 DEF Setup, Locals
  <2>2. CASE Sample(c)
    <3>1. descriptor_get \in Descriptor
      BY <1>1, <2>2, DescriptorTyped DEF Sample, Go, Values
    <3> QED
      BY <2>2, <3>1 DEF Sample, Locals
  <2>3. CASE Recorded(c)
    BY <1>1, <2>3 DEF Recorded, Locals
  <2>4. CASE TakePost(c) \/ TimeOut(c) \/ OpenFails(c) \/ TakeNothing(c) \/ GiveUp(c) \/ Crash(c)
    BY <2>4 DEF TakePost, TimeOut, OpenFails, TakeNothing, GiveUp, Crash, locals, Locals
  <2> QED
    BY <2>1, <2>2, <2>3, <2>4
<1> QED
  BY <1>2, <1>4, <1>5, <1>6 DEF Locals, Disk

LEMMA OpenKeeps ==
    ASSUME TypeInv, NEW c \in Selected, Open(c)
    PROVE  Locals' /\ Disk'
<1> USE DEF TypeInv
<1>1. c \in Channel
  BY ChannelFacts
<1>2. /\ pc[c] = "open" /\ mpc # "crashed" /\ pc' = [pc EXCEPT ![c] = "setup"]
      /\ fp' = [fp EXCEPT ![c] = filecnt[c]] /\ pos' = [pos EXCEPT ![c] = 0]
      /\ files' = [files EXCEPT ![filecnt[c]] = EmptyFile]
      /\ free' = free + Cardinality(DOMAIN files[filecnt[c]])
      /\ UNCHANGED <<prev, cur, piece>>
  BY DEF Open, Go, Length
<1>3. filecnt[c] \in FileNo
  <2>1. /\ filecnt[0] \in Nat /\ filecnt[1] \in Nat /\ sem \in Nat /\ Posts \in {0, 1, 2}
        /\ Opening(0) \in Nat /\ Opening(1) \in Nat
    BY ChannelFacts DEF HandInv, HandTypes, Posts, Calls, Opening
  <2>2. filecnt[0] + filecnt[1] + Opening(0) + Opening(1) + sem <= Posts
    BY <1>2 DEF HandInv, Count
  <2>3. CASE c = 0
    <3>1. Opening(0) = 1
      BY <1>2, <2>3 DEF Opening
    <3>2. filecnt[0] <= 1
      BY <2>1, <2>2, <3>1
    <3> QED
      BY <2>1, <2>3, <3>2 DEF FileNo
  <2>4. CASE c = 1
    <3>1. Opening(1) = 1
      BY <1>2, <2>4 DEF Opening
    <3>2. filecnt[1] <= 1
      BY <2>1, <2>2, <3>1
    <3> QED
      BY <2>1, <2>4, <3>2 DEF FileNo
  <2> QED
    BY <1>1, <2>3, <2>4, ChannelFacts
<1>4. Locals'
  <2>1. fp' \in [Channel -> FileNo \cup {NoFile}] /\ pos' \in [Channel -> Nat]
    BY <1>1, <1>2, <1>3 DEF Locals
  <2>2. \A d \in Channel : pc'[d] = "write" => fp'[d] \in FileNo
    BY <1>1, <1>2, <1>3 DEF Locals, HandInv, HandTypes
  <2> QED
    BY <1>2, <2>1, <2>2 DEF Locals
<1>5. Disk'
  <2>1. IsFile(EmptyFile)
    BY FS_EmptySet DEF IsFile, EmptyFile
  <2>2. Cardinality(DOMAIN files[filecnt[c]]) \in Nat
    BY <1>3, FS_CardinalityType DEF Disk, IsFile
  <2>3. DOMAIN files' = FileNo /\ \A n \in FileNo : files'[n] \in {files[n], EmptyFile}
    BY <1>2 DEF Disk
  <2>4. \A n \in FileNo : IsFile(files'[n])
    BY <2>1, <2>3 DEF Disk
  <2>5. free' \in Nat
    BY <1>2, <2>2 DEF Disk
  <2> QED
    BY <2>3, <2>4, <2>5 DEF Disk
<1> QED
  BY <1>4, <1>5

\* take_record, up to the fwrites.
LEMMA PieceKeeps ==
    ASSUME TypeInv, NEW c \in Selected, TakeRecord(c) \/ ShortWrite(c) \/ SecondPiece(c)
    PROVE  Locals' /\ Disk'
<1> USE DEF TypeInv
<1>1. c \in Channel
  BY ChannelFacts
<1>2. /\ pc' = [pc EXCEPT ![c] = "write"] /\ pc[c] \in {"take", "write"}
      /\ UNCHANGED <<fp, pos, prev, cur, files, free>>
      /\ pc[c] = "take" => fp[c] # NoFile
  BY DEF TakeRecord, ShortWrite, SecondPiece, Go, disk
<1>3. fp[c] \in FileNo
  BY <1>1, <1>2 DEF Locals
<1>4. \A d \in Channel : pc'[d] = "write" => fp'[d] \in FileNo
  BY <1>1, <1>2, <1>3 DEF Locals, HandInv, HandTypes
<1> DEFINE P == [buf : Buffer, at : Nat, left : Nat, more : Nat, short : BOOLEAN]
<1>5. piece' \in [Channel -> P]
  <2>1. CASE TakeRecord(c)
    <3>1. Pieces(prev[c], cur[c], esBuffer) \in P
      BY <1>1, PiecesTyped DEF Locals, Values
    <3> QED
      BY <2>1, <3>1 DEF TakeRecord, Locals
  <2>2. CASE ShortWrite(c)
    <3>1. piece[c] \in P
      BY <1>1 DEF Locals
    <3>2. [piece[c] EXCEPT !.left = 0, !.short = TRUE] \in P
      BY <3>1
    <3>3. piece' = [piece EXCEPT ![c] = [piece[c] EXCEPT !.left = 0, !.short = TRUE]]
      BY <2>2 DEF ShortWrite
    <3> QED
      BY <3>2, <3>3 DEF Locals
  <2>3. CASE SecondPiece(c)
    <3>1. piece[c] \in P
      BY <1>1 DEF Locals
    <3>2. [piece[c] EXCEPT !.at = 0, !.left = piece[c].more, !.more = 0] \in P
      BY <3>1
    <3>3. piece' = [piece EXCEPT ![c] = [piece[c] EXCEPT !.at = 0, !.left = piece[c].more,
                                                         !.more = 0]]
      BY <2>3 DEF SecondPiece
    <3> QED
      BY <3>2, <3>3 DEF Locals
  <2> QED
    BY <2>1, <2>2, <2>3
<1> QED
  BY <1>2, <1>4, <1>5 DEF Locals, Disk

\* fwrite.
LEMMA WriteKeeps ==
    ASSUME TypeInv, NEW c \in Selected, WriteUnit(c) \/ WriteOutside(c)
    PROVE  Locals' /\ Disk'
<1> USE DEF TypeInv
<1>1. c \in Channel
  BY ChannelFacts
<1> DEFINE P == [buf : Buffer, at : Nat, left : Nat, more : Nat, short : BOOLEAN]
<1>2. /\ piece[c] \in P /\ piece[c].buf \in Buffer /\ piece[c].at \in Nat /\ piece[c].left \in Nat
      /\ pos[c] \in Nat
  BY <1>1 DEF Locals
<1>3. PICK unit \in Unit : Write(c, unit)
  <2>1. CASE WriteUnit(c)
    BY <1>2, <2>1, UnitTyped DEF WriteUnit
  <2>2. CASE WriteOutside(c)
    BY <2>2 DEF WriteOutside, Unit
  <2> QED
    BY <2>1, <2>2
<1>4. /\ pc[c] = "write" /\ pc' = [pc EXCEPT ![c] = "write"] /\ piece[c].left > 0
      /\ UNCHANGED <<fp, prev, cur>>
  BY DEF WriteUnit, WriteOutside, Go
<1>5. pc' = pc /\ fp[c] \in FileNo
  BY <1>1, <1>4 DEF Locals, HandInv, HandTypes
<1>6. Locals'
  <2>1. [piece[c] EXCEPT !.at = piece[c].at + 1, !.left = piece[c].left - 1] \in P
    <3>1. piece[c].at + 1 \in Nat /\ piece[c].left - 1 \in Nat
      BY <1>2, <1>4
    <3> QED
      BY <1>2, <3>1
  <2>2. piece' = [piece EXCEPT ![c] = [piece[c] EXCEPT !.at = piece[c].at + 1,
                                                       !.left = piece[c].left - 1]]
    BY <1>3 DEF Write
  <2>3. piece' \in [Channel -> P]
    BY <2>1, <2>2 DEF Locals
  <2>4. pos' \in [Channel -> Nat]
    <3>1. pos' = [pos EXCEPT ![c] = pos[c] + 1]
      BY <1>3 DEF Write
    <3>2. pos \in [Channel -> Nat] /\ pos[c] + 1 \in Nat
      BY <1>2 DEF Locals
    <3> QED
      BY <3>1, <3>2
  <2> QED
    BY <1>4, <1>5, <2>3, <2>4 DEF Locals
<1>7. Disk'
  <2>1. files' = [files EXCEPT ![fp[c]] = WriteAt(files[fp[c]], pos[c], unit)]
    BY <1>3 DEF Write
  <2>2. IsFile(WriteAt(files[fp[c]], pos[c], unit))
    BY <1>2, <1>5, FileTyped DEF Disk
  <2>3. DOMAIN files' = FileNo /\ \A n \in FileNo : IsFile(files'[n])
    BY <1>5, <2>1, <2>2 DEF Disk
  <2>4. free' \in Nat
    BY <1>3 DEF Write, Disk
  <2> QED
    BY <2>3, <2>4 DEF Disk
<1> QED
  BY <1>6, <1>7

LEMMA TypeStep == TypeInv /\ [Next]_vars => TypeInv'
<1> SUFFICES ASSUME TypeInv, [Next]_vars PROVE TypeInv'
  OBVIOUS
<1>1. HandInv'
  BY HandStep DEF TypeInv
<1>2. CASE UNCHANGED vars
  <2>1. UNCHANGED <<wp, ring, sent, dtv, esDesc, esBuffer, mpc, pc, fp, pos, prev, cur, piece,
                    files, free, overrun>>
    BY <1>2 DEF vars, firmware, statics, main, locals, disk
  <2> QED
    BY <1>1, <2>1 DEF TypeInv, Values, Locals, Disk
<1>3. CASE Next
  <2>1. Values'
    BY <1>3, ValuesStep
  <2>2. CASE Main
    <3>1. UNCHANGED <<locals, files, free>>
          /\ (pc' = pc \/ pc' = [pc EXCEPT ![chan] = "wait"])
      BY <2>2 DEF Main, GetAddr, MapDescriptor, MapDescriptorFails, RawBuffer, MapBuffer, MapFrom,
                  SemInit, SemPost, CreateThread, disk
    <3>2. \A d \in Channel : pc'[d] = "write" => pc[d] = "write"
      BY <3>1 DEF TypeInv, HandInv, HandTypes
    <3> QED
      BY <1>1, <2>1, <3>1, <3>2 DEF TypeInv, Locals, Disk, locals
  <2>3. ASSUME NEW c \in Selected, Send(c) PROVE TypeInv'
    <3>1. UNCHANGED <<pc, locals, files, free>>
      BY <2>3 DEF Send, disk
    <3> QED
      BY <1>1, <2>1, <3>1 DEF TypeInv, Locals, Disk, locals
  <2>4. ASSUME NEW c \in Selected, Recorder(c) PROVE TypeInv'
    <3>1. Locals' /\ Disk'
      BY <2>4, LocalsKeep, OpenKeeps, PieceKeeps, WriteKeeps DEF Recorder
    <3> QED
      BY <1>1, <2>1, <3>1 DEF TypeInv
  <2> QED
    BY <1>3, <2>2, <2>3, <2>4 DEF Next
<1> QED
  BY <1>2, <1>3

LEMMA TypeInit == RestInit /\ dtv \in BOOLEAN => TypeInv
<1> SUFFICES ASSUME RestInit, dtv \in BOOLEAN PROVE TypeInv
  OBVIOUS
<1>1. wp \in [Channel -> Nat] /\ (\A c \in Channel : wp[c] < Size[c])
  BY DEF RestInit
<1>2. ring = [c \in Channel |-> [i \in 0..Size[c] - 1 |-> IF i < wp[c] THEN i ELSE i - Size[c]]]
  BY DEF RestInit
<1>3. DOMAIN ring = Channel /\ \A c \in Channel : ring[c] \in [0..Size[c] - 1 -> Int]
  BY <1>1, <1>2, EsRecorderAssumption
<1>4. /\ sent = wp /\ dtv \in BOOLEAN /\ esDesc = NoChannel /\ esBuffer = NoBuffer
      /\ mpc = "addr" /\ pc = [c \in Channel |-> "none"]
      /\ overrun = [c \in Channel |-> FALSE]
  BY DEF RestInit
<1>5. Values
  BY <1>1, <1>3, <1>4 DEF Values, Buffer
<1>6. /\ fp = [c \in Channel |-> NoFile] /\ pos = [c \in Channel |-> 0]
      /\ prev = [c \in Channel |-> NoDescriptor] /\ cur = [c \in Channel |-> NoDescriptor]
      /\ piece = [c \in Channel |-> NoPiece]
      /\ files = [n \in FileNo |-> EmptyFile] /\ free = DiskSize
  BY DEF RestInit
<1>7. NoDescriptor \in Descriptor
  <2>1. AddrSpace \in Nat /\ AddrSpace > 0
    <3>1. 0 \in Channel /\ Base[0] \in Nat /\ Size[0] \in Nat /\ Base[0] + Size[0] < AddrSpace
      BY EsRecorderAssumption, ChannelFacts
    <3> QED
      BY <3>1, EsRecorderAssumption
  <2>2. 0 \in Addr
    BY <2>1 DEF Addr
  <2> QED
    BY <2>2 DEF NoDescriptor, Descriptor
<1>8. NoPiece \in [buf : Buffer, at : Nat, left : Nat, more : Nat, short : BOOLEAN]
  BY DEF NoPiece, Buffer
<1>9. Locals
  BY <1>4, <1>6, <1>7, <1>8 DEF Locals
<1>10. IsFile(EmptyFile)
  BY FS_EmptySet DEF IsFile, EmptyFile
<1>11. Disk
  BY <1>6, <1>10, EsRecorderAssumption DEF Disk
<1> QED
  BY <1>5, <1>9, <1>11, HandInit DEF TypeInv

LEMMA TypeInvIsTypeOK == TypeInv => TypeOK
<1> SUFFICES ASSUME TypeInv PROVE TypeOK
  OBVIOUS
<1>1. HandTypes /\ Values /\ Locals /\ Disk
  BY DEF TypeInv, HandInv
<1>2. /\ sem \in {0, 1} /\ chan \in Channel /\ pc \in [Channel -> Places]
      /\ filecnt \in [Channel -> Nat] /\ mpc \in Calling \cup {"create", "idle", "crashed"}
  BY <1>1, ChannelFacts DEF HandTypes
<1>3. \A n \in FileNo : \A i \in DOMAIN files[n] : i \in Nat /\ files[n][i] \in Unit
  BY <1>1 DEF Disk, IsFile
<1>4. free \in Nat
  BY <1>1 DEF Disk
<1> QED
  BY <1>1, <1>2, <1>3, <1>4 DEF TypeOK, Values, Locals, Places, Calling

\* func_vesdump and its threads: every variable holds a value of its kind,
\* the semaphore never counts two, and no third file is opened, whichever
\* channels are selected.
THEOREM TypesKept == Behaviour => []TypeOK
<1>1. Init => TypeInv
  BY TypeInit DEF Init
<1> QED
  BY <1>1, TypeInvIsTypeOK, TypeStep, PTL DEF Behaviour

-----------------------------------------------------------------------------
(***************************************************************************)
(* The time-stamp recorder.                                                *)
(*                                                                         *)
(* Two arguments.  As long as it reads descriptors as they are, a step of  *)
(* it is one of the original with the flag already set (or the original's  *)
(* two steps of mapping the buffer), and such a step is one of the         *)
(* original under the refinement mapping, which knows the layout from the  *)
(* first comm_get_addr on: nothing reads a descriptor before, which is the *)
(* invariant.  And whatever it reads, its semaphore and its files are      *)
(* those of the original.                                                  *)
(***************************************************************************)

\* The layout is demux's at all times, and no code that reads a descriptor
\* runs before there is one.
LayoutInv ==
    /\ dtv = TRUE
    /\ mpc \in {"buffer", "map", "init", "post", "create", "idle"} => esDesc \in Channel
    /\ \A t \in Selected : pc[t] # "none" => esDesc \in Channel
    /\ DOMAIN pc = Channel
    /\ chan \in Channel

LEMMA LayoutInit == PtsInit => LayoutInv
<1> SUFFICES ASSUME PtsInit PROVE LayoutInv
  OBVIOUS
<1> QED
  BY EsRecorderAssumption DEF PtsInit, RestInit, LayoutInv, Channel

LEMMA LayoutStep == LayoutInv /\ [PtsNext]_ptsVars => LayoutInv'
<1> SUFFICES ASSUME LayoutInv, [PtsNext]_ptsVars PROVE LayoutInv'
  OBVIOUS
<1>1. CASE PtsMain
  <2>1. CASE PtsGetAddr
    BY <2>1 DEF PtsGetAddr, LayoutInv, statics
  <2>2. CASE MapDescriptor
    BY <2>2 DEF MapDescriptor, LayoutInv, Channel
  <2>3. CASE MapDescriptorFails
    BY <2>3 DEF MapDescriptorFails, LayoutInv, statics
  <2>4. CASE PtsMapBuffer \/ SemInit \/ SemPost
    BY <2>4 DEF PtsMapBuffer, SemInit, SemPost, LayoutInv
  <2>5. CASE CreateThread
    BY <2>5 DEF CreateThread, LayoutInv, statics, Channel
  <2> QED
    BY <1>1, <2>1, <2>2, <2>3, <2>4, <2>5 DEF PtsMain
<1>2. CASE \E c \in Selected : Send(c)
  BY <1>2 DEF Send, LayoutInv, statics, main
<1>3. ASSUME NEW t \in Selected, PtsThread(t) PROVE LayoutInv'
  <2>1. /\ dtv' = dtv /\ esDesc' = esDesc /\ chan' = chan
        /\ mpc' = mpc \/ mpc' = "crashed"
    BY <1>3 DEF PtsThread, Copied, PtsSetup, PtsSample, TakePost, TimeOut, Open, OpenFails,
       TakeNothing, TakeRecord, WriteUnit, WriteOutside, Crash, ShortWrite, SecondPiece,
       Recorded, GiveUp, statics, main
  <2>2. pc' = pc \/ (pc[t] # "none" /\ \E to : pc' = [pc EXCEPT ![t] = to])
    BY <1>3 DEF PtsThread, Copied, PtsSetup, PtsSample, TakePost, TimeOut, Open, OpenFails,
       TakeNothing, TakeRecord, WriteUnit, WriteOutside, Crash, ShortWrite, SecondPiece,
       Recorded, GiveUp, Go
  <2> QED
    BY <2>1, <2>2 DEF LayoutInv
<1>4. CASE UNCHANGED ptsVars
  BY <1>4 DEF ptsVars, vars, statics, main, LayoutInv
<1> QED
  BY <1>1, <1>2, <1>3, <1>4 DEF PtsNext

LEMMA LayoutAlways == PtsBehaviour => []LayoutInv
BY LayoutInit, LayoutStep, PTL DEF PtsBehaviour

\* The steps of the copy that are not, as they stand, steps of the original.
LEMMA PtsSteps ==
    ASSUME LayoutInv, [PtsNext]_ptsVars
    PROVE  \/ [Next]_vars
           \/ PtsMapBuffer
           \/ \E t \in Selected : PtsSetup(t) \/ PtsSample(t)
<1>1. ASSUME PtsGetAddr PROVE GetAddr
  <2>1. dtv = TRUE
    BY DEF LayoutInv
  <2> QED
    BY <1>1, <2>1 DEF PtsGetAddr, GetAddr, statics
<1>2. ASSUME NEW t \in Selected, Copied(t) PROVE Recorder(t)
  BY <1>2 DEF Copied, Recorder
<1>3. CASE UNCHANGED ptsVars
  BY <1>3 DEF ptsVars
<1>4. CASE PtsMain
  BY <1>1, <1>4 DEF PtsMain, Next, Main
<1>5. CASE \E t \in Selected : PtsThread(t) \/ Send(t)
  BY <1>2, <1>5 DEF PtsThread, Next
<1> QED
  BY <1>3, <1>4, <1>5 DEF PtsNext

\* A misread is not forgotten.
LEMMA MisreadStays ==
    ASSUME [PtsNext]_ptsVars, misread
    PROVE  misread'
<1>1. CASE PtsMain
  BY <1>1 DEF PtsMain, PtsGetAddr, PtsMapBuffer
<1>2. CASE \E t \in Selected : PtsThread(t) \/ (Send(t) /\ UNCHANGED misread)
  BY <1>2 DEF PtsThread, PtsSetup, PtsSample
<1>3. CASE UNCHANGED ptsVars
  BY <1>3 DEF ptsVars
<1> QED
  BY <1>1, <1>2, <1>3 DEF PtsNext

\* The original reads the ring as it is.
LEMMA RingIsDescriptor ==
    ASSUME OneLayout, dtv = TRUE, esDesc \in Channel
    PROVE  Ring = descriptor_get
BY DEF OneLayout, Ring, descriptor_get, DescriptorWords

\* What the copy may read is a descriptor in any case.
LEMMA PtsDescriptorTyped ==
    ASSUME Values, esDesc \in Channel, NEW d \in PtsDescriptors
    PROVE  d \in Descriptor
<1>1. CASE esDesc \in Window
  BY <1>1, PtsRecorderAssumption DEF PtsDescriptors
<1>2. CASE esDesc \notin Window
  <2> DEFINE b == Base[esDesc]
             z == Size[esDesc]
             w == wp[esDesc]
  <2>1. PICK m \in Marks : d = [Ring EXCEPT !.wp = @ + m * Quarter]
    BY <1>2 DEF PtsDescriptors
  <2>2. d = [start |-> b, end |-> b + z, wp |-> b + w + m * Quarter]
    BY <2>1 DEF Ring
  <2>3. /\ b \in Nat /\ z \in Nat /\ w \in Nat /\ w < z /\ b + z <= Quarter
        /\ Quarter \in Nat /\ AddrSpace = 4 * Quarter /\ b + z < AddrSpace
    BY EsRecorderAssumption, PtsRecorderAssumption DEF Values
  <2>4. m \in {0, 1, 2, 3}
    BY PtsRecorderAssumption
  <2>5. m * Quarter \in {0, Quarter, 2 * Quarter, 3 * Quarter}
    BY <2>3, <2>4
  <2>6. b \in Addr /\ b + z \in Addr /\ b + w + m * Quarter \in Addr
    BY <2>3, <2>5 DEF Addr
  <2> QED
    BY <2>2, <2>6 DEF Descriptor
<1> QED
  BY <1>1, <1>2

\* Until a misread, the copy's steps are those of the original with the flag
\* set.
LEMMA PtsStepIsStep ==
    ASSUME OneLayout, LayoutInv, Values, [PtsNext]_ptsVars, ~misread'
    PROVE  [Next \/ MapAtOnce]_vars
<1>1. CASE PtsMapBuffer
  <2>1. mpc = "buffer" /\ esDesc \in Channel /\ dtv = TRUE
    BY <1>1 DEF PtsMapBuffer, LayoutInv
  <2>2. Ring = descriptor_get
    BY <2>1, RingIsDescriptor
  <2>3. PICK d \in PtsDescriptors :
           /\ esBuffer' \in {[chan |-> esDesc, start |-> d.start,
                               len |-> Minus(d.end, d.start)], NoBuffer}
           /\ misread' = (misread \/ ~SameRing(d))
    BY <1>1 DEF PtsMapBuffer
  <2>4. d.start = descriptor_get.start /\ d.end = descriptor_get.end
    BY <2>2, <2>3 DEF SameRing
  <2> QED
    BY <1>1, <2>3, <2>4 DEF PtsMapBuffer, MapAtOnce, MapFrom
<1>2. ASSUME NEW t \in Selected, PtsSetup(t) PROVE Setup(t)
  <2>1. esDesc \in Channel /\ dtv = TRUE
    BY <1>2 DEF PtsSetup, Go, LayoutInv
  <2>2. Ring = descriptor_get
    BY <2>1, RingIsDescriptor
  <2>3. PICK d \in PtsDescriptors :
           /\ prev' = [prev EXCEPT ![t] = [d EXCEPT !.wp = d.start]]
           /\ misread' = (misread \/ ~SameRing(d))
    BY <1>2 DEF PtsSetup
  <2>4. d \in Descriptor /\ Ring.start = d.start /\ Ring.end = d.end
    BY <2>1, <2>3, PtsDescriptorTyped DEF SameRing
  <2>5. [d EXCEPT !.wp = d.start] = [Ring EXCEPT !.wp = Ring.start]
    BY <2>4 DEF Descriptor, Ring
  <2> QED
    BY <1>2, <2>2, <2>3, <2>5 DEF PtsSetup, Setup
<1>3. ASSUME NEW t \in Selected, PtsSample(t) PROVE Sample(t)
  <2>1. Ring = descriptor_get
    BY <1>3, RingIsDescriptor DEF PtsSample, Go, LayoutInv
  <2>2. cur' = [cur EXCEPT ![t] = Ring]
    BY <1>3 DEF PtsSample
  <2> QED
    BY <1>3, <2>1, <2>2 DEF PtsSample, Sample
<1>4. ASSUME NEW t \in Selected, PtsSetup(t) \/ PtsSample(t) PROVE Next
  BY <1>2, <1>3, <1>4 DEF Next, Recorder
<1> QED
  BY <1>1, <1>4, PtsSteps

-----------------------------------------------------------------------------
LEMMA ImplementsInit == PtsInit => Es!Init
BY DEF PtsInit, RestInit, Es!Init, Es!RestInit, AddressKnown,
       Channel, FileNo, NoFile, NoChannel, NoDescriptor, NoBuffer, NoPiece, EmptyFile, Junk,
       Es!Channel, Es!FileNo, Es!NoFile, Es!NoChannel, Es!NoDescriptor, Es!NoBuffer,
       Es!NoPiece, Es!EmptyFile, Es!Junk

-----------------------------------------------------------------------------
(***************************************************************************)
(* Steps.  Once the layout is known, an action is the original's: it reads *)
(* the same descriptor, and leaves the flag alone.                         *)
(***************************************************************************)

\* The parts of the two state spaces that are the same by name.
LEMMA SameParts ==
    /\ Channel = Es!Channel /\ NoFile = Es!NoFile /\ NoChannel = Es!NoChannel
    /\ NoBuffer = Es!NoBuffer /\ Junk = Es!Junk /\ EmptyFile = Es!EmptyFile
    /\ firmware = Es!firmware /\ main = Es!main /\ locals = Es!locals /\ disk = Es!disk
    /\ firmware' = Es!firmware' /\ main' = Es!main' /\ locals' = Es!locals' /\ disk' = Es!disk'
BY DEF Channel, NoFile, NoChannel, NoBuffer, Junk, EmptyFile, firmware, main, locals, disk,
       Es!Channel, Es!NoFile, Es!NoChannel, Es!NoBuffer, Es!Junk, Es!EmptyFile,
       Es!firmware, Es!main, Es!locals, Es!disk

LEMMA SameDescriptor ==
    ASSUME dtv = TRUE, AddressKnown
    PROVE  descriptor_get = Es!descriptor_get
BY DEF descriptor_get, Es!descriptor_get, DescriptorWords, Es!DescriptorWords

LEMMA SameThread ==
    ASSUME NEW t \in Selected, LayoutInv, Recorder(t)
    PROVE  Es!Recorder(t)
<1> USE SameParts
<1>1. AddressKnown /\ dtv = TRUE /\ pc[t] # "none" /\ esDesc \in Channel
  BY NoChannel \notin Channel DEF NoChannel, Channel, AddressKnown, LayoutInv, Recorder, TakePost, TimeOut, Open, OpenFails, Setup, Sample,
       TakeNothing, TakeRecord, WriteUnit, WriteOutside, Crash, ShortWrite, SecondPiece,
       Recorded, GiveUp, Go
<1>2. ASSUME UNCHANGED esDesc, mpc' = mpc \/ mpc' = "crashed" PROVE AddressKnown' = AddressKnown
  BY <1>1, <1>2 DEF AddressKnown, LayoutInv
<1>3. ASSUME TakePost(t) PROVE Es!TakePost(t)
  BY <1>1, <1>2, <1>3 DEF TakePost, Es!TakePost, Go, Es!Go, main
<1>4. ASSUME TimeOut(t) PROVE Es!TimeOut(t)
  BY <1>1, <1>2, <1>4 DEF TimeOut, Es!TimeOut, Go, Es!Go, main, statics, Es!statics
<1>5. ASSUME Open(t) PROVE Es!Open(t)
  <2>1. Length(files[filecnt[t]]) = Es!Length(files[filecnt[t]])
    BY Zenon DEF Length, Es!Length, Cardinality, Es!Cardinality
  <2>2. UNCHANGED <<AddressKnown, esDesc, esBuffer, sem>>
    BY <1>1, <1>2, <1>5 DEF Open, main, statics
  <2> QED
    BY <2>1, <2>2, <1>5 DEF Open, Es!Open, Go, Es!Go, main, statics, Es!statics
<1>6. ASSUME OpenFails(t) PROVE Es!OpenFails(t)
  BY <1>1, <1>2, <1>6 DEF OpenFails, Es!OpenFails, Go, Es!Go, main, statics, Es!statics
<1>7. ASSUME Setup(t) PROVE Es!Setup(t)
  BY <1>1, <1>2, <1>7, SameDescriptor
     DEF Setup, Es!Setup, Go, Es!Go, main, statics, Es!statics
<1>8. ASSUME Sample(t) PROVE Es!Sample(t)
  BY <1>1, <1>2, <1>8, SameDescriptor
     DEF Sample, Es!Sample, Go, Es!Go, main, statics, Es!statics
<1>9. ASSUME TakeNothing(t) PROVE Es!TakeNothing(t)
  BY <1>1, <1>2, <1>9 DEF TakeNothing, Es!TakeNothing, Go, Es!Go, main, statics, Es!statics
<1>10. ASSUME TakeRecord(t) PROVE Es!TakeRecord(t)
  BY <1>1, <1>2, <1>10
     DEF TakeRecord, Es!TakeRecord, Go, Es!Go, main, statics, Es!statics,
         Pieces, Es!Pieces, Minus, Es!Minus
<1>11. ASSUME WriteUnit(t) PROVE Es!WriteUnit(t)
  BY <1>1, <1>2, <1>11
     DEF WriteUnit, Es!WriteUnit, Go, Es!Go, main, statics, Es!statics,
         Write, Es!Write, WriteAt, Es!WriteAt, Mapped, Es!Mapped, UnitAt, Es!UnitAt
<1>12. ASSUME WriteOutside(t) PROVE Es!WriteOutside(t)
  BY <1>1, <1>2, <1>12
     DEF WriteOutside, Es!WriteOutside, Go, Es!Go, main, statics, Es!statics,
         Write, Es!Write, WriteAt, Es!WriteAt, Mapped, Es!Mapped
<1>13. ASSUME Crash(t) PROVE Es!Crash(t)
  BY <1>1, <1>2, <1>13 DEF Crash, Es!Crash, statics, Es!statics, Mapped, Es!Mapped
<1>14. ASSUME ShortWrite(t) PROVE Es!ShortWrite(t)
  BY <1>1, <1>2, <1>14
     DEF ShortWrite, Es!ShortWrite, Go, Es!Go, main, statics, Es!statics, Mapped, Es!Mapped
<1>15. ASSUME SecondPiece(t) PROVE Es!SecondPiece(t)
  BY <1>1, <1>2, <1>15 DEF SecondPiece, Es!SecondPiece, Go, Es!Go, main, statics, Es!statics
<1>16. ASSUME Recorded(t) PROVE Es!Recorded(t)
  BY <1>1, <1>2, <1>16 DEF Recorded, Es!Recorded, Go, Es!Go, main, statics, Es!statics
<1>17. ASSUME GiveUp(t) PROVE Es!GiveUp(t)
  BY <1>1, <1>2, <1>17 DEF GiveUp, Es!GiveUp, Go, Es!Go, main, statics, Es!statics
<1> QED
  BY <1>3, <1>4, <1>5, <1>6, <1>7, <1>8, <1>9, <1>10, <1>11, <1>12, <1>13, <1>14, <1>15,
     <1>16, <1>17 DEF Recorder, Es!Recorder

LEMMA SameMain ==
    ASSUME OneLayout, LayoutInv, Main
    PROVE  Es!Main
<1> USE SameParts
<1>1. ASSUME GetAddr PROVE Es!GetAddr
  BY <1>1 DEF OneLayout, GetAddr, Es!GetAddr, AddressKnown, statics, LayoutInv
<1>2. ASSUME MapDescriptor PROVE Es!MapDescriptor
  BY <1>2 DEF MapDescriptor, Es!MapDescriptor, AddressKnown, LayoutInv
<1>3. ASSUME MapDescriptorFails PROVE Es!MapDescriptorFails
  BY <1>3 DEF MapDescriptorFails, Es!MapDescriptorFails, AddressKnown, statics, Es!statics
<1>4. ASSUME RawBuffer PROVE Es!RawBuffer
  BY <1>4, SameDescriptor DEF RawBuffer, Es!RawBuffer, AddressKnown, LayoutInv
<1>5. ASSUME MapBuffer PROVE Es!MapBuffer
  BY <1>5, SameDescriptor
     DEF MapBuffer, Es!MapBuffer, MapFrom, Es!MapFrom, AddressKnown, LayoutInv, Minus, Es!Minus
<1>6. ASSUME SemInit PROVE Es!SemInit
  BY <1>6 DEF SemInit, Es!SemInit, AddressKnown
<1>7. ASSUME SemPost PROVE Es!SemPost
  BY <1>7 DEF SemPost, Es!SemPost, AddressKnown
<1>8. ASSUME CreateThread PROVE Es!CreateThread
  BY <1>8, NoChannel \notin Channel
     DEF CreateThread, Es!CreateThread, AddressKnown, LayoutInv, statics, Es!statics,
         NoChannel, Channel
<1> QED
  BY <1>1, <1>2, <1>3, <1>4, <1>5, <1>6, <1>7, <1>8 DEF Main, Es!Main

LEMMA SameSend ==
    ASSUME NEW c \in Selected, Send(c)
    PROVE  Es!Send(c)
BY SameParts DEF Send, Es!Send, statics, Es!statics, main, AddressKnown

LEMMA SameNext ==
    ASSUME OneLayout, LayoutInv, [Next \/ MapAtOnce]_vars
    PROVE  [Es!Next \/ Es!MapFrom("buffer")]_(Es!vars)
<1>1. CASE Next
  BY <1>1, SameMain, SameSend, SameThread DEF Next, Es!Next
<1>2. CASE MapAtOnce
  BY <1>2, SameDescriptor, SameParts
     DEF MapAtOnce, MapFrom, Es!MapFrom, AddressKnown, LayoutInv, Minus, Es!Minus
<1>3. CASE UNCHANGED vars
  BY <1>3 DEF vars, firmware, statics, main, locals, disk, AddressKnown,
         Es!vars, Es!firmware, Es!statics, Es!main, Es!locals, Es!disk
<1> QED
  BY <1>1, <1>2, <1>3

-----------------------------------------------------------------------------
(***************************************************************************)
(* Whatever it reads: the handshake and the kinds of values.               *)
(***************************************************************************)
LEMMA PtsHandStep ==
    ASSUME LayoutInv, HandInv, [PtsNext]_ptsVars
    PROVE  HandInv'
<1>1. CASE [Next]_vars
  BY <1>1, HandStep
<1>2. CASE PtsMapBuffer
  <2>1. UNCHANGED <<sem, chan, pc, filecnt>> /\ mpc = "buffer" /\ mpc' = "init"
    BY <1>2 DEF PtsMapBuffer, locals
  <2>2. HandTypes' /\ Order' /\ PostNotStranded'
    BY <2>1 DEF HandInv, HandTypes, Order, PostNotStranded, Calling
  <2>3. Count'
    BY <2>1 DEF HandInv, Count, Opening, Posts, Calls, Calling
  <2> QED
    BY <2>2, <2>3 DEF HandInv
<1>3. ASSUME NEW t \in Selected, PtsSetup(t) \/ PtsSample(t) PROVE HandInv'
  <2>1. t \in Channel /\ mpc # "crashed" /\ UNCHANGED <<sem, mpc, chan, filecnt>>
    BY <1>3, ChannelFacts DEF PtsSetup, PtsSample, Go, statics, main
  <2>2. \E place \in {"sample", "take"} :
           pc[t] \in {"setup", "sample"} /\ pc' = [pc EXCEPT ![t] = place]
    BY <1>3 DEF PtsSetup, PtsSample, Go
  <2> QED
    BY <2>1, <2>2, HandsOff
<1> QED
  BY <1>1, <1>2, <1>3, PtsSteps

LEMMA PtsTypeStep ==
    ASSUME LayoutInv, TypeInv, [PtsNext]_ptsVars
    PROVE  TypeInv'
<1>1. HandInv'
  BY PtsHandStep DEF TypeInv
<1>2. CASE [Next]_vars
  BY <1>2, TypeStep
<1>3. CASE PtsMapBuffer
  <2>1. /\ UNCHANGED <<wp, ring, sent, overrun, dtv, esDesc, pc, fp, pos, prev, cur, piece,
                       files, free>>
        /\ mpc = "buffer" /\ mpc' = "init"
    BY <1>3 DEF PtsMapBuffer, firmware, locals, disk
  <2>2. esDesc \in Channel
    BY <2>1 DEF LayoutInv
  <2>3. PICK d \in PtsDescriptors :
           esBuffer' \in {[chan |-> esDesc, start |-> d.start,
                           len |-> Minus(d.end, d.start)], NoBuffer}
    BY <1>3 DEF PtsMapBuffer
  <2>4. d.start \in Addr /\ d.end \in Addr
    BY <2>2, PtsDescriptorTyped DEF Descriptor, TypeInv
  <2>5. Minus(d.end, d.start) \in Addr
    BY <2>4, MinusInSpace
  <2>6. esBuffer' \in Buffer
    BY <2>2, <2>3, <2>4, <2>5 DEF Buffer
  <2>7. Values'
    BY <2>1, <2>2, <2>6 DEF TypeInv, Values
  <2>8. Locals' /\ Disk'
    BY <2>1 DEF TypeInv, Locals, Disk
  <2> QED
    BY <1>1, <2>7, <2>8 DEF TypeInv
<1>4. ASSUME NEW t \in Selected, PtsSetup(t) \/ PtsSample(t) PROVE TypeInv'
  <2>1. /\ UNCHANGED <<wp, ring, sent, overrun, dtv, esDesc, esBuffer, mpc, fp, pos, piece,
                       files, free>>
        /\ pc[t] \in {"setup", "sample"}
        /\ pc' = [pc EXCEPT ![t] = "sample"] \/ pc' = [pc EXCEPT ![t] = "take"]
    BY <1>4 DEF PtsSetup, PtsSample, Go, firmware, statics, main, disk
  <2>2. t \in Channel /\ esDesc \in Channel
    BY <2>1, ChannelFacts DEF LayoutInv
  <2>3. PICK d \in PtsDescriptors :
           \/ prev' = [prev EXCEPT ![t] = [d EXCEPT !.wp = d.start]] /\ cur' = cur
           \/ cur' = [cur EXCEPT ![t] = d] /\ prev' = prev
    BY <1>4 DEF PtsSetup, PtsSample
  <2>4. d \in Descriptor /\ [d EXCEPT !.wp = d.start] \in Descriptor
    <3>1. d \in Descriptor
      BY <2>2, PtsDescriptorTyped DEF TypeInv
    <3> QED
      BY <3>1 DEF Descriptor
  <2>5. prev' \in [Channel -> Descriptor] /\ cur' \in [Channel -> Descriptor]
    BY <2>2, <2>3, <2>4 DEF TypeInv, Locals
  <2>6. \A c \in Channel : pc'[c] = "write" => pc[c] = "write"
    BY <2>1, <2>2 DEF TypeInv, HandInv, HandTypes
  <2>7. Values'
    BY <2>1, <2>2 DEF TypeInv, Values
  <2>8. Locals' /\ Disk'
    BY <2>1, <2>5, <2>6 DEF TypeInv, Locals, Disk
  <2> QED
    BY <1>1, <2>7, <2>8 DEF TypeInv
<1> QED
  BY <1>2, <1>3, <1>4, PtsSteps

LEMMA PtsTypeAlways == PtsBehaviour => []TypeInv
<1>1. PtsInit => TypeInv
  BY TypeInit DEF PtsInit
<1>2. LayoutInv /\ TypeInv /\ [PtsNext]_ptsVars => TypeInv'
  BY PtsTypeStep
<1> QED
  BY <1>1, <1>2, LayoutAlways, PTL DEF PtsBehaviour

-----------------------------------------------------------------------------
(***************************************************************************)
(* The theorems                                                            *)
(***************************************************************************)

\* Until it uses a value of a descriptor that is not the ring's own, every
\* step of func_ptsdump and its threads is one of func_vesdump and its threads
\* on a board with one layout, for every ring, disk and choice of channels,
\* and whatever a page of the wrong address or the two bits may show.
THEOREM PtsImplementsEs ==
    ASSUME OneLayout
    PROVE  PtsBehaviour => ImplementsEsRecorder
<1>1. LayoutInv /\ TypeInv /\ [PtsNext]_ptsVars =>
        [misread' \/ Es!Next \/ Es!MapFrom("buffer")]_(Es!vars)
  BY PtsStepIsStep, SameNext DEF TypeInv
<1> QED
  BY <1>1, ImplementsInit, LayoutAlways, PtsTypeAlways, PTL
     DEF PtsBehaviour, ImplementsEsRecorder

\* A single time-stamp recorder's file is the stream of time stamps, without a
\* gap or a repetition, while the firmware is never a ring ahead; it reads inside
\* the mapped buffer only, blames the disk with reason, and has a file when it
\* samples (pts_dump_thread and take_record of func_ptsdump.c), all this until
\* it misreads a descriptor.
THEOREM PtsRecordsFaithfully ==
    ASSUME NEW c \in Channel, Selected = {c}, OneLayout
    PROVE  PtsBehaviour =>
             [](~misread => /\ FaithfulRecording /\ StaysInBuffer
                            /\ WarnsWithReason /\ NeverWithoutFile)
<1> DEFINE I == ~misread => SingleInv(c)
<1>1. PtsInit => I
  BY SingleInit DEF PtsInit, OneLayout
<1>2. LayoutInv /\ TypeInv /\ I /\ [PtsNext]_ptsVars => I'
  BY PtsStepIsStep, MisreadStays, SingleStep DEF TypeInv
<1>3. I => (~misread => /\ FaithfulRecording /\ StaysInBuffer
                        /\ WarnsWithReason /\ NeverWithoutFile)
  BY SingleIsFaithful
<1> HIDE DEF I
<1> QED
  BY <1>1, <1>2, <1>3, LayoutAlways, PtsTypeAlways, PTL DEF PtsBehaviour

\* Whichever channels are selected and whatever is read, func_ptsdump's
\* semaphore never counts two, every file is opened for a post of its own, and
\* the last post is not stranded.
THEOREM PtsHandshake ==
    PtsBehaviour => [](TypeOK /\ OneFilePerPost /\ PostNotStranded)
<1>1. TypeInv => TypeOK /\ OneFilePerPost /\ PostNotStranded
  BY TypeInvIsTypeOK, HandshakeCounts DEF TypeInv, HandInv
<1> QED
  BY <1>1, PtsTypeAlways, PTL
=============================================================================
