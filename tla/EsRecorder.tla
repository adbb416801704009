----------------------------- MODULE EsRecorder -----------------------------
(***************************************************************************)
(* The elementary-stream recorder of the on-board tool: `vs_tools          *)
(* --vesdump' (ARM_Linux/app/main.c, ARM_Linux/library/func_vesdump.c).    *)
(*                                                                         *)
(* The main thread calls func_vesdump once per selected channel.  A call   *)
(* fills the statics of func_vesdump.c (the layout flag, the descriptor    *)
(* pointer, the mapping of the stream buffer, the semaphore), posts the    *)
(* semaphore and starts a thread.  The thread takes the post, opens a      *)
(* file, and from then on samples the write pointer that the firmware      *)
(* keeps in the descriptor and appends what lies between two samples.      *)
(*                                                                         *)
(* The firmware (external) writes the ring and never looks at the          *)
(* recorder.  Units of the stream are numbered from the one at the start   *)
(* of the ring in the lap that is current when the tool starts; a cell     *)
(* written in an earlier lap holds a negative number.                      *)
(***************************************************************************)
EXTENDS Integers, FiniteSets

CONSTANTS
    Selected,       \* channels given with --vesdump
    Layout,         \* which firmware part owns a channel's descriptor
    Base,           \* address of a channel's ring
    Size,           \* its length in units
    AddrSpace,      \* 2^32 of the code: where unsigned subtraction wraps
    MaxSent,        \* bound: units the firmware sends on a channel
    DiskSize        \* units the disk has room for

Channel == {0, 1}
FileNo  == {0, 1}           \* a post opens one file, there are two posts
NoFile  == -1
NoChannel == -1

ASSUME EsRecorderAssumption ==
    /\ Selected \subseteq Channel /\ Selected # {}
    /\ Layout \in [Channel -> {"demux", "avmips"}]
    /\ Base \in [Channel -> Nat]
    /\ Size \in [Channel -> Nat \ {0}]
    /\ AddrSpace \in Nat
    /\ \A c \in Channel : Base[c] + Size[c] < AddrSpace
    /\ MaxSent \in Nat
    /\ DiskSize \in Nat

VARIABLES
    \* the firmware: write offset and cells of each ring, units sent so far
    wp, ring, sent,
    \* the statics of func_vesdump.c
    dtv, esDesc, esBuffer, sem,
    \* the main thread: where it is in func_vesdump, and for which channel
    mpc, chan,
    \* the recorder threads: where they are and their locals
    pc, fp, pos, filecnt, prev, cur, piece,
    \* the disk: what the files hold and how many units are free
    files, free,
    \* history: a unit was lost because the recorder fell a ring behind
    overrun

firmware == <<wp, ring, sent>>
statics  == <<dtv, esDesc, esBuffer, sem>>
main     == <<mpc, chan>>
locals   == <<fp, pos, filecnt, prev, cur, piece>>
disk     == <<files, free>>
vars     == <<firmware, statics, main, pc, locals, disk, overrun>>

-----------------------------------------------------------------------------
(***************************************************************************)
(* Data                                                                    *)
(***************************************************************************)

\* What a file or a cell of memory that belongs to no stream holds.
Junk == <<NoChannel, 0>>

\* Unsigned 32-bit subtraction of two addresses.
Minus(a, b) == IF a >= b THEN a - b ELSE a - b + AddrSpace

\* The four words of a channel's descriptor in memory; the decoder's read
\* pointer, which the recorder never uses, is taken to follow the writer.
DescriptorWords(c) ==
    LET first == Base[c]
        limit == Base[c] + Size[c]
        at    == Base[c] + wp[c]
    IN  IF Layout[c] = "demux" THEN <<at, at, first, limit>>
                               ELSE <<first, limit - 1, at, at>>

\* Mutant: the end of the firmware's ring is taken for exclusive.
ExclusiveEnd ==
    LET w == DescriptorWords(esDesc)
    IN  IF dtv THEN [start |-> w[3], end |-> w[4], wp |-> w[1]]
               ELSE [start |-> w[1], end |-> w[2], wp |-> w[3]]

\* What descriptor_get makes of them: the flag, not the owner, decides.  (A
\* pointer of the demux is below 2^30 here, as it is once bits 31 and 30,
\* "used for other purpose", are masked off.)
descriptor_get ==
    LET w == DescriptorWords(esDesc)
    IN  IF dtv THEN [start |-> w[3], end |-> w[4], wp |-> w[1]]
               ELSE [start |-> w[1], end |-> w[2] + 1, wp |-> w[3]]

NoDescriptor == [start |-> 0, end |-> 0, wp |-> 0]
NoBuffer     == [chan |-> NoChannel, start |-> 0, len |-> 0]
NoPiece == [buf |-> NoBuffer, at |-> 0, left |-> 0, more |-> 0, short |-> FALSE]

\* Mutant: the difference of the write pointers, wrapped or not.
PiecesIgnoringWrap(p, c, buf) ==
    [buf   |-> buf,
     at    |-> Minus(p.wp, p.start),
     left  |-> Minus(c.wp, p.wp),
     more  |-> 0,
     short |-> FALSE]

\* Mutant: after a wrap the whole ring is taken, from the old pointer on.
PiecesOfAWholeLap(p, c, buf) ==
    [buf   |-> buf,
     at    |-> Minus(p.wp, p.start),
     left  |-> IF c.wp >= p.wp THEN c.wp - p.wp ELSE Minus(p.end, p.start),
     more  |-> 0,
     short |-> FALSE]

\* The one or two writes that take_record derives from two samples: `left'
\* units from index `at' of the buffer, then `more' units from index 0.
Pieces(p, c, buf) ==
    [buf   |-> buf,
     at    |-> Minus(p.wp, p.start),
     left  |-> IF c.wp >= p.wp THEN c.wp - p.wp ELSE Minus(p.end, p.wp),
     more  |-> IF c.wp >= p.wp THEN 0 ELSE Minus(c.wp, c.start),
     short |-> FALSE]

\* Index i of a mapping, if it is in the mapping at all.
Mapped(buf, i) == i < buf.len
UnitAt(buf, i) ==
    LET offset == buf.start + i - Base[buf.chan]
    IN  IF offset \in 0..Size[buf.chan] - 1
        THEN <<buf.chan, ring[buf.chan][offset]>>
        ELSE Junk

\* A file is a function from 0..length-1; writing beyond its end (another
\* thread has truncated it) leaves a hole.
Length(f) == Cardinality(DOMAIN f)
EmptyFile == [i \in {} |-> Junk]
WriteAt(f, at, unit) ==
    [i \in DOMAIN f \cup 0..at |->
        IF i = at THEN unit ELSE IF i \in DOMAIN f THEN f[i] ELSE Junk]

-----------------------------------------------------------------------------
\* Everything but the layout flag.
RestInit ==
    /\ wp \in {w \in [Channel -> 0..Size[0] + Size[1]] : \A c \in Channel : w[c] < Size[c]}
    /\ ring = [c \in Channel |->
                 [i \in 0..Size[c] - 1 |-> IF i < wp[c] THEN i ELSE i - Size[c]]]
    /\ sent = wp
    /\ esDesc = NoChannel
    /\ esBuffer = NoBuffer
    /\ sem = 0
    /\ mpc = "addr"
    /\ chan = IF 0 \in Selected THEN 0 ELSE 1
    /\ pc = [c \in Channel |-> "none"]
    /\ fp = [c \in Channel |-> NoFile]
    /\ pos = [c \in Channel |-> 0]
    /\ filecnt = [c \in Channel |-> 0]
    /\ prev = [c \in Channel |-> NoDescriptor]
    /\ cur = [c \in Channel |-> NoDescriptor]
    /\ piece = [c \in Channel |-> NoPiece]
    /\ files = [n \in FileNo |-> EmptyFile]
    /\ free = DiskSize
    /\ overrun = [c \in Channel |-> FALSE]

Init == RestInit /\ dtv = FALSE

-----------------------------------------------------------------------------
(***************************************************************************)
(* The firmware                                                            *)
(***************************************************************************)

\* One more unit goes into the ring; the write pointer wraps at the end.
\* The history variable notes that the recorder of the channel is now a
\* whole ring behind.
Send(c) ==
    /\ sent[c] < MaxSent
    /\ ring' = [ring EXCEPT ![c][wp[c]] = sent[c]]
    /\ wp' = [wp EXCEPT ![c] = IF wp[c] + 1 = Size[c] THEN 0 ELSE wp[c] + 1]
    /\ sent' = [sent EXCEPT ![c] = sent[c] + 1]
    /\ overrun' = [overrun EXCEPT ![c] =
                     overrun[c] \/ sent[c] + 1 - pos[c] >= Size[c]]
    /\ UNCHANGED <<statics, main, pc, locals, disk>>

-----------------------------------------------------------------------------
(***************************************************************************)
(* The main thread: func_vesdump(channel, homedir), once per channel       *)
(***************************************************************************)

\* comm_get_addr returns once the firmware knows the channel.  The flag is
\* set for a descriptor of the demux, and never cleared.
GetAddr ==
    /\ mpc = "addr"
    /\ dtv' = (dtv \/ Layout[chan] = "demux")
    /\ mpc' = "descriptor"
    /\ UNCHANGED <<firmware, esDesc, esBuffer, sem, chan, pc, locals, disk, overrun>>

MapDescriptor ==
    /\ mpc = "descriptor"
    /\ esDesc' = chan
    /\ mpc' = "buffer"
    /\ UNCHANGED <<firmware, dtv, esBuffer, sem, chan, pc, locals, disk, overrun>>

\* mem_map returns NULL, and descriptor_get dereferences it.
MapDescriptorFails ==
    /\ mpc = "descriptor"
    /\ mpc' = "crashed"
    /\ UNCHANGED <<firmware, statics, chan, pc, locals, disk, overrun>>

\* g_es_buffer is first given the address of the ring, which maps nothing; a
\* thread that is already there may read it so.
RawBuffer ==
    /\ mpc = "buffer"
    /\ esBuffer' = [chan |-> esDesc, start |-> descriptor_get.start, len |-> 0]
    /\ mpc' = "map"
    /\ UNCHANGED <<firmware, dtv, esDesc, sem, chan, pc, locals, disk, overrun>>

\* Then mem_map's answer.  It may fail here too: the pointer is NULL then.
\* (The start and the end of a ring stay what they were.)
MapFrom(place) ==
    /\ mpc = place
    /\ LET d == descriptor_get
       IN  esBuffer' \in {[chan |-> esDesc, start |-> d.start,
                           len |-> Minus(d.end, d.start)], NoBuffer}
    /\ mpc' = "init"
    /\ UNCHANGED <<firmware, dtv, esDesc, sem, chan, pc, locals, disk, overrun>>

MapBuffer == MapFrom("map")

\* Mutant: the semaphore is left as it is.
SemInitOnce ==
    /\ mpc = "init"
    /\ mpc' = "post"
    /\ UNCHANGED <<firmware, dtv, esDesc, esBuffer, sem, chan, pc, locals, disk, overrun>>

SemInit ==
    /\ mpc = "init"
    /\ sem' = 0
    /\ mpc' = "post"
    /\ UNCHANGED <<firmware, dtv, esDesc, esBuffer, chan, pc, locals, disk, overrun>>

\* Mutant: the semaphore is initialised after the post.
SemPostLost ==
    /\ mpc = "post"
    /\ sem' = 0
    /\ mpc' = "create"
    /\ UNCHANGED <<firmware, dtv, esDesc, esBuffer, chan, pc, locals, disk, overrun>>

SemPost ==
    /\ mpc = "post"
    /\ sem' = sem + 1
    /\ mpc' = "create"
    /\ UNCHANGED <<firmware, dtv, esDesc, esBuffer, chan, pc, locals, disk, overrun>>

\* pthread_create, and the return to main, which goes on with channel 1 if
\* that is selected too.
CreateThread ==
    /\ mpc = "create"
    /\ pc' = [pc EXCEPT ![chan] = "wait"]
    /\ IF chan = 0 /\ 1 \in Selected
       THEN mpc' = "addr" /\ chan' = 1
       ELSE mpc' = "idle" /\ chan' = chan
    /\ UNCHANGED <<firmware, statics, locals, disk, overrun>>

Main ==
    \/ GetAddr
    \/ MapDescriptor
    \/ MapDescriptorFails
    \/ RawBuffer
    \/ MapBuffer
    \/ SemInit
    \/ SemPost
    \/ CreateThread

-----------------------------------------------------------------------------
(***************************************************************************)
(* The recorder threads: es_dump_thread, take_record                       *)
(***************************************************************************)

Go(t, from, to) ==
    /\ mpc # "crashed"
    /\ pc[t] = from
    /\ pc' = [pc EXCEPT ![t] = to]

\* Mutant: the post is left for somebody else.
TakePostAndLeaveIt(t) ==
    /\ Go(t, "wait", "open")
    /\ sem > 0
    /\ fp' = [fp EXCEPT ![t] = NoFile]
    /\ UNCHANGED <<firmware, statics, main,
                   pos, filecnt, prev, cur, piece, disk, overrun>>

\* Mutant: one post is not enough.
TakeSecondPost(t) ==
    /\ Go(t, "wait", "open")
    /\ sem > 1
    /\ sem' = sem - 1
    /\ fp' = [fp EXCEPT ![t] = NoFile]
    /\ UNCHANGED <<firmware, dtv, esDesc, esBuffer, main,
                   pos, filecnt, prev, cur, piece, disk, overrun>>

\* sem_timedwait succeeds; the previous file is closed.
TakePost(t) ==
    /\ Go(t, "wait", "open")
    /\ sem > 0
    /\ sem' = sem - 1
    /\ fp' = [fp EXCEPT ![t] = NoFile]
    /\ UNCHANGED <<firmware, dtv, esDesc, esBuffer, main,
                   pos, filecnt, prev, cur, piece, disk, overrun>>

\* Mutant: the time-out comes although the post is there.
TimeOutEarly(t) ==
    /\ Go(t, "wait", "sample")
    /\ UNCHANGED <<firmware, statics, main, locals, disk, overrun>>

\* sem_timedwait times out: the next sample of the current file.
TimeOut(t) ==
    /\ Go(t, "wait", "sample")
    /\ sem = 0
    /\ UNCHANGED <<firmware, statics, main, locals, disk, overrun>>

\* fopen(directory/dump-NNN.es, "wb") truncates what is there.
Open(t) ==
    /\ Go(t, "open", "setup")
    /\ fp' = [fp EXCEPT ![t] = filecnt[t]]
    /\ pos' = [pos EXCEPT ![t] = 0]
    /\ filecnt' = [filecnt EXCEPT ![t] = filecnt[t] + 1]
    /\ files' = [files EXCEPT ![filecnt[t]] = EmptyFile]
    /\ free' = free + Length(files[filecnt[t]])
    /\ UNCHANGED <<firmware, statics, main, prev, cur, piece, overrun>>

OpenFails(t) ==
    /\ Go(t, "open", "done")
    /\ UNCHANGED <<firmware, statics, main, locals, disk, overrun>>

\* The first sample of a file starts at the start of the ring.
Setup(t) ==
    /\ Go(t, "setup", "sample")
    /\ LET d == descriptor_get
       IN  prev' = [prev EXCEPT ![t] = [d EXCEPT !.wp = d.start]]
    /\ UNCHANGED <<firmware, statics, main,
                   fp, pos, filecnt, cur, piece, disk, overrun>>

\* Mutant: the descriptor is not read again.
SampleOnce(t) ==
    /\ Go(t, "sample", "take")
    /\ cur' = [cur EXCEPT ![t] = prev[t]]
    /\ UNCHANGED <<firmware, statics, main,
                   fp, pos, filecnt, prev, piece, disk, overrun>>

Sample(t) ==
    /\ Go(t, "sample", "take")
    /\ cur' = [cur EXCEPT ![t] = descriptor_get]
    /\ UNCHANGED <<firmware, statics, main,
                   fp, pos, filecnt, prev, piece, disk, overrun>>

\* take_record without a file: the thread ends.
TakeNothing(t) ==
    /\ Go(t, "take", "done")
    /\ fp[t] = NoFile
    /\ UNCHANGED <<firmware, statics, main, locals, disk, overrun>>

\* take_record with one: the buffer pointer is read now, and the writes are
\* derived from the two samples.
TakeRecord(t) ==
    /\ Go(t, "take", "write")
    /\ fp[t] # NoFile
    /\ piece' = [piece EXCEPT ![t] = Pieces(prev[t], cur[t], esBuffer)]
    /\ UNCHANGED <<firmware, statics, main,
                   fp, pos, filecnt, prev, cur, disk, overrun>>

\* fwrite moves one unit from the ring, as it is now, to the file.
Write(t, unit) ==
    /\ free > 0
    /\ files' = [files EXCEPT ![fp[t]] = WriteAt(@, pos[t], unit)]
    /\ free' = IF pos[t] \in DOMAIN files[fp[t]] THEN free ELSE free - 1
    /\ pos' = [pos EXCEPT ![t] = pos[t] + 1]
    /\ piece' = [piece EXCEPT ![t].at = @ + 1, ![t].left = @ - 1]

WriteUnit(t) ==
    /\ Go(t, "write", "write")
    /\ piece[t].left > 0
    /\ Mapped(piece[t].buf, piece[t].at)
    /\ Write(t, UnitAt(piece[t].buf, piece[t].at))
    /\ UNCHANGED <<firmware, statics, main, fp, filecnt, prev, cur, overrun>>

\* Outside the mapping there is some other memory (not at NULL) ...
WriteOutside(t) ==
    /\ Go(t, "write", "write")
    /\ piece[t].left > 0
    /\ piece[t].buf # NoBuffer
    /\ ~Mapped(piece[t].buf, piece[t].at)
    /\ Write(t, Junk)
    /\ UNCHANGED <<firmware, statics, main, fp, filecnt, prev, cur, overrun>>

\* ... or none: the process is killed.
Crash(t) ==
    /\ mpc # "crashed"
    /\ pc[t] = "write"
    /\ piece[t].left > 0
    /\ ~Mapped(piece[t].buf, piece[t].at)
    /\ mpc' = "crashed"
    /\ UNCHANGED <<firmware, statics, chan, pc, locals, disk, overrun>>

\* fwrite comes back short: the disk is full, or write(2) refuses the
\* address.  The second fwrite is tried all the same.
ShortWrite(t) ==
    /\ Go(t, "write", "write")
    /\ piece[t].left > 0
    /\ free = 0 \/ ~Mapped(piece[t].buf, piece[t].at)
    /\ piece' = [piece EXCEPT ![t].left = 0, ![t].short = TRUE]
    /\ UNCHANGED <<firmware, statics, main,
                   fp, pos, filecnt, prev, cur, disk, overrun>>

\* The second fwrite, from the start of the buffer.
SecondPiece(t) ==
    /\ Go(t, "write", "write")
    /\ piece[t].left = 0
    /\ piece[t].more > 0
    /\ piece' = [piece EXCEPT ![t].at = 0, ![t].left = piece[t].more, ![t].more = 0]
    /\ UNCHANGED <<firmware, statics, main,
                   fp, pos, filecnt, prev, cur, disk, overrun>>

\* take_record returns 0, and the current sample becomes the previous one.
Recorded(t) ==
    /\ Go(t, "write", "wait")
    /\ piece[t].left = 0 /\ piece[t].more = 0 /\ ~piece[t].short
    /\ prev' = [prev EXCEPT ![t] = cur[t]]
    /\ UNCHANGED <<firmware, statics, main,
                   fp, pos, filecnt, cur, piece, disk, overrun>>

\* take_record returns -1: the thread warns, closes its file and ends.
GiveUp(t) ==
    /\ Go(t, "write", "done")
    /\ piece[t].left = 0 /\ piece[t].more = 0 /\ piece[t].short
    /\ fp' = [fp EXCEPT ![t] = NoFile]
    /\ UNCHANGED <<firmware, statics, main,
                   pos, filecnt, prev, cur, piece, disk, overrun>>

Recorder(t) ==
    \/ TakePost(t)
    \/ TimeOut(t)
    \/ Open(t)
    \/ OpenFails(t)
    \/ Setup(t)
    \/ Sample(t)
    \/ TakeNothing(t)
    \/ TakeRecord(t)
    \/ WriteUnit(t)
    \/ WriteOutside(t)
    \/ Crash(t)
    \/ ShortWrite(t)
    \/ SecondPiece(t)
    \/ Recorded(t)
    \/ GiveUp(t)

-----------------------------------------------------------------------------
Next ==
    \/ Main
    \/ \E c \in Selected : Send(c) \/ Recorder(c)

\* The operating system runs every thread that can run; nothing is assumed
\* of the firmware.
Fairness ==
    /\ WF_vars(Main)
    /\ \A c \in Selected : WF_vars(Recorder(c))

\* What the steps allow, with and without the fairness.
Behaviour == Init /\ [][Next]_vars
Spec == Behaviour /\ Fairness

-----------------------------------------------------------------------------
(***************************************************************************)
(* Properties                                                              *)
(***************************************************************************)

Addr == 0..AddrSpace - 1
Descriptor == [start : Addr, end : Addr, wp : Addr]
Buffer == {NoBuffer} \cup [chan : Channel, start : Addr, len : Addr]
Unit == (Channel \X Int) \cup {Junk}

\* Every variable holds a value of its kind; the semaphore never counts two,
\* because the second func_vesdump resets it before it posts.
TypeOK ==
    /\ wp \in [Channel -> Nat] /\ \A c \in Channel : wp[c] < Size[c]
    /\ \A c \in Channel : ring[c] \in [0..Size[c] - 1 -> Int]
    /\ sent \in [Channel -> Nat]
    /\ dtv \in BOOLEAN
    /\ esDesc \in Channel \cup {NoChannel}
    /\ esBuffer \in Buffer
    /\ sem \in {0, 1}
    /\ mpc \in {"addr", "descriptor", "buffer", "map", "init", "post", "create",
               "idle", "crashed"}
    /\ chan \in Channel
    /\ pc \in [Channel -> {"none", "wait", "open", "setup", "sample", "take", "write", "done"}]
    /\ fp \in [Channel -> FileNo \cup {NoFile}]
    /\ pos \in [Channel -> Nat]
    /\ filecnt \in [Channel -> Nat]
    /\ prev \in [Channel -> Descriptor]
    /\ cur \in [Channel -> Descriptor]
    /\ piece \in [Channel -> [buf : Buffer, at : Nat, left : Nat, more : Nat, short : BOOLEAN]]
    /\ \A n \in FileNo : \A i \in DOMAIN files[n] : i \in Nat /\ files[n][i] \in Unit
    /\ free \in Nat
    /\ overrun \in [Channel -> BOOLEAN]

\* The file that recorder t wrote last, as far as t has got.
Recording(t) == files[filecnt[t] - 1]

\* With one channel selected, the file is the stream itself, from the unit
\* at the start of the ring and without a gap or a repetition, for as long
\* as the recorder has never been a whole ring behind (take_record's one or
\* two writes, the samples carried over by es_dump_thread).  This is all the
\* code can promise: it has no way to notice that it was lapped.
FaithfulRecording ==
    \A c \in Selected : ~overrun[c] =>
        \A i \in 0..pos[c] - 1 : Recording(c)[i] = <<c, i>>

\* With one channel selected, take_record reads inside the stream buffer
\* only, lapped or not, whenever mem_map has delivered the buffer.
StaysInBuffer ==
    \A c \in Selected :
        pc[c] = "write" /\ piece[c].buf # NoBuffer =>
            /\ piece[c].at + piece[c].left <= piece[c].buf.len
            /\ piece[c].more <= piece[c].buf.len

\* With one channel selected, the "disk space no enough" of take_record is
\* only ever printed when the disk is full or there is no buffer to read.
WarnsWithReason ==
    \A c \in Selected :
        pc[c] = "write" /\ piece[c].short => free = 0 \/ piece[c].buf = NoBuffer

\* With one channel selected, the thread never reaches take_record without
\* a file: the post is there before the thread is created.
NeverWithoutFile ==
    \A c \in Selected : pc[c] \in {"sample", "take", "write"} => fp[c] # NoFile

\* Whatever the firmware has sent is recorded in the end, unless the channel
\* was lapped or the recorder has ended (sem_timedwait paces the samples).
KeepsUp ==
    \A c \in Selected : \A k \in 1..MaxSent :
        (pc[c] = "wait" /\ sent[c] >= k) ~>
            (pos[c] >= k \/ overrun[c] \/ pc[c] = "done" \/ mpc = "crashed")

\* Every file is opened for a post of its own, with both channels selected
\* as well: sem_init may wipe a post but never makes one.
PostsMade ==
    LET calls == Cardinality({c \in Selected : c < chan})
    IN  IF mpc \in {"addr", "descriptor", "buffer", "map", "init", "post"}
        THEN calls ELSE calls + 1
OneFilePerPost ==
    mpc # "crashed" =>
        filecnt[0] + filecnt[1] + Cardinality({t \in Channel : pc[t] = "open"}) + sem
            <= PostsMade

\* The last post is never stranded: while it is untaken, the thread that was
\* created last is still there to take it.
PostNotStranded ==
    mpc = "idle" /\ sem = 1 => pc[chan] = "wait" /\ filecnt[chan] = 0

\* With both channels selected, some recorder gets to open a file: the
\* second post survives its thread's creation and is taken.
LastPostTaken ==
    (mpc = "idle" /\ sem = 1) ~> (sem = 0 \/ mpc = "crashed")

\* What `--vesdump [0|1]' offers: the recorder started for a channel writes
\* no unit of the other one.
RecordsOwnChannel ==
    \A c \in Selected : \A i \in 0..pos[c] - 1 :
        Recording(c)[i][1] \in {c, NoChannel}
=============================================================================
