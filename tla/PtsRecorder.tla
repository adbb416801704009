----------------------------- MODULE PtsRecorder -----------------------------
(***************************************************************************)
(* The time-stamp recorder: `vs_tools --ptsdump'                           *)
(* (ARM_Linux/library/func_ptsdump.c).                                     *)
(*                                                                         *)
(* func_ptsdump.c began as a copy of func_vesdump.c.  The statics, the     *)
(* semaphore, the thread's loop and take_record are the same text, and     *)
(* their actions are EsRecorder's.  What the copy does in another way has  *)
(* actions of its own:                                                     *)
(*   - the descriptor has one layout, that of the demux, whoever owns it   *)
(*     (struct pts_desc), and no flag is set;                              *)
(*   - its write pointer is taken with bits 31 and 30, which func_vesdump  *)
(*     masks off as "used for other purpose";                              *)
(*   - the page of comm_get_addr's answer is mapped as it is, where        *)
(*     func_vesdump turns an address of the demux's window into one of     *)
(*     its own (| 0xF5080000): there, the copy maps some other page;       *)
(*   - the buffer pointer is set once, to mem_map's answer.                *)
(* `dtv' is no variable of this program: it stays TRUE, and the refinement *)
(* maps it.  The checks of homedir and channel at the start of             *)
(* func_ptsdump cannot fail in a call from main.                           *)
(***************************************************************************)
EXTENDS EsRecorder

CONSTANTS
    Window,         \* channels whose answer is an address of the window
    Elsewhere,      \* what the page mapped for these may show
    Quarter,        \* 2^30: the weight of bits 31 and 30
    Marks           \* the values these bits of the write pointer may have

ASSUME PtsRecorderAssumption ==
    /\ Window \subseteq Channel
    /\ Elsewhere \subseteq Descriptor
    /\ Quarter \in Nat /\ AddrSpace = 4 * Quarter
    /\ \A c \in Channel : Base[c] + Size[c] <= Quarter
    /\ Marks \subseteq 0..3

\* The board on which func_vesdump reads every descriptor with that layout.
OneLayout == Layout = [c \in Channel |-> "demux"]

\* History: the thread or func_ptsdump used a value of the descriptor that
\* was not the ring's own.
VARIABLE misread

ptsVars == <<vars, misread>>

PtsInit == RestInit /\ dtv = TRUE /\ misread = FALSE

-----------------------------------------------------------------------------
\* The ring as its descriptor has it, without the two bits.
Ring == [start |-> Base[esDesc], end |-> Base[esDesc] + Size[esDesc],
         wp |-> Base[esDesc] + wp[esDesc]]

\* What descriptor_get may read: four words of the page that was mapped.
PtsDescriptors ==
    IF esDesc \in Window
    THEN Elsewhere
    ELSE {[Ring EXCEPT !.wp = @ + m * Quarter] : m \in Marks}

\* The same place of the ring, if not the same pointer.
SameRing(d) == d.start = Ring.start /\ d.end = Ring.end

\* comm_get_addr returns.
PtsGetAddr ==
    /\ mpc = "addr"
    /\ mpc' = "descriptor"
    /\ UNCHANGED <<firmware, statics, chan, pc, locals, disk, overrun, misread>>

\* mem_map's answer goes straight to g_pts_buffer.
PtsMapBuffer ==
    /\ mpc = "buffer"
    /\ \E d \in PtsDescriptors :
          /\ esBuffer' \in {[chan |-> esDesc, start |-> d.start,
                             len |-> Minus(d.end, d.start)], NoBuffer}
          /\ misread' = (misread \/ ~SameRing(d))
    /\ mpc' = "init"
    /\ UNCHANGED <<firmware, dtv, esDesc, sem, chan, pc, locals, disk, overrun>>

\* func_ptsdump, for one channel after the other.
PtsMain ==
    \/ PtsGetAddr
    \/ PtsMapBuffer
    \/ (MapDescriptor \/ MapDescriptorFails \/ SemInit \/ SemPost \/ CreateThread)
          /\ UNCHANGED misread

\* Mutant: the first sample starts where the writer is ("demux don't reset?").
PtsSetupAtWriter(t) ==
    /\ Go(t, "setup", "sample")
    /\ \E d \in PtsDescriptors :
          /\ prev' = [prev EXCEPT ![t] = d]
          /\ misread' = (misread \/ d # Ring)
    /\ UNCHANGED <<firmware, statics, main,
                   fp, pos, filecnt, cur, piece, disk, overrun>>

\* The first sample of a file; its write pointer is not used.
PtsSetup(t) ==
    /\ Go(t, "setup", "sample")
    /\ \E d \in PtsDescriptors :
          /\ prev' = [prev EXCEPT ![t] = [d EXCEPT !.wp = d.start]]
          /\ misread' = (misread \/ ~SameRing(d))
    /\ UNCHANGED <<firmware, statics, main,
                   fp, pos, filecnt, cur, piece, disk, overrun>>

\* The next sample, the two bits of its write pointer included.
PtsSample(t) ==
    /\ Go(t, "sample", "take")
    /\ \E d \in PtsDescriptors :
          /\ cur' = [cur EXCEPT ![t] = d]
          /\ misread' = (misread \/ d # Ring)
    /\ UNCHANGED <<firmware, statics, main,
                   fp, pos, filecnt, prev, piece, disk, overrun>>

\* What the thread has of the original: its waiting, its file, take_record.
Copied(t) ==
    \/ TakePost(t) \/ TimeOut(t)
    \/ Open(t) \/ OpenFails(t)
    \/ TakeNothing(t) \/ TakeRecord(t)
    \/ WriteUnit(t) \/ WriteOutside(t) \/ Crash(t) \/ ShortWrite(t) \/ SecondPiece(t)
    \/ Recorded(t) \/ GiveUp(t)

PtsThread(t) ==
    \/ PtsSetup(t)
    \/ PtsSample(t)
    \/ Copied(t) /\ UNCHANGED misread

PtsNext ==
    \/ PtsMain
    \/ \E c \in Selected : PtsThread(c) \/ (Send(c) /\ UNCHANGED misread)

PtsBehaviour == PtsInit /\ [][PtsNext]_ptsVars

-----------------------------------------------------------------------------
\* The refinement mapping: the flag of the original is set by its first
\* comm_get_addr.
AddressKnown == ~(mpc = "addr" /\ esDesc = NoChannel)
Es == INSTANCE EsRecorder WITH dtv <- AddressKnown

\* Until it uses a value of a descriptor that is not the ring's own, the
\* time-stamp recorder takes the steps of the elementary-stream recorder on
\* a board with the demux's layout, with one channel or with both; the
\* original's two assignments to the buffer pointer are one step here.
\* Outside the window and with both bits clear it never stops to.
ImplementsEsRecorder ==
    Es!Init /\ [][misread' \/ Es!Next \/ Es!MapFrom("buffer")]_(Es!vars)
=============================================================================
