------------------------------ MODULE MaloneLog ------------------------------
(***************************************************************************)
(* The malone log recorder, main of ARM_Linux/app/malone_log/main.c: it    *)
(* copies the firmware's byte ring to a file and hands the bytes back by   *)
(* writing the read pointer.  It reads the write pointer anew wherever it  *)
(* needs it: for the comparison, for a length and for the new read pointer.*)
(*                                                                         *)
(* The firmware is external: it appends a byte and counts wr up; when the  *)
(* ring is full it counts "ignored" instead, which changes nothing here.   *)
(* A byte is named by its number.                                          *)
(***************************************************************************)
EXTENDS Integers, Sequences

CONSTANTS
    Size,      \* db->size, a power of two: mask is Size - 1
    Wide,      \* 2^32, where the pointers wrap
    Junk,      \* what lies behind the ring in the mapping
    MaxBytes   \* bound: bytes the firmware appends

ASSUME MaloneLogAssumption ==
    /\ Size \in Nat \ {0} /\ Wide \in Nat \ {0} /\ MaxBytes \in Nat
    /\ Wide % Size = 0 /\ Wide > Size
    /\ Junk \notin Nat

VARIABLES
    sent,    \* bytes appended: db->wr without its wrap
    taken,   \* bytes handed back: db->rd without its wrap
    pc,      \* where main is
    stop,    \* stop_flag
    file,    \* the bytes in the file
    end,     \* the END line is written and the file closed
    \* history
    raced,   \* the firmware appended where the round could not bear it
    brim,    \* a round found the ring full to the last byte
    refused  \* fopen failed or fwrite was short, which main ignores

vars == <<sent, taken, pc, stop, file, end, raced, brim, refused>>

wr == sent % Wide
rd == taken % Wide

Masked(pointer) == pointer % Size

\* The byte at an offset: the last one that was put there, or none.
Held(offset) ==
    IF offset < Size /\ offset < sent
    THEN sent - 1 - ((sent - 1 - offset) % Size)
    ELSE Junk

Bytes(offset, length) == [k \in 1..length |-> Held(offset + k - 1)]

-----------------------------------------------------------------------------
Init ==
    /\ sent = 0 /\ taken = 0
    /\ pc = "start" /\ stop = FALSE
    /\ file = <<>> /\ end = FALSE
    /\ raced = FALSE /\ brim = FALSE /\ refused = FALSE

\* The firmware appends, wherever main is.  A byte that comes between the
\* last length and the new read pointer is skipped; one that comes round the
\* end of the ring after the comparison makes the length too long for it.
Accept ==
    /\ sent < MaxBytes /\ sent - taken < Size
    /\ sent' = sent + 1
    /\ raced' = (raced \/ pc = "reset"
                      \/ (pc = "plain" /\ Masked(wr) = 0 /\ Masked(rd) # 0))
    /\ UNCHANGED <<taken, pc, stop, file, end, brim, refused>>

\* SIGINT, once its handler is there and while main runs.
Interrupt ==
    /\ pc \notin {"start", "exit", "done"} /\ ~stop
    /\ stop' = TRUE
    /\ UNCHANGED <<sent, taken, pc, file, end, raced, brim, refused>>

Map ==
    /\ pc = "start"
    /\ pc' = "wait"
    /\ UNCHANGED <<sent, taken, stop, file, end, raced, brim, refused>>

MapFails ==
    /\ pc = "start"
    /\ pc' = "exit"
    /\ UNCHANGED <<sent, taken, stop, file, end, raced, brim, refused>>

\* It waits for the first byte, and does not look at stop_flag meanwhile.
Wait ==
    /\ pc = "wait" /\ wr # 0
    /\ pc' = "compare"
    /\ UNCHANGED <<sent, taken, stop, file, end, raced, brim, refused>>

-----------------------------------------------------------------------------
\* write2file: a file that cannot be opened and a full disk go unnoticed.
Write(bytes) ==
    \/ file' = file \o bytes /\ UNCHANGED refused
    \/ /\ \E n \in 0..Len(bytes) - 1 : file' = file \o SubSeq(bytes, 1, n)
       /\ refused' = TRUE

\* Mutant: the pointers are compared without the mask.
CompareUnmasked ==
    /\ pc = "compare"
    /\ pc' = IF rd > wr THEN "first" ELSE "plain"
    /\ brim' = (brim \/ (sent - taken = Size /\ Masked(rd) # 0))
    /\ UNCHANGED <<sent, taken, stop, file, end, raced, refused>>

Compare ==
    /\ pc = "compare"
    /\ pc' = IF Masked(rd) > Masked(wr) THEN "first" ELSE "plain"
    /\ brim' = (brim \/ (sent - taken = Size /\ Masked(rd) # 0))
    /\ UNCHANGED <<sent, taken, stop, file, end, raced, refused>>

\* From the read pointer to the end of the ring ...
WriteFirst ==
    /\ pc = "first"
    /\ Write(Bytes(Masked(rd), Size - Masked(rd)))
    /\ pc' = "second"
    /\ UNCHANGED <<sent, taken, stop, end, raced, brim>>

\* ... and from its start to the write pointer.
WriteSecond ==
    /\ pc = "second"
    /\ Write(Bytes(0, Masked(wr)))
    /\ pc' = "reset"
    /\ UNCHANGED <<sent, taken, stop, end, raced, brim>>

\* In one piece; the difference is unsigned.
WritePlain ==
    /\ pc = "plain"
    /\ Write(Bytes(Masked(rd), (wr - rd) % Wide))
    /\ pc' = "reset"
    /\ UNCHANGED <<sent, taken, stop, end, raced, brim>>

\* Mutant: one byte is handed back.
ResetOne ==
    /\ pc = "reset"
    /\ taken' = IF taken < sent THEN taken + 1 ELSE taken
    /\ pc' = "check"
    /\ UNCHANGED <<sent, stop, file, end, raced, brim, refused>>

\* db->rd = db->wr.
Reset ==
    /\ pc = "reset"
    /\ taken' = sent
    /\ pc' = "check"
    /\ UNCHANGED <<sent, stop, file, end, raced, brim, refused>>

\* Mutant: it stops, or goes on, only when the ring is empty.
CheckDrained ==
    /\ pc = "check" /\ wr = rd
    /\ pc' = IF stop THEN "done" ELSE "compare"
    /\ end' = stop
    /\ UNCHANGED <<sent, taken, stop, file, raced, brim, refused>>

Check ==
    /\ pc = "check"
    /\ pc' = IF stop THEN "done" ELSE "compare"
    /\ end' = stop
    /\ UNCHANGED <<sent, taken, stop, file, raced, brim, refused>>

Recorder ==
    \/ Map \/ MapFails \/ Wait
    \/ Compare \/ WriteFirst \/ WriteSecond \/ WritePlain \/ Reset \/ Check

Next == Recorder \/ Accept \/ Interrupt

\* The recorder is scheduled; the firmware and the user do as they like.
Spec == Init /\ [][Next]_vars /\ WF_vars(Recorder)

-----------------------------------------------------------------------------
(***************************************************************************)
(* Properties                                                              *)
(***************************************************************************)

\* Main never hands back more than there is, and whatever it hands back
\* leaves at most a ring for the firmware to fill.
TypeOK ==
    /\ sent \in 0..MaxBytes /\ taken \in 0..sent /\ sent - taken <= Size
    /\ pc \in {"start", "exit", "wait", "compare", "first", "second", "plain",
               "reset", "check", "done"}
    /\ {stop, end, raced, brim, refused} \subseteq BOOLEAN
    /\ file \in Seq((0..MaxBytes - 1) \cup {Junk})

\* Whatever races there are, the log is never put out of order and no byte of
\* it comes twice, though the write pointer is read anew at every turn.
InOrder ==
    \A j, k \in DOMAIN file :
        j < k /\ Junk \notin {file[j], file[k]} => file[j] < file[k]

\* Between two rounds the file is the whole log up to the read pointer, with
\* nothing missing and nothing foreign, except after one of three things: a
\* byte that came at a bad moment, a ring found exactly full (which looks
\* like one piece), or a refused write.
WholeLog ==
    ~raced /\ ~brim /\ ~refused =>
        /\ \A k \in DOMAIN file : file[k] = k - 1
        /\ pc \in {"compare", "check", "done"} => Len(file) = taken

\* After SIGINT the recorder ends with the END line, even when the firmware
\* keeps the ring full; but not while it waits for the very first byte.
StopEnds == (stop /\ pc # "wait") ~> end
=============================================================================
