-------------------------------- MODULE AvLog --------------------------------
(***************************************************************************)
(* avlog (x86_Windows_Linux/app/avlog/main.cpp): prints the log of the     *)
(* video firmware by reading its memory through the DebugServer.           *)
(*                                                                         *)
(* The tool samples the firmware's write index, which has 32 bits, fetches *)
(* the slots of LogRing between the previous sample and this one, one      *)
(* request each, and prints each with the size of the batch and a '!' when *)
(* the batch is larger than the ring.  A slot is fetched while the         *)
(* firmware runs, so a fetch has two halves here.                          *)
(*                                                                         *)
(* Every call of the debug client succeeds or fails (DebugLink models it). *)
(***************************************************************************)
EXTENDS LogRing, Sequences

CONSTANT
    Word        \* 2^32: where the firmware's write index wraps

ASSUME AvLogAssumption ==
    Word \in Nat \ {0} /\ Word % Total = 0 /\ Word > Total

VARIABLES
    pc,         \* where it is
    step,       \* which call of the start-up sequence is next
    rd, wr, i,  \* main's variables of these names
    half,       \* what the first half of the current fetch saw
    lines,      \* what it printed: [due, first (of its batch), shown, mark, behind, lapped]
    \* history
    base,       \* message number of the first one it has to print
    rdSent,     \* message numbers that rd and wr stand for
    wrSent,
    wrapped     \* the index has wrapped between two samples

history  == <<base, rdSent, wrSent, wrapped>>
vars     == <<firmware, pc, step, rd, wr, i, half, lines, history>>

-----------------------------------------------------------------------------
\* The calls of main before the log is followed, in their order.
StartUp == <<"dbg_init", "chip id", "PRINTMSGADDR", "AVMIPS_VERSION", "version",
             "PRINTSET", "setting", "PRINTPARSE", "log_desc", "fopen">>

\* What the firmware's write index reads, 32 bits of it.
index == sent % Word

\* The message that line i stands for.
Due == rdSent + (i - rd)

Minus(a, b) == (a - b) % Word

\* Mutant: the mask of the slot number is one too small.
SlotOfShorterRing(k) == slot[k % (Total - 1)]

\* What slot k % total of the ring holds now.
Slot(k) == slot[k % Total]

\* Mutant: the mark comes one message late ...
LateMark == Minus(wr, rd) > Total + 1

\* ... or the lines are counted from the start, not from the last batch.
TotalMark == Minus(wr, base % Word) > Total

\* Whether the lines of the batch get a '!'.
Mark == Minus(wr, rd) > Total

Init ==
    /\ RingInit
    /\ pc = "start" /\ step = 1
    /\ rd = 0 /\ wr = 0 /\ i = 0 /\ half = Torn
    /\ lines = <<>>
    /\ base = 0 /\ rdSent = 0 /\ wrSent = 0 /\ wrapped = FALSE

-----------------------------------------------------------------------------
\* Bound: the firmware does not get through all 2^32 values of its index
\* between two samples.
BeginMessage ==
    /\ step >= Len(StartUp) => sent + 1 - rdSent < Word
    /\ StartMessage
    /\ UNCHANGED <<pc, step, rd, wr, i, half, lines, history>>

EndMessage ==
    /\ FinishMessage
    /\ UNCHANGED <<pc, step, rd, wr, i, half, lines, history>>

-----------------------------------------------------------------------------
\* A start-up call succeeds.  The version text is read only if the firmware
\* has one; reading the descriptor's header sets rd to the index of now.
Start ==
    /\ pc = "start"
    /\ \/ step' = step + 1
       \/ StartUp[step] = "AVMIPS_VERSION" /\ step' = step + 2
    /\ pc' = IF step' > Len(StartUp) THEN "poll" ELSE "start"
    /\ IF StartUp[step] = "log_desc"
       THEN rd' = index /\ base' = sent /\ rdSent' = sent
       ELSE UNCHANGED <<rd, base, rdSent>>
    /\ UNCHANGED <<firmware, wr, i, half, lines, wrSent, wrapped>>

\* A start-up call fails: goto END.  A failed dbg_init does not get there:
\* it logs at the error level, which ends the program on the spot.
StartFails ==
    /\ pc = "start"
    /\ pc' = IF StartUp[step] = "dbg_init" THEN "exit" ELSE "end"
    /\ UNCHANGED <<firmware, step, rd, wr, i, half, lines, history>>

\* The write index is sampled, and the batch begins.
Poll ==
    /\ pc = "poll"
    /\ wr' = index
    /\ wrSent' = sent
    /\ i' = rd
    /\ pc' = "batch"
    /\ UNCHANGED <<firmware, step, rd, half, lines, base, rdSent, wrapped>>

\* Mutant: the last slot of a batch is not fetched.
FetchAllButOne ==
    /\ pc = "batch" /\ i + 1 < wr
    /\ half' = Slot(i)
    /\ pc' = "fetch"
    /\ UNCHANGED <<firmware, step, rd, wr, i, lines, history>>

\* dbg_host_read8 of slot i: its first and its second half.
FetchFirst ==
    /\ pc = "batch" /\ i < wr
    /\ half' = Slot(i)
    /\ pc' = "fetch"
    /\ UNCHANGED <<firmware, step, rd, wr, i, lines, history>>

FetchSecond ==
    /\ pc = "fetch"
    /\ LET now == Slot(i)
           line == [due    |-> Due,
                    first  |-> rdSent,
                    shown  |-> IF now = half THEN now ELSE Torn,
                    mark   |-> Mark,
                    behind |-> wrSent - Due > Total,
                    lapped |-> Overwritten(Due)]
       IN  lines' = Append(lines, line)
    /\ i' = i + 1
    /\ pc' = "batch"
    /\ UNCHANGED <<firmware, step, rd, wr, half, history>>

\* Mutant: rd is set from the index of now, not from the sample.
EndBatchAtIndex ==
    /\ pc = "batch" /\ i >= wr
    /\ rd' = index
    /\ rdSent' = sent
    /\ wrapped' = (wrapped \/ wr < rd)
    /\ pc' = "poll"
    /\ UNCHANGED <<firmware, step, wr, i, half, lines, base, wrSent>>

\* Mutant: rd stays where it is.
EndBatchInPlace ==
    /\ pc = "batch" /\ i >= wr
    /\ wrapped' = (wrapped \/ wr < rd)
    /\ pc' = "poll"
    /\ UNCHANGED <<firmware, step, rd, wr, i, half, lines, base, rdSent, wrSent>>

\* The batch is done: rd = wr, and a pause.
EndBatch ==
    /\ pc = "batch" /\ i >= wr
    /\ rd' = wr
    /\ rdSent' = wrSent
    /\ wrapped' = (wrapped \/ wr < rd)
    /\ pc' = "poll"
    /\ UNCHANGED <<firmware, step, wr, i, half, lines, base, wrSent>>

\* A read fails: goto END, where the file and the connection are closed.
ReadFails ==
    /\ pc \in {"poll", "fetch"}
    /\ pc' = "end"
    /\ UNCHANGED <<firmware, step, rd, wr, i, half, lines, history>>

-----------------------------------------------------------------------------
Firmware == BeginMessage \/ EndMessage
Follow   == Poll \/ FetchFirst \/ FetchSecond \/ EndBatch
Tool     == Start \/ StartFails \/ Follow \/ ReadFails

Next == Firmware \/ Tool

\* The tool runs as long as its calls return (DebugLink's CallsReturn);
\* nothing is assumed of the firmware.
Fairness == WF_vars(Tool)

Spec == Init /\ [][Next]_vars /\ Fairness

-----------------------------------------------------------------------------
(***************************************************************************)
(* Properties                                                              *)
(***************************************************************************)

Line == [due : Nat, first : Nat, shown : Nat \cup {Torn}, mark : BOOLEAN, behind : BOOLEAN,
         lapped : BOOLEAN]

\* Every variable holds a value of its kind, and a line never shows a
\* message from before the tool started.
TypeOK ==
    /\ RingTypeOK
    /\ pc \in {"start", "poll", "batch", "fetch", "end", "exit"}
    /\ step \in 1..Len(StartUp) + 1
    /\ rd \in 0..Word - 1 /\ wr \in 0..Word - 1 /\ i \in 0..Word - 1
    /\ half \in Int \cup {Torn}
    /\ lines \in Seq(Line)
    /\ base \in Nat /\ rdSent \in Nat /\ wrSent \in Nat /\ wrapped \in BOOLEAN

\* Until the 32-bit index wraps, every message from the first sample on has
\* its line, in order, and none has two (the bookkeeping of rd, wr and i).
EveryMessageHasItsLine ==
    /\ ~wrapped => \A j \in 1..Len(lines) : lines[j].due = base + j - 1
    /\ ~wrapped /\ pc = "poll" => Len(lines) = rdSent - base

\* A line shows its own message unless the firmware had begun to overwrite
\* its slot by the time the fetch was over.
ShowsItsMessage ==
    \A j \in 1..Len(lines) : ~lines[j].lapped => lines[j].shown = lines[j].due

\* Whatever was overwritten already when the index was sampled is marked
\* with '!'; a wrong line without the mark was overwritten after the sample.
LostBeforeSampleIsMarked ==
    \A j \in 1..Len(lines) : lines[j].behind => lines[j].mark

\* A mark is never a false alarm, in any batch: the first line of the batch
\* that a marked line belongs to came too late.
MarkMeansLoss ==
    \A j \in 1..Len(lines) :
        lines[j].mark => \E k \in 1..j : lines[k].due = lines[j].first /\ lines[k].lapped

\* The refinement mapping: a line as far as the screen shows it.
Followed == INSTANCE FollowedLog WITH
    lines <- [j \in 1..Len(lines) |-> [due |-> lines[j].due, shown |-> lines[j].shown]]

\* What avlog prints keeps the promise of FollowedLog, a wrap-around of the
\* index included: no message twice or out of order, none shown before it is
\* written, and what stands in a line is its message or one of a later lap.
FollowsTheLog == Followed!Spec

\* A message that is emitted while the tool follows gets its line in the
\* end, unless a read fails or the index wraps.
EveryMessageFollowed ==
    \A k \in 0..MaxSent - 1 :
        (pc = "poll" /\ base <= k /\ k < sent) ~>
            ((\E j \in 1..Len(lines) : lines[j].due = k) \/ wrapped \/ pc = "end")
=============================================================================
