------------------------------ MODULE PrintMsg ------------------------------
(***************************************************************************)
(* printmsg (ARM_Linux/app/printmsg.c, and the same main once more in      *)
(* ARM_Linux/library/func_log.c): prints the log of the video firmware on  *)
(* the board itself, out of shared memory.                                 *)
(*                                                                         *)
(* Unlike avlog it masks both indices to the size of the ring and samples  *)
(* the write index before every line.  Whole laps are invisible to it: a   *)
(* ring that is exactly full looks empty, and it never knows that it was   *)
(* lapped.  total_num is a power of two and divides 2^32, so masking the   *)
(* firmware's 32-bit index is masking the message number.                  *)
(***************************************************************************)
EXTENDS LogRing, Sequences

VARIABLES
    pc,         \* where main is
    rd, wr,     \* its rd_idx and wr_idx
    half,       \* what printf has seen of the current message
    lines,      \* what it printed: [due, shown, lapped]
    \* history
    base,       \* number of the first message it has to print
    due,        \* number of the message that rd_idx stands for
    lapped      \* some sample found it a whole ring behind

history == <<base, due, lapped>>
vars    == <<firmware, pc, rd, wr, half, lines, history>>

-----------------------------------------------------------------------------
\* log->wr_idx & (log->total_num - 1)
index == sent % Total

\* How far the sampled write index is ahead of rd_idx, for all it can know.
Ahead(r, w) == (w - r) % Total

\* The message to print next, if none is skipped.
Expected == IF lines = <<>> THEN base ELSE lines[Len(lines)].due + 1

Init ==
    /\ RingInit
    /\ pc = "start"
    /\ rd = 0 /\ wr = 0 /\ half = Torn
    /\ lines = <<>>
    /\ base = 0 /\ due = 0 /\ lapped = FALSE

BeginMessage == StartMessage /\ UNCHANGED <<pc, rd, wr, half, lines, history>>
EndMessage == FinishMessage /\ UNCHANGED <<pc, rd, wr, half, lines, history>>

-----------------------------------------------------------------------------
\* The ring is mapped, and rd_idx is the index of now.
Start ==
    /\ pc = "start"
    /\ rd' = index
    /\ base' = sent
    /\ pc' = "poll"
    /\ UNCHANGED <<firmware, wr, half, lines, due, lapped>>

\* No such channel, mem_map_init fails, or mem_map does and log is NULL.
StartFails ==
    /\ pc = "start"
    /\ pc' = "exit"
    /\ UNCHANGED <<firmware, rd, wr, half, lines, history>>

\* What a sample of the write index tells of rd_idx.
Sampled ==
    /\ wr' = index
    /\ due' = sent - Ahead(rd', index)
    /\ lapped' = (lapped \/ sent - Expected >= Total)

\* Mutant: empty is told by the order of the masked indices.
PollOrdered ==
    /\ pc = "poll"
    /\ rd' = rd % Total
    /\ Sampled
    /\ pc' = IF rd' >= index THEN "poll" ELSE "print"
    /\ UNCHANGED <<firmware, half, lines, base>>

\* Both indices are masked; equal ones mean that there is nothing to print.
Poll ==
    /\ pc = "poll"
    /\ rd' = rd % Total
    /\ Sampled
    /\ pc' = IF rd' = index THEN "poll" ELSE "print"
    /\ UNCHANGED <<firmware, half, lines, base>>

\* Mutant: the slot before the index is printed.
PrintFirstBefore ==
    /\ pc = "print"
    /\ half' = slot[(rd - 1) % Total]
    /\ pc' = "rest"
    /\ UNCHANGED <<firmware, rd, wr, lines, history>>

\* printf reads the message while the firmware runs: its first half (the
\* NUL that is stored at its end cuts nothing the firmware has finished) ...
PrintFirst ==
    /\ pc = "print"
    /\ half' = slot[rd]
    /\ pc' = "rest"
    /\ UNCHANGED <<firmware, rd, wr, lines, history>>

Line(shown) == [due |-> due, shown |-> shown, lapped |-> Overwritten(due)]

\* Mutant: the index is not advanced ...
PrintInPlace ==
    /\ pc = "rest"
    /\ lines' = Append(lines, Line(IF slot[rd] = half THEN half ELSE Torn))
    /\ pc' = "poll"
    /\ UNCHANGED <<firmware, rd, wr, half, history>>

\* ... or goes straight to the newest message.
PrintAndSkip ==
    /\ pc = "rest"
    /\ lines' = Append(lines, Line(IF slot[rd] = half THEN half ELSE Torn))
    /\ rd' = wr
    /\ pc' = "poll"
    /\ UNCHANGED <<firmware, wr, half, history>>

\* ... and its second half; then rd_idx++.
PrintSecond ==
    /\ pc = "rest"
    /\ lines' = Append(lines, Line(IF slot[rd] = half THEN half ELSE Torn))
    /\ rd' = rd + 1
    /\ pc' = "poll"
    /\ UNCHANGED <<firmware, wr, half, history>>

-----------------------------------------------------------------------------
Tool == Start \/ StartFails \/ Poll \/ PrintFirst \/ PrintSecond

Next == BeginMessage \/ EndMessage \/ Tool

\* The tool is scheduled; nothing is assumed of the firmware.
Spec == Init /\ [][Next]_vars /\ WF_vars(Tool)

-----------------------------------------------------------------------------
(***************************************************************************)
(* Properties                                                              *)
(***************************************************************************)

\* Every variable holds a value of its kind, and rd_idx is inside the ring
\* whenever a message is read through it.
TypeOK ==
    /\ RingTypeOK
    /\ pc \in {"start", "poll", "print", "rest", "exit"}
    /\ rd \in 0..Total /\ (pc \in {"print", "rest"} => rd < Total)
    /\ wr \in 0..Total - 1
    /\ half \in Int \cup {Torn}
    /\ lines \in Seq([due : Nat, shown : Nat \cup {Torn}, lapped : BOOLEAN])
    /\ base \in Nat /\ due \in Int /\ lapped \in BOOLEAN

\* As long as no sample found the tool a whole ring behind, every message
\* from the first sample on has its line, in order and once, although only
\* masked indices are compared.
EveryMessageHasItsLine ==
    ~lapped => \A j \in 1..Len(lines) : lines[j].due = base + j - 1

\* A line shows its message unless the firmware had begun to overwrite it by
\* the time it was printed; messages that a lap has taken are left out
\* altogether, and never stand under another number.
ShowsItsMessage ==
    \A j \in 1..Len(lines) : ~lines[j].lapped => lines[j].shown = lines[j].due

\* The refinement mapping: a line as far as the screen shows it.
Followed == INSTANCE FollowedLog WITH
    lines <- [j \in 1..Len(lines) |-> [due |-> lines[j].due, shown |-> lines[j].shown]]

\* printmsg keeps the promise of FollowedLog, lapped or not: no message
\* twice or out of order, none before it is written.
FollowsTheLog == Followed!Spec

\* A message that is emitted while the tool follows gets its line in the
\* end, unless the tool falls a whole ring behind.
EveryMessageFollowed ==
    \A k \in 0..MaxSent - 1 :
        (pc = "poll" /\ base <= k /\ k < sent) ~>
            ((\E j \in 1..Len(lines) : lines[j].due = k) \/ lapped)
=============================================================================
