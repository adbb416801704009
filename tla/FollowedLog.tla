----------------------------- MODULE FollowedLog -----------------------------
(***************************************************************************)
(* What a log follower promises: the firmware emits messages 0, 1, 2, ...  *)
(* into a ring of Total slots; the follower prints a line for some of      *)
(* them, in order and none twice.  A line stands for one message (`due')   *)
(* and shows the message that its slot held (`shown'): the message itself, *)
(* a later one of the same slot, or a mixture when the slot was rewritten  *)
(* while it was read.  It never shows a message older than the one it      *)
(* stands for, and never one that is not written yet.                      *)
(***************************************************************************)
EXTENDS Integers, Sequences

CONSTANTS
    Total,      \* slots of the ring, at least one
    Torn        \* a slot with parts of two messages, not a number

VARIABLES
    sent,       \* messages emitted so far
    lines       \* lines printed so far: [due, shown]

Init == sent \in Nat /\ lines = <<>>

Emit == sent' = sent + 1 /\ UNCHANGED lines

Follow ==
    \E due \in 0..sent - 1 :
    \E shown \in {s \in due..sent - 1 : (s - due) % Total = 0} \cup {Torn} :
        /\ \A j \in 1..Len(lines) : lines[j].due < due
        /\ lines' = Append(lines, [due |-> due, shown |-> shown])
        /\ UNCHANGED sent

Next == Emit \/ Follow

Spec == Init /\ [][Next]_<<sent, lines>>
=============================================================================
