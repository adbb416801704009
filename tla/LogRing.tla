------------------------------- MODULE LogRing -------------------------------
(***************************************************************************)
(* The log of the video firmware in shared memory (external: struct        *)
(* log_desc of x86_Windows_Linux/inc/vs/avmips.h, triSlavePrint_t of       *)
(* ARM_Linux/include/log.h).                                               *)
(*                                                                         *)
(* The firmware writes messages into a ring of Total slots and counts them *)
(* in a write index; it never waits for a reader.  Messages are numbered   *)
(* from 0, and a slot holds the number of its message.  A slot that is     *)
(* being rewritten has parts of two.                                       *)
(***************************************************************************)
EXTENDS Integers

CONSTANTS
    Total,      \* slots of the ring (512)
    FirstSent,  \* messages the firmware may have emitted before the tool starts
    MaxSent,    \* bound: messages it emits in all
    Torn        \* a message with parts of two

ASSUME LogRingAssumption ==
    /\ Total \in Nat \ {0}
    /\ FirstSent \subseteq Nat
    /\ MaxSent \in Nat
    /\ Torn \notin Int

VARIABLES
    sent,       \* messages completed
    writing,    \* the firmware is in the middle of the next one
    slot        \* what each slot holds

firmware == <<sent, writing, slot>>

\* A ring that has been filled since the board was started, or since long.
RingInit ==
    /\ sent \in FirstSent
    /\ writing = FALSE
    /\ slot = [k \in 0..Total - 1 |->
                 CHOOSE s \in sent - Total..sent - 1 : s % Total = k]

\* The firmware rewrites a slot ...
StartMessage ==
    /\ ~writing /\ sent < MaxSent
    /\ writing' = TRUE
    /\ slot' = [slot EXCEPT ![sent % Total] = Torn]
    /\ UNCHANGED sent

\* ... then advances its index.
FinishMessage ==
    /\ writing
    /\ writing' = FALSE
    /\ slot' = [slot EXCEPT ![sent % Total] = sent]
    /\ sent' = sent + 1

\* Whether the firmware has begun to overwrite the slot of message k.
Overwritten(k) == sent + (IF writing THEN 1 ELSE 0) > k + Total

RingTypeOK ==
    /\ sent \in Nat /\ writing \in BOOLEAN
    /\ slot \in [0..Total - 1 -> Int \cup {Torn}]
=============================================================================
