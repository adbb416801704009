----------------------------- MODULE MCBoardTool -----------------------------
(***************************************************************************)
(* An instance of BoardTool for TLC.  A viewer that shows and a register   *)
(* of the power manager have nothing in common, nor have the place of a    *)
(* descriptor and the counters of the firmware, so the run follows what    *)
(* each may do without multiplying one by the other.                       *)
(***************************************************************************)
EXTENDS BoardTool

\* Bound: a viewer shows only if app/pman_disable has not begun and the
\* firmware has not written a register.
OneAtATime ==
    pc["viewer"] = "show" => pc["switch"] = "start" /\ writes = 0 /\ reg = [r \in Registers |-> {}]

\* Bound: the counters move only for a descriptor at 0.
OneDescriptor == written > 0 => addr = 0
=============================================================================
