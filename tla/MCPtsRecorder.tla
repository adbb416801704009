---------------------------- MODULE MCPtsRecorder ----------------------------
(***************************************************************************)
(* An instance of PtsRecorder for TLC: two rings of two units, both with   *)
(* the demux's layout.  The descriptor of channel 1 is in the demux's      *)
(* window, and the page mapped for it shows another ring, now and then.    *)
(***************************************************************************)
EXTENDS PtsRecorder

MCLayout == [c \in Channel |-> "demux"]
MCBase == [c \in Channel |-> IF c = 0 THEN 3 ELSE 1]
MCSize == [c \in Channel |-> 2]
MCElsewhere == {[start |-> 1, end |-> 3, wp |-> 2], [start |-> 0, end |-> 5, wp |-> 4]}

ASSUME MCLayoutAssumption == OneLayout
=============================================================================
