---------------------------- MODULE MCEsRecorder ----------------------------
(***************************************************************************)
(* Instances of EsRecorder for TLC: rings of two and three units at        *)
(* different addresses, channel 0 fed by the demux and channel 1 by the    *)
(* video firmware.                                                         *)
(***************************************************************************)
EXTENDS EsRecorder

MCLayout == [c \in Channel |-> IF c = 0 THEN "demux" ELSE "avmips"]
MCSameLayout == [c \in Channel |-> "avmips"]
MCBase == [c \in Channel |-> IF c = 0 THEN 3 ELSE 1]
MCSize == [c \in Channel |-> IF c = 0 THEN 2 ELSE 4]
MCEqualSize == [c \in Channel |-> 2]
=============================================================================
