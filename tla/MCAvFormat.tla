------------------------------ MODULE MCAvFormat ------------------------------
(***************************************************************************)
(* An instance of AvFormat for TLC: two frame buffers, an SX7, an SX8 and  *)
(* another chip, a picture with 8 bits and two with 10.                    *)
(***************************************************************************)
EXTENDS AvFormat

MCChipIds == {1, 7, 8}
MCSX7     == {7}
MCSX8     == {8}
MCTenBit  == {2, 3}
=============================================================================
