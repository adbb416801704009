------------------------------ MODULE MCCpuComm ------------------------------
(***************************************************************************)
(* An instance of CpuComm for TLC: a tool that asks for the descriptors of *)
(* two channels.                                                           *)
(***************************************************************************)
EXTENDS CpuComm

MCRequests == <<"es 0", "es 1">>
=============================================================================
