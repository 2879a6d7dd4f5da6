------------------------------- MODULE MCHub --------------------------------
(***************************************************************************)
(* Small instances of Hub for TLC.                                         *)
(***************************************************************************)
EXTENDS Hub, TLC

MCSymmetry == Permutations(Conns)
=============================================================================
