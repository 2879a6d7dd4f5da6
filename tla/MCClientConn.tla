---------------------------- MODULE MCClientConn ----------------------------
(***************************************************************************)
(* Small instances of ClientConn for TLC.                                  *)
(***************************************************************************)
EXTENDS ClientConn, TLC
=============================================================================
