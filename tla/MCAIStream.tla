----------------------------- MODULE MCAIStream -----------------------------
(***************************************************************************)
(* Small instances of AIStream for TLC.                                    *)
(***************************************************************************)
EXTENDS AIStream, TLC
=============================================================================
