------------------------------ MODULE MCEditor ------------------------------
(***************************************************************************)
(* Small instances of Editor for TLC.                                      *)
(***************************************************************************)
EXTENDS Editor

\* Tabs type what they like: the inputs of Room's own actions are not used.
MCNone == {}

MCChars == {"a", "c"}

MCRow == [content |-> <<"a">>, seq |-> 1]

MCSymmetry == Permutations(Clients)
=============================================================================
