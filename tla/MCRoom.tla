------------------------------- MODULE MCRoom -------------------------------
(***************************************************************************)
(* Small instances of Room for TLC.                                        *)
(***************************************************************************)
EXTENDS Room, TLC

ins(char, pos) == [type |-> "insert", Char |-> char, Position |-> pos, ID |-> NoID,
                    clientOpID |-> 0]
del(pos) == [type |-> "delete", Position |-> pos, ID |-> NoID]

MCChars == {"a", "b"}

MCOneChar == {"a"}

\* Before the text, inside it, and behind the longest text.
MCPositions == {-1, 1, 3}

MCOnePosition == {0}

\* A replacement; a second deletion that the first one may make invalid; an
\* insertion past the end of the text.
MCBatches == {<<del(0), ins("a", 0)>>, <<del(0), del(0)>>, <<ins("a", 5), ins("b", 0)>>}

NoBatches == {}

MCRestores == {<<"a", "a">>}

NoRestores == {}

MCSymmetry == Permutations(Clients)
=============================================================================
