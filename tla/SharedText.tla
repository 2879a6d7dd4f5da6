----------------------------- MODULE SharedText -----------------------------
(***************************************************************************)
(* What a document promises to everybody who edits it: one text, changed   *)
(* one character and one number at a time.  There is no room, no database  *)
(* and no process here.  Rooms that are loaded, removed and loaded again,  *)
(* batches that are cut short and servers that die must not be seen in it. *)
(***************************************************************************)
EXTENDS Integers, Sequences

CONSTANT Chars

VARIABLES
    text,       \* the text of the document
    number      \* how many operations have made it

Init == text = << >> /\ number = 0

Put(char, pos) == text' = SubSeq(text, 1, pos) \o <<char>> \o SubSeq(text, pos + 1, Len(text))

Cut(pos) == text' = SubSeq(text, 1, pos) \o SubSeq(text, pos + 2, Len(text))

Next ==
    /\ number' = number + 1
    /\ \/ \E pos \in 0 .. Len(text), char \in Chars : Put(char, pos)
       \/ \E pos \in 0 .. Len(text) - 1 : Cut(pos)

Spec == Init /\ [][Next]_<<text, number>>
=============================================================================
