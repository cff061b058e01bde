---------------------------- MODULE MCInputLine ----------------------------
(* Instance of InputLine for TLC: a letter in both cases and the space,    *)
(* prompts of two lengths, one of which ends in a space as those of most   *)
(* questions do.                                                           *)
EXTENDS InputLine

const_Char     == {"a", "A", " "}
const_WordChar == {"a", "A"}
const_Upper    == [c \in const_Char |-> IF c = "a" THEN "A" ELSE c]
const_Lower    == [c \in const_Char |-> IF c = "A" THEN "a" ELSE c]
const_Prompts  == {<<"a">>, <<"A", " ">>}
const_Texts    == {<<>>, <<"a", " ">>}
=============================================================================
