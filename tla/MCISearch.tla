----------------------------- MODULE MCISearch -----------------------------
(* Instance of ISearch for TLC: "a", "ab", "ba" and "..", and texts of up  *)
(* to three characters, so that a text can match several names, one name,  *)
(* none, or names on both sides of the cursor.                             *)
EXTENDS ISearch

const_Key       == [m \in Method |-> [f \in File |-> 0]]
const_Extension == [f \in File \cup {DotDot} |-> 0]
const_Letter    == {"a", "b", "."}
const_Spelling  ==
  [f \in File \cup {DotDot} |->
     CASE f = DotDot -> <<".", ".">> [] f = 1 -> <<"a">> [] f = 2 -> <<"a", "b">>
       [] OTHER -> <<"b", "a">>]
=============================================================================
