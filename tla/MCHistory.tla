------------------------------ MODULE MCHistory ------------------------------
(* Instance of History for TLC: "a", "ab" and "b", so that a beginning can *)
(* match two commands, one or none, in a list of four.                     *)
EXTENDS History

const_Line == {<<"a">>, <<"a", "b">>, <<"b">>}
const_Str  == {<<"a">>, <<"a", "b">>}
=============================================================================
