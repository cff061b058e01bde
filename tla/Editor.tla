------------------------------- MODULE Editor --------------------------------
(***************************************************************************)
(* What editing a line promises, without the buffer it is kept in, the     *)
(* prompt in front of it, or the mark: there is the text before and the    *)
(* text after the point, and what was killed last.  Every character of the *)
(* text was typed, inserted or yanked there; what a command does not take  *)
(* away stays in its order; and what a command kills is one piece of the   *)
(* text that reaches to the point.  Module InputLine implements it.        *)
(***************************************************************************)
EXTENDS Integers, Sequences

CONSTANTS
  Char,          \* the characters
  Texts,         \* texts the program inserts
  Upper, Lower   \* the cases of a character

VARIABLES before, after, killed

vars == <<before, after, killed>>

Text    == before \o after
Case(c) == {c, Upper[c], Lower[c]}

Init == before = <<>> /\ after = <<>> /\ killed = <<>>

(* A character, a text of the program or what was killed, at the point.    *)
Typed == {<<c>> : c \in Char} \cup Texts \cup {killed}

Type ==
  /\ \E t \in Typed : before' = before \o t
  /\ UNCHANGED <<after, killed>>

Move ==
  /\ \E k \in 0 .. Len(Text) : /\ before' = SubSeq(Text, 1, k)
                               /\ after' = SubSeq(Text, k + 1, Len(Text))
  /\ UNCHANGED killed

(* The piece of the text from i characters behind its beginning to j       *)
(* characters behind the point, and the text without it.                   *)
Reach == (0 .. Len(before)) \X (0 .. Len(after))

Piece(i, j) == SubSeq(before, i + 1, Len(before)) \o SubSeq(after, 1, j)
Remove(i, j) ==
  /\ before' = SubSeq(before, 1, i)
  /\ after' = SubSeq(after, j + 1, Len(after))

Erase == \E r \in Reach : Remove(r[1], r[2]) /\ UNCHANGED killed
Kill  == \E r \in Reach : Remove(r[1], r[2]) /\ killed' = Piece(r[1], r[2])
Save  == \E r \in Reach : killed' = Piece(r[1], r[2]) /\ UNCHANGED <<before, after>>

(* Characters after the point change their case, and the point moves over  *)
(* them.                                                                   *)
Recase ==
  /\ \E k \in 1 .. Len(after) : \E w \in [1 .. k -> Char] :
       /\ \A i \in 1 .. k : w[i] \in Case(after[i])
       /\ before' = before \o w
       /\ after' = SubSeq(after, k + 1, Len(after))
  /\ UNCHANGED killed

(* A new question with its default answer. *)
Ask == before' \in Texts /\ after' = <<>> /\ UNCHANGED killed

Next == Type \/ Move \/ Erase \/ Kill \/ Save \/ Recase \/ Ask

Spec == Init /\ [][Next]_vars
=============================================================================
