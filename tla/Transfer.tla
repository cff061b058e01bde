------------------------------ MODULE Transfer -------------------------------
(***************************************************************************)
(* What copying, moving and deleting promise, without how they are done:   *)
(* where the contents of every entry are whole, which entries are marked,  *)
(* and the operation that runs.  The contents of an entry never leave the  *)
(* last place where they are whole, unless by a deletion or because the    *)
(* entry is put onto itself, which spoils it; a mark goes only when the    *)
(* operation did what was asked; and every operation ends.                 *)
(* Module FileOps implements it.                                           *)
(***************************************************************************)
CONSTANT Entry

VARIABLES
  op,      \* "none", "COPY", "MOVE" or "DELETE"
  marks,   \* entries that are marked
  whole,   \* for each entry, where its contents are complete
  spoiled  \* entries that were put onto themselves, and are given up

vars == <<op, marks, whole, spoiled>>

Place == {"source", "elsewhere"}

Init ==
  /\ op = "none" /\ marks = {} /\ spoiled = {}
  /\ whole \in [Entry -> {{"source"}, Place}]

Mark(e) ==
  /\ op = "none"
  /\ marks' \in {marks \cup {e}, marks \ {e}}
  /\ UNCHANGED <<op, whole, spoiled>>

Begin ==
  /\ op = "none" /\ op' \in {"COPY", "MOVE", "DELETE"}
  /\ UNCHANGED <<marks, whole, spoiled>>

Becomes(e, places) ==
  /\ whole' = [whole EXCEPT ![e] = places]
  /\ UNCHANGED <<op, marks, spoiled>>

(* The contents arrive at the destination, or an earlier copy of them is   *)
(* given up for a new one.                                                 *)
Arrive(e) ==
  /\ op \in {"COPY", "MOVE"} /\ whole[e] # {}
  /\ Becomes(e, whole[e] \cup {"elsewhere"})
GiveUpCopy(e) ==
  /\ op \in {"COPY", "MOVE"} /\ "source" \in whole[e]
  /\ Becomes(e, {"source"})

(* A rename takes the contents elsewhere in one step; otherwise the source *)
(* goes after they have arrived, or is deleted.                            *)
Leave(e) == op = "MOVE" /\ whole[e] # {} /\ Becomes(e, {"elsewhere"})
Delete(e) == op = "DELETE" /\ Becomes(e, whole[e] \ {"source"})

(* A copy or a move onto the entry itself: its contents may be gone.       *)
Spoil(e) ==
  /\ op \in {"COPY", "MOVE"}
  /\ spoiled' = spoiled \cup {e} /\ whole' = [whole EXCEPT ![e] = {}]
  /\ UNCHANGED <<op, marks>>

(* What was asked; nothing if an interrupted deletion has left only a part *)
(* of the source.                                                          *)
Done(e) ==
  /\ op = "COPY" => "elsewhere" \in whole[e] \/ "source" \notin whole[e]
  /\ op \in {"MOVE", "DELETE"} => "source" \notin whole[e]

Unmark(e) ==
  /\ op # "none" /\ e \in marks /\ Done(e)
  /\ marks' = marks \ {e}
  /\ UNCHANGED <<op, whole, spoiled>>

(* At the end the directory is read again: an entry whose source is not    *)
(* whole any more may be gone, and its mark with it.                       *)
End ==
  /\ op # "none" /\ op' = "none"
  /\ marks' \in SUBSET marks /\ \A e \in marks : "source" \in whole[e] => e \in marks'
  /\ UNCHANGED <<whole, spoiled>>

Next ==
  \/ Begin \/ End
  \/ \E e \in Entry : Mark(e) \/ Arrive(e) \/ GiveUpCopy(e) \/ Leave(e)
                    \/ Delete(e) \/ Spoil(e) \/ Unmark(e)

Spec == Init /\ [][Next]_vars /\ WF_vars(End)
=============================================================================
