------------------------------ MODULE MCPanel ------------------------------
(* Instance of Panel for TLC: four names, the last one a directory; two    *)
(* sort methods, the second in the opposite order; a panel too small to be *)
(* displayed and one of three lines.                                       *)
EXTENDS Panel

const_Key       == [m \in Method |-> [f \in File |-> IF m = "name" THEN 0 ELSE 9 - f]]
const_Extension == [f \in File \cup {DotDot} |-> f % 2]
=============================================================================
