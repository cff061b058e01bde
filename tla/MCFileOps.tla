----------------------------- MODULE MCFileOps -----------------------------
(* Instance of FileOps for TLC: a file of two copy buffers and a           *)
(* directory.                                                              *)
EXTENDS FileOps

const_Size == [e \in Entry |-> IF e \in DirEntry THEN 1 ELSE 2]
=============================================================================
