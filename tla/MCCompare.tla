----------------------------- MODULE MCCompare ------------------------------
(* Instance of Compare for TLC: two names; contents of up to four bytes,   *)
(* which are two buffers; a stale size, a device and a directory.  With    *)
(* three bits the offset 4, where the contents of four bytes end, is the   *)
(* code -4 of a file that cannot be opened.                                *)
EXTENDS Compare

const_Symmetry == Permutations(Name)

Plain(data, mtime) ==
  [type |-> "file", special |-> FALSE, data |-> data, size |-> Len(data), mtime |-> mtime]

const_File ==
  {Plain(<<>>, 1), Plain(<<0, 0, 0>>, 1), Plain(<<0, 0, 1>>, 2),
   Plain(<<0, 0, 0, 1>>, 2), [Plain(<<0, 1, 0>>, 2) EXCEPT !.size = 0],
   [Plain(<<0, 0, 0>>, 2) EXCEPT !.special = TRUE, !.size = 0],
   [Plain(<<>>, 1) EXCEPT !.type = "dir"]}
=============================================================================
