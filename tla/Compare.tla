------------------------------- MODULE Compare -------------------------------
(***************************************************************************)
(* Comparing two files, and the files of two panels, byte by byte          *)
(* (panel.c: panel_compare, panel_act_COMPARE, panel_act_CMPDIR).          *)
(*                                                                         *)
(* A panel shows what it knew of its files when the directory was read:    *)
(* their listed sizes may be stale, and those of files that are not        *)
(* regular say nothing.  panel_compare trusts them at the beginning, to    *)
(* skip empty files, and after a difference, to tell the files' sizes; in  *)
(* between it counts the bytes it reads.                                   *)
(***************************************************************************)
EXTENDS Integers, Sequences, SequencesExt

CONSTANTS
  Name,         \* names of files
  File,         \* entries: [type, special, data, size, mtime]
  BufferSize,   \* CMP_BUFFER_SIZE
  IntBits       \* width of an int, to which offsets are cut

Side   == {"this", "other"}
None   == [type |-> "none"]    \* the panel has no entry of that name
DotDot == ".."

ASSUME CompareAssumption ==
  /\ BufferSize \in Nat \ {0} /\ IntBits \in Nat \ {0}
  /\ IsFiniteSet(Name) /\ DotDot \notin Name
  /\ \A f \in File : /\ f.type \in {"file", "dir", "other"} /\ f.special \in BOOLEAN
                     /\ f.data \in Seq(Nat) /\ f.size \in Nat /\ f.mtime \in Int

VARIABLES
  entry,     \* dir_entry of the panels, by name
  first,     \* the name at index 0, which is not ".." in the root directory
  same_path, \* both panels show the same directory
  marked, selected_entries,
  pc, job,   \* what runs: "compare", "quick" or "thorough"
  todo,      \* names of this panel CMPDIR has still to look at
  pair,      \* the names being compared
  n, got,    \* offset, *this_size and *other_size
  result, message

listing == <<entry, first, same_path>>
marks   == <<marked, selected_entries>>
file    == <<n, got, result>>
vars    == <<listing, marks, pc, job, todo, pair, file, message>>

CF_ABORT == -1
CF_READ  == [this |-> -2, other |-> -3]
CF_OPEN  == [this |-> -4, other |-> -5]

Smaller(a, b) == IF a < b THEN a ELSE b
Larger(a, b)  == IF a < b THEN b ELSE a

Entry(s)   == entry[s][pair[s]]
Data(s)    == Entry(s).data
Special(s) == Entry(s).special
Present(s) == {x \in Name : entry[s][x] # None}

-----------------------------------------------------------------------------
(* panel_compare.                                                          *)

(* Listed sizes: of two special files nothing is known, of one the size of *)
(* the other file counts.                                                  *)
ListedSize(e, f) ==
  CASE e.special /\ f.special   -> 0
    [] e.special /\ ~f.special  -> f.size
    [] ~e.special /\ f.special  -> e.size
    [] OTHER                    -> Larger(e.size, f.size)

Call(e, f) ==
  /\ got' = [s \in Side |-> 0] /\ n' = 0
  /\ \/ /\ ListedSize(e, f) = 0 /\ ~(e.special /\ f.special)
        /\ result' = 0 /\ pc' = "compared"
     \/ /\ ListedSize(e, f) # 0 \/ (e.special /\ f.special)
        /\ result' = 0 /\ pc' = "open"

Returns(r) == result' = r /\ pc' = "compared"
Keep == UNCHANGED <<listing, marks, job, todo, pair, message>>

OpenBoth  == pc = "open" /\ pc' = "read" /\ Keep /\ UNCHANGED file
OpenFails(s) == pc = "open" /\ Returns(CF_OPEN[s]) /\ Keep /\ UNCHANGED <<n, got>>

(* What read() may return: a regular file fills the buffer.                *)
Reads(s) ==
  LET most == Smaller(BufferSize, Len(Data(s)) - got[s])
  IN IF Special(s) THEN Smaller(1, most) .. most ELSE {most}

Chunk(s, r) == SubSeq(Data(s), got[s] + 1, got[s] + r)

FirstDifferencePast(a, b) ==    \* mutant
  1 + CHOOSE i \in DOMAIN a : a[i] # b[i] /\ \A j \in 1 .. i - 1 : a[j] = b[j]

(* The first place where two sequences of the same length differ.          *)
FirstDifference(a, b) ==
  CHOOSE i \in DOMAIN a : a[i] # b[i] /\ \A j \in 1 .. i - 1 : a[j] = b[j]

SizesBeforeMismatch(s, read) == {got[s]}    \* mutant

(* After a difference, special files are read to their end to know their   *)
(* sizes, or to the first read that fails, which is not noticed; of the    *)
(* others the listed sizes are taken.                                      *)
SizesAfterMismatch(s, read) ==
  IF Special(s) THEN read .. Len(Data(s)) ELSE {Entry(s).size}

ReadPair(r1, r2) ==
  LET bytes_read == Smaller(r1, r2)
      a == SubSeq(Chunk("this", r1), 1, bytes_read)
      b == SubSeq(Chunk("other", r2), 1, bytes_read)
      here == [this |-> got["this"] + r1, other |-> got["other"] + r2]
  IN /\ pc = "read"
     /\ \/ bytes_read = 0 /\ got' = here /\ Returns(n) /\ UNCHANGED n
        \/ /\ a # b
           /\ n' = n + FirstDifference(a, b) - 1
           /\ \E t \in SizesAfterMismatch("this", here["this"]),
                 o \in SizesAfterMismatch("other", here["other"]) :
                got' = [this |-> t, other |-> o]
           /\ Returns(n')
        \/ /\ a = b /\ bytes_read > 0
           /\ n' = n + bytes_read /\ got' = here
           /\ UNCHANGED <<pc, result>>
     /\ Keep

ReadFails(s) == pc = "read" /\ Returns(CF_READ[s]) /\ Keep /\ UNCHANGED <<n, got>>
Abort        == pc = "read" /\ Returns(CF_ABORT) /\ Keep /\ UNCHANGED <<n, got>>

-----------------------------------------------------------------------------
(* panel_act_COMPARE of the two current files.  When their listed sizes    *)
(* differ the user is asked, and may say no.                               *)
Compare(a, b) ==
  /\ pc = "idle"
  /\ a \in Present("this") /\ b \in Present("other") /\ ~(same_path /\ a = b)
  /\ entry["this"][a].type = "file" /\ entry["other"][b].type = "file"
  /\ pair' = [this |-> a, other |-> b] /\ job' = "compare"
  /\ message' = "none"
  /\ Call(entry["this"][a], entry["other"][b])
  /\ UNCHANGED <<listing, marks, todo>>

(* switch ((int)result).                                                   *)
AsInt(r) == LET m == r % (2 ^ IntBits)
            IN IF m < 2 ^ (IntBits - 1) THEN m ELSE m - 2 ^ IntBits

Message ==
  CASE AsInt(result) = CF_ABORT -> "none"
    [] AsInt(result) \in {CF_OPEN["this"], CF_OPEN["other"]} -> "cannot open"
    [] AsInt(result) \in {CF_READ["this"], CF_READ["other"]} -> "cannot read"
    [] OTHER -> IF result = got["this"] /\ got["this"] = got["other"] THEN "ok"
                ELSE IF result = Smaller(got["this"], got["other"]) THEN "same beginning"
                ELSE "differ"

Report ==
  /\ pc = "compared" /\ job = "compare"
  /\ message' = Message
  /\ pc' = "idle"
  /\ UNCHANGED <<listing, marks, job, todo, pair, file>>

-----------------------------------------------------------------------------
(* panel_act_CMPDIR.                                                       *)

(* panel_select_all marks everything but directories.                      *)
AllMarked(s) == marked[s] \cup {x \in Present(s) : entry[s][x].type # "dir"}
MarkAllAgain ==    \* mutant
  /\ marked' = [s \in Side |-> AllMarked(s)]
  /\ selected_entries' =
       [s \in Side |-> selected_entries[s] + Cardinality(AllMarked(s))]

MarkAll ==
  /\ marked' = [s \in Side |-> AllMarked(s)]
  /\ selected_entries' =
       [s \in Side |-> selected_entries[s]
                         + Cardinality(AllMarked(s)) - Cardinality(marked[s])]

UnmarkAll == /\ marked' = [s \in Side |-> {}]
             /\ selected_entries' = [s \in Side |-> 0]

Unmark(S, x) ==
  /\ marked' = [s \in Side |-> IF s \in S THEN marked[s] \ {x} ELSE marked[s]]
  /\ selected_entries' =
       [s \in Side |-> IF s \in S THEN selected_entries[s] - 1 ELSE selected_entries[s]]

(* The loops start at index 1.                                             *)
Looked(s) == {x \in Present(s) \ {first[s]} : entry[s][x].type = "file"}

CompareDirs(how) ==
  /\ pc = "idle" /\ job' = how /\ message' = "none"
  /\ \/ same_path /\ UnmarkAll /\ UNCHANGED <<pc, todo>>
     \/ ~same_path /\ MarkAll /\ pc' = "next" /\ todo' = Looked("this")
  /\ UNCHANGED <<listing, pair, file>>

KeepOlder(x) ==    \* mutant
  LET newer == entry["this"][x].mtime >= entry["other"][x].mtime
  IN Unmark(IF newer THEN {"this"} ELSE {"other"}, x)

(* The file that is not newer loses its mark.                              *)
KeepNewer(x) ==
  LET newer == entry["this"][x].mtime >= entry["other"][x].mtime
  IN Unmark(IF newer THEN {"other"} ELSE {"this"}, x)

NextFile(x) ==
  LET e == entry["this"][x]
      f == entry["other"][x]
  IN /\ pc = "next" /\ x \in todo /\ todo' = todo \ {x}
     /\ \/ x \notin Looked("other") /\ UNCHANGED <<marks, pc, pair, file>>
        \/ /\ x \in Looked("other")
           /\ \/ e.size # f.size /\ KeepNewer(x) /\ UNCHANGED <<pc, pair, file>>
              \/ /\ e.size = f.size /\ job = "quick"
                 /\ IF e.mtime = f.mtime THEN Unmark(Side, x) ELSE KeepNewer(x)
                 /\ UNCHANGED <<pc, pair, file>>
              \/ /\ e.size = f.size /\ job = "thorough"
                 /\ pair' = [s \in Side |-> x]
                 /\ Call(e, f)
                 /\ UNCHANGED marks
     /\ UNCHANGED <<listing, job, message>>

(* Any failure counts as a difference; ^C ends the command.                *)
Decide ==
  /\ pc = "compared" /\ job = "thorough"
  /\ \/ result = CF_ABORT /\ pc' = "idle" /\ message' = "aborted" /\ UNCHANGED marks
     \/ /\ result # CF_ABORT /\ pc' = "next" /\ UNCHANGED message
        /\ IF result = got["this"] /\ result = got["other"]
           THEN Unmark(Side, pair["this"])
           ELSE KeepNewer(pair["this"])
  /\ UNCHANGED <<listing, job, todo, pair, file>>

DirsDone ==
  /\ pc = "next" /\ todo = {}
  /\ pc' = "idle" /\ message' = "done"
  /\ UNCHANGED <<listing, marks, job, todo, pair, file>>

-----------------------------------------------------------------------------
(* When a command starts the panels show anything, and nothing or          *)
(* everything is marked.                                                   *)
Init ==
  /\ entry \in [Side -> [Name -> File \cup {None}]]
  /\ first \in [Side -> Name \cup {DotDot}]
  /\ \A s \in Side : first[s] \in Present(s) \cup {DotDot}
  /\ same_path \in BOOLEAN
  /\ IF same_path THEN entry["this"] = entry["other"] /\ first["this"] = first["other"]
                  ELSE DotDot \in {first["this"], first["other"]}
  /\ \E all \in BOOLEAN : marked = [s \in Side |-> IF all THEN Present(s) ELSE {}]
  /\ selected_entries = [s \in Side |-> Cardinality(marked[s])]
  /\ pc = "idle" /\ job = "none" /\ todo = {} /\ pair = [s \in Side |-> DotDot]
  /\ n = 0 /\ got = [s \in Side |-> 0] /\ result = 0 /\ message = "none"

Next ==
  \/ \E a, b \in Name : Compare(a, b)
  \/ OpenBoth \/ \E r1, r2 \in 0 .. BufferSize :
       pc = "read" /\ r1 \in Reads("this") /\ r2 \in Reads("other") /\ ReadPair(r1, r2)
  \/ \E s \in Side : OpenFails(s) \/ ReadFails(s)
  \/ Abort \/ Report
  \/ \E how \in {"quick", "thorough"} : CompareDirs(how)
  \/ \E x \in Name : NextFile(x)
  \/ Decide \/ DirsDone

Spec == Init /\ [][Next]_vars
-----------------------------------------------------------------------------
(* The listed size is the size the file has.                               *)
Current(s, x) == entry[s][x].special \/ entry[s][x].size = Len(entry[s][x].data)
Identical(x, y) == entry["this"][x].data = entry["other"][y].data
Compared == pc = "idle" /\ job = "compare" /\ message # "none"
Unread(e, f) == e.special # f.special /\ ListedSize(e, f) = 0
AreCurrent == \A s \in Side : Current(s, pair[s])

(* Types; never more was read than there is.                               *)
TypeOK ==
  /\ marked \in [Side -> SUBSET Name] /\ todo \subseteq Name
  /\ pc \in {"idle", "open", "read", "compared", "next"}
  /\ n \in Nat
  /\ pc = "read" => \A s \in Side : got[s] <= Len(Data(s)) /\ n <= got[s]

(* "Compare OK" (panel.c: "files are identical") is said only of files     *)
(* with the same contents, however the reads of a special file were cut.   *)
(* The exceptions: a listed size that is stale, and a special file that is *)
(* compared with an empty one, which is not read at all.                   *)
OKMeansIdentical ==
  Compared /\ message = "ok" /\ AreCurrent /\ ~Unread(Entry("this"), Entry("other"))
    => Data("this") = Data("other")

(* Two regular files that were read are reported as what they are, and a   *)
(* difference with the offset of the first byte that differs.  An offset   *)
(* that is another number, or an error code, as an int is excepted.        *)
DifferenceReported ==
  Compared /\ AreCurrent /\ ~Special("this") /\ ~Special("other")
  /\ result >= 0 /\ AsInt(result) = result
    => LET a == Data("this")
           b == Data("other")
       IN CASE message = "ok"             -> a = b
            [] message = "same beginning" -> IsStrictPrefix(a, b) \/ IsStrictPrefix(b, a)
            [] message = "differ"         -> /\ ~IsPrefix(a, b) /\ ~IsPrefix(b, a)
                                             /\ SubSeq(a, 1, n) = SubSeq(b, 1, n)
                                             /\ a[n + 1] # b[n + 1]
            [] OTHER -> FALSE

(* After a thorough comparison of two directories every file is marked     *)
(* unless the other panel has a file of that name with the same contents,  *)
(* unmarked too, or one that is marked and not older.  Stale sizes and     *)
(* files that are not read are excepted, as above.                         *)
UnmarkedIsCovered ==
  pc = "idle" /\ message = "done" /\ job = "thorough" =>
    \A s \in Side, x \in Name :
      LET t == CHOOSE t \in Side : t # s
      IN /\ entry[s][x] # None /\ entry[s][x].type # "dir" /\ x \notin marked[s]
         /\ entry[t][x] # None =>
              /\ Current(s, x) /\ Current(t, x)
              /\ ~Unread(entry[s][x], entry[t][x])
         => /\ entry[t][x] # None
            /\ \/ x \in marked[t] /\ entry[t][x].mtime >= entry[s][x].mtime
               \/ x \notin marked[t] /\ Identical(x, x)

(* selected_entries is the number of marked entries, after a comparison    *)
(* that was aborted too.                                                   *)
CountKept == \A s \in Side : selected_entries[s] = Cardinality(marked[s])
=============================================================================
