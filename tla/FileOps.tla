------------------------------ MODULE FileOps ------------------------------
(***************************************************************************)
(* The file operations of a panel: COPY, MOVE and DELETE (src/panel.c).    *)
(*                                                                         *)
(* One process acts: gitfm working through the selected entries of the     *)
(* active panel, or through the current entry when nothing is selected.    *)
(* The rest is its environment: the file system (any call may fail), the   *)
(* children it starts (cp, mv, rm), the user who answers every question,   *)
(* and SIGINT, which raises user_heart_attack at any moment.               *)
(*                                                                         *)
(* Entry e of the active panel is the file <<"src", e>>; the operations    *)
(* put it at <<"dst", e>>, or at <<"dst", e, e>> when <<"dst", e>> is      *)
(* already a directory.  A file is whose bytes it holds ("of", 0 for a     *)
(* file that was there before) and how many copy buffers of them ("have"); *)
(* a directory is the same with "have" standing for its contents.          *)
(***************************************************************************)
EXTENDS Naturals, Sequences, FiniteSets, FiniteSetsExt

CONSTANTS
  Entry,      \* indices of the entries; index 0 is ".." and never operated on
  DirEntry,   \* those that are directories
  Size,       \* Size[e]: how many copy buffers the contents of e fill
  Faults,     \* which blind spots of the code the environment exercises
  MaxOps      \* bound on the operations the user starts

(* "short_read": read() returns less than was asked for before the end of  *)
(* a file; "unstarted": start() fails, so the child never runs;            *)
(* "special": the destination is a device or a FIFO.                       *)
AllFaults == {"short_read", "unstarted", "special"}

ASSUME FileOpsAssumption ==
  /\ Entry \subseteq Nat \ {0} /\ IsFiniteSet(Entry)
  /\ DirEntry \subseteq Entry
  /\ Size \in [Entry -> Nat]
  /\ Faults \subseteq AllFaults
  /\ MaxOps \in Nat

Src(e)    == <<"src", e>>
Dst(e)    == <<"dst", e>>
Nested(e) == <<"dst", e, e>>
SrcDir    == <<"src">>
DstDir    == <<"dst">>
Paths     == UNION {{Src(e), Dst(e), Nested(e)} : e \in Entry}

None       == [kind |-> "none", of |-> 0, have |-> 0]
Old(kind)  == [kind |-> kind, of |-> 0, have |-> 0]
Kind(e)    == IF e \in DirEntry THEN "dir" ELSE "reg"
Part(e, k) == [kind |-> Kind(e), of |-> e, have |-> k]
Whole(e)   == Part(e, Size[e])

VARIABLES
  fs,         \* what each path holds
  linked,     \* destinations that are one inode with the source of their entry
  sameDev,    \* the destination is on the source's device (and not MSDOS)
  selected,   \* the selected entries of the active panel
  attack,     \* user_heart_attack, set by SIGINT and read by canceled()
  op,         \* the operation in progress
  multi,      \* this->multiple_files: the operation works on a selection
  item,       \* the entry being worked on (this->last_index)
  input,      \* the destination the user typed, completed with the name
  dest,       \* the path the destination resolves to
  chkdest,    \* this->chkdest: ask before overwriting
  keepAsking, \* keep_asking of panel_act_DELETE
  n,          \* copy buffers gone through in panel_copy's loop
  res,        \* the result of panel_copy, panel_move or the deletion
  pc,         \* where the operation stands
  ops,        \* operations started so far
  consent,    \* history: paths the user gave up in this operation, all after All
  spoiled     \* history: entries that a copy or a move put onto themselves

control == <<op, multi, item, input, dest, keepAsking>>
vars == <<fs, linked, sameDev, selected, attack, op, multi, item, input, dest,
          chkdest, keepAsking, n, res, pc, ops, consent, spoiled>>

Results == {"OK", "CANCEL", "SKIP", "INVAL", "INTERRUPTED", "FAILED"}
PCs == {"idle", "pick", "file", "go", "again", "open", "loop", "link",
        "unlink", "delete", "ret", "done"}

TypeOK ==
  /\ fs \in [Paths -> [kind : {"none", "reg", "dir", "special"},
                       of : Entry \cup {0}, have : Nat]]
  /\ linked \subseteq UNION {{Dst(e), Nested(e)} : e \in Entry \ DirEntry}
  /\ selected \subseteq Entry
  /\ {sameDev, attack, multi, chkdest, keepAsking} \subseteq BOOLEAN
  /\ op \in {"none", "COPY", "MOVE", "DELETE"}
  /\ item \in Entry \cup {0}
  /\ {input, dest} \subseteq Paths \cup {SrcDir, DstDir, <<>>}
  /\ n \in Nat /\ res \in Results /\ pc \in PCs /\ ops \in 0 .. MaxOps
  /\ consent \subseteq Paths /\ spoiled \subseteq Entry \ DirEntry

----------------------------------------------------------------------------
(* The file system as the code sees it.                                    *)

Exists(p) == fs[p].kind # "none"
IsDir(p)  == p \in {SrcDir, DstDir} \/ (p \in Paths /\ fs[p].kind = "dir")

(* "If the destination is a directory, append the source's name": the      *)
(* prologue that panel_copy and panel_move share.                          *)
Resolve(p, e) == IF IsDir(p) THEN Append(p, e) ELSE p

(* The names that reach the same inode as p. *)
Inode(p)   == IF p \in linked THEN Src(p[2]) ELSE p
Aliases(p) == {p} \cup {q \in Paths : Inode(q) = Inode(p)}

(* open() for writing and write() change the inode, under all its names;   *)
(* unlink() and link() change one directory entry, and what it is linked   *)
(* with: StillLinked(p) is what remains linked once p is gone.             *)
WriteTo(p, c) == [q \in Paths |-> IF q \in Aliases(p) THEN c ELSE fs[q]]
Unlinked(p)   == [fs EXCEPT ![p] = None]
StillLinked(p) == {q \in linked : p \notin {q, Src(q[2])}}

SameFile(p, q) == p = q \/ q \in Aliases(p)

(* canceled(): asks "Abort current operation?" if SIGINT came, and lowers  *)
(* the flag whatever the answer.                                           *)
Canceled    == attack /\ attack' = FALSE
NotCanceled == attack' = FALSE

Interrupt ==
  /\ ~attack /\ pc \notin {"idle", "done"}
  /\ attack' = TRUE
  /\ UNCHANGED <<fs, linked, sameDev, selected, control, chkdest, n, res, pc,
                 ops, consent, spoiled>>

----------------------------------------------------------------------------
(* The user starts an operation.                                           *)

Idle == pc = "idle" /\ ops < MaxOps

(* act_COPY and act_MOVE start with chkdest set. *)
KeptChkdest(o)  == chkdest                                          \* mutant
FreshChkdest(o) == IF o = "DELETE" THEN chkdest ELSE TRUE

Begin(o) ==
  /\ Idle
  /\ op' = o /\ ops' = ops + 1
  /\ attack' = FALSE                    \* the main loop lowered it
  /\ chkdest' = FreshChkdest(o)
  /\ keepAsking' = TRUE /\ n' = 0 /\ res' = "OK"
  /\ dest' = <<>> /\ consent' = {}
  /\ UNCHANGED <<fs, linked, sameDev, selected, spoiled>>

(* Nothing selected: the current entry goes to the path typed, unless that *)
(* path is the entry itself.                                               *)
BeginOne(o, e, in) ==
  /\ o \in {"COPY", "MOVE"} /\ selected = {} /\ Exists(Src(e))
  /\ Begin(o)
  /\ multi' = FALSE /\ item' = e /\ input' = in
  /\ pc' = IF SameFile(Src(e), in) THEN "done" ELSE "file"

(* The selection goes to the directory typed, unless it is the panel's.    *)
BeginMany(o, dir) ==
  /\ o \in {"COPY", "MOVE"} /\ selected # {}
  /\ Begin(o)
  /\ multi' = TRUE /\ item' = 0 /\ input' = <<>>
  /\ pc' = IF dir = SrcDir THEN "done" ELSE "pick"

(* "Delete selected entries?", answered yes. *)
BeginDelete(e) ==
  /\ selected # {} \/ Exists(Src(e))
  /\ Begin("DELETE")
  /\ multi' = (selected # {}) /\ item' = (IF selected # {} THEN 0 ELSE e)
  /\ input' = <<>> /\ pc' = IF selected # {} THEN "pick" ELSE "file"

Toggle(e) ==
  /\ Idle /\ Exists(Src(e))
  /\ selected' = (selected \ {e}) \cup ({e} \ selected)
  /\ UNCHANGED <<fs, linked, sameDev, attack, control, chkdest, n, res, pc,
                 ops, consent, spoiled>>

(* panel_get_next, then the canceled() that heads the loop. *)
Remaining == {e \in selected : e > item}
Picked    == Min(Remaining)

PickNext ==
  /\ pc = "pick"
  /\ \/ Remaining = {} /\ pc' = "done" /\ UNCHANGED <<attack, item, input>>
     \/ /\ Remaining # {} /\ item' = Picked
        /\ input' = IF op = "DELETE" THEN <<>> ELSE Dst(item')
        /\ \/ Canceled /\ pc' = "done"
           \/ NotCanceled /\ pc' = "file"
  /\ UNCHANGED <<fs, linked, sameDev, selected, op, multi, dest, keepAsking,
                 chkdest, n, res, ops, consent, spoiled>>

----------------------------------------------------------------------------
(* Where it goes, and whether that may be overwritten.                     *)

Return(r) == pc' = "ret" /\ res' = r

(* panel_warning(): Overwrite, Cancel and, with a selection, All, Skip. *)
Ask(p, next) ==
  \/ /\ ~chkdest \/ ~Exists(p)
     /\ pc' = next
     /\ UNCHANGED <<chkdest, consent, res>>
  \/ /\ chkdest /\ Exists(p)
     /\ \/ /\ \/ UNCHANGED chkdest /\ consent' = consent \cup {p}
              \/ selected # {} /\ chkdest' = FALSE /\ consent' = Paths
           /\ pc' = next /\ UNCHANGED res
        \/ /\ Return("CANCEL") \/ (selected # {} /\ Return("SKIP"))
           /\ UNCHANGED <<chkdest, consent>>

(* The common prologue of panel_copy and panel_move. *)
Target ==
  /\ pc = "file" /\ op \in {"COPY", "MOVE"}
  /\ dest' = Resolve(input, item)
  /\ IF item \in DirEntry /\ input \in Paths /\ Exists(input) /\ ~IsDir(input)
       THEN Return("INVAL") /\ UNCHANGED <<chkdest, consent>>
       ELSE Ask(Resolve(input, item), "go")
  /\ UNCHANGED <<fs, linked, sameDev, selected, attack, op, multi, item, input,
                 keepAsking, n, ops, spoiled>>

(* The dispatch behind it: a directory is handed to a child; a file is     *)
(* copied here, or moved by link() when both directories are on a device;  *)
(* otherwise panel_move calls panel_copy, whose prologue runs again.       *)
Dispatch ==
  /\ pc = "go" /\ item \notin DirEntry       \* op is COPY or MOVE
  /\ \/ /\ pc' = IF op = "COPY" THEN "open" ELSE IF sameDev THEN "link" ELSE "again"
        /\ UNCHANGED res
     \/ op = "MOVE" /\ Return("FAILED")       \* stat() failed
  /\ UNCHANGED <<fs, linked, sameDev, selected, attack, control, chkdest, n,
                 ops, consent, spoiled>>

CopyPrologueAgain ==
  /\ pc = "again"
  /\ dest' = Resolve(dest, item)
  /\ Ask(Resolve(dest, item), "open")
  /\ UNCHANGED <<fs, linked, sameDev, selected, attack, op, multi, item, input,
                 keepAsking, n, ops, spoiled>>

(* cp -r or mv -f under start(); both refuse to put a directory onto       *)
(* itself, and mv to replace one that is not empty; cp adds to it.  A      *)
(* child that fails or is killed may have done part of the work.           *)
(* panel_copy takes the -1 of a start() that ran no child for success,     *)
(* panel_move does not.                                                    *)
Empty(p) == fs[p].have = 0 /\ (p = Dst(item) => ~Exists(Nested(item)))
Merged(k) == Part(item, IF fs[dest].of = item THEN Max({k, fs[dest].have}) ELSE k)
MoveTo(moved, left) == fs' = [WriteTo(dest, moved) EXCEPT ![Src(item)] = left]

ChildRuns ==
  /\ pc = "go" /\ item \in DirEntry
  /\ LET k == fs[Src(item)].have IN
     \/ /\ fs[dest].kind \in {"none", "dir"} /\ dest # Src(item)
        /\ \/ op = "COPY" /\ fs' = WriteTo(dest, Merged(k))
           \/ op = "MOVE" /\ Empty(dest) /\ MoveTo(fs[Src(item)], None)
        /\ Return("OK")
     \/ /\ \E r \in {"FAILED", "INTERRUPTED"} : Return(r)
        /\ \/ UNCHANGED fs
           \/ /\ fs[dest].kind \in {"none", "dir"} /\ dest # Src(item)
              /\ op = "COPY" \/ Empty(dest)
              /\ \E j \in 0 .. k : \/ fs' = WriteTo(dest, Merged(j))
                                   \/ op = "MOVE" /\ MoveTo(fs[Src(item)], Part(item, j))
     \/ /\ "unstarted" \in Faults /\ UNCHANGED fs
        /\ Return(IF op = "COPY" THEN "OK" ELSE "FAILED")
  /\ UNCHANGED <<linked, sameDev, selected, attack, control, chkdest, n, ops,
                 consent, spoiled>>

----------------------------------------------------------------------------
(* panel_copy on a file.                                                   *)

CopyReturn(r) == IF op = "MOVE" /\ r = "OK" THEN pc' = "unlink" /\ UNCHANGED res
                                            ELSE Return(r)

(* open(src), creat(dest), and only then the length of the source: a       *)
(* destination that reaches the source empties it.                         *)
OntoItself == Src(item) \in Aliases(dest)

CopyOpen ==
  /\ pc = "open"
  /\ \/ Return("FAILED") /\ UNCHANGED <<fs, n, spoiled>>
     \/ /\ fs[dest].kind # "dir"
        /\ fs' = IF fs[dest].kind = "special" THEN fs ELSE WriteTo(dest, Part(item, 0))
        /\ spoiled' = IF OntoItself THEN spoiled \cup {item} ELSE spoiled
        /\ n' = 0
        /\ IF fs'[Src(item)].have = 0 THEN CopyReturn("OK")
                                       ELSE pc' = "loop" /\ UNCHANGED res
  /\ UNCHANGED <<linked, sameDev, selected, attack, control, chkdest, ops,
                 consent>>

(* panel_unlink(dest) on every way out that gave up. *)
AbandonLeaving(r) == Return(r) /\ UNCHANGED <<fs, linked, n>>       \* mutant
Abandon(r) ==
  /\ fs' = IF fs[dest].kind = "reg" THEN Unlinked(dest) ELSE fs
  /\ linked' = StillLinked(dest)
  /\ Return(r) /\ UNCHANGED n

(* One buffer: canceled(), read, canceled(), write.  n advances by a whole *)
(* buffer whatever was read.                                               *)
Transferred(k) ==
  /\ NotCanceled
  /\ n' = n + 1
  /\ fs' = IF fs[dest].kind = "special" THEN fs
           ELSE WriteTo(dest, [fs[dest] EXCEPT !.have = @ + k])
  /\ UNCHANGED <<linked, pc, res>>

CopyBuffer ==
  /\ pc = "loop"
  /\ \/ n >= fs[Src(item)].have /\ CopyReturn("OK")
        /\ UNCHANGED <<fs, linked, n, attack>>
     \/ /\ n < fs[Src(item)].have
        /\ \/ Canceled /\ Abandon("CANCEL")
           \/ NotCanceled /\ Abandon("FAILED")       \* read or write failed
           \/ Transferred(1)
           \/ "short_read" \in Faults /\ Transferred(0)
           \/ /\ "short_read" \in Faults /\ NotCanceled  \* read returned 0
              /\ CopyReturn("OK") /\ UNCHANGED <<fs, linked, n>>
  /\ UNCHANGED <<sameDev, selected, control, chkdest, ops, consent, spoiled>>

----------------------------------------------------------------------------
(* panel_move on a file.                                                   *)

LinkErrorIgnored == pc' = "unlink" /\ UNCHANGED res                \* mutant
LinkFailed       == Return("FAILED")

(* unlink(to), then link(from, to): only when to, or the directory it will *)
(* be created in, is a regular file or a directory.  Both names are one    *)
(* inode from then on, until one of them is unlinked.                      *)
LinkedTo(p) == StillLinked(p) \cup {p}

MoveLink ==
  /\ pc = "link"
  /\ \/ /\ fs[dest].kind = "special" /\ pc' = "unlink"
        /\ UNCHANGED <<fs, linked, res, spoiled>>
     \/ /\ fs[dest].kind \in {"none", "reg"} /\ dest # Src(item)
        /\ fs' = [fs EXCEPT ![dest] = fs[Src(item)]] /\ linked' = LinkedTo(dest)
        /\ pc' = "unlink" /\ UNCHANGED <<res, spoiled>>
     \/ /\ fs[dest].kind # "special" /\ LinkFailed
        /\ \/ /\ fs[dest].kind # "dir" /\ fs' = Unlinked(dest) /\ linked' = StillLinked(dest)
              /\ spoiled' = IF dest = Src(item) THEN spoiled \cup {item} ELSE spoiled
           \/ UNCHANGED <<fs, linked, spoiled>>
  /\ UNCHANGED <<sameDev, selected, attack, control, chkdest, n, ops, consent>>

MoveUnlink ==
  /\ pc = "unlink"
  /\ \/ Return("FAILED") /\ UNCHANGED <<fs, linked>>
     \/ /\ fs' = Unlinked(Src(item)) /\ linked' = StillLinked(Src(item))
        /\ Return("OK")
  /\ UNCHANGED <<sameDev, selected, attack, control, chkdest, n, ops, consent, spoiled>>

----------------------------------------------------------------------------
(* panel_act_DELETE's body.                                                *)

(* "Delete x? (Yes/Skip/All/Cancel)", until All was answered.  Without a   *)
(* selection the canceled() that heads the loop comes here; to abort is to *)
(* cancel.                                                                 *)
DeleteAsk ==
  /\ pc = "file" /\ op = "DELETE"
  /\ attack' = (attack /\ multi)
  /\ \/ /\ keepAsking
        /\ \E r \in {"SKIP", "CANCEL"} : Return(r)
        /\ UNCHANGED <<keepAsking, consent>>
     \/ /\ \/ keepAsking /\ consent' = consent \cup {Src(item)} /\ UNCHANGED keepAsking
           \/ keepAsking /\ consent' = Paths /\ keepAsking' = FALSE
           \/ ~keepAsking /\ UNCHANGED <<keepAsking, consent>>
        /\ pc' = "delete" /\ UNCHANGED res
  /\ UNCHANGED <<fs, linked, sameDev, selected, op, multi, item, input,
                 dest, chkdest, n, ops, spoiled>>

(* unlink for a file, rmdir for an empty directory, rm -r -f for another,  *)
(* after one more question; a failed rm may have removed a part.           *)
Delete ==
  /\ pc = "delete"
  /\ \/ fs' = Unlinked(Src(item)) /\ linked' = StillLinked(Src(item)) /\ Return("OK")
     \/ Return("FAILED") /\ UNCHANGED <<fs, linked>>
     \/ /\ item \in DirEntry /\ fs[Src(item)].have > 0
        /\ \E k \in 0 .. fs[Src(item)].have, r \in {"FAILED", "INTERRUPTED"} :
             fs' = [fs EXCEPT ![Src(item)].have = k] /\ Return(r)
        /\ UNCHANGED linked
  /\ UNCHANGED <<sameDev, selected, attack, control, chkdest, n, ops, consent, spoiled>>

----------------------------------------------------------------------------
(* The result of one entry, and the end of the operation.                  *)

(* Only success clears the selected flag.  A failure is reported and the   *)
(* user may stop there; a skip goes on; a cancellation stops.              *)
StillSelectedIfCanceled ==                                          \* mutant
  IF multi /\ res # "CANCEL" THEN selected \ {item} ELSE selected
StillSelected == IF multi /\ res = "OK" THEN selected \ {item} ELSE selected

EntryDone ==
  /\ pc = "ret"
  /\ selected' = StillSelected
  /\ \/ multi /\ res # "CANCEL" /\ pc' = "pick"
     \/ (~multi \/ res \notin {"OK", "SKIP"}) /\ pc' = "done"
  /\ UNCHANGED <<fs, linked, sameDev, attack, control, chkdest, n, res, ops,
                 consent, spoiled>>

(* Both panels are read again: an entry that is gone is not selected. *)
Finish ==
  /\ pc = "done"
  /\ selected' = {e \in selected : Exists(Src(e))}
  /\ pc' = "idle" /\ op' = "none" /\ attack' = FALSE
  /\ UNCHANGED <<fs, linked, sameDev, multi, item, input, dest, keepAsking,
                 chkdest, n, res, ops, consent, spoiled>>

----------------------------------------------------------------------------
(* What may be at the destination beforehand. *)
Before(e) ==
  {<<None, None>>, <<Old("reg"), None>>, <<Old("dir"), None>>,
   <<Old("dir"), Old("reg")>>}
    \cup (IF "special" \in Faults THEN {<<Old("special"), None>>} ELSE {})

Init ==
  /\ linked \in SUBSET {Dst(e) : e \in Entry \ DirEntry} /\ sameDev \in BOOLEAN
  /\ linked # {} => sameDev
  /\ \E b \in [Entry -> UNION {Before(e) : e \in Entry}] :
       fs = [p \in Paths |->
               LET e == p[2] IN
               CASE p = Src(e) -> Whole(e)
                 [] p = Dst(e) -> IF p \in linked THEN Whole(e) ELSE b[e][1]
                 [] OTHER -> IF Dst(e) \in linked THEN None ELSE b[e][2]]
  /\ selected = {} /\ attack = FALSE
  /\ op = "none" /\ multi = FALSE /\ item = 0 /\ input = <<>> /\ dest = <<>>
  /\ chkdest = TRUE /\ keepAsking = TRUE /\ n = 0 /\ res = "OK"
  /\ pc = "idle" /\ ops = 0 /\ consent = {} /\ spoiled = {}

Inputs(e) == {Dst(e), DstDir, Src(e), SrcDir}

User ==
  \/ \E e \in Entry : Toggle(e) \/ BeginDelete(e)
  \/ \E o \in {"COPY", "MOVE"} :
       \/ \E e \in Entry : \E in \in Inputs(e) : BeginOne(o, e, in)
       \/ \E dir \in {SrcDir, DstDir} : BeginMany(o, dir)

Work ==
  \/ PickNext \/ Target \/ Dispatch \/ CopyPrologueAgain \/ ChildRuns
  \/ CopyOpen \/ CopyBuffer \/ MoveLink \/ MoveUnlink
  \/ DeleteAsk \/ Delete \/ EntryDone \/ Finish

Next == User \/ Work \/ Interrupt

(* Every call returns and the user answers every question; nothing makes   *)
(* the user start an operation or press ^C.                                *)
Spec == Init /\ [][Next]_vars /\ WF_vars(Work)

----------------------------------------------------------------------------
(* PROPERTIES *)

HasWhole(e) == \E p \in Paths : fs[p] = Whole(e)

(* Until the user agrees to delete it, an entry's contents are complete    *)
(* somewhere, at every point of a copy or a move and whatever call fails,  *)
(* so that being killed between two calls loses nothing either.  The one   *)
(* other way to lose them is to put the entry onto itself, under a name    *)
(* that same_file() was not asked about (NeverOntoItself).                 *)
NoContentLost ==
  [][\A e \in Entry : HasWhole(e) /\ ~HasWhole(e)' =>
       (op = "DELETE" /\ Src(e) \in consent) \/ e \in spoiled']_vars

(* "%ls and %ls point to the same file": a copy or a move onto the source  *)
(* itself is refused before anything is opened, linked or removed.         *)
NeverOntoItself == pc \in {"open", "link"} => dest \notin Aliases(Src(item))

(* A file that was at the destination changes only after a yes to          *)
(* "File exists. Overwrite" in this very operation: for it, or All.        *)
OverwriteNeedsConsent ==
  [][\A p \in Paths : fs[p].of = 0 /\ Exists(p) /\ fs'[p] # fs[p] => p \in consent]_vars

(* Whatever stopped it, a copy leaves no half-written file behind (nor any *)
(* but of an entry that was put onto itself).                              *)
NoPartialLeft ==
  pc \in {"pick", "done", "idle"} =>
    \A p \in Paths : fs[p].kind = "reg" /\ fs[p].of \notin spoiled \cup {0}
                       => fs[p] = Whole(fs[p].of)

(* The calls and questions of a copy, a move or a deletion implement       *)
(* module Transfer: seen from outside, contents arrive before the source   *)
(* goes, marks go after that, an entry is given up only by putting it onto *)
(* itself, and the operation ends.                                         *)
WholeAt(e) ==
  {w \in {"source", "elsewhere"} :
     e \notin spoiled /\ \E p \in Paths : fs[p] = Whole(e) /\ (w = "source" <=> p = Src(e))}
T == INSTANCE Transfer WITH marks <- selected, whole <- [e \in Entry |-> WholeAt(e)]
ImplementsTransfer == T!Spec
=============================================================================
