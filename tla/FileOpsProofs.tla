--------------------------- MODULE FileOpsProofs ---------------------------
(***************************************************************************)
(* What copying, moving and deleting keep safe, for any entries and sizes  *)
(* and any number of operations.                                           *)
(***************************************************************************)
EXTENDS FileOps, FiniteSetTheorems, WellFoundedInduction, SequenceTheorems, TLAPS

Own(e) == {Src(e), Dst(e), Nested(e)}

Transferring == {"go", "again", "open", "loop", "link", "unlink"}

(* What the operation works on.                                            *)
WorkOK ==
  /\ pc = "idle" <=> op = "none"
  /\ pc \in Transferring \cup {"file", "delete", "ret"} => item \in Entry
  /\ pc \in Transferring =>
       /\ op \in {"COPY", "MOVE"}
       /\ dest \in {Src(item), Dst(item), Nested(item)}
  /\ pc \in Transferring \ {"go"} => item \notin DirEntry
  /\ pc \in {"again", "link", "unlink"} => op = "MOVE"
  /\ pc = "file" /\ op # "DELETE" => input \in {Dst(item), DstDir, SrcDir}
  /\ pc = "delete" => op = "DELETE"
  /\ multi => /\ pc = "file" /\ op # "DELETE" => input = Dst(item)
              /\ pc \in Transferring => dest # Src(item)

(* The paths of an entry hold its own contents, nothing, or what was there *)
(* before; what is put inside a directory is not a directory of old.       *)
Holds(e, c) == c.kind = Kind(e) /\ c.of = e

FilesOK ==
  \A e \in Entry :
    /\ fs[Src(e)] = None \/ Holds(e, fs[Src(e)])
    /\ fs[Dst(e)].of = 0 \/ Holds(e, fs[Dst(e)])
    /\ fs[Nested(e)] \in {None, Old("reg")} \/ Holds(e, fs[Nested(e)])

(* Two names of one file; and the file that is being written.              *)
LinkedOK ==
  \A e \in Entry : \A p \in linked \cap Own(e) : fs[Src(e)].of = e /\ fs[p].of = e

WritingOK == pc = "loop" => fs[dest].kind = "special" \/ Holds(item, fs[dest])

(* What is about to be lost was asked about.                               *)
AskedOK ==
  /\ op \in {"COPY", "MOVE"} /\ ~chkdest => consent = Paths
  /\ pc \in Transferring /\ Exists(dest) /\ fs[dest].of = 0 => dest \in consent
  /\ op = "DELETE" /\ ~keepAsking => consent = Paths
  /\ pc = "delete" => Src(item) \in consent

(* What is marked, and what is worked on, exists.                          *)
SourceOK ==
  /\ op # "none" /\ ~multi => selected = {}
  /\ pc \in Transferring \cup {"file", "delete", "ret"} /\ multi => item \in selected
  /\ \A e \in selected : Exists(Src(e)) \/ (pc = "ret" /\ res = "OK" /\ e = item)
  /\ pc \in Transferring \cup {"file", "delete"} => Exists(Src(item))

Inv == TypeOK /\ WorkOK /\ FilesOK /\ LinkedOK /\ WritingOK /\ AskedOK /\ SourceOK

(* A file that is being written is not the one that is being read: opening *)
(* it would have emptied the source, and there is nothing to copy then.    *)
LoopApart == pc = "loop" => Src(item) \notin Aliases(dest)

(* When reads are complete, no file is a part of another, but the one that *)
(* is written, unless an operation has put it onto itself.                 *)
WholeOK ==
  /\ \A e \in Entry \ spoiled, p \in Paths : fs[p].of = e => fs[p].have <= Size[e]
  /\ \A e \in Entry \ (DirEntry \cup spoiled), p \in Paths :
       fs[p].of = e => fs[p] = Whole(e) \/ (pc = "loop" /\ p = dest)
  /\ pc = "loop" /\ item \notin spoiled =>
       fs[dest].kind = "special" \/ (fs[dest] = Part(item, n) /\ n <= Size[item])
  /\ pc = "unlink" /\ item \notin spoiled =>
       dest # Src(item) /\ (fs[dest].kind = "special" \/ fs[dest] = Whole(item))

Safe == LoopApart /\ WholeOK

NoSpecial == \A p \in Paths : fs[p].kind # "special"

(* The end of the work on an entry.                                        *)
DoneOK ==
  pc = "ret" /\ res = "OK" =>
    /\ op = "COPY" /\ item \notin spoiled /\ fs[Src(item)] = Whole(item) =>
         fs[Dst(item)] = Whole(item) \/ fs[Nested(item)] = Whole(item)
    /\ op \in {"MOVE", "DELETE"} => ~Exists(Src(item))

-----------------------------------------------------------------------------
(* Numbers, and the paths of an entry.                                     *)

(* A set of numbers has a least one: the initial segments below its       *)
(* elements are finite, and inclusion of finite sets is well founded.      *)
LEMMA MinIsLeast ==
  ASSUME NEW S \in SUBSET Nat, S # {}
  PROVE  Min(S) \in S /\ \A y \in S : Min(S) <= y
<1> DEFINE I == {0 .. x : x \in S}
           R == StrictSubsetOrdering(Nat)
<1>1. I \subseteq FiniteSubsetsOf(Nat) /\ I # {}
  <2>1. \A x \in S : 0 .. x \in SUBSET Nat /\ IsFiniteSet(0 .. x)
    BY FS_Interval
  <2> QED BY <2>1 DEF FiniteSubsetsOf
<1>2. PICK t \in I : \A u \in I : <<u, t>> \notin R
  <2> HIDE DEF I, R
  <2>1. IsWellFoundedOn(R, FiniteSubsetsOf(Nat))
    BY FS_StrictSubsetOrderingWellFounded DEF R
  <2> QED BY <1>1, <2>1, WFMin
<1>3. PICK x \in S : t = 0 .. x
  BY <1>2
<1>4. ASSUME NEW y \in S
      PROVE  x <= y
  <2>1. <<0 .. y, 0 .. x>> \notin R /\ 0 .. y \in SUBSET Nat /\ 0 .. x \in SUBSET Nat
    <3>1. 0 .. y \in I
      OBVIOUS
    <3> HIDE DEF I, R
    <3> QED BY <1>2, <1>3, <3>1
  <2>2. 0 .. y = 0 .. x \/ ~(0 .. y \subseteq 0 .. x)
    BY <2>1 DEF StrictSubsetOrdering
  <2>3. y < x => x \in 0 .. x /\ x \notin 0 .. y /\ 0 .. y \subseteq 0 .. x
    OBVIOUS
  <2> QED BY <2>2, <2>3
<1> QED BY <1>4 DEF Min

LEMMA MaxOfTwo ==
  ASSUME NEW i \in Nat, NEW j \in Nat
  PROVE  Max({i, j}) \in {i, j} /\ Max({i, j}) >= i /\ Max({i, j}) >= j
<1>1. \E x \in {i, j} : \A y \in {i, j} : x >= y
  OBVIOUS
<1> QED BY <1>1 DEF Max

LEMMA PathsApart ==
  /\ \A e, f \in Entry :
       /\ Src(e) # Dst(f) /\ Src(e) # Nested(f) /\ Dst(e) # Nested(f)
       /\ Src(e) = Src(f) => e = f
       /\ Dst(e) = Dst(f) => e = f
       /\ Nested(e) = Nested(f) => e = f
  /\ \A e \in Entry : Own(e) \subseteq Paths
  /\ \A p \in Paths : \E e \in Entry : p \in Own(e)
  /\ SrcDir \notin Paths /\ DstDir \notin Paths /\ <<>> \notin Paths /\ SrcDir # DstDir
<1>1. \A e, f \in Entry : Len(Src(e)) = 2 /\ Len(Dst(e)) = 2 /\ Len(Nested(e)) = 3
  BY DEF Src, Dst, Nested
<1>2. Len(SrcDir) = 1 /\ Len(DstDir) = 1 /\ Len(<<>>) = 0
  BY DEF SrcDir, DstDir
<1>3. \A e, f \in Entry :
        /\ Src(e) # Nested(f) /\ Dst(e) # Nested(f)
        /\ SrcDir \notin Own(e) /\ DstDir \notin Own(e) /\ <<>> \notin Own(e)
  <2> SUFFICES ASSUME NEW e \in Entry, NEW f \in Entry
               PROVE  /\ Src(e) # Nested(f) /\ Dst(e) # Nested(f)
                      /\ \A p \in Own(e) : SrcDir # p /\ DstDir # p /\ <<>> # p
    OBVIOUS
  <2>1. Len(Src(e)) = 2 /\ Len(Dst(e)) = 2 /\ Len(Nested(e)) = 3 /\ Len(Nested(f)) = 3
    BY <1>1
  <2>2. \A p \in Own(e) : Len(p) \in {2, 3}
    BY <2>1 DEF Own
  <2>3. ASSUME NEW p \in Own(e)
        PROVE  SrcDir # p /\ DstDir # p /\ <<>> # p
    <3>1. Len(p) # 1 /\ Len(p) # 0
      BY <2>2
    <3> QED BY <1>2, <3>1
  <2>4. Src(e) # Nested(f) /\ Dst(e) # Nested(f)
    BY <2>1
  <2> QED BY <2>3, <2>4
<1>4. \A e, f \in Entry : Src(e) # Dst(f)
  BY DEF Src, Dst
<1>5. \A e, f \in Entry : (Src(e) = Src(f) \/ Dst(e) = Dst(f) \/ Nested(e) = Nested(f)) => e = f
  BY DEF Src, Dst, Nested
<1>6. \A p : p \in Paths <=> \E e \in Entry : p \in Own(e)
  BY DEF Paths, Own
<1> QED BY <1>3, <1>4, <1>5, <1>6 DEF SrcDir, DstDir, Own

(* The name of the source appended to a directory.                         *)
LEMMA Appended ==
  ASSUME NEW e \in Entry
  PROVE  Append(Dst(e), e) = Nested(e) /\ Append(DstDir, e) = Dst(e) /\ Append(SrcDir, e) = Src(e)
<1> DEFINE V == {"src", "dst"} \cup Entry
<1> HIDE DEF V
<1>1. ASSUME NEW x \in V, NEW y \in V
      PROVE  Append(<<x>>, y) = <<x, y>>
  <2> DEFINE a == Append(<<x>>, y)
             t == <<x, y>>
  <2>1. <<x>> \in Seq(V) /\ Len(<<x>>) = 1 /\ <<x>>[1] = x
    OBVIOUS
  <2>2. t \in Seq(V) /\ Len(t) = 2 /\ t[1] = x /\ t[2] = y
    OBVIOUS
  <2>3. a \in Seq(V) /\ Len(a) = 1 + 1 /\ a[1] = x /\ a[1 + 1] = y
    BY <2>1, AppendProperties
  <2> HIDE DEF a, t
  <2>4. \A i \in 1 .. Len(a) : a[i] = t[i]
    BY <2>2, <2>3
  <2>5. a = t
    BY <2>2, <2>3, <2>4, SeqEqual
  <2> QED BY <2>5 DEF a, t
<1>2. ASSUME NEW x \in V, NEW y \in V, NEW z \in V
      PROVE  Append(<<x, y>>, z) = <<x, y, z>>
  <2> DEFINE a == Append(<<x, y>>, z)
             t == <<x, y, z>>
  <2>1. <<x, y>> \in Seq(V) /\ Len(<<x, y>>) = 2 /\ <<x, y>>[1] = x /\ <<x, y>>[2] = y
    OBVIOUS
  <2>2. t \in Seq(V) /\ Len(t) = 3 /\ t[1] = x /\ t[2] = y /\ t[3] = z
    OBVIOUS
  <2>3. a \in Seq(V) /\ Len(a) = 2 + 1 /\ a[1] = x /\ a[2] = y /\ a[2 + 1] = z
    BY <2>1, AppendProperties
  <2> HIDE DEF a, t
  <2>4. \A i \in 1 .. Len(a) : a[i] = t[i]
    BY <2>2, <2>3
  <2>5. a = t
    BY <2>2, <2>3, <2>4, SeqEqual
  <2> QED BY <2>5 DEF a, t
<1>3. "src" \in V /\ "dst" \in V /\ e \in V
  BY DEF V
<1> QED BY <1>1, <1>2, <1>3 DEF Dst, Nested, Src, SrcDir, DstDir

(* The other names of a path are names of the same entry; only a source    *)
(* and what is linked with it have any.                                    *)
LEMMA AliasesOf ==
  ASSUME TypeOK, NEW e \in Entry, NEW p \in Own(e)
  PROVE  /\ p \in Aliases(p) /\ Aliases(p) \subseteq Own(e)
         /\ \A q \in Aliases(p) \ {p} : {p, q} \subseteq linked \cup {Src(e)} /\ linked \cap {p, q} # {}
         /\ Src(e) \notin Aliases(p) => Aliases(p) = {p}
         /\ e \in DirEntry => Aliases(p) = {p} /\ linked \cap Own(e) = {}
         /\ Src(e) \notin linked
<1>1. \A f \in Entry : \A q \in Own(f) : q \in Paths /\ q[2] = f
  <2>1. \A f \in Entry : Src(f)[2] = f /\ Dst(f)[2] = f /\ Nested(f)[2] = f
    BY DEF Src, Dst, Nested
  <2> QED BY <2>1, PathsApart DEF Own
<1>2. \A q \in linked : \E f \in Entry \ DirEntry : q \in {Dst(f), Nested(f)}
  BY DEF TypeOK
<1>3. Src(e) \notin linked
  BY <1>2, PathsApart
<1>4. e \in DirEntry => linked \cap Own(e) = {}
  <2>1. ASSUME NEW q \in linked \cap Own(e) PROVE e \notin DirEntry
    <3>1. PICK f \in Entry \ DirEntry : q \in Own(f)
      BY <1>2 DEF Own
    <3> QED BY <1>1, <3>1
  <2> QED BY <2>1
<1>5. ASSUME NEW f \in Entry, NEW q \in Own(f)
      PROVE  Inode(q) = (IF q \in linked THEN Src(f) ELSE q) /\ Inode(q) \in Own(f)
  BY <1>1, <1>5 DEF Inode, Own
<1>6. ASSUME NEW q \in Paths, Inode(q) = Inode(p)
      PROVE  q \in Own(e)
  <2>1. PICK f \in Entry : q \in Own(f)
    BY PathsApart
  <2> QED BY <1>1, <1>5, <2>1, <1>6
<1>7. Aliases(p) = {q \in Own(e) : Inode(q) = Inode(p)}
  BY <1>1, <1>6 DEF Aliases
<1>8. \A q \in Own(e) : Inode(q) = IF q \in linked THEN Src(e) ELSE q
  BY <1>5
<1>9. Src(e) \in Own(e) /\ Inode(Src(e)) = Src(e)
  BY <1>3, <1>8 DEF Own
<1>10. Src(e) \notin Aliases(p) => p \notin linked /\ p # Src(e)
  BY <1>7, <1>8, <1>9
<1>11. \A q \in Aliases(p) \ {p} : {p, q} \subseteq linked \cup {Src(e)} /\ linked \cap {p, q} # {}
  BY <1>7, <1>8
<1>12. p \in Aliases(p)
  BY DEF Aliases
<1> QED BY <1>3, <1>4, <1>7, <1>10, <1>11, <1>12

-----------------------------------------------------------------------------
(* What the steps do to the files.                                         *)

File == [kind : {"none", "reg", "dir", "special"}, of : Entry \cup {0}, have : Nat]

Replaceable(p) == fs[p].of = item \/ ~Exists(p) \/ (pc \in Transferring /\ p = dest)

(* Only the paths of the entry that is worked on change; they are emptied  *)
(* or get contents of that entry.  What does not hold its contents already *)
(* is replaced at the destination only.                                    *)
Changes ==
  /\ fs' \in [Paths -> File] /\ linked' \subseteq linked \cup (Own(item) \ {Src(item)})
  /\ item \in DirEntry => linked' \subseteq linked
  /\ \A p \in Paths :
       fs'[p] = fs[p] \/ (p \in Own(item) /\ (fs'[p] = None \/ Holds(item, fs'[p])))
  /\ \A q \in linked' \cap Own(item) : fs'[Src(item)].of = item /\ fs'[q].of = item
  /\ \A p \in Paths : fs'[p] = fs[p] \/ Replaceable(p)

LEMMA TypeFacts ==
  ASSUME TypeOK
  PROVE  /\ fs \in [Paths -> File] /\ spoiled \subseteq Entry \ DirEntry
         /\ selected \subseteq Entry /\ Entry \subseteq Nat \ {0} /\ DirEntry \subseteq Entry
BY FileOpsAssumption DEF TypeOK, File

LEMMA PartFacts ==
  ASSUME NEW e \in Entry, NEW k \in Nat
  PROVE  /\ Part(e, k) \in File /\ Holds(e, Part(e, k))
         /\ Part(e, k).kind = Kind(e) /\ Part(e, k).of = e /\ Part(e, k).have = k
         /\ None \in File /\ None.kind = "none" /\ None.of = 0
         /\ Kind(e) \in {"reg", "dir"} /\ (Kind(e) = "dir" <=> e \in DirEntry)
BY DEF Part, Holds, Kind, File, None

LEMMA ChangesKeep ==
  ASSUME TypeOK, FilesOK, LinkedOK, item \in Entry, Changes
  PROVE  FilesOK' /\ LinkedOK'
<1>1. FilesOK'
  <2> SUFFICES ASSUME NEW e \in Entry
               PROVE  /\ fs'[Src(e)] = None \/ Holds(e, fs'[Src(e)])
                      /\ fs'[Dst(e)].of = 0 \/ Holds(e, fs'[Dst(e)])
                      /\ fs'[Nested(e)] \in {None, Old("reg")} \/ Holds(e, fs'[Nested(e)])
    BY DEF FilesOK, Holds
  <2>1. \A p \in Own(e) : fs'[p] = fs[p] \/ fs'[p] = None \/ Holds(e, fs'[p])
    <3>1. \A p \in Own(e) : p \in Paths /\ (p \in Own(item) => e = item)
      BY PathsApart DEF Own
    <3> QED BY <3>1 DEF Changes
  <2> QED BY <2>1 DEF FilesOK, Own, None
<1>2. LinkedOK'
  <2> SUFFICES ASSUME NEW e \in Entry, NEW p \in linked' \cap Own(e)
               PROVE  fs'[Src(e)].of = e /\ fs'[p].of = e
    BY DEF LinkedOK
  <2>1. CASE e = item
    BY <2>1 DEF Changes
  <2>2. CASE e # item
    <3>1. \A q \in Own(e) : q \in Paths \ Own(item)
      BY <2>2, PathsApart DEF Own
    <3>2. p \in linked /\ Src(e) \in Paths \ Own(item) /\ p \in Paths \ Own(item)
      BY <3>1 DEF Changes, Own
    <3>3. fs[Src(e)].of = e /\ fs[p].of = e
      BY <3>2 DEF LinkedOK
    <3>4. fs'[Src(e)] = fs[Src(e)] /\ fs'[p] = fs[p]
      BY <3>2 DEF Changes
    <3> QED BY <3>3, <3>4
  <2> QED BY <2>1, <2>2
<1> QED BY <1>1, <1>2

(* Writing to one of the entry's names.                                    *)
LEMMA WriteToFacts ==
  ASSUME TypeOK, FilesOK, LinkedOK, item \in Entry, NEW p \in Own(item), NEW c \in File
  PROVE  /\ WriteTo(p, c) \in [Paths -> File] /\ WriteTo(p, c)[p] = c
         /\ \A q \in Paths : WriteTo(p, c)[q] = fs[q] \/ (q \in Own(item) /\ WriteTo(p, c)[q] = c)
         /\ \A q \in Paths : q = p \/ WriteTo(p, c)[q] = fs[q] \/ fs[q].of = item
         /\ c.of = item => \A q \in linked \cap Own(item) :
              WriteTo(p, c)[Src(item)].of = item /\ WriteTo(p, c)[q].of = item
         /\ Aliases(p) = {p} => WriteTo(p, c) = [fs EXCEPT ![p] = c]
         /\ Src(item) \in Aliases(p) => WriteTo(p, c)[Src(item)] = c
<1>1. fs \in [Paths -> File] /\ p \in Paths /\ Own(item) \subseteq Paths /\ Src(item) \in Own(item)
  BY TypeFacts, PathsApart DEF Own
<1>2. /\ p \in Aliases(p) /\ Aliases(p) \subseteq Own(item)
      /\ \A q \in Aliases(p) \ {p} : q \in linked \/ (q = Src(item) /\ p \in linked)
  BY AliasesOf
<1>3. WriteTo(p, c) \in [Paths -> File]
      /\ \A q \in Paths : WriteTo(p, c)[q] = IF q \in Aliases(p) THEN c ELSE fs[q]
  BY <1>1 DEF WriteTo
<1>4. \A q \in linked \cap Own(item) : fs[Src(item)].of = item /\ fs[q].of = item
  BY DEF LinkedOK
<1>5. ASSUME Aliases(p) = {p}
      PROVE  WriteTo(p, c) = [fs EXCEPT ![p] = c]
  BY <1>1, <1>2, <1>5 DEF WriteTo
<1>6. \A q \in Aliases(p) \ {p} : fs[q].of = item
  BY <1>2, <1>4
<1> QED BY <1>1, <1>2, <1>3, <1>4, <1>5, <1>6

LEMMA LinkedFacts ==
  ASSUME TypeOK, item \in Entry, NEW p \in Own(item)
  PROVE  /\ StillLinked(p) \subseteq linked \ {p}
         /\ p = Src(item) => StillLinked(p) \cap Own(item) = {}
         /\ Src(item) \notin linked
<1>1. \A q \in Own(item) : q[2] = item
  BY DEF Own, Src, Dst, Nested
<1> QED BY <1>1, AliasesOf DEF StillLinked

(* A path of the entry is unlinked, or becomes another name of the source. *)
LEMMA LinkChanges ==
  ASSUME TypeOK, FilesOK, LinkedOK, item \in Entry, NEW p \in Own(item), NEW c \in File,
         c = None \/ Holds(item, c), fs' = [fs EXCEPT ![p] = c], Replaceable(p),
         \/ linked' = StillLinked(p)
         \/ /\ linked' = LinkedTo(p) /\ p # Src(item) /\ item \notin DirEntry
            /\ Holds(item, fs[Src(item)]) /\ Holds(item, c)
  PROVE  Changes
<1>1. fs \in [Paths -> File] /\ p \in Paths /\ Own(item) \subseteq Paths /\ Src(item) \in Own(item)
  BY TypeFacts, PathsApart DEF Own
<1>2. fs' \in [Paths -> File] /\ \A q \in Paths : fs'[q] = IF q = p THEN c ELSE fs[q]
  BY <1>1
<1>3. \A q \in linked \cap Own(item) : fs[Src(item)].of = item /\ fs[q].of = item
  BY DEF LinkedOK
<1>4. \A q \in linked' \cap Own(item) : fs'[Src(item)].of = item /\ fs'[q].of = item
  <2>1. CASE linked' = StillLinked(p)
    BY <1>1, <1>2, <1>3, <2>1, LinkedFacts
  <2>2. CASE linked' = LinkedTo(p) /\ p # Src(item) /\ Holds(item, fs[Src(item)]) /\ Holds(item, c)
    BY <1>1, <1>2, <1>3, <2>2, LinkedFacts DEF LinkedTo, Holds
  <2> QED BY <2>1, <2>2
<1>5. linked' \subseteq linked \cup (Own(item) \ {Src(item)}) /\ (item \in DirEntry => linked' \subseteq linked)
  BY LinkedFacts DEF LinkedTo
<1> QED BY <1>1, <1>2, <1>4, <1>5 DEF Changes

LEMMA WriteChanges ==
  ASSUME TypeOK, FilesOK, LinkedOK, item \in Entry, NEW p \in Own(item), NEW c \in File,
         Holds(item, c), fs' = WriteTo(p, c), linked' = linked, Replaceable(p)
  PROVE  Changes
<1>1. /\ WriteTo(p, c) \in [Paths -> File]
      /\ \A q \in Paths : WriteTo(p, c)[q] = fs[q] \/ (q \in Own(item) /\ WriteTo(p, c)[q] = c)
      /\ \A q \in Paths : q = p \/ WriteTo(p, c)[q] = fs[q] \/ fs[q].of = item
  BY WriteToFacts
<1>2. \A q \in linked \cap Own(item) : fs'[Src(item)].of = item /\ fs'[q].of = item
  BY WriteToFacts DEF Holds
<1> QED BY <1>1, <1>2 DEF Changes, Replaceable

LEMMA SameChanges ==
  ASSUME TypeOK, LinkedOK, item \in Entry, UNCHANGED <<fs, linked>>
  PROVE  Changes
<1>1. \A q \in linked \cap Own(item) : fs[Src(item)].of = item /\ fs[q].of = item
  BY DEF LinkedOK
<1> QED BY <1>1, TypeFacts DEF Changes

LEMMA WorkFacts ==
  ASSUME Inv, pc \in Transferring
  PROVE  /\ item \in Entry /\ dest \in Own(item) /\ dest \in Paths /\ Src(item) \in Paths
         /\ Src(item) \in Own(item) /\ fs[Src(item)] \in File /\ fs[dest] \in File
         /\ op \in {"COPY", "MOVE"} /\ Replaceable(dest) /\ Replaceable(Src(item))
         /\ fs[Src(item)] = None \/ Holds(item, fs[Src(item)])
         /\ Holds(item, fs[dest]) \/ fs[dest].of = 0
<1>1. item \in Entry /\ dest \in {Src(item), Dst(item), Nested(item)} /\ op \in {"COPY", "MOVE"}
  BY DEF Inv, WorkOK
<1>2. dest \in Paths /\ Src(item) \in Paths /\ dest \in Own(item) /\ Src(item) \in Own(item)
  BY <1>1, PathsApart DEF Own
<1>3. fs[Src(item)] = None \/ Holds(item, fs[Src(item)])
  BY <1>1 DEF Inv, FilesOK
<1>4. Holds(item, fs[dest]) \/ fs[dest].of = 0
  BY <1>1 DEF Inv, FilesOK, None, Old
<1>5. Replaceable(dest) /\ Replaceable(Src(item))
  BY <1>3 DEF Replaceable, Exists, None, Holds
<1>6. fs[Src(item)] \in File /\ fs[dest] \in File
  BY <1>2, TypeFacts DEF Inv
<1> QED BY <1>1, <1>2, <1>3, <1>4, <1>5, <1>6

LEMMA OpenChanges == ASSUME Inv, CopyOpen PROVE Changes
<1>1. pc \in Transferring /\ linked' = linked
  BY DEF CopyOpen, Transferring
<1>2. fs' = fs \/ fs' = WriteTo(dest, Part(item, 0))
  BY DEF CopyOpen
<1> QED BY <1>1, <1>2, WorkFacts, PartFacts, WriteChanges, SameChanges DEF Inv

LEMMA BufferChanges == ASSUME Inv, CopyBuffer PROVE Changes
<1>1. pc \in Transferring
  BY DEF CopyBuffer, Transferring
<1>2. CASE UNCHANGED <<fs, linked>>
  BY <1>1, <1>2, WorkFacts, SameChanges DEF Inv
<1>3. CASE \E r : Abandon(r)
  <2>1. linked' = StillLinked(dest) /\ (fs' = Unlinked(dest) \/ fs' = fs)
    BY <1>3 DEF Abandon
  <2>2. CASE fs' = Unlinked(dest)
    BY <1>1, <2>1, <2>2, WorkFacts, PartFacts, LinkChanges DEF Inv, Unlinked
  <2>3. CASE fs' = fs
    <3>1. linked' \subseteq linked /\ fs \in [Paths -> File]
      BY <1>1, <2>1, WorkFacts, LinkedFacts, TypeFacts DEF Inv
    <3>2. \A q \in linked \cap Own(item) : fs[Src(item)].of = item /\ fs[q].of = item
      BY <1>1, WorkFacts DEF Inv, LinkedOK
    <3> QED BY <2>3, <3>1, <3>2 DEF Changes
  <2> QED BY <2>1, <2>2, <2>3
<1>4. CASE \E k \in {0, 1} : Transferred(k)
  <2>1. PICK k \in {0, 1} : Transferred(k)
    BY <1>4
  <2>2. CASE fs[dest].kind = "special"
    BY <1>1, <2>1, <2>2, WorkFacts, SameChanges DEF Inv, Transferred
  <2>3. CASE fs[dest].kind # "special"
    <3> DEFINE c == [fs[dest] EXCEPT !.have = @ + k]
    <3>1. Holds(item, fs[dest]) /\ fs[dest] \in File
      BY <1>1, <2>3, WorkFacts DEF Inv, WritingOK, CopyBuffer
    <3>2. c \in File /\ Holds(item, c)
      BY <3>1 DEF File, Holds
    <3>3. fs' = WriteTo(dest, c) /\ linked' = linked
      BY <2>1, <2>3 DEF Transferred
    <3> HIDE DEF c
    <3> QED BY <1>1, <3>2, <3>3, WorkFacts, WriteChanges DEF Inv
  <2> QED BY <2>2, <2>3
<1> QED BY <1>2, <1>3, <1>4 DEF CopyBuffer

LEMMA LinkStepChanges == ASSUME Inv, MoveLink PROVE Changes
<1>1. pc \in Transferring /\ item \notin DirEntry /\ Exists(Src(item))
  BY DEF MoveLink, Transferring, Inv, WorkOK, SourceOK
<1>2. CASE UNCHANGED <<fs, linked>>
  BY <1>1, <1>2, WorkFacts, SameChanges DEF Inv
<1>3. CASE fs' = [fs EXCEPT ![dest] = fs[Src(item)]] /\ linked' = LinkedTo(dest) /\ dest # Src(item)
  <2>1. Holds(item, fs[Src(item)])
    BY <1>1, WorkFacts DEF Exists, None
  <2> QED BY <1>1, <1>3, <2>1, WorkFacts, LinkChanges DEF Inv
<1>4. CASE fs' = Unlinked(dest) /\ linked' = StillLinked(dest)
  BY <1>1, <1>4, WorkFacts, PartFacts, LinkChanges DEF Inv, Unlinked
<1> QED BY <1>2, <1>3, <1>4 DEF MoveLink

LEMMA UnlinkChanges == ASSUME Inv, MoveUnlink PROVE Changes
<1>1. pc \in Transferring
  BY DEF MoveUnlink, Transferring
<1>2. CASE UNCHANGED <<fs, linked>>
  BY <1>1, <1>2, WorkFacts, SameChanges DEF Inv
<1>3. CASE fs' = Unlinked(Src(item)) /\ linked' = StillLinked(Src(item))
  BY <1>1, <1>3, WorkFacts, PartFacts, LinkChanges DEF Inv, Unlinked
<1> QED BY <1>2, <1>3 DEF MoveUnlink

LEMMA DeleteChanges == ASSUME Inv, Delete PROVE Changes
<1>1. /\ item \in Entry /\ Src(item) \in Own(item) /\ Src(item) \in Paths /\ fs[Src(item)] \in File
      /\ fs[Src(item)] = None \/ Holds(item, fs[Src(item)])
  BY PathsApart, TypeFacts DEF Delete, Inv, WorkOK, FilesOK, Own
<1>2. Replaceable(Src(item))
  BY <1>1 DEF Replaceable, Holds, Exists, None
<1>3. CASE UNCHANGED <<fs, linked>>
  BY <1>1, <1>3, SameChanges DEF Inv
<1>4. CASE fs' = Unlinked(Src(item)) /\ linked' = StillLinked(Src(item))
  BY <1>1, <1>2, <1>4, PartFacts, LinkChanges DEF Inv, Unlinked
<1>5. CASE /\ item \in DirEntry /\ fs[Src(item)].have > 0 /\ UNCHANGED linked
           /\ \E k \in 0 .. fs[Src(item)].have : fs' = [fs EXCEPT ![Src(item)].have = k]
  <2>1. PICK k \in 0 .. fs[Src(item)].have : fs' = [fs EXCEPT ![Src(item)].have = k]
    BY <1>5
  <2> DEFINE c == [fs[Src(item)] EXCEPT !.have = k]
  <2>2. k \in Nat /\ Holds(item, fs[Src(item)])
    BY <1>1, <1>5 DEF File, None
  <2>3. c \in File /\ Holds(item, c)
    BY <1>1, <2>2 DEF File, Holds
  <2>4. fs' = [fs EXCEPT ![Src(item)] = c]
    BY <2>1
  <2>5. Aliases(Src(item)) = {Src(item)}
    BY <1>1, <1>5, AliasesOf DEF Inv
  <2> HIDE DEF c
  <2>6. fs' = WriteTo(Src(item), c)
    BY <1>1, <2>3, <2>4, <2>5, WriteToFacts DEF Inv
  <2> QED BY <1>1, <1>2, <1>5, <2>3, <2>6, WriteChanges DEF Inv
<1> QED BY <1>3, <1>4, <1>5 DEF Delete

(* A child writes the destination and may take the source.                 *)
LEMMA ChildWrites ==
  ASSUME Inv, pc \in Transferring, item \in DirEntry, NEW c \in File, Holds(item, c),
         NEW d \in File, d = None \/ Holds(item, d), UNCHANGED linked,
         fs' = WriteTo(dest, c) \/ fs' = [WriteTo(dest, c) EXCEPT ![Src(item)] = d]
  PROVE  Changes
<1>1. Aliases(dest) = {dest} /\ linked \cap Own(item) = {}
  BY AliasesOf, WorkFacts DEF Inv
<1>2. CASE fs' = WriteTo(dest, c)
  BY <1>2, WorkFacts, WriteChanges DEF Inv
<1>3. CASE fs' = [WriteTo(dest, c) EXCEPT ![Src(item)] = d]
  <2>1. /\ WriteTo(dest, c) = [fs EXCEPT ![dest] = c] /\ fs \in [Paths -> File]
        /\ dest \in Paths /\ Src(item) \in Paths
    BY <1>1, WorkFacts, WriteToFacts, TypeFacts DEF Inv
  <2>2. \A p \in Paths : fs'[p] = IF p = Src(item) THEN d ELSE IF p = dest THEN c ELSE fs[p]
    BY <1>3, <2>1
  <2>3. fs' \in [Paths -> File]
    BY <1>3, <2>1
  <2> QED BY <1>1, <2>2, <2>3, WorkFacts DEF Changes
<1> QED BY <1>2, <1>3

LEMMA ChildChanges == ASSUME Inv, ChildRuns PROVE Changes
<1> DEFINE k == fs[Src(item)].have
<1>1. pc \in Transferring /\ item \in DirEntry /\ UNCHANGED linked
  BY DEF ChildRuns, Transferring
<1>2. k \in Nat /\ fs[dest].have \in Nat /\ fs[Src(item)] \in File /\ None \in File /\ item \in Entry
  BY <1>1, WorkFacts, PartFacts DEF File
<1>3. ASSUME NEW j \in Nat
      PROVE  Merged(j) \in File /\ Holds(item, Merged(j))
  BY <1>2, <1>3, MaxOfTwo, PartFacts DEF Merged
<1>4. ASSUME NEW j \in Nat, fs' = WriteTo(dest, Merged(j))
      PROVE  Changes
  BY <1>1, <1>2, <1>3, <1>4, ChildWrites
<1>5. ASSUME NEW d \in File, d = None \/ Holds(item, d), MoveTo(fs[Src(item)], d)
      PROVE  Changes
  <2>1. Holds(item, fs[Src(item)])
    BY <1>1, WorkFacts DEF Inv, SourceOK, Exists, None
  <2> QED BY <1>1, <1>2, <1>5, <2>1, ChildWrites DEF MoveTo
<1>6. CASE UNCHANGED fs
  BY <1>1, <1>2, <1>6, SameChanges DEF Inv
<1>7. ASSUME NEW j \in 0 .. k, MoveTo(fs[Src(item)], Part(item, j)) \/ MoveTo(fs[Src(item)], None)
      PROVE  Changes
  BY <1>2, <1>5, <1>7, PartFacts
<1> QED BY <1>2, <1>4, <1>6, <1>7 DEF ChildRuns

-----------------------------------------------------------------------------
(* The invariant is kept, whatever the environment does.                   *)

(* The work on an entry goes on, or ends with a result.                    *)
LEMMA WorkStep ==
  ASSUME Inv, pc \in Transferring \cup {"delete"}, Changes,
         UNCHANGED <<sameDev, selected, control, chkdest, ops, consent>>,
         attack' \in BOOLEAN, n' \in Nat, res' \in Results,
         spoiled' \subseteq Entry \ DirEntry, pc' \in {"loop", "unlink", "ret"},
         pc' # "ret" => pc \in Transferring /\ item \notin DirEntry,
         pc' = "unlink" => op = "MOVE",
         pc' = "loop" => WritingOK',
         pc' # "ret" => Exists(Src(item))',
         pc' = "ret" /\ multi => Exists(Src(item))' \/ res' = "OK"
  PROVE  Inv'
<1>1. /\ op' = op /\ multi' = multi /\ item' = item /\ input' = input /\ dest' = dest
      /\ keepAsking' = keepAsking /\ sameDev' = sameDev /\ selected' = selected
      /\ chkdest' = chkdest /\ ops' = ops /\ consent' = consent
  BY DEF control
<1>2. item \in Entry
  BY DEF Inv, WorkOK
<1>3. TypeOK'
  <2>1. linked' \subseteq UNION {{Dst(e), Nested(e)} : e \in Entry \ DirEntry}
    <3>1. item \notin DirEntry => Dst(item) \in UNION {{Dst(e), Nested(e)} : e \in Entry \ DirEntry}
                                /\ Nested(item) \in UNION {{Dst(e), Nested(e)} : e \in Entry \ DirEntry}
      BY <1>2
    <3> QED BY <3>1 DEF Inv, TypeOK, Changes, Own
  <2> QED BY <1>1, <2>1 DEF Inv, TypeOK, Changes, File, PCs
<1>4. WorkOK'
  BY <1>1 DEF Inv, WorkOK, Transferring
<1>5. FilesOK' /\ LinkedOK'
  BY <1>2, ChangesKeep DEF Inv
<1>6. WritingOK'
  BY DEF WritingOK
<1>7. AskedOK'
  <2>1. pc' \in Transferring => pc \in Transferring
    BY DEF Transferring
  <2>2. ASSUME pc \in Transferring, Exists(dest)', fs'[dest].of = 0
        PROVE  dest \in consent
    <3>1. fs'[dest] = fs[dest]
      <4>1. item # 0 /\ dest \in Paths
        BY <2>2, WorkFacts, FileOpsAssumption
      <4>2. fs'[dest].kind # "none"
        BY <1>1, <2>2 DEF Exists
      <4>3. fs'[dest] = fs[dest] \/ fs'[dest] = None \/ Holds(item, fs'[dest])
        BY <4>1 DEF Changes
      <4> QED BY <2>2, <4>1, <4>2, <4>3 DEF None, Holds
    <3> QED BY <1>1, <2>2, <3>1 DEF Inv, AskedOK, Exists
  <2> QED BY <1>1, <2>1, <2>2 DEF Inv, AskedOK, Exists
<1>8. SourceOK'
  <2>1. ASSUME NEW e \in selected, e # item
        PROVE  fs'[Src(e)] = fs[Src(e)]
    <3>1. e \in Entry /\ Src(e) \in Paths /\ Src(e) \notin Own(item)
      BY <1>2, <2>1, TypeFacts, PathsApart DEF Inv, Own
    <3> QED BY <3>1 DEF Changes
  <2>2. \A e \in selected : Exists(Src(e)) \/ e = item
    BY DEF Inv, SourceOK
  <2>3. op # "none" /\ (~multi => selected = {})
    BY DEF Inv, WorkOK, SourceOK, Transferring
  <2> QED BY <1>1, <2>1, <2>2, <2>3 DEF Inv, SourceOK, Exists, Transferring
<1> QED BY <1>3, <1>4, <1>5, <1>6, <1>7, <1>8 DEF Inv

LEMMA OpenStep == ASSUME Inv, CopyOpen PROVE Inv'
<1>1. pc = "open" /\ pc \in Transferring /\ item \in Entry /\ item \notin DirEntry
      /\ UNCHANGED <<linked, sameDev, selected, attack, control, chkdest, ops, consent>>
  BY DEF CopyOpen, Transferring, Inv, WorkOK
<1>2. Changes
  BY OpenChanges
<1>3. /\ n' \in Nat /\ res' \in Results /\ pc' \in {"loop", "unlink", "ret"}
      /\ pc' = "unlink" => op = "MOVE"
  BY DEF CopyOpen, Return, CopyReturn, Inv, TypeOK, Results
<1>4. Exists(Src(item))'
  <2>1. Exists(Src(item))
    BY <1>1 DEF Inv, SourceOK
  <2>2. \A q \in Paths : fs'[q] = fs[q] \/ fs'[q] = Part(item, 0)
    <3>1. Part(item, 0) \in File
      BY <1>1, PartFacts
    <3>2. fs' = fs \/ fs' = WriteTo(dest, Part(item, 0))
      BY DEF CopyOpen
    <3>3. dest \in Own(item)
      BY <1>1, WorkFacts
    <3>4. \A q \in Paths : WriteTo(dest, Part(item, 0))[q] \in {fs[q], Part(item, 0)}
      BY <1>1, <3>1, <3>3, WriteToFacts DEF Inv
    <3> QED BY <3>2, <3>4
  <2>3. Part(item, 0).kind # "none" /\ Src(item) \in Paths /\ item' = item
    BY <1>1, WorkFacts, PartFacts DEF control
  <2> QED BY <2>1, <2>2, <2>3 DEF Exists
<1>5. ASSUME pc' = "loop" PROVE WritingOK'
  <2>1. dest' = dest /\ item' = item
    BY <1>1 DEF control
  <2>2. (fs[dest].kind = "special" /\ fs' = fs) \/ fs' = WriteTo(dest, Part(item, 0))
    BY <1>5 DEF CopyOpen, Return
  <2>3. (fs[dest].kind = "special" /\ fs'[dest] = fs[dest]) \/ fs'[dest] = Part(item, 0)
    BY <1>1, <2>2, WorkFacts, PartFacts, WriteToFacts DEF Inv
  <2> QED BY <1>1, <2>1, <2>3, PartFacts DEF WritingOK, Holds
<1>6. attack' \in BOOLEAN /\ spoiled' \subseteq Entry \ DirEntry
  BY <1>1 DEF Inv, TypeOK, CopyOpen
<1>7. item' = item
  BY <1>1 DEF control
<1> QED BY <1>1, <1>2, <1>3, <1>4, <1>5, <1>6, <1>7, WorkStep

LEMMA BufferStep == ASSUME Inv, CopyBuffer PROVE Inv'
<1>1. pc = "loop" /\ pc \in Transferring /\ item \in Entry /\ item \notin DirEntry
      /\ UNCHANGED <<sameDev, selected, control, chkdest, ops, consent>>
      /\ spoiled' \subseteq Entry \ DirEntry
  BY DEF CopyBuffer, Transferring, Inv, WorkOK, TypeOK
<1>2. Changes
  BY BufferChanges
<1>3. /\ attack' \in BOOLEAN /\ n' \in Nat /\ res' \in Results /\ pc' \in {"loop", "unlink", "ret"}
      /\ pc' = "unlink" => op = "MOVE"
  <2>1. attack \in BOOLEAN /\ n \in Nat /\ res \in Results
    BY DEF Inv, TypeOK
  <2>2. attack' \in BOOLEAN
    BY <2>1 DEF CopyBuffer, Canceled, NotCanceled, Transferred
  <2>3. n' \in Nat
    BY <2>1 DEF CopyBuffer, Abandon, Transferred
  <2>4. /\ res' \in Results /\ pc' \in {"loop", "unlink", "ret"}
        /\ pc' = "unlink" => op = "MOVE"
    BY <1>1, <2>1 DEF CopyBuffer, Return, CopyReturn, Abandon, Transferred, Results
  <2> QED BY <2>2, <2>3, <2>4
<1>4. dest' = dest /\ item' = item
  BY <1>1 DEF control
<1>5. Exists(Src(item)) /\ Src(item) \in Paths
  BY <1>1, WorkFacts DEF Inv, SourceOK
<1>6. CASE pc' \in {"loop", "unlink"} \/ UNCHANGED fs
  <2>1. fs' = fs \/ (fs[dest].kind # "special" /\
                     \E k \in {0, 1} : fs' = WriteTo(dest, [fs[dest] EXCEPT !.have = @ + k]))
    BY <1>1, <1>6 DEF CopyBuffer, Abandon, Return, Transferred
  <2>2. CASE fs' = fs
    BY <1>1, <1>2, <1>3, <1>4, <1>5, <2>2, WorkStep DEF WritingOK, Exists, Inv
  <2>3. CASE fs[dest].kind # "special" /\
             \E k \in {0, 1} : fs' = WriteTo(dest, [fs[dest] EXCEPT !.have = @ + k])
    <3>1. Holds(item, fs[dest]) /\ fs[dest] \in File
      BY <1>1, <2>3, WorkFacts DEF Inv, WritingOK
    <3>2. PICK c \in File : Holds(item, c) /\ fs' = WriteTo(dest, c)
      <4>1. PICK k \in {0, 1} : fs' = WriteTo(dest, [fs[dest] EXCEPT !.have = @ + k])
        BY <2>3
      <4>2. [fs[dest] EXCEPT !.have = @ + k] \in File /\ Holds(item, [fs[dest] EXCEPT !.have = @ + k])
        BY <3>1 DEF File, Holds
      <4> QED BY <4>1, <4>2
    <3>3. fs'[dest] = c /\ \A q \in Paths : fs'[q] = fs[q] \/ fs'[q] = c
      BY <1>1, <3>2, WorkFacts, WriteToFacts DEF Inv
    <3>4. Exists(Src(item))'
      BY <1>1, <1>4, <1>5, <3>2, <3>3, PartFacts DEF Exists, Holds
    <3>5. WritingOK'
      BY <1>4, <3>2, <3>3 DEF WritingOK, Holds
    <3> QED BY <1>1, <1>2, <1>3, <1>4, <3>4, <3>5, WorkStep
  <2> QED BY <2>1, <2>2, <2>3
<1>7. CASE pc' = "ret" /\ \E r : Abandon(r)
  <2>1. \A q \in Paths : q # dest => fs'[q] = fs[q]
    BY <1>1, <1>7, WorkFacts, TypeFacts DEF Abandon, Unlinked, Inv
  <2>2. multi => Exists(Src(item))'
    BY <1>1, <1>4, <1>5, <2>1 DEF Inv, WorkOK, Exists
  <2> QED BY <1>1, <1>2, <1>3, <1>4, <1>7, <2>2, WorkStep
<1> QED BY <1>3, <1>6, <1>7 DEF CopyBuffer, Transferred

LEMMA LinkStep == ASSUME Inv, MoveLink PROVE Inv'
<1>1. pc = "link" /\ pc \in Transferring /\ item \in Entry /\ item \notin DirEntry /\ op = "MOVE"
      /\ UNCHANGED <<sameDev, selected, attack, control, chkdest, n, ops, consent>>
      /\ spoiled' \subseteq Entry \ DirEntry
  BY DEF MoveLink, Transferring, Inv, WorkOK, TypeOK
<1>2. Changes
  BY LinkStepChanges
<1>3. attack' \in BOOLEAN /\ n' \in Nat /\ res' \in Results /\ pc' \in {"unlink", "ret"}
  BY <1>1 DEF MoveLink, Return, LinkFailed, Inv, TypeOK, Results
<1>4. dest' = dest /\ item' = item
  BY <1>1 DEF control
<1>5. Exists(Src(item)) /\ Src(item) \in Paths
  BY <1>1, WorkFacts DEF Inv, SourceOK
<1>6. \A q \in Paths : q # dest => fs'[q] = fs[q]
  BY <1>1, WorkFacts, TypeFacts DEF MoveLink, Unlinked, Inv
<1>7. pc' = "unlink" => Exists(Src(item))'
  <2>1. CASE dest # Src(item)
    BY <1>4, <1>5, <1>6, <2>1 DEF Exists
  <2>2. CASE dest = Src(item)
    BY <1>4, <1>5, <2>2 DEF MoveLink, LinkFailed, Return, Exists
  <2> QED BY <2>1, <2>2
<1>8. multi => Exists(Src(item))'
  BY <1>1, <1>4, <1>5, <1>6 DEF Inv, WorkOK, Exists
<1> QED BY <1>1, <1>2, <1>3, <1>4, <1>7, <1>8, WorkStep

LEMMA UnlinkStep == ASSUME Inv, MoveUnlink PROVE Inv'
<1>1. pc = "unlink" /\ pc \in Transferring /\ item \in Entry
      /\ UNCHANGED <<sameDev, selected, attack, control, chkdest, n, ops, consent>>
      /\ spoiled' \subseteq Entry \ DirEntry
  BY DEF MoveUnlink, Transferring, Inv, WorkOK, TypeOK
<1>2. Changes
  BY UnlinkChanges
<1>3. attack' \in BOOLEAN /\ n' \in Nat /\ res' \in Results /\ pc' = "ret"
  BY <1>1 DEF MoveUnlink, Return, Inv, TypeOK, Results
<1>4. item' = item
  BY <1>1 DEF control
<1>5. Exists(Src(item))' \/ res' = "OK"
  BY <1>1, <1>4 DEF MoveUnlink, Return, Inv, SourceOK, Exists
<1> QED BY <1>1, <1>2, <1>3, <1>4, <1>5, WorkStep

LEMMA DeleteStep == ASSUME Inv, Delete PROVE Inv'
<1>1. pc = "delete" /\ item \in Entry
      /\ UNCHANGED <<sameDev, selected, attack, control, chkdest, n, ops, consent>>
      /\ spoiled' \subseteq Entry \ DirEntry
  BY DEF Delete, Transferring, Inv, WorkOK, TypeOK
<1>2. Changes
  BY DeleteChanges
<1>3. attack' \in BOOLEAN /\ n' \in Nat /\ res' \in Results /\ pc' = "ret"
  BY <1>1 DEF Delete, Return, Inv, TypeOK, Results
<1>4. item' = item /\ Src(item) \in Paths /\ fs \in [Paths -> File]
  BY <1>1, PathsApart, TypeFacts DEF control, Own, Inv
<1>5. Exists(Src(item))' \/ res' = "OK"
  <2>1. Exists(Src(item)) /\ fs[Src(item)] \in File
    BY <1>1, <1>4 DEF Inv, SourceOK
  <2>2. CASE UNCHANGED fs \/ res' = "OK"
    BY <1>4, <2>1, <2>2 DEF Exists
  <2>3. CASE \E k \in 0 .. fs[Src(item)].have : fs' = [fs EXCEPT ![Src(item)].have = k]
    <3>1. fs'[Src(item)].kind = fs[Src(item)].kind
      BY <1>4, <2>1, <2>3 DEF File
    <3> QED BY <1>4, <2>1, <3>1 DEF Exists
  <2> QED BY <2>2, <2>3 DEF Delete, Return
<1> QED BY <1>1, <1>2, <1>3, <1>4, <1>5, WorkStep

LEMMA ChildStep == ASSUME Inv, ChildRuns PROVE Inv'
<1>1. pc = "go" /\ pc \in Transferring /\ item \in Entry /\ item \in DirEntry
      /\ UNCHANGED <<linked, sameDev, selected, attack, control, chkdest, n, ops, consent>>
      /\ spoiled' \subseteq Entry \ DirEntry
  BY DEF ChildRuns, Transferring, Inv, WorkOK, TypeOK
<1>2. Changes
  BY ChildChanges
<1>3. attack' \in BOOLEAN /\ n' \in Nat /\ res' \in Results /\ pc' = "ret"
  BY <1>1 DEF ChildRuns, Return, Inv, TypeOK, Results
<1>4. item' = item /\ Src(item) \in Paths /\ fs \in [Paths -> File]
  BY <1>1, PathsApart, TypeFacts DEF control, Own, Inv
<1>5. ASSUME res' # "OK" PROVE Exists(Src(item))'
  <2>1. Exists(Src(item)) /\ fs[Src(item)] \in File /\ fs[Src(item)].have \in Nat
    BY <1>1, <1>4 DEF Inv, SourceOK, File
  <2>2. \A j \in Nat : Merged(j) \in File /\ Merged(j).kind # "none"
    <3>1. fs[dest].have \in Nat
      BY <1>1, WorkFacts DEF File
    <3> QED BY <1>1, <3>1, MaxOfTwo, PartFacts DEF Merged
  <2>3. CASE fs' = fs
    BY <1>4, <2>1, <2>3 DEF Exists
  <2>4. ASSUME NEW j \in 0 .. fs[Src(item)].have, fs' = WriteTo(dest, Merged(j))
        PROVE  Exists(Src(item))'
    <3>1. fs'[Src(item)] = fs[Src(item)] \/ fs'[Src(item)] = Merged(j)
      BY <1>1, <1>4, <2>1, <2>2, <2>4, WorkFacts, WriteToFacts DEF Inv
    <3> QED BY <1>4, <2>1, <2>2, <3>1 DEF Exists
  <2>5. ASSUME NEW j \in 0 .. fs[Src(item)].have, MoveTo(fs[Src(item)], Part(item, j))
        PROVE  Exists(Src(item))'
    <3>1. WriteTo(dest, fs[Src(item)]) \in [Paths -> File]
      BY <1>1, <2>1, WorkFacts, WriteToFacts DEF Inv
    <3>2. fs'[Src(item)] = Part(item, j)
      BY <1>4, <2>5, <3>1 DEF MoveTo
    <3> QED BY <1>1, <1>4, <2>1, <3>2, PartFacts DEF Exists
  <2> QED BY <1>5, <2>3, <2>4, <2>5 DEF ChildRuns, Return
<1> QED BY <1>1, <1>2, <1>3, <1>4, <1>5, WorkStep

(* The steps that leave the files alone.                                   *)
LEMMA QuietStep ==
  ASSUME Inv, UNCHANGED <<fs, linked>>, TypeOK', WorkOK', WritingOK', AskedOK', SourceOK'
  PROVE  Inv'
<1>1. FilesOK' /\ LinkedOK'
  BY DEF Inv, FilesOK, LinkedOK, Holds
<1> QED BY <1>1 DEF Inv

LEMMA ToggleStep == ASSUME Inv, NEW e \in Entry, Toggle(e) PROVE Inv'
<1>1. /\ pc = "idle" /\ Exists(Src(e)) /\ selected' = (selected \ {e}) \cup ({e} \ selected)
      /\ UNCHANGED <<fs, linked, sameDev, attack, op, multi, item, input, dest, keepAsking,
                     chkdest, n, res, pc, ops, consent, spoiled>>
  BY DEF Toggle, Idle, control
<1>2. op = "none"
  BY <1>1 DEF Inv, WorkOK
<1>3. TypeOK'
  BY <1>1 DEF Inv, TypeOK
<1>4. WorkOK' /\ WritingOK' /\ AskedOK'
  BY <1>1, <1>2 DEF Inv, WorkOK, WritingOK, AskedOK, Transferring
<1>5. SourceOK'
  BY <1>1, <1>2 DEF Inv, SourceOK, Exists, Transferring
<1> QED BY <1>1, <1>3, <1>4, <1>5, QuietStep

LEMMA BeginFacts ==
  ASSUME Inv, NEW o \in {"COPY", "MOVE", "DELETE"}, Begin(o)
  PROVE  /\ pc = "idle" /\ op' = o /\ attack' = FALSE /\ keepAsking' = TRUE /\ n' = 0 /\ res' = "OK"
         /\ dest' = <<>> /\ consent' = {} /\ chkdest' \in BOOLEAN /\ ops' \in 0 .. MaxOps
         /\ o # "DELETE" => chkdest' = TRUE
         /\ UNCHANGED <<fs, linked, sameDev, selected, spoiled>>
         /\ \A e \in selected : Exists(Src(e))
         /\ fs \in [Paths -> File] /\ selected \subseteq Entry
         /\ linked \subseteq UNION {{Dst(e), Nested(e)} : e \in Entry \ DirEntry}
         /\ sameDev \in BOOLEAN /\ spoiled \subseteq Entry \ DirEntry
<1>1. ops' \in 0 .. MaxOps
  <2>1. ops \in 0 .. MaxOps /\ ops < MaxOps /\ ops' = ops + 1 /\ MaxOps \in Nat
    BY FileOpsAssumption DEF Begin, Idle, Inv, TypeOK
  <2> QED BY <2>1
<1> QED BY <1>1 DEF Begin, Idle, FreshChkdest, Inv, TypeOK, SourceOK, File

LEMMA BeginStep ==
  ASSUME Inv, NEW o \in {"COPY", "MOVE", "DELETE"}, Begin(o),
         multi' \in BOOLEAN, item' \in Entry \cup {0}, pc' \in {"pick", "file", "done"},
         input' \in Paths \cup {DstDir, SrcDir, <<>>},
         pc' = "file" => /\ item' \in Entry /\ ~multi' /\ Exists(Src(item'))
                         /\ o # "DELETE" => input' \in {Dst(item'), DstDir, SrcDir},
         ~multi' => selected = {}
  PROVE  Inv'
<1>1. TypeOK'
  <2>1. /\ fs' \in [Paths -> File] /\ selected' \subseteq Entry /\ spoiled' \subseteq Entry \ DirEntry
        /\ linked' \subseteq UNION {{Dst(e), Nested(e)} : e \in Entry \ DirEntry}
        /\ sameDev' \in BOOLEAN /\ attack' \in BOOLEAN /\ chkdest' \in BOOLEAN
        /\ keepAsking' \in BOOLEAN /\ op' \in {"none", "COPY", "MOVE", "DELETE"}
    BY BeginFacts
  <2>2. dest' = <<>> /\ n' \in Nat /\ res' \in Results /\ pc' \in PCs /\ ops' \in 0 .. MaxOps
        /\ consent' \subseteq Paths
    <3>1. dest' = <<>> /\ n' = 0 /\ res' = "OK" /\ ops' \in 0 .. MaxOps /\ consent' = {}
      BY BeginFacts
    <3> QED BY <3>1 DEF Results, PCs
  <2> QED BY <2>1, <2>2 DEF TypeOK, File
<1>2. WorkOK' /\ WritingOK'
  BY BeginFacts DEF WorkOK, WritingOK, Transferring
<1>3. AskedOK'
  BY BeginFacts DEF AskedOK, Transferring
<1>4. SourceOK'
  BY BeginFacts DEF SourceOK, Transferring, Exists
<1> QED BY <1>1, <1>2, <1>3, <1>4, BeginFacts, QuietStep

LEMMA BeginOneStep ==
  ASSUME Inv, NEW o \in {"COPY", "MOVE"}, NEW e \in Entry, NEW in \in Inputs(e), BeginOne(o, e, in)
  PROVE  Inv'
<1>1. in \in {Dst(e), DstDir, Src(e), SrcDir} /\ in \in Paths \cup {DstDir, SrcDir}
  BY PathsApart DEF Inputs, Own
<1>2. pc' = "file" => in # Src(e)
  BY DEF BeginOne, SameFile
<1> QED BY <1>1, <1>2, BeginStep DEF BeginOne

LEMMA BeginManyStep ==
  ASSUME Inv, NEW o \in {"COPY", "MOVE"}, NEW dir, BeginMany(o, dir)
  PROVE  Inv'
BY BeginStep DEF BeginMany

LEMMA BeginDeleteStep == ASSUME Inv, NEW e \in Entry, BeginDelete(e) PROVE Inv'
BY BeginStep DEF BeginDelete

LEMMA PickStep == ASSUME Inv, PickNext PROVE Inv'
<1>1. /\ pc = "pick" /\ pc' \in {"done", "file"} /\ attack' \in BOOLEAN
      /\ UNCHANGED <<fs, linked, sameDev, selected, op, multi, dest, keepAsking, chkdest, n, res,
                     ops, consent, spoiled>>
  BY DEF PickNext, Canceled, NotCanceled, Inv, TypeOK
<1>2. Remaining # {} => Picked \in selected /\ Picked \in Entry
  <2>1. Remaining \in SUBSET Nat /\ Remaining \subseteq selected /\ selected \subseteq Entry
    BY TypeFacts DEF Inv, Remaining
  <2> QED BY <2>1, MinIsLeast DEF Picked
<1>3. /\ pc' = "file" => item' \in selected /\ item' \in Entry
                         /\ input' = IF op = "DELETE" THEN <<>> ELSE Dst(item')
  BY <1>2 DEF PickNext, Inv
<1>8. item' \in Entry \cup {0} /\ input' \in Paths \cup {SrcDir, DstDir, <<>>}
  <2>1. item \in Entry \cup {0} /\ input \in Paths \cup {SrcDir, DstDir, <<>>}
    BY DEF Inv, TypeOK
  <2> QED BY <1>2, <1>3, <2>1, PathsApart DEF PickNext, Own
<1>4. op # "none" /\ \A e \in selected : Exists(Src(e))
  BY <1>1 DEF Inv, WorkOK, SourceOK
<1>5. TypeOK'
  BY <1>1, <1>8 DEF Inv, TypeOK, PCs
<1>6. WorkOK' /\ WritingOK' /\ AskedOK'
  BY <1>1, <1>3, <1>4 DEF Inv, WorkOK, WritingOK, AskedOK, Transferring
<1>7. SourceOK'
  BY <1>1, <1>3, <1>4 DEF Inv, SourceOK, Exists, Transferring
<1> QED BY <1>1, <1>5, <1>6, <1>7, QuietStep

(* The questions before a copy or a move.                                  *)
LEMMA ResolvedFacts ==
  ASSUME Inv, item \in Entry
  PROVE  /\ Resolve(Dst(item), item) \in {Dst(item), Nested(item)}
         /\ Resolve(DstDir, item) = Dst(item) /\ Resolve(SrcDir, item) = Src(item)
         /\ item \notin DirEntry =>
              /\ Resolve(Src(item), item) = Src(item) /\ Resolve(Nested(item), item) = Nested(item)
<1>1. /\ Src(item) \in Paths /\ Nested(item) \in Paths /\ Dst(item) \in Paths
      /\ SrcDir \notin Paths /\ DstDir \notin Paths
  BY PathsApart DEF Own
<1>2. item \notin DirEntry => fs[Src(item)].kind # "dir" /\ fs[Nested(item)].kind # "dir"
  BY DEF Inv, FilesOK, Holds, Kind, None, Old
<1> QED BY <1>1, <1>2, Appended DEF Resolve, IsDir

LEMMA AskFacts ==
  ASSUME Inv, NEW p \in Paths, NEW next, Ask(p, next), op \in {"COPY", "MOVE"}, pc # "idle"
  PROVE  /\ chkdest' \in BOOLEAN /\ consent' \subseteq Paths /\ res' \in Results
         /\ pc' = next \/ (pc' = "ret" /\ res' \in {"CANCEL", "SKIP"})
         /\ ~chkdest' => consent' = Paths
         /\ pc' = next /\ Exists(p) /\ next # "ret" => p \in consent'
<1>1. chkdest \in BOOLEAN /\ consent \subseteq Paths /\ res \in Results /\ (~chkdest => consent = Paths)
  BY DEF Inv, TypeOK, AskedOK
<1> QED BY <1>1 DEF Ask, Return, Results

LEMMA AskStep ==
  ASSUME Inv, pc \in {"file", "again"}, op \in {"COPY", "MOVE"},
         NEW next \in {"go", "open"}, next = "open" => item \notin DirEntry,
         dest' \in Own(item), multi => dest' # Src(item),
         \/ Ask(dest', next)
         \/ pc' = "ret" /\ res' = "INVAL" /\ UNCHANGED <<chkdest, consent>>,
         UNCHANGED <<fs, linked, sameDev, selected, attack, op, multi, item, input, keepAsking, n, ops, spoiled>>
  PROVE  Inv'
<1>1. /\ chkdest' \in BOOLEAN /\ consent' \subseteq Paths /\ res' \in Results /\ dest' \in Paths
      /\ pc' = next \/ (pc' = "ret" /\ res' # "OK")
      /\ ~chkdest' => consent' = Paths
      /\ pc' = next /\ Exists(dest') => dest' \in consent'
  <2>1. dest' \in Paths /\ item \in Entry
    BY PathsApart DEF Inv, WorkOK, Transferring
  <2>2. CASE Ask(dest', next)
    BY <2>1, <2>2, AskFacts
  <2>3. CASE pc' = "ret" /\ res' = "INVAL" /\ UNCHANGED <<chkdest, consent>>
    BY <2>1, <2>3 DEF Inv, TypeOK, AskedOK, Results
  <2> QED BY <2>2, <2>3
<1>2. TypeOK'
  BY <1>1 DEF Inv, TypeOK, PCs
<1>3. WorkOK' /\ WritingOK'
  BY <1>1 DEF Inv, WorkOK, WritingOK, Transferring, Own
<1>4. AskedOK'
  BY <1>1 DEF Inv, AskedOK, Exists, Transferring
<1>5. SourceOK'
  BY <1>1 DEF Inv, SourceOK, Exists, Transferring
<1> QED BY <1>2, <1>3, <1>4, <1>5, QuietStep

LEMMA TargetStep == ASSUME Inv, Target PROVE Inv'
<1>1. item \in Entry /\ op \in {"COPY", "MOVE"} /\ input \in {Dst(item), DstDir, SrcDir}
      /\ (multi => input = Dst(item))
  BY DEF Target, Inv, WorkOK
<1>2. Resolve(input, item) \in Own(item) /\ (multi => Resolve(input, item) # Src(item))
  BY <1>1, ResolvedFacts, PathsApart DEF Own
<1> QED BY <1>1, <1>2, AskStep DEF Target, Return

LEMMA AgainStep == ASSUME Inv, CopyPrologueAgain PROVE Inv'
<1>1. item \in Entry /\ op = "MOVE" /\ dest \in Own(item) /\ item \notin DirEntry
      /\ (multi => dest # Src(item))
  BY DEF CopyPrologueAgain, Inv, WorkOK, Transferring, Own
<1>2. Resolve(dest, item) \in Own(item) /\ (multi => Resolve(dest, item) # Src(item))
  BY <1>1, ResolvedFacts, PathsApart DEF Own
<1> QED BY <1>1, <1>2, AskStep DEF CopyPrologueAgain

LEMMA DispatchStep == ASSUME Inv, Dispatch PROVE Inv'
<1>1. /\ pc = "go" /\ item \notin DirEntry /\ item \in Entry /\ op \in {"COPY", "MOVE"}
      /\ UNCHANGED <<fs, linked, sameDev, selected, attack, op, multi, item, input, dest,
                     keepAsking, chkdest, n, ops, consent, spoiled>>
      /\ pc' \in {"open", "link", "again", "ret"} /\ res' \in Results
      /\ pc' = "ret" => res' = "FAILED"
      /\ pc' \in {"link", "again"} => op = "MOVE"
  BY DEF Dispatch, Return, control, Inv, WorkOK, TypeOK, Results, Transferring
<1>2. TypeOK'
  BY <1>1 DEF Inv, TypeOK, PCs
<1>3. WorkOK' /\ WritingOK' /\ AskedOK'
  BY <1>1 DEF Inv, WorkOK, WritingOK, AskedOK, Exists, Transferring
<1>4. SourceOK'
  BY <1>1 DEF Inv, SourceOK, Exists, Transferring
<1> QED BY <1>1, <1>2, <1>3, <1>4, QuietStep

LEMMA DeleteAskStep == ASSUME Inv, DeleteAsk PROVE Inv'
<1>1. /\ pc = "file" /\ op = "DELETE" /\ item \in Entry /\ Src(item) \in Paths
      /\ UNCHANGED <<fs, linked, sameDev, selected, op, multi, item, input, dest, chkdest, n, ops, spoiled>>
      /\ attack' \in BOOLEAN /\ pc' \in {"delete", "ret"} /\ res' \in Results
      /\ pc' = "ret" => res' # "OK"
  BY PathsApart DEF DeleteAsk, Return, Inv, WorkOK, TypeOK, Results, Own
<1>2. /\ keepAsking' \in BOOLEAN /\ consent' \subseteq Paths /\ (~keepAsking' => consent' = Paths)
      /\ pc' = "delete" => Src(item) \in consent'
  BY <1>1 DEF DeleteAsk, Return, Inv, AskedOK, TypeOK
<1>3. TypeOK'
  BY <1>1, <1>2 DEF Inv, TypeOK, PCs
<1>4. WorkOK' /\ WritingOK' /\ AskedOK'
  BY <1>1, <1>2 DEF Inv, WorkOK, WritingOK, AskedOK, Transferring
<1>5. SourceOK'
  BY <1>1 DEF Inv, SourceOK, Exists, Transferring
<1> QED BY <1>1, <1>3, <1>4, <1>5, QuietStep

(* The end of an entry, and of the operation.                              *)
LEMMA EntryDoneStep == ASSUME Inv, EntryDone PROVE Inv'
<1>1. /\ pc = "ret" /\ pc' \in {"pick", "done"} /\ op # "none" /\ selected' = StillSelected
      /\ UNCHANGED <<fs, linked, sameDev, attack, op, multi, item, input, dest, keepAsking,
                     chkdest, n, res, ops, consent, spoiled>>
  BY DEF EntryDone, control, Inv, WorkOK
<1>2. selected' \subseteq selected /\ (\A e \in selected' : Exists(Src(e)))
  BY <1>1 DEF StillSelected, Inv, SourceOK
<1>3. TypeOK'
  BY <1>1, <1>2 DEF Inv, TypeOK, PCs
<1>4. WorkOK' /\ WritingOK' /\ AskedOK'
  BY <1>1 DEF Inv, WorkOK, WritingOK, AskedOK, Transferring
<1>5. SourceOK'
  BY <1>1, <1>2 DEF Inv, SourceOK, Exists, Transferring
<1> QED BY <1>1, <1>3, <1>4, <1>5, QuietStep

LEMMA FinishStep == ASSUME Inv, Finish PROVE Inv'
<1>1. /\ pc' = "idle" /\ op' = "none" /\ attack' = FALSE
      /\ selected' = {e \in selected : Exists(Src(e))}
      /\ UNCHANGED <<fs, linked, sameDev, multi, item, input, dest, keepAsking, chkdest, n, res,
                     ops, consent, spoiled>>
  BY DEF Finish
<1>2. TypeOK'
  BY <1>1 DEF Inv, TypeOK, PCs
<1>3. WorkOK' /\ WritingOK' /\ AskedOK' /\ SourceOK'
  BY <1>1 DEF WorkOK, WritingOK, AskedOK, SourceOK, Exists, Transferring
<1> QED BY <1>1, <1>2, <1>3, QuietStep

LEMMA InterruptStep == ASSUME Inv, Interrupt \/ UNCHANGED vars PROVE Inv'
<1>1. /\ UNCHANGED <<fs, linked, sameDev, selected, op, multi, item, input, dest, keepAsking,
                     chkdest, n, res, pc, ops, consent, spoiled>>
      /\ attack' \in BOOLEAN
  BY DEF Interrupt, vars, control, Inv, TypeOK
<1>2. TypeOK'
  BY <1>1 DEF Inv, TypeOK
<1>3. WorkOK' /\ WritingOK' /\ AskedOK' /\ SourceOK'
  BY <1>1 DEF Inv, WorkOK, WritingOK, AskedOK, SourceOK, Exists, Holds
<1> QED BY <1>1, <1>2, <1>3, QuietStep

LEMMA InvStep == Inv /\ [Next]_vars => Inv'
<1> SUFFICES ASSUME Inv, [Next]_vars PROVE Inv'
  OBVIOUS
<1>1. CASE User
  BY <1>1, ToggleStep, BeginDeleteStep, BeginOneStep, BeginManyStep DEF User
<1>2. CASE Work
  BY <1>2, PickStep, TargetStep, DispatchStep, AgainStep, ChildStep, OpenStep, BufferStep, LinkStep,
     UnlinkStep, DeleteAskStep, DeleteStep, EntryDoneStep, FinishStep DEF Work
<1>3. CASE Interrupt \/ UNCHANGED vars
  BY <1>3, InterruptStep
<1> QED BY <1>1, <1>2, <1>3 DEF Next

(* What Init puts at the paths.                                            *)
LEMMA InitFacts ==
  ASSUME Init
  PROVE  /\ linked \subseteq {Dst(e) : e \in Entry \ DirEntry} /\ sameDev \in BOOLEAN /\ selected = {} /\ attack = FALSE
         /\ op = "none" /\ multi = FALSE /\ item = 0 /\ input = <<>> /\ dest = <<>>
         /\ chkdest = TRUE /\ keepAsking = TRUE /\ n = 0 /\ res = "OK"
         /\ pc = "idle" /\ ops = 0 /\ consent = {} /\ spoiled = {} /\ fs \in [Paths -> File]
         /\ \A e \in Entry :
              /\ fs[Src(e)] = Whole(e)
              /\ fs[Dst(e)] = Whole(e) \/ (Dst(e) \notin linked /\ fs[Dst(e)].of = 0)
              /\ fs[Nested(e)] \in {None, Old("reg")}
              /\ fs[Dst(e)].kind = "special" => "special" \in Faults
<1>1. /\ linked \subseteq {Dst(e) : e \in Entry \ DirEntry} /\ sameDev \in BOOLEAN /\ selected = {} /\ attack = FALSE
      /\ op = "none" /\ multi = FALSE /\ item = 0 /\ input = <<>> /\ dest = <<>>
      /\ chkdest = TRUE /\ keepAsking = TRUE /\ n = 0 /\ res = "OK"
      /\ pc = "idle" /\ ops = 0 /\ consent = {} /\ spoiled = {}
  BY DEF Init
<1>2. PICK b \in [Entry -> UNION {Before(e) : e \in Entry}] :
        fs = [p \in Paths |->
               LET e == p[2] IN
               CASE p = Src(e) -> Whole(e)
                 [] p = Dst(e) -> IF p \in linked THEN Whole(e) ELSE b[e][1]
                 [] OTHER -> IF Dst(e) \in linked THEN None ELSE b[e][2]]
  BY DEF Init
<1>3. ASSUME NEW e \in Entry
      PROVE  /\ b[e][1] \in File /\ b[e][1].of = 0 /\ b[e][2] \in {None, Old("reg")} /\ b[e][2] \in File
             /\ b[e][1].kind = "special" => "special" \in Faults
  <2>1. \E f \in Entry : b[e] \in Before(f)
    OBVIOUS
  <2>2. /\ \A k \in {"reg", "dir", "special"} : Old(k) \in File /\ Old(k).of = 0
        /\ None \in File /\ None.of = 0
    BY DEF Old, None, File
  <2>3. b[e] \in {<<None, None>>, <<Old("reg"), None>>, <<Old("dir"), None>>,
                  <<Old("dir"), Old("reg")>>}
          \/ ("special" \in Faults /\ b[e] = <<Old("special"), None>>)
    BY <2>1 DEF Before
  <2>4. \A k \in {"reg", "dir"} : Old(k).kind # "special" /\ None.kind # "special"
    BY DEF Old, None
  <2> QED BY <2>2, <2>3, <2>4
<1>4. ASSUME NEW e \in Entry
      PROVE  /\ fs[Src(e)] = Whole(e)
             /\ fs[Dst(e)] = IF Dst(e) \in linked THEN Whole(e) ELSE b[e][1]
             /\ fs[Nested(e)] = IF Dst(e) \in linked THEN None ELSE b[e][2]
             /\ Whole(e) \in File /\ Whole(e).kind # "special"
  <2>1. Src(e)[2] = e /\ Dst(e)[2] = e /\ Nested(e)[2] = e
    BY DEF Src, Dst, Nested
  <2>2. Src(e) \in Paths /\ Dst(e) \in Paths /\ Nested(e) \in Paths
        /\ Src(e) # Dst(e) /\ Src(e) # Nested(e) /\ Dst(e) # Nested(e)
    BY PathsApart DEF Own
  <2>3. Whole(e) \in File /\ Whole(e).kind # "special"
    BY PartFacts, FileOpsAssumption DEF Whole
  <2> QED BY <1>2, <2>1, <2>2, <2>3
<1>5. fs \in [Paths -> File]
  <2>1. \A p \in Paths : fs[p] \in File
    <3>1. \A e \in Entry : None \in File
      BY PartFacts
    <3> QED BY <1>3, <1>4, <3>1, PathsApart DEF Own
  <2> QED BY <1>2, <2>1
<1> QED BY <1>1, <1>3, <1>4, <1>5

LEMMA InvInit == Init => Inv
<1> SUFFICES ASSUME Init PROVE Inv
  OBVIOUS
<1>1. \A e \in Entry : Holds(e, Whole(e)) /\ Whole(e).of = e
  BY PartFacts, FileOpsAssumption DEF Whole
<1>2. FilesOK /\ LinkedOK
  <2>1. FilesOK
    BY <1>1, InitFacts DEF FilesOK
  <2>2. ASSUME NEW e \in Entry, NEW p \in linked \cap Own(e)
        PROVE  fs[Src(e)].of = e /\ fs[p].of = e
    <3>1. p = Dst(e)
      BY InitFacts, PathsApart DEF Own
    <3> QED BY <1>1, <2>2, <3>1, InitFacts
  <2> QED BY <2>1, <2>2 DEF LinkedOK
<1>3. TypeOK
  <2>1. 0 \in 0 .. MaxOps
    BY FileOpsAssumption
  <2>2. pc \in PCs /\ res \in Results
    BY InitFacts DEF PCs, Results
  <2>3. linked \subseteq UNION {{Dst(e), Nested(e)} : e \in Entry \ DirEntry}
    BY InitFacts
  <2> QED BY InitFacts, <2>1, <2>2, <2>3 DEF TypeOK, File
<1>4. WorkOK /\ WritingOK /\ AskedOK /\ SourceOK
  BY InitFacts DEF WorkOK, WritingOK, AskedOK, SourceOK, Transferring
<1> QED BY <1>2, <1>3, <1>4 DEF Inv

(* Every variable has its type, and the operation that runs works on paths *)
(* that exist for it, whatever fails.                                      *)
THEOREM TypeCorrect == Spec => []TypeOK
<1>1. Inv => TypeOK
  BY DEF Inv
<1> QED BY InvInit, InvStep, <1>1, PTL DEF Spec

-----------------------------------------------------------------------------
(* Overwriting.                                                            *)

LEMMA StepChanges ==
  ASSUME Inv, [Next]_vars
  PROVE  fs' = fs \/ (pc \in Transferring \cup {"delete"} /\ Changes)
<1>1. CASE User
  BY <1>1 DEF User, Toggle, BeginOne, BeginMany, BeginDelete, Begin
<1>2. CASE Work
  <2>1. CASE PickNext \/ Target \/ Dispatch \/ CopyPrologueAgain \/ DeleteAsk \/ EntryDone \/ Finish
    BY <2>1 DEF PickNext, Target, Dispatch, CopyPrologueAgain, DeleteAsk, EntryDone, Finish
  <2>2. CASE ChildRuns
    BY <2>2, ChildChanges DEF ChildRuns, Transferring
  <2>3. CASE CopyOpen
    BY <2>3, OpenChanges DEF CopyOpen, Transferring
  <2>4. CASE CopyBuffer
    BY <2>4, BufferChanges DEF CopyBuffer, Transferring
  <2>5. CASE MoveLink
    BY <2>5, LinkStepChanges DEF MoveLink, Transferring
  <2>6. CASE MoveUnlink
    BY <2>6, UnlinkChanges DEF MoveUnlink, Transferring
  <2>7. CASE Delete
    BY <2>7, DeleteChanges DEF Delete
  <2> QED BY <1>2, <2>1, <2>2, <2>3, <2>4, <2>5, <2>6, <2>7 DEF Work
<1>3. CASE Interrupt \/ UNCHANGED vars
  BY <1>3 DEF Interrupt, vars
<1> QED BY <1>1, <1>2, <1>3 DEF Next

(* No file that was there before is written, unlinked or linked over       *)
(* without a yes in this operation, whatever calls and children fail and   *)
(* whatever the destination is (panel_warning in panel_copy, panel_move).  *)
THEOREM OverwriteAsked == Spec => OverwriteNeedsConsent
<1>1. Inv /\ [Next]_vars
      => [\A p \in Paths : fs[p].of = 0 /\ Exists(p) /\ fs'[p] # fs[p] => p \in consent]_vars
  <2> SUFFICES ASSUME Inv, [Next]_vars, NEW p \in Paths, fs[p].of = 0, Exists(p), fs'[p] # fs[p]
               PROVE  p \in consent
    OBVIOUS
  <2>1. pc \in Transferring \cup {"delete"} /\ Replaceable(p)
    BY StepChanges DEF Changes
  <2>2. item \in Entry /\ item # 0
    BY <2>1, FileOpsAssumption DEF Inv, WorkOK
  <2> QED BY <2>1, <2>2 DEF Replaceable, Inv, AskedOK
<1> QED BY InvInit, InvStep, <1>1, PTL DEF Spec, OverwriteNeedsConsent

-----------------------------------------------------------------------------
(* No file is left half-written.                                           *)

LEMMA OpenApart ==
  ASSUME Inv, CopyOpen
  PROVE  LoopApart'
<1> SUFFICES ASSUME pc' = "loop", Src(item) \in Aliases(dest)
             PROVE  FALSE
  BY DEF LoopApart, Aliases, Inode, CopyOpen, control
<1>1. pc \in Transferring /\ item \in Entry /\ dest \in Own(item) /\ item # 0
  BY FileOpsAssumption DEF CopyOpen, Inv, WorkOK, Transferring, Own
<1>2. Holds(item, fs[Src(item)])
  BY <1>1, WorkFacts DEF Inv, SourceOK, Exists, None
<1>3. Holds(item, fs[dest])
  <2>1. dest = Src(item) \/ dest \in linked \cap Own(item)
    BY <1>1, AliasesOf DEF Inv
  <2>2. dest \in linked \cap Own(item) => fs[dest].of = item
    BY <1>1 DEF Inv, LinkedOK
  <2> QED BY <1>1, <1>2, <2>1, <2>2, WorkFacts
<1>4. fs[dest].kind # "special"
  BY <1>1, <1>3, PartFacts DEF Holds
<1>5. fs' = WriteTo(dest, Part(item, 0)) /\ fs'[Src(item)].have # 0
  BY <1>4 DEF CopyOpen, Return, CopyReturn
<1>6. fs'[Src(item)] = Part(item, 0)
  BY <1>1, <1>5, PartFacts, WriteToFacts DEF Inv
<1> QED BY <1>1, <1>5, <1>6, PartFacts

LEMMA ApartStep ==
  ASSUME Inv, LoopApart, [Next]_vars
  PROVE  LoopApart'
<1>1. CASE CopyOpen
  BY <1>1, OpenApart
<1>2. CASE CopyBuffer /\ pc' = "loop"
  BY <1>2 DEF CopyBuffer, Abandon, Return, CopyReturn, Transferred, control, LoopApart, Aliases, Inode
<1>3. CASE Interrupt \/ UNCHANGED vars
  BY <1>3 DEF Interrupt, vars, control, LoopApart, Aliases, Inode
<1>4. CASE pc' # "loop"
  BY <1>4 DEF LoopApart
<1>5. ASSUME User PROVE pc' # "loop"
  BY <1>5 DEF User, Toggle, Begin, BeginOne, BeginMany, BeginDelete, Idle
<1>6. ASSUME Work, ~CopyOpen, ~CopyBuffer PROVE pc' # "loop"
  BY <1>6 DEF Work, PickNext, Target, Ask, Return, Dispatch, CopyPrologueAgain, ChildRuns, MoveLink,
     LinkFailed, MoveUnlink, DeleteAsk, Delete, EntryDone, Finish
<1> QED BY <1>1, <1>2, <1>3, <1>4, <1>5, <1>6 DEF Next

LEMMA ApartInit == Init => LoopApart
BY DEF Init, LoopApart

(* The source is whole while it is worked on.                              *)
LEMMA SafeFacts ==
  ASSUME Inv, Safe, pc \in Transferring, item \notin spoiled
  PROVE  /\ item \in Entry /\ dest \in Own(item) /\ dest \in Paths /\ Src(item) \in Paths
         /\ fs \in [Paths -> File]
         /\ Size[item] \in Nat /\ Holds(item, fs[Src(item)]) /\ fs[Src(item)].have <= Size[item]
         /\ item \notin DirEntry => fs[Src(item)] = Whole(item)
         /\ fs[dest].kind = "special" => dest # Src(item)
         /\ pc = "loop" => Src(item) \notin Aliases(dest)
         /\ Src(item) \notin Aliases(dest) \/ item \in DirEntry =>
              \A c \in File : WriteTo(dest, c) = [fs EXCEPT ![dest] = c]
         /\ Src(item) \notin Aliases(dest) => dest # Src(item)
<1>1. item \in Entry /\ dest \in Own(item) /\ dest \in Paths /\ Src(item) \in Paths /\ op \in {"COPY", "MOVE"}
  BY WorkFacts
<1>2. dest \in Aliases(dest) /\ (Src(item) \notin Aliases(dest) \/ item \in DirEntry => Aliases(dest) = {dest})
  BY <1>1, AliasesOf DEF Inv
<1>3. Holds(item, fs[Src(item)])
  BY WorkFacts DEF Inv, SourceOK, Exists, None
<1>4. pc = "loop" => Src(item) \notin Aliases(dest)
  BY DEF Safe, LoopApart
<1>5. fs[Src(item)].have <= Size[item] /\ (item \notin DirEntry => fs[Src(item)] = Whole(item))
  BY <1>1, <1>2, <1>3, <1>4 DEF Safe, WholeOK, Holds
<1>6. \A c \in File : Aliases(dest) = {dest} => WriteTo(dest, c) = [fs EXCEPT ![dest] = c]
  BY <1>1, WriteToFacts DEF Inv
<1>7. Size[item] \in Nat /\ fs \in [Paths -> File]
  BY <1>1, FileOpsAssumption, TypeFacts DEF Inv
<1>8. fs[dest].kind = "special" => dest # Src(item)
  BY <1>1, <1>3, PartFacts DEF Holds
<1> QED BY <1>1, <1>2, <1>3, <1>4, <1>5, <1>6, <1>7, <1>8

LEMMA WholeFacts ==
  ASSUME NEW e \in Entry
  PROVE  /\ Size[e] \in Nat /\ Whole(e) = Part(e, Size[e]) /\ Whole(e) \in File
         /\ Holds(e, Whole(e)) /\ Whole(e).have = Size[e] /\ Whole(e).of = e /\ e # 0
         /\ \A c \in File : Holds(e, c) => c = Part(e, c.have)
BY PartFacts, FileOpsAssumption DEF Whole, Holds, File, Part

(* A step on an entry: what becomes of it is enough.                       *)
LEMMA WholeStep ==
  ASSUME Inv, Safe, Changes, pc \in Transferring \cup {"delete"}, UNCHANGED <<item, dest>>,
         pc' \in {"loop", "unlink", "ret"}, spoiled \subseteq spoiled',
         pc = "delete" => pc' = "ret",
         item \notin spoiled' => \A p \in Own(item) : fs'[p].of = item =>
           /\ fs'[p].have <= Size[item]
           /\ item \notin DirEntry => fs'[p] = Whole(item) \/ (pc' = "loop" /\ p = dest),
         item \notin spoiled' /\ pc' = "loop" =>
           fs'[dest].kind = "special" \/ (fs'[dest] = Part(item, n') /\ n' <= Size[item]),
         item \notin spoiled' /\ pc' = "unlink" =>
           dest # Src(item) /\ (fs'[dest].kind = "special" \/ fs'[dest] = Whole(item))
  PROVE  WholeOK'
<1>1. item \in Entry
  BY DEF Inv, WorkOK
<1>2. ASSUME NEW e \in Entry \ spoiled', NEW p \in Paths, fs'[p].of = e
      PROVE  /\ fs'[p].have <= Size[e]
             /\ e \notin DirEntry => fs'[p] = Whole(e) \/ (pc' = "loop" /\ p = dest)
  <2>1. CASE p \in Own(item)
    <3>1. CASE e = item
      BY <1>2, <2>1, <3>1
    <3>2. CASE e # item
      <4>1. fs'[p] = fs[p]
        BY <1>1, <1>2, <2>1, <3>2, WholeFacts DEF Changes, Holds, None
      <4>2. PICK f \in Entry : p \in Own(f) /\ f = item
        BY <1>1, <2>1
      <4>3. fs[p].of \in {0, item}
        BY <1>1, <2>1 DEF Inv, FilesOK, Own, Holds, None, Old
      <4> QED BY <1>2, <3>2, <4>1, <4>3, WholeFacts
    <3> QED BY <3>1, <3>2
  <2>2. CASE p \notin Own(item)
    <3>1. fs'[p] = fs[p]
      BY <2>2 DEF Changes
    <3>2. p = dest => pc # "loop"
      BY <2>2, WorkFacts DEF Transferring
    <3> QED BY <1>2, <3>1, <3>2 DEF Safe, WholeOK
  <2> QED BY <2>1, <2>2
<1>3. \A e : Whole(e)' = Whole(e) /\ Part(e, n)' = Part(e, n') /\ Src(item)' = Src(item)
  BY DEF Whole, Part, Kind, Src
<1> QED BY <1>2, <1>3 DEF WholeOK

LEMMA SpoiledStep ==
  ASSUME Inv, Safe, Changes, pc \in Transferring \cup {"delete"}, UNCHANGED <<item, dest>>,
         pc' \in {"loop", "unlink", "ret"}, spoiled \subseteq spoiled', item \in spoiled',
         pc = "delete" => pc' = "ret"
  PROVE  WholeOK'
BY WholeStep

(* A step that changes the destination only.                               *)
LEMMA DestStep ==
  ASSUME Inv, Safe, Changes, pc \in Transferring, UNCHANGED <<item, dest>>,
         item \notin spoiled, spoiled \subseteq spoiled', NEW c \in File, fs' = [fs EXCEPT ![dest] = c],
         pc' \in {"loop", "unlink", "ret"}, item \notin DirEntry,
         c.of = item => c = Whole(item) \/ (pc' = "loop" /\ c = Part(item, n') /\ n' \in Nat /\ n' <= Size[item]),
         pc' = "loop" => c.kind = "special" \/ (c = Part(item, n') /\ n' <= Size[item]),
         pc' = "unlink" => dest # Src(item) /\ (c.kind = "special" \/ c = Whole(item))
  PROVE  WholeOK'
<1>1. /\ item \in Entry /\ dest \in Own(item) /\ dest \in Paths /\ Own(item) \subseteq Paths
      /\ fs \in [Paths -> File]
  BY SafeFacts, PathsApart
<1>2. fs'[dest] = c /\ \A p \in Paths : p # dest => fs'[p] = fs[p]
  BY <1>1
<1>3. ASSUME NEW p \in Own(item), fs'[p].of = item
      PROVE  fs'[p].have <= Size[item] /\ (fs'[p] = Whole(item) \/ (pc' = "loop" /\ p = dest))
  <2>1. CASE p = dest
    BY <1>1, <1>2, <1>3, <2>1, WholeFacts, PartFacts
  <2>2. CASE p # dest
    BY <1>1, <1>2, <1>3, <2>2 DEF Safe, WholeOK
  <2> QED BY <2>1, <2>2
<1> QED BY <1>2, <1>3, WholeStep DEF Transferring

LEMMA OpenWhole == ASSUME Inv, Safe, CopyOpen PROVE WholeOK'
<1>1. /\ pc = "open" /\ pc \in Transferring /\ item \notin DirEntry /\ UNCHANGED <<item, dest>>
      /\ spoiled \subseteq spoiled' /\ pc' \in {"loop", "unlink", "ret"}
  BY DEF CopyOpen, CopyReturn, Return, Transferring, Inv, WorkOK, control
<1>2. Changes
  BY OpenChanges
<1>11. CASE item \in spoiled'
  BY <1>1, <1>2, <1>11, SpoiledStep
<1> SUFFICES ASSUME item \notin spoiled' PROVE WholeOK'
  BY <1>11
<1>12. item \notin spoiled
  BY <1>1
<1>3. item \in Entry /\ Part(item, 0) \in File /\ fs \in [Paths -> File] /\ dest \in Paths
      /\ fs[dest] \in File /\ (fs[dest].kind = "special" => dest # Src(item))
  BY <1>1, <1>12, SafeFacts, PartFacts
<1>4. CASE Return("FAILED") /\ UNCHANGED fs
  <2>1. fs[dest].of = item => fs[dest] = Whole(item)
    BY <1>1, <1>3 DEF Safe, WholeOK
  <2> QED BY <1>1, <1>2, <1>12, <1>3, <1>4, <2>1, DestStep DEF Return
<1>5. CASE fs[dest].kind = "special" /\ fs' = fs /\ pc' \in {"loop", "unlink", "ret"}
  <2>1. fs[dest].of # item
    BY <1>1, <1>3, <1>5, WorkFacts, WholeFacts, PartFacts DEF Holds
  <2> QED BY <1>1, <1>2, <1>12, <1>3, <1>5, <2>1, DestStep
<1>6. CASE /\ fs' = WriteTo(dest, Part(item, 0)) /\ n' = 0 /\ ~OntoItself
           /\ IF fs'[Src(item)].have = 0 THEN CopyReturn("OK") ELSE pc' = "loop"
  <2>1. fs' = [fs EXCEPT ![dest] = Part(item, 0)] /\ fs'[Src(item)] = Whole(item) /\ Size[item] \in Nat
        /\ dest # Src(item)
    BY <1>1, <1>12, <1>3, <1>6, SafeFacts DEF OntoItself
  <2>2. pc' = "loop" \/ (pc' \in {"unlink", "ret"} /\ Part(item, 0) = Whole(item))
    BY <1>3, <1>6, <2>1, WholeFacts DEF CopyReturn, Return
  <2> QED BY <1>1, <1>2, <1>12, <1>3, <1>6, <2>1, <2>2, DestStep
<1> QED BY <1>4, <1>5, <1>6 DEF CopyOpen, CopyReturn, Return

LEMMA BufferWhole == ASSUME Inv, Safe, CopyBuffer, "short_read" \notin Faults PROVE WholeOK'
<1>1. /\ pc = "loop" /\ pc \in Transferring /\ item \notin DirEntry /\ UNCHANGED <<item, dest>>
      /\ spoiled' = spoiled /\ pc' \in {"loop", "unlink", "ret"}
  BY DEF CopyBuffer, Transferred, Abandon, CopyReturn, Return, Transferring, Inv, WorkOK, control
<1>2. Changes
  BY BufferChanges
<1>11. CASE item \in spoiled
  BY <1>1, <1>2, <1>11, SpoiledStep
<1> SUFFICES ASSUME item \notin spoiled PROVE WholeOK'
  BY <1>11
<1>3. /\ item \in Entry /\ fs \in [Paths -> File] /\ dest \in Paths /\ fs[dest] \in File
      /\ n \in Nat /\ fs[Src(item)].have = Size[item] /\ Size[item] \in Nat /\ None \in File
      /\ None.of # item /\ dest # Src(item)
      /\ \A c \in File : WriteTo(dest, c) = [fs EXCEPT ![dest] = c]
  BY <1>1, SafeFacts, PartFacts, WholeFacts DEF Inv, TypeOK
<1>4. fs[dest].kind = "special" \/ (fs[dest] = Part(item, n) /\ n <= Size[item])
  BY <1>1 DEF Safe, WholeOK
<1>5. fs[dest].kind = "special" => fs[dest].of # item
  BY <1>1, <1>3, WorkFacts, WholeFacts, PartFacts DEF Holds
<1>6. Part(item, n) \in File /\ Part(item, n).kind = "reg" /\ Part(item, n + 1) \in File
  BY <1>1, <1>3, PartFacts
<1>7. CASE n >= fs[Src(item)].have /\ CopyReturn("OK") /\ UNCHANGED <<fs, n>>
  <2>1. fs[dest].kind = "special" \/ fs[dest] = Whole(item)
    BY <1>3, <1>4, <1>7, WholeFacts
  <2> QED BY <1>1, <1>2, <1>3, <1>5, <1>7, <2>1, DestStep DEF CopyReturn, Return
<1>8. CASE \E r : Abandon(r)
  <2>1. pc' = "ret"
    BY <1>8 DEF Abandon, Return
  <2>2. CASE fs[dest].kind = "special"
    <3>1. fs' = fs
      BY <1>8, <2>2 DEF Abandon
    <3> QED BY <1>1, <1>2, <1>3, <1>5, <2>1, <2>2, <3>1, DestStep
  <2>3. CASE fs[dest] = Part(item, n)
    <3>1. fs' = [fs EXCEPT ![dest] = None]
      BY <1>6, <1>8, <2>3 DEF Abandon, Unlinked
    <3> QED BY <1>1, <1>2, <1>3, <2>1, <3>1, DestStep
  <2> QED BY <1>4, <2>2, <2>3
<1>9. CASE n < fs[Src(item)].have /\ Transferred(1)
  <2>1. n' = n + 1 /\ pc' = "loop" /\ n' \in Nat
    BY <1>1, <1>3, <1>9 DEF Transferred
  <2>2. CASE fs[dest].kind = "special"
    <3> DEFINE c == fs[dest]
    <3>1. /\ fs' = [fs EXCEPT ![dest] = c] /\ c.of # item /\ c.kind = "special" /\ c \in File
          /\ pc' = "loop"
      BY <1>1, <1>3, <1>5, <1>9, <2>2 DEF Transferred
    <3> HIDE DEF c
    <3> QED BY <1>1, <1>2, <3>1, DestStep
  <2>3. CASE fs[dest] = Part(item, n)
    <3>1. [fs[dest] EXCEPT !.have = @ + 1] = Part(item, n + 1)
      BY <2>3 DEF Part
    <3>2. fs' = [fs EXCEPT ![dest] = Part(item, n + 1)]
      BY <1>3, <1>6, <1>9, <2>3, <3>1 DEF Transferred
    <3>3. n' <= Size[item] /\ Part(item, n + 1) = Part(item, n')
      BY <1>3, <1>9, <2>1
    <3> QED BY <1>1, <1>2, <1>6, <2>1, <3>2, <3>3, DestStep
  <2> QED BY <1>4, <2>2, <2>3
<1> QED BY <1>7, <1>8, <1>9 DEF CopyBuffer

LEMMA LinkWhole == ASSUME Inv, Safe, MoveLink PROVE WholeOK'
<1>1. pc = "link" /\ pc \in Transferring /\ item \notin DirEntry /\ UNCHANGED <<item, dest>>
      /\ pc' \in {"unlink", "ret"} /\ spoiled \subseteq spoiled'
  BY DEF MoveLink, LinkFailed, Return, Transferring, Inv, WorkOK, control
<1>2. Changes
  BY LinkStepChanges
<1>11. CASE item \in spoiled'
  BY <1>1, <1>2, <1>11, SpoiledStep
<1> SUFFICES ASSUME item \notin spoiled' PROVE WholeOK'
  BY <1>11
<1>12. item \notin spoiled
  BY <1>1
<1>3. /\ item \in Entry /\ fs \in [Paths -> File] /\ dest \in Paths /\ fs[dest] \in File
      /\ fs[Src(item)] = Whole(item) /\ Whole(item) \in File /\ None \in File /\ None.of # item
      /\ (fs[dest].kind = "special" => dest # Src(item))
  BY <1>1, <1>12, SafeFacts, PartFacts, WholeFacts
<1>4. fs[dest].of = item => fs[dest] = Whole(item)
  BY <1>1, <1>3 DEF Safe, WholeOK
<1>5. CASE fs' = fs /\ (pc' = "ret" \/ fs[dest].kind = "special")
  BY <1>1, <1>2, <1>12, <1>3, <1>4, <1>5, DestStep
<1>6. CASE fs' = [fs EXCEPT ![dest] = fs[Src(item)]] /\ dest # Src(item)
  BY <1>1, <1>2, <1>12, <1>3, <1>6, DestStep
<1>7. CASE fs' = Unlinked(dest) /\ pc' = "ret"
  BY <1>1, <1>2, <1>12, <1>3, <1>7, DestStep DEF Unlinked
<1> QED BY <1>5, <1>6, <1>7 DEF MoveLink, LinkFailed, Return

(* The source is removed, or a part of a directory is.                     *)
LEMMA SrcStep ==
  ASSUME Inv, Safe, Changes, pc \in {"unlink", "delete"}, UNCHANGED <<item, dest, spoiled>>, pc' = "ret",
         NEW c \in File, fs' = [fs EXCEPT ![Src(item)] = c],
         c = None \/ (c.have <= fs[Src(item)].have /\ item \in DirEntry) \/ c = fs[Src(item)]
  PROVE  WholeOK'
<1>1. /\ item \in Entry /\ Own(item) \subseteq Paths /\ fs \in [Paths -> File] /\ Size[item] \in Nat
      /\ Src(item) \in Own(item)
  BY PathsApart, TypeFacts, WholeFacts DEF Inv, WorkOK, Transferring, Own
<1>2. fs'[Src(item)] = c /\ \A p \in Paths : p # Src(item) => fs'[p] = fs[p]
  BY <1>1
<1>11. CASE item \in spoiled
  BY <1>11, SpoiledStep DEF Transferring
<1> SUFFICES ASSUME item \notin spoiled PROVE WholeOK'
  BY <1>11
<1>3. Holds(item, fs[Src(item)]) /\ fs[Src(item)].have <= Size[item]
      /\ fs[Src(item)].have \in Nat /\ c.have \in Nat
  <2>1. Exists(Src(item))
    BY DEF Inv, SourceOK, Transferring
  <2>2. Holds(item, fs[Src(item)])
    BY <1>1, <2>1 DEF Inv, FilesOK, Exists, None
  <2> QED BY <1>1, <2>2 DEF Safe, WholeOK, Holds, File
<1>4. ASSUME NEW p \in Own(item), fs'[p].of = item
      PROVE  fs'[p].have <= Size[item] /\ (item \notin DirEntry => fs'[p] = Whole(item))
  <2>1. CASE fs'[p] = fs[p]
    BY <1>1, <1>4, <2>1 DEF Safe, WholeOK
  <2>2. CASE p = Src(item) /\ fs'[p] # fs[p]
    <3>1. c.of = item /\ c # None
      BY <1>1, <1>2, <1>4, <2>2, WholeFacts DEF None
    <3> QED BY <1>2, <1>3, <1>1, <2>2, <3>1
  <2> QED BY <1>1, <1>2, <2>1, <2>2
<1> QED BY <1>4, WholeStep DEF Transferring

LEMMA UnlinkWhole == ASSUME Inv, Safe, MoveUnlink PROVE WholeOK'
<1>1. pc = "unlink" /\ UNCHANGED <<item, dest, spoiled>> /\ pc' = "ret" /\ item \in Entry /\ pc \in Transferring
  BY DEF MoveUnlink, Return, control, Inv, WorkOK, Transferring
<1>2. fs \in [Paths -> File] /\ Src(item) \in Paths /\ None \in File
  BY <1>1, TypeFacts, PathsApart, PartFacts DEF Inv, Own
<1>3. CASE fs' = Unlinked(Src(item))
  BY <1>1, <1>2, <1>3, UnlinkChanges, SrcStep DEF Unlinked
<1>4. CASE fs' = fs
  BY <1>1, <1>2, <1>4, UnlinkChanges, SrcStep
<1> QED BY <1>3, <1>4 DEF MoveUnlink

LEMMA DeleteWhole == ASSUME Inv, Safe, Delete PROVE WholeOK'
<1>1. pc = "delete" /\ UNCHANGED <<item, dest, spoiled>> /\ pc' = "ret" /\ item \in Entry
  BY DEF Delete, Return, control, Inv, WorkOK
<1>2. fs \in [Paths -> File] /\ Src(item) \in Paths /\ None \in File
  BY <1>1, TypeFacts, PathsApart, PartFacts DEF Inv, Own
<1>3. CASE fs' = Unlinked(Src(item))
  BY <1>1, <1>2, <1>3, DeleteChanges, SrcStep DEF Unlinked
<1>4. CASE fs' = fs
  BY <1>1, <1>2, <1>4, DeleteChanges, SrcStep
<1>5. CASE item \in DirEntry /\ \E k \in 0 .. fs[Src(item)].have : fs' = [fs EXCEPT ![Src(item)].have = k]
  <2>1. PICK k \in 0 .. fs[Src(item)].have : fs' = [fs EXCEPT ![Src(item)].have = k]
    BY <1>5
  <2> DEFINE c == [fs[Src(item)] EXCEPT !.have = k]
  <2>2. /\ fs[Src(item)] \in File /\ fs[Src(item)].have \in Nat
        /\ k \in Nat /\ k <= fs[Src(item)].have
    BY <1>2 DEF File
  <2>3. c \in File /\ c.have = k /\ fs' = [fs EXCEPT ![Src(item)] = c]
    BY <2>1, <2>2 DEF File
  <2> HIDE DEF c
  <2> QED BY <1>1, <1>5, <2>2, <2>3, DeleteChanges, SrcStep
<1> QED BY <1>3, <1>4, <1>5 DEF Delete

(* The steps that leave the files alone.                                   *)
LEMMA QuietWhole ==
  ASSUME WholeOK, UNCHANGED <<fs, spoiled>>,
         \/ pc # "loop" /\ pc' \notin {"loop", "unlink"}
         \/ UNCHANGED <<pc, dest, item, n>>
  PROVE  WholeOK'
<1>1. CASE pc # "loop" /\ pc' \notin {"loop", "unlink"}
  BY <1>1 DEF WholeOK
<1>2. CASE UNCHANGED <<pc, dest, item, n>>
  BY <1>2 DEF WholeOK, Whole, Part, Kind, Src
<1> QED BY <1>1, <1>2

LEMMA ChildWhole == ASSUME Inv, Safe, ChildRuns PROVE WholeOK'
<1> DEFINE s == fs[Src(item)]
           d == fs[dest]
<1>1. /\ pc = "go" /\ pc \in Transferring /\ item \in DirEntry /\ UNCHANGED <<item, dest, spoiled>>
      /\ pc' = "ret" /\ item \notin spoiled
  BY DEF ChildRuns, Return, Transferring, control, Inv, TypeOK
<1>11. CASE fs' = fs
  BY <1>1, <1>11, QuietWhole DEF Safe
<1> SUFFICES ASSUME dest # Src(item) PROVE WholeOK'
  BY <1>11 DEF ChildRuns
<1>2. /\ item \in Entry /\ fs \in [Paths -> File] /\ dest \in Paths /\ Src(item) \in Paths
      /\ dest # Src(item) /\ Own(item) \subseteq Paths
      /\ s \in File /\ d \in File /\ Holds(item, s) /\ s.have <= Size[item]
      /\ s.have \in Nat /\ d.have \in Nat /\ Size[item] \in Nat
  BY <1>1, SafeFacts, PathsApart DEF File
<1>3. d.of = item => d.have <= Size[item]
  BY <1>1, <1>2 DEF Safe, WholeOK
<1>4. ASSUME NEW j \in 0 .. s.have
      PROVE  Merged(j) \in File /\ Merged(j).have <= Size[item]
  <2>1. PICK m \in 0 .. Size[item] : Merged(j) = Part(item, m)
    <3>1. d.of = item => Max({j, d.have}) \in 0 .. Size[item]
      BY <1>2, <1>3, MaxOfTwo
    <3>2. j \in 0 .. Size[item]
      BY <1>2
    <3> QED BY <3>1, <3>2 DEF Merged
  <2> QED BY <1>2, <2>1, PartFacts
<1>5. /\ s.have \in 0 .. s.have
      /\ \A c \in File : WriteTo(dest, c) = [fs EXCEPT ![dest] = c]
      /\ \A j \in 0 .. s.have : Part(item, j) \in File /\ Part(item, j).have = j
      /\ None \in File /\ None.have = 0
  BY <1>1, <1>2, SafeFacts, PartFacts DEF None
<1>6. PICK c \in File, e \in File :
        /\ fs' = [fs EXCEPT ![dest] = c, ![Src(item)] = e]
        /\ c = d \/ c.have <= Size[item]
        /\ e.have <= s.have
  <2>1. CASE fs' = fs
    <3>1. fs' = [fs EXCEPT ![dest] = d, ![Src(item)] = s] /\ s.have <= s.have
      BY <1>2, <2>1
    <3> HIDE DEF s, d
    <3> QED BY <1>2, <3>1
  <2>2. ASSUME NEW j \in 0 .. s.have, fs' = WriteTo(dest, Merged(j))
        PROVE  \E c \in File, e \in File :
                 /\ fs' = [fs EXCEPT ![dest] = c, ![Src(item)] = e]
                 /\ c = d \/ c.have <= Size[item]
                 /\ e.have <= s.have
    <3>1. fs' = [fs EXCEPT ![dest] = Merged(j), ![Src(item)] = s] /\ s.have <= s.have
      BY <1>2, <1>4, <1>5, <2>2
    <3> QED BY <1>2, <1>4, <3>1
  <2>3. ASSUME NEW e \in File, e.have <= s.have, MoveTo(s, e)
        PROVE  \E c \in File, f \in File :
                 /\ fs' = [fs EXCEPT ![dest] = c, ![Src(item)] = f]
                 /\ c = d \/ c.have <= Size[item]
                 /\ f.have <= s.have
    <3>1. fs' = [fs EXCEPT ![dest] = s, ![Src(item)] = e]
      BY <1>2, <1>5, <2>3 DEF MoveTo
    <3> QED BY <1>2, <2>3, <3>1
  <2>4. \A j \in 0 .. s.have : Part(item, j).have <= s.have
    BY <1>2, <1>5
  <2>5. None.have <= s.have
    BY <1>2, <1>5
  <2> HIDE DEF d
  <2> QED BY <1>5, <2>1, <2>2, <2>3, <2>4, <2>5 DEF ChildRuns
<1>7. \A p \in Paths : fs'[p] = IF p = Src(item) THEN e ELSE IF p = dest THEN c ELSE fs[p]
  BY <1>2, <1>6
<1>8. ASSUME NEW p \in Own(item), fs'[p].of = item
      PROVE  fs'[p].have <= Size[item]
  <2>1. p \in Paths
    BY <1>2
  <2>2. CASE fs'[p] = fs[p]
    BY <1>1, <1>2, <1>8, <2>1, <2>2 DEF Safe, WholeOK
  <2>3. CASE fs'[p] = e \/ (fs'[p] = c /\ c # d)
    <3>1. e.have \in Nat
      BY DEF File
    <3> QED BY <1>2, <1>6, <2>3, <3>1
  <2> QED BY <1>7, <2>1, <2>2, <2>3
<1> QED BY <1>1, <1>2, <1>8, ChildChanges, WholeStep


LEMMA SafeStep ==
  ASSUME Inv, Safe, [Next]_vars, "short_read" \notin Faults
  PROVE  Safe'
<1>1. LoopApart'
  BY ApartStep DEF Safe
<1>2. CASE ChildRuns \/ CopyOpen \/ CopyBuffer \/ MoveLink \/ MoveUnlink \/ Delete
  BY <1>1, <1>2, ChildWhole, OpenWhole, BufferWhole, LinkWhole, UnlinkWhole, DeleteWhole DEF Safe
<1>3. CASE Interrupt \/ UNCHANGED vars
  <2>1. UNCHANGED <<fs, spoiled, pc, dest, item, n>>
    BY <1>3 DEF Interrupt, vars, control
  <2> QED BY <1>1, <2>1, QuietWhole DEF Safe
<1>4. CASE User
  <2>1. UNCHANGED <<fs, spoiled>> /\ pc = "idle" /\ pc' \notin {"loop", "unlink"}
    BY <1>4 DEF User, Toggle, BeginOne, BeginMany, BeginDelete, Begin, Idle
  <2> QED BY <1>1, <2>1, QuietWhole DEF Safe
<1>5. CASE PickNext \/ Target \/ CopyPrologueAgain \/ Dispatch \/ DeleteAsk \/ EntryDone \/ Finish
  <2>1. UNCHANGED <<fs, spoiled>> /\ pc # "loop" /\ pc' \notin {"loop", "unlink"}
    BY <1>5 DEF PickNext, Target, CopyPrologueAgain, Dispatch, DeleteAsk, EntryDone, Finish, Return, Ask
  <2> QED BY <1>1, <2>1, QuietWhole DEF Safe
<1> QED BY <1>2, <1>3, <1>4, <1>5 DEF Next, Work

LEMMA SafeInit == Init => Safe
<1> SUFFICES ASSUME Init PROVE Safe
  OBVIOUS
<1>1. LoopApart
  BY ApartInit
<1>2. WholeOK
  <2>1. ASSUME NEW e \in Entry, NEW p \in Paths, fs[p].of = e
        PROVE  fs[p] = Whole(e) /\ fs[p].have <= Size[e]
    <3>1. PICK f \in Entry : p \in Own(f)
      BY PathsApart
    <3>2. fs[p] = Whole(f) \/ fs[p].of = 0
      BY <3>1, InitFacts DEF Own, None, Old
    <3>3. Size[e] \in Nat /\ Whole(e).have = Size[e] /\ Whole(f).of = f /\ e # 0
      BY WholeFacts
    <3> QED BY <2>1, <3>2, <3>3
  <2> QED BY <2>1, InitFacts DEF WholeOK
<1> QED BY <1>1, <1>2 DEF Safe

(* Whatever stopped it (a SIGINT, a failing read or write, a child that    *)
(* failed), no file holds a part of another once panel_copy and panel_move *)
(* have returned: panel_unlink is called on every way out that gave up.    *)
(* Excepted: an entry that was put onto itself.  Assumed: reads that are   *)
(* not short (panel_copy counts whole buffers).                            *)
THEOREM NoPartialFile ==
  ASSUME "short_read" \notin Faults
  PROVE  Spec => []NoPartialLeft
<1>1. Inv /\ Safe => NoPartialLeft
  <2> SUFFICES ASSUME Inv, Safe, pc \in {"pick", "done", "idle"},
                      NEW p \in Paths, fs[p].kind = "reg", fs[p].of \notin spoiled \cup {0}
               PROVE  fs[p] = Whole(fs[p].of)
    BY DEF NoPartialLeft
  <2>1. PICK e \in Entry : p \in Own(e)
    BY PathsApart
  <2>2. Holds(e, fs[p])
    BY <2>1 DEF Inv, FilesOK, Own, None, Old
  <2>3. e \notin DirEntry
    BY <2>2 DEF Holds, Kind
  <2> QED BY <2>2, <2>3 DEF Safe, WholeOK, Holds
<1>2. Inv /\ Safe /\ [Next]_vars => (Inv /\ Safe)'
  BY InvStep, SafeStep
<1> QED BY InvInit, SafeInit, <1>1, <1>2, PTL DEF Spec


-----------------------------------------------------------------------------
(* Nothing is lost.                                                        *)

LEMMA NoSpecialInit == ASSUME Init, "special" \notin Faults PROVE NoSpecial
<1> SUFFICES ASSUME NEW p \in Paths PROVE fs[p].kind # "special"
  BY DEF NoSpecial
<1>1. PICK e \in Entry : p \in Own(e)
  BY PathsApart
<1>2. Whole(e).kind # "special"
  BY WholeFacts, PartFacts DEF Holds
<1> QED BY <1>1, <1>2, InitFacts DEF Own, None, Old

LEMMA NoSpecialStep == ASSUME Inv, NoSpecial, [Next]_vars PROVE NoSpecial'
<1> SUFFICES ASSUME NEW p \in Paths PROVE fs'[p].kind # "special"
  BY DEF NoSpecial
<1>1. fs' = fs \/ (item \in Entry /\ Changes)
  BY StepChanges DEF Inv, WorkOK
<1>2. CASE fs' = fs
  BY <1>2 DEF NoSpecial
<1>3. CASE item \in Entry /\ Changes
  BY <1>3, PartFacts DEF Changes, NoSpecial, Holds, None
<1> QED BY <1>1, <1>2, <1>3

(* The calls on a file keep its source, until the copy is complete; those  *)
(* that do not have put it onto itself.                                    *)
LEMMA FileKept ==
  ASSUME Inv, Safe, NoSpecial, CopyOpen \/ CopyBuffer \/ MoveLink \/ MoveUnlink, item \notin spoiled'
  PROVE  \/ fs'[Src(item)] = Whole(item)
         \/ /\ MoveUnlink /\ fs[dest] = Whole(item) /\ fs'[dest] = Whole(item)
            /\ dest # Src(item) /\ dest \in Paths
<1>1. pc \in Transferring /\ item \notin DirEntry /\ item \notin spoiled
  BY DEF CopyOpen, CopyBuffer, MoveLink, MoveUnlink, Transferring, Inv, WorkOK
<1>2. /\ fs[Src(item)] = Whole(item) /\ fs \in [Paths -> File] /\ dest \in Paths /\ Src(item) \in Paths
      /\ fs[dest] \in File /\ item \in Entry
  BY <1>1, SafeFacts
<1>3. CASE CopyOpen
  <2>1. Part(item, 0) \in File
    BY <1>2, PartFacts
  <2>2. CASE Src(item) \notin Aliases(dest)
    <3>1. dest # Src(item) /\ WriteTo(dest, Part(item, 0)) = [fs EXCEPT ![dest] = Part(item, 0)]
      BY <1>1, <2>1, <2>2, SafeFacts
    <3> QED BY <1>2, <1>3, <3>1 DEF CopyOpen
  <2>3. CASE Src(item) \in Aliases(dest)
    BY <1>2, <1>3, <2>3 DEF CopyOpen, OntoItself
  <2> QED BY <2>2, <2>3
<1>4. CASE CopyBuffer
  <2>1. \A k \in {0, 1} : [fs[dest] EXCEPT !.have = @ + k] \in File
    BY <1>2 DEF File
  <2>2. pc = "loop"
    BY <1>4 DEF CopyBuffer
  <2>3. dest # Src(item) /\ \A c \in File : WriteTo(dest, c) = [fs EXCEPT ![dest] = c]
    BY <1>1, <2>2, SafeFacts
  <2> QED BY <1>2, <1>4, <2>1, <2>3 DEF CopyBuffer, Abandon, Transferred, Unlinked
<1>5. CASE MoveLink
  BY <1>2, <1>5 DEF MoveLink, Unlinked
<1>6. CASE MoveUnlink
  <2>1. fs[dest] = Whole(item) /\ dest # Src(item)
    BY <1>1, <1>2, <1>6 DEF MoveUnlink, Safe, WholeOK, NoSpecial
  <2>2. fs' = fs \/ fs' = [fs EXCEPT ![Src(item)] = None]
    BY <1>6 DEF MoveUnlink, Unlinked
  <2> QED BY <1>2, <1>6, <2>1, <2>2
<1> QED BY <1>3, <1>4, <1>5, <1>6

(* A child keeps what is complete, at its place or at the other one.       *)
LEMMA DirKept ==
  ASSUME Inv, Safe, ChildRuns, NEW p \in Paths, fs[p] = Whole(item)
  PROVE  \E q \in Paths : fs'[q] = Whole(item)
<1> DEFINE s == fs[Src(item)]
           d == fs[dest]
<1>1. pc = "go" /\ pc \in Transferring /\ item \in DirEntry /\ item \notin spoiled
  BY DEF ChildRuns, Transferring, Inv, TypeOK
<1>11. CASE fs' = fs
  BY <1>11
<1> SUFFICES ASSUME dest # Src(item) PROVE \E q \in Paths : fs'[q] = Whole(item)
  BY <1>11 DEF ChildRuns
<1>2. /\ item \in Entry /\ fs \in [Paths -> File] /\ dest \in Paths /\ Src(item) \in Paths
      /\ dest # Src(item) /\ s \in File /\ d \in File /\ Holds(item, s) /\ s.have <= Size[item]
      /\ s.have \in Nat /\ d.have \in Nat /\ Size[item] \in Nat /\ None \in File
      /\ \A c \in File : WriteTo(dest, c) = [fs EXCEPT ![dest] = c]
  BY <1>1, SafeFacts, PartFacts DEF File
<1>3. d = Whole(item) => d.of = item /\ d.have = Size[item]
  BY <1>2, WholeFacts
<1>4. ASSUME NEW j \in 0 .. s.have, fs' = WriteTo(dest, Merged(j))
      PROVE  fs'[p] = Whole(item)
  <2>1. Merged(j) \in File
    BY <1>2, <1>4, MaxOfTwo, PartFacts DEF Merged
  <2>2. d = Whole(item) => Merged(j) = Whole(item)
    <3>1. ASSUME d = Whole(item) PROVE Max({j, d.have}) = Size[item]
      <4>1. d.have = Size[item] /\ d.have \in Nat /\ j \in Nat /\ j <= Size[item]
        BY <1>2, <1>3, <1>4, <3>1
      <4> HIDE DEF d
      <4> QED BY <4>1, MaxOfTwo
    <3> QED BY <1>3, <3>1 DEF Merged, Whole
  <2> QED BY <1>2, <1>4, <2>1, <2>2
<1>5. ASSUME NEW c \in File, MoveTo(s, c), Empty(dest)
      PROVE  fs'[p] = Whole(item) \/ fs'[dest] = Whole(item)
  <2>1. fs' = [fs EXCEPT ![dest] = s, ![Src(item)] = c]
    BY <1>2, <1>5 DEF MoveTo
  <2>2. fs'[dest] = s /\ \A q \in Paths : q \notin {dest, Src(item)} => fs'[q] = fs[q]
    BY <1>2, <2>1
  <2>3. p = dest => s = Whole(item)
    <3>1. p = dest => Size[item] = 0 /\ s.have = 0
      BY <1>2, <1>3, <1>5 DEF Empty
    <3>2. s = Part(item, s.have)
      BY <1>2, WholeFacts
    <3> QED BY <3>1, <3>2 DEF Whole
  <2> QED BY <2>2, <2>3
<1>6. \A j \in 0 .. s.have : Part(item, j) \in File
  BY <1>2, PartFacts
<1>7. fs' = fs \/ fs'[p] = Whole(item) \/ fs'[dest] = Whole(item)
  <2>1. s.have \in 0 .. s.have
    BY <1>2
  <2>2. CASE \E j \in 0 .. s.have : fs' = WriteTo(dest, Merged(j))
    BY <1>4, <2>2
  <2>3. CASE \E c \in File : MoveTo(s, c) /\ Empty(dest)
    BY <1>5, <2>3
  <2> QED BY <1>2, <1>6, <2>1, <2>2, <2>3 DEF ChildRuns
<1> QED BY <1>2, <1>7

(* At every point of a copy or a move, and whatever call or child fails,   *)
(* the contents of an entry are complete at some path: panel_move removes  *)
(* the source only after panel_copy or link() is through, so that nothing  *)
(* is lost when the process is killed in between.  Only a deletion the     *)
(* user agreed to takes the last copy, or a copy or a move of the entry    *)
(* onto itself, under a name that same_file() is not asked about.          *)
(* Assumed: complete reads, and no device or FIFO at the destination.      *)
THEOREM ContentsKept ==
  ASSUME {"short_read", "special"} \cap Faults = {}
  PROVE  Spec => NoContentLost
<1> DEFINE J == Inv /\ Safe /\ NoSpecial
           A == \A e \in Entry : HasWhole(e) /\ ~HasWhole(e)' =>
                  (op = "DELETE" /\ Src(e) \in consent) \/ e \in spoiled'
<1>1. J /\ [Next]_vars => [A]_vars
  <2> SUFFICES ASSUME J, [Next]_vars, NEW e \in Entry, HasWhole(e), ~HasWhole(e)', e \notin spoiled'
               PROVE  op = "DELETE" /\ Src(e) \in consent
    OBVIOUS
  <2>1. PICK p \in Paths : fs[p] = Whole(e)
    BY DEF HasWhole
  <2>2. \A q \in Paths : fs'[q] # Whole(e)
    BY DEF HasWhole, Whole, Part, Kind
  <2>3. pc \in Transferring \cup {"delete"} /\ Changes /\ item \in Entry
    BY <2>1, <2>2, StepChanges DEF Inv, WorkOK
  <2>4. e = item
    <3>1. p \in Own(item)
      BY <2>1, <2>2, <2>3 DEF Changes
    <3>2. fs[p].of \in {0, item}
      BY <2>3, <3>1 DEF Inv, FilesOK, Own, Holds, None, Old
    <3> QED BY <2>1, <3>2, WholeFacts
  <2>5. CASE pc = "delete"
    BY <2>4, <2>5 DEF Inv, WorkOK, AskedOK, Transferring
  <2>6. CASE pc \in Transferring
    <3>1. dest \in Paths /\ Src(item) \in Paths
      BY <2>6, WorkFacts
    <3>2. CASE ChildRuns
      BY <2>1, <2>2, <2>4, <3>2, DirKept
    <3>3. CASE CopyOpen \/ CopyBuffer \/ MoveLink \/ MoveUnlink
      BY <2>2, <2>4, <3>1, <3>3, FileKept
    <3>4. CASE fs' = fs
      BY <2>1, <2>2, <3>4
    <3>5. ChildRuns \/ CopyOpen \/ CopyBuffer \/ MoveLink \/ MoveUnlink \/ fs' = fs
      BY <2>6 DEF Next, User, Work, Interrupt, vars, Transferring, Toggle, BeginOne, BeginMany, BeginDelete,
         Begin, PickNext, Target, Dispatch, CopyPrologueAgain, DeleteAsk, Delete, EntryDone, Finish
    <3> QED BY <3>2, <3>3, <3>4, <3>5
  <2> QED BY <2>3, <2>5, <2>6
<1>2. Init => J
  BY InvInit, SafeInit, NoSpecialInit
<1>3. J /\ [Next]_vars => J'
  BY InvStep, SafeStep, NoSpecialStep
<1> QED BY <1>1, <1>2, <1>3, PTL DEF Spec, NoContentLost


-----------------------------------------------------------------------------
(* FileOps implements Transfer, step by step.                              *)

Places(f, e) ==
  {w \in {"source", "elsewhere"} :
     \E p \in Paths : f[p] = Whole(e) /\ (w = "source" <=> p = Src(e))}

LEMMA PlacesFacts ==
  ASSUME NEW e \in Entry, NEW f
  PROVE  /\ "source" \in Places(f, e) <=> f[Src(e)] = Whole(e)
         /\ "elsewhere" \in Places(f, e) <=> \E p \in Paths \ {Src(e)} : f[p] = Whole(e)
         /\ Places(f, e) \subseteq {"source", "elsewhere"}
<1>1. Src(e) \in Paths
  BY PathsApart DEF Own
<1> QED BY <1>1 DEF Places

LEMMA WholePlaces ==
  \A e \in Entry : /\ WholeAt(e) = IF e \in spoiled THEN {} ELSE Places(fs, e)
                   /\ WholeAt(e)' = IF e \in spoiled' THEN {} ELSE Places(fs', e)
BY DEF WholeAt, Places, Whole, Part, Kind, Paths

LEMMA TwoPlaces ==
  ASSUME NEW w \in SUBSET {"source", "elsewhere"}, NEW v \in SUBSET {"source", "elsewhere"}
  PROVE  /\ ("source" \in v <=> "source" \in w) /\ ("elsewhere" \in v <=> "elsewhere" \in w) => v = w
         /\ ("source" \in v <=> "source" \in w) /\ "elsewhere" \in v => v = w \cup {"elsewhere"}
         /\ "source" \notin v /\ ("elsewhere" \in v <=> "elsewhere" \in w) => v = w \ {"source"}
<1>1. ASSUME "source" \in v <=> "source" \in w, "elsewhere" \in v <=> "elsewhere" \in w
      PROVE  v = w
  <2>1. \A x \in v : x \in w
    BY <1>1
  <2>2. \A x \in w : x \in v
    BY <1>1
  <2> QED BY <2>1, <2>2
<1>2. ASSUME "source" \in v <=> "source" \in w, "elsewhere" \in v
      PROVE  v = w \cup {"elsewhere"}
  <2>1. \A x \in v : x \in w \cup {"elsewhere"}
    BY <1>2
  <2>2. \A x \in w \cup {"elsewhere"} : x \in v
    BY <1>2
  <2> QED BY <2>1, <2>2
<1>3. ASSUME "source" \notin v, "elsewhere" \in v <=> "elsewhere" \in w
      PROVE  v = w \ {"source"}
  <2>1. \A x \in v : x \in w \ {"source"}
    BY <1>3
  <2>2. \A x \in w \ {"source"} : x \in v
    BY <1>3
  <2> QED BY <2>1, <2>2
<1> QED BY <1>1, <1>2, <1>3

(* The work on an entry is seen at that entry only.                        *)
LEMMA OthersPlaces ==
  ASSUME Inv, Changes, item \in Entry, NEW e \in Entry, e # item
  PROVE  Places(fs', e) = Places(fs, e)
<1>1. ASSUME NEW p \in Paths
      PROVE  fs'[p] = Whole(e) <=> fs[p] = Whole(e)
  <2>1. CASE fs'[p] = fs[p]
    BY <2>1
  <2>2. CASE fs'[p] # fs[p]
    <3>1. p \in Own(item) /\ fs'[p].of \in {0, item}
      BY <2>2 DEF Changes, None, Holds
    <3>2. fs[p].of \in {0, item}
      BY <3>1 DEF Inv, FilesOK, Own, Holds, None, Old
    <3> QED BY <3>1, <3>2, WholeFacts
  <2> QED BY <2>1, <2>2
<1> QED BY <1>1 DEF Places

(* What the work on an entry may make of its places.                       *)
Moves(w, v) ==
  \/ v = w
  \/ op \in {"COPY", "MOVE"} /\ w # {} /\ v = w \cup {"elsewhere"}
  \/ op \in {"COPY", "MOVE"} /\ "source" \in w /\ v = {"source"}
  \/ op = "MOVE" /\ w # {} /\ v = {"elsewhere"}
  \/ op = "DELETE" /\ v = w \ {"source"}

LEMMA FileMoves ==
  ASSUME Inv, Safe, NoSpecial, CopyOpen \/ CopyBuffer \/ MoveLink \/ MoveUnlink, item \notin spoiled'
  PROVE  Moves(Places(fs, item), Places(fs', item))
<1>1. pc \in Transferring /\ item \notin DirEntry /\ item \notin spoiled /\ op \in {"COPY", "MOVE"}
  BY DEF CopyOpen, CopyBuffer, MoveLink, MoveUnlink, Transferring, Inv, WorkOK
<1>2. /\ fs[Src(item)] = Whole(item) /\ fs \in [Paths -> File] /\ dest \in Paths /\ Src(item) \in Paths
      /\ item \in Entry
  BY <1>1, SafeFacts
<1>3. CASE fs'[Src(item)] = Whole(item)
  BY <1>1, <1>2, <1>3, PlacesFacts DEF Moves
<1>4. CASE /\ MoveUnlink /\ fs[dest] = Whole(item) /\ fs'[dest] = Whole(item) /\ fs'[Src(item)] # Whole(item)
           /\ dest # Src(item)
  <2>1. op = "MOVE"
    BY <1>4 DEF MoveUnlink, Inv, WorkOK
  <2>2. Places(fs', item) = {"elsewhere"} /\ Places(fs, item) # {}
    BY <1>2, <1>4, PlacesFacts
  <2> QED BY <2>1, <2>2 DEF Moves
<1> QED BY <1>3, <1>4, FileKept

LEMMA ChildMoves ==
  ASSUME Inv, Safe, ChildRuns
  PROVE  Moves(Places(fs, item), Places(fs', item))
<1> DEFINE s == fs[Src(item)]
           d == fs[dest]
           w == Places(fs, item)
           v == Places(fs', item)
<1>1. pc = "go" /\ pc \in Transferring /\ item \in DirEntry /\ item \notin spoiled
  BY DEF ChildRuns, Transferring, Inv, TypeOK
<1>11. CASE fs' = fs
  BY <1>11 DEF Moves
<1> SUFFICES ASSUME dest # Src(item) PROVE Moves(w, v)
  BY <1>11 DEF ChildRuns
<1>2. /\ item \in Entry /\ fs \in [Paths -> File] /\ dest \in Paths /\ Src(item) \in Paths
      /\ dest # Src(item) /\ s \in File /\ d \in File /\ Holds(item, s) /\ s.have <= Size[item]
      /\ s.have \in Nat /\ d.have \in Nat /\ Size[item] \in Nat /\ None \in File
      /\ op \in {"COPY", "MOVE"} /\ (d.of = item => Holds(item, d))
      /\ \A c \in File : WriteTo(dest, c) = [fs EXCEPT ![dest] = c]
  BY <1>1, SafeFacts, PartFacts, WorkFacts, WholeFacts DEF File
<1>3. \A c \in File : c = Whole(item) <=> Holds(item, c) /\ c.have = Size[item]
  BY <1>2, WholeFacts
<1>4. ASSUME NEW j \in 0 .. s.have, fs' = WriteTo(dest, Merged(j))
      PROVE  Moves(w, v)
  <2>1. Merged(j) \in File /\ Holds(item, Merged(j))
    BY <1>2, <1>4, MaxOfTwo, PartFacts DEF Merged
  <2>2. Merged(j) = Whole(item) => s = Whole(item) \/ d = Whole(item)
    <3>1. Merged(j).have \in {j, IF d.of = item THEN d.have ELSE j}
      BY <1>2, <1>4, MaxOfTwo, PartFacts DEF Merged
    <3> QED BY <1>2, <1>3, <2>1, <3>1
  <2>3. d = Whole(item) => Merged(j) = Whole(item)
    <3>1. d = Whole(item) => d.of = item /\ Max({j, d.have}) = Size[item]
      BY <1>2, WholeFacts, MaxOfTwo
    <3> QED BY <3>1 DEF Merged, Whole
  <2>4. fs'[dest] = Merged(j) /\ \A q \in Paths : q # dest => fs'[q] = fs[q]
    BY <1>2, <1>4, <2>1
  <2>5. v = w \/ (w # {} /\ v = w \cup {"elsewhere"})
    <3>1. "source" \in v <=> "source" \in w
      BY <1>2, <2>4, PlacesFacts
    <3>2. "elsewhere" \in w => "elsewhere" \in v
      BY <1>2, <2>3, <2>4, PlacesFacts
    <3>3. "elsewhere" \in v => w # {}
      BY <1>2, <2>2, <2>4, PlacesFacts
    <3>4. w \in SUBSET {"source", "elsewhere"} /\ v \in SUBSET {"source", "elsewhere"}
      BY <1>2, PlacesFacts
    <3> HIDE DEF w, v
    <3> QED BY <3>1, <3>2, <3>3, <3>4, TwoPlaces
  <2> QED BY <1>2, <2>5 DEF Moves
<1>5. ASSUME NEW c \in File, c.have <= s.have, Holds(item, c) \/ c = None, MoveTo(s, c), Empty(dest),
             op = "MOVE"
      PROVE  Moves(w, v)
  <2>1. fs' = [fs EXCEPT ![dest] = s, ![Src(item)] = c]
    BY <1>2, <1>5 DEF MoveTo
  <2>2. fs'[dest] = s /\ fs'[Src(item)] = c /\ \A q \in Paths : q \notin {dest, Src(item)} => fs'[q] = fs[q]
    BY <1>2, <2>1
  <2>3. CASE s = Whole(item)
    <3>1. "source" \in w /\ "elsewhere" \in v
      BY <1>2, <2>2, <2>3, PlacesFacts
    <3>2. v = {"elsewhere"} \/ v = w \cup {"elsewhere"}
      BY <1>2, <3>1, PlacesFacts
    <3> QED BY <1>2, <1>5, <3>1, <3>2 DEF Moves
  <2>4. CASE s # Whole(item)
    <3>1. s.have < Size[item]
      BY <1>2, <1>3, <2>4
    <3>2. d # Whole(item) /\ c # Whole(item)
      <4>1. c.have \in Nat /\ d.have = 0
        BY <1>5 DEF File, Empty
      <4> QED BY <1>2, <1>3, <1>5, <3>1, <4>1, WholeFacts
    <3>3. \A q \in Paths : fs'[q] = Whole(item) <=> fs[q] = Whole(item)
      BY <2>2, <2>4, <3>2
    <3>4. v = w
      BY <3>3 DEF Places
    <3> QED BY <3>4 DEF Moves
  <2> QED BY <2>3, <2>4
<1>6. /\ \A j \in 0 .. s.have : Part(item, j) \in File /\ Part(item, j).have <= s.have /\ Holds(item, Part(item, j))
      /\ None.have <= s.have /\ s.have \in 0 .. s.have
  BY <1>2, PartFacts DEF None
<1>7. CASE fs' = fs
  BY <1>7 DEF Moves
<1>8. CASE \E j \in 0 .. s.have : fs' = WriteTo(dest, Merged(j))
  BY <1>4, <1>8
<1>9. CASE \E c \in File : /\ c.have <= s.have /\ (Holds(item, c) \/ c = None)
                           /\ MoveTo(s, c) /\ Empty(dest) /\ op = "MOVE"
  BY <1>5, <1>9
<1>10. fs' = fs \/ (\E j \in 0 .. s.have : fs' = WriteTo(dest, Merged(j)))
       \/ \E c \in File : /\ c.have <= s.have /\ (Holds(item, c) \/ c = None)
                          /\ MoveTo(s, c) /\ Empty(dest) /\ op = "MOVE"
  <2>1. op = "COPY" \/ Empty(dest) => op = "COPY" \/ (op = "MOVE" /\ Empty(dest))
    BY <1>2
  <2> QED BY <1>2, <1>6, <2>1 DEF ChildRuns
<1> QED BY <1>7, <1>8, <1>9, <1>10

LEMMA DeleteMoves ==
  ASSUME Inv, Safe, Delete
  PROVE  Moves(Places(fs, item), Places(fs', item))
<1>1. op = "DELETE" /\ item \in Entry /\ Src(item) \in Paths /\ fs \in [Paths -> File] /\ Size[item] \in Nat
  BY TypeFacts, PathsApart, WholeFacts DEF Delete, Inv, WorkOK, Own
<1>2. /\ \A q \in Paths : q # Src(item) => fs'[q] = fs[q]
      /\ fs'[Src(item)] = Whole(item) => fs[Src(item)] = Whole(item)
  <2>1. CASE fs' = fs
    BY <2>1
  <2>2. CASE fs' = Unlinked(Src(item))
    BY <1>1, <2>2, WholeFacts DEF Unlinked, None
  <2>3. CASE item \in DirEntry /\ \E k \in 0 .. fs[Src(item)].have : fs' = [fs EXCEPT ![Src(item)].have = k]
    <3>1. PICK k \in 0 .. fs[Src(item)].have : fs' = [fs EXCEPT ![Src(item)].have = k]
      BY <2>3
    <3>2. /\ fs[Src(item)] \in File /\ fs[Src(item)].have \in Nat
          /\ fs'[Src(item)] = [fs[Src(item)] EXCEPT !.have = k]
          /\ \A q \in Paths : q # Src(item) => fs'[q] = fs[q]
      BY <1>1, <3>1 DEF File
    <3>3. fs'[Src(item)].of = fs[Src(item)].of /\ fs'[Src(item)].have = k
          /\ fs'[Src(item)].kind = fs[Src(item)].kind
      BY <3>2 DEF File
    <3>4. ASSUME fs'[Src(item)] = Whole(item)
          PROVE  fs[Src(item)] = Whole(item)
      <4>1. fs[Src(item)].of = item /\ k = Size[item]
        BY <1>1, <3>3, <3>4, WholeFacts
      <4>2. fs[Src(item)].have <= Size[item] /\ fs[Src(item)].have >= k
        BY <1>1, <2>3, <3>2, <4>1 DEF Safe, WholeOK, Inv, TypeOK
      <4>3. fs[Src(item)].have = Size[item]
        BY <1>1, <3>2, <4>1, <4>2
      <4>4. fs[Src(item)] = Part(item, fs[Src(item)].have) /\ Whole(item) = Part(item, Size[item])
        <5>1. Holds(item, Whole(item))
          BY <1>1, WholeFacts
        <5>2. Holds(item, fs[Src(item)])
          BY <3>3, <3>4, <4>1, <5>1 DEF Holds
        <5> QED BY <1>1, <3>2, <5>2, WholeFacts
      <4> QED BY <4>3, <4>4
    <3> QED BY <3>2, <3>4
  <2> QED BY <2>1, <2>2, <2>3 DEF Delete
<1>3. Places(fs', item) = Places(fs, item) \/ Places(fs', item) = Places(fs, item) \ {"source"}
  <2>1. "elsewhere" \in Places(fs', item) <=> "elsewhere" \in Places(fs, item)
    BY <1>1, <1>2, PlacesFacts
  <2>2. "source" \in Places(fs', item) => "source" \in Places(fs, item)
    BY <1>1, <1>2, PlacesFacts
  <2> DEFINE w == Places(fs, item)
             v == Places(fs', item)
  <2>3. w \in SUBSET {"source", "elsewhere"} /\ v \in SUBSET {"source", "elsewhere"}
    BY <1>1, PlacesFacts
  <2> HIDE DEF w, v
  <2> QED BY <2>1, <2>2, <2>3, TwoPlaces DEF w, v
<1> QED BY <1>1, <1>3 DEF Moves

(* When the work on an entry ends well, what was asked has been done.      *)
LEMMA DoneInit == Init => DoneOK
BY InitFacts DEF DoneOK

LEMMA DoneStep ==
  ASSUME Inv, Safe, NoSpecial, DoneOK, [Next]_vars, Faults = {}
  PROVE  DoneOK'
<1> SUFFICES ASSUME pc' = "ret", res' = "OK"
             PROVE  /\ op' = "COPY" /\ item' \notin spoiled' /\ fs'[Src(item')] = Whole(item') =>
                         fs'[Dst(item')] = Whole(item') \/ fs'[Nested(item')] = Whole(item')
                    /\ op' \in {"MOVE", "DELETE"} => fs'[Src(item')].kind = "none"
  BY DEF DoneOK, Exists, Whole, Part, Kind
<1>1. CASE Interrupt \/ UNCHANGED vars
  <2>1. UNCHANGED <<fs, op, item, pc, res, spoiled>>
    BY <1>1 DEF Interrupt, vars, control
  <2> QED BY <2>1 DEF DoneOK, Exists
<1>2. CASE MoveUnlink \/ Delete
  <2>1. UNCHANGED <<op, item>> /\ item \in Entry /\ Src(item) \in Paths /\ fs \in [Paths -> File]
    BY <1>2, TypeFacts, PathsApart DEF MoveUnlink, Delete, control, Inv, WorkOK, Transferring, Own
  <2>2. fs' = [fs EXCEPT ![Src(item)] = None] /\ op \in {"MOVE", "DELETE"}
    BY <1>2 DEF MoveUnlink, Delete, Return, Unlinked, Inv, WorkOK
  <2> QED BY <2>1, <2>2 DEF None
<1>3. CASE CopyOpen \/ CopyBuffer
  <2>1. pc \in Transferring /\ item \notin DirEntry /\ op = "COPY" /\ UNCHANGED <<op, item, dest>>
    BY <1>3 DEF CopyOpen, CopyBuffer, CopyReturn, Return, Abandon, Transferred, Transferring, control,
       Inv, WorkOK
  <2> SUFFICES ASSUME item \notin spoiled'
               PROVE  fs'[Dst(item)] = Whole(item) \/ fs'[Nested(item)] = Whole(item)
    BY <2>1
  <2>a. item \notin spoiled /\ Src(item) \notin Aliases(dest)
    <3>1. CASE CopyOpen
      BY <3>1 DEF CopyOpen, OntoItself, Return
    <3>2. CASE CopyBuffer
      BY <3>2 DEF CopyBuffer, Safe, LoopApart
    <3> QED BY <1>3, <3>1, <3>2
  <2>2. item \in Entry /\ dest \in {Dst(item), Nested(item)} /\ dest \in Paths /\ fs \in [Paths -> File]
        /\ \A c \in File : WriteTo(dest, c) = [fs EXCEPT ![dest] = c]
    BY <2>1, <2>a, SafeFacts DEF Own
  <2>3. fs'[dest].of = item
    <3>1. CASE CopyOpen
      <4>1. Part(item, 0) \in File /\ Part(item, 0).of = item
        BY <2>2, PartFacts
      <4>2. fs' = WriteTo(dest, Part(item, 0))
        BY <2>2, <3>1 DEF CopyOpen, Return, NoSpecial
      <4> QED BY <2>2, <4>1, <4>2
    <3>2. CASE CopyBuffer
      <4>1. fs' = fs /\ pc = "loop"
        BY <3>2 DEF CopyBuffer, CopyReturn, Return, Abandon, Transferred
      <4> QED BY <2>2, <4>1 DEF Inv, WritingOK, NoSpecial, Holds
    <3> QED BY <1>3, <3>1, <3>2
  <2>4. WholeOK'
    BY <1>3, OpenWhole, BufferWhole
  <2>5. fs'[dest] = Whole(item)
    <3>1. Whole(item)' = Whole(item)
      BY <2>1 DEF Whole, Part, Kind
    <3> QED BY <2>1, <2>2, <2>3, <2>4 DEF WholeOK, Whole, Part, Kind
  <2> QED BY <2>1, <2>2, <2>5
<1>4. CASE ChildRuns
  <2> DEFINE s == fs[Src(item)]
             d == fs[dest]
  <2>1. /\ pc = "go" /\ pc \in Transferring /\ UNCHANGED <<op, item, dest>>
        /\ item \in DirEntry /\ item \notin spoiled /\ dest # Src(item)
    BY <1>4 DEF ChildRuns, Transferring, control, Inv, TypeOK, Return
  <2>2. /\ item \in Entry /\ dest \in {Dst(item), Nested(item)} /\ dest \in Paths /\ Src(item) \in Paths
        /\ fs \in [Paths -> File] /\ s \in File /\ s.have \in Nat /\ d \in File /\ d.have \in Nat
        /\ dest # Src(item) /\ None \in File /\ Size[item] \in Nat
        /\ \A c \in File : WriteTo(dest, c) = [fs EXCEPT ![dest] = c]
    BY <2>1, SafeFacts, PartFacts DEF Own, File
  <2>3. \/ op = "COPY" /\ fs' = WriteTo(dest, Merged(s.have))
        \/ op = "MOVE" /\ MoveTo(s, None)
    BY <1>4 DEF ChildRuns, Return
  <2>4. CASE op = "MOVE" /\ MoveTo(s, None)
    <3>1. fs' = [fs EXCEPT ![dest] = s, ![Src(item)] = None]
      BY <2>2, <2>4 DEF MoveTo
    <3> QED BY <2>1, <2>2, <2>4, <3>1 DEF None
  <2>5. CASE op = "COPY" /\ fs' = WriteTo(dest, Merged(s.have))
    <3>1. Merged(s.have) \in File
      BY <2>2, MaxOfTwo, PartFacts DEF Merged
    <3>2. fs'[dest] = Merged(s.have) /\ fs'[Src(item)] = s
      BY <2>2, <2>5, <3>1
    <3>3. s = Whole(item) => Merged(s.have) = Whole(item)
      <4>1. s = Whole(item) => s.have = Size[item]
        BY <2>2, WholeFacts
      <4>2. d.of = item => d.have <= Size[item]
        BY <2>1, <2>2 DEF Safe, WholeOK
      <4>3. s = Whole(item) /\ d.of = item => Max({s.have, d.have}) = Size[item]
        BY <2>2, <4>1, <4>2, MaxOfTwo
      <4> QED BY <4>1, <4>3 DEF Merged, Whole
    <3> QED BY <2>1, <2>2, <2>5, <3>2, <3>3
  <2> QED BY <2>3, <2>4, <2>5
<1>5. CASE User \/ PickNext \/ Target \/ Dispatch \/ CopyPrologueAgain \/ MoveLink \/ DeleteAsk \/ EntryDone \/ Finish
  BY <1>5 DEF User, Toggle, BeginOne, BeginMany, BeginDelete, Begin, Idle, PickNext, Target, Dispatch,
     CopyPrologueAgain, MoveLink, LinkFailed, DeleteAsk, EntryDone, Finish, Return, Ask
<1> QED BY <1>1, <1>2, <1>3, <1>4, <1>5 DEF Next, Work


LEMMA TransferInit == Init => T!Init
<1> SUFFICES ASSUME Init PROVE T!Init
  OBVIOUS
<1>1. ASSUME NEW e \in Entry
      PROVE  WholeAt(e) \in {{"source"}, {"source", "elsewhere"}}
  <2>1. "source" \in Places(fs, e) /\ Places(fs, e) \in SUBSET {"source", "elsewhere"}
    BY InitFacts, PlacesFacts
  <2>2. Places(fs, e) = {"source"} \/ Places(fs, e) = {"source", "elsewhere"}
    BY <2>1
  <2> QED BY <2>2, WholePlaces, InitFacts
<1>2. [e \in Entry |-> WholeAt(e)] \in [Entry -> {{"source"}, {"source", "elsewhere"}}]
  BY <1>1
<1> QED BY <1>2, InitFacts DEF T!Init, T!Place

LEMMA TransferStep ==
  ASSUME Inv, Safe, NoSpecial, DoneOK, [Next]_vars, Faults = {}
  PROVE  [T!Next]_(T!vars)
<1> DEFINE W == [e \in Entry |-> WholeAt(e)]
<1>1. /\ W = [e \in Entry |-> IF e \in spoiled THEN {} ELSE Places(fs, e)]
      /\ W' = [e \in Entry |-> IF e \in spoiled' THEN {} ELSE Places(fs', e)]
  BY WholePlaces
<1>2. UNCHANGED <<fs, spoiled>> => W' = W
  BY <1>1
<1>3. ASSUME Changes, item \in Entry, spoiled \subseteq spoiled', spoiled' \subseteq spoiled \cup {item}
      PROVE  W' = [W EXCEPT ![item] = IF item \in spoiled' THEN {} ELSE Places(fs', item)]
  BY <1>1, <1>3, OthersPlaces
<1>4. CASE User
  <2>1. op = "none" /\ UNCHANGED <<fs, spoiled>>
    BY <1>4 DEF User, Toggle, BeginOne, BeginMany, BeginDelete, Begin, Idle, Inv, WorkOK
  <2>2. CASE \E e \in Entry : Toggle(e)
    <3>1. PICK e \in Entry : Toggle(e)
      BY <2>2
    <3>2. op' = op /\ (selected' = selected \cup {e} \/ selected' = selected \ {e})
      BY <3>1 DEF Toggle, control
    <3>3. T!Mark(e)
      BY <1>2, <2>1, <3>2 DEF T!Mark
    <3> QED BY <3>3 DEF T!Next
  <2>3. CASE UNCHANGED selected /\ op' \in {"COPY", "MOVE", "DELETE"}
    BY <1>2, <2>1, <2>3 DEF T!Next, T!Begin
  <2> QED BY <1>4, <2>2, <2>3 DEF User, BeginOne, BeginMany, BeginDelete, Begin
<1>5. CASE ChildRuns \/ CopyOpen \/ CopyBuffer \/ MoveLink \/ MoveUnlink \/ Delete
  <2> DEFINE w == Places(fs, item)
             v == Places(fs', item)
  <2>1. /\ op' = op /\ selected' = selected /\ item \in Entry
        /\ spoiled' = spoiled \/ (spoiled' = spoiled \cup {item} /\ op \in {"COPY", "MOVE"})
    BY <1>5 DEF ChildRuns, CopyOpen, CopyBuffer, MoveLink, MoveUnlink, Delete, control, Inv, WorkOK,
       Transferring
  <2>2. Changes
    BY <1>5, ChildChanges, OpenChanges, BufferChanges, LinkStepChanges, UnlinkChanges, DeleteChanges
  <2>a. CASE item \in spoiled' /\ item \notin spoiled
    <3>1. W' = [W EXCEPT ![item] = {}] /\ spoiled' = spoiled \cup {item} /\ op \in {"COPY", "MOVE"}
      BY <1>3, <2>1, <2>2, <2>a
    <3>2. T!Spoil(item)
      BY <2>1, <3>1 DEF T!Spoil
    <3> QED BY <2>1, <3>2 DEF T!Next
  <2>b. CASE item \in spoiled
    <3>1. spoiled' = spoiled
      BY <2>1, <2>b
    <3>2. W' = W
      BY <1>1, <1>3, <2>1, <2>2, <2>b, <3>1
    <3> QED BY <2>1, <3>1, <3>2 DEF T!vars
  <2> SUFFICES ASSUME item \notin spoiled' PROVE [T!Next]_(T!vars)
    BY <2>1, <2>a, <2>b
  <2>c. spoiled' = spoiled
    BY <2>1
  <2>3. Moves(w, v)
    BY <1>5, FileMoves, ChildMoves, DeleteMoves
  <2>4. W' = [W EXCEPT ![item] = v] /\ W[item] = w
    BY <1>1, <1>3, <2>1, <2>2, <2>c
  <2>5. CASE v = w
    <3>1. W' = W
      BY <1>1, <2>1, <2>4, <2>5
    <3> QED BY <2>1, <2>c, <3>1 DEF T!vars
  <2>6. CASE op \in {"COPY", "MOVE"} /\ w # {} /\ v = w \cup {"elsewhere"}
    <3>1. T!Arrive(item)
      BY <2>1, <2>c, <2>4, <2>6 DEF T!Arrive, T!Becomes
    <3> QED BY <2>1, <3>1 DEF T!Next
  <2>7. CASE op \in {"COPY", "MOVE"} /\ "source" \in w /\ v = {"source"}
    <3>1. T!GiveUpCopy(item)
      BY <2>1, <2>c, <2>4, <2>7 DEF T!GiveUpCopy, T!Becomes
    <3> QED BY <2>1, <3>1 DEF T!Next
  <2>8. CASE op = "MOVE" /\ w # {} /\ v = {"elsewhere"}
    <3>1. T!Leave(item)
      BY <2>1, <2>c, <2>4, <2>8 DEF T!Leave, T!Becomes
    <3> QED BY <2>1, <3>1 DEF T!Next
  <2>9. CASE op = "DELETE" /\ v = w \ {"source"}
    <3>1. T!Delete(item)
      BY <2>1, <2>c, <2>4, <2>9 DEF T!Delete, T!Becomes
    <3> QED BY <2>1, <3>1 DEF T!Next
  <2> QED BY <2>3, <2>5, <2>6, <2>7, <2>8, <2>9 DEF Moves
<1>6. CASE EntryDone
  <2>1. /\ pc = "ret" /\ op' = op /\ UNCHANGED <<fs, spoiled>> /\ op \in {"COPY", "MOVE", "DELETE"} /\ item \in Entry
        /\ selected' = selected \/ (multi /\ res = "OK" /\ selected' = selected \ {item})
    BY <1>6 DEF EntryDone, control, StillSelected, Inv, TypeOK, WorkOK
  <2>2. CASE selected' = selected
    BY <1>2, <2>1, <2>2 DEF T!vars
  <2>3. CASE multi /\ res = "OK" /\ selected' = selected \ {item}
    <3>1. item \in selected
      BY <2>1, <2>3 DEF Inv, SourceOK
    <3>2. W[item] = IF item \in spoiled THEN {} ELSE Places(fs, item)
      BY <1>1, <2>1
    <3>3. op = "COPY" => "elsewhere" \in W[item] \/ "source" \notin W[item]
      <4>1. Dst(item) \in Paths \ {Src(item)} /\ Nested(item) \in Paths \ {Src(item)}
        BY <2>1, PathsApart DEF Own
      <4> QED BY <2>1, <2>3, <3>2, <4>1, PlacesFacts DEF DoneOK
    <3>4. op \in {"MOVE", "DELETE"} => "source" \notin W[item]
      <4>1. Whole(item).kind # "none"
        BY <2>1, WholeFacts, PartFacts DEF Holds
      <4> QED BY <2>1, <2>3, <3>2, <4>1, PlacesFacts DEF DoneOK, Exists
    <3>5. T!Done(item)
      BY <3>3, <3>4 DEF T!Done
    <3>6. T!Unmark(item)
      BY <1>2, <2>1, <2>3, <3>1, <3>5 DEF T!Unmark
    <3> QED BY <2>1, <3>6 DEF T!Next
  <2> QED BY <2>1, <2>2, <2>3
<1>7. CASE Finish
  <2>1. op # "none" /\ op' = "none" /\ UNCHANGED <<fs, spoiled>> /\ selected' = {e \in selected : Exists(Src(e))}
        /\ selected \subseteq Entry
    BY <1>7, TypeFacts DEF Finish, Inv, WorkOK
  <2>2. \A e \in selected : "source" \in W[e] => Exists(Src(e))
    <3> SUFFICES ASSUME NEW e \in selected, "source" \in W[e] PROVE Exists(Src(e))
      OBVIOUS
    <3>1. fs[Src(e)] = Whole(e) /\ e \in Entry
      BY <1>1, <2>1, PlacesFacts
    <3> QED BY <3>1, WholeFacts, PartFacts DEF Exists, Holds
  <2>3. T!End
    BY <1>2, <2>1, <2>2 DEF T!End
  <2> QED BY <2>3 DEF T!Next
<1>8. CASE PickNext \/ Target \/ Dispatch \/ CopyPrologueAgain \/ DeleteAsk \/ Interrupt \/ UNCHANGED vars
  <2>1. UNCHANGED <<fs, op, selected, spoiled>>
    BY <1>8 DEF PickNext, Target, Dispatch, CopyPrologueAgain, DeleteAsk, Interrupt, vars, control
  <2> QED BY <1>2, <2>1 DEF T!vars
<1> QED BY <1>4, <1>5, <1>6, <1>7, <1>8 DEF Next, Work

(* When every child that is asked for runs, reads are complete, and no     *)
(* destination is a device or a FIFO, the calls of copy, move and delete   *)
(* implement the safety of module Transfer, which knows nothing of how     *)
(* they are done: contents arrive before the source goes, a mark goes only *)
(* when what was asked has been done, and an entry is given up only by     *)
(* putting it onto itself.                                                 *)
THEOREM TransferImplemented ==
  ASSUME Faults = {}
  PROVE  Spec => T!Init /\ [][T!Next]_(T!vars)
<1> DEFINE J == Inv /\ Safe /\ NoSpecial /\ DoneOK
<1>1. Init => J
  BY InvInit, SafeInit, NoSpecialInit, DoneInit
<1>2. J /\ [Next]_vars => J'
  BY InvStep, SafeStep, NoSpecialStep, DoneStep
<1>3. J /\ [Next]_vars => [T!Next]_(T!vars)
  BY TransferStep
<1> QED BY <1>1, <1>2, <1>3, TransferInit, PTL DEF Spec

-----------------------------------------------------------------------------
(* An operation ends.  What is left of it: the entries after the one that  *)
(* is worked on, then the stage of the work on that entry, then the        *)
(* buffers to copy; and ^C can be pressed once before it is noticed.       *)

Stage(p) ==
  CASE p = "idle" -> 0 [] p = "done" -> 1 [] p = "pick" -> 2 [] p = "ret" -> 3
    [] p \in {"unlink", "delete"} -> 4 [] p \in {"loop", "link"} -> 5
    [] p = "open" -> 6 [] p = "again" -> 7 [] p = "go" -> 8 [] p = "file" -> 9

Buffers == IF pc = "loop" /\ n < fs[Src(item)].have THEN fs[Src(item)].have - n ELSE 0

Within == 2 * Buffers + (IF attack THEN 0 ELSE 1)

Left == <<Cardinality(Remaining), <<Stage(pc), Within>>>>

Below  == {s \in Nat \X Nat : s[1] < s[2]}
Nearer == LexPairOrdering(Below, LexPairOrdering(Below, Below, Nat, Nat), Nat, Nat \X Nat)

LEMMA NearerWellFounded == IsWellFoundedOn(Nearer, Nat \X (Nat \X Nat))
<1>1. IsWellFoundedOn(Below, Nat)
  <2> SUFFICES ASSUME NEW S \in SUBSET Nat, S # {}
               PROVE  \E x \in S : \A y \in S : ~(<<y, x>> \in Below)
    BY MinWF DEF Below
  <2>1. Min(S) \in S /\ \A y \in S : Min(S) <= y
    BY MinIsLeast
  <2>2. \A y \in S : ~(<<y, Min(S)>> \in Below)
    BY <2>1 DEF Below
  <2> QED BY <2>1, <2>2
<1>2. IsWellFoundedOn(LexPairOrdering(Below, Below, Nat, Nat), Nat \X Nat)
  BY <1>1, WFLexPairOrdering
<1> QED BY <1>1, <1>2, WFLexPairOrdering DEF Nearer

LEMMA NearerIf ==
  ASSUME NEW a \in Nat, NEW b \in Nat, NEW c \in Nat,
         NEW x \in Nat, NEW y \in Nat, NEW z \in Nat,
         a < x \/ (a = x /\ (b < y \/ (b = y /\ c < z)))
  PROVE  <<<<a, <<b, c>>>>, <<x, <<y, z>>>>>> \in Nearer
BY DEF Nearer, Below, LexPairOrdering

LeftOK ==
  /\ IsFiniteSet(Remaining) /\ Cardinality(Remaining) \in Nat
  /\ Stage(pc) \in Nat /\ Buffers \in Nat /\ Within \in Nat

LEMMA LeftNumbers == Inv => LeftOK
<1> SUFFICES ASSUME Inv PROVE LeftOK
  OBVIOUS
<1>1. Remaining \subseteq Entry /\ IsFiniteSet(Entry)
  BY FileOpsAssumption DEF Inv, TypeOK, Remaining
<1>2. IsFiniteSet(Remaining) /\ Cardinality(Remaining) \in Nat
  BY <1>1, FS_Subset, FS_CardinalityType
<1>3. Stage(pc) \in Nat
  BY DEF Inv, TypeOK, PCs, Stage
<1>4. Buffers \in Nat
  <2>1. CASE pc = "loop"
    <3>1. item \in Entry /\ n \in Nat /\ fs \in [Paths -> File]
      BY <2>1, TypeFacts DEF Inv, WorkOK, Transferring, TypeOK
    <3>2. fs[Src(item)].have \in Nat
      BY <3>1, PathsApart DEF Own, File
    <3> QED BY <3>1, <3>2 DEF Buffers
  <2> QED BY <2>1 DEF Buffers
<1> QED BY <1>2, <1>3, <1>4 DEF Within, LeftOK

LEMMA LeftNumbersNext ==
  ASSUME Inv, [Next]_vars
  PROVE  LeftOK'
<1>1. Inv'
  BY InvStep
<1> QED BY <1>1, LeftNumbers, PTL

LEMMA NextStage ==
  ASSUME Inv, Work, ~CopyBuffer, ~(PickNext /\ Remaining # {})
  PROVE  Stage(pc') < Stage(pc)
<1>1. CASE PickNext \/ EntryDone \/ Finish
  BY <1>1 DEF PickNext, EntryDone, Finish, Stage
<1>2. CASE Target \/ CopyPrologueAgain
  BY <1>2 DEF Target, CopyPrologueAgain, Ask, Return, Stage
<1>3. CASE Dispatch \/ ChildRuns
  BY <1>3 DEF Dispatch, ChildRuns, Return, Stage
<1>4. CASE CopyOpen \/ MoveLink \/ MoveUnlink
  BY <1>4 DEF CopyOpen, CopyReturn, MoveLink, LinkFailed, MoveUnlink, Return, Stage
<1>5. CASE DeleteAsk \/ Delete
  BY <1>5 DEF DeleteAsk, Delete, Return, Stage
<1> QED BY <1>1, <1>2, <1>3, <1>4, <1>5 DEF Work

(* Only going on to the next entry moves the entry; a mark can only go.    *)
LEMMA RemainingShrinks ==
  ASSUME Inv, Work \/ Interrupt, ~(PickNext /\ Remaining # {})
  PROVE  Cardinality(Remaining') <= Cardinality(Remaining)
<1>1. item' = item /\ selected' \subseteq selected
  BY DEF Work, PickNext, Target, Dispatch, CopyPrologueAgain, ChildRuns, CopyOpen, CopyBuffer, MoveLink,
     MoveUnlink, DeleteAsk, Delete, EntryDone, StillSelected, Finish, Interrupt, control
<1>2. Remaining' \subseteq Remaining
  BY <1>1 DEF Remaining
<1> QED BY <1>2, LeftNumbers, FS_Subset DEF LeftOK

LEMMA PickShrinks ==
  ASSUME Inv, PickNext, Remaining # {}
  PROVE  Cardinality(Remaining') < Cardinality(Remaining)
<1>1. Remaining \in SUBSET Nat /\ item \in Nat
  BY TypeFacts DEF Inv, TypeOK, Remaining
<1>2. item' = Min(Remaining) /\ selected' = selected
  BY DEF PickNext, Picked
<1>3. Min(Remaining) \in Remaining
  BY <1>1, MinIsLeast
<1>4. item' \in Remaining /\ item' \in Nat /\ item' > item
  BY <1>1, <1>2, <1>3 DEF Remaining
<1>5. Remaining' \subseteq Remaining /\ item' \notin Remaining'
  <2>1. Remaining' = {e \in selected : e > item'}
    BY <1>2 DEF Remaining
  <2>2. \A e \in selected : e \in Nat
    BY TypeFacts DEF Inv
  <2>3. \A e \in selected : e > item' => e > item /\ e # item'
    BY <1>1, <1>4, <2>2
  <2> HIDE DEF Inv
  <2> QED BY <2>1, <2>3 DEF Remaining
<1>6. IsFiniteSet(Remaining)
  BY LeftNumbers DEF LeftOK
<1>7. Remaining' # Remaining
  BY <1>4, <1>5
<1> DEFINE R == Remaining
           S == Remaining'
<1>8. IsFiniteSet(S) /\ Cardinality(S) \in Nat /\ Cardinality(R) \in Nat
      /\ Cardinality(S) <= Cardinality(R) /\ (Cardinality(S) = Cardinality(R) => S = R)
  <2> HIDE DEF R, S
  <2>1. S \in SUBSET R /\ IsFiniteSet(R)
    BY <1>5, <1>6 DEF R, S
  <2> QED BY <2>1, FS_Subset, FS_CardinalityType
<1> QED BY <1>7, <1>8

(* Within the loop: a buffer less to copy.                                 *)
LEMMA BufferNearer ==
  ASSUME Inv, LoopApart, CopyBuffer
  PROVE  Stage(pc') < Stage(pc) \/ (Stage(pc') = Stage(pc) /\ Within' < Within)
<1>1. CASE pc' # "loop"
  BY <1>1 DEF CopyBuffer, Abandon, Return, CopyReturn, Transferred, Stage
<1>2. CASE pc' = "loop"
  <2>1. /\ pc = "loop" /\ n < fs[Src(item)].have /\ n' = n + 1 /\ attack' = FALSE /\ item' = item
        /\ fs' = fs \/ \E c : fs' = WriteTo(dest, c)
    BY <1>2 DEF CopyBuffer, Abandon, Return, CopyReturn, Transferred, NotCanceled, control
  <2>2. item \in Entry /\ n \in Nat /\ fs \in [Paths -> File] /\ Src(item) \in Paths
    BY <2>1, TypeFacts, PathsApart DEF Inv, WorkOK, Transferring, TypeOK, Own
  <2>3. fs'[Src(item)] = fs[Src(item)]
    BY <2>1, <2>2 DEF LoopApart, WriteTo
  <2>4. fs[Src(item)].have \in Nat
    BY <2>2 DEF File
  <2> DEFINE h == fs[Src(item)].have
  <2>5. Src(item)' = Src(item)
    BY <2>1 DEF Src
  <2>6. Buffers = h - n /\ Buffers' = h - (n + 1)
    <3>1. Buffers = h - n
      BY <2>1 DEF Buffers
    <3>2. fs'[Src(item')].have = h
      BY <2>1, <2>3
    <3>3. Buffers' = IF n + 1 < h THEN h - (n + 1) ELSE 0
      BY <1>2, <2>1, <3>2 DEF Buffers
    <3> HIDE DEF h
    <3>4. h \in Nat /\ n \in Nat /\ n < h
      BY <2>1, <2>2, <2>4 DEF h
    <3> QED BY <3>1, <3>3, <3>4
  <2> HIDE DEF h
  <2>7. Within' = 2 * Buffers' + 1 /\ Within \in {2 * Buffers, 2 * Buffers + 1}
    <3>1. Buffers \in Nat /\ Buffers' \in Nat
      BY LeftNumbers, LeftNumbersNext DEF LeftOK, Next, Work
    <3> QED BY <2>1, <3>1 DEF Within
  <2>8. Within' < Within
    BY <2>2, <2>4, <2>6, <2>7 DEF h
  <2> QED BY <1>2, <2>1, <2>8
<1> QED BY <1>1, <1>2

LEMMA InterruptNearer ==
  ASSUME Inv, Interrupt
  PROVE  Stage(pc') = Stage(pc) /\ Within' < Within
<1>1. pc' = pc /\ Buffers' = Buffers /\ ~attack /\ attack'
  BY DEF Interrupt, control, Buffers
<1>2. Within' = 2 * Buffers /\ Within = 2 * Buffers + 1 /\ Within \in Nat
  BY <1>1, LeftNumbers DEF Within, LeftOK
<1> QED BY <1>1, <1>2, LeftNumbers DEF LeftOK

LEMMA LeftStep ==
  ASSUME Inv, LoopApart, op # "none", [Next]_vars
  PROVE  UNCHANGED vars \/ <<Left', Left>> \in Nearer
<1> SUFFICES ASSUME Work \/ Interrupt
             PROVE  <<Left', Left>> \in Nearer
  BY DEF Next, User, Toggle, BeginOne, BeginMany, BeginDelete, Begin, Idle, Inv, WorkOK
<1> DEFINE a == Cardinality(Remaining')
           b == Stage(pc')
           c == Within'
           x == Cardinality(Remaining)
           y == Stage(pc)
           z == Within
<1>1. x \in Nat /\ y \in Nat /\ z \in Nat
  BY LeftNumbers DEF LeftOK
<1>2. a \in Nat /\ b \in Nat /\ c \in Nat
  BY LeftNumbersNext DEF LeftOK
<1>3. a < x \/ (a <= x /\ (b < y \/ (b = y /\ c < z)))
  <2>1. CASE PickNext /\ Remaining # {}
    BY <2>1, PickShrinks
  <2>2. CASE ~(PickNext /\ Remaining # {})
    <3>1. a <= x
      BY <2>2, RemainingShrinks
    <3>2. b < y \/ (b = y /\ c < z)
      BY <2>2, NextStage, BufferNearer, InterruptNearer
    <3> QED BY <3>1, <3>2
  <2> QED BY <2>1, <2>2
<1>4. Left' = <<a, <<b, c>>>> /\ Left = <<x, <<y, z>>>>
  BY DEF Left
<1> HIDE DEF a, b, c, x, y, z
<1>5. a < x \/ (a = x /\ (b < y \/ (b = y /\ c < z)))
  BY <1>1, <1>2, <1>3
<1>6. <<<<a, <<b, c>>>>, <<x, <<y, z>>>>>> \in Nearer
  BY <1>1, <1>2, <1>5, NearerIf
<1> QED BY <1>4, <1>6

(* No copy, move or deletion goes on forever, whichever calls fail, however *)
(* reads come back and however often ^C is pressed: every step of the       *)
(* operation, from its start until it has returned to the main loop, gets   *)
(* nearer to the end in an order that has no infinite descent.  It rests on *)
(* panel_copy's loop never writing into the file it reads.                  *)
THEOREM OperationsEnd ==
  /\ IsWellFoundedOn(Nearer, Nat \X (Nat \X Nat))
  /\ Spec => [][op # "none" => <<Left', Left>> \in Nearer]_vars
<1> DEFINE J == Inv /\ LoopApart
<1>1. Init => J
  BY InvInit, ApartInit
<1>2. J /\ [Next]_vars => J'
  BY InvStep, ApartStep
<1>3. J /\ [Next]_vars => [op # "none" => <<Left', Left>> \in Nearer]_vars
  BY LeftStep
<1>4. Spec => [][op # "none" => <<Left', Left>> \in Nearer]_vars
  BY <1>1, <1>2, <1>3, PTL DEF Spec
<1> QED BY <1>4, NearerWellFounded
=============================================================================
