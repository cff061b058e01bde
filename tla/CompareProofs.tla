---------------------------- MODULE CompareProofs ---------------------------
(***************************************************************************)
(* What a comparison says, for files of any length, buffers of any size    *)
(* and special files that are read in pieces of any size.                  *)
(***************************************************************************)
EXTENDS Compare, FiniteSetTheorems, SequenceTheorems, TLAPS

Agree(k) == \A i \in 1 .. k : Data("this")[i] = Data("other")[i]
Regular  == ~Special("this") /\ ~Special("other")

Reading   == pc \in {"open", "read"}
Comparing == Reading \/ pc = "compared"

TypeInv ==
  /\ entry \in [Side -> [Name -> File \cup {None}]]
  /\ first \in [Side -> Name \cup {DotDot}] /\ same_path \in BOOLEAN
  /\ marked \in [Side -> SUBSET Name] /\ selected_entries \in [Side -> Int]
  /\ pc \in {"idle", "open", "read", "compared", "next"}
  /\ job \in {"none", "compare", "quick", "thorough"}
  /\ todo \subseteq Name /\ pair \in [Side -> Name \cup {DotDot}]
  /\ n \in Nat /\ got \in [Side -> Nat] /\ result \in Int
  /\ message \in {"none", "cannot open", "cannot read", "ok", "same beginning", "differ", "aborted", "done"}

(* What is compared are two files the panels show.                         *)
PairOK ==
  /\ Comparing => job \in {"compare", "thorough"}
  /\ Comparing \/ Compared => \A s \in Side : pair[s] \in Name /\ Entry(s) \in File
  /\ pc = "next" => job \in {"quick", "thorough"}

(* While files are read n counts what was compared and got what was read.  *)
(* Once a special file returned less than the other, the two never meet    *)
(* again, and what n counts may be bytes from different offsets.           *)
ReadOK ==
  Reading =>
    /\ \A s \in Side : got[s] <= Len(Data(s)) /\ n <= got[s]
    /\ n = got["this"] /\ n = got["other"] => Agree(n)
    /\ Regular => /\ Agree(n)
                  /\ \/ n = got["this"] /\ n = got["other"]
                     \/ n = got["this"] /\ n = Len(Data("this")) /\ n < got["other"]
                     \/ n = got["other"] /\ n = Len(Data("other")) /\ n < got["this"]

(* The result is the offset where the files differ or the shorter one      *)
(* ends, and got their sizes.                                              *)
SameOK  == result = got["this"] /\ result = got["other"] /\ Data("this") = Data("other")
ShortOK ==
  /\ n = result /\ result = Smaller(got["this"], got["other"]) /\ got["this"] # got["other"] /\ Agree(n)
  /\ \/ n = Len(Data("this")) /\ n < Len(Data("other"))
     \/ n = Len(Data("other")) /\ n < Len(Data("this"))
DifferOK ==
  /\ n = result /\ result < got["this"] /\ result < got["other"]
  /\ n < Len(Data("this")) /\ n < Len(Data("other"))
  /\ Agree(n) /\ Data("this")[n + 1] # Data("other")[n + 1]

ResultOK ==
  (pc = "compared" \/ Compared) /\ AreCurrent =>
    /\ result = got["this"] /\ result = got["other"] /\ ~Unread(Entry("this"), Entry("other"))
         => Data("this") = Data("other")
    /\ Regular /\ result >= 0 => SameOK \/ ShortOK \/ DifferOK

MessageOK == Compared => message = Message

(* What CMPDIR has still to look at is marked in both panels, so that each *)
(* unmarking takes one away from the count.                                *)
MarksOK == \A s \in Side : marked[s] \subseteq Present(s)
Dirs    == pc = "next" \/ (Comparing /\ job = "thorough")
TodoOK ==
  Dirs =>
    /\ todo \subseteq Looked("this") /\ todo \subseteq marked["this"]
    /\ todo \cap Looked("other") \subseteq marked["other"]
    /\ Comparing => /\ pair["this"] = pair["other"] /\ pair["this"] \notin todo
                    /\ \A s \in Side : pair[s] \in Looked(s) /\ pair[s] \in marked[s]

Other(s) == IF s = "this" THEN "other" ELSE "this"
CoveredFrom(s, x) ==
  LET e == entry[s][x]
      f == entry[Other(s)][x]
  IN /\ e # None /\ e.type # "dir" /\ x \notin marked[s]
     /\ f # None => Current(s, x) /\ Current(Other(s), x) /\ ~Unread(e, f)
     => /\ f # None
        /\ \/ x \in marked[Other(s)] /\ f.mtime >= e.mtime
           \/ x \notin marked[Other(s)] /\ Identical(x, x)
CoverOK ==
  job = "thorough" /\ (Dirs \/ message = "done") =>
    \A s \in Side, x \in Name : CoveredFrom(s, x)

Inv == TypeInv /\ PairOK /\ ReadOK /\ ResultOK /\ MessageOK /\ MarksOK /\ CountKept /\ TodoOK /\ CoverOK

-----------------------------------------------------------------------------
(* What the actions read.                                                  *)

LEMMA LeastOf ==
  ASSUME NEW S \in SUBSET Nat, S # {}
  PROVE  \E m \in S : \A y \in S : m <= y
<1> DEFINE X == {0 .. x : x \in S}
           R == StrictSubsetOrdering(Nat)
<1>1. X \subseteq FiniteSubsetsOf(Nat) /\ X # {}
  <2>1. \A x \in S : 0 .. x \in SUBSET Nat /\ IsFiniteSet(0 .. x)
    BY FS_Interval
  <2> QED BY <2>1 DEF FiniteSubsetsOf
<1>2. PICK t \in X : \A u \in X : <<u, t>> \notin R
  <2> HIDE DEF X, R
  <2>1. IsWellFoundedOn(R, FiniteSubsetsOf(Nat))
    BY FS_StrictSubsetOrderingWellFounded DEF R
  <2> QED BY <1>1, <2>1, WFMin
<1>3. PICK x \in S : t = 0 .. x
  BY <1>2
<1>4. ASSUME NEW y \in S PROVE x <= y
  <2>1. 0 .. y \in X /\ 0 .. x \in SUBSET Nat /\ 0 .. y \in SUBSET Nat
    OBVIOUS
  <2>2. <<0 .. y, 0 .. x>> \notin R
    <3> HIDE DEF X, R
    <3> QED BY <1>2, <1>3, <2>1
  <2>3. 0 .. y = 0 .. x \/ ~(0 .. y \subseteq 0 .. x)
    BY <2>1, <2>2 DEF StrictSubsetOrdering
  <2>4. y < x => x \in 0 .. x /\ x \notin 0 .. y /\ 0 .. y \subseteq 0 .. x
    OBVIOUS
  <2> QED BY <2>3, <2>4
<1> QED BY <1>4

(* Two pieces of the same length that differ do so somewhere first.        *)
LEMMA FirstDifferenceIsFirst ==
  ASSUME NEW k \in Nat, NEW a \in Seq(Nat), NEW b \in Seq(Nat), Len(a) = k, Len(b) = k, a # b
  PROVE  /\ FirstDifference(a, b) \in 1 .. k
         /\ a[FirstDifference(a, b)] # b[FirstDifference(a, b)]
         /\ \A j \in 1 .. FirstDifference(a, b) - 1 : a[j] = b[j]
<1> DEFINE S == {i \in 1 .. k : a[i] # b[i]}
<1>1. S \in SUBSET Nat /\ S # {}
  <2>1. PICK i \in 1 .. k : a[i] # b[i]
    BY SeqEqual
  <2>2. i \in S
    BY <2>1
  <2>3. S \in SUBSET Nat
    OBVIOUS
  <2> QED BY <2>2, <2>3
<1>2. PICK m \in S : \A y \in S : m <= y
  <2> HIDE DEF S
  <2> QED BY <1>1, LeastOf
<1>3. \A j \in 1 .. m - 1 : a[j] = b[j]
  BY <1>2
<1>4. DOMAIN a = 1 .. k
  BY LenProperties
<1>5. \E i \in DOMAIN a : a[i] # b[i] /\ \A j \in 1 .. i - 1 : a[j] = b[j]
  BY <1>2, <1>3, <1>4
<1>6. /\ FirstDifference(a, b) \in DOMAIN a
      /\ a[FirstDifference(a, b)] # b[FirstDifference(a, b)]
      /\ \A j \in 1 .. FirstDifference(a, b) - 1 : a[j] = b[j]
  BY <1>5 DEF FirstDifference
<1> QED BY <1>4, <1>6

(* The two files being compared.                                           *)
LEMMA FileTypes ==
  ASSUME TypeInv, PairOK, Comparing \/ Compared, NEW s \in Side
  PROVE  /\ pair[s] \in Name /\ Entry(s) \in File
         /\ Data(s) \in Seq(Nat) /\ Len(Data(s)) \in Nat /\ Entry(s).size \in Nat
         /\ Special(s) \in BOOLEAN
<1>1. pair[s] \in Name /\ Entry(s) \in File
  BY DEF PairOK
<1>2. Entry(s).data \in Seq(Nat) /\ Entry(s).size \in Nat /\ Entry(s).special \in BOOLEAN
  BY <1>1, CompareAssumption
<1>3. Len(Entry(s).data) \in Nat
  BY <1>2, LenProperties
<1> QED BY <1>1, <1>2, <1>3 DEF Data, Special

(* What read() returns lies in the file; nothing is returned at its end    *)
(* only, and less than asked for by a special file only.                   *)
LEMMA ReadBounds ==
  ASSUME TypeInv, PairOK, ReadOK, pc = "read", NEW s \in Side, NEW r \in Reads(s)
  PROVE  /\ r \in Nat /\ r <= BufferSize /\ got[s] \in Nat /\ got[s] + r <= Len(Data(s))
         /\ r = 0 => got[s] = Len(Data(s))
         /\ ~Special(s) /\ r < BufferSize => got[s] + r = Len(Data(s))
<1>1. Len(Data(s)) \in Nat /\ got[s] \in Nat /\ got[s] <= Len(Data(s)) /\ BufferSize \in Nat /\ BufferSize > 0
  <2>1. Len(Data(s)) \in Nat
    BY FileTypes DEF Reading, Comparing
  <2>2. got[s] \in Nat /\ got[s] <= Len(Data(s))
    BY DEF ReadOK, Reading, TypeInv
  <2>3. BufferSize \in Nat /\ BufferSize > 0
    BY CompareAssumption
  <2> QED BY <2>1, <2>2, <2>3
<1> DEFINE most == Smaller(BufferSize, Len(Data(s)) - got[s])
<1>2. /\ most \in Nat /\ most <= BufferSize /\ most <= Len(Data(s)) - got[s]
      /\ most = 0 => Len(Data(s)) = got[s]
      /\ most < BufferSize => most = Len(Data(s)) - got[s]
  BY <1>1 DEF Smaller
<1>3. r \in IF Special(s) THEN Smaller(1, most) .. most ELSE {most}
  BY DEF Reads
<1> HIDE DEF most
<1>4. r \in Nat /\ r <= most /\ (r = 0 => most = 0) /\ (~Special(s) => r = most)
  BY <1>2, <1>3 DEF Smaller
<1> QED BY <1>1, <1>2, <1>4

Piece(s, r, k) == SubSeq(Chunk(s, r), 1, k)

LEMMA PieceIs ==
  ASSUME TypeInv, PairOK, ReadOK, pc = "read", NEW s \in Side, NEW r \in Reads(s), NEW k \in 0 .. r
  PROVE  /\ Piece(s, r, k) \in Seq(Nat) /\ Len(Piece(s, r, k)) = k
         /\ \A i \in 1 .. k : Piece(s, r, k)[i] = Data(s)[got[s] + i]
<1> DEFINE d == Data(s)
           g == got[s]
           c == SubSeq(d, g + 1, g + r)
<1>1. d \in Seq(Nat) /\ Len(d) \in Nat
  BY FileTypes DEF Comparing, Reading
<1>2. r \in Nat /\ g \in Nat /\ g + r <= Len(d)
  BY ReadBounds
<1>3. Chunk(s, r) = c
  BY DEF Chunk
<1> HIDE DEF d, g
<1>4. \A i \in g + 1 .. g + r : d[i] \in Nat
  BY <1>1, <1>2, LenProperties
<1>5. c \in Seq(Nat) /\ Len(c) = r /\ \A i \in 1 .. r : c[i] = d[g + i]
  <2>1. /\ c \in Seq(Nat) /\ Len(c) = (IF g + 1 <= g + r THEN (g + r) - (g + 1) + 1 ELSE 0)
        /\ \A i \in 1 .. (g + r) - (g + 1) + 1 : c[i] = d[g + 1 + i - 1]
    BY <1>1, <1>2, <1>4, SubSeqProperties
  <2> QED BY <1>1, <1>2, <2>1
<1> HIDE DEF c
<1>6. \A i \in 1 .. k : c[i] \in Nat
  BY <1>2, <1>4, <1>5
<1>7. SubSeq(c, 1, k) \in Seq(Nat) /\ Len(SubSeq(c, 1, k)) = k /\ \A i \in 1 .. k : SubSeq(c, 1, k)[i] = c[i]
  BY <1>2, <1>5, <1>6, SubSeqProperties
<1>8. \A i \in 1 .. k : c[i] = d[g + i]
  BY <1>2, <1>5
<1> QED BY <1>3, <1>7, <1>8 DEF Piece, d, g


(* The sizes found after a difference.                                     *)
SizesRead(r1, r2) ==
  \E t \in SizesAfterMismatch("this", got["this"] + r1),
     o \in SizesAfterMismatch("other", got["other"] + r2) : got' = [this |-> t, other |-> o]

(* What ReadPair does: the pieces are empty, or differ at some byte, or    *)
(* are the same.                                                           *)
Same(j) == Data("this")[got["this"] + j] = Data("other")[got["other"] + j]

LEMMA PairRead ==
  ASSUME TypeInv, PairOK, ReadOK, pc = "read",
         NEW r1 \in Reads("this"), NEW r2 \in Reads("other"), ReadPair(r1, r2)
  PROVE  \/ /\ r1 = 0 \/ r2 = 0
            /\ got' = [this |-> got["this"] + r1, other |-> got["other"] + r2]
            /\ n' = n /\ result' = n /\ pc' = "compared"
         \/ \E k \in 1 .. Smaller(r1, r2) :
              /\ ~Same(k) /\ \A j \in 1 .. k - 1 : Same(j)
              /\ n' = n + k - 1 /\ SizesRead(r1, r2) /\ result' = n' /\ pc' = "compared"
         \/ /\ r1 > 0 /\ r2 > 0 /\ \A j \in 1 .. Smaller(r1, r2) : Same(j)
            /\ got' = [this |-> got["this"] + r1, other |-> got["other"] + r2]
            /\ n' = n + Smaller(r1, r2) /\ result' = result /\ pc' = "read"
<1> DEFINE k == Smaller(r1, r2)
           a == Piece("this", r1, k)
           b == Piece("other", r2, k)
           here == [this |-> got["this"] + r1, other |-> got["other"] + r2]
<1>1. r1 \in Nat /\ r2 \in Nat /\ n \in Nat
  BY ReadBounds DEF Side, TypeInv
<1>2. k \in Nat /\ k <= r1 /\ k <= r2 /\ (k = 0 <=> (r1 = 0 \/ r2 = 0))
  BY <1>1 DEF Smaller
<1>3. a \in Seq(Nat) /\ Len(a) = k /\ \A i \in 1 .. k : a[i] = Data("this")[got["this"] + i]
  <2> HIDE DEF k
  <2> QED BY <1>1, <1>2, PieceIs DEF Side
<1>4. b \in Seq(Nat) /\ Len(b) = k /\ \A i \in 1 .. k : b[i] = Data("other")[got["other"] + i]
  <2> HIDE DEF k
  <2> QED BY <1>1, <1>2, PieceIs DEF Side
<1>5. \/ k = 0 /\ got' = here /\ Returns(n) /\ UNCHANGED n
      \/ a # b /\ n' = n + FirstDifference(a, b) - 1 /\ SizesRead(r1, r2) /\ Returns(n')
      \/ a = b /\ k > 0 /\ n' = n + k /\ got' = here /\ UNCHANGED <<pc, result>>
  BY DEF ReadPair, Piece, SizesRead
<1> HIDE DEF a, b, k, here
<1>6. CASE k = 0 /\ got' = here /\ Returns(n) /\ UNCHANGED n
  <2>1. r1 = 0 \/ r2 = 0
    BY <1>2, <1>6
  <2>2. result' = n /\ pc' = "compared" /\ n' = n
    BY <1>6 DEF Returns
  <2>3. got' = [this |-> got["this"] + r1, other |-> got["other"] + r2]
    BY <1>6 DEF here
  <2> QED BY <2>1, <2>2, <2>3
<1>7. CASE a # b /\ n' = n + FirstDifference(a, b) - 1 /\ SizesRead(r1, r2) /\ Returns(n')
  <2> DEFINE d == FirstDifference(a, b)
  <2>1. d \in 1 .. k /\ a[d] # b[d] /\ \A j \in 1 .. d - 1 : a[j] = b[j]
    BY <1>2, <1>3, <1>4, <1>7, FirstDifferenceIsFirst
  <2>2. n' = n + d - 1
    BY <1>7
  <2> HIDE DEF d
  <2>5. d \in 1 .. k /\ \A j \in 1 .. d - 1 : j \in 1 .. k
    BY <1>2, <2>1
  <2>6. \A j \in 1 .. k : Same(j) <=> a[j] = b[j]
    BY <1>3, <1>4 DEF Same
  <2>3. ~Same(d) /\ \A j \in 1 .. d - 1 : Same(j)
    BY <2>1, <2>5, <2>6
  <2>4. d \in 1 .. Smaller(r1, r2) /\ result' = n' /\ pc' = "compared"
    BY <1>7, <2>1 DEF Returns, k
  <2> QED BY <1>7, <2>2, <2>3, <2>4
<1>8. CASE a = b /\ k > 0 /\ n' = n + k /\ got' = here /\ UNCHANGED <<pc, result>>
  <2>1. \A j \in 1 .. k : Same(j)
    BY <1>3, <1>4, <1>8 DEF Same
  <2>2. r1 > 0 /\ r2 > 0
    BY <1>1, <1>2, <1>8
  <2> QED BY <1>8, <2>1, <2>2 DEF k, here
<1> QED BY <1>5, <1>6, <1>7, <1>8

-----------------------------------------------------------------------------
(* Steps that leave the panels and the pair alone.                         *)

LEMMA PairSame ==
  ASSUME entry' = entry, pair' = pair
  PROVE  /\ \A s \in Side : /\ Entry(s)' = Entry(s) /\ Data(s)' = Data(s) /\ Special(s)' = Special(s)
                            /\ Current(s, pair[s])' = Current(s, pair[s])
         /\ AreCurrent' = AreCurrent /\ Regular' = Regular
         /\ Unread(Entry("this"), Entry("other"))' = Unread(Entry("this"), Entry("other"))
<1>1. \A s \in Side : Entry(s)' = Entry(s)
  BY DEF Entry
<1>2. \A s \in Side : Data(s)' = Data(s) /\ Special(s)' = Special(s)
  BY <1>1 DEF Data, Special
<1>3. \A s \in Side : Current(s, pair[s])' = Current(s, pair[s])
  BY DEF Current
<1>4. AreCurrent' = AreCurrent
  BY <1>3 DEF AreCurrent
<1>5. Regular' = Regular
  BY <1>2 DEF Regular, Side
<1>6. Unread(Entry("this"), Entry("other"))' = Unread(Entry("this"), Entry("other"))
  BY <1>1 DEF Unread, ListedSize, Side
<1> QED BY <1>1, <1>2, <1>3, <1>4, <1>5, <1>6

LEMMA ListingSame ==
  ASSUME listing' = listing
  PROVE  /\ entry' = entry /\ first' = first /\ same_path' = same_path
         /\ \A s \in Side : Present(s)' = Present(s) /\ Looked(s)' = Looked(s)
<1>1. entry' = entry /\ first' = first /\ same_path' = same_path
  BY DEF listing
<1>2. \A s \in Side : Present(s)' = Present(s) /\ Looked(s)' = Looked(s)
  BY <1>1 DEF Present, Looked
<1> QED BY <1>1, <1>2

LEMMA ReadingFrame ==
  ASSUME Inv, Reading, Keep, pc' \in {"read", "compared"}, n' \in Nat, got' \in [Side -> Nat], result' \in Int
  PROVE  TypeInv' /\ PairOK' /\ MessageOK' /\ MarksOK' /\ CountKept' /\ TodoOK' /\ CoverOK'
<1>1. /\ entry' = entry /\ first' = first /\ same_path' = same_path
      /\ \A s \in Side : Present(s)' = Present(s) /\ Looked(s)' = Looked(s)
  BY ListingSame DEF Keep
<1>2. /\ marked' = marked /\ selected_entries' = selected_entries
      /\ job' = job /\ todo' = todo /\ pair' = pair /\ message' = message
  BY DEF Keep, marks
<1>3. Comparing /\ Comparing' /\ ~Compared' /\ pc' # "next"
  BY DEF Comparing, Reading, Compared
<1>4. TypeInv'
  BY <1>1, <1>2 DEF Inv, TypeInv
<1>5. PairOK'
  <2>1. \A s \in Side : Entry(s)' = Entry(s)
    BY <1>1, <1>2, PairSame
  <2> QED BY <1>2, <1>3, <2>1 DEF Inv, PairOK
<1>6. MessageOK'
  BY <1>3 DEF MessageOK
<1>7. MarksOK' /\ CountKept'
  BY <1>1, <1>2 DEF Inv, MarksOK, CountKept
<1>8. Dirs' = Dirs
  BY <1>2, <1>3 DEF Dirs, Comparing, Reading
<1>9. TodoOK'
  BY <1>1, <1>2, <1>3, <1>8 DEF Inv, TodoOK, Side
<1>10. CoverOK'
  <2>1. \A s \in Side, x \in Name : CoveredFrom(s, x)' = CoveredFrom(s, x)
    BY <1>1, <1>2 DEF CoveredFrom, Current, Identical
  <2> QED BY <1>2, <1>8, <2>1 DEF Inv, CoverOK
<1> QED BY <1>4, <1>5, <1>6, <1>7, <1>9, <1>10


(* Sequences are the same if they agree up to the end of both.             *)
LEMMA AgreeToEnd ==
  ASSUME NEW k \in Nat, Data("this") \in Seq(Nat), Data("other") \in Seq(Nat),
         Agree(k), k = Len(Data("this")), k = Len(Data("other"))
  PROVE  Data("this") = Data("other")
<1> DEFINE a == Data("this")
           b == Data("other")
<1>1. \A i \in 1 .. Len(a) : a[i] = b[i]
  BY DEF Agree
<1>2. a \in Seq(Nat) /\ b \in Seq(Nat) /\ Len(a) = Len(b)
  OBVIOUS
<1> HIDE DEF a, b
<1>3. a = b
  BY <1>1, <1>2, SeqEqual
<1> QED BY <1>3 DEF a, b

LEMMA AgreeOn ==
  ASSUME NEW k \in Nat, NEW m \in Nat, Agree(k), got["this"] = k, got["other"] = k, \A j \in 1 .. m : Same(j)
  PROVE  Agree(k + m)
<1> SUFFICES ASSUME NEW i \in 1 .. k + m PROVE Data("this")[i] = Data("other")[i]
  BY DEF Agree
<1>1. CASE i \in 1 .. k
  BY <1>1 DEF Agree
<1>2. CASE i \in k + 1 .. k + m
  <2>1. i - k \in 1 .. m /\ k + (i - k) = i
    BY <1>2
  <2>2. Same(i - k)
    BY <2>1
  <2> QED BY <2>1, <2>2 DEF Same
<1> QED BY <1>1, <1>2

LEMMA ReadPairStep ==
  ASSUME Inv, pc = "read", NEW r1 \in Reads("this"), NEW r2 \in Reads("other"), ReadPair(r1, r2)
  PROVE  Inv'
<1> DEFINE g == got["this"]
           h == got["other"]
           a == Data("this")
           b == Data("other")
<1>1. TypeInv /\ PairOK /\ ReadOK /\ Keep /\ Reading /\ Comparing
  BY DEF Inv, ReadPair, Reading, Comparing
<1>2. /\ a \in Seq(Nat) /\ b \in Seq(Nat) /\ Len(a) \in Nat /\ Len(b) \in Nat
      /\ Special("this") \in BOOLEAN /\ Special("other") \in BOOLEAN
      /\ Entry("this").size \in Nat /\ Entry("other").size \in Nat
  BY <1>1, FileTypes DEF Side
<1>3. /\ r1 \in Nat /\ r1 <= BufferSize /\ g \in Nat /\ g + r1 <= Len(a)
      /\ r1 = 0 => g = Len(a)
      /\ ~Special("this") /\ r1 < BufferSize => g + r1 = Len(a)
  BY <1>1, ReadBounds DEF Side
<1>4. /\ r2 \in Nat /\ r2 <= BufferSize /\ h \in Nat /\ h + r2 <= Len(b)
      /\ r2 = 0 => h = Len(b)
      /\ ~Special("other") /\ r2 < BufferSize => h + r2 = Len(b)
  BY <1>1, ReadBounds DEF Side
<1>5. n \in Nat /\ n <= g /\ n <= h /\ result \in Int /\ BufferSize \in Nat
  BY <1>1, CompareAssumption DEF TypeInv, ReadOK, Side
<1>6. n = g /\ n = h => Agree(n)
  BY <1>1 DEF ReadOK
<1>7. Regular => \/ n = g /\ n = h
                 \/ n = g /\ n = Len(a) /\ n < h
                 \/ n = h /\ n = Len(b) /\ n < g
  BY <1>1 DEF ReadOK
<1>16. Regular => Agree(n)
  BY <1>1 DEF ReadOK
<1>8. /\ Data("this")' = a /\ Data("other")' = b
      /\ Regular' = Regular /\ AreCurrent' = AreCurrent
      /\ \A k : Agree(k) /\ n' = k => Agree(n)'
  <2>1. entry' = entry /\ pair' = pair
    BY <1>1, ListingSame DEF Keep
  <2>2. Data("this")' = a /\ Data("other")' = b
    BY <2>1, PairSame DEF Side
  <2> QED BY <2>1, <2>2, PairSame DEF Agree
<1>9. ASSUME SizesRead(r1, r2)
      PROVE  /\ got' \in [Side -> Nat]
             /\ IF Special("this") THEN got'["this"] >= g + r1 ELSE got'["this"] = Entry("this").size
             /\ IF Special("other") THEN got'["other"] >= h + r2 ELSE got'["other"] = Entry("other").size
  <2>1. PICK t \in SizesAfterMismatch("this", g + r1), o \in SizesAfterMismatch("other", h + r2) :
          got' = [this |-> t, other |-> o]
    BY <1>9 DEF SizesRead
  <2>2. t \in Nat /\ IF Special("this") THEN t >= g + r1 ELSE t = Entry("this").size
    BY <1>2, <1>3 DEF SizesAfterMismatch
  <2>3. o \in Nat /\ IF Special("other") THEN o >= h + r2 ELSE o = Entry("other").size
    BY <1>2, <1>4 DEF SizesAfterMismatch
  <2> QED BY <2>1, <2>2, <2>3 DEF Side
<1>10. Regular => ~Special("this") /\ ~Special("other")
  BY DEF Regular
<1>11. \/ /\ r1 = 0 \/ r2 = 0
          /\ got' = [this |-> g + r1, other |-> h + r2]
          /\ n' = n /\ result' = n /\ pc' = "compared"
       \/ \E k \in 1 .. Smaller(r1, r2) :
            /\ ~Same(k) /\ \A j \in 1 .. k - 1 : Same(j)
            /\ n' = n + k - 1 /\ SizesRead(r1, r2) /\ result' = n' /\ pc' = "compared"
       \/ /\ r1 > 0 /\ r2 > 0 /\ \A j \in 1 .. Smaller(r1, r2) : Same(j)
          /\ got' = [this |-> g + r1, other |-> h + r2]
          /\ n' = n + Smaller(r1, r2) /\ result' = result /\ pc' = "read"
  BY <1>1, PairRead
<1>12. Smaller(r1, r2) \in Nat /\ Smaller(r1, r2) <= r1 /\ Smaller(r1, r2) <= r2
       /\ (Smaller(r1, r2) = r1 \/ Smaller(r1, r2) = r2)
  BY <1>3, <1>4 DEF Smaller
<1> HIDE DEF a, b, g, h
<1>13. CASE /\ r1 = 0 \/ r2 = 0
            /\ got' = [this |-> g + r1, other |-> h + r2]
            /\ n' = n /\ result' = n /\ pc' = "compared"
  <2>1. got' \in [Side -> Nat] /\ got'["this"] = g + r1 /\ got'["other"] = h + r2
    BY <1>3, <1>4, <1>13 DEF Side
  <2>2. ReadOK'
    BY <1>13 DEF ReadOK, Reading
  <2>3. result' = got'["this"] /\ result' = got'["other"] => a = b
    <3> SUFFICES ASSUME n = g + r1, n = h + r2 PROVE a = b
      BY <1>13, <2>1
    <3>1. r1 = 0 /\ r2 = 0 /\ n = g /\ n = h
      BY <1>3, <1>4, <1>5
    <3>2. Agree(n) /\ n = Len(a) /\ n = Len(b)
      BY <1>3, <1>4, <1>6, <3>1
    <3> QED BY <1>2, <1>5, <3>2, AgreeToEnd DEF a, b
  <2>4. Regular => SameOK' \/ ShortOK'
    <3> SUFFICES ASSUME Regular PROVE SameOK' \/ ShortOK'
      OBVIOUS
    <3>1. CASE r1 = 0 /\ r2 = 0 /\ g = h
      <4>1. n = g /\ n = h
        BY <1>7, <1>5, <3>1
      <4>2. result' = got'["this"] /\ result' = got'["other"]
        BY <1>3, <1>4, <1>13, <2>1, <3>1, <4>1
      <4> QED BY <1>8, <2>3, <4>2 DEF SameOK
    <3>2. CASE ~(r1 = 0 /\ r2 = 0 /\ g = h)
      <4>1. \/ n = g + r1 /\ n = Len(a) /\ n < h + r2
            \/ n = h + r2 /\ n = Len(b) /\ n < g + r1
        BY <1>2, <1>3, <1>4, <1>5, <1>7, <1>13, <3>2
      <4>2. ShortOK'
        <5>1. n' = result' /\ Agree(n)'
          BY <1>16, <1>8, <1>13
        <5>2. result' = Smaller(got'["this"], got'["other"]) /\ got'["this"] # got'["other"]
          BY <1>3, <1>4, <1>5, <1>13, <2>1, <4>1 DEF Smaller
        <5>3. \/ n = Len(a) /\ n < Len(b)
              \/ n = Len(b) /\ n < Len(a)
          BY <1>2, <1>3, <1>4, <1>5, <4>1
        <5> QED BY <1>8, <1>13, <5>1, <5>2, <5>3 DEF ShortOK
      <4> QED BY <4>2
    <3> QED BY <3>1, <3>2
  <2>5. ResultOK'
    BY <1>8, <2>3, <2>4 DEF ResultOK
  <2>6. n' \in Nat /\ result' \in Int
    BY <1>5, <1>13
  <2> QED BY <1>1, <1>13, <2>1, <2>2, <2>5, <2>6, ReadingFrame DEF Inv
<1>14. ASSUME NEW k \in 1 .. Smaller(r1, r2),
              ~Same(k), \A j \in 1 .. k - 1 : Same(j),
              n' = n + k - 1, SizesRead(r1, r2), result' = n', pc' = "compared"
       PROVE  Inv'
  <2>1. k \in Nat /\ k >= 1 /\ k <= r1 /\ k <= r2 /\ n' = n + k - 1 /\ n' \in Nat /\ result' \in Int
    BY <1>3, <1>4, <1>5, <1>12, <1>14
  <2>2. ReadOK'
    BY <1>14 DEF ReadOK, Reading
  <2>3. n' < Len(a) /\ n' < Len(b)
    <3>1. n + k <= g + r1 /\ n + k <= h + r2
      BY <1>3, <1>4, <1>5, <2>1
    <3>a. g + r1 <= Len(a) /\ g + r1 \in Nat /\ Len(a) \in Nat /\ n + k \in Nat
      BY <1>2, <1>3, <1>5, <2>1
    <3>b. h + r2 <= Len(b) /\ h + r2 \in Nat /\ Len(b) \in Nat
      BY <1>2, <1>4
    <3>2. n + k <= Len(a) /\ n + k <= Len(b)
      BY <3>1, <3>a, <3>b
    <3> QED BY <1>2, <1>5, <2>1, <3>2
  <2>4. AreCurrent => n' < got'["this"] /\ n' < got'["other"]
    <3> SUFFICES ASSUME AreCurrent PROVE n' < got'["this"] /\ n' < got'["other"]
      OBVIOUS
    <3>1. /\ Special("this") \/ Entry("this").size = Len(a)
          /\ Special("other") \/ Entry("other").size = Len(b)
      BY DEF AreCurrent, Current, Special, Data, Entry, Side, a, b
    <3>2. n' < g + r1 /\ n' < h + r2
      BY <1>3, <1>4, <1>5, <2>1
    <3>3. /\ IF Special("this") THEN got'["this"] >= g + r1 ELSE got'["this"] = Entry("this").size
          /\ IF Special("other") THEN got'["other"] >= h + r2 ELSE got'["other"] = Entry("other").size
          /\ got'["this"] \in Nat /\ got'["other"] \in Nat
      BY <1>9, <1>14 DEF Side
    <3>4. n' < got'["this"]
      BY <1>3, <2>1, <2>3, <3>1, <3>2, <3>3
    <3>5. n' < got'["other"]
      BY <1>4, <2>1, <2>3, <3>1, <3>2, <3>3
    <3> QED BY <3>4, <3>5
  <2>5. Regular /\ AreCurrent => DifferOK'
    <3> SUFFICES ASSUME Regular, AreCurrent PROVE DifferOK'
      OBVIOUS
    <3>1. n = g /\ n = h
      <4>1. n \in Nat /\ n <= n'
        BY <1>5, <2>1
      <4>2. n # Len(a) /\ n # Len(b)
        BY <2>1, <2>3, <4>1
      <4> QED BY <1>7, <4>2
    <3>8. Agree(n)
      BY <1>16
    <3>2. k - 1 \in Nat
      BY <2>1
    <3>3. Agree(n + (k - 1))
      BY <1>5, <1>14, <3>1, <3>2, <3>8, AgreeOn DEF g, h
    <3>4. n' = n + (k - 1) /\ n' + 1 = g + k /\ n' + 1 = h + k
      BY <1>3, <1>5, <1>14, <2>1, <3>1
    <3>5. a[n' + 1] # b[n' + 1]
      BY <1>14, <3>4 DEF Same, a, b, g, h
    <3>6. Agree(n)'
      BY <1>8, <3>3, <3>4
    <3>7. result' < got'["this"] /\ result' < got'["other"]
      BY <1>14, <2>4
    <3> QED BY <1>8, <1>14, <2>3, <3>5, <3>6, <3>7 DEF DifferOK
  <2>6. AreCurrent => ~(result' = got'["this"])
    BY <1>14, <2>1, <2>4
  <2>7. ResultOK'
    BY <1>8, <2>5, <2>6 DEF ResultOK
  <2> QED BY <1>1, <1>9, <1>14, <2>1, <2>2, <2>7, ReadingFrame DEF Inv
<1>15. CASE /\ r1 > 0 /\ r2 > 0 /\ \A j \in 1 .. Smaller(r1, r2) : Same(j)
            /\ got' = [this |-> g + r1, other |-> h + r2]
            /\ n' = n + Smaller(r1, r2) /\ result' = result /\ pc' = "read"
  <2> DEFINE m == Smaller(r1, r2)
  <2>1. got' \in [Side -> Nat] /\ got'["this"] = g + r1 /\ got'["other"] = h + r2
    BY <1>3, <1>4, <1>15 DEF Side
  <2>2. m \in Nat /\ m <= r1 /\ m <= r2 /\ n' = n + m /\ (m = r1 \/ m = r2)
    BY <1>12, <1>15
  <2>3. \A j \in 1 .. m : Same(j)
    BY <1>15
  <2> HIDE DEF m
  <2>4. n = g /\ n = h => Agree(n)'
    <3>1. n = g /\ n = h => Agree(n + m)
      BY <1>5, <1>6, <2>2, <2>3, AgreeOn DEF g, h
    <3> QED BY <1>8, <2>2, <3>1
  <2>5. n' = g + r1 /\ n' = h + r2 => n = g /\ n = h
    BY <1>3, <1>4, <1>5, <2>2
  <2>6. Regular => n = g /\ n = h
    <3>1. r1 > 0 /\ r2 > 0
      BY <1>15
    <3> QED BY <1>2, <1>3, <1>4, <1>5, <1>7, <3>1
  <2>7. Regular => \/ n' = g + r1 /\ n' = h + r2
                   \/ n' = g + r1 /\ n' = Len(a) /\ n' < h + r2
                   \/ n' = h + r2 /\ n' = Len(b) /\ n' < g + r1
    <3> SUFFICES ASSUME Regular, r1 # r2
                 PROVE  \/ n' = g + r1 /\ n' = Len(a) /\ n' < h + r2
                        \/ n' = h + r2 /\ n' = Len(b) /\ n' < g + r1
      BY <1>3, <1>4, <1>5, <2>2, <2>6
    <3>1. n = g /\ n = h /\ ~Special("this") /\ ~Special("other")
      BY <1>10, <2>6
    <3>2. CASE m = r1
      <4>1. r1 < r2 /\ r1 < BufferSize
        BY <1>3, <1>4, <1>5, <2>2, <3>2
      <4> QED BY <1>3, <1>4, <1>5, <2>2, <3>1, <3>2, <4>1
    <3>3. CASE m = r2
      <4>1. r2 < r1 /\ r2 < BufferSize
        BY <1>3, <1>4, <1>5, <2>2, <3>3
      <4> QED BY <1>3, <1>4, <1>5, <2>2, <3>1, <3>3, <4>1
    <3> QED BY <2>2, <3>2, <3>3
  <2>8. n' \in Nat /\ n' <= g + r1 /\ n' <= h + r2 /\ result' \in Int
    BY <1>3, <1>4, <1>5, <1>15, <2>2
  <2>9. ReadOK'
    <3>1. \A s \in Side : got'[s] <= Len(Data(s)') /\ n' <= got'[s]
      BY <1>3, <1>4, <1>8, <2>1, <2>8 DEF Side
    <3> QED BY <1>8, <2>1, <2>4, <2>5, <2>6, <2>7, <3>1 DEF ReadOK
  <2>10. ResultOK'
    BY <1>15 DEF ResultOK, Compared
  <2> QED BY <1>1, <1>15, <2>1, <2>8, <2>9, <2>10, ReadingFrame DEF Inv
<1> QED BY <1>11, <1>13, <1>14, <1>15

(* The comparison ends in an error, or begins to read.                     *)
LEMMA NoReadStep ==
  ASSUME Inv, OpenBoth \/ Abort \/ \E s \in Side : OpenFails(s) \/ ReadFails(s)
  PROVE  Inv'
<1>1. Keep /\ Reading /\ n' = n /\ got' = got
  BY DEF OpenBoth, OpenFails, Abort, ReadFails, Reading, file
<1>2. TypeInv
  BY DEF Inv
<1>3. n' \in Nat /\ got' \in [Side -> Nat]
  BY <1>1, <1>2 DEF TypeInv
<1>4. \/ pc' = "read" /\ result' = result
      \/ pc' = "compared" /\ result' \in {-1, -2, -3, -4, -5}
  BY DEF OpenBoth, OpenFails, Abort, ReadFails, Returns, CF_OPEN, CF_READ, CF_ABORT, Side, file
<1>5. result' \in Int /\ pc' \in {"read", "compared"}
  <2>1. result \in Int
    BY <1>2 DEF TypeInv
  <2> QED BY <1>4, <2>1
<1>6. ReadOK'
  <2>1. entry' = entry /\ pair' = pair
    BY <1>1, ListingSame DEF Keep
  <2>2. Regular' = Regular /\ \A s \in Side : Data(s)' = Data(s)
    BY <2>1, PairSame
  <2>3. Agree(n)' = Agree(n)
    BY <1>1, <2>2 DEF Agree, Side
  <2> QED BY <1>1, <2>2, <2>3 DEF Inv, ReadOK, Side
<1>7. ResultOK'
  <2>1. CASE pc' = "read"
    BY <2>1 DEF ResultOK, Compared
  <2>2. CASE pc' = "compared" /\ result' \in {-1, -2, -3, -4, -5}
    <3>1. got'["this"] \in Nat
      BY <1>3 DEF Side
    <3>2. ~(result' >= 0) /\ result' # got'["this"]
      BY <2>2, <3>1
    <3> QED BY <3>2 DEF ResultOK
  <2> QED BY <1>4, <2>1, <2>2
<1> QED BY <1>1, <1>3, <1>5, <1>6, <1>7, ReadingFrame DEF Inv


-----------------------------------------------------------------------------
(* A comparison begins: files that are listed as empty are the same.       *)
LEMMA CallOK ==
  ASSUME pair' \in [Side -> Name], \A s \in Side : Entry(s)' \in File,
         Call(Entry("this")', Entry("other")')
  PROVE  /\ n' \in Nat /\ got' \in [Side -> Nat] /\ result' \in Int /\ pc' \in {"open", "compared"}
         /\ ReadOK' /\ ResultOK'
<1> DEFINE e == Entry("this")'
           f == Entry("other")'
           a == Data("this")'
           b == Data("other")'
<1>1. /\ a \in Seq(Nat) /\ b \in Seq(Nat) /\ e.data = a /\ f.data = b
      /\ e.size \in Nat /\ f.size \in Nat /\ e.special \in BOOLEAN /\ f.special \in BOOLEAN
  BY CompareAssumption DEF Data, Side
<1>2. Len(a) \in Nat /\ Len(b) \in Nat
  BY <1>1, LenProperties
<1>3. /\ got' = [s \in Side |-> 0] /\ n' = 0 /\ result' = 0
      /\ \/ pc' = "open"
         \/ pc' = "compared" /\ ListedSize(e, f) = 0 /\ ~(e.special /\ f.special)
  BY DEF Call
<1>4. got'["this"] = 0 /\ got'["other"] = 0 /\ got' \in [Side -> Nat]
  BY <1>3 DEF Side
<1>5. Agree(n)'
  BY <1>3 DEF Agree
<1>6. ReadOK'
  <2>1. \A s \in Side : got'[s] <= Len(Data(s)') /\ n' <= got'[s]
    BY <1>2, <1>3, <1>4 DEF Side
  <2> QED BY <1>3, <1>4, <1>5, <2>1 DEF ReadOK
<1>7. ResultOK'
  <2>1. CASE pc' = "open"
    BY <2>1 DEF ResultOK, Compared
  <2>2. CASE pc' = "compared" /\ ListedSize(e, f) = 0 /\ ~(e.special /\ f.special)
    <3>1. AreCurrent' => (e.special \/ e.size = Len(a)) /\ (f.special \/ f.size = Len(b))
      BY DEF AreCurrent, Current, Side, Data, Entry
    <3>2. CASE ~e.special /\ ~f.special
      <4>1. e.size = 0 /\ f.size = 0
        <5>1. ListedSize(e, f) = Larger(e.size, f.size)
          BY <3>2 DEF ListedSize
        <5> HIDE DEF e, f
        <5>2. Larger(e.size, f.size) = 0
          BY <2>2, <5>1
        <5> QED BY <1>1, <5>2 DEF Larger
      <4>2. AreCurrent' => Len(a) = 0 /\ Len(b) = 0
        BY <3>1, <3>2, <4>1
      <4>3. Len(a) = 0 /\ Len(b) = 0 => a = b
        <5> HIDE DEF a, b
        <5> QED BY <1>1, SeqEqual
      <4>4. AreCurrent' => SameOK'
        BY <1>3, <1>4, <4>2, <4>3 DEF SameOK
      <4> QED BY <4>2, <4>3, <4>4 DEF ResultOK
    <3>3. CASE e.special # f.special
      <4>1. Unread(Entry("this"), Entry("other"))'
        BY <2>2, <3>3 DEF Unread, ListedSize
      <4>2. ~Regular'
        BY <1>1, <3>3 DEF Regular, Special
      <4> QED BY <4>1, <4>2 DEF ResultOK
    <3> QED BY <1>1, <2>2, <3>2, <3>3
  <2> QED BY <1>3, <2>1, <2>2
<1> QED BY <1>3, <1>4, <1>6, <1>7

LEMMA CompareStep ==
  ASSUME Inv, NEW a \in Name, NEW b \in Name, Compare(a, b)
  PROVE  Inv'
<1>1. /\ pc = "idle" /\ pair' = [this |-> a, other |-> b] /\ job' = "compare" /\ message' = "none"
      /\ Call(entry["this"][a], entry["other"][b])
      /\ a \in Present("this") /\ b \in Present("other")
      /\ listing' = listing /\ marked' = marked /\ selected_entries' = selected_entries /\ todo' = todo
  BY DEF Compare, marks
<1>2. /\ entry' = entry /\ first' = first /\ same_path' = same_path
      /\ \A s \in Side : Present(s)' = Present(s) /\ Looked(s)' = Looked(s)
  BY <1>1, ListingSame
<1>3. TypeInv
  BY DEF Inv
<1>4. pair' \in [Side -> Name] /\ pair'["this"] = a /\ pair'["other"] = b
  BY <1>1 DEF Side
<1>5. Entry("this")' = entry["this"][a] /\ Entry("other")' = entry["other"][b]
  BY <1>2, <1>4 DEF Entry
<1>6. \A s \in Side : Entry(s)' \in File
  <2>1. entry["this"][a] \in File \cup {None} /\ entry["other"][b] \in File \cup {None}
    BY <1>3 DEF TypeInv, Side
  <2>2. entry["this"][a] # None /\ entry["other"][b] # None
    BY <1>1 DEF Present
  <2>3. Entry("this")' \in File /\ Entry("other")' \in File
    BY <1>5, <2>1, <2>2
  <2> QED BY <2>3 DEF Side
<1>7. /\ n' \in Nat /\ got' \in [Side -> Nat] /\ result' \in Int /\ pc' \in {"open", "compared"}
      /\ ReadOK' /\ ResultOK'
  BY <1>1, <1>4, <1>5, <1>6, CallOK
<1>8. TypeInv'
  BY <1>1, <1>2, <1>3, <1>4, <1>7 DEF TypeInv
<1>9. PairOK'
  BY <1>1, <1>4, <1>6, <1>7 DEF PairOK, Comparing
<1>10. MessageOK' /\ MarksOK' /\ CountKept'
  BY <1>1, <1>2 DEF Inv, MessageOK, Compared, MarksOK, CountKept
<1>11. TodoOK' /\ CoverOK'
  BY <1>1, <1>7 DEF TodoOK, CoverOK, Dirs
<1> QED BY <1>7, <1>8, <1>9, <1>10, <1>11 DEF Inv

(* The result is shown.                                                    *)
LEMMA ReportStep ==
  ASSUME Inv, Report
  PROVE  Inv'
<1>1. /\ pc = "compared" /\ job = "compare" /\ message' = Message /\ pc' = "idle"
      /\ listing' = listing /\ marked' = marked /\ selected_entries' = selected_entries
      /\ job' = job /\ todo' = todo /\ pair' = pair /\ n' = n /\ got' = got /\ result' = result
  BY DEF Report, marks, file
<1>2. /\ entry' = entry /\ first' = first /\ same_path' = same_path
      /\ \A s \in Side : Present(s)' = Present(s) /\ Looked(s)' = Looked(s)
  BY <1>1, ListingSame
<1>3. Message \in {"none", "cannot open", "cannot read", "ok", "same beginning", "differ"}
  BY DEF Message
<1>4. TypeInv'
  BY <1>1, <1>2, <1>3 DEF Inv, TypeInv
<1>5. \A s \in Side : Entry(s)' = Entry(s) /\ Data(s)' = Data(s)
  BY <1>1, <1>2, PairSame
<1>6. PairOK'
  BY <1>1, <1>5 DEF Inv, PairOK, Comparing, Reading
<1>7. ReadOK'
  BY <1>1 DEF ReadOK, Reading
<1>8. ResultOK'
  <2>1. /\ AreCurrent' = AreCurrent /\ Regular' = Regular
        /\ Unread(Entry("this"), Entry("other"))' = Unread(Entry("this"), Entry("other"))
    BY <1>1, <1>2, PairSame
  <2>2. SameOK' = SameOK /\ ShortOK' = ShortOK /\ DifferOK' = DifferOK
    BY <1>1, <1>5 DEF SameOK, ShortOK, DifferOK, Agree, Side
  <2>3. Data("this")' = Data("this") /\ Data("other")' = Data("other")
    BY <1>5 DEF Side
  <2> QED BY <1>1, <2>1, <2>2, <2>3 DEF Inv, ResultOK
<1>9. MessageOK'
  BY <1>1 DEF MessageOK, Message
<1>10. MarksOK' /\ CountKept'
  BY <1>1, <1>2 DEF Inv, MarksOK, CountKept
<1>11. TodoOK' /\ CoverOK'
  BY <1>1 DEF TodoOK, CoverOK, Dirs, Comparing, Reading
<1> QED BY <1>4, <1>6, <1>7, <1>8, <1>9, <1>10, <1>11 DEF Inv


-----------------------------------------------------------------------------
(* Marks.                                                                  *)

LEMMA MarksFinite ==
  ASSUME TypeInv, MarksOK, NEW s \in Side
  PROVE  /\ marked[s] \in SUBSET Name /\ IsFiniteSet(marked[s]) /\ Cardinality(marked[s]) \in Nat
         /\ AllMarked(s) \in SUBSET Name /\ IsFiniteSet(AllMarked(s)) /\ Cardinality(AllMarked(s)) \in Nat
         /\ AllMarked(s) \subseteq Present(s)
<1>1. marked[s] \in SUBSET Name /\ AllMarked(s) \in SUBSET Name /\ AllMarked(s) \subseteq Present(s)
  BY DEF TypeInv, MarksOK, AllMarked, Present
<1>2. IsFiniteSet(marked[s]) /\ IsFiniteSet(AllMarked(s))
  BY <1>1, CompareAssumption, FS_Subset
<1> QED BY <1>1, <1>2, FS_CardinalityType

(* Marking and unmarking all files, and one in some of the panels.         *)
LEMMA MarkAllOK ==
  ASSUME TypeInv, MarksOK, CountKept, entry' = entry, MarkAll \/ UnmarkAll
  PROVE  /\ marked' \in [Side -> SUBSET Name] /\ selected_entries' \in [Side -> Int]
         /\ MarksOK' /\ CountKept'
<1>0. \A s \in Side : Present(s)' = Present(s)
  BY DEF Present
<1>1. CASE MarkAll
  <2>1. ASSUME NEW s \in Side
        PROVE  /\ marked'[s] \in SUBSET Name /\ marked'[s] \subseteq Present(s)'
               /\ selected_entries'[s] \in Int /\ selected_entries'[s] = Cardinality(marked'[s])
    <3>1. marked'[s] = AllMarked(s)
      BY <1>1 DEF MarkAll
    <3>2. selected_entries'[s] = selected_entries[s] + Cardinality(AllMarked(s)) - Cardinality(marked[s])
      BY <1>1 DEF MarkAll
    <3>3. selected_entries[s] = Cardinality(marked[s])
      BY DEF CountKept
    <3>4. /\ Cardinality(marked[s]) \in Nat /\ Cardinality(AllMarked(s)) \in Nat
          /\ AllMarked(s) \in SUBSET Name /\ AllMarked(s) \subseteq Present(s)
      BY MarksFinite
    <3> QED BY <1>0, <3>1, <3>2, <3>3, <3>4
  <2>2. marked' = [s \in Side |-> marked'[s]] /\ selected_entries' = [s \in Side |-> selected_entries'[s]]
    BY <1>1 DEF MarkAll
  <2> QED BY <2>1, <2>2 DEF MarksOK, CountKept
<1>2. CASE UnmarkAll
  <2>1. marked' = [s \in Side |-> {}] /\ selected_entries' = [s \in Side |-> 0]
    BY <1>2 DEF UnmarkAll
  <2> QED BY <2>1, FS_EmptySet DEF MarksOK, CountKept
<1> QED BY <1>1, <1>2

LEMMA UnmarkOK ==
  ASSUME TypeInv, MarksOK, CountKept, entry' = entry,
         NEW S \in SUBSET Side, NEW x \in Name, \A s \in S : x \in marked[s], Unmark(S, x)
  PROVE  /\ marked' \in [Side -> SUBSET Name] /\ selected_entries' \in [Side -> Int]
         /\ MarksOK' /\ CountKept'
         /\ \A s \in Side : marked'[s] = IF s \in S THEN marked[s] \ {x} ELSE marked[s]
<1>0. \A s \in Side : Present(s)' = Present(s)
  BY DEF Present
<1>1. \A s \in Side : marked'[s] = IF s \in S THEN marked[s] \ {x} ELSE marked[s]
  BY DEF Unmark
<1>2. \A s \in Side : selected_entries'[s] = IF s \in S THEN selected_entries[s] - 1 ELSE selected_entries[s]
  BY DEF Unmark
<1>3. ASSUME NEW s \in Side
      PROVE  /\ marked'[s] \in SUBSET Name /\ marked'[s] \subseteq Present(s)'
             /\ selected_entries'[s] \in Int /\ selected_entries'[s] = Cardinality(marked'[s])
  <2>1. /\ selected_entries[s] = Cardinality(marked[s]) /\ Cardinality(marked[s]) \in Nat
        /\ IsFiniteSet(marked[s]) /\ marked[s] \in SUBSET Name
    BY MarksFinite DEF CountKept
  <2>2. marked'[s] \subseteq marked[s] /\ marked[s] \subseteq Present(s)'
    BY <1>0, <1>1 DEF MarksOK
  <2>3. CASE s \in S
    <3>1. Cardinality(marked[s] \ {x}) = Cardinality(marked[s]) - 1
      BY <2>1, <2>3, FS_RemoveElement
    <3>2. marked'[s] = marked[s] \ {x} /\ selected_entries'[s] = selected_entries[s] - 1
      BY <1>1, <1>2, <2>3
    <3> QED BY <2>1, <2>2, <3>1, <3>2
  <2>4. CASE s \notin S
    <3>1. marked'[s] = marked[s] /\ selected_entries'[s] = selected_entries[s]
      BY <1>1, <1>2, <2>4
    <3> QED BY <2>1, <2>2, <3>1
  <2> QED BY <2>3, <2>4
<1>4. marked' = [s \in Side |-> marked'[s]] /\ selected_entries' = [s \in Side |-> selected_entries'[s]]
  BY DEF Unmark
<1> QED BY <1>1, <1>3, <1>4 DEF MarksOK, CountKept

LEMMA CompareDirsStep ==
  ASSUME Inv, NEW how \in {"quick", "thorough"}, CompareDirs(how)
  PROVE  Inv'
<1>1. /\ pc = "idle" /\ job' = how /\ message' = "none"
      /\ listing' = listing /\ pair' = pair /\ n' = n /\ got' = got /\ result' = result
      /\ \/ UnmarkAll /\ pc' = pc /\ todo' = todo
         \/ MarkAll /\ pc' = "next" /\ todo' = Looked("this")
  BY DEF CompareDirs, file
<1>2. /\ entry' = entry /\ first' = first /\ same_path' = same_path
      /\ \A s \in Side : Present(s)' = Present(s) /\ Looked(s)' = Looked(s)
  BY <1>1, ListingSame
<1>3. TypeInv /\ MarksOK /\ CountKept
  BY DEF Inv
<1>4. /\ marked' \in [Side -> SUBSET Name] /\ selected_entries' \in [Side -> Int]
      /\ MarksOK' /\ CountKept'
  BY <1>1, <1>2, <1>3, MarkAllOK
<1>5. pc' \in {"idle", "next"} /\ todo' \subseteq Name
  BY <1>1, <1>3 DEF TypeInv, Looked, Present
<1>6. TypeInv'
  BY <1>1, <1>2, <1>3, <1>4, <1>5 DEF TypeInv
<1>7. PairOK' /\ ReadOK' /\ ResultOK' /\ MessageOK'
  BY <1>1, <1>5 DEF PairOK, ReadOK, ResultOK, MessageOK, Compared, Comparing, Reading
<1>8. CASE pc' = "idle"
  <2>1. TodoOK' /\ CoverOK'
    BY <1>1, <1>8 DEF TodoOK, CoverOK, Dirs, Comparing, Reading
  <2> QED BY <1>4, <1>6, <1>7, <2>1 DEF Inv
<1>9. CASE pc' = "next"
  <2>1. MarkAll /\ todo' = Looked("this") /\ ~Comparing'
    BY <1>1, <1>9 DEF Comparing, Reading
  <2>2. \A s \in Side : marked'[s] = AllMarked(s)
    BY <2>1 DEF MarkAll
  <2>3. \A s \in Side : Looked(s) \subseteq AllMarked(s)
    BY DEF Looked, AllMarked
  <2>4. TodoOK'
    BY <1>2, <2>1, <2>2, <2>3 DEF TodoOK, Side
  <2>5. \A s \in Side, x \in Name : CoveredFrom(s, x)'
    BY <1>2, <2>2 DEF CoveredFrom, AllMarked, Present
  <2> QED BY <1>4, <1>6, <1>7, <2>4, <2>5 DEF Inv, CoverOK
<1> QED BY <1>5, <1>8, <1>9


(* A file both panels show, and its marks after one of them, or both, are  *)
(* taken away.                                                             *)
LEMMA LookedEntry ==
  ASSUME TypeInv, NEW s \in Side, NEW x \in Looked(s)
  PROVE  x \in Name /\ entry[s][x] \in File /\ entry[s][x] # None /\ entry[s][x].mtime \in Int
         /\ entry[s][x].size \in Nat /\ entry[s][x].special \in BOOLEAN
<1>1. x \in Name /\ entry[s][x] # None
  BY DEF Looked, Present
<1>2. entry[s][x] \in File \cup {None}
  <2>1. entry[s] \in [Name -> File \cup {None}]
    BY DEF TypeInv
  <2> QED BY <1>1, <2>1
<1> QED BY <1>1, <1>2, CompareAssumption

LEMMA CoverAfter ==
  ASSUME entry' = entry, NEW x \in Name, NEW S \in SUBSET Side,
         \A s \in Side : marked'[s] = IF s \in S THEN marked[s] \ {x} ELSE marked[s],
         job = "thorough" /\ Dirs => \A s \in Side : CoveredFrom(s, x)',
         CoverOK, Dirs, job' = job
  PROVE  CoverOK'
<1> SUFFICES ASSUME job = "thorough" PROVE \A s \in Side, y \in Name : CoveredFrom(s, y)'
  BY DEF CoverOK
<1>1. \A s \in Side, y \in Name : CoveredFrom(s, y)
  BY DEF CoverOK
<1>2. \A s \in Side : Other(s) \in Side
  BY DEF Other, Side
<1>3. ASSUME NEW s \in Side, NEW y \in Name, y # x PROVE CoveredFrom(s, y)'
  <2>1. \A t \in Side : y \in marked'[t] <=> y \in marked[t]
    BY <1>3
  <2>2. CoveredFrom(s, y)
    BY <1>1
  <2> QED BY <1>2, <2>1, <2>2 DEF CoveredFrom, Current, Identical
<1> QED BY <1>3

LEMMA KeepNewerOK ==
  ASSUME TypeInv, MarksOK, CountKept, entry' = entry,
         NEW x \in Name, \A s \in Side : x \in Looked(s) /\ x \in marked[s], KeepNewer(x)
  PROVE  \E S \in SUBSET Side : Unmark(S, x) /\ \A s \in Side : CoveredFrom(s, x)'
<1> DEFINE e == entry["this"][x]
           f == entry["other"][x]
<1>1. e # None /\ f # None /\ e.mtime \in Int /\ f.mtime \in Int
  BY LookedEntry DEF Side
<1>2. CASE e.mtime >= f.mtime
  <2>1. Unmark({"other"}, x)
    BY <1>2 DEF KeepNewer
  <2>2. marked'["this"] = marked["this"]
    BY <2>1 DEF Unmark, Side
  <2>3. x \in marked'["this"]
    BY <2>2 DEF Side
  <2>4. CoveredFrom("this", x)'
    BY <2>3 DEF CoveredFrom
  <2>5. CoveredFrom("other", x)'
    BY <1>1, <1>2, <2>3 DEF CoveredFrom, Other
  <2> QED BY <2>1, <2>4, <2>5 DEF Side
<1>3. CASE ~(e.mtime >= f.mtime)
  <2>1. Unmark({"this"}, x)
    BY <1>3 DEF KeepNewer
  <2>2. marked'["other"] = marked["other"]
    BY <2>1 DEF Unmark, Side
  <2>3. x \in marked'["other"]
    BY <2>2 DEF Side
  <2>4. CoveredFrom("other", x)'
    BY <2>3 DEF CoveredFrom
  <2>5. f.mtime >= e.mtime
    BY <1>1, <1>3
  <2>6. CoveredFrom("this", x)'
    BY <1>1, <2>5, <2>3 DEF CoveredFrom, Other
  <2> QED BY <2>1, <2>4, <2>6 DEF Side
<1> QED BY <1>2, <1>3

(* After one file the loop goes on with the others.                        *)
LEMMA UnmarkStep ==
  ASSUME Inv, Dirs, NEW x \in Name, x \notin todo', \A s \in Side : x \in Looked(s) /\ x \in marked[s],
         \/ KeepNewer(x)
         \/ Unmark(Side, x) /\ (job = "thorough" => \A s \in Side : CoveredFrom(s, x)'),
         listing' = listing, job' = job, pc' = "next", todo' \subseteq todo,
         pair' = pair, n' = n, got' = got, result' = result, message' = message
  PROVE  Inv'
<1>1. TypeInv /\ MarksOK /\ CountKept /\ CoverOK
  BY DEF Inv
<1>2. /\ entry' = entry /\ first' = first /\ same_path' = same_path
      /\ \A s \in Side : Present(s)' = Present(s) /\ Looked(s)' = Looked(s)
  BY ListingSame
<1>3. PICK S \in SUBSET Side :
        Unmark(S, x) /\ (job = "thorough" => \A s \in Side : CoveredFrom(s, x)')
  BY <1>1, <1>2, KeepNewerOK
<1>4. /\ marked' \in [Side -> SUBSET Name] /\ selected_entries' \in [Side -> Int]
      /\ MarksOK' /\ CountKept'
      /\ \A s \in Side : marked'[s] = IF s \in S THEN marked[s] \ {x} ELSE marked[s]
  <2>1. \A s \in S : x \in marked[s]
    OBVIOUS
  <2> QED BY <1>1, <1>2, <1>3, <2>1, UnmarkOK
<1>5. TypeInv'
  BY <1>1, <1>2, <1>4 DEF TypeInv
<1>6. ~Comparing' /\ ~Reading' /\ ~Compared' /\ pc' # "compared"
  BY DEF Comparing, Reading, Compared
<1>7. job \in {"quick", "thorough"}
  BY DEF Inv, PairOK, Dirs
<1>8. PairOK' /\ ReadOK' /\ ResultOK' /\ MessageOK'
  BY <1>6, <1>7 DEF PairOK, ReadOK, ResultOK, MessageOK
<1>9. TodoOK'
  <2>1. todo \subseteq Looked("this") /\ todo \subseteq marked["this"] /\ todo \cap Looked("other") \subseteq marked["other"]
    BY DEF Inv, TodoOK
  <2>2. \A y \in todo' : \A s \in Side : y \in marked[s] => y \in marked'[s]
    BY <1>4
  <2>3. todo' \subseteq Looked("this") /\ todo' \subseteq marked'["this"] /\ todo' \cap Looked("other") \subseteq marked'["other"]
    BY <2>1, <2>2 DEF Side
  <2> QED BY <1>2, <1>6, <2>3 DEF TodoOK, Side
<1>10. CoverOK'
  BY <1>1, <1>2, <1>3, <1>4, CoverAfter
<1> QED BY <1>4, <1>5, <1>8, <1>9, <1>10 DEF Inv

LEMMA NextFileStep ==
  ASSUME Inv, NEW x \in Name, NextFile(x)
  PROVE  Inv'
<1> DEFINE e == entry["this"][x]
           f == entry["other"][x]
<1>1. /\ pc = "next" /\ x \in todo /\ todo' = todo \ {x}
      /\ listing' = listing /\ job' = job /\ message' = message
  BY DEF NextFile
<1>2. /\ entry' = entry /\ first' = first /\ same_path' = same_path
      /\ \A s \in Side : Present(s)' = Present(s) /\ Looked(s)' = Looked(s)
  BY <1>1, ListingSame
<1>3. TypeInv /\ MarksOK /\ CountKept /\ CoverOK /\ Dirs /\ ~Comparing /\ job \in {"quick", "thorough"}
  BY <1>1 DEF Inv, Dirs, PairOK, Comparing, Reading
<1>4. /\ todo \subseteq Looked("this") /\ todo \subseteq marked["this"]
      /\ todo \cap Looked("other") \subseteq marked["other"]
  BY <1>3 DEF Inv, TodoOK
<1>5. \/ x \notin Looked("other") /\ UNCHANGED <<marks, pc, pair, file>>
      \/ x \in Looked("other") /\ KeepNewer(x) /\ UNCHANGED <<pc, pair, file>>
      \/ x \in Looked("other") /\ job = "quick" /\ Unmark(Side, x) /\ UNCHANGED <<pc, pair, file>>
      \/ x \in Looked("other") /\ job = "thorough" /\ pair' = [s \in Side |-> x] /\ Call(e, f) /\ UNCHANGED marks
  BY DEF NextFile
<1>6. CASE x \notin Looked("other") /\ UNCHANGED <<marks, pc, pair, file>>
  <2>1. /\ marked' = marked /\ selected_entries' = selected_entries /\ pc' = pc /\ pair' = pair
        /\ n' = n /\ got' = got /\ result' = result
    BY <1>6 DEF marks, file
  <2>2. TypeInv'
    BY <1>1, <1>2, <1>3, <2>1 DEF TypeInv
  <2>3. ~Comparing' /\ ~Compared' /\ ~Reading' /\ pc' = "next"
    BY <1>1, <2>1 DEF Comparing, Compared, Reading
  <2>4. PairOK' /\ ReadOK' /\ ResultOK' /\ MessageOK'
    BY <1>1, <1>3, <2>3 DEF PairOK, ReadOK, ResultOK, MessageOK
  <2>5. MarksOK' /\ CountKept'
    BY <1>2, <1>3, <2>1 DEF MarksOK, CountKept
  <2>6. TodoOK'
    BY <1>1, <1>2, <1>4, <2>1, <2>3 DEF TodoOK, Side
  <2>7. CoverOK'
    <3>1. \A s \in Side, y \in Name : CoveredFrom(s, y)' = CoveredFrom(s, y)
      BY <1>2, <2>1 DEF CoveredFrom, Current, Identical
    <3> QED BY <1>1, <1>3, <3>1 DEF CoverOK
  <2> QED BY <2>2, <2>4, <2>5, <2>6, <2>7 DEF Inv
<1>7. CASE x \in Looked("other")
  <2>1. \A s \in Side : x \in Looked(s) /\ x \in marked[s]
    BY <1>1, <1>4, <1>7 DEF Side
  <2>2. x \notin todo' /\ todo' \subseteq todo
    BY <1>1
  <2>3. CASE UNCHANGED <<pc, pair, file>> /\ (KeepNewer(x) \/ (job = "quick" /\ Unmark(Side, x)))
    <3>1. pc' = "next" /\ pair' = pair /\ n' = n /\ got' = got /\ result' = result
      BY <1>1, <2>3 DEF file
    <3>2. KeepNewer(x) \/ (Unmark(Side, x) /\ (job = "thorough" => \A s \in Side : CoveredFrom(s, x)'))
      BY <2>3
    <3> QED BY <1>1, <1>3, <2>1, <2>2, <3>1, <3>2, UnmarkStep
  <2>4. CASE job = "thorough" /\ pair' = [s \in Side |-> x] /\ Call(e, f) /\ UNCHANGED marks
    <3>1. pair' \in [Side -> Name] /\ pair'["this"] = x /\ pair'["other"] = x
      BY <2>4 DEF Side
    <3>2. Entry("this")' = e /\ Entry("other")' = f
      BY <1>2, <3>1 DEF Entry
    <3>3. \A s \in Side : Entry(s)' \in File
      BY <1>3, <2>1, <3>2, LookedEntry DEF Side
    <3>4. /\ n' \in Nat /\ got' \in [Side -> Nat] /\ result' \in Int /\ pc' \in {"open", "compared"}
          /\ ReadOK' /\ ResultOK'
      BY <2>4, <3>1, <3>2, <3>3, CallOK
    <3>5. marked' = marked /\ selected_entries' = selected_entries
      BY <2>4 DEF marks
    <3>6. TypeInv'
      BY <1>1, <1>2, <1>3, <3>1, <3>4, <3>5 DEF TypeInv
    <3>7. PairOK' /\ MessageOK'
      BY <1>1, <2>4, <3>1, <3>3, <3>4 DEF PairOK, Comparing, MessageOK, Compared
    <3>8. MarksOK' /\ CountKept'
      BY <1>2, <1>3, <3>5 DEF MarksOK, CountKept
    <3>9. TodoOK'
      <4>1. /\ todo' \subseteq Looked("this") /\ todo' \subseteq marked["this"]
            /\ todo' \cap Looked("other") \subseteq marked["other"]
        BY <1>1, <1>4
      <4>2. \A s \in Side : pair'[s] = x
        BY <3>1 DEF Side
      <4> QED BY <1>2, <2>1, <2>2, <3>1, <3>5, <4>1, <4>2 DEF TodoOK, Side
    <3>10. CoverOK'
      <4>1. \A s \in Side, y \in Name : CoveredFrom(s, y)' = CoveredFrom(s, y)
        BY <1>2, <3>5 DEF CoveredFrom, Current, Identical
      <4> QED BY <1>1, <1>3, <4>1 DEF CoverOK
    <3> QED BY <3>4, <3>6, <3>7, <3>8, <3>9, <3>10 DEF Inv
  <2> QED BY <1>5, <1>7, <2>3, <2>4
<1> QED BY <1>5, <1>6, <1>7


LEMMA DecideStep ==
  ASSUME Inv, Decide
  PROVE  Inv'
<1>1. /\ pc = "compared" /\ job = "thorough"
      /\ listing' = listing /\ job' = job /\ todo' = todo /\ pair' = pair
      /\ n' = n /\ got' = got /\ result' = result
      /\ \/ pc' = "idle" /\ message' = "aborted" /\ UNCHANGED marks
         \/ /\ pc' = "next" /\ message' = message
            /\ IF result = got["this"] /\ result = got["other"]
               THEN Unmark(Side, pair["this"]) ELSE KeepNewer(pair["this"])
  BY DEF Decide, file
<1>2. /\ entry' = entry /\ first' = first /\ same_path' = same_path
      /\ \A s \in Side : Present(s)' = Present(s) /\ Looked(s)' = Looked(s)
  BY <1>1, ListingSame
<1>3. TypeInv /\ PairOK /\ MarksOK /\ CountKept /\ Dirs /\ Comparing
  BY <1>1 DEF Inv, Dirs, Comparing
<1>8. PICK x \in Name : pair["this"] = x
  BY <1>3 DEF PairOK, Side
<1>4. /\ pair["other"] = x /\ x \notin todo
      /\ \A s \in Side : pair[s] \in Looked(s) /\ pair[s] \in marked[s]
  BY <1>3, <1>8 DEF Inv, TodoOK
<1>5. x \in Name /\ \A s \in Side : pair[s] = x /\ x \in Looked(s) /\ x \in marked[s]
  BY <1>4, <1>8 DEF Side
<1>6. CASE pc' = "idle" /\ message' = "aborted" /\ UNCHANGED marks
  <2>1. marked' = marked /\ selected_entries' = selected_entries
    BY <1>6 DEF marks
  <2>2. TypeInv'
    BY <1>1, <1>2, <1>3, <1>6, <2>1 DEF TypeInv
  <2>3. PairOK' /\ ReadOK' /\ ResultOK' /\ MessageOK'
    BY <1>1, <1>6 DEF PairOK, ReadOK, ResultOK, MessageOK, Compared, Comparing, Reading
  <2>4. MarksOK' /\ CountKept'
    BY <1>2, <1>3, <2>1 DEF MarksOK, CountKept
  <2>5. TodoOK' /\ CoverOK'
    BY <1>6 DEF TodoOK, CoverOK, Dirs, Comparing, Reading
  <2> QED BY <2>2, <2>3, <2>4, <2>5 DEF Inv
<1>7. CASE /\ pc' = "next" /\ message' = message
           /\ IF result = got["this"] /\ result = got["other"] THEN Unmark(Side, x) ELSE KeepNewer(x)
  <2>1. ASSUME result = got["this"], result = got["other"], Unmark(Side, x)
        PROVE  \A s \in Side : CoveredFrom(s, x)'
    <3>1. Entry("this") = entry["this"][x] /\ Entry("other") = entry["other"][x]
      BY <1>4, <1>8 DEF Entry
    <3>2. /\ entry["this"][x] # None /\ entry["this"][x].size \in Nat
          /\ entry["other"][x] # None /\ entry["other"][x].size \in Nat
          /\ entry["this"][x].special \in BOOLEAN /\ entry["other"][x].special \in BOOLEAN
      BY <1>3, <1>5, LookedEntry DEF Side
    <3>3. AreCurrent /\ ~Unread(Entry("this"), Entry("other")) => Data("this") = Data("other")
      BY <1>1, <2>1 DEF Inv, ResultOK
    <3>4. /\ Current("this", x) /\ Current("other", x) /\ ~Unread(entry["this"][x], entry["other"][x])
          => Identical(x, x)
      BY <1>4, <1>8, <3>1, <3>3 DEF AreCurrent, Data, Identical, Side
    <3>5. Unread(entry["this"][x], entry["other"][x]) = Unread(entry["other"][x], entry["this"][x])
      BY <3>2 DEF Unread, ListedSize, Larger
    <3>6. \A s \in Side : x \notin marked'[s]
      BY <2>1 DEF Unmark
    <3>7. /\ Current("this", x)' = Current("this", x) /\ Current("other", x)' = Current("other", x)
          /\ Identical(x, x)' = Identical(x, x)
      BY <1>2 DEF Current, Identical
    <3>8. Other("this") = "other" /\ Other("other") = "this" /\ Side = {"this", "other"}
      BY DEF Other, Side
    <3>9. CoveredFrom("this", x)'
      BY <1>2, <3>2, <3>4, <3>6, <3>7, <3>8 DEF CoveredFrom
    <3>10. CoveredFrom("other", x)'
      BY <1>2, <3>2, <3>4, <3>5, <3>6, <3>7, <3>8 DEF CoveredFrom
    <3> QED BY <3>8, <3>9, <3>10
  <2>2. KeepNewer(x) \/ (Unmark(Side, x) /\ (job = "thorough" => \A s \in Side : CoveredFrom(s, x)'))
    BY <1>7, <2>1
  <2>3. x \notin todo' /\ todo' \subseteq todo
    BY <1>1, <1>4
  <2> QED BY <1>1, <1>3, <1>5, <1>7, <2>2, <2>3, UnmarkStep
<1> QED BY <1>1, <1>8, <1>6, <1>7

LEMMA DirsDoneStep ==
  ASSUME Inv, DirsDone
  PROVE  Inv'
<1>1. /\ pc = "next" /\ todo = {} /\ pc' = "idle" /\ message' = "done"
      /\ listing' = listing /\ marked' = marked /\ selected_entries' = selected_entries
      /\ job' = job /\ todo' = todo /\ pair' = pair /\ n' = n /\ got' = got /\ result' = result
  BY DEF DirsDone, marks, file
<1>2. /\ entry' = entry /\ first' = first /\ same_path' = same_path
      /\ \A s \in Side : Present(s)' = Present(s) /\ Looked(s)' = Looked(s)
  BY <1>1, ListingSame
<1>3. job \in {"quick", "thorough"}
  BY <1>1 DEF Inv, PairOK
<1>4. TypeInv'
  BY <1>1, <1>2 DEF Inv, TypeInv
<1>5. PairOK' /\ ReadOK' /\ ResultOK' /\ MessageOK' /\ TodoOK'
  BY <1>1, <1>3 DEF PairOK, ReadOK, ResultOK, MessageOK, TodoOK, Compared, Comparing, Reading, Dirs
<1>6. MarksOK' /\ CountKept'
  BY <1>1, <1>2 DEF Inv, MarksOK, CountKept
<1>7. CoverOK'
  <2>1. \A s \in Side, y \in Name : CoveredFrom(s, y)' = CoveredFrom(s, y)
    BY <1>1, <1>2 DEF CoveredFrom, Current, Identical
  <2> QED BY <1>1, <2>1 DEF Inv, CoverOK, Dirs
<1> QED BY <1>4, <1>5, <1>6, <1>7 DEF Inv

-----------------------------------------------------------------------------

LEMMA InitOK == Init => Inv
<1> SUFFICES ASSUME Init PROVE Inv
  OBVIOUS
<1>1. PICK all \in BOOLEAN : marked = [s \in Side |-> IF all THEN Present(s) ELSE {}]
  BY DEF Init
<1>2. \A s \in Side : marked[s] \in SUBSET Name /\ marked[s] \subseteq Present(s)
  BY <1>1 DEF Present
<1>3. \A s \in Side : Cardinality(marked[s]) \in Nat
  BY <1>2, CompareAssumption, FS_Subset, FS_CardinalityType
<1>4. marked \in [Side -> SUBSET Name]
  BY <1>1, <1>2
<1>5. selected_entries \in [Side -> Int]
  BY <1>3 DEF Init
<1>6. TypeInv
  BY <1>4, <1>5 DEF Init, TypeInv
<1>7. PairOK /\ ReadOK /\ ResultOK /\ MessageOK /\ TodoOK /\ CoverOK
  BY DEF Init, PairOK, ReadOK, ResultOK, MessageOK, TodoOK, CoverOK, Compared, Comparing, Reading, Dirs
<1>8. MarksOK /\ CountKept
  BY <1>2 DEF Init, MarksOK, CountKept
<1> QED BY <1>6, <1>7, <1>8 DEF Inv

LEMMA NextOK == Inv /\ [Next]_vars => Inv'
<1> SUFFICES ASSUME Inv, [Next]_vars PROVE Inv'
  OBVIOUS
<1>1. ASSUME NEW a \in Name, NEW b \in Name, Compare(a, b) PROVE Inv'
  BY <1>1, CompareStep
<1>2. ASSUME NEW r1 \in Reads("this"), NEW r2 \in Reads("other"), pc = "read", ReadPair(r1, r2) PROVE Inv'
  BY <1>2, ReadPairStep
<1>3. CASE OpenBoth \/ Abort \/ \E s \in Side : OpenFails(s) \/ ReadFails(s)
  BY <1>3, NoReadStep
<1>4. CASE Report
  BY <1>4, ReportStep
<1>5. ASSUME NEW how \in {"quick", "thorough"}, CompareDirs(how) PROVE Inv'
  BY <1>5, CompareDirsStep
<1>6. ASSUME NEW x \in Name, NextFile(x) PROVE Inv'
  BY <1>6, NextFileStep
<1>7. CASE Decide
  BY <1>7, DecideStep
<1>8. CASE DirsDone
  BY <1>8, DirsDoneStep
<1>9. CASE UNCHANGED vars
  <2>1. /\ entry' = entry /\ first' = first /\ same_path' = same_path
        /\ marked' = marked /\ selected_entries' = selected_entries
        /\ pc' = pc /\ job' = job /\ todo' = todo /\ pair' = pair
        /\ n' = n /\ got' = got /\ result' = result /\ message' = message
    BY <1>9 DEF vars, listing, marks, file
  <2>2. /\ TypeInv' = TypeInv /\ PairOK' = PairOK /\ MarksOK' = MarksOK /\ CountKept' = CountKept
    BY <2>1 DEF TypeInv, PairOK, MarksOK, CountKept, Present, Comparing, Reading, Compared, Entry
  <2>3. ReadOK' = ReadOK
    BY <2>1 DEF ReadOK, Reading, Regular, Special, Data, Entry, Agree
  <2>4. ResultOK' = ResultOK
    <3>1. AreCurrent' = AreCurrent /\ Compared' = Compared /\ Regular' = Regular
          /\ Unread(Entry("this"), Entry("other"))' = Unread(Entry("this"), Entry("other"))
      BY <2>1, PairSame DEF Compared
    <3>2. Data("this")' = Data("this") /\ Data("other")' = Data("other")
      BY <2>1 DEF Data, Entry
    <3>3. SameOK' = SameOK /\ ShortOK' = ShortOK /\ DifferOK' = DifferOK
      BY <2>1, <3>2 DEF SameOK, ShortOK, DifferOK, Agree
    <3> QED BY <2>1, <3>1, <3>2, <3>3 DEF ResultOK
  <2>5. MessageOK' = MessageOK
    BY <2>1 DEF MessageOK, Compared, Message
  <2>6. TodoOK' = TodoOK
    BY <2>1 DEF TodoOK, Dirs, Comparing, Reading, Looked, Present
  <2>7. CoverOK' = CoverOK
    BY <2>1 DEF CoverOK, Dirs, Comparing, Reading, CoveredFrom, Current, Identical
  <2> QED BY <2>2, <2>3, <2>4, <2>5, <2>6, <2>7 DEF Inv
<1> QED BY <1>1, <1>2, <1>3, <1>4, <1>5, <1>6, <1>7, <1>8, <1>9 DEF Next


LEMMA InvCorrect == Spec => []Inv
BY InitOK, NextOK, PTL DEF Spec

(* Nothing is read past the end of a file, and no more is compared than    *)
(* was read of each.                                                       *)
THEOREM TypeCorrect == Spec => []TypeOK
<1>1. Inv => TypeOK
  BY DEF Inv, TypeInv, TypeOK, ReadOK, Reading
<1> QED BY <1>1, InvCorrect, PTL

(* The count of marked entries that the panel shows is right after every   *)
(* comparison of directories, whichever marks it takes away.               *)
THEOREM CountCorrect == Spec => []CountKept
<1>1. Inv => CountKept
  BY DEF Inv
<1> QED BY <1>1, InvCorrect, PTL

(* "Compare OK" is said of files with the same contents, however read()    *)
(* cuts a special file into pieces.                                        *)
THEOREM OKCorrect == Spec => []OKMeansIdentical
<1>1. Inv => OKMeansIdentical
  <2> SUFFICES ASSUME Inv, Compared, message = "ok", AreCurrent, ~Unread(Entry("this"), Entry("other"))
               PROVE  Data("this") = Data("other")
    BY DEF OKMeansIdentical
  <2>1. Message = "ok"
    BY DEF Inv, MessageOK
  <2>2. result = got["this"] /\ got["this"] = got["other"]
    BY <2>1 DEF Message
  <2> QED BY <2>2 DEF Inv, ResultOK
<1> QED BY <1>1, InvCorrect, PTL

LEMMA PrefixOf ==
  ASSUME NEW a \in Seq(Nat), NEW b \in Seq(Nat), Len(a) < Len(b), \A i \in 1 .. Len(a) : a[i] = b[i]
  PROVE  IsStrictPrefix(a, b)
<1> DEFINE k == Len(a)
           c == SubSeq(b, 1, k)
           d == SubSeq(a, 1, k)
<1>1. k \in Nat /\ Len(b) \in Nat /\ k < Len(b)
  BY LenProperties
<1>2. (\A i \in 1 .. k : b[i] \in Nat) /\ (\A i \in 1 .. k : a[i] \in Nat)
  BY <1>1, LenProperties
<1>3. c \in Seq(Nat) /\ Len(c) = k /\ \A i \in 1 .. k : c[i] = b[i]
  BY <1>1, <1>2, SubSeqProperties
<1>4. d \in Seq(Nat) /\ Len(d) = k /\ \A i \in 1 .. k : d[i] = a[i]
  BY <1>1, <1>2, SubSeqProperties
<1>5. \A i \in 1 .. k : c[i] = d[i]
  BY <1>3, <1>4
<1>6. c = d
  <2> HIDE DEF c, d
  <2> QED BY <1>3, <1>4, <1>5, SeqEqual
<1>7. a # b
  BY <1>1
<1> QED BY <1>1, <1>6, <1>7 DEF IsPrefix, IsStrictPrefix

LEMMA NoPrefix ==
  ASSUME NEW a \in Seq(Nat), NEW b \in Seq(Nat), NEW k \in Nat, k < Len(a), k < Len(b), a[k + 1] # b[k + 1]
  PROVE  ~IsPrefix(a, b)
<1> DEFINE m == Len(a)
           c == SubSeq(b, 1, m)
           d == SubSeq(a, 1, m)
<1> SUFFICES ASSUME m <= Len(b), c = d PROVE FALSE
  BY DEF IsPrefix
<1>1. m \in Nat /\ Len(b) \in Nat
  BY LenProperties
<1>2. (\A i \in 1 .. m : b[i] \in Nat) /\ (\A i \in 1 .. m : a[i] \in Nat)
  BY <1>1, LenProperties
<1>3. \A i \in 1 .. m : c[i] = b[i]
  BY <1>1, <1>2, SubSeqProperties
<1>4. \A i \in 1 .. m : d[i] = a[i]
  BY <1>1, <1>2, SubSeqProperties
<1>5. k + 1 \in 1 .. m
  BY <1>1
<1> HIDE DEF c, d
<1> QED BY <1>3, <1>4, <1>5

LEMMA SameStart ==
  ASSUME NEW a \in Seq(Nat), NEW b \in Seq(Nat), NEW k \in Nat, k < Len(a), k < Len(b), \A i \in 1 .. k : a[i] = b[i]
  PROVE  SubSeq(a, 1, k) = SubSeq(b, 1, k)
<1> DEFINE c == SubSeq(a, 1, k)
           d == SubSeq(b, 1, k)
<1>1. (\A i \in 1 .. k : a[i] \in Nat) /\ (\A i \in 1 .. k : b[i] \in Nat)
  BY LenProperties
<1>2. c \in Seq(Nat) /\ Len(c) = k /\ \A i \in 1 .. k : c[i] = a[i]
  BY <1>1, SubSeqProperties
<1>3. d \in Seq(Nat) /\ Len(d) = k /\ \A i \in 1 .. k : d[i] = b[i]
  BY <1>1, SubSeqProperties
<1> HIDE DEF c, d
<1>4. \A i \in 1 .. k : c[i] = d[i]
  BY <1>2, <1>3
<1>5. c = d
  BY <1>2, <1>3, <1>4, SeqEqual
<1> QED BY <1>5 DEF c, d

(* Regular files are reported as what they are, and a difference at the    *)
(* first byte that differs, for buffers and files of any length.           *)
THEOREM DifferenceCorrect == Spec => []DifferenceReported
<1>1. ASSUME Inv PROVE DifferenceReported
  <2> DEFINE a == Data("this")
             b == Data("other")
  <2> SUFFICES ASSUME Compared, AreCurrent, ~Special("this"), ~Special("other"), result >= 0, AsInt(result) = result
               PROVE  CASE message = "ok"             -> a = b
                        [] message = "same beginning" -> IsStrictPrefix(a, b) \/ IsStrictPrefix(b, a)
                        [] message = "differ"         -> /\ ~IsPrefix(a, b) /\ ~IsPrefix(b, a)
                                                         /\ SubSeq(a, 1, n) = SubSeq(b, 1, n)
                                                         /\ a[n + 1] # b[n + 1]
                        [] OTHER -> FALSE
    BY DEF DifferenceReported
  <2>1. a \in Seq(Nat) /\ b \in Seq(Nat) /\ Len(a) \in Nat /\ Len(b) \in Nat
    BY <1>1, FileTypes DEF Inv, Side
  <2>2. got["this"] \in Nat /\ got["other"] \in Nat /\ n \in Nat
    BY <1>1 DEF Inv, TypeInv, Side
  <2>3. message = IF result = got["this"] /\ got["this"] = got["other"] THEN "ok"
                  ELSE IF result = Smaller(got["this"], got["other"]) THEN "same beginning"
                  ELSE "differ"
    <3>1. /\ AsInt(result) # CF_ABORT
          /\ AsInt(result) \notin {CF_OPEN["this"], CF_OPEN["other"]}
          /\ AsInt(result) \notin {CF_READ["this"], CF_READ["other"]}
      BY <1>1 DEF CF_ABORT, CF_OPEN, CF_READ
    <3>2. message = Message
      BY <1>1 DEF Inv, MessageOK
    <3> HIDE DEF CF_ABORT, CF_OPEN, CF_READ
    <3> QED BY <3>1, <3>2 DEF Message
  <2>4. SameOK \/ ShortOK \/ DifferOK
    BY <1>1 DEF Inv, ResultOK, Regular
  <2>5. CASE SameOK
    BY <2>3, <2>5 DEF SameOK
  <2>6. CASE ShortOK
    <3>1. message = "same beginning"
      BY <2>3, <2>6 DEF ShortOK
    <3>2. \A i \in 1 .. n : a[i] = b[i]
      BY <2>6 DEF ShortOK, Agree
    <3>3. (n = Len(a) /\ n < Len(b)) \/ (n = Len(b) /\ n < Len(a))
      BY <2>6 DEF ShortOK
    <3> HIDE DEF a, b
    <3>4. IsStrictPrefix(a, b) \/ IsStrictPrefix(b, a)
      <4>1. CASE n = Len(a) /\ n < Len(b)
        BY <2>1, <3>2, <4>1, PrefixOf
      <4>2. CASE n = Len(b) /\ n < Len(a)
        <5>1. \A i \in 1 .. Len(b) : b[i] = a[i]
          BY <3>2, <4>2
        <5> QED BY <2>1, <4>2, <5>1, PrefixOf
      <4> QED BY <3>3, <4>1, <4>2
    <3> QED BY <3>1, <3>4
  <2>7. CASE DifferOK
    <3>1. message = "differ"
      <4>1. result < got["this"] /\ result < got["other"] /\ result \in Int
        BY <1>1, <2>7 DEF DifferOK, Inv, TypeInv
      <4>2. result # got["this"] /\ result # Smaller(got["this"], got["other"])
        BY <2>2, <4>1 DEF Smaller
      <4> QED BY <2>3, <4>2
    <3>2. \A i \in 1 .. n : a[i] = b[i]
      BY <2>7 DEF DifferOK, Agree
    <3>3. n < Len(a) /\ n < Len(b) /\ a[n + 1] # b[n + 1]
      BY <2>7 DEF DifferOK
    <3> HIDE DEF a, b
    <3>4. ~IsPrefix(a, b) /\ ~IsPrefix(b, a)
      BY <2>1, <2>2, <3>3, NoPrefix
    <3>5. SubSeq(a, 1, n) = SubSeq(b, 1, n)
      BY <2>1, <2>2, <3>2, <3>3, SameStart
    <3> QED BY <3>1, <3>3, <3>4, <3>5
  <2> QED BY <2>4, <2>5, <2>6, <2>7
<1> QED BY <1>1, InvCorrect, PTL

(* After a thorough comparison of two directories every file is marked     *)
(* unless the other panel has the same contents, or a marked file that is  *)
(* not older, whatever the panels showed and whatever failed.              *)
THEOREM UnmarkedCorrect == Spec => []UnmarkedIsCovered
<1>1. ASSUME Inv PROVE UnmarkedIsCovered
  <2> DEFINE Covered(s, x, t) ==
        /\ entry[s][x] # None /\ entry[s][x].type # "dir" /\ x \notin marked[s]
        /\ entry[t][x] # None =>
             /\ Current(s, x) /\ Current(t, x)
             /\ ~Unread(entry[s][x], entry[t][x])
        => /\ entry[t][x] # None
           /\ \/ x \in marked[t] /\ entry[t][x].mtime >= entry[s][x].mtime
              \/ x \notin marked[t] /\ Identical(x, x)
  <2> SUFFICES ASSUME job = "thorough", message = "done", NEW s \in Side, NEW x \in Name
               PROVE  Covered(s, x, CHOOSE t \in Side : t # s)
    BY DEF UnmarkedIsCovered
  <2> DEFINE t == CHOOSE t \in Side : t # s
  <2>1. t = Other(s)
    <3>1. \E u \in Side : u # s
      BY DEF Side
    <3>2. t \in Side /\ t # s
      BY <3>1
    <3> HIDE DEF t
    <3> QED BY <3>2 DEF Side, Other
  <2>2. CoveredFrom(s, x)
    BY <1>1 DEF Inv, CoverOK
  <2>3. Covered(s, x, Other(s))
    BY <2>2 DEF CoveredFrom
  <2> HIDE DEF Covered
  <2>4. Covered(s, x, t)
    <3> HIDE DEF t
    <3> QED BY <2>1, <2>3
  <2> QED BY <2>4
<1> QED BY <1>1, InvCorrect, PTL
=============================================================================
