---------------------------- MODULE PanelProofs ----------------------------
(***************************************************************************)
(* What holds of a panel for every directory, every sorting and every      *)
(* number of lines; and of an incremental search in it, for every text.    *)
(***************************************************************************)
EXTENDS ISearch, FiniteSetTheorems, SequenceTheorems, TLAPS

(* The lengths on a stack S of records, l being that of the text: they     *)
(* grow by one character, or by a resumed text of length n (when r).       *)
Lengths(S, l, r, n) ==
  /\ Len(S) > 0 /\ S[1][2] = 0 /\ S[Len(S)][2] = l
  /\ \A i, j \in 1 .. Len(S) : i <= j => S[i][2] <= S[j][2]
  /\ \A i \in 1 .. Len(S) - 1 : \/ S[i + 1][2] = S[i][2] \/ S[i + 1][2] = S[i][2] + 1
                                \/ r /\ S[i][2] = 0 /\ S[i + 1][2] = n
  /\ r => n > 0 /\ l >= n /\ \A i \in 1 .. Len(S) : S[i][2] = 0 \/ S[i][2] >= n

(* The entries on it: what was pushed on an empty text is where the search *)
(* began.                                                                  *)
Origins(S, N, first) ==
  \A i \in 1 .. Len(S) : /\ S[i][1] < N
                         /\ i = 1 \/ S[i - 1][2] = 0 => S[i][1] = first

(* Each character that was not found has a record of its own.              *)
OwnRecords(S, l) == \A i \in 2 .. Len(S) : S[i][2] > l => S[i - 1][2] < S[i][2]

(* What the panel counts as found, at most the text.                       *)
FoundLength ==
  /\ isearch_length <= Len(text)
  /\ isearch_length < Len(text) =>
       previous_isearch_failed /\ OwnRecords(isearch_stack, isearch_length)
  /\ resuming_previous_isearch /\ isearch_length < Len(search_string) =>
       /\ isearch_length = 0 /\ Len(text) = Len(search_string)
       /\ isearch_stack[Len(isearch_stack) - 1][2] = 0
  /\ isearch_length = 0 => current_entry + todo = start

(* A walk of the cursor ends on an entry.                                  *)
WalkOK ==
  /\ listed \in Listings /\ sort_method \in Method /\ todo \in Int
  /\ current_entry \in Nat /\ current_entry < entries
  /\ current_entry + todo \in Nat /\ current_entry + todo < entries

SearchTypes ==
  /\ text \in Seq(Letter) /\ search_string \in Seq(Letter)
  /\ isearch_stack \in Seq(Nat \X Nat) /\ isearch_length \in Nat
  /\ direction \in {"off", "forward", "backward"}
  /\ previous_isearch_failed \in BOOLEAN /\ resuming_previous_isearch \in BOOLEAN

RecordsOK ==
  Searching => /\ Lengths(isearch_stack, Len(text), resuming_previous_isearch, Len(search_string))
               /\ Origins(isearch_stack, entries, start)
               /\ FoundLength

SearchInv == WalkOK /\ SearchTypes /\ RecordsOK

----------------------------------------------------------------------------
(* Listings are finite, and an entry's rank is an index into the listing.  *)

LEMMA ListingFinite ==
  ASSUME NEW S \in SUBSET (File \cup {DotDot})
  PROVE  IsFiniteSet(S) /\ Cardinality(S) \in Nat /\ (S # {} => Cardinality(S) > 0)
<1>1. IsFiniteSet(File \cup {DotDot})
  BY PanelAssumption, FS_AddElement
<1>2. IsFiniteSet(S)
  BY <1>1, FS_Subset
<1>3. Cardinality(S) \in Nat
  BY <1>2, FS_CardinalityType
<1>4. S # {} => Cardinality(S) # 0
  BY <1>2, FS_EmptySet
<1> QED BY <1>2, <1>3, <1>4

LEMMA RankBounds ==
  ASSUME NEW S \in Listings, NEW m \in Method, NEW f \in S
  PROVE  Rank(S, m, f) \in Nat /\ Rank(S, m, f) < Cardinality(S)
<1> DEFINE T == {g \in S : Before(m, g, f)}
<1>1. S \in SUBSET (File \cup {DotDot})
  BY DEF Listings
<1>2. IsFiniteSet(S) /\ Cardinality(S) \in Nat
  BY <1>1, ListingFinite
<1>3. ~Before(m, f, f)
  <2>1. CASE f = DotDot
    BY <2>1 DEF Before
  <2>2. CASE f # DotDot
    <3>1. f \in File /\ Key[m][f] \in Nat /\ f \in Nat
      BY <2>2, <1>1, PanelAssumption
    <3> QED BY <2>2, <3>1 DEF Before
  <2> QED BY <2>1, <2>2
<1>4. T \subseteq S \ {f}
  BY <1>3
<1>5. IsFiniteSet(S \ {f}) /\ Cardinality(S \ {f}) = Cardinality(S) - 1
  BY <1>2, FS_RemoveElement
<1>6. IsFiniteSet(T) /\ Cardinality(T) <= Cardinality(S \ {f})
  BY <1>4, <1>5, FS_Subset
<1>7. Cardinality(T) \in Nat
  BY <1>6, FS_CardinalityType
<1> QED BY <1>2, <1>5, <1>6, <1>7 DEF Rank

(* Two names of a listing never have the same index.                       *)
LEMMA RankInjective ==
  ASSUME NEW S \in Listings, NEW m \in Method, NEW f \in S, NEW g \in S,
         Rank(S, m, f) = Rank(S, m, g)
  PROVE  f = g
<1> DEFINE Lower(h) == {x \in S : Before(m, x, h)}
<1>1. S \in SUBSET (File \cup {DotDot}) /\ IsFiniteSet(S)
  BY ListingFinite DEF Listings
<1>2. \A h \in S : h # DotDot => h \in Nat /\ Key[m][h] \in Nat
  BY <1>1, PanelAssumption
<1>3. ASSUME NEW a \in S, NEW b \in S, Before(m, a, b)
      PROVE  Cardinality(Lower(a)) < Cardinality(Lower(b))
  <2>1. \A x \in S : Before(m, x, a) => Before(m, x, b)
    BY <1>2, <1>3 DEF Before
  <2>2. ~Before(m, a, a)
    BY <1>2 DEF Before
  <2>3. Lower(a) \subseteq Lower(b) /\ Lower(a) # Lower(b)
    BY <2>1, <2>2, <1>3
  <2>4. IsFiniteSet(Lower(b)) /\ IsFiniteSet(Lower(a))
    BY <1>1, FS_Subset
  <2>5. Cardinality(Lower(a)) <= Cardinality(Lower(b))
        /\ Cardinality(Lower(a)) # Cardinality(Lower(b))
    BY <2>3, <2>4, FS_Subset
  <2>6. Cardinality(Lower(a)) \in Nat /\ Cardinality(Lower(b)) \in Nat
    BY <2>4, FS_CardinalityType
  <2> QED BY <2>5, <2>6
<1>4. f # g => Before(m, f, g) \/ Before(m, g, f)
  BY <1>2 DEF Before
<1>5. Cardinality(Lower(f)) = Cardinality(Lower(g)) /\ Cardinality(Lower(f)) \in Nat
  BY RankBounds DEF Rank
<1>6. ~Before(m, f, g) /\ ~Before(m, g, f)
  BY <1>3, <1>5
<1> QED BY <1>4, <1>6

(* Every index into a listing is that of a name.                           *)
LEMMA IndexOnto ==
  ASSUME NEW S \in Listings, NEW m \in Method, NEW i \in Nat, i < Cardinality(S)
  PROVE  \E f \in S : Rank(S, m, f) = i
<1> DEFINE N == Cardinality(S)
           I == 0 .. N - 1
           r == [f \in S |-> Rank(S, m, f)]
<1>1. N \in Nat /\ IsFiniteSet(S)
  BY ListingFinite DEF Listings
<1>2. \A f \in S : Rank(S, m, f) \in I
  <2>1. \A f \in S : Rank(S, m, f) \in Nat /\ Rank(S, m, f) < N
    BY RankBounds
  <2> HIDE DEF N
  <2> QED BY <1>1, <2>1
<1>3. r \in [S -> I]
  BY <1>2
<1>4. \A f, g \in S : r[f] = r[g] => f = g
  BY RankInjective
<1>5. IsFiniteSet(I) /\ Cardinality(I) = N
  <2> HIDE DEF N
  <2> QED BY <1>1, FS_Interval
<1> HIDE DEF r, I
<1>6. r \in Injection(S, I)
  BY <1>3, <1>4 DEF Injection, IsInjective
<1>7. r \in Surjection(S, I)
  BY <1>5, <1>6, FS_Injection
<1>8. i \in I
  BY <1>1 DEF I
<1>9. \E f \in S : r[f] = i
  BY <1>7, <1>8 DEF Surjection
<1> QED BY <1>9 DEF r

(* ".." comes first.                                                       *)
LEMMA DotDotFirst ==
  ASSUME NEW S \in Listings, NEW m \in Method
  PROVE  Rank(S, m, DotDot) = 0
<1>1. {g \in S : Before(m, g, DotDot)} = {}
  BY DEF Before
<1> QED BY <1>1, FS_EmptySet DEF Rank

----------------------------------------------------------------------------
(* panel_get_fos puts the window around the cursor.                        *)

InWindow(p, first, cur, n) ==
  /\ 0 <= first
  /\ p # 2 => /\ first <= cur /\ cur < first + Lines(p)
              /\ first = 0 \/ first + Lines(p) <= n

LEMMA CenteredBounds ==
  ASSUME NEW p \in Sizes, NEW cur \in Int, NEW n \in Int, 0 <= cur, cur < n
  PROVE  CenteredFos(p, cur, n) \in Int /\ InWindow(p, CenteredFos(p, cur, n), cur, n)
<1>1. p \in Nat /\ (p = 2 \/ p >= 4)
  BY PanelAssumption
<1> QED BY <1>1 DEF CenteredFos, InWindow, Lines, Greater

LEMMA FosBounds ==
  ASSUME NEW p \in Sizes, NEW first \in Int, NEW cur \in Int, NEW n \in Int,
         0 <= first, 0 <= cur, cur < n
  PROVE  Fos(p, first, cur, n) \in Int /\ InWindow(p, Fos(p, first, cur, n), cur, n)
<1>1. p \in Nat
  BY PanelAssumption
<1>2. CASE first <= cur /\ cur < first + Lines(p) /\ first + Lines(p) <= n
  BY <1>1, <1>2 DEF Fos, InWindow, Lines
<1>3. CASE ~(first <= cur /\ cur < first + Lines(p) /\ first + Lines(p) <= n)
  BY <1>3, CenteredBounds DEF Fos
<1> QED BY <1>2, <1>3

----------------------------------------------------------------------------
(* Type correctness.                                                       *)

(* In every reachable state the panel's variables have their types; in     *)
(* particular only entries of the listing are marked.                      *)
THEOREM TypeCorrect == Spec => []TypeOK
<1>1. Init => TypeOK
  <2> SUFFICES ASSUME Init PROVE TypeOK
    OBVIOUS
  <2>1. plines \in Nat /\ StepFor(plines) \in Nat
    BY PanelAssumption DEF Init, StepFor
  <2>2. miscounted \in BOOLEAN
    BY Zenon DEF Init
  <2> QED BY <2>1, <2>2 DEF Init, TypeOK
<1>2. TypeOK /\ [Next]_vars => TypeOK'
  <2> SUFFICES ASSUME TypeOK, [Next]_vars PROVE TypeOK'
    OBVIOUS
  <2>1. plines \in Nat /\ listed \in SUBSET (File \cup {DotDot}) /\ entries \in Nat
    BY PanelAssumption, ListingFinite DEF TypeOK, Listings, entries
  <2>2. \A p \in Sizes, first \in Int, cur \in Int, n \in Int :
          CenteredFos(p, cur, n) \in Int /\ Fos(p, first, cur, n) \in Int
    BY PanelAssumption DEF CenteredFos, Fos, Lines, Greater
  <2>3. \A S \in SUBSET (File \cup {DotDot}) : Cardinality(S) \in Nat
    BY ListingFinite
  <2>4. \A S \in Listings : \A m \in Method, f \in S : Rank(S, m, f) \in Nat
    BY RankBounds
  <2>5. CASE Window
    <3>1. ASSUME NEW p \in Sizes, Resize(p) PROVE TypeOK'
      <4>1. p \in Nat /\ StepFor(p) \in Nat
        BY PanelAssumption DEF StepFor
      <4>2. CenteredFos(p, current_entry, entries) \in Int
        BY <2>1, <2>2 DEF TypeOK
      <4> QED BY <3>1, <4>1, <4>2 DEF Resize, TypeOK, marks
    <3>2. ASSUME NEW k \in 1 .. plines, SetScrollStep(k) PROVE TypeOK'
      BY <3>2, <2>1 DEF SetScrollStep, TypeOK, marks, cursor
    <3> QED BY <2>5, <3>1, <3>2 DEF Window, Switch, TypeOK
  <2>6. CASE Move
    <3>1. CASE Steps
      <4>1. StepDown => TypeOK'
        BY <2>1 DEF StepDown, TypeOK, cursor, marks, size, Lines, Lesser
      <4>2. StepUp => TypeOK'
        BY <2>1 DEF StepUp, TypeOK, cursor, marks, size, Greater
      <4> QED BY <3>1, <4>1, <4>2 DEF Steps
    <3>2. ASSUME NEW i \in Int, MoveTo(i) PROVE TypeOK'
      <4>1. Fos(plines, first_on_screen, i, entries) \in Int
        BY <2>1, <2>2 DEF TypeOK
      <4> QED BY <3>2, <4>1 DEF MoveTo, SetCurrentEntry, TypeOK, marks, size
    <3>3. ASSUME NEW k \in Int, Repeat(k) PROVE TypeOK'
      BY <3>3 DEF Repeat, TypeOK, marks, cursor, size
    <3>4. PageUp \/ PageDown \/ Home \/ End => \E i \in Int : MoveTo(i)
      <4>1. Greater(0, current_entry - Lines(plines)) \in Int
            /\ current_entry + Lines(plines) \in Int /\ entries - 1 \in Int
        BY <2>1 DEF Greater, Lines, TypeOK
      <4> QED BY <4>1 DEF PageUp, PageDown, Home, End
    <3>5. \A k \in 1 .. MaxRepeat : k \in Int /\ -k \in Int
      OBVIOUS
    <3> QED BY <2>6, <3>1, <3>2, <3>3, <3>4, <3>5 DEF Move
  <2>7. CASE Choose
    <3>1. \A P \in SUBSET NonDir : /\ Cardinality(P \ selected) \in Nat
                                   /\ Cardinality(P \cap selected) \in Nat
                                   /\ Cardinality(P) \in Nat
      BY <2>1, <2>3 DEF NonDir
    <3>2. ASSUME NEW k \in 1 .. MaxRepeat, Select(k) PROVE TypeOK'
      BY <3>2 DEF Select, TypeOK, At, cursor, size
    <3>3. ASSUME NEW P \in SUBSET NonDir, Marking, Mark(P) \/ Unmark(P) PROVE TypeOK'
      <4>1. selected' \subseteq listed /\ selected_entries' \in Int
        <5>1. CASE Mark(P)
          BY <3>1, <5>1 DEF Mark, TypeOK, NonDir
        <5>2. CASE Unmark(P)
          BY <3>1, <5>2 DEF Unmark, TypeOK
        <5> QED BY <3>3, <5>1, <5>2
      <4> QED BY <3>3, <4>1 DEF Marking, TypeOK, cursor, size
    <3>4. SelectAll \/ SelectExtension \/ UnselectExtension
          => \E P \in SUBSET NonDir : Marking /\ (Mark(P) \/ Unmark(P))
      <4>1. \A f : SameExtension(f) \in SUBSET NonDir
        BY DEF SameExtension
      <4> QED BY <4>1 DEF SelectAll, SelectExtension, UnselectExtension
    <3>5. ASSUME NEW P \in SUBSET NonDir, CompareDirs(P) PROVE TypeOK'
      BY <3>1, <3>5 DEF CompareDirs, Marking, TypeOK, NonDir, cursor, size
    <3>6. UnselectAll => TypeOK'
      <4>1. UnselectAll => miscounted' \in BOOLEAN
        BY Zenon DEF UnselectAll
      <4> QED BY <4>1 DEF UnselectAll, TypeOK, cursor, size
    <3>7. Toggle => TypeOK'
      <4>1. Toggle => miscounted' \in BOOLEAN
        BY Zenon DEF Toggle
      <4>2. Toggle => selected' \subseteq listed /\ selected_entries' \in Int
        BY <2>3, <2>1 DEF Toggle, TypeOK, NonDir
      <4> QED BY <4>1, <4>2 DEF Toggle, TypeOK, cursor, size
    <3>8. ASSUME NEW P \in SUBSET NonDir, BinPacking(P) PROVE TypeOK'
      <4>1. miscounted' \in BOOLEAN
        BY <3>8, Zenon DEF BinPacking
      <4>2. P \subseteq listed
        BY DEF NonDir
      <4>3. Cardinality(P) \in Nat
        BY <3>1
      <4>4. selected' \subseteq listed' /\ selected_entries' \in Int
        BY <3>8, <4>2, <4>3 DEF BinPacking
      <4> QED BY <3>8, <4>1, <4>4 DEF BinPacking, TypeOK, cursor, size
    <3> QED BY <2>7, <3>2, <3>3, <3>4, <3>5, <3>6, <3>7, <3>8
            DEF Choose, PatternSelect, PatternUnselect
  <2>8. CASE Read
    <3> PICK S \in Listings : \/ Reread(S) \/ ReadFromTop(S) \/ UpOneDir(S)
                              \/ \E done \in SUBSET selected : Operated(done, S)
                              \/ \E same \in BOOLEAN : Enter(S, same)
      BY <2>8 DEF Read
    <3>1. S \subseteq File \cup {DotDot} /\ Cardinality(S) \in Nat
      BY <2>3 DEF Listings
    <3>2. \A cur \in Int : Lesser(cur, Cardinality(S) - 1) \in Int
      BY <3>1 DEF Lesser
    <3>3. ClampedFos(S, current_entry) \in Int
      BY <2>2, <3>1, <3>2 DEF ClampedFos, TypeOK
    <3>4. \A i \in Int : /\ Fos(plines, ClampedFos(S, current_entry), i, Cardinality(S)) \in Int
                         /\ Fos(plines, 0, i, Cardinality(S)) \in Int
      BY <2>2, <3>1, <3>3 DEF TypeOK
    <3>5. \A K \in SUBSET S : Cardinality(K) \in Int
      BY <2>3, <3>1
    <3>6. ASSUME NEW verify \in BOOLEAN, Reading, ReadDirectory(S, verify)
          PROVE  /\ listed' \in Listings /\ sort_method' \in Method
                 /\ selected' \subseteq listed' /\ selected_entries' \in Int
                 /\ miscounted' \in BOOLEAN /\ plines' \in Sizes
                 /\ scroll_step' \in Nat /\ todo' \in Int
      BY <3>5, <3>6 DEF Reading, ReadDirectory, Kept, size, TypeOK
    <3>7. ASSUME NEW i \in Int, ThenSet(S, i)
          PROVE  current_entry' \in Int /\ first_on_screen' \in Int
      BY <3>4, <3>7 DEF ThenSet
    <3>8. CASE Reread(S)
      <4>1. \A f \in S : Rank(S, sort_method, f) \in Int
        BY <2>4 DEF TypeOK
      <4>2. current_entry' \in Int /\ first_on_screen' \in Int
        BY <3>1, <3>7, <3>8, <4>1 DEF Reread
      <4> QED BY <3>6, <3>8, <4>2 DEF Reread, TypeOK
    <3>9. CASE ReadFromTop(S)
      <4>1. current_entry' \in Int /\ first_on_screen' \in Int
        BY <3>7, <3>9 DEF ReadFromTop
      <4> QED BY <3>6, <3>9, <4>1 DEF ReadFromTop, TypeOK
    <3>10. CASE UpOneDir(S)
      <4>1. current_entry' \in Int /\ first_on_screen' \in Int
        BY <3>1, <3>4, <3>10 DEF UpOneDir
      <4> QED BY <3>6, <3>10, <4>1 DEF UpOneDir, TypeOK
    <3>11. ASSUME NEW done \in SUBSET selected, Operated(done, S) PROVE TypeOK'
      <4>1. PICK i \in Int, first \in Int : Completed(done, S, i, first)
        <5>1. CASE Completed(done, S, current_entry, first_on_screen)
          BY <5>1 DEF TypeOK
        <5>2. ASSUME NEW f \in selected,
                     Completed(done, S, Index(f), Fos(plines, first_on_screen, Index(f), entries))
              PROVE  \E i \in Int, first \in Int : Completed(done, S, i, first)
          <6>1. Index(f) \in Int
            BY <2>4 DEF Index, TypeOK
          <6>2. Fos(plines, first_on_screen, Index(f), entries) \in Int
            <7>1. plines \in Sizes /\ first_on_screen \in Int /\ entries \in Int
              BY <2>1 DEF TypeOK
            <7> QED BY <2>2, <6>1, <7>1
          <6> QED BY <5>2, <6>1, <6>2
        <5> QED BY <3>11, <5>1, <5>2 DEF Operated
      <4>2. Lesser(i, Cardinality(S) - 1) \in Int
        BY <3>2
      <4>3. Fos(plines, first, Lesser(i, Cardinality(S) - 1), Cardinality(S)) \in Int
        BY <2>2, <3>1, <4>2 DEF TypeOK
      <4>4. listed' = S /\ selected' \subseteq S /\ selected_entries' \in Int
            /\ miscounted' = FALSE
        <5>1. selected' = Kept(selected \ done, S, TRUE) /\ selected' \subseteq S
          BY <4>1 DEF Completed, Kept
        <5> QED BY <3>5, <4>1, <5>1 DEF Completed
      <4>5. current_entry' \in Int /\ first_on_screen' \in Int
        BY <4>1, <4>2, <4>3 DEF Completed
      <4>6. UNCHANGED <<sort_method, size, todo>>
        BY <3>11 DEF Operated, Reading
      <4> QED BY <4>4, <4>5, <4>6 DEF size, TypeOK
    <3>12. ASSUME NEW same \in BOOLEAN, Enter(S, same) PROVE TypeOK'
      <4>1. current_entry' \in Int /\ first_on_screen' \in Int
        BY <3>1, <3>7, <3>12 DEF Enter
      <4> QED BY <3>6, <3>12, <4>1 DEF Enter, TypeOK
    <3> QED BY <3>8, <3>9, <3>10, <3>11, <3>12
  <2>9. ASSUME NEW m \in Method, Sort(m) PROVE TypeOK'
    <3>1. PICK f \in listed : SetCurrentEntry(Rank(listed, m, f))
      BY <2>9 DEF Sort
    <3>2. Rank(listed, m, f) \in Int
      BY <2>4 DEF TypeOK
    <3>3. Fos(plines, first_on_screen, Rank(listed, m, f), entries) \in Int
      <4>1. plines \in Sizes /\ first_on_screen \in Int /\ entries \in Int
        BY <2>1 DEF TypeOK
      <4> QED BY <4>1, <2>2, <3>2
    <3> QED BY <2>9, <3>1, <3>2, <3>3 DEF Sort, SetCurrentEntry, TypeOK, marks, size
  <2>10. CASE UNCHANGED vars
    BY <2>10 DEF vars, cursor, marks, size, TypeOK
  <2> QED BY <2>5, <2>6, <2>7, <2>8, <2>9, <2>10 DEF Next
<1> QED BY <1>1, <1>2, PTL DEF Spec

----------------------------------------------------------------------------
(* The cursor and the window.                                              *)

(* The scroll step never exceeds what the window shows: without that the   *)
(* window could jump over the cursor.                                      *)
StepFits == plines # 2 => 1 <= scroll_step /\ scroll_step <= Lines(plines)

WindowInv == CursorInWindow /\ StepFits

LEMMA WindowInvAlt ==
  WindowInv <=> /\ 0 <= current_entry /\ current_entry < entries
                /\ InWindow(plines, first_on_screen, current_entry, entries)
                /\ StepFits
BY DEF WindowInv, CursorInWindow, InWindow

LEMMA StepForFits ==
  ASSUME NEW p \in Sizes
  PROVE  p # 2 => 1 <= StepFor(p) /\ StepFor(p) <= Lines(p)
<1>1. p \in Nat /\ (p = 2 \/ p >= 4)
  BY PanelAssumption
<1> QED BY <1>1, PanelAssumption DEF StepFor, Lines

LEMMA WindowInit == Init => WindowInv
<1> SUFFICES ASSUME Init PROVE WindowInv
  OBVIOUS
<1>1. entries \in Nat /\ entries > 0 /\ plines \in Nat /\ (plines = 2 \/ plines >= 4)
  BY ListingFinite, PanelAssumption DEF Init, Listings, entries
<1>2. StepFits
  BY StepForFits DEF Init, StepFits
<1>3. CursorInWindow
  BY <1>1 DEF Init, CursorInWindow, Lines
<1> QED BY <1>2, <1>3 DEF WindowInv

(* After a reading that ends in panel_set_current_entry(i).                *)
LEMMA WindowAfterReading ==
  ASSUME TypeOK, WindowInv, NEW S \in Listings, NEW i \in 0 .. Cardinality(S) - 1,
         listed' = S, UNCHANGED size, ThenSet(S, i)
  PROVE  WindowInv'
<1>1. Cardinality(S) \in Nat /\ Cardinality(S) > 0
  BY ListingFinite DEF Listings
<1>2. plines \in Sizes /\ first_on_screen \in Int /\ 0 <= first_on_screen
      /\ current_entry \in Int /\ 0 <= current_entry
  BY DEF TypeOK, WindowInv, CursorInWindow
<1>3. Lesser(current_entry, Cardinality(S) - 1) \in 0 .. Cardinality(S) - 1
  BY <1>1, <1>2 DEF Lesser
<1>4. ClampedFos(S, current_entry) \in Int /\ 0 <= ClampedFos(S, current_entry)
  BY <1>1, <1>2, <1>3, FosBounds DEF ClampedFos, InWindow
<1>5. InWindow(plines, Fos(plines, ClampedFos(S, current_entry), i, Cardinality(S)),
               i, Cardinality(S))
  BY <1>1, <1>2, <1>4, FosBounds
<1>6. current_entry' = i /\ plines' = plines /\ scroll_step' = scroll_step
      /\ first_on_screen' = Fos(plines, ClampedFos(S, current_entry), i, Cardinality(S))
  BY DEF ThenSet, size
<1>7. CursorInWindow'
  BY <1>1, <1>5, <1>6 DEF CursorInWindow, InWindow, Lines, entries
<1>8. StepFits'
  BY <1>6 DEF WindowInv, StepFits, Lines
<1> QED BY <1>7, <1>8 DEF WindowInv

LEMMA WindowStep == TypeOK /\ WindowInv /\ [Next]_vars => WindowInv'
<1> SUFFICES ASSUME TypeOK, WindowInv, [Next]_vars PROVE WindowInv'
  OBVIOUS
<1>1. entries \in Nat /\ entries > 0
  BY ListingFinite DEF TypeOK, Listings, entries
<1>2. plines \in Nat /\ (plines = 2 \/ plines >= 4)
      /\ scroll_step \in Nat /\ current_entry \in Int /\ first_on_screen \in Int
  BY PanelAssumption DEF TypeOK
<1>T. plines \in Sizes /\ first_on_screen \in Int /\ current_entry \in Int
  BY DEF TypeOK
<1>3. 0 <= current_entry /\ current_entry < entries /\ 0 <= first_on_screen
  BY DEF WindowInv, CursorInWindow
<1>4. ASSUME NEW i \in 0 .. entries - 1, SetCurrentEntry(i), UNCHANGED <<listed, size>>
      PROVE  WindowInv'
  <2>1. InWindow(plines, Fos(plines, first_on_screen, i, entries), i, entries)
    BY <1>1, <1>T, <1>3, FosBounds
  <2>2. CursorInWindow'
    BY <1>1, <1>4, <2>1 DEF SetCurrentEntry, CursorInWindow, InWindow, Lines, entries, size
  <2>3. StepFits'
    BY <1>4 DEF WindowInv, StepFits, size
  <2> QED BY <2>2, <2>3 DEF WindowInv
<1>5. CASE Window
  <2>1. ASSUME NEW p \in Sizes, Resize(p) PROVE WindowInv'
    <3>1. InWindow(p, CenteredFos(p, current_entry, entries), current_entry, entries)
      BY <1>1, <1>T, <1>3, CenteredBounds
    <3>2. CursorInWindow'
      BY <1>3, <2>1, <3>1 DEF Resize, CursorInWindow, InWindow, Lines, entries
    <3>3. StepFits'
      BY <2>1, StepForFits DEF Resize, StepFits
    <3> QED BY <3>2, <3>3 DEF WindowInv
  <2>2. ASSUME NEW k \in 1 .. plines, SetScrollStep(k) PROVE WindowInv'
    BY <1>2, <2>2 DEF SetScrollStep, WindowInv, CursorInWindow, StepFits, Lines, entries, cursor
  <2> QED BY <1>T, <1>5, <2>1, <2>2 DEF Window, Switch
<1>6. CASE Move
  <2>1. CASE StepDown
    <3>1. CASE current_entry < entries - 1
      BY <1>1, <1>2, <2>1, <3>1
         DEF StepDown, WindowInv, CursorInWindow, StepFits, Lines, Lesser, entries, size
    <3>2. CASE ~(current_entry < entries - 1)
      BY <2>1, <3>2 DEF StepDown, WindowInv, CursorInWindow, StepFits, Lines, entries, size, cursor
    <3> QED BY <3>1, <3>2
  <2>2. CASE StepUp
    <3>1. CASE current_entry # 0
      BY <1>1, <1>2, <2>2, <3>1
         DEF StepUp, WindowInv, CursorInWindow, StepFits, Lines, Greater, entries, size
    <3>2. CASE current_entry = 0
      BY <2>2, <3>2 DEF StepUp, WindowInv, CursorInWindow, StepFits, Lines, entries, size, cursor
    <3> QED BY <3>1, <3>2
  <2>3. ASSUME NEW i \in 0 .. entries - 1, MoveTo(i) PROVE WindowInv'
    BY <1>4, <2>3 DEF MoveTo
  <2>4. PageUp => MoveTo(Greater(0, current_entry - Lines(plines)))
        /\ Greater(0, current_entry - Lines(plines)) \in 0 .. entries - 1
    BY <1>1, <1>2, <1>3 DEF PageUp, Greater, Lines
  <2>5. PageDown => \E i \in 0 .. entries - 1 : MoveTo(i)
    <3>1. entries - 1 \in 0 .. entries - 1
      BY <1>1
    <3>2. ~(entries - 1 - current_entry < Lines(plines))
          => current_entry + Lines(plines) \in 0 .. entries - 1
      BY <1>1, <1>2, <1>3 DEF Lines
    <3> QED BY <3>1, <3>2 DEF PageDown
  <2>6. Home \/ End => \E i \in 0 .. entries - 1 : MoveTo(i)
    BY <1>1 DEF Home, End
  <2>7. ASSUME NEW k, Repeat(k) PROVE WindowInv'
    BY <2>7 DEF Repeat, WindowInv, CursorInWindow, StepFits, entries, cursor, size
  <2> QED BY <1>6, <2>1, <2>2, <2>3, <2>4, <2>5, <2>6, <2>7 DEF Move, Steps
<1>7. CASE Choose
  <2>1. UNCHANGED <<listed, cursor, size>>
    BY <1>7 DEF Choose, Select, SelectAll, UnselectAll, Toggle, SelectExtension,
                UnselectExtension, PatternSelect, PatternUnselect, CompareDirs, BinPacking,
                Marking
  <2> QED BY <2>1 DEF WindowInv, CursorInWindow, StepFits, entries, cursor, size
<1>8. CASE Read
  <2> PICK S \in Listings : \/ Reread(S) \/ ReadFromTop(S) \/ UpOneDir(S)
                            \/ \E done \in SUBSET selected : Operated(done, S)
                            \/ \E same \in BOOLEAN : Enter(S, same)
    BY <1>8 DEF Read
  <2>1. Cardinality(S) \in Nat /\ Cardinality(S) > 0
    BY ListingFinite DEF Listings
  <2>2. 0 \in 0 .. Cardinality(S) - 1
    BY <2>1
  <2>3. UNCHANGED size /\ listed' = S
    BY DEF Reread, ReadFromTop, UpOneDir, Operated, Completed, Enter, Reading, ReadDirectory, Kept
  <2>4. CASE \E i \in 0 .. Cardinality(S) - 1 : ThenSet(S, i)
    BY <2>3, <2>4, WindowAfterReading
  <2>5. Reread(S) \/ ReadFromTop(S) \/ (\E same \in BOOLEAN : Enter(S, same))
        => \E i \in 0 .. Cardinality(S) - 1 : ThenSet(S, i)
    <3>1. \A f \in S : Rank(S, sort_method, f) \in 0 .. Cardinality(S) - 1
      BY <2>1, RankBounds DEF TypeOK
    <3> QED BY <2>2, <3>1 DEF Reread, ReadFromTop, Enter
  <2>6. CASE UpOneDir(S)
    <3> PICK i \in 0 .. Cardinality(S) - 1 :
               current_entry' = i /\ first_on_screen' = Fos(plines, 0, i, Cardinality(S))
      BY <2>6 DEF UpOneDir
    <3>1. InWindow(plines, Fos(plines, 0, i, Cardinality(S)), i, Cardinality(S))
      BY <1>T, <2>1, FosBounds
    <3>2. CursorInWindow'
      BY <2>1, <2>3, <3>1 DEF CursorInWindow, InWindow, Lines, entries, size
    <3>3. StepFits'
      BY <2>3 DEF WindowInv, StepFits, size
    <3> QED BY <3>2, <3>3 DEF WindowInv
  <2>7. CASE \E done \in SUBSET selected : Operated(done, S)
    <3>1. PICK done \in SUBSET selected, j \in Nat, first \in Int :
             0 <= first /\ Completed(done, S, j, first)
      <4>1. PICK done \in SUBSET selected : Operated(done, S)
        BY <2>7
      <4>2. CASE Completed(done, S, current_entry, first_on_screen)
        BY <1>3, <4>2 DEF TypeOK
      <4>3. ASSUME NEW f \in selected,
                   Completed(done, S, Index(f), Fos(plines, first_on_screen, Index(f), entries))
            PROVE  \E j \in Nat, first \in Int : 0 <= first /\ Completed(done, S, j, first)
        <5>1. Index(f) \in Nat /\ Index(f) < entries
          BY RankBounds DEF Index, entries, TypeOK
        <5>2. entries \in Int
          BY <1>1
        <5>3. /\ Fos(plines, first_on_screen, Index(f), entries) \in Int
              /\ InWindow(plines, Fos(plines, first_on_screen, Index(f), entries), Index(f), entries)
          BY <1>T, <1>3, <5>1, <5>2, FosBounds
        <5>4. 0 <= Fos(plines, first_on_screen, Index(f), entries)
          BY <5>3 DEF InWindow
        <5> QED BY <4>3, <5>1, <5>3, <5>4
      <4> QED BY <4>1, <4>2, <4>3 DEF Operated
    <3> DEFINE i == Lesser(j, Cardinality(S) - 1)
    <3>2. i \in 0 .. Cardinality(S) - 1
      BY <2>1, <3>1 DEF Lesser
    <3>3. current_entry' = i /\ first_on_screen' = Fos(plines, first, i, Cardinality(S))
      BY <3>1 DEF Completed
    <3> HIDE DEF i
    <3>4. InWindow(plines, Fos(plines, first, i, Cardinality(S)), i, Cardinality(S))
      BY <1>T, <2>1, <3>1, <3>2, FosBounds
    <3>5. CursorInWindow'
      BY <2>1, <2>3, <3>2, <3>3, <3>4 DEF CursorInWindow, InWindow, Lines, entries, size
    <3>6. StepFits'
      BY <2>3 DEF WindowInv, StepFits, size
    <3> QED BY <3>5, <3>6 DEF WindowInv
  <2> QED BY <2>4, <2>5, <2>6, <2>7
<1>9. ASSUME NEW m \in Method, Sort(m) PROVE WindowInv'
  <2>1. PICK f \in listed : SetCurrentEntry(Rank(listed, m, f))
    BY <1>9 DEF Sort
  <2>2. Rank(listed, m, f) \in 0 .. entries - 1
    BY <1>1, RankBounds DEF TypeOK, entries
  <2> QED BY <1>4, <1>9, <2>1, <2>2 DEF Sort
<1>10. CASE UNCHANGED vars
  BY <1>10 DEF vars, WindowInv, CursorInWindow, StepFits, entries, cursor, size
<1> QED BY <1>5, <1>6, <1>7, <1>8, <1>9, <1>10 DEF Next

(* The cursor is always on an entry of the listing and, when the panel is  *)
(* displayed, inside a window that shows as many entries as it can.        *)
THEOREM CursorCorrect == Spec => []CursorInWindow
<1>1. WindowInv => CursorInWindow
  BY DEF WindowInv
<1> QED BY TypeCorrect, WindowInit, WindowStep, <1>1, PTL DEF Spec

----------------------------------------------------------------------------
(* The marks.                                                              *)

LEMMA ParentStep == TypeOK /\ ParentNeverMarked /\ [Next]_vars => ParentNeverMarked'
<1> SUFFICES ASSUME TypeOK, ParentNeverMarked, [Next]_vars PROVE ParentNeverMarked'
  OBVIOUS
<1> USE DEF ParentNeverMarked
<1>1. DotDot \notin NonDir
  BY DEF NonDir, Dirs
<1>2. CASE Choose
  <2>1. ASSUME NEW k \in 1 .. MaxRepeat, Select(k) PROVE ParentNeverMarked'
    <3>1. ASSUME rootdir \/ current_entry # 0, NEW f \in listed, At(current_entry, f)
          PROVE  f # DotDot
      <4>1. DotDot \in listed => Index(DotDot) = 0
        BY DotDotFirst DEF TypeOK, Index
      <4> QED BY <3>1, <4>1 DEF At, rootdir
    <3> QED BY <2>1, <3>1 DEF Select
  <2>2. ASSUME NEW P \in SUBSET NonDir, Mark(P) \/ Unmark(P) \/ CompareDirs(P) \/ BinPacking(P)
        PROVE  ParentNeverMarked'
    BY <1>1, <2>2 DEF Mark, Unmark, CompareDirs, BinPacking
  <2>3. UnselectAll \/ Toggle => ParentNeverMarked'
    BY <1>1 DEF UnselectAll, Toggle
  <2>4. \A f : SameExtension(f) \in SUBSET NonDir
    BY DEF SameExtension
  <2> QED BY <1>2, <2>1, <2>2, <2>3, <2>4
          DEF Choose, SelectAll, SelectExtension, UnselectExtension, PatternSelect, PatternUnselect
<1>3. CASE Read
  BY <1>3 DEF Read, Reread, ReadFromTop, UpOneDir, Operated, Completed, Enter, ReadDirectory, Kept
<1>4. CASE Window \/ Move \/ (\E m \in Method : Sort(m)) \/ UNCHANGED vars
  <2>1. UNCHANGED marks
    BY <1>4 DEF Window, Switch, Resize, SetScrollStep, Move, Steps, StepDown, StepUp, PageUp,
                PageDown, Home, End, MoveTo, Repeat, Sort, vars
  <2> QED BY <2>1 DEF marks
<1> QED BY <1>2, <1>3, <1>4 DEF Next

(* No sequence of commands marks "..", so that no operation on a selection *)
(* deletes, moves or copies the parent directory.                          *)
THEOREM ParentSafe == Spec => []ParentNeverMarked
<1>1. Init => ParentNeverMarked
  BY DEF Init, ParentNeverMarked
<1> QED BY TypeCorrect, ParentStep, <1>1, PTL DEF Spec

(* Adding to a set what it lacks, and taking from it what it has.          *)
LEMMA CountMark ==
  ASSUME NEW A, NEW P, IsFiniteSet(A), IsFiniteSet(P)
  PROVE  /\ Cardinality(A \cup P) = Cardinality(A) + Cardinality(P \ A)
         /\ Cardinality(A \ P) = Cardinality(A) - Cardinality(P \cap A)
<1>1. IsFiniteSet(P \ A) /\ A \cup P = A \cup (P \ A) /\ A \cap (P \ A) = {}
  BY FS_Difference
<1>2. Cardinality(A \cup (P \ A)) = Cardinality(A) + Cardinality(P \ A) - Cardinality({})
  BY <1>1, FS_Union
<1>3. Cardinality(A) \in Nat /\ Cardinality(P \ A) \in Nat /\ Cardinality({}) = 0
  BY <1>1, FS_CardinalityType, FS_EmptySet
<1>4. Cardinality(A \ P) = Cardinality(A) - Cardinality(A \cap P)
  BY FS_Difference
<1>5. Cardinality(A \cup P) = Cardinality(A \cup (P \ A))
  BY <1>1, Zenon
<1>6. A \cap P = P \cap A
  OBVIOUS
<1>7. Cardinality(A \cap P) = Cardinality(P \cap A)
  BY <1>6, Zenon
<1> QED BY <1>2, <1>3, <1>4, <1>5, <1>7

LEMMA CountStep == TypeOK /\ CountExact /\ [Next]_vars => CountExact'
<1> SUFFICES ASSUME TypeOK, CountExact, [Next]_vars PROVE CountExact'
  OBVIOUS
<1>1. IsFiniteSet(selected) /\ IsFiniteSet(NonDir) /\ selected \subseteq File \cup {DotDot}
  BY ListingFinite, FS_Subset DEF TypeOK, Listings, NonDir
<1>2. Cardinality(selected) \in Nat
  BY <1>1, FS_CardinalityType
<1>3. CASE Choose
  <2>1. ASSUME NEW k \in 1 .. MaxRepeat, Select(k) PROVE CountExact'
    <3>1. CASE UNCHANGED <<selected, selected_entries, miscounted>>
      BY <3>1 DEF CountExact
    <3>2. ASSUME NEW f \in selected, selected' = selected \ {f},
                 selected_entries' = selected_entries - 1, miscounted' = miscounted
          PROVE  CountExact'
      BY <1>1, <1>2, <3>2, FS_RemoveElement DEF CountExact
    <3>3. ASSUME NEW f \in listed \ selected, selected' = selected \cup {f},
                 selected_entries' = selected_entries + 1, miscounted' = miscounted
          PROVE  CountExact'
      BY <1>1, <1>2, <3>3, FS_AddElement DEF CountExact
    <3> QED BY <2>1, <3>1, <3>2, <3>3 DEF Select
  <2>2. ASSUME NEW P \in SUBSET NonDir, Marking, Mark(P) \/ Unmark(P) PROVE CountExact'
    <3>1. IsFiniteSet(P)
      BY <1>1, FS_Subset
    <3>2. /\ Cardinality(selected \cup P) = Cardinality(selected) + Cardinality(P \ selected)
          /\ Cardinality(selected \ P) = Cardinality(selected) - Cardinality(P \cap selected)
      BY <1>1, <3>1, CountMark
    <3> QED BY <2>2, <3>2 DEF Marking, Mark, Unmark, CountExact
  <2>3. ASSUME NEW P \in SUBSET NonDir, CompareDirs(P) PROVE CountExact'
    <3>1. IsFiniteSet(P) /\ IsFiniteSet(selected \cup NonDir)
      BY <1>1, FS_Subset, FS_Union
    <3>2. Cardinality(selected \cup NonDir) = Cardinality(selected) + Cardinality(NonDir \ selected)
      BY <1>1, CountMark
    <3>3. P \cap (selected \cup NonDir) = P
      OBVIOUS
    <3>4. Cardinality((selected \cup NonDir) \ P)
            = Cardinality(selected \cup NonDir) - Cardinality(P \cap (selected \cup NonDir))
      BY <3>1, CountMark
    <3>5. Cardinality(P \cap (selected \cup NonDir)) = Cardinality(P)
      BY <3>3, Zenon
    <3>6. Cardinality(selected \cup NonDir) \in Nat /\ Cardinality(P) \in Nat
          /\ Cardinality(NonDir \ selected) \in Nat
      BY <1>1, <3>1, FS_CardinalityType, FS_Difference
    <3> QED BY <1>2, <2>3, <3>2, <3>4, <3>5, <3>6 DEF CompareDirs, Marking, CountExact
  <2>4. UnselectAll => CountExact'
    BY FS_EmptySet DEF UnselectAll, CountExact
  <2>5. Toggle => CountExact'
    <3>1. selected \cap Dirs = {}
          => (selected \cap Dirs) \cup (NonDir \ selected) = NonDir \ selected
      OBVIOUS
    <3> QED BY <3>1 DEF Toggle, CountExact
  <2>6. \A f : SameExtension(f) \in SUBSET NonDir
    BY DEF SameExtension
  <2>7. ASSUME NEW P, BinPacking(P) PROVE CountExact'
    BY <2>7 DEF BinPacking, CountExact
  <2> QED BY <1>3, <2>1, <2>2, <2>3, <2>4, <2>5, <2>6, <2>7
          DEF Choose, SelectAll, SelectExtension, UnselectExtension, PatternSelect, PatternUnselect
<1>4. CASE Read
  BY <1>4 DEF Read, Reread, ReadFromTop, UpOneDir, Operated, Completed, Enter, ReadDirectory, Kept, CountExact
<1>5. CASE Window \/ Move \/ (\E m \in Method : Sort(m)) \/ UNCHANGED vars
  <2>1. UNCHANGED marks
    BY <1>5 DEF Window, Switch, Resize, SetScrollStep, Move, Steps, StepDown, StepUp, PageUp,
                PageDown, Home, End, MoveTo, Repeat, Sort, vars
  <2> QED BY <2>1 DEF marks, CountExact
<1> QED BY <1>3, <1>4, <1>5 DEF Next

(* The count is the number of marks, however they were made, except        *)
(* between a TOGGLE with marked directories and the next counting.         *)
THEOREM CountCorrect == Spec => []CountExact
<1>1. Init => CountExact
  BY FS_EmptySet DEF Init, CountExact
<1> QED BY TypeCorrect, CountStep, <1>1, PTL DEF Spec

----------------------------------------------------------------------------
(* The cursor's name.                                                      *)

LEMMA KeepsNameStep ==
  ASSUME TypeOK, TypeOK', (\E m \in Method : Sort(m)) \/ Reread(listed'),
         NEW f \in listed \cap listed', At(current_entry, f)
  PROVE  At(current_entry, f)'
<1>1. \A g \in listed : At(current_entry, g) => g = f
  BY RankInjective DEF At, Index, TypeOK
<1>2. current_entry' = Rank(listed', sort_method', f)
  <2>1. CASE \E m \in Method : Sort(m)
    BY <1>1, <2>1 DEF Sort, SetCurrentEntry
  <2>2. CASE Reread(listed')
    BY <1>1, <2>2 DEF Reread, Reading, ThenSet
  <2> QED BY <2>1, <2>2
<1> QED BY <1>2 DEF At, Index

(* Sorting, and reading the directory again, keep the cursor on its name.  *)
THEOREM SortKeepsName == Spec => CursorKeepsName
<1>1. TypeOK /\ TypeOK' /\ [Next]_vars
      => [(\E m \in Method : Sort(m)) \/ Reread(listed') =>
            \A f \in listed \cap listed' : At(current_entry, f) => At(current_entry, f)']_vars
  BY KeepsNameStep
<1> QED BY TypeCorrect, <1>1, PTL DEF Spec, CursorKeepsName

LEMMA MarksStep ==
  ASSUME TypeOK, CountExact
  PROVE  /\ ~miscounted =>
              /\ Reread(listed') => selected' = selected \cap listed'
              /\ \A done \in SUBSET selected :
                   Operated(done, listed') => selected' = (selected \ done) \cap listed'
         /\ ReadFromTop(listed') => selected' = {} /\ selected_entries' = 0
<1>1. ~miscounted /\ selected_entries = 0 => selected = {}
  <2>1. IsFiniteSet(selected)
    BY ListingFinite, FS_Subset DEF TypeOK, Listings
  <2> QED BY <2>1, FS_EmptySet DEF CountExact
<1>2. ~miscounted /\ Reread(listed') => selected' = selected \cap listed'
  BY <1>1 DEF Reread, ReadDirectory, Kept
<1>3. ASSUME ~miscounted, NEW done \in SUBSET selected, Operated(done, listed')
      PROVE  selected' = (selected \ done) \cap listed'
  BY <1>1, <1>3 DEF Operated, Completed, Kept
<1>4. ReadFromTop(listed') => selected' = {} /\ selected_entries' = 0
  BY FS_EmptySet DEF ReadFromTop, ReadDirectory, Kept
<1> QED BY <1>2, <1>3, <1>4

(* A reading with verify takes no mark but those of entries that are gone  *)
(* or that the operation before it finished; one without takes them all,   *)
(* in the same directory too.                                              *)
THEOREM MarksKept == Spec => MarksSurviveReread
<1>1. TypeOK /\ CountExact /\ [Next]_vars
      => [/\ ~miscounted =>
               /\ Reread(listed') => selected' = selected \cap listed'
               /\ \A done \in SUBSET selected :
                    Operated(done, listed') => selected' = (selected \ done) \cap listed'
          /\ ReadFromTop(listed') => selected' = {} /\ selected_entries' = 0]_vars
  BY MarksStep
<1> QED BY TypeCorrect, CountCorrect, <1>1, PTL DEF MarksSurviveReread, Spec


-----------------------------------------------------------------------------
(* Pushing a record and popping it.                                        *)

LEMMA Pushed ==
  ASSUME NEW S \in Seq(Nat \X Nat), NEW c \in Nat, NEW k \in Nat
  PROVE  /\ Append(S, <<c, k>>) \in Seq(Nat \X Nat) /\ Len(Append(S, <<c, k>>)) = Len(S) + 1
         /\ \A i \in 1 .. Len(S) : Append(S, <<c, k>>)[i] = S[i]
         /\ Append(S, <<c, k>>)[Len(S) + 1] = <<c, k>>
         /\ Len(S) \in Nat
<1>1. <<c, k>> \in Nat \X Nat /\ Len(S) \in Nat
  BY LenProperties
<1>2. /\ Append(S, <<c, k>>) \in Seq(Nat \X Nat) /\ Len(Append(S, <<c, k>>)) = Len(S) + 1
      /\ \A i \in 1 .. Len(S) : Append(S, <<c, k>>)[i] = S[i]
      /\ Append(S, <<c, k>>)[Len(S) + 1] = <<c, k>>
  BY <1>1, AppendProperties
<1> QED BY <1>1, <1>2

LEMMA RecordTypes ==
  ASSUME NEW S \in Seq(Nat \X Nat)
  PROVE  Len(S) \in Nat /\ \A i \in 1 .. Len(S) : S[i] \in Nat \X Nat /\ S[i][1] \in Nat /\ S[i][2] \in Nat
<1>1. Len(S) \in Nat
  BY LenProperties
<1>2. \A i \in 1 .. Len(S) : S[i] \in Nat \X Nat
  BY ElementOfSeq
<1>3. \A e \in Nat \X Nat : e[1] \in Nat /\ e[2] \in Nat
  OBVIOUS
<1> QED BY <1>1, <1>2, <1>3

LEMMA PushLengths ==
  ASSUME NEW S \in Seq(Nat \X Nat), NEW c \in Nat, NEW k \in Nat, NEW l \in Nat, NEW n \in Nat,
         NEW q \in BOOLEAN, NEW r \in BOOLEAN,
         Lengths(S, l, q, n), q => r, r => n > 0 /\ k >= n, r /\ ~q => l = 0,
         k = l \/ k = l + 1 \/ (r /\ l = 0 /\ k = n)
  PROVE  Lengths(Append(S, <<c, k>>), k, r, n)
<1> DEFINE A == Append(S, <<c, k>>)
           m == Len(S)
<1>1. /\ Len(A) = m + 1 /\ m \in Nat /\ A[m + 1] = <<c, k>>
      /\ \A i \in 1 .. m : A[i] = S[i]
  BY Pushed
<1>2. \A i \in 1 .. m : S[i][2] \in Nat
  BY RecordTypes
<1>3. /\ m > 0 /\ S[1][2] = 0 /\ S[m][2] = l
      /\ \A i, j \in 1 .. m : i <= j => S[i][2] <= S[j][2]
      /\ \A i \in 1 .. m - 1 : \/ S[i + 1][2] = S[i][2] \/ S[i + 1][2] = S[i][2] + 1
                               \/ q /\ S[i][2] = 0 /\ S[i + 1][2] = n
      /\ q => \A i \in 1 .. m : S[i][2] = 0 \/ S[i][2] >= n
  BY DEF Lengths
<1> HIDE DEF A, m
<1>4. A[m + 1][2] = k /\ \A i \in 1 .. m : A[i][2] = S[i][2] /\ A[i][2] \in Nat
  BY <1>1, <1>2
<1>5. \A i \in 1 .. m : S[i][2] <= l
  <2>1. m \in 1 .. m
    BY <1>1, <1>3
  <2>2. \A i \in 1 .. m : i <= m => S[i][2] <= S[m][2]
    BY <1>3, <2>1
  <2> QED BY <1>1, <1>3, <2>2
<1>6. Len(A) > 0 /\ A[1][2] = 0 /\ A[Len(A)][2] = k
  BY <1>1, <1>3, <1>4
<1>7. ASSUME NEW i \in 1 .. Len(A), NEW j \in 1 .. Len(A), i <= j PROVE A[i][2] <= A[j][2]
  <2>1. CASE j <= m
    <3>1. i \in 1 .. m /\ j \in 1 .. m
      BY <1>1, <1>7, <2>1
    <3>2. S[i][2] <= S[j][2] /\ A[i][2] = S[i][2] /\ A[j][2] = S[j][2]
      BY <1>3, <1>4, <1>7, <3>1
    <3> QED BY <3>2
  <2>2. CASE i <= m /\ j = m + 1
    <3>0. i \in 1 .. m
      BY <1>1, <2>2
    <3>1. A[i][2] <= l /\ A[i][2] \in Nat /\ A[j][2] = k
      BY <1>4, <1>5, <2>2, <3>0
    <3>2. l <= k
      OBVIOUS
    <3> QED BY <3>1, <3>2
  <2>3. CASE i = m + 1 /\ j = m + 1
    BY <1>4, <2>3
  <2> QED BY <1>1, <1>7, <2>1, <2>2, <2>3
<1>8. ASSUME NEW i \in 1 .. Len(A) - 1
      PROVE  \/ A[i + 1][2] = A[i][2] \/ A[i + 1][2] = A[i][2] + 1
             \/ r /\ A[i][2] = 0 /\ A[i + 1][2] = n
  <2>1. CASE i < m
    <3>1. i \in 1 .. m - 1 /\ i \in 1 .. m /\ i + 1 \in 1 .. m
      BY <1>1, <2>1
    <3>2. A[i][2] = S[i][2] /\ A[i + 1][2] = S[i + 1][2]
      BY <1>4, <3>1
    <3> QED BY <1>3, <3>1, <3>2
  <2>2. CASE i = m
    <3>1. i \in 1 .. m
      BY <1>1, <2>2
    <3>2. A[i][2] = l /\ A[i + 1][2] = k
      BY <1>3, <1>4, <2>2, <3>1
    <3> QED BY <3>2
  <2> QED BY <1>1, <2>1, <2>2
<1>9. ASSUME r, NEW i \in 1 .. Len(A) PROVE A[i][2] = 0 \/ A[i][2] >= n
  <2>1. CASE i = m + 1
    BY <1>4, <1>9, <2>1
  <2>2. CASE i \in 1 .. m /\ q
    BY <1>3, <1>4, <2>2
  <2>3. CASE i \in 1 .. m /\ ~q
    <3>1. S[i][2] <= 0 /\ S[i][2] \in Nat
      BY <1>2, <1>5, <1>9, <2>3
    <3> QED BY <1>4, <2>3, <3>1
  <2> QED BY <1>1, <1>9, <2>1, <2>2, <2>3
<1>10. Lengths(A, k, r, n)
  BY <1>6, <1>7, <1>8, <1>9 DEF Lengths
<1> QED BY <1>10 DEF A

LEMMA PushOrigins ==
  ASSUME NEW S \in Seq(Nat \X Nat), NEW c \in Nat, NEW k \in Nat, NEW N, NEW first,
         Len(S) > 0, Origins(S, N, first), c < N, S[Len(S)][2] = 0 => c = first
  PROVE  Origins(Append(S, <<c, k>>), N, first)
<1> DEFINE A == Append(S, <<c, k>>)
           m == Len(S)
<1>1. /\ Len(A) = m + 1 /\ m \in Nat /\ m > 0 /\ A[m + 1] = <<c, k>>
      /\ \A i \in 1 .. m : A[i] = S[i]
  BY Pushed
<1>0. /\ \A i \in 1 .. m : S[i][1] < N /\ (i = 1 \/ S[i - 1][2] = 0 => S[i][1] = first)
      /\ S[m][2] = 0 => c = first
  BY DEF Origins
<1> HIDE DEF A, m
<1>2. ASSUME NEW i \in 1 .. m + 1
      PROVE  A[i][1] < N /\ (i = 1 \/ A[i - 1][2] = 0 => A[i][1] = first)
  <2>1. CASE i \in 1 .. m
    <3>0. i # 1 => i - 1 \in 1 .. m
      BY <1>1, <2>1
    <3>1. A[i] = S[i] /\ (i # 1 => A[i - 1] = S[i - 1])
      BY <1>1, <2>1, <3>0
    <3> QED BY <1>0, <2>1, <3>1
  <2>2. CASE i = m + 1
    <3>0. i # 1 /\ i - 1 = m /\ m \in 1 .. m
      BY <1>1, <2>2
    <3>1. A[i] = <<c, k>> /\ A[m] = S[m]
      BY <1>1, <2>2, <3>0
    <3>2. A[i][1] = c /\ A[i - 1][2] = S[m][2]
      BY <3>0, <3>1
    <3> QED BY <1>0, <3>0, <3>2
  <2> QED BY <1>1, <2>1, <2>2
<1>3. Origins(A, N, first)
  BY <1>1, <1>2 DEF Origins, m
<1> QED BY <1>3 DEF A

(* The record under a longer one that is not found is shorter.             *)
LEMMA PushOwn ==
  ASSUME NEW S \in Seq(Nat \X Nat), NEW c \in Nat, NEW k \in Nat, NEW f \in Nat,
         Len(S) > 0, OwnRecords(S, f), k > f => S[Len(S)][2] < k
  PROVE  OwnRecords(Append(S, <<c, k>>), f)
<1> DEFINE A == Append(S, <<c, k>>)
           m == Len(S)
<1>1. /\ Len(A) = m + 1 /\ m \in Nat /\ m > 0 /\ A[m + 1] = <<c, k>>
      /\ \A i \in 1 .. m : A[i] = S[i]
  BY Pushed
<1>0. /\ \A i \in 2 .. m : S[i][2] > f => S[i - 1][2] < S[i][2]
      /\ k > f => S[m][2] < k
  BY DEF OwnRecords
<1> HIDE DEF A, m
<1>2. ASSUME NEW i \in 2 .. m + 1, A[i][2] > f PROVE A[i - 1][2] < A[i][2]
  <2>1. CASE i \in 2 .. m
    <3>0. i \in 1 .. m /\ i - 1 \in 1 .. m
      BY <1>1, <2>1
    <3>1. A[i] = S[i] /\ A[i - 1] = S[i - 1]
      BY <1>1, <3>0
    <3> QED BY <1>0, <1>2, <2>1, <3>1
  <2>2. CASE i = m + 1
    <3>0. i - 1 = m /\ m \in 1 .. m
      BY <1>1, <2>2
    <3>1. A[i] = <<c, k>> /\ A[m] = S[m]
      BY <1>1, <2>2, <3>0
    <3>2. A[i][2] = k
      BY <3>1
    <3> QED BY <1>0, <1>2, <3>0, <3>1, <3>2
  <2> QED BY <1>1, <2>1, <2>2
<1>3. OwnRecords(A, f)
  BY <1>1, <1>2 DEF OwnRecords, m
<1> QED BY <1>3 DEF A

Popped(S) == SubSeq(S, 1, Len(S) - 1)

LEMMA PoppedIs ==
  ASSUME NEW S \in Seq(Nat \X Nat), Len(S) > 0
  PROVE  /\ Popped(S) \in Seq(Nat \X Nat) /\ Len(Popped(S)) = Len(S) - 1
         /\ \A i \in 1 .. Len(S) - 1 : Popped(S)[i] = S[i]
<1> DEFINE m == Len(S) - 1
<1>1. m \in Nat /\ Len(S) \in Nat
  BY LenProperties
<1>2. \A i \in 1 .. m : S[i] \in Nat \X Nat
  BY <1>1, ElementOfSeq
<1> HIDE DEF m
<1>3. /\ SubSeq(S, 1, m) \in Seq(Nat \X Nat)
      /\ Len(SubSeq(S, 1, m)) = IF 1 <= m THEN m - 1 + 1 ELSE 0
      /\ \A i \in 1 .. m - 1 + 1 : SubSeq(S, 1, m)[i] = S[1 + i - 1]
  BY <1>1, <1>2, SubSeqProperties
<1>4. Len(SubSeq(S, 1, m)) = m /\ \A i \in 1 .. m : SubSeq(S, 1, m)[i] = S[i]
  BY <1>1, <1>3
<1> QED BY <1>3, <1>4 DEF m, Popped

LEMMA PopLengths ==
  ASSUME NEW S \in Seq(Nat \X Nat), NEW l \in Nat, NEW n \in Nat, NEW r \in BOOLEAN,
         Lengths(S, l, r, n), l > 0
  PROVE  /\ Len(S) >= 2 /\ S[Len(S) - 1][2] \in Nat
         /\ \/ S[Len(S) - 1][2] = l \/ S[Len(S) - 1][2] = l - 1
            \/ r /\ S[Len(S) - 1][2] = 0 /\ l = n
         /\ r /\ S[Len(S) - 1][2] < n => S[Len(S) - 1][2] = 0
         /\ Lengths(Popped(S), S[Len(S) - 1][2], r /\ S[Len(S) - 1][2] >= n, n)
<1> DEFINE m == Len(S) - 1
           P == Popped(S)
           k == S[m][2]
           q == r /\ k >= n
<1>1. /\ Len(S) > 0 /\ S[1][2] = 0 /\ S[Len(S)][2] = l
      /\ \A i, j \in 1 .. Len(S) : i <= j => S[i][2] <= S[j][2]
      /\ \A i \in 1 .. Len(S) - 1 : \/ S[i + 1][2] = S[i][2] \/ S[i + 1][2] = S[i][2] + 1
                                    \/ r /\ S[i][2] = 0 /\ S[i + 1][2] = n
      /\ r => n > 0 /\ l >= n /\ \A i \in 1 .. Len(S) : S[i][2] = 0 \/ S[i][2] >= n
  BY DEF Lengths
<1>2. Len(S) \in Nat /\ \A i \in 1 .. Len(S) : S[i][2] \in Nat
  BY RecordTypes
<1>3. Len(P) = m /\ \A i \in 1 .. m : P[i] = S[i]
  BY <1>1, PoppedIs
<1>4. m \in Nat /\ m >= 1 /\ m \in 1 .. Len(S)
  <2>1. Len(S) # 1
    BY <1>1
  <2> QED BY <1>1, <1>2, <2>1
<1>5. k \in Nat
  BY <1>2, <1>4
<1>6. k = l \/ k = l - 1 \/ (r /\ k = 0 /\ l = n)
  <2>1. m \in 1 .. Len(S) - 1 /\ m + 1 = Len(S)
    BY <1>2, <1>4
  <2>2. \/ S[m + 1][2] = S[m][2] \/ S[m + 1][2] = S[m][2] + 1
        \/ r /\ S[m][2] = 0 /\ S[m + 1][2] = n
    BY <1>1, <2>1
  <2>3. l = k \/ l = k + 1 \/ (r /\ k = 0 /\ l = n)
    BY <1>1, <2>1, <2>2
  <2> HIDE DEF k, m
  <2> QED BY <1>5, <2>3
<1>7. r /\ k < n => k = 0
  <2>1. r => k = 0 \/ k >= n
    BY <1>1, <1>4
  <2> HIDE DEF k
  <2> QED BY <1>5, <2>1
<1> HIDE DEF P, m
<1>8. Len(P) > 0 /\ P[1][2] = 0 /\ P[Len(P)][2] = k
  BY <1>1, <1>3, <1>4
<1>9. \A i \in 1 .. m : i \in 1 .. Len(S) /\ P[i][2] = S[i][2] /\ S[i][2] <= k /\ S[i][2] \in Nat
  <2> SUFFICES ASSUME NEW i \in 1 .. m
               PROVE  i \in 1 .. Len(S) /\ P[i][2] = S[i][2] /\ S[i][2] <= k /\ S[i][2] \in Nat
    OBVIOUS
  <2>1. i \in 1 .. Len(S) /\ i <= m
    BY <1>2, <1>4 DEF m
  <2> QED BY <1>1, <1>2, <1>3, <1>4, <2>1
<1>10. \A i, j \in 1 .. Len(P) : i <= j => P[i][2] <= P[j][2]
  BY <1>1, <1>3, <1>9
<1>11. ASSUME NEW i \in 1 .. Len(P) - 1
       PROVE  \/ P[i + 1][2] = P[i][2] \/ P[i + 1][2] = P[i][2] + 1
              \/ q /\ P[i][2] = 0 /\ P[i + 1][2] = n
  <2>1. i \in 1 .. m /\ i + 1 \in 1 .. m /\ i \in 1 .. Len(S) - 1
    BY <1>2, <1>3, <1>4, <1>11 DEF m
  <2>2. \/ S[i + 1][2] = S[i][2] \/ S[i + 1][2] = S[i][2] + 1
        \/ r /\ S[i][2] = 0 /\ S[i + 1][2] = n
    BY <1>1, <2>1
  <2>3. S[i + 1][2] <= k /\ P[i + 1][2] = S[i + 1][2] /\ P[i][2] = S[i][2]
    BY <1>9, <2>1
  <2>4. S[i + 1][2] = n => k >= n
    BY <1>5, <2>3
  <2> QED BY <2>2, <2>3, <2>4
<1>12. q => n > 0 /\ k >= n /\ \A i \in 1 .. Len(P) : P[i][2] = 0 \/ P[i][2] >= n
  BY <1>1, <1>3, <1>9
<1>13. Lengths(P, k, q, n)
  <2> HIDE DEF k, q
  <2> QED BY <1>8, <1>10, <1>11, <1>12 DEF Lengths
<1> QED BY <1>2, <1>4, <1>5, <1>6, <1>7, <1>13 DEF m, P


-----------------------------------------------------------------------------
(* The entry a search goes to.                                             *)

LEMMA LeastOf ==
  ASSUME NEW S \in SUBSET Nat, S # {}
  PROVE  \E m \in S : \A y \in S : m <= y
<1> DEFINE X == {0 .. x : x \in S}
           R == StrictSubsetOrdering(Nat)
<1>1. X \subseteq FiniteSubsetsOf(Nat) /\ X # {}
  <2>1. \A x \in S : 0 .. x \in SUBSET Nat /\ IsFiniteSet(0 .. x)
    BY FS_Interval
  <2> QED BY <2>1 DEF FiniteSubsetsOf
<1>2. PICK t \in X : \A u \in X : <<u, t>> \notin R
  <2> HIDE DEF X, R
  <2>1. IsWellFoundedOn(R, FiniteSubsetsOf(Nat))
    BY FS_StrictSubsetOrderingWellFounded DEF R
  <2> QED BY <1>1, <2>1, WFMin
<1>3. PICK x \in S : t = 0 .. x
  BY <1>2
<1>4. ASSUME NEW y \in S PROVE x <= y
  <2>1. 0 .. y \in X /\ 0 .. x \in SUBSET Nat /\ 0 .. y \in SUBSET Nat
    OBVIOUS
  <2>2. <<0 .. y, 0 .. x>> \notin R
    <3> HIDE DEF X, R
    <3> QED BY <1>2, <1>3, <2>1
  <2>3. 0 .. y = 0 .. x \/ ~(0 .. y \subseteq 0 .. x)
    BY <2>1, <2>2 DEF StrictSubsetOrdering
  <2>4. y < x => x \in 0 .. x /\ x \notin 0 .. y /\ 0 .. y \subseteq 0 .. x
    OBVIOUS
  <2> QED BY <2>3, <2>4
<1> QED BY <1>4

LEMMA MinMax ==
  ASSUME NEW N \in Nat, NEW H, H \subseteq Nat, \A i \in H : i < N, H # {}
  PROVE  Min(H) \in H /\ Max(H) \in H
<1>1. Min(H) \in H
  <2>1. \E m \in H : \A y \in H : m <= y
    BY LeastOf
  <2> QED BY <2>1 DEF Min
<1>2. Max(H) \in H
  <2> DEFINE G == {N - i : i \in H}
  <2>1. G \subseteq Nat /\ G # {}
    <3>1. \A i \in H : i \in Nat /\ N - i \in Nat
      OBVIOUS
    <3> QED BY <3>1
  <2>2. PICK g \in G : \A y \in G : g <= y
    <3> HIDE DEF G
    <3> QED BY <2>1, LeastOf
  <2>3. PICK m \in H : g = N - m
    BY <2>2
  <2>4. ASSUME NEW y \in H PROVE m >= y
    <3>1. N - y \in G /\ y \in Nat /\ m \in Nat
      BY <2>3
    <3>2. N - m <= N - y
      <4> HIDE DEF G
      <4> QED BY <2>2, <2>3, <3>1
    <3> QED BY <3>1, <3>2
  <2> QED BY <2>3, <2>4 DEF Max
<1> QED BY <1>1, <1>2

LEMMA NearestIs ==
  ASSUME WalkOK, NEW t, NEW from, Ahead(t, from) # {}
  PROVE  Nearest(Ahead(t, from)) \in Nat /\ Nearest(Ahead(t, from)) < entries
<1> DEFINE H == Ahead(t, from)
<1>1. \A f \in listed : Index(f) \in Nat /\ Index(f) < entries
  BY RankBounds DEF WalkOK, Index, entries
<1>2. H \subseteq Nat /\ \A i \in H : i < entries
  <2>1. \A i \in H : i \in Hits(t)
    BY DEF Ahead
  <2>2. \A i \in Hits(t) : i \in Nat /\ i < entries
    BY <1>1 DEF Hits
  <2> QED BY <2>1, <2>2
<1>3. entries \in Nat
  BY ListingFinite DEF WalkOK, Listings, entries
<1> HIDE DEF H
<1>4. H # {}
  BY DEF H
<1>5. Min(H) \in H /\ Max(H) \in H
  BY <1>2, <1>3, <1>4, MinMax
<1>6. Nearest(H) \in H
  BY <1>5 DEF Nearest
<1> QED BY <1>2, <1>6 DEF H

(* One search, on records that the key has brought up to date.             *)
LEMMA SearchStep ==
  ASSUME WalkOK, SearchTypes, Idle, Searching,
         NEW t \in Seq(Letter), NEW from, NEW wrapped, NEW r \in BOOLEAN, NEW failed \in BOOLEAN,
         Search(t, from, wrapped, r, failed),
         UNCHANGED <<fixed, direction, search_string, start>>,
         isearch_stack' \in Seq(Nat \X Nat),
         Lengths(isearch_stack', Len(t), r, Len(search_string)),
         Origins(isearch_stack', entries, start),
         isearch_length <= Len(t),
         isearch_length < Len(t) => OwnRecords(isearch_stack', isearch_length),
         r /\ isearch_length < Len(search_string) =>
           /\ isearch_length = 0 /\ Len(t) = Len(search_string)
           /\ isearch_stack'[Len(isearch_stack') - 1][2] = 0,
         isearch_length = 0 => current_entry = start,
         Len(t) = 0 /\ Ahead(t, from) # {} => Nearest(Ahead(t, from)) = start
  PROVE  SearchInv'
<1> DEFINE H == Ahead(t, from)
           n == Len(search_string)
<1>1. /\ listed' = listed /\ sort_method' = sort_method /\ direction' = direction
      /\ search_string' = search_string /\ start' = start
  BY DEF fixed
<1>2. entries' = entries
  BY <1>1 DEF entries
<1>3. /\ Len(t) \in Nat /\ n \in Nat /\ isearch_length \in Nat
      /\ current_entry \in Nat /\ current_entry < entries /\ todo = 0
  BY LenProperties DEF SearchTypes, WalkOK, Idle
<1>4. r => Len(t) >= n
  BY DEF Lengths
<1>5. CASE H = {}
  <2>1. /\ previous_isearch_failed' = TRUE /\ text' = t /\ resuming_previous_isearch' = r
        /\ isearch_length' = isearch_length /\ current_entry' = current_entry /\ todo' = todo
    BY <1>5 DEF Search, NotFound, cursor
  <2>2. WalkOK'
    BY <1>1, <1>2, <2>1 DEF WalkOK
  <2>3. SearchTypes'
    BY <1>1, <2>1 DEF SearchTypes
  <2>4. FoundLength'
    BY <1>1, <1>3, <2>1 DEF FoundLength, OwnRecords
  <2>5. RecordsOK'
    BY <1>1, <1>2, <2>1, <2>4 DEF RecordsOK
  <2> QED BY <2>2, <2>3, <2>5 DEF SearchInv
<1>6. CASE H # {}
  <2> DEFINE i == Nearest(H)
  <2>1. i \in Nat /\ i < entries /\ (Len(t) = 0 => i = start)
    BY <1>6, NearestIs
  <2>2. /\ previous_isearch_failed' = failed /\ isearch_length' = Len(t)
        /\ text' = Adjusted(t, Len(t), r) /\ resuming_previous_isearch' = StillResuming(Len(t), r)
        /\ \/ current_entry' = i /\ todo' = todo
           \/ current_entry' = current_entry /\ todo' = i - current_entry
    BY <1>6 DEF Search, Found, SetCurrentEntry, WalkTo, cursor
  <2> HIDE DEF i, H
  <2>3. text' = t /\ resuming_previous_isearch' = r
    BY <1>3, <1>4, <2>2 DEF Adjusted, StillResuming
  <2>4. /\ current_entry' \in Nat /\ current_entry' < entries /\ current_entry' + todo' = i
        /\ todo' \in Int
    BY <1>3, <2>1, <2>2
  <2>5. WalkOK'
    BY <1>1, <1>2, <2>1, <2>4 DEF WalkOK
  <2>6. SearchTypes'
    BY <1>1, <1>3, <2>2, <2>3 DEF SearchTypes
  <2>7. FoundLength'
    <3>1. isearch_length' = Len(text') /\ Len(text') = Len(t)
      BY <2>2, <2>3
    <3>2. resuming_previous_isearch' => ~(isearch_length' < Len(search_string'))
      BY <1>1, <1>3, <1>4, <2>2, <2>3
    <3>3. isearch_length' = 0 => current_entry' + todo' = start'
      BY <1>1, <2>1, <2>2, <2>4
    <3> QED BY <1>3, <3>1, <3>2, <3>3 DEF FoundLength
  <2>8. RecordsOK'
    BY <1>1, <1>2, <2>3, <2>7 DEF RecordsOK
  <2> QED BY <2>5, <2>6, <2>8 DEF SearchInv
<1> QED BY <1>5, <1>6


-----------------------------------------------------------------------------
(* The keys.                                                               *)

LEMMA SearchFacts ==
  ASSUME SearchInv, Searching, Idle
  PROVE  /\ Len(text) \in Nat /\ Len(search_string) \in Nat /\ isearch_length \in Nat
         /\ Len(isearch_stack) \in Nat /\ Len(isearch_stack) > 0
         /\ isearch_stack[Len(isearch_stack)][2] = Len(text)
         /\ current_entry \in Nat /\ current_entry < entries /\ todo = 0
         /\ isearch_length <= Len(text)
         /\ text = <<>> <=> Len(text) = 0
         /\ search_string = <<>> <=> Len(search_string) = 0
         /\ resuming_previous_isearch => Len(search_string) > 0 /\ Len(text) >= Len(search_string)
         /\ isearch_length = 0 => current_entry = start
<1>1. WalkOK /\ SearchTypes /\ RecordsOK
  BY DEF SearchInv
<1>2. /\ text \in Seq(Letter) /\ search_string \in Seq(Letter) /\ isearch_stack \in Seq(Nat \X Nat)
      /\ isearch_length \in Nat
  BY <1>1 DEF SearchTypes
<1>3. Len(text) \in Nat /\ Len(search_string) \in Nat /\ Len(isearch_stack) \in Nat
  BY <1>2, LenProperties
<1>4. (text = <<>> <=> Len(text) = 0) /\ (search_string = <<>> <=> Len(search_string) = 0)
  BY <1>2, EmptySeq
<1>5. /\ Len(isearch_stack) > 0 /\ isearch_stack[Len(isearch_stack)][2] = Len(text)
      /\ resuming_previous_isearch => Len(search_string) > 0 /\ Len(text) >= Len(search_string)
  BY <1>1 DEF RecordsOK, Lengths
<1>6. current_entry \in Nat /\ current_entry < entries /\ todo = 0
  BY <1>1 DEF WalkOK, Idle
<1>7. isearch_length <= Len(text) /\ (isearch_length = 0 => current_entry + todo = start)
  BY <1>1 DEF RecordsOK, FoundLength
<1>8. isearch_length = 0 => current_entry = start
  BY <1>6, <1>7
<1> QED BY <1>2, <1>3, <1>4, <1>5, <1>6, <1>7, <1>8

LEMMA PushStep ==
  ASSUME SearchInv, Searching, Idle, NEW k \in Nat, NEW r \in BOOLEAN,
         isearch_stack' = Append(isearch_stack, <<current_entry, k>>),
         resuming_previous_isearch => r, r => Len(search_string) > 0 /\ k >= Len(search_string),
         r /\ ~resuming_previous_isearch => Len(text) = 0,
         \/ k = Len(text) /\ isearch_length = k
         \/ k = Len(text) + 1
         \/ r /\ Len(text) = 0 /\ k = Len(search_string)
  PROVE  /\ isearch_stack' \in Seq(Nat \X Nat)
         /\ Lengths(isearch_stack', k, r, Len(search_string))
         /\ Origins(isearch_stack', entries, start)
         /\ isearch_length < k => OwnRecords(isearch_stack', isearch_length)
         /\ Len(isearch_stack') - 1 = Len(isearch_stack)
         /\ isearch_stack'[Len(isearch_stack') - 1][2] = Len(text)
<1> DEFINE S == isearch_stack
           l == Len(text)
           n == Len(search_string)
<1>1. /\ l \in Nat /\ n \in Nat /\ isearch_length \in Nat
      /\ Len(S) \in Nat /\ Len(S) > 0 /\ S[Len(S)][2] = l
      /\ current_entry \in Nat /\ current_entry < entries
      /\ isearch_length <= l /\ (isearch_length = 0 => current_entry = start)
  BY SearchFacts
<1>2. /\ S \in Seq(Nat \X Nat) /\ resuming_previous_isearch \in BOOLEAN
      /\ Lengths(S, l, resuming_previous_isearch, n) /\ Origins(S, entries, start)
  BY DEF SearchInv, SearchTypes, RecordsOK
<1>3. isearch_stack' \in Seq(Nat \X Nat)
  BY <1>1, <1>2, Pushed
<1>4. Lengths(isearch_stack', k, r, n)
  <2>1. k = l \/ k = l + 1 \/ (r /\ l = 0 /\ k = n)
    OBVIOUS
  <2> HIDE DEF S, l, n
  <2>2. Lengths(Append(S, <<current_entry, k>>), k, r, n)
    BY <1>1, <1>2, <2>1, PushLengths DEF l, n
  <2> QED BY <2>2 DEF S
<1>5. Origins(isearch_stack', entries, start)
  <2>1. S[Len(S)][2] = 0 => current_entry = start
    BY <1>1
  <2> HIDE DEF S
  <2>2. Origins(Append(S, <<current_entry, k>>), entries, start)
    BY <1>1, <1>2, <2>1, PushOrigins
  <2> QED BY <2>2 DEF S
<1>6. OwnRecords(S, isearch_length)
  <2>1. CASE isearch_length < l
    BY <2>1 DEF SearchInv, RecordsOK, FoundLength
  <2>2. CASE isearch_length = l
    <3>1. \A i \in 1 .. Len(S) : S[i][2] <= S[Len(S)][2]
      <4>1. Len(S) \in 1 .. Len(S) /\ \A i \in 1 .. Len(S) : i <= Len(S)
        BY <1>1, <1>2
      <4>2. \A i, j \in 1 .. Len(S) : i <= j => S[i][2] <= S[j][2]
        BY <1>1, <1>2 DEF Lengths
      <4> QED BY <4>1, <4>2
    <3>2. \A i \in 1 .. Len(S) : S[i][2] \in Nat
      BY <1>2, RecordTypes
    <3>3. \A i \in 2 .. Len(S) : ~(S[i][2] > isearch_length)
      <4> SUFFICES ASSUME NEW i \in 2 .. Len(S) PROVE ~(S[i][2] > isearch_length)
        OBVIOUS
      <4>1. i \in 1 .. Len(S)
        BY <1>1
      <4>2. S[i][2] <= l /\ S[i][2] \in Nat
        BY <1>1, <3>1, <3>2, <4>1
      <4> QED BY <1>1, <2>2, <4>2
    <3> QED BY <3>3 DEF OwnRecords
  <2> QED BY <1>1, <2>1, <2>2
<1>7. isearch_length < k => OwnRecords(isearch_stack', isearch_length)
  <2> SUFFICES ASSUME isearch_length < k PROVE OwnRecords(isearch_stack', isearch_length)
    OBVIOUS
  <2>1. S[Len(S)][2] < k
    BY <1>1
  <2> HIDE DEF S
  <2>2. OwnRecords(Append(S, <<current_entry, k>>), isearch_length)
    BY <1>1, <1>2, <1>6, <2>1, PushOwn
  <2> QED BY <2>2 DEF S
<1>8. Len(isearch_stack') - 1 = Len(S) /\ isearch_stack'[Len(isearch_stack') - 1][2] = l
  <2>1. Len(isearch_stack') = Len(S) + 1 /\ \A i \in 1 .. Len(S) : isearch_stack'[i] = S[i]
    BY <1>1, <1>2, Pushed
  <2>2. Len(isearch_stack') - 1 = Len(S) /\ Len(S) \in 1 .. Len(S)
    BY <1>1, <2>1
  <2> QED BY <1>1, <2>1, <2>2
<1> QED BY <1>3, <1>4, <1>5, <1>7, <1>8

LEMMA TypeCharStep ==
  ASSUME ResumeMisses = FALSE, SearchInv, NEW c \in Letter, TypeChar(c)
  PROVE  SearchInv'
<1> DEFINE t == Append(text, c)
<1>1. /\ Searching /\ Idle /\ UNCHANGED <<fixed, direction, search_string, start>>
      /\ ~(resuming_previous_isearch /\ isearch_length < Len(search_string))
      /\ isearch_stack' = Append(isearch_stack, <<current_entry, Len(t)>>)
      /\ Search(t, current_entry, wrapped_isearch, resuming_previous_isearch, previous_isearch_failed)
  BY DEF TypeChar, AtKey, Increase, Push
<1>2. /\ WalkOK /\ SearchTypes /\ text \in Seq(Letter)
      /\ resuming_previous_isearch \in BOOLEAN /\ previous_isearch_failed \in BOOLEAN
  BY DEF SearchInv, SearchTypes
<1>3. t \in Seq(Letter) /\ Len(t) = Len(text) + 1
  BY <1>2, AppendProperties
<1> HIDE DEF t
<1>4. /\ Len(text) \in Nat /\ isearch_length \in Nat /\ isearch_length <= Len(text) /\ Len(search_string) \in Nat
      /\ resuming_previous_isearch => Len(search_string) > 0 /\ Len(text) >= Len(search_string)
      /\ isearch_length = 0 => current_entry = start
  BY <1>1, SearchFacts
<1>5. /\ Len(t) \in Nat /\ Len(t) # 0 /\ isearch_length <= Len(t)
      /\ resuming_previous_isearch => Len(search_string) > 0 /\ Len(t) >= Len(search_string)
  BY <1>3, <1>4
<1>6. /\ isearch_stack' \in Seq(Nat \X Nat)
      /\ Lengths(isearch_stack', Len(t), resuming_previous_isearch, Len(search_string))
      /\ Origins(isearch_stack', entries, start)
      /\ isearch_length < Len(t) => OwnRecords(isearch_stack', isearch_length)
  BY <1>1, <1>2, <1>3, <1>5, PushStep
<1> QED BY <1>1, <1>2, <1>3, <1>4, <1>5, <1>6, SearchStep

LEMMA SearchAgainEmptyStep ==
  ASSUME SearchInv, SearchAgainEmpty
  PROVE  SearchInv'
<1>1. /\ Searching /\ Idle /\ UNCHANGED <<fixed, direction, search_string, start>>
      /\ text = <<>>
      /\ isearch_stack' = Append(isearch_stack, <<current_entry, Len(<<>>)>>)
      /\ Search(<<>>, current_entry, wrapped_isearch, resuming_previous_isearch, previous_isearch_failed)
  BY DEF SearchAgainEmpty, AtKey, Increase, Push
<1>2. /\ WalkOK /\ SearchTypes
      /\ resuming_previous_isearch \in BOOLEAN /\ previous_isearch_failed \in BOOLEAN
  BY DEF SearchInv, SearchTypes
<1>3. /\ isearch_length = 0 /\ Len(text) = 0 /\ current_entry = start /\ ~resuming_previous_isearch
      /\ current_entry \in Nat /\ current_entry < entries /\ Len(search_string) \in Nat
  BY <1>1, SearchFacts
<1>4. <<>> \in Seq(Letter) /\ Len(<<>>) = 0
  BY EmptySeq
<1>5. /\ isearch_stack' \in Seq(Nat \X Nat)
      /\ Lengths(isearch_stack', Len(<<>>), resuming_previous_isearch, Len(search_string))
      /\ Origins(isearch_stack', entries, start)
  <2>1. isearch_stack' = Append(isearch_stack, <<current_entry, 0>>)
    BY <1>1, <1>4
  <2>2. /\ isearch_stack' \in Seq(Nat \X Nat)
        /\ Lengths(isearch_stack', 0, resuming_previous_isearch, Len(search_string))
        /\ Origins(isearch_stack', entries, start)
    BY <1>1, <1>2, <1>3, <2>1, PushStep
  <2> QED BY <1>4, <2>2
<1>6. Ahead(<<>>, current_entry) # {} => Nearest(Ahead(<<>>, current_entry)) = start
  <2> DEFINE H == Ahead(<<>>, current_entry)
  <2> SUFFICES ASSUME H # {} PROVE Nearest(H) = current_entry
    BY <1>3
  <2>1. H \subseteq Nat
    <3>1. \A f \in listed : Index(f) \in Nat
      BY <1>2, RankBounds DEF WalkOK, Index
    <3> QED BY <3>1 DEF Ahead, Hits
  <2>2. \A i \in H : IF direction = "forward" THEN i >= current_entry ELSE i <= current_entry
    BY DEF Ahead
  <2>3. current_entry \in H
    <3>1. PICK f \in listed : Index(f) = current_entry
      BY <1>2, <1>3, IndexOnto DEF WalkOK, Index, entries
    <3>2. Spelling[f] \in Seq(Letter)
      BY <1>2, ISearchAssumption DEF WalkOK, Listings
    <3>3. Len(Spelling[f]) \in Nat /\ SubSeq(Spelling[f], 1, 0) = <<>>
      BY <3>2, LenProperties, SubSeqEmpty
    <3>4. Matches(<<>>, f)
      BY <1>4, <3>3 DEF Matches
    <3>5. current_entry \in Hits(<<>>)
      BY <3>1, <3>4 DEF Hits
    <3>6. current_entry >= current_entry /\ current_entry <= current_entry
      BY <1>3
    <3> QED BY <3>5, <3>6 DEF Ahead
  <2> HIDE DEF H
  <2>4. CASE direction = "forward"
    <3>1. \A x \in H : (\A y \in H : x <= y) <=> x = current_entry
      BY <1>3, <2>1, <2>2, <2>3, <2>4
    <3>2. Min(H) = current_entry
      BY <2>3, <3>1 DEF Min
    <3> QED BY <2>4, <3>2 DEF Nearest
  <2>5. CASE direction # "forward"
    <3>1. \A x \in H : (\A y \in H : x >= y) <=> x = current_entry
      BY <1>3, <2>1, <2>2, <2>3, <2>5
    <3>2. Max(H) = current_entry
      BY <2>3, <3>1 DEF Max
    <3> QED BY <2>5, <3>2 DEF Nearest
  <2> QED BY <2>4, <2>5
<1>7. /\ isearch_length <= Len(<<>>)
      /\ isearch_length < Len(<<>>) => OwnRecords(isearch_stack', isearch_length)
      /\ isearch_length = 0 => current_entry = start
      /\ Len(<<>>) = 0 /\ Ahead(<<>>, current_entry) # {} => Nearest(Ahead(<<>>, current_entry)) = start
  BY <1>3, <1>4, <1>6
<1>8. resuming_previous_isearch /\ isearch_length < Len(search_string) =>
        /\ isearch_length = 0 /\ Len(<<>>) = Len(search_string)
        /\ isearch_stack'[Len(isearch_stack') - 1][2] = 0
  BY <1>3
<1> QED BY <1>1, <1>2, <1>4, <1>5, <1>7, <1>8, SearchStep


LEMMA ResumeStep ==
  ASSUME SearchInv, Resume
  PROVE  SearchInv'
<1> DEFINE n == Len(search_string)
<1>1. /\ Searching /\ Idle /\ UNCHANGED <<fixed, direction, search_string, start>>
      /\ text = <<>> /\ search_string # <<>>
      /\ isearch_stack' = Append(isearch_stack, <<current_entry, n>>)
      /\ Search(search_string, current_entry, wrapped_isearch, TRUE, FALSE)
  BY DEF Resume, AtKey, Push
<1>2. /\ WalkOK /\ SearchTypes /\ search_string \in Seq(Letter)
      /\ resuming_previous_isearch \in BOOLEAN
  BY DEF SearchInv, SearchTypes
<1>3. /\ isearch_length = 0 /\ Len(text) = 0 /\ current_entry = start /\ ~resuming_previous_isearch
      /\ n \in Nat /\ n > 0 /\ Len(isearch_stack) \in Nat
  BY <1>1, SearchFacts
<1>4. /\ isearch_stack' \in Seq(Nat \X Nat)
      /\ Lengths(isearch_stack', n, TRUE, n)
      /\ Origins(isearch_stack', entries, start)
      /\ isearch_length < n => OwnRecords(isearch_stack', isearch_length)
      /\ isearch_stack'[Len(isearch_stack') - 1][2] = Len(text)
  <2>1. /\ n \in Nat /\ TRUE \in BOOLEAN
        /\ resuming_previous_isearch => TRUE
        /\ TRUE => Len(search_string) > 0 /\ n >= Len(search_string)
        /\ TRUE /\ ~resuming_previous_isearch => Len(text) = 0
        /\ TRUE /\ Len(text) = 0 /\ n = Len(search_string)
    BY <1>3
  <2>2. isearch_stack' = Append(isearch_stack, <<current_entry, n>>)
    BY <1>1
  <2> HIDE DEF n
  <2>3. /\ isearch_stack' \in Seq(Nat \X Nat)
        /\ Lengths(isearch_stack', n, TRUE, Len(search_string))
        /\ Origins(isearch_stack', entries, start)
        /\ isearch_length < n => OwnRecords(isearch_stack', isearch_length)
        /\ isearch_stack'[Len(isearch_stack') - 1][2] = Len(text)
    BY <1>1, <2>1, <2>2, PushStep
  <2> QED BY <2>3 DEF n
<1> HIDE DEF n
<1>5. /\ isearch_length <= n /\ (isearch_length = 0 => current_entry = start) /\ n # 0
      /\ isearch_stack'[Len(isearch_stack') - 1][2] = 0
  BY <1>3, <1>4
<1> QED BY <1>1, <1>2, <1>3, <1>4, <1>5, SearchStep DEF n

LEMMA RetryStep ==
  ASSUME SearchInv, Retry
  PROVE  SearchInv'
<1> DEFINE l == Len(text)
           n == Len(search_string)
           r == resuming_previous_isearch
           wrapped == previous_isearch_failed \/ wrapped_isearch
           from == IF wrapped THEN Edge ELSE After
<1>1. /\ Searching /\ Idle /\ UNCHANGED <<fixed, direction, search_string, start>>
      /\ text # <<>>
      /\ IF wrapped THEN UNCHANGED isearch_stack
                    ELSE isearch_stack' = Append(isearch_stack, <<current_entry, l>>)
      /\ Search(text, from, wrapped, r, FALSE)
  BY DEF Retry, AtKey, Push
<1>2. /\ WalkOK /\ SearchTypes /\ text \in Seq(Letter) /\ r \in BOOLEAN
      /\ isearch_stack \in Seq(Nat \X Nat)
      /\ Lengths(isearch_stack, l, r, n) /\ Origins(isearch_stack, entries, start) /\ FoundLength
  BY <1>1 DEF SearchInv, SearchTypes, RecordsOK
<1>3. /\ l \in Nat /\ l # 0 /\ n \in Nat /\ isearch_length \in Nat /\ isearch_length <= l
      /\ r => n > 0 /\ l >= n
      /\ isearch_length = 0 => current_entry = start
  BY <1>1, SearchFacts
<1> HIDE DEF from, wrapped
<1>4. CASE wrapped
  <2>1. isearch_stack' = isearch_stack
    BY <1>1, <1>4
  <2>2. /\ isearch_length < l => OwnRecords(isearch_stack', isearch_length)
        /\ r /\ isearch_length < n =>
             isearch_length = 0 /\ l = n /\ isearch_stack'[Len(isearch_stack') - 1][2] = 0
    BY <1>2, <2>1 DEF FoundLength
  <2>3. isearch_stack' \in Seq(Nat \X Nat) /\ Lengths(isearch_stack', l, r, n)
        /\ Origins(isearch_stack', entries, start)
    BY <1>2, <2>1
  <2> QED BY <1>1, <1>2, <1>3, <2>2, <2>3, SearchStep
<1>5. CASE ~wrapped
  <2>1. isearch_stack' = Append(isearch_stack, <<current_entry, l>>)
    BY <1>1, <1>5
  <2>2. isearch_length = l
    BY <1>2, <1>3, <1>5 DEF FoundLength, wrapped
  <2>3. isearch_stack' \in Seq(Nat \X Nat) /\ Lengths(isearch_stack', l, r, n)
        /\ Origins(isearch_stack', entries, start)
    BY <1>1, <1>2, <1>3, <2>1, <2>2, PushStep
  <2>4. /\ ~(isearch_length < l)
        /\ ~(r /\ isearch_length < n)
    BY <1>3, <2>2
  <2> QED BY <1>1, <1>2, <1>3, <2>3, <2>4, SearchStep
<1> QED BY <1>4, <1>5


LEMMA Deleted ==
  ASSUME NEW t \in Seq(Letter), Len(t) > 0
  PROVE  DeleteLast(t) \in Seq(Letter) /\ Len(DeleteLast(t)) = Len(t) - 1
<1> DEFINE m == Len(t) - 1
<1>1. m \in Nat /\ Len(t) \in Nat /\ t # <<>>
  BY LenProperties, EmptySeq
<1>2. \A i \in 1 .. m : t[i] \in Letter
  BY <1>1, ElementOfSeq
<1>3. DeleteLast(t) = SubSeq(t, 1, m)
  BY <1>1 DEF DeleteLast
<1> HIDE DEF m
<1>4. SubSeq(t, 1, m) \in Seq(Letter) /\ Len(SubSeq(t, 1, m)) = IF 1 <= m THEN m - 1 + 1 ELSE 0
  BY <1>1, <1>2, SubSeqProperties
<1>5. Len(SubSeq(t, 1, m)) = m
  BY <1>1, <1>4
<1> QED BY <1>3, <1>4, <1>5 DEF m

(* What is left of the records keeps what they say. *)
LEMMA PopKeeps ==
  ASSUME NEW S \in Seq(Nat \X Nat), Len(S) > 0, NEW N, NEW first, Origins(S, N, first), NEW f
  PROVE  Origins(Popped(S), N, first) /\ (OwnRecords(S, f) => OwnRecords(Popped(S), f))
<1> DEFINE P == Popped(S)
           m == Len(S) - 1
<1>1. m \in Nat /\ Len(S) = m + 1 /\ Len(P) = m /\ \A i \in 1 .. m : P[i] = S[i]
  <2>1. Len(S) \in Nat
    BY LenProperties
  <2>2. Len(P) = m /\ \A i \in 1 .. m : P[i] = S[i]
    BY PoppedIs
  <2> HIDE DEF P
  <2> QED BY <2>1, <2>2
<1>2. \A i \in 1 .. m + 1 : S[i][1] < N /\ (i = 1 \/ S[i - 1][2] = 0 => S[i][1] = first)
  BY <1>1 DEF Origins
<1> HIDE DEF P, m
<1>3. ASSUME NEW i \in 1 .. m PROVE P[i][1] < N /\ (i = 1 \/ P[i - 1][2] = 0 => P[i][1] = first)
  <2>1. i \in 1 .. m + 1 /\ P[i] = S[i] /\ (i # 1 => P[i - 1] = S[i - 1])
    BY <1>1
  <2> QED BY <1>2, <2>1
<1>4. ASSUME OwnRecords(S, f), NEW i \in 2 .. m PROVE P[i][2] > f => P[i - 1][2] < P[i][2]
  <2>1. i \in 2 .. Len(S) /\ P[i] = S[i] /\ P[i - 1] = S[i - 1]
    BY <1>1
  <2>2. S[i][2] > f => S[i - 1][2] < S[i][2]
    BY <1>4, <2>1 DEF OwnRecords
  <2> QED BY <2>1, <2>2
<1>5. Origins(P, N, first) /\ (OwnRecords(S, f) => OwnRecords(P, f))
  BY <1>1, <1>3, <1>4 DEF Origins, OwnRecords
<1> QED BY <1>5 DEF P

(* Backspace, on records that are as they should be: there is one below    *)
(* the popped one, and the text shrinks unless that was for the same text. *)
LEMMA BackspaceStep ==
  ASSUME SearchInv, Backspace
  PROVE  /\ SearchInv'
         /\ Len(isearch_stack) - 1 \in 1 .. Len(isearch_stack) - 1
         /\ isearch_stack[Len(isearch_stack) - 1][2] # Len(text) => Len(text') < Len(text)
<1> DEFINE S == isearch_stack
           P == Popped(S)
           l == Len(text)
           n == Len(search_string)
           r == resuming_previous_isearch
           L == isearch_length
           k == S[Len(S) - 1][2]
           e == S[Len(S)][1]
<1>1. /\ Searching /\ Idle /\ UNCHANGED <<fixed, direction, search_string, start>>
      /\ UNCHANGED <<wrapped_isearch, previous_isearch_failed, cursor>> /\ text # <<>>
  BY DEF Backspace, AtKey
<1>2. /\ WalkOK /\ SearchTypes /\ text \in Seq(Letter) /\ r \in BOOLEAN
      /\ previous_isearch_failed \in BOOLEAN /\ S \in Seq(Nat \X Nat)
      /\ Lengths(S, l, r, n) /\ Origins(S, entries, start) /\ FoundLength
  BY <1>1 DEF SearchInv, SearchTypes, RecordsOK
<1>3. /\ l \in Nat /\ l > 0 /\ n \in Nat /\ L \in Nat /\ L <= l
      /\ Len(S) \in Nat /\ Len(S) > 0 /\ S[Len(S)][2] = l
      /\ r => n > 0 /\ l >= n
      /\ current_entry \in Nat /\ current_entry < entries /\ todo = 0
      /\ L = 0 => current_entry = start
  <2>1. /\ l \in Nat /\ n \in Nat /\ L \in Nat /\ L <= l /\ (text = <<>> <=> l = 0)
        /\ Len(S) \in Nat /\ Len(S) > 0 /\ S[Len(S)][2] = l
        /\ r => n > 0 /\ l >= n
        /\ current_entry \in Nat /\ current_entry < entries /\ todo = 0
        /\ L = 0 => current_entry = start
    BY <1>1, SearchFacts
  <2> HIDE DEF l, n, r, L, S
  <2> QED BY <1>1, <2>1
<1>4. /\ Len(S) >= 2 /\ k \in Nat
      /\ k = l \/ k = l - 1 \/ (r /\ k = 0 /\ l = n)
      /\ r /\ k < n => k = 0
      /\ Lengths(P, k, r /\ k >= n, n)
  <2> HIDE DEF S, l, n, r
  <2> QED BY <1>2, <1>3, PopLengths
<1>5. /\ P \in Seq(Nat \X Nat) /\ Len(P) = Len(S) - 1
      /\ \A i \in 1 .. Len(S) - 1 : P[i] = S[i]
      /\ Origins(P, entries, start) /\ (OwnRecords(S, L) => OwnRecords(P, L))
  BY <1>2, <1>3, PoppedIs, PopKeeps
<1>6. Len(S) - 1 \in 1 .. Len(S) - 1 /\ P # <<>> /\ S # <<>> /\ P[Len(P)][2] = k
  <2>1. Len(S) - 1 \in 1 .. Len(S) - 1 /\ Len(P) > 0
    BY <1>3, <1>4, <1>5
  <2> QED BY <1>3, <1>5, <2>1, EmptySeq
<1>7. e \in Nat /\ e < entries /\ (k = 0 => e = start)
  <2>1. Len(S) \in 1 .. Len(S)
    BY <1>3
  <2>2. e \in Nat
    BY <1>2, <2>1, RecordTypes
  <2> QED BY <1>2, <2>1, <2>2 DEF Origins
<1>8. /\ isearch_stack' = P
      /\ text' = Adjusted(text, isearch_length', r)
      /\ resuming_previous_isearch' = StillResuming(isearch_length', r)
      /\ L # l => isearch_length' = L /\ todo' = todo
      /\ L = l => isearch_length' = k /\ todo' = e - current_entry
  <2>1. /\ isearch_stack' = P
        /\ text' = Adjusted(text, isearch_length', r)
        /\ resuming_previous_isearch' = StillResuming(isearch_length', r)
        /\ L # l => isearch_length' = L /\ todo' = todo
        /\ L = l => isearch_length' = P[Len(P)][2] /\ todo' = S[Len(S)][1] - current_entry
    BY <1>6 DEF Backspace, Popped, WalkTo
  <2> QED BY <1>6, <2>1
<1>9. /\ listed' = listed /\ sort_method' = sort_method /\ direction' = direction
      /\ search_string' = search_string /\ start' = start
      /\ current_entry' = current_entry /\ previous_isearch_failed' = previous_isearch_failed
  BY <1>1 DEF fixed, cursor
<1>10. entries' = entries
  BY <1>9 DEF entries
<1>11. DeleteLast(text) \in Seq(Letter) /\ Len(DeleteLast(text)) = l - 1
  BY <1>2, <1>3, Deleted
<1>12. <<>> \in Seq(Letter) /\ Len(<<>>) = 0
  BY EmptySeq
<1>13. /\ L < l => previous_isearch_failed /\ OwnRecords(S, L)
       /\ r /\ L < n => L = 0 /\ l = n /\ k = 0
  BY <1>2 DEF FoundLength
<1>14. L < l => k < l
  <2> SUFFICES ASSUME L < l PROVE k < l
    OBVIOUS
  <2>1. Len(S) \in 2 .. Len(S) /\ S[Len(S)][2] > L
    BY <1>3, <1>4
  <2> QED BY <1>3, <1>13, <2>1 DEF OwnRecords
<1>15. WalkOK'
  <2>1. todo' \in Int /\ current_entry + todo' \in Nat /\ current_entry + todo' < entries
    BY <1>3, <1>7, <1>8
  <2> QED BY <1>2, <1>9, <1>10, <2>1 DEF WalkOK
<1>16. isearch_length' = 0 => current_entry' + todo' = start'
  BY <1>3, <1>7, <1>8, <1>9
<1> HIDE DEF S, P, l, n, r, L, k, e
<1>17. CASE L # l /\ r /\ L < n
  <2>1. text' = <<>> /\ isearch_length' = 0 /\ k = 0 /\ n > 0
    BY <1>3, <1>8, <1>13, <1>17 DEF Adjusted, n
  <2>2. resuming_previous_isearch' = FALSE
    <3>1. resuming_previous_isearch' = (r /\ L >= n)
      BY <1>8, <1>17 DEF StillResuming, n
    <3>2. ~(L >= n)
      BY <1>3, <1>17
    <3> QED BY <3>1, <3>2
  <2>3. Lengths(P, 0, FALSE, n)
    <3>1. ~(k >= n)
      BY <1>3, <1>4, <2>1
    <3>2. (r /\ k >= n) = FALSE
      BY <3>1
    <3>3. Lengths(P, k, FALSE, n)
      BY <1>4, <3>2
    <3> QED BY <2>1, <3>3
  <2>4. FoundLength'
    BY <1>12, <1>16, <2>1, <2>2 DEF FoundLength
  <2>5. RecordsOK'
    BY <1>5, <1>8, <1>9, <1>10, <1>12, <2>1, <2>2, <2>3, <2>4 DEF RecordsOK, n
  <2>6. SearchTypes'
    BY <1>2, <1>5, <1>8, <1>9, <1>12, <2>1, <2>2 DEF SearchTypes
  <2>7. Len(text') < l
    BY <1>3, <1>12, <2>1
  <2> QED BY <1>6, <1>15, <2>5, <2>6, <2>7 DEF SearchInv, S, k, l
<1>18. CASE L # l /\ ~(r /\ L < n)
  <2>1. L < l /\ k = l - 1
    BY <1>3, <1>4, <1>14, <1>18
  <2>2. isearch_length' = L
    BY <1>8, <1>18
  <2>3. text' = DeleteLast(text) /\ Len(text') = l - 1
    BY <1>8, <1>11, <1>18, <2>1, <2>2 DEF Adjusted, n, l
  <2>4. resuming_previous_isearch' = r /\ (r /\ k >= n) = r
    BY <1>2, <1>3, <1>8, <1>18, <2>1, <2>2 DEF StillResuming, n
  <2>5. Lengths(P, Len(text'), r, n)
    BY <1>4, <2>1, <2>3, <2>4
  <2>6. FoundLength'
    <3>1. isearch_length' <= Len(text') /\ previous_isearch_failed' /\ OwnRecords(P, L)
      BY <1>3, <1>5, <1>9, <1>13, <2>1, <2>2, <2>3
    <3>2. ~(resuming_previous_isearch' /\ isearch_length' < Len(search_string'))
      BY <1>9, <1>18, <2>2, <2>4 DEF n
    <3> QED BY <1>8, <1>16, <2>2, <3>1, <3>2 DEF FoundLength, OwnRecords
  <2>7. RecordsOK'
    BY <1>5, <1>8, <1>9, <1>10, <2>4, <2>5, <2>6 DEF RecordsOK, n
  <2>8. SearchTypes'
    BY <1>2, <1>3, <1>5, <1>8, <1>9, <1>11, <2>2, <2>3, <2>4 DEF SearchTypes
  <2>9. Len(text') < l
    BY <1>3, <2>3
  <2> QED BY <1>6, <1>15, <2>7, <2>8, <2>9 DEF SearchInv, S, k, l
<1>19. CASE L = l
  <2>1. isearch_length' = k
    BY <1>8, <1>19
  <2>2. resuming_previous_isearch' = (r /\ k >= n)
    BY <1>8, <2>1 DEF StillResuming, n
  <2>3. text' \in Seq(Letter) /\ Len(text') = k
    <3>1. CASE r /\ k < n
      <4>1. text' = <<>> /\ k = 0
        BY <1>4, <1>8, <2>1, <3>1 DEF Adjusted, n
      <4> QED BY <1>12, <4>1
    <3>2. CASE ~(r /\ k < n) /\ k < l
      <4>1. text' = DeleteLast(text) /\ k = l - 1
        BY <1>3, <1>4, <1>8, <2>1, <3>2 DEF Adjusted, n, l
      <4> QED BY <1>11, <4>1
    <3>3. CASE ~(r /\ k < n) /\ ~(k < l)
      <4>1. text' = text /\ k = l
        BY <1>3, <1>4, <1>8, <2>1, <3>3 DEF Adjusted, n, l
      <4> QED BY <1>2, <4>1 DEF l
    <3> QED BY <3>1, <3>2, <3>3
  <2>4. FoundLength'
    <3>1. isearch_length' <= Len(text') /\ ~(isearch_length' < Len(text'))
      BY <1>4, <2>1, <2>3
    <3>2. ~(resuming_previous_isearch' /\ isearch_length' < Len(search_string'))
      <4>1. Len(search_string') = n
        BY <1>9 DEF n
      <4>2. k >= n => ~(k < n)
        BY <1>3, <1>4
      <4> QED BY <2>1, <2>2, <4>1, <4>2
    <3> QED BY <1>16, <3>1, <3>2 DEF FoundLength
  <2>5. RecordsOK'
    BY <1>4, <1>5, <1>8, <1>9, <1>10, <2>2, <2>3, <2>4 DEF RecordsOK, n
  <2>6. SearchTypes'
    BY <1>2, <1>4, <1>5, <1>8, <1>9, <2>1, <2>2, <2>3 DEF SearchTypes
  <2>7. k # l => Len(text') < l
    BY <1>3, <1>4, <2>3
  <2> QED BY <1>6, <1>15, <2>5, <2>6, <2>7 DEF SearchInv, S, k, l
<1> QED BY <1>17, <1>18, <1>19

LEMMA BackspaceEmptyStep ==
  ASSUME SearchInv, BackspaceEmpty
  PROVE  SearchInv'
<1> DEFINE n == Len(search_string)
<1>1. /\ Searching /\ Idle /\ UNCHANGED <<fixed, direction, search_string, start>>
      /\ text = <<>> /\ search_string # <<>>
      /\ text' = Adjusted(search_string, isearch_length, TRUE)
      /\ resuming_previous_isearch' = StillResuming(isearch_length, TRUE)
      /\ previous_isearch_failed' = FALSE
      /\ UNCHANGED <<isearch_stack, isearch_length, cursor, todo>>
  BY DEF BackspaceEmpty, AtKey
<1>2. /\ WalkOK /\ SearchTypes /\ RecordsOK
  BY DEF SearchInv
<1>3. /\ isearch_length = 0 /\ Len(text) = 0 /\ ~resuming_previous_isearch /\ n > 0
      /\ current_entry = start /\ todo = 0 /\ current_entry \in Nat /\ n \in Nat
  BY <1>1, SearchFacts
<1>4. text' = <<>> /\ resuming_previous_isearch' = FALSE
  <2>1. isearch_length < Len(search_string) /\ ~(isearch_length >= Len(search_string))
    BY <1>3
  <2>2. text' = <<>>
    BY <1>1, <2>1 DEF Adjusted
  <2>3. resuming_previous_isearch' = FALSE
    BY <1>1, <2>1 DEF StillResuming
  <2> QED BY <2>2, <2>3
<1>5. <<>> \in Seq(Letter) /\ Len(<<>>) = 0
  BY EmptySeq
<1>6. /\ Lengths(isearch_stack, 0, FALSE, n) /\ Origins(isearch_stack, entries, start)
  BY <1>1, <1>2, <1>3 DEF RecordsOK, SearchTypes
<1>7. /\ listed' = listed /\ sort_method' = sort_method /\ direction' = direction
      /\ search_string' = search_string /\ start' = start
      /\ current_entry' = current_entry
  BY <1>1 DEF fixed, cursor
<1>8. entries' = entries
  BY <1>7 DEF entries
<1>9. WalkOK'
  BY <1>1, <1>2, <1>7, <1>8 DEF WalkOK
<1>10. SearchTypes'
  BY <1>1, <1>2, <1>4, <1>5, <1>7 DEF SearchTypes
<1>11. FoundLength'
  <2>1. isearch_length' = 0 /\ todo' = 0
    BY <1>1, <1>3
  <2>2. Len(text') = 0
    BY <1>4, <1>5
  <2>3. current_entry' + todo' = start'
    BY <1>3, <1>7, <2>1
  <2> QED BY <1>4, <2>1, <2>2, <2>3 DEF FoundLength
<1>12. RecordsOK'
  BY <1>1, <1>4, <1>5, <1>6, <1>7, <1>8, <1>11 DEF RecordsOK
<1> QED BY <1>9, <1>10, <1>12 DEF SearchInv


LEMMA BeginStep ==
  ASSUME SearchInv, NEW d \in {"forward", "backward"}, Begin(d)
  PROVE  SearchInv'
<1> DEFINE S == <<<<current_entry, 0>>>>
<1>1. /\ todo = 0 /\ direction' = d /\ text' = <<>> /\ start' = current_entry
      /\ isearch_stack' = S /\ isearch_length' = 0
      /\ previous_isearch_failed' = FALSE /\ resuming_previous_isearch' = FALSE
      /\ listed' = listed /\ sort_method' = sort_method /\ current_entry' = current_entry
      /\ todo' = todo /\ search_string' = search_string
  BY DEF Begin, Idle, vars, cursor
<1>2. WalkOK /\ SearchTypes
  BY DEF SearchInv
<1>3. current_entry \in Nat /\ current_entry < entries /\ entries' = entries
  BY <1>1, <1>2 DEF WalkOK, entries
<1>4. /\ S \in Seq(Nat \X Nat) /\ Len(S) = 1 /\ S[1] = <<current_entry, 0>>
      /\ S[1][1] = current_entry /\ S[1][2] = 0
  BY <1>3
<1>5. <<>> \in Seq(Letter) /\ Len(<<>>) = 0
  BY EmptySeq
<1> HIDE DEF S
<1>6. WalkOK'
  BY <1>1, <1>2, <1>3 DEF WalkOK
<1>7. SearchTypes'
  BY <1>1, <1>2, <1>4, <1>5 DEF SearchTypes
<1>8. Lengths(S, 0, FALSE, Len(search_string))
  <2>1. \A i \in 1 .. Len(S) : i = 1
    BY <1>4
  <2>2. \A i, j \in 1 .. Len(S) : S[i][2] <= S[j][2]
    BY <1>4, <2>1
  <2>3. ~\E i \in 1 .. Len(S) - 1 : TRUE
    BY <1>4
  <2> QED BY <1>4, <2>2, <2>3 DEF Lengths
<1>9. Origins(S, entries, current_entry)
  <2>1. \A i \in 1 .. Len(S) : i = 1
    BY <1>4
  <2> QED BY <1>3, <1>4, <2>1 DEF Origins
<1>10. FoundLength'
  <2>1. isearch_length' = 0 /\ Len(text') = 0
    BY <1>1, <1>5
  <2>2. current_entry' + todo' = start'
    BY <1>1, <1>3
  <2> QED BY <1>1, <2>1, <2>2 DEF FoundLength
<1>11. RecordsOK'
  <2>1. Len(text') = 0
    BY <1>1, <1>5
  <2>2. Lengths(S, Len(text'), FALSE, Len(search_string))
    BY <1>8, <2>1
  <2> QED BY <1>1, <1>3, <1>9, <1>10, <2>2 DEF RecordsOK
<1> QED BY <1>6, <1>7, <1>11 DEF SearchInv

LEMMA EndSearchStep ==
  ASSUME SearchInv, EndSearch
  PROVE  SearchInv'
<1>1. /\ direction' = "off" /\ search_string' = text /\ isearch_stack' = <<>>
      /\ text' = text /\ isearch_length' = isearch_length
      /\ previous_isearch_failed' = previous_isearch_failed
      /\ resuming_previous_isearch' = resuming_previous_isearch
      /\ listed' = listed /\ sort_method' = sort_method /\ current_entry' = current_entry
      /\ todo' = todo
  BY DEF EndSearch, vars, cursor
<1>2. WalkOK /\ SearchTypes
  BY DEF SearchInv
<1>3. WalkOK'
  BY <1>1, <1>2 DEF WalkOK, entries
<1>4. <<>> \in Seq(Nat \X Nat)
  BY EmptySeq
<1>5. SearchTypes'
  BY <1>1, <1>2, <1>4 DEF SearchTypes
<1>6. RecordsOK'
  BY <1>1 DEF RecordsOK, Searching
<1> QED BY <1>3, <1>5, <1>6 DEF SearchInv

(* A walk goes on to the entry it was begun for, one entry at a time.      *)
LEMMA WalkGoesOn ==
  ASSUME WalkOK, Steps
  PROVE  WalkOK' /\ entries' = entries /\ current_entry' + todo' = current_entry + todo
<1>1. listed' = listed /\ sort_method' = sort_method /\ entries' = entries
  BY DEF Steps, StepUp, StepDown, entries
<1>2. entries \in Nat
  BY ListingFinite DEF WalkOK, Listings, entries
<1>3. /\ current_entry' + todo' = current_entry + todo
      /\ current_entry' \in Nat /\ current_entry' < entries /\ todo' \in Int
  <2>1. CASE StepDown
    <3>1. todo > 0 /\ current_entry < entries - 1
      BY <1>2, <2>1 DEF StepDown, WalkOK
    <3>2. current_entry' = current_entry + 1 /\ todo' = todo - 1
      BY <2>1, <3>1 DEF StepDown
    <3> QED BY <1>2, <3>1, <3>2 DEF WalkOK
  <2>2. CASE StepUp
    <3>1. todo < 0 /\ current_entry # 0
      BY <2>2 DEF StepUp, WalkOK
    <3>2. current_entry' = current_entry - 1 /\ todo' = todo + 1
      BY <2>2, <3>1 DEF StepUp
    <3> QED BY <1>2, <3>1, <3>2 DEF WalkOK
  <2> QED BY <2>1, <2>2 DEF Steps
<1> QED BY <1>1, <1>3 DEF WalkOK

LEMMA WalkStep ==
  ASSUME SearchInv, Steps, UNCHANGED svars
  PROVE  SearchInv'
<1>1. /\ direction' = direction /\ search_string' = search_string /\ isearch_stack' = isearch_stack
      /\ text' = text /\ isearch_length' = isearch_length /\ start' = start
      /\ previous_isearch_failed' = previous_isearch_failed
      /\ resuming_previous_isearch' = resuming_previous_isearch
  BY DEF svars, loop
<1>2. WalkOK /\ SearchTypes /\ RecordsOK
  BY DEF SearchInv
<1>3. WalkOK' /\ entries' = entries /\ current_entry' + todo' = current_entry + todo
  BY <1>2, WalkGoesOn
<1>4. SearchTypes'
  BY <1>1, <1>2 DEF SearchTypes
<1>5. RecordsOK'
  BY <1>1, <1>2, <1>3 DEF RecordsOK, FoundLength, Searching, OwnRecords
<1> QED BY <1>3, <1>4, <1>5 DEF SearchInv

LEMMA SearchInvInit == SearchInit => SearchInv
<1> SUFFICES ASSUME SearchInit PROVE SearchInv
  OBVIOUS
<1>1. /\ listed \in Listings /\ sort_method \in Method /\ todo = 0
      /\ current_entry \in 0 .. entries - 1
      /\ direction = "off" /\ text = <<>> /\ isearch_stack = <<>> /\ isearch_length = 0
      /\ previous_isearch_failed = FALSE /\ resuming_previous_isearch = FALSE
      /\ search_string = <<>>
  BY DEF SearchInit
<1>2. entries \in Nat
  BY <1>1, ListingFinite DEF Listings, entries
<1>3. WalkOK
  BY <1>1, <1>2 DEF WalkOK
<1>4. <<>> \in Seq(Letter) /\ <<>> \in Seq(Nat \X Nat)
  BY EmptySeq
<1>5. SearchTypes
  BY <1>1, <1>4 DEF SearchTypes
<1>6. RecordsOK
  BY <1>1 DEF RecordsOK, Searching
<1> QED BY <1>3, <1>5, <1>6 DEF SearchInv

LEMMA SearchInvStep ==
  ASSUME ResumeMisses = FALSE
  PROVE  SearchInv /\ [SearchNext]_allVars => SearchInv'
<1> SUFFICES ASSUME SearchInv, [SearchNext]_allVars PROVE SearchInv'
  OBVIOUS
<1>1. CASE \E d \in {"forward", "backward"} : Begin(d)
  BY <1>1, BeginStep
<1>2. CASE \E c \in Letter : TypeChar(c)
  BY <1>2, TypeCharStep
<1>3. CASE SearchAgainEmpty
  BY <1>3, SearchAgainEmptyStep
<1>4. CASE Resume
  BY <1>4, ResumeStep
<1>5. CASE Retry
  BY <1>5, RetryStep
<1>6. CASE Backspace
  BY <1>6, BackspaceStep
<1>7. CASE BackspaceEmpty
  BY <1>7, BackspaceEmptyStep
<1>8. CASE EndSearch
  BY <1>8, EndSearchStep
<1>9. CASE Steps /\ UNCHANGED svars
  BY <1>9, WalkStep
<1>10. CASE UNCHANGED allVars
  <2>1. /\ UNCHANGED <<direction, text, isearch_stack, isearch_length, search_string, start>>
        /\ UNCHANGED <<previous_isearch_failed, resuming_previous_isearch>>
        /\ UNCHANGED <<listed, sort_method, current_entry, todo>>
    BY <1>10 DEF allVars, svars, loop, vars, cursor
  <2>2. entries' = entries
    BY <2>1 DEF entries
  <2>3. WalkOK' <=> WalkOK
    BY <2>1, <2>2 DEF WalkOK
  <2>4. SearchTypes' <=> SearchTypes
    BY <2>1 DEF SearchTypes
  <2>5. RecordsOK' <=> RecordsOK
    BY <2>1, <2>2 DEF RecordsOK, FoundLength, Searching, OwnRecords
  <2> QED BY <2>3, <2>4, <2>5 DEF SearchInv
<1> QED BY <1>1, <1>2, <1>3, <1>4, <1>5, <1>6, <1>7, <1>8, <1>9, <1>10 DEF SearchNext, SearchKey

(* Whatever is typed, retried, resumed and undone, each key leaves the     *)
(* stack, the counted length and the text in step with one another, as     *)
(* long as nothing is typed on a resumed text that does not match.         *)
THEOREM SearchRecords ==
  ASSUME ResumeMisses = FALSE
  PROVE  SearchSpec => []SearchInv
<1>1. SearchInit => SearchInv
  BY SearchInvInit
<1>2. SearchInv /\ [SearchNext]_allVars => SearchInv'
  BY SearchInvStep
<1> QED BY <1>1, <1>2, PTL DEF SearchSpec

(* Deleting all of the text brings the cursor back to the entry it was on  *)
(* when the search began, however it was moved between (il_isearch and     *)
(* panel_action's act_ISEARCH_DECREASE), unless something is typed on a    *)
(* resumed text that does not match (which the code does not prevent).     *)
THEOREM SearchReturns ==
  ASSUME ResumeMisses = FALSE
  PROVE  SearchSpec => []DeletingAllReturns
<1>1. SearchInv => DeletingAllReturns
  <2> SUFFICES ASSUME SearchInv, Settled, text = <<>> PROVE current_entry = start
    BY DEF DeletingAllReturns
  <2>1. isearch_length \in Nat /\ isearch_length <= Len(text) /\ Len(text) = 0
        /\ (isearch_length = 0 => current_entry = start)
    BY SearchFacts DEF Settled
  <2> QED BY <2>1
<1> QED BY <1>1, SearchRecords, PTL

(* The backspace key never pops an empty isearch_stack, which would leave  *)
(* the entry and the length it then uses uninitialised, unless something   *)
(* is typed on a resumed text that does not match.                         *)
THEOREM SearchHasRecord ==
  ASSUME ResumeMisses = FALSE
  PROVE  SearchSpec => []BackspaceHasRecord
<1>1. SearchInv => BackspaceHasRecord
  <2> SUFFICES ASSUME SearchInv, Settled PROVE isearch_stack # <<>>
    BY DEF BackspaceHasRecord
  <2>1. Len(isearch_stack) > 0 /\ isearch_stack \in Seq(Nat \X Nat)
    BY SearchFacts DEF Settled, SearchInv, SearchTypes
  <2> QED BY <2>1, EmptySeq
<1> QED BY <1>1, SearchRecords, PTL

(* The backspace key takes a character from the text whenever no element   *)
(* of the panel's stack below the popped one was pushed for that text, and *)
(* nothing is typed on a resumed text that does not match.                 *)
THEOREM SearchDeletes ==
  ASSUME ResumeMisses = FALSE
  PROVE  SearchSpec => BackspaceDeletes
<1> DEFINE A == Backspace /\ (\A k \in 1 .. Len(isearch_stack) - 1 : isearch_stack[k][2] # Len(text)) =>
                  Len(text') < Len(text)
<1>1. SearchInv => A
  <2> SUFFICES ASSUME SearchInv, Backspace,
                      \A k \in 1 .. Len(isearch_stack) - 1 : isearch_stack[k][2] # Len(text)
               PROVE  Len(text') < Len(text)
    OBVIOUS
  <2>1. Len(isearch_stack) - 1 \in 1 .. Len(isearch_stack) - 1
        /\ (isearch_stack[Len(isearch_stack) - 1][2] # Len(text) => Len(text') < Len(text))
    BY BackspaceStep
  <2> QED BY <2>1
<1>2. SearchInv /\ [SearchNext]_allVars => [A]_allVars
  BY <1>1
<1> HIDE DEF A
<1>3. SearchSpec => [][A]_allVars
  BY <1>2, SearchRecords, PTL DEF SearchSpec
<1> QED BY <1>3 DEF A, BackspaceDeletes


(* A search moves the cursor as the panel does: by panel_set_current_entry *)
(* or not at all, and the rest is the walk.                                *)
LEMMA SearchCursor ==
  ASSUME SearchNext
  PROVE  \/ Steps
         \/ /\ UNCHANGED fixed
            /\ UNCHANGED cursor \/ SetCurrentEntry(current_entry')
<1>1. ASSUME NEW t, NEW from, NEW wrapped, NEW r, NEW failed, Search(t, from, wrapped, r, failed)
      PROVE  UNCHANGED cursor \/ SetCurrentEntry(current_entry')
  <2>1. CASE Ahead(t, from) = {}
    BY <1>1, <2>1 DEF Search, NotFound
  <2>2. CASE Ahead(t, from) # {}
    <3>1. \E i : UNCHANGED cursor \/ SetCurrentEntry(i)
      BY <1>1, <2>2 DEF Search, Found
    <3> QED BY <3>1 DEF SetCurrentEntry
  <2> QED BY <2>1, <2>2
<1>2. CASE \E d \in {"forward", "backward"} : Begin(d)
  BY <1>2 DEF Begin, fixed, vars
<1>3. CASE \E c \in Letter : TypeChar(c)
  BY <1>1, <1>3 DEF TypeChar, AtKey, Increase
<1>4. CASE SearchAgainEmpty
  BY <1>1, <1>4 DEF SearchAgainEmpty, AtKey, Increase
<1>5. CASE Resume
  BY <1>1, <1>5 DEF Resume, AtKey
<1>6. CASE Retry
  BY <1>1, <1>6 DEF Retry, AtKey
<1>7. CASE Backspace
  BY <1>7 DEF Backspace, AtKey
<1>8. CASE BackspaceEmpty
  BY <1>8 DEF BackspaceEmpty, AtKey
<1>9. CASE EndSearch
  BY <1>9 DEF EndSearch, fixed, vars
<1> QED BY <1>2, <1>3, <1>4, <1>5, <1>6, <1>7, <1>8, <1>9 DEF SearchNext, SearchKey

(* What holds of a search without a condition: its types, and that every   *)
(* entry it remembers is one of the listing.                               *)
Remembered == \A i \in 1 .. Len(isearch_stack) : isearch_stack[i][1] < entries

PathInv ==
  /\ WalkOK /\ SearchTypes /\ Remembered
  /\ wrapped_isearch \in BOOLEAN /\ start \in Nat /\ start <= entries

LEMMA PathInvInit == SearchInit => PathInv
<1> SUFFICES ASSUME SearchInit PROVE PathInv
  OBVIOUS
<1>1. WalkOK /\ SearchTypes
  BY SearchInvInit DEF SearchInv
<1>2. Remembered
  <2>1. isearch_stack = <<>>
    BY DEF SearchInit
  <2>2. ~\E i \in 1 .. Len(isearch_stack) : TRUE
    BY <2>1
  <2> QED BY <2>2 DEF Remembered
<1>3. wrapped_isearch \in BOOLEAN
  BY Zenon DEF SearchInit
<1>4. start = 0 /\ 0 <= entries
  BY ListingFinite DEF SearchInit, Listings, entries
<1> QED BY <1>1, <1>2, <1>3, <1>4 DEF PathInv

(* A record of the current entry. *)
LEMMA PathPush ==
  ASSUME PathInv, NEW k \in Nat, entries' = entries,
         isearch_stack' = Append(isearch_stack, <<current_entry, k>>)
  PROVE  isearch_stack' \in Seq(Nat \X Nat) /\ Remembered'
<1>1. isearch_stack \in Seq(Nat \X Nat) /\ current_entry \in Nat /\ current_entry < entries
  BY DEF PathInv, SearchTypes, WalkOK
<1>2. /\ isearch_stack' \in Seq(Nat \X Nat) /\ Len(isearch_stack') = Len(isearch_stack) + 1
      /\ \A i \in 1 .. Len(isearch_stack) : isearch_stack'[i] = isearch_stack[i]
      /\ isearch_stack'[Len(isearch_stack) + 1] = <<current_entry, k>>
      /\ Len(isearch_stack) \in Nat
  BY <1>1, Pushed
<1>3. ASSUME NEW i \in 1 .. Len(isearch_stack') PROVE isearch_stack'[i][1] < entries'
  <2>1. CASE i = Len(isearch_stack) + 1
    BY <1>1, <1>2, <2>1
  <2>2. CASE i \in 1 .. Len(isearch_stack)
    BY <1>2, <2>2 DEF PathInv, Remembered
  <2> QED BY <1>2, <2>1, <2>2
<1> QED BY <1>2, <1>3 DEF Remembered

(* A search leads to an entry that matches, or nowhere. *)
LEMMA PathSearch ==
  ASSUME WalkOK, SearchTypes, Idle, NEW t \in Seq(Letter), NEW from, NEW wrapped \in BOOLEAN,
         NEW r \in BOOLEAN, NEW failed \in BOOLEAN, Search(t, from, wrapped, r, failed),
         UNCHANGED <<fixed, direction, search_string>>, isearch_stack' \in Seq(Nat \X Nat)
  PROVE  WalkOK' /\ SearchTypes' /\ wrapped_isearch' \in BOOLEAN
<1>1. /\ listed' = listed /\ sort_method' = sort_method /\ direction' = direction
      /\ search_string' = search_string /\ entries' = entries
  BY DEF fixed, entries
<1>2. Len(t) \in Nat /\ current_entry \in Nat /\ current_entry < entries /\ todo = 0
  BY LenProperties DEF WalkOK, Idle
<1>3. CASE Ahead(t, from) = {}
  <2>1. /\ previous_isearch_failed' = TRUE /\ text' = t /\ resuming_previous_isearch' = r
        /\ isearch_length' = isearch_length /\ current_entry' = current_entry /\ todo' = todo
        /\ wrapped_isearch' = wrapped
    BY <1>3 DEF Search, NotFound, cursor
  <2>2. WalkOK'
    BY <1>1, <2>1 DEF WalkOK
  <2>3. SearchTypes'
    BY <1>1, <2>1 DEF SearchTypes
  <2> QED BY <2>1, <2>2, <2>3
<1>4. CASE Ahead(t, from) # {}
  <2> DEFINE i == Nearest(Ahead(t, from))
  <2>1. i \in Nat /\ i < entries
    BY <1>4, NearestIs
  <2>2. /\ previous_isearch_failed' = failed /\ isearch_length' = Len(t) /\ wrapped_isearch' = FALSE
        /\ text' = Adjusted(t, Len(t), r) /\ resuming_previous_isearch' = StillResuming(Len(t), r)
        /\ \/ current_entry' = i /\ todo' = todo
           \/ current_entry' = current_entry /\ todo' = i - current_entry
    BY <1>4 DEF Search, Found, SetCurrentEntry, WalkTo, cursor
  <2> HIDE DEF i
  <2>3. WalkOK'
    <3>1. /\ current_entry' \in Nat /\ current_entry' < entries /\ current_entry' + todo' = i
          /\ todo' \in Int
      BY <1>2, <2>1, <2>2
    <3> QED BY <1>1, <2>1, <3>1 DEF WalkOK
  <2>4. text' \in Seq(Letter)
    <3>1. <<>> \in Seq(Letter) /\ ~(Len(t) < Len(t))
      BY <1>2, EmptySeq
    <3> QED BY <2>2, <3>1 DEF Adjusted
  <2>5. resuming_previous_isearch' \in BOOLEAN
    BY <2>2 DEF StillResuming
  <2>6. SearchTypes'
    BY <1>1, <1>2, <2>2, <2>4, <2>5 DEF SearchTypes
  <2> QED BY <2>2, <2>3, <2>6
<1> QED BY <1>3, <1>4

(* What the main loop does to a text leaves a text. *)
LEMMA AdjustedIs ==
  ASSUME NEW t \in Seq(Letter), NEW l \in Nat, NEW r
  PROVE  Adjusted(t, l, r) \in Seq(Letter) /\ StillResuming(l, r) \in BOOLEAN
<1>1. <<>> \in Seq(Letter)
  BY EmptySeq
<1>2. DeleteLast(t) \in Seq(Letter)
  <2>1. CASE t = <<>>
    BY <2>1 DEF DeleteLast
  <2>2. CASE t # <<>>
    BY <2>2, Deleted, EmptySeq, LenProperties
  <2> QED BY <2>1, <2>2
<1>3. StillResuming(l, r) \in BOOLEAN
  BY DEF StillResuming
<1> QED BY <1>1, <1>2, <1>3 DEF Adjusted

(* Each key that searches pushes a record, or none after a failure, and    *)
(* searches for some text.                                                 *)
LEMMA PathKey ==
  ASSUME PathInv, Idle, UNCHANGED <<fixed, direction, search_string, start>>,
         NEW t \in Seq(Letter), NEW from, NEW wrapped \in BOOLEAN,
         NEW r \in BOOLEAN, NEW failed \in BOOLEAN, Search(t, from, wrapped, r, failed),
         UNCHANGED isearch_stack \/ Push(Len(t))
  PROVE  PathInv'
<1>1. entries' = entries /\ start' = start
  BY DEF fixed, entries
<1>2. isearch_stack' \in Seq(Nat \X Nat) /\ Remembered'
  <2>1. CASE UNCHANGED isearch_stack
    BY <1>1, <2>1 DEF PathInv, SearchTypes, Remembered
  <2>2. CASE Push(Len(t))
    BY <1>1, <2>2, PathPush, LenProperties DEF Push
  <2> QED BY <2>1, <2>2
<1>3. WalkOK' /\ SearchTypes' /\ wrapped_isearch' \in BOOLEAN
  BY <1>2, PathSearch DEF PathInv
<1> QED BY <1>1, <1>2, <1>3 DEF PathInv

LEMMA PathBackspace ==
  ASSUME PathInv, Backspace
  PROVE  PathInv'
<1> DEFINE S == isearch_stack
<1>1. /\ Searching /\ Idle /\ UNCHANGED <<fixed, direction, search_string, start>>
      /\ UNCHANGED <<wrapped_isearch, previous_isearch_failed, cursor>>
  BY DEF Backspace, AtKey
<1>2. /\ listed' = listed /\ sort_method' = sort_method /\ entries' = entries
      /\ current_entry' = current_entry
  BY <1>1 DEF fixed, entries, cursor
<1>3. /\ WalkOK /\ SearchTypes /\ Remembered /\ S \in Seq(Nat \X Nat) /\ isearch_length \in Nat
      /\ current_entry \in Nat /\ current_entry < entries /\ todo = 0
  BY <1>1 DEF PathInv, SearchTypes, WalkOK, Idle
<1>4. entries \in Nat
  BY <1>3, ListingFinite DEF WalkOK, Listings, entries
<1>5. S # <<>> => /\ Len(S) > 0 /\ S[Len(S)][1] \in Nat /\ S[Len(S)][1] < entries
                  /\ Popped(S) \in Seq(Nat \X Nat) /\ Len(Popped(S)) = Len(S) - 1
                  /\ \A i \in 1 .. Len(S) - 1 : Popped(S)[i] = S[i]
  <2> SUFFICES ASSUME S # <<>>
               PROVE  /\ Len(S) > 0 /\ S[Len(S)][1] \in Nat /\ S[Len(S)][1] < entries
                      /\ Popped(S) \in Seq(Nat \X Nat) /\ Len(Popped(S)) = Len(S) - 1
                      /\ \A i \in 1 .. Len(S) - 1 : Popped(S)[i] = S[i]
    OBVIOUS
  <2>1. Len(S) \in Nat /\ Len(S) > 0
    BY <1>3, EmptySeq, LenProperties
  <2>2. Len(S) \in 1 .. Len(S)
    BY <2>1
  <2>3. S[Len(S)][1] \in Nat /\ S[Len(S)][1] < entries
    BY <1>3, <2>2, RecordTypes DEF Remembered
  <2>4. /\ Popped(S) \in Seq(Nat \X Nat) /\ Len(Popped(S)) = Len(S) - 1
        /\ \A i \in 1 .. Len(S) - 1 : Popped(S)[i] = S[i]
    BY <1>3, <2>1, PoppedIs
  <2> QED BY <2>1, <2>3, <2>4
<1> DEFINE rest == IF S # <<>> THEN Popped(S) ELSE <<>>
<1>6. rest \in Seq(Nat \X Nat) /\ \A i \in 1 .. Len(rest) : rest[i][1] < entries
  <2>1. CASE S = <<>>
    <3>1. rest = <<>> /\ Len(<<>>) = 0 /\ <<>> \in Seq(Nat \X Nat)
      BY <2>1, EmptySeq
    <3>2. ~\E i \in 1 .. Len(<<>>) : TRUE
      BY <3>1
    <3> HIDE DEF rest
    <3> QED BY <3>1, <3>2
  <2>2. CASE S # <<>>
    <3>1. rest = Popped(S)
      BY <2>2
    <3>2. \A i \in 1 .. Len(S) - 1 : i \in 1 .. Len(S)
      BY <1>3, LenProperties
    <3> HIDE DEF rest
    <3> QED BY <1>3, <1>5, <2>2, <3>1, <3>2 DEF Remembered
  <2> QED BY <2>1, <2>2
<1>7. rest # <<>> => rest[Len(rest)][2] \in Nat
  <2> HIDE DEF rest
  <2> SUFFICES ASSUME rest # <<>> PROVE rest[Len(rest)][2] \in Nat
    OBVIOUS
  <2>1. Len(rest) \in 1 .. Len(rest)
    BY <1>6, EmptySeq, LenProperties
  <2> QED BY <1>6, <2>1, RecordTypes
<1>8. /\ isearch_stack' = rest
      /\ text' = Adjusted(text, isearch_length', resuming_previous_isearch)
      /\ resuming_previous_isearch' = StillResuming(isearch_length', resuming_previous_isearch)
      /\ \/ isearch_length' = isearch_length /\ todo' = todo
         \/ /\ \E e \in IF S # <<>> THEN {S[Len(S)][1]} ELSE 0 .. entries - 1 :
                  todo' = e - current_entry
            /\ isearch_length' \in IF rest # <<>> THEN {rest[Len(rest)][2]} ELSE 0 .. MaxText
  BY DEF Backspace, Popped, WalkTo
<1> HIDE DEF rest
<1>9. isearch_length' \in Nat
  BY <1>3, <1>7, <1>8, ISearchAssumption
<1>10. todo' \in Int /\ current_entry + todo' \in Nat /\ current_entry + todo' < entries
  <2>1. CASE todo' = todo
    BY <1>3, <2>1
  <2>2. CASE \E e \in IF S # <<>> THEN {S[Len(S)][1]} ELSE 0 .. entries - 1 : todo' = e - current_entry
    <3>1. PICK e : /\ e \in IF S # <<>> THEN {S[Len(S)][1]} ELSE 0 .. entries - 1
                   /\ todo' = e - current_entry
      BY <2>2
    <3>2. e \in Nat /\ e < entries
      BY <1>4, <1>5, <3>1
    <3> QED BY <1>3, <3>1, <3>2
  <2> QED BY <1>8, <2>1, <2>2
<1>11. WalkOK'
  BY <1>2, <1>3, <1>10 DEF WalkOK
<1>12. SearchTypes'
  <2>1. text' \in Seq(Letter) /\ resuming_previous_isearch' \in BOOLEAN
    BY <1>3, <1>8, <1>9, AdjustedIs DEF SearchTypes
  <2> QED BY <1>1, <1>3, <1>6, <1>8, <1>9, <2>1 DEF SearchTypes
<1>13. Remembered'
  BY <1>2, <1>6, <1>8 DEF Remembered
<1> QED BY <1>1, <1>2, <1>11, <1>12, <1>13 DEF PathInv

LEMMA PathWalk ==
  ASSUME PathInv, Steps, UNCHANGED svars
  PROVE  PathInv'
<1>1. /\ direction' = direction /\ search_string' = search_string /\ isearch_stack' = isearch_stack
      /\ text' = text /\ isearch_length' = isearch_length /\ start' = start
      /\ previous_isearch_failed' = previous_isearch_failed /\ wrapped_isearch' = wrapped_isearch
      /\ resuming_previous_isearch' = resuming_previous_isearch
  BY DEF svars, loop
<1>2. WalkOK' /\ entries' = entries
  BY WalkGoesOn DEF PathInv
<1>3. SearchTypes'
  BY <1>1 DEF PathInv, SearchTypes
<1> QED BY <1>1, <1>2, <1>3 DEF PathInv, Remembered

LEMMA PathInvStep == PathInv /\ [SearchNext]_allVars => PathInv'
<1> SUFFICES ASSUME PathInv, [SearchNext]_allVars PROVE PathInv'
  OBVIOUS
<1>1. /\ text \in Seq(Letter) /\ search_string \in Seq(Letter) /\ wrapped_isearch \in BOOLEAN
      /\ previous_isearch_failed \in BOOLEAN /\ resuming_previous_isearch \in BOOLEAN
      /\ isearch_length \in Nat /\ isearch_stack \in Seq(Nat \X Nat)
  BY DEF PathInv, SearchTypes
<1>2. <<>> \in Seq(Letter) /\ <<>> \in Seq(Nat \X Nat)
  BY EmptySeq
<1>3. CASE \E d \in {"forward", "backward"} : Begin(d)
  <2>1. PICK d \in {"forward", "backward"} : Begin(d)
    BY <1>3
  <2>2. /\ direction' = d /\ text' = <<>> /\ start' = current_entry
        /\ isearch_stack' = <<<<current_entry, 0>>>> /\ isearch_length' = 0
        /\ wrapped_isearch' = FALSE /\ previous_isearch_failed' = FALSE
        /\ resuming_previous_isearch' = FALSE /\ search_string' = search_string
    BY <2>1 DEF Begin
  <2>3. WalkOK' /\ entries' = entries
    BY <2>1 DEF Begin, PathInv, WalkOK, entries, vars, cursor
  <2>4. current_entry \in Nat /\ current_entry < entries /\ entries \in Nat
    BY ListingFinite DEF PathInv, WalkOK, Listings, entries
  <2>5. isearch_stack' \in Seq(Nat \X Nat) /\ \A i \in 1 .. Len(isearch_stack') : isearch_stack'[i][1] < entries'
    BY <2>2, <2>3, <2>4
  <2>6. SearchTypes'
    BY <1>1, <1>2, <2>2, <2>5 DEF SearchTypes
  <2>7. wrapped_isearch' \in BOOLEAN /\ start' \in Nat /\ start' <= entries'
    <3>1. start' = current_entry /\ wrapped_isearch' = FALSE
      BY <2>2
    <3>2. start' \in Nat /\ start' <= entries'
      BY <2>3, <2>4, <3>1
    <3> QED BY <3>1, <3>2
  <2>8. Remembered'
    BY <2>5 DEF Remembered
  <2> QED BY <2>3, <2>6, <2>7, <2>8 DEF PathInv
<1>4. CASE \E c \in Letter : TypeChar(c)
  <2>1. PICK c \in Letter : TypeChar(c)
    BY <1>4
  <2>2. Append(text, c) \in Seq(Letter)
    BY <1>1, AppendProperties
  <2> QED BY <1>1, <2>1, <2>2, PathKey DEF TypeChar, AtKey, Increase
<1>5. CASE SearchAgainEmpty
  BY <1>1, <1>2, <1>5, PathKey DEF SearchAgainEmpty, AtKey, Increase
<1>6. CASE Resume
  BY <1>1, <1>6, PathKey DEF Resume, AtKey
<1>7. CASE Retry
  <2> DEFINE wrapped == previous_isearch_failed \/ wrapped_isearch
             from    == IF wrapped THEN Edge ELSE After
  <2>1. /\ Idle /\ UNCHANGED <<fixed, direction, search_string, start>>
        /\ UNCHANGED isearch_stack \/ Push(Len(text))
        /\ Search(text, from, wrapped, resuming_previous_isearch, FALSE)
    BY <1>7 DEF Retry, AtKey
  <2>2. wrapped \in BOOLEAN
    BY <1>1
  <2> HIDE DEF wrapped, from
  <2> QED BY <1>1, <2>1, <2>2, PathKey
<1>8. CASE Backspace
  BY <1>8, PathBackspace
<1>9. CASE BackspaceEmpty
  <2>1. /\ UNCHANGED <<fixed, direction, search_string, start>>
        /\ text' = Adjusted(search_string, isearch_length, TRUE)
        /\ resuming_previous_isearch' = StillResuming(isearch_length, TRUE)
        /\ previous_isearch_failed' = FALSE
        /\ UNCHANGED <<isearch_stack, isearch_length, wrapped_isearch, cursor, todo>>
    BY <1>9 DEF BackspaceEmpty, AtKey
  <2>2. WalkOK' /\ entries' = entries
    BY <2>1 DEF PathInv, WalkOK, entries, fixed, cursor
  <2>3. text' \in Seq(Letter) /\ resuming_previous_isearch' \in BOOLEAN
    BY <1>1, <2>1, AdjustedIs
  <2>4. SearchTypes'
    BY <1>1, <2>1, <2>3 DEF PathInv, SearchTypes
  <2> QED BY <2>1, <2>2, <2>4 DEF PathInv, Remembered
<1>10. CASE EndSearch
  <2>1. /\ direction' = "off" /\ search_string' = text /\ isearch_stack' = <<>>
        /\ UNCHANGED <<text, isearch_length, wrapped_isearch, previous_isearch_failed>>
        /\ UNCHANGED <<resuming_previous_isearch, start>>
    BY <1>10 DEF EndSearch
  <2>2. WalkOK' /\ entries' = entries
    BY <1>10 DEF EndSearch, PathInv, WalkOK, entries, vars, cursor
  <2>3. SearchTypes'
    BY <1>1, <1>2, <2>1 DEF SearchTypes
  <2>4. ~\E i \in 1 .. Len(isearch_stack') : TRUE
    BY <2>1
  <2> QED BY <2>1, <2>2, <2>3, <2>4 DEF PathInv, Remembered
<1>11. CASE Steps /\ UNCHANGED svars
  BY <1>11, PathWalk
<1>12. CASE UNCHANGED allVars
  <2>1. /\ UNCHANGED <<direction, text, isearch_stack, isearch_length, search_string, start>>
        /\ UNCHANGED <<previous_isearch_failed, resuming_previous_isearch, wrapped_isearch>>
        /\ UNCHANGED <<listed, sort_method, current_entry, todo>>
    BY <1>12 DEF allVars, svars, loop, vars, cursor
  <2>2. WalkOK' /\ SearchTypes' /\ entries' = entries
    BY <2>1 DEF PathInv, WalkOK, SearchTypes, entries
  <2> QED BY <2>1, <2>2 DEF PathInv, Remembered
<1> QED BY <1>3, <1>4, <1>5, <1>6, <1>7, <1>8, <1>9, <1>10, <1>11, <1>12 DEF SearchNext, SearchKey

LEMMA SearchWindowStep ==
  ASSUME PathInv', TypeOK, WindowInv, [SearchNext]_allVars
  PROVE  TypeOK' /\ WindowInv'
<1>1. /\ entries \in Nat /\ entries > 0
      /\ plines \in Sizes /\ plines \in Nat /\ scroll_step \in Nat
      /\ current_entry \in Int /\ first_on_screen \in Int /\ todo \in Int
      /\ 0 <= current_entry /\ current_entry < entries /\ 0 <= first_on_screen
  <2>1. entries \in Nat /\ entries > 0
    BY ListingFinite DEF TypeOK, Listings, entries
  <2>2. plines \in Sizes /\ plines \in Nat
    BY PanelAssumption DEF TypeOK
  <2> QED BY <2>1, <2>2 DEF TypeOK, WindowInv, CursorInWindow
<1>2. CASE UNCHANGED allVars
  <2>1. UNCHANGED vars
    BY <1>2 DEF allVars
  <2>2. WindowInv'
    BY <2>1, WindowStep
  <2>3. TypeOK'
    BY <2>1 DEF vars, TypeOK, cursor, marks, size
  <2> QED BY <2>2, <2>3
<1>3. CASE Steps
  <2>1. WindowInv'
    BY <1>3, WindowStep DEF Next, Move
  <2>2. TypeOK'
    <3>1. StepDown => TypeOK'
      BY <1>1 DEF StepDown, TypeOK, cursor, marks, size, Lines, Lesser
    <3>2. StepUp => TypeOK'
      BY <1>1 DEF StepUp, TypeOK, cursor, marks, size, Greater
    <3> QED BY <1>3, <3>1, <3>2 DEF Steps
  <2> QED BY <2>1, <2>2
<1>4. CASE UNCHANGED fixed /\ (UNCHANGED cursor \/ SetCurrentEntry(current_entry'))
  <2>1. /\ listed' = listed /\ sort_method' = sort_method /\ UNCHANGED marks /\ UNCHANGED size
        /\ entries' = entries
    BY <1>4 DEF fixed, entries
  <2>2. current_entry' \in Nat /\ current_entry' < entries /\ todo' \in Int
    BY <2>1 DEF PathInv, WalkOK
  <2>3. first_on_screen' \in Int /\ InWindow(plines, first_on_screen', current_entry', entries)
    <3>1. CASE UNCHANGED cursor
      BY <1>1, <3>1, WindowInvAlt DEF cursor
    <3>2. CASE SetCurrentEntry(current_entry')
      <4>1. PICK i \in Nat : i = current_entry'
        BY <2>2
      <4>2. first_on_screen' = Fos(plines, first_on_screen, i, entries) /\ i < entries
        BY <2>2, <3>2, <4>1 DEF SetCurrentEntry
      <4>3. /\ Fos(plines, first_on_screen, i, entries) \in Int
            /\ InWindow(plines, Fos(plines, first_on_screen, i, entries), i, entries)
        BY <1>1, <4>2, FosBounds
      <4> QED BY <4>1, <4>2, <4>3
    <3> QED BY <1>4, <3>1, <3>2
  <2>4. TypeOK'
    BY <2>1, <2>2, <2>3 DEF TypeOK, marks, size
  <2>5. CursorInWindow'
    BY <2>1, <2>2, <2>3 DEF CursorInWindow, InWindow, Lines, size
  <2>6. StepFits'
    BY <2>1 DEF WindowInv, StepFits, size
  <2> QED BY <2>4, <2>5, <2>6 DEF WindowInv
<1> QED BY <1>2, <1>3, <1>4, SearchCursor

LEMMA SearchWindowInit == SearchInit => TypeOK /\ WindowInv
<1> SUFFICES ASSUME SearchInit PROVE TypeOK /\ WindowInv
  OBVIOUS
<1>1. /\ entries \in Nat /\ plines \in Sizes /\ plines \in Nat
      /\ current_entry \in Int /\ 0 <= current_entry /\ current_entry < entries
      /\ scroll_step = StepFor(plines)
  <2>1. listed \in Listings /\ plines \in Sizes
    BY DEF SearchInit
  <2>2. entries \in Nat /\ plines \in Nat
    BY <2>1, ListingFinite, PanelAssumption DEF Listings, entries
  <2>3. current_entry \in 0 .. entries - 1 /\ scroll_step = StepFor(plines)
    BY DEF SearchInit
  <2> QED BY <2>1, <2>2, <2>3
<1>2. first_on_screen \in Int /\ InWindow(plines, first_on_screen, current_entry, entries)
  <2>1. first_on_screen = CenteredFos(plines, current_entry, entries)
    BY DEF SearchInit
  <2> QED BY <1>1, <2>1, CenteredBounds
<1>3. StepFits
  BY <1>1, StepForFits DEF StepFits
<1>4. WindowInv
  BY <1>1, <1>2, <1>3, WindowInvAlt
<1>5. TypeOK
  <2>1. scroll_step \in Nat
    BY <1>1, PanelAssumption DEF StepFor
  <2>2. miscounted \in BOOLEAN
    BY Zenon DEF SearchInit
  <2> QED BY <1>1, <1>2, <2>1, <2>2 DEF SearchInit, TypeOK
<1> QED BY <1>4, <1>5

LEMMA SearchTyped == SearchSpec => [](PathInv /\ TypeOK /\ WindowInv)
<1>1. SearchInit => PathInv /\ TypeOK /\ WindowInv
  BY PathInvInit, SearchWindowInit
<1>2. PathInv /\ TypeOK /\ WindowInv /\ [SearchNext]_allVars => (PathInv /\ TypeOK /\ WindowInv)'
  BY PathInvStep, SearchWindowStep
<1> QED BY <1>1, <1>2, PTL DEF SearchSpec

(* The cursor stays on an entry and inside the window during a search too, *)
(* where it may jump (after a wrap) or walk to the entry that matches, or  *)
(* back to any entry that isearch_stack remembers, whatever is typed on a  *)
(* resumed text.                                                           *)
THEOREM SearchInWindow == SearchSpec => []CursorInWindow
<1>1. WindowInv => CursorInWindow
  BY DEF WindowInv
<1> QED BY <1>1, SearchTyped, PTL

(* Every entry on isearch_stack is one of the listing, and the text, the   *)
(* counted length and what the main loop remembers keep their types,       *)
(* whatever is typed on a resumed text.                                    *)
THEOREM SearchTypeCorrect == SearchSpec => []SearchTypeOK
<1>1. PathInv /\ TypeOK => SearchTypeOK
  <2> SUFFICES ASSUME PathInv, TypeOK PROVE SearchTypeOK
    OBVIOUS
  <2>1. /\ WalkOK /\ SearchTypes /\ Remembered /\ wrapped_isearch \in BOOLEAN
        /\ start \in Nat /\ start <= entries /\ isearch_stack \in Seq(Nat \X Nat)
    BY DEF PathInv, SearchTypes
  <2>2. entries \in Nat
    BY <2>1, ListingFinite DEF WalkOK, Listings, entries
  <2>3. \A i \in 1 .. Len(isearch_stack) : isearch_stack[i] \in (0 .. entries - 1) \X Nat
    <3> SUFFICES ASSUME NEW i \in 1 .. Len(isearch_stack)
                 PROVE  isearch_stack[i] \in (0 .. entries - 1) \X Nat
      OBVIOUS
    <3>1. isearch_stack[i] \in Nat \X Nat /\ isearch_stack[i][1] < entries
      BY <2>1, RecordTypes DEF Remembered
    <3>2. \A e \in Nat \X Nat : e[1] < entries => e \in (0 .. entries - 1) \X Nat
      BY <2>2
    <3> QED BY <3>1, <3>2
  <2>4. isearch_stack \in Seq((0 .. entries - 1) \X Nat)
    BY <2>1, <2>3, SeqDef
  <2>5. start \in 0 .. entries
    BY <2>1, <2>2
  <2> QED BY <2>1, <2>4, <2>5 DEF SearchTypeOK, SearchTypes
<1> QED BY <1>1, SearchTyped, PTL
=============================================================================
