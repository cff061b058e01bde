---------------------------- MODULE GitPsProofs ----------------------------
(***************************************************************************)
(* gitps for any set of processes and any heights of the terminal: the     *)
(* cursor stays on the list, and the window on the cursor.                 *)
(***************************************************************************)
EXTENDS GitPs, FiniteSetTheorems, SequenceTheorems, TLAPS

(* A step scrolls by at least a line and at most the window, once the      *)
(* terminal is high enough to show a process.                              *)
Inv ==
  /\ TypeOK /\ alive # {} /\ tty_lines \in Heights /\ scroll_step \in Nat
  /\ tty_lines >= 5 => 1 <= scroll_step /\ scroll_step <= tty_lines - 3

LEMMA MaxMin ==
  ASSUME NEW a \in Int, NEW b \in Int
  PROVE  /\ Max({a, b}) = IF a >= b THEN a ELSE b
         /\ Min({a, b}) = IF a <= b THEN a ELSE b
<1> DEFINE H == {a, b}
<1>1. \A x \in H : (\A y \in H : x >= y) <=> x = (IF a >= b THEN a ELSE b)
  OBVIOUS
<1>2. \A x \in H : (\A y \in H : x <= y) <=> x = (IF a <= b THEN a ELSE b)
  OBVIOUS
<1>3. (IF a >= b THEN a ELSE b) \in H /\ (IF a <= b THEN a ELSE b) \in H
  OBVIOUS
<1>4. Max(H) = IF a >= b THEN a ELSE b
  BY <1>1, <1>3 DEF Max
<1>5. Min(H) = IF a <= b THEN a ELSE b
  BY <1>2, <1>3 DEF Min
<1> QED BY <1>4, <1>5

(* The list that ps prints has a line for every process.                   *)
LEMMA SortedList ==
  ASSUME NEW P \in SUBSET Pid, P # {}
  PROVE  /\ Sorted(P) \in Seq(Pid) /\ Len(Sorted(P)) = Cardinality(P)
         /\ Cardinality(P) \in Nat /\ Cardinality(P) > 0
<1> DEFINE L(p) == {q \in P : q < p}
           N == Cardinality(P)
           I == 0 .. N - 1
           r == [p \in P |-> Cardinality(L(p))]
<1>0. Pid \subseteq Nat /\ IsFiniteSet(Pid)
  BY GitPsAssumption
<1>1. IsFiniteSet(P) /\ N \in Nat /\ N > 0
  <2>1. IsFiniteSet(P)
    BY <1>0, FS_Subset
  <2>2. N \in Nat /\ N # 0
    BY <2>1, FS_CardinalityType, FS_EmptySet
  <2> QED BY <2>1, <2>2
<1>3. \A p \in P : Cardinality(L(p)) \in I
  <2> SUFFICES ASSUME NEW p \in P PROVE Cardinality(L(p)) \in I
    OBVIOUS
  <2>1. L(p) \subseteq P \ {p}
    BY <1>0
  <2>2. IsFiniteSet(P \ {p}) /\ Cardinality(P \ {p}) = N - 1
    BY <1>1, FS_RemoveElement
  <2> HIDE DEF L
  <2>3. IsFiniteSet(L(p)) /\ Cardinality(L(p)) <= N - 1
    BY <2>1, <2>2, FS_Subset
  <2>4. Cardinality(L(p)) \in Nat
    BY <2>3, FS_CardinalityType
  <2> HIDE DEF N
  <2> QED BY <1>1, <2>3, <2>4
<1>4. ASSUME NEW p \in P, NEW q \in P, p < q
      PROVE  Cardinality(L(p)) < Cardinality(L(q))
  <2>1. L(p) \subseteq L(q) /\ p \in L(q) /\ p \notin L(p)
    <3>1. p \in Nat /\ q \in Nat /\ \A x \in P : x \in Nat
      BY <1>0
    <3>2. \A x \in P : x < p => x < q
      BY <1>4, <3>1
    <3>3. L(p) \subseteq L(q)
      BY <3>2
    <3>4. p \in L(q)
      BY <1>4
    <3>5. p \notin L(p)
      BY <3>1
    <3> QED BY <3>3, <3>4, <3>5
  <2>2. IsFiniteSet(L(p)) /\ IsFiniteSet(L(q))
    BY <1>1, FS_Subset
  <2> HIDE DEF L
  <2>3. L(p) \subseteq L(q) \ {p}
    BY <2>1
  <2>4. IsFiniteSet(L(q) \ {p}) /\ Cardinality(L(q) \ {p}) = Cardinality(L(q)) - 1
    BY <2>1, <2>2, FS_RemoveElement
  <2>5. Cardinality(L(p)) <= Cardinality(L(q) \ {p})
    BY <2>3, <2>4, FS_Subset
  <2>6. Cardinality(L(p)) \in Nat /\ Cardinality(L(q)) \in Nat
    BY <2>2, FS_CardinalityType
  <2> QED BY <2>4, <2>5, <2>6
<1>5. \A p, q \in P : r[p] = r[q] => p = q
  <2> SUFFICES ASSUME NEW p \in P, NEW q \in P, r[p] = r[q] PROVE p = q
    OBVIOUS
  <2>1. Cardinality(L(p)) = Cardinality(L(q)) /\ Cardinality(L(p)) \in Nat
    BY <1>3
  <2>2. ~(p < q) /\ ~(q < p)
    <3> HIDE DEF L
    <3> QED BY <1>4, <2>1
  <2>3. p \in Nat /\ q \in Nat
    BY <1>0
  <2> QED BY <2>2, <2>3
<1>6. r \in [P -> I]
  BY <1>3
<1>7. IsFiniteSet(I) /\ Cardinality(I) = N
  <2> HIDE DEF N
  <2> QED BY <1>1, FS_Interval
<1> HIDE DEF r, I
<1>8. r \in Injection(P, I)
  BY <1>5, <1>6 DEF Injection, IsInjective
<1>9. r \in Surjection(P, I)
  BY <1>7, <1>8, FS_Injection
<1>10. \A i \in 1 .. N : \E p \in P : Cardinality(L(p)) = i - 1
  <2> SUFFICES ASSUME NEW i \in 1 .. N PROVE \E p \in P : r[p] = i - 1
    BY DEF r
  <2>1. i - 1 \in I
    <3> HIDE DEF N
    <3> QED BY <1>1 DEF I
  <2> QED BY <1>9, <2>1 DEF Surjection
<1> DEFINE s == [i \in 1 .. N |-> CHOOSE p \in P : Cardinality(L(p)) = i - 1]
<1>11. Sorted(P) = s
  BY DEF Sorted
<1>12. \A i \in 1 .. N : s[i] \in Pid
  <2> HIDE DEF L, N
  <2> QED BY <1>10
<1> HIDE DEF N, L
<1>13. s \in [1 .. N -> Pid]
  BY <1>12
<1>14. s \in Seq(Pid) /\ Len(s) = N
  BY <1>1, <1>13
<1> QED BY <1>1, <1>11, <1>14 DEF N


Follows == pc = "key" /\ tty_lines >= 5 /\ InWindow => InWindow'

LEMMA Facts ==
  ASSUME Inv
  PROVE  /\ Len(ps_vect) \in Nat /\ current_process \in Nat /\ current_process < Len(ps_vect)
         /\ first_on_screen \in Nat /\ tty_lines \in Nat /\ tty_lines > 3 /\ scroll_step \in Nat
         /\ tty_lines >= 5 => scroll_step >= 1 /\ scroll_step <= tty_lines - 3
         /\ \A l \in Heights : l \in Nat /\ l > 3
         /\ StartupScrollStep \in Int
<1>1. /\ ps_vect \in Seq(Pid) /\ current_process \in 0 .. Len(ps_vect) - 1 /\ first_on_screen \in Nat
      /\ tty_lines \in Heights /\ scroll_step \in Nat
      /\ tty_lines >= 5 => scroll_step >= 1 /\ scroll_step <= tty_lines - 3
  BY DEF Inv, TypeOK, processes
<1>2. Len(ps_vect) \in Nat
  BY <1>1, LenProperties
<1>3. \A l \in Heights : l \in Nat /\ l > 3
  BY GitPsAssumption
<1>4. StartupScrollStep \in Int
  BY GitPsAssumption
<1> QED BY <1>1, <1>2, <1>3, <1>4

(* A move of the cursor and the window to within the list. *)
LEMMA MoveKeeps ==
  ASSUME Inv, NEW c \in Int, NEW f \in Int, Go(c, f),
         0 <= c, c < Len(ps_vect), 0 <= f,
         tty_lines >= 5 /\ InWindow => f <= c /\ c - f < tty_lines - 3
  PROVE  Inv' /\ Follows
<1>1. /\ current_process' = c /\ first_on_screen' = f /\ alive' = alive /\ ps_vect' = ps_vect
      /\ tty_lines' = tty_lines /\ scroll_step' = scroll_step /\ pc' = pc
  BY DEF Go, size
<1>2. Len(ps_vect) \in Nat /\ tty_lines \in Nat
  BY Facts
<1>3. c \in 0 .. Len(ps_vect) - 1 /\ f \in Nat
  BY <1>2
<1>4. Inv'
  BY <1>1, <1>3 DEF Inv, TypeOK, processes
<1>5. Follows
  <2> SUFFICES ASSUME tty_lines >= 5, InWindow PROVE InWindow'
    BY DEF Follows
  <2>1. c - f \in 0 .. tty_lines - 3 - 1
    BY <1>2, <1>3
  <2> QED BY <1>1, <2>1 DEF InWindow, Rows
<1> QED BY <1>4, <1>5

LEMMA CursorKeys ==
  ASSUME Inv,
         \/ PreviousLine \/ NextLine \/ ScrollDown \/ ScrollUp
         \/ BeginningOfList \/ EndOfList
  PROVE  Inv' /\ Follows
<1> DEFINE N == Len(ps_vect)
           c == current_process
           f == first_on_screen
           s == scroll_step
           R == tty_lines - 3
<1>1. /\ N \in Nat /\ c \in Nat /\ c < N /\ f \in Nat /\ R \in Nat /\ R > 0 /\ s \in Nat
      /\ tty_lines \in Nat
      /\ tty_lines >= 5 => s >= 1 /\ s <= R
  BY Facts
<1>2. InWindow => f <= c /\ c - f < R
  BY <1>1 DEF InWindow, Rows
<1>3. ASSUME NEW c2 \in Int, NEW f2 \in Int, Go(c2, f2), 0 <= c2, c2 < N, 0 <= f2,
             tty_lines >= 5 /\ InWindow => f2 <= c2 /\ c2 - f2 < R
      PROVE  Inv' /\ Follows
  BY <1>3, MoveKeeps
<1>4. ASSUME NEW a \in Int, NEW b \in Int
      PROVE  /\ Max({a, b}) = IF a >= b THEN a ELSE b
             /\ Min({a, b}) = IF a <= b THEN a ELSE b
  BY MaxMin
<1>5. CASE PreviousLine
  <2>1. PICK f2 : /\ Go(c - 1, f2) /\ c > 0
                  /\ f2 = IF c = f THEN Max({0, f - s}) ELSE f
    BY <1>5 DEF PreviousLine
  <2>2. f2 = IF c = f THEN (IF 0 >= f - s THEN 0 ELSE f - s) ELSE f
    BY <1>1, <1>4, <2>1
  <2> HIDE DEF N, c, f, s, R
  <2>3. /\ c - 1 \in Int /\ f2 \in Int /\ 0 <= c - 1 /\ c - 1 < N /\ 0 <= f2
        /\ tty_lines >= 5 /\ InWindow => f2 <= c - 1 /\ c - 1 - f2 < R
    BY <1>1, <1>2, <2>1, <2>2
  <2> QED BY <1>3, <2>1, <2>3
<1>6. CASE NextLine
  <2>1. PICK f2 : /\ Go(c + 1, f2) /\ c < N - 1
                  /\ f2 = IF c + 1 - f >= R THEN Min({f + s, N - R}) ELSE f
    BY <1>6 DEF NextLine, processes, Rows
  <2>2. f2 = IF c + 1 - f >= R THEN (IF f + s <= N - R THEN f + s ELSE N - R) ELSE f
    <3>1. f + s \in Int /\ N - R \in Int
      BY <1>1
    <3>2. Min({f + s, N - R}) = IF f + s <= N - R THEN f + s ELSE N - R
      BY <3>1, MaxMin
    <3> HIDE DEF N, c, f, s, R
    <3> QED BY <2>1, <3>2
  <2> DEFINE c2 == c + 1
  <2> HIDE DEF N, c, f, s, R
  <2>3. /\ c2 \in Int /\ f2 \in Int /\ 0 <= c2 /\ c2 < N /\ 0 <= f2
        /\ tty_lines >= 5 /\ InWindow => f2 <= c2 /\ c2 - f2 < R
    BY <1>1, <1>2, <2>1, <2>2
  <2>4. Go(c2, f2)
    BY <2>1
  <2> HIDE DEF c2
  <2> QED BY <1>3, <2>3, <2>4
<1>7. CASE ScrollDown
  <2>1. CASE c < R
    <3>1. Go(0, 0)
      BY <1>7, <2>1 DEF ScrollDown, Rows
    <3> HIDE DEF N, c, f, s, R
    <3>2. 0 < N /\ 0 - 0 < R
      BY <1>1
    <3> QED BY <1>3, <3>1, <3>2
  <2>2. CASE ~(c < R)
    <3>1. PICK f2 : Go(c - R, f2) /\ f2 = Max({0, f - R})
      BY <1>7, <2>2 DEF ScrollDown, Rows
    <3>2. f2 = IF 0 >= f - R THEN 0 ELSE f - R
      BY <1>1, <1>4, <3>1
    <3> HIDE DEF N, c, f, s, R
    <3>3. /\ c - R \in Int /\ f2 \in Int /\ 0 <= c - R /\ c - R < N /\ 0 <= f2
          /\ tty_lines >= 5 /\ InWindow => f2 <= c - R /\ c - R - f2 < R
      BY <1>1, <1>2, <2>2, <3>2
    <3> QED BY <1>3, <3>1, <3>3
  <2> QED BY <2>1, <2>2
<1>8. CASE ScrollUp
  <2>1. CASE N - 1 - f < R
    <3>1. Go(N - 1, f)
      BY <1>8, <2>1 DEF ScrollUp, Rows, processes
    <3> HIDE DEF N, c, f, s, R
    <3>2. /\ N - 1 \in Int /\ f \in Int /\ 0 <= N - 1 /\ N - 1 < N /\ 0 <= f
          /\ tty_lines >= 5 /\ InWindow => f <= N - 1 /\ N - 1 - f < R
      BY <1>1, <1>2, <2>1
    <3> QED BY <1>3, <3>1, <3>2
  <2>2. CASE ~(N - 1 - f < R) /\ N - 1 - c < R
    <3>1. Go(N - 1, N - R)
      BY <1>8, <2>2 DEF ScrollUp, Rows, processes
    <3> HIDE DEF N, c, f, s, R
    <3>2. /\ N - 1 \in Int /\ N - R \in Int /\ 0 <= N - 1 /\ N - 1 < N /\ 0 <= N - R
          /\ tty_lines >= 5 /\ InWindow => N - R <= N - 1 /\ N - 1 - (N - R) < R
      BY <1>1, <1>2, <2>2
    <3> QED BY <1>3, <3>1, <3>2
  <2>3. CASE ~(N - 1 - f < R) /\ ~(N - 1 - c < R)
    <3>1. PICK f2 : Go(c + R, f2) /\ f2 = Min({f + R, N - R})
      BY <1>8, <2>3 DEF ScrollUp, Rows, processes
    <3>2. f2 = IF f + R <= N - R THEN f + R ELSE N - R
      <4>1. f + R \in Int /\ N - R \in Int
        BY <1>1
      <4>2. Min({f + R, N - R}) = IF f + R <= N - R THEN f + R ELSE N - R
        BY <4>1, MaxMin
      <4> HIDE DEF N, c, f, s, R
      <4> QED BY <3>1, <4>2
    <3> DEFINE c2 == c + R
    <3> HIDE DEF N, c, f, s, R
    <3>3. /\ c2 \in Int /\ f2 \in Int /\ 0 <= c2 /\ c2 < N /\ 0 <= f2
          /\ tty_lines >= 5 /\ InWindow => f2 <= c2 /\ c2 - f2 < R
      BY <1>1, <1>2, <2>3, <3>2
    <3>4. Go(c2, f2)
      BY <3>1
    <3> HIDE DEF c2
    <3> QED BY <1>3, <3>3, <3>4
  <2> QED BY <2>1, <2>2, <2>3
<1>9. CASE BeginningOfList
  <2>1. Go(0, 0)
    BY <1>9 DEF BeginningOfList
  <2> HIDE DEF N, c, f, s, R
  <2>2. 0 < N /\ 0 - 0 < R
    BY <1>1
  <2> QED BY <1>3, <2>1, <2>2
<1>10. CASE EndOfList
  <2>1. PICK f2 : Go(N - 1, f2) /\ f2 = Max({0, N - R})
    BY <1>10 DEF EndOfList, Rows, processes
  <2>2. f2 = IF 0 >= N - R THEN 0 ELSE N - R
    BY <1>1, <1>4, <2>1
  <2> HIDE DEF N, c, f, s, R
  <2>3. /\ N - 1 \in Int /\ f2 \in Int /\ 0 <= N - 1 /\ N - 1 < N /\ 0 <= f2
        /\ tty_lines >= 5 /\ InWindow => f2 <= N - 1 /\ N - 1 - f2 < R
    BY <1>1, <2>2
  <2> QED BY <1>3, <2>1, <2>3
<1> QED BY <1>5, <1>6, <1>7, <1>8, <1>9, <1>10


(* The step that resize and the start choose for a terminal with a list.   *)
LEMMA StepFits ==
  ASSUME NEW l \in Nat, l >= 5, StartupScrollStep \in Int,
         NEW s, s = IF StartupScrollStep <= 0 \/ StartupScrollStep >= l - 4
                    THEN (l - 3) \div 2 ELSE StartupScrollStep
  PROVE  s \in Nat /\ 1 <= s /\ s <= l - 3
OBVIOUS

LEMMA Resizes ==
  ASSUME Inv, NEW l \in Heights, Resize(l)
  PROVE  Inv' /\ Follows
<1> DEFINE c == current_process
           f2 == IF 0 >= c - (l - 3) + 1 THEN 0 ELSE c - (l - 3) + 1
<1>1. /\ Len(ps_vect) \in Nat /\ c \in Nat /\ c < Len(ps_vect) /\ l \in Nat /\ l > 3
      /\ StartupScrollStep \in Int /\ scroll_step \in Nat
  BY Facts
<1>2. /\ tty_lines' = l /\ current_process' = c /\ ps_vect' = ps_vect /\ alive' = alive /\ pc' = pc
      /\ first_on_screen' = Max({0, c - (l - 3) + 1})
      /\ scroll_step' = IF l < 5 THEN scroll_step
                         ELSE IF StartupScrollStep <= 0 \/ StartupScrollStep >= l - 4
                              THEN (l - 3) \div 2 ELSE StartupScrollStep
  BY DEF Resize
<1>3. first_on_screen' = f2
  <2>1. c - (l - 3) + 1 \in Int
    BY <1>1
  <2>2. Max({0, c - (l - 3) + 1}) = f2
    BY <2>1, MaxMin
  <2> QED BY <1>2, <2>2
<1>4. scroll_step' \in Nat /\ (l >= 5 => 1 <= scroll_step' /\ scroll_step' <= l - 3)
  <2>1. CASE l < 5
    BY <1>1, <1>2, <2>1
  <2>2. CASE l >= 5
    <3>1. scroll_step' = IF StartupScrollStep <= 0 \/ StartupScrollStep >= l - 4
                          THEN (l - 3) \div 2 ELSE StartupScrollStep
      BY <1>1, <1>2, <2>2
    <3> QED BY <1>1, <2>2, <3>1, StepFits
  <2> QED BY <1>1, <2>1, <2>2
<1>5. f2 \in Nat /\ c - f2 \in 0 .. l - 3 - 1
  BY <1>1
<1> HIDE DEF f2
<1>6. Inv'
  BY <1>2, <1>3, <1>4, <1>5 DEF Inv, TypeOK, processes
<1>7. Follows
  BY <1>2, <1>3, <1>5 DEF Follows, InWindow, Rows
<1> QED BY <1>6, <1>7

LEMMA Rereads ==
  ASSUME Inv, Reread
  PROVE  Inv' /\ Follows
<1> DEFINE c == current_process
           N == Cardinality(alive)
           c2 == IF c <= N - 1 THEN c ELSE N - 1
<1>1. /\ pc = "reread" /\ pc' = "key" /\ ps_vect' = Sorted(alive)
      /\ c' = Min({c, Cardinality(alive) - 1})
      /\ alive' = alive /\ first_on_screen' = first_on_screen
      /\ tty_lines' = tty_lines /\ scroll_step' = scroll_step
  BY DEF Reread, size
<1>2. alive \in SUBSET Pid /\ alive # {} /\ c \in Nat
  BY Facts DEF Inv, TypeOK
<1>3. /\ ps_vect' \in Seq(Pid) /\ Len(ps_vect') = N
      /\ N \in Nat /\ N > 0
  BY <1>1, <1>2, SortedList
<1>4. c' = c2
  <2>1. N - 1 \in Int /\ c \in Int
    BY <1>2, <1>3
  <2>2. Min({c, N - 1}) = c2
    BY <2>1, MaxMin
  <2> QED BY <1>1, <1>3, <2>2
<1>5. c2 \in 0 .. N - 1
  <2> HIDE DEF c, N
  <2> QED BY <1>2, <1>3
<1> HIDE DEF N, c2
<1>6. Inv'
  BY <1>1, <1>3, <1>4, <1>5 DEF Inv, TypeOK, processes
<1>7. Follows
  BY <1>1 DEF Follows
<1> QED BY <1>6, <1>7

LEMMA OtherSteps ==
  ASSUME Inv,
         \/ Refresh \/ Kill \/ Exit \/ \E p \in Pid : Others(p)
         \/ UNCHANGED vars
  PROVE  Inv' /\ Follows
<1>1. /\ ps_vect' = ps_vect /\ current_process' = current_process
      /\ first_on_screen' = first_on_screen /\ tty_lines' = tty_lines /\ scroll_step' = scroll_step
  BY DEF Refresh, Kill, Exit, Others, vars, cursor, size
<1>2. alive \subseteq Pid /\ alive # {} /\ pc \in {"key", "reread", "end"}
  BY DEF Inv, TypeOK
<1>3. alive' \subseteq Pid /\ alive' # {} /\ pc' \in {"key", "reread", "end"}
  <2>1. CASE Refresh
    BY <1>2, <2>1 DEF Refresh
  <2>2. CASE Kill
    <3>1. alive' \in {alive, alive \ {Target}} \ {{}} /\ pc' \in {"key", "reread"}
      BY <2>2 DEF Kill
    <3> QED BY <1>2, <3>1
  <2>3. CASE Exit
    BY <1>2, <2>3 DEF Exit
  <2>4. CASE \E p \in Pid : Others(p)
    <3>1. PICK p \in Pid : Others(p)
      BY <2>4
    <3>2. pc' = pc
      BY <3>1 DEF Others
    <3>3. alive' \subseteq Pid /\ alive' # {}
      BY <1>2, <3>1 DEF Others, Fork, Ends
    <3> QED BY <1>2, <3>2, <3>3
  <2>5. CASE UNCHANGED vars
    BY <1>2, <2>5 DEF vars
  <2> QED BY <2>1, <2>2, <2>3, <2>4, <2>5
<1>4. Inv'
  BY <1>1, <1>3 DEF Inv, TypeOK, processes
<1>5. Follows
  BY <1>1 DEF Follows, InWindow, Rows
<1> QED BY <1>4, <1>5

LEMMA InvInit == ASSUME Init PROVE Inv
<1>1. /\ alive \in SUBSET Pid /\ alive # {} /\ ps_vect = Sorted(alive)
      /\ current_process = 0 /\ first_on_screen = 0 /\ pc = "key"
      /\ tty_lines \in Heights /\ tty_lines >= 5
      /\ scroll_step = IF StartupScrollStep <= 0 \/ StartupScrollStep >= tty_lines - 4
                        THEN (tty_lines - 3) \div 2 ELSE StartupScrollStep
  <2>1. alive \in SUBSET Pid /\ alive # {}
    BY DEF Init
  <2>2. ps_vect = Sorted(alive)
    BY DEF Init
  <2>3. current_process = 0 /\ first_on_screen = 0 /\ pc = "key"
    BY DEF Init
  <2>4. tty_lines \in Heights /\ tty_lines >= 5
    BY DEF Init
  <2>5. scroll_step = IF StartupScrollStep <= 0 \/ StartupScrollStep >= tty_lines - 4
                       THEN (tty_lines - 3) \div 2 ELSE StartupScrollStep
    BY DEF Init
  <2> QED BY <2>1, <2>2, <2>3, <2>4, <2>5
<1>2. /\ ps_vect \in Seq(Pid) /\ Len(ps_vect) = Cardinality(alive)
      /\ Cardinality(alive) \in Nat /\ Cardinality(alive) > 0
  BY <1>1, SortedList
<1>3. tty_lines \in Nat /\ StartupScrollStep \in Int
  BY <1>1, GitPsAssumption
<1>4. scroll_step \in Nat /\ 1 <= scroll_step /\ scroll_step <= tty_lines - 3
  BY <1>1, <1>3, StepFits
<1>5. 0 \in 0 .. Len(ps_vect) - 1
  BY <1>2
<1> QED BY <1>1, <1>2, <1>4, <1>5 DEF Inv, TypeOK, processes

LEMMA InvStep == Inv /\ [Next]_vars => Inv' /\ Follows
<1> SUFFICES ASSUME Inv, [Next]_vars PROVE Inv' /\ Follows
  OBVIOUS
<1>1. CASE \/ PreviousLine \/ NextLine \/ ScrollDown \/ ScrollUp
           \/ BeginningOfList \/ EndOfList
  BY <1>1, CursorKeys
<1>2. CASE \E l \in Heights : Resize(l)
  BY <1>2, Resizes
<1>3. CASE Reread
  BY <1>3, Rereads
<1>4. CASE \/ Refresh \/ Kill \/ Exit \/ \E p \in Pid : Others(p)
           \/ UNCHANGED vars
  BY <1>4, OtherSteps
<1> QED BY <1>1, <1>2, <1>3, <1>4 DEF Next

(* In gitps the cursor is always on a process of the list, so that the     *)
(* assertions of update_process and kill_process hold.  Assumed: terminals *)
(* of at least four lines (GitPsAssumption); on fewer, scrolling by a page *)
(* leaves the list.                                                        *)
THEOREM CursorInList == Spec => []TypeOK
<1>1. Init => Inv
  BY InvInit
<1>2. Inv /\ [Next]_vars => Inv'
  BY InvStep
<1>3. Inv => TypeOK
  BY DEF Inv
<1> QED BY <1>1, <1>2, <1>3, PTL DEF Spec

(* Whatever key moves the cursor of gitps or changes the size of the       *)
(* terminal, the window follows, so that the process a signal goes to is   *)
(* one that is displayed.  Assumed: terminals of at least four lines.      *)
THEOREM WindowFollows == Spec => CursorStaysInWindow
<1>1. Init => Inv
  BY InvInit
<1>2. Inv /\ [Next]_vars => Inv' /\ [Follows]_vars
  BY InvStep
<1>3. Spec => [][Follows]_vars
  BY <1>1, <1>2, PTL DEF Spec
<1> QED BY <1>3 DEF Follows, CursorStaysInWindow
=============================================================================
