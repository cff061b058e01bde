--------------------------- MODULE InputLineProofs --------------------------
(***************************************************************************)
(* The input line for all characters, prompts, texts and sizes.  A user    *)
(* who runs a command on a mark that has come to lie outside the text      *)
(* (AnyMark) can cut the prompt, so the theorems are about the others.     *)
(* The command history that il_history walks through is at the end.        *)
(***************************************************************************)
EXTENDS InputLine, History, FiniteSetTheorems, WellFoundedInduction, SequenceTheorems, TLAPS

(* The inductive invariant: all three need one another, because an edit    *)
(* spares the prompt if the point is behind it, and shrinks the buffer to  *)
(* the length of the text that is left.                                    *)
LineOK == TypeOK /\ PromptIntact /\ PointInText /\ BufferFits

USE DEF length

-----------------------------------------------------------------------------
(* Least and greatest elements.                                            *)

LEMMA LeastOf ==
  ASSUME NEW S \in SUBSET Nat, S # {}
  PROVE  Min(S) \in S /\ \A y \in S : Min(S) <= y
<1> DEFINE X == {0 .. x : x \in S}
           R == StrictSubsetOrdering(Nat)
<1>1. X \subseteq FiniteSubsetsOf(Nat) /\ X # {}
  <2>1. \A x \in S : 0 .. x \in SUBSET Nat /\ IsFiniteSet(0 .. x)
    BY FS_Interval
  <2> QED BY <2>1 DEF FiniteSubsetsOf
<1>2. PICK t \in X : \A u \in X : <<u, t>> \notin R
  <2> HIDE DEF X, R
  <2>1. IsWellFoundedOn(R, FiniteSubsetsOf(Nat))
    BY FS_StrictSubsetOrderingWellFounded DEF R
  <2> QED BY <1>1, <2>1, WFMin
<1>3. PICK x \in S : t = 0 .. x
  BY <1>2
<1>4. ASSUME NEW y \in S PROVE x <= y
  <2>1. <<0 .. y, 0 .. x>> \notin R /\ 0 .. y \in SUBSET Nat /\ 0 .. x \in SUBSET Nat
    <3>1. 0 .. y \in X /\ 0 .. x \in SUBSET Nat /\ 0 .. y \in SUBSET Nat
      OBVIOUS
    <3> HIDE DEF X, R
    <3> QED BY <1>2, <1>3, <3>1
  <2>2. 0 .. y = 0 .. x \/ ~(0 .. y \subseteq 0 .. x)
    BY <2>1 DEF StrictSubsetOrdering
  <2>3. y < x => x \in 0 .. x /\ x \notin 0 .. y /\ 0 .. y \subseteq 0 .. x
    OBVIOUS
  <2> QED BY <2>2, <2>3
<1>5. \E z \in S : \A y \in S : z <= y
  BY <1>4
<1> QED BY <1>5 DEF Min

LEMMA GreatestOf ==
  ASSUME NEW n \in Nat, NEW S \in SUBSET (0 .. n), S # {}
  PROVE  Max(S) \in S /\ \A y \in S : Max(S) >= y
<1> DEFINE T == {n - x : x \in S}
<1>1. T \in SUBSET Nat /\ T # {}
  <2>1. \A x \in S : n - x \in Nat
    OBVIOUS
  <2> QED BY <2>1
<1>2. Min(T) \in T /\ \A y \in T : Min(T) <= y
  <2> HIDE DEF T
  <2> QED BY <1>1, LeastOf
<1>3. PICK x \in S : Min(T) = n - x
  BY <1>2
<1>4. \A y \in S : n - x <= n - y
  BY <1>2, <1>3
<1>5. \A y \in S : x >= y
  BY <1>4
<1> QED BY <1>5 DEF Max

(* Where a scan over the text stops.                                       *)
LEMMA FirstFromBounds ==
  ASSUME buf \in Seq(Char), NEW k \in 0 .. length, NEW S
  PROVE  FirstFrom(k, S) \in k .. length
<1> DEFINE T == {length} \cup {i \in k .. length - 1 : At(i) \in S}
<1>1. length \in Nat
  BY LenProperties
<1>2. T \in SUBSET Nat /\ T # {} /\ T \subseteq k .. length
  BY <1>1
<1> HIDE DEF T
<1>3. Min(T) \in T
  BY <1>2, LeastOf
<1> QED BY <1>2, <1>3 DEF FirstFrom, T

LEMMA LastBeforeBounds ==
  ASSUME static_length \in Nat, NEW k \in Nat, static_length <= k, NEW S
  PROVE  LastBefore(k, S) \in static_length .. k
<1> DEFINE T == {static_length} \cup {i \in static_length + 1 .. k : At(i - 1) \in S}
<1>1. T \in SUBSET (0 .. k) /\ T # {} /\ T \subseteq static_length .. k
  OBVIOUS
<1> HIDE DEF T
<1>2. Max(T) \in T
  BY <1>1, GreatestOf
<1> QED BY <1>1, <1>2 DEF LastBefore, T

LEMMA WordBounds ==
  ASSUME LineOK
  PROVE  ForwardWord(point) \in point .. length /\ BackwardWord(point) \in static_length .. point
<1>1. buf \in Seq(Char) /\ static_length \in Nat /\ point \in Nat /\ static_length <= point /\ point <= length
      /\ length \in Nat
  BY LenProperties DEF LineOK, TypeOK, PointInText, InDynamic
<1>2. ForwardWord(point) \in point .. length
  <2>1. FirstFrom(point, WordChar) \in point .. length
    BY <1>1, FirstFromBounds
  <2>2. FirstFrom(FirstFrom(point, WordChar), Separator) \in FirstFrom(point, WordChar) .. length
    BY <1>1, <2>1, FirstFromBounds
  <2> QED BY <1>1, <2>1, <2>2 DEF ForwardWord
<1>3. BackwardWord(point) \in static_length .. point
  <2>1. LastBefore(point, WordChar) \in static_length .. point
    BY <1>1, LastBeforeBounds
  <2>2. LastBefore(LastBefore(point, WordChar), Separator) \in static_length .. LastBefore(point, WordChar)
    BY <1>1, <2>1, LastBeforeBounds
  <2> QED BY <1>1, <2>1, <2>2 DEF BackwardWord
<1> QED BY <1>2, <1>3

-----------------------------------------------------------------------------
(* Replacing a piece of the line.                                          *)

Spliced(b, lo, t, hi) == SubSeq(b, 1, lo) \o t \o SubSeq(b, hi + 1, Len(b))

(* r is b with the characters lo + 1 .. hi replaced by t.                    *)
IsSplice(r, b, lo, t, hi) ==
  /\ r \in Seq(Char) /\ Len(r) = lo + Len(t) + Len(b) - hi
  /\ \A i \in 1 .. lo : r[i] = b[i]
  /\ \A i \in 1 .. Len(t) : r[lo + i] = t[i]
  /\ \A i \in 1 .. Len(b) - hi : r[lo + Len(t) + i] = b[hi + i]

(* Cutting at two places and joining around a text replaces what lies between them. *)
LEMMA Splice ==
  ASSUME NEW b \in Seq(Char), NEW t \in Seq(Char), NEW lo \in Nat, NEW hi \in Nat, lo <= hi, hi <= Len(b)
  PROVE  IsSplice(Spliced(b, lo, t, hi), b, lo, t, hi)
<1> DEFINE f == SubSeq(b, 1, lo)
           r == SubSeq(b, hi + 1, Len(b))
<1>0. Len(b) \in Nat /\ Len(t) \in Nat /\ \A i \in 1 .. Len(b) : b[i] \in Char
  BY LenProperties
<1>1. f \in Seq(Char) /\ Len(f) = lo /\ \A i \in 1 .. lo : f[i] = b[i]
  BY <1>0, SubSeqProperties
<1>2. r \in Seq(Char) /\ Len(r) = Len(b) - hi /\ \A i \in 1 .. Len(b) - hi : r[i] = b[hi + i]
  <2>1. \A i \in hi + 1 .. Len(b) : b[i] \in Char
    BY <1>0
  <2>2. /\ r \in Seq(Char) /\ Len(r) = (IF hi + 1 <= Len(b) THEN Len(b) - (hi + 1) + 1 ELSE 0)
        /\ \A i \in 1 .. Len(b) - (hi + 1) + 1 : r[i] = b[hi + 1 + i - 1]
    BY <1>0, <2>1, SubSeqProperties
  <2> QED BY <1>0, <2>2
<1> HIDE DEF f, r
<1>3. /\ f \o t \in Seq(Char) /\ Len(f \o t) = lo + Len(t)
      /\ \A i \in 1 .. lo + Len(t) : (f \o t)[i] = IF i <= lo THEN f[i] ELSE t[i - lo]
  BY <1>1, ConcatProperties
<1> DEFINE g == f \o t
<1>8. g \in Seq(Char) /\ Len(g) = lo + Len(t)
  BY <1>3
<1>4. /\ f \o t \o r \in Seq(Char) /\ Len(f \o t \o r) = lo + Len(t) + Len(b) - hi
      /\ \A i \in 1 .. lo + Len(t) + Len(b) - hi :
           (f \o t \o r)[i] = IF i <= lo + Len(t) THEN (f \o t)[i] ELSE r[i - (lo + Len(t))]
  <2> HIDE DEF g
  <2>1. /\ g \o r \in Seq(Char) /\ Len(g \o r) = Len(g) + Len(r)
        /\ \A i \in 1 .. Len(g) + Len(r) : (g \o r)[i] = IF i <= Len(g) THEN g[i] ELSE r[i - Len(g)]
    <3>1. r \in Seq(Char) /\ g \in Seq(Char)
      BY <1>2, <1>8
    <3> QED BY <3>1, ConcatProperties
  <2>2. Len(g) + Len(r) = lo + Len(t) + Len(b) - hi
    BY <1>0, <1>2, <1>8
  <2> QED BY <1>8, <2>1, <2>2 DEF g
<1>5. \A i \in 1 .. lo : (f \o t \o r)[i] = b[i]
  BY <1>0, <1>1, <1>3, <1>4
<1>6. \A i \in 1 .. Len(t) : (f \o t \o r)[lo + i] = t[i]
  BY <1>0, <1>3, <1>4
<1>7. ASSUME NEW i \in 1 .. Len(b) - hi PROVE (f \o t \o r)[lo + Len(t) + i] = b[hi + i]
  <2>1. /\ lo + Len(t) + i \in 1 .. lo + Len(t) + Len(b) - hi /\ ~(lo + Len(t) + i <= lo + Len(t))
        /\ lo + Len(t) + i - (lo + Len(t)) = i
    BY <1>0
  <2>2. (f \o t \o r)[lo + Len(t) + i] = r[lo + Len(t) + i - (lo + Len(t))]
    BY <1>4, <2>1
  <2> QED BY <1>2, <2>1, <2>2
<1>9. Spliced(b, lo, t, hi) = f \o t \o r
  BY DEF Spliced, f, r
<1>10. IsSplice(f \o t \o r, b, lo, t, hi)
  BY <1>4, <1>5, <1>6, <1>7 DEF IsSplice
<1> QED BY <1>9, <1>10


LEMMA LineFacts ==
  ASSUME LineOK
  PROVE  /\ buf \in Seq(Char) /\ length \in Nat /\ kill_ring \in Seq(Char) /\ prompt \in Seq(Char)
         /\ static_length \in Nat /\ point \in Nat /\ mark \in Int /\ size \in Nat
         /\ static_length <= point /\ point <= length /\ length < size
         /\ static_length = Len(prompt) /\ static_length <= length
BY InputLineAssumption, LenProperties DEF LineOK, TypeOK, PromptIntact, PointInText, InDynamic, BufferFits

(* The prompt is intact when the buffer begins with it, character by       *)
(* character.                                                              *)
LEMMA PromptAt ==
  ASSUME NEW b \in Seq(Char), NEW p \in Seq(Char), Len(p) <= Len(b)
  PROVE  SubSeq(b, 1, Len(p)) = p <=> \A i \in 1 .. Len(p) : b[i] = p[i]
<1>1. /\ Len(p) \in Nat /\ Len(b) \in Nat /\ \A i \in 1 .. Len(b) : b[i] \in Char
  BY LenProperties
<1>2. /\ SubSeq(b, 1, Len(p)) \in Seq(Char) /\ Len(SubSeq(b, 1, Len(p))) = Len(p)
      /\ \A i \in 1 .. Len(p) : SubSeq(b, 1, Len(p))[i] = b[i]
  BY <1>1, SubSeqProperties
<1> QED BY <1>1, <1>2, SeqEqual

(* What every edit has in common: it replaces the characters from lo to hi *)
(* behind the prompt.                                                      *)
LEMMA Edited ==
  ASSUME LineOK, NEW lo \in Nat, NEW hi \in Nat, static_length <= lo, lo <= hi, hi <= length,
         NEW t \in Seq(Char),
         buf' = Spliced(buf, lo, t, hi), point' \in lo .. lo + Len(t),
         UNCHANGED <<static_length, prompt>>, kill_ring' \in Seq(Char), mark' \in Int, size' \in Nat,
         length + Len(t) - (hi - lo) < size', pc' \in {"ready", "spaces"}, one' \in BOOLEAN
  PROVE  LineOK'
<1>0. Len(t) \in Nat /\ Len(buf) \in Nat /\ hi <= Len(buf) /\ buf \in Seq(Char)
  BY LineFacts, LenProperties
<1>s. IsSplice(buf', buf, lo, t, hi)
  BY <1>0, Splice
<1>1. buf' \in Seq(Char) /\ Len(buf') = lo + Len(t) + Len(buf) - hi
  BY <1>s DEF IsSplice
<1>2. \A i \in 1 .. lo : buf'[i] = buf[i]
  BY <1>s DEF IsSplice
<1>3. /\ static_length' = Len(prompt) /\ prompt' = prompt /\ Len(prompt) \in Nat /\ prompt \in Seq(Char)
      /\ Len(prompt) <= Len(buf) /\ Len(prompt) <= lo
  BY LineFacts
<1>4. Len(prompt) <= point' /\ point' <= Len(buf') /\ point' \in Nat /\ Len(buf') \in Nat /\ Len(buf') < size'
  <2>1. Len(buf') = lo + Len(t) + Len(buf) - hi /\ Len(prompt) \in Nat /\ Len(prompt) <= lo
    BY <1>1, <1>3
  <2>2. point' \in lo .. lo + Len(t) /\ size' \in Nat /\ Len(buf) + Len(t) - (hi - lo) < size'
    OBVIOUS
  <2> DEFINE n == Len(t)
             l == Len(buf)
             m == Len(buf')
             p == Len(prompt)
  <2>3. n \in Nat /\ l \in Nat /\ p \in Nat /\ hi <= l /\ m = lo + n + l - hi /\ p <= lo
        /\ point' \in lo .. lo + n /\ size' \in Nat /\ l + n - (hi - lo) < size'
    BY <1>0, <2>1, <2>2
  <2> HIDE DEF n, l, m, p
  <2>4. p <= point' /\ point' <= m /\ point' \in Nat /\ m \in Nat /\ m < size'
    BY <2>3
  <2> QED BY <2>4 DEF m, p
<1>5. \A i \in 1 .. Len(prompt) : buf[i] = prompt[i]
  <2>1. SubSeq(buf, 1, Len(prompt)) = prompt
    BY LineFacts DEF LineOK, PromptIntact, Upto
  <2> QED BY <1>0, <1>3, <2>1, PromptAt
<1>6. ASSUME NEW i \in 1 .. Len(prompt) PROVE buf'[i] = prompt[i]
  <2>1. i \in 1 .. lo
    BY <1>3
  <2> QED BY <1>2, <1>5, <2>1
<1>7. Len(prompt) <= Len(buf')
  BY <1>3, <1>4
<1>8. SubSeq(buf', 1, Len(prompt)) = prompt
  BY <1>1, <1>3, <1>6, <1>7, PromptAt
<1>9. PromptIntact'
  BY <1>3, <1>7, <1>8 DEF PromptIntact, Upto
<1>10. PointInText' /\ BufferFits'
  BY <1>3, <1>4 DEF PointInText, InDynamic, BufferFits
<1>11. TypeOK'
  BY <1>1, <1>3, <1>4 DEF TypeOK, LineOK
<1> QED BY <1>9, <1>10, <1>11 DEF LineOK

Joined(lo, hi) == Upto(lo) \o Beyond(hi)

LEMMA NoText ==
  ASSUME LineOK, NEW lo \in 0 .. length, NEW hi \in 0 .. length
  PROVE  Joined(lo, hi) = Spliced(buf, lo, <<>>, hi)
<1>1. Upto(lo) \in Seq(Char)
  <2>1. \A i \in 1 .. lo : buf[i] \in Char
    BY LineFacts, LenProperties
  <2> QED BY <2>1, SubSeqProperties DEF Upto
<1>2. Upto(lo) \o <<>> = Upto(lo)
  BY <1>1, ConcatEmptySeq
<1> QED BY <1>2 DEF Joined, Spliced, Upto, Beyond

LEMMA Removed ==
  ASSUME LineOK, NEW lo \in Nat, NEW hi \in Nat, static_length <= lo, lo <= hi, hi <= length,
         buf' = Joined(lo, hi), point' = lo,
         UNCHANGED <<static_length, prompt>>, kill_ring' \in Seq(Char), mark' \in Int, size' \in Nat,
         length - (hi - lo) < size', pc' \in {"ready", "spaces"}, one' \in BOOLEAN
  PROVE  LineOK'
<1> DEFINE t == << >>
<1>1. t \in Seq(Char) /\ Len(t) = 0
  OBVIOUS
<1>3. buf' = Spliced(buf, lo, t, hi)
  <2>1. lo \in 0 .. length /\ hi \in 0 .. length
    BY LineFacts
  <2> QED BY <2>1, NoText
<1> HIDE DEF t
<1>2. point' \in lo .. lo + Len(t) /\ length + Len(t) - (hi - lo) < size'
  BY <1>1, LineFacts
<1> QED BY <1>1, <1>2, <1>3, Edited

LEMMA Moved ==
  ASSUME LineOK, UNCHANGED <<buf, static_length, kill_ring, size, pc, one, prompt>>,
         InDynamic(point'), point' \in Nat, mark' \in Int
  PROVE  LineOK'
BY DEF LineOK, TypeOK, PromptIntact, PointInText, BufferFits, InDynamic, Upto

-----------------------------------------------------------------------------
(* The commands.                                                           *)

LEMMA MoveForm ==
  ASSUME LineOK, AnyMark = FALSE, Move
  PROVE  /\ point' \in static_length .. length /\ mark' \in Int
         /\ UNCHANGED <<buf, static_length, kill_ring, size, pc, one, prompt>>
<1>1. CASE BackwardChar
  BY <1>1, LineFacts DEF BackwardChar, MoveTo
<1>2. CASE ForwardChar
  BY <1>2, LineFacts DEF ForwardChar, MoveTo
<1>3. CASE BackwardWordCmd
  BY <1>3, LineFacts, WordBounds DEF BackwardWordCmd, MoveTo
<1>4. CASE ForwardWordCmd
  BY <1>4, LineFacts, WordBounds DEF ForwardWordCmd, MoveTo
<1>5. CASE BeginningOfLine \/ EndOfLine
  BY <1>5, LineFacts DEF BeginningOfLine, EndOfLine, MoveTo
<1>6. CASE SetMark
  BY <1>6, LineFacts DEF SetMark
<1>7. CASE ExchangePointAndMark
  BY <1>7, LineFacts DEF ExchangePointAndMark, Usable, FreshMark, InDynamic
<1> QED BY <1>1, <1>2, <1>3, <1>4, <1>5, <1>6, <1>7 DEF Move

LEMMA MoveStep == ASSUME LineOK, AnyMark = FALSE, Move PROVE LineOK'
<1>1. /\ point' \in static_length .. length /\ mark' \in Int
      /\ UNCHANGED <<buf, static_length, kill_ring, size, pc, one, prompt>>
  BY MoveForm
<1>2. InDynamic(point') /\ point' \in Nat
  BY <1>1, LineFacts DEF InDynamic
<1> QED BY <1>1, <1>2, Moved

LEMMA InsertTextStep ==
  ASSUME LineOK, NEW t \in Seq(Char), InsertText(t) PROVE LineOK'
<1>1. Len(t) \in Nat /\ Slack \in Nat \ {0}
  BY LenProperties, InputLineAssumption
<1>2. /\ size' = (IF length + Len(t) + 1 > size THEN size + Len(t) + 1 + Slack ELSE size)
      /\ point' = point + Len(t) /\ UNCHANGED <<static_length, mark, kill_ring, pc, one, prompt>>
      /\ buf' = Spliced(buf, point, t, point)
  BY DEF InsertText, Spliced, Upto, Beyond
<1>3. size' \in Nat /\ length + Len(t) < size'
  <2>1. length \in Nat /\ size \in Nat /\ length < size
    BY LineFacts
  <2>2. size' = (IF length + Len(t) + 1 > size THEN size + Len(t) + 1 + Slack ELSE size)
    BY <1>2
  <2> QED BY <1>1, <2>1, <2>2
<1>4. /\ length + Len(t) - (point - point) < size' /\ point' \in point .. point + Len(t)
      /\ kill_ring' \in Seq(Char) /\ mark' \in Int /\ pc' \in {"ready", "spaces"} /\ one' \in BOOLEAN
  BY <1>1, <1>2, <1>3, LineFacts DEF LineOK, TypeOK
<1> QED BY <1>2, <1>3, <1>4, Edited, LineFacts

LEMMA InsertStep == ASSUME LineOK, Insert PROVE LineOK'
<1>1. ASSUME NEW c \in Char, InsertChar(c) PROVE LineOK'
  <2> DEFINE t == <<c>>
  <2>1. t \in Seq(Char) /\ Len(t) = 1 /\ Slack \in Nat \ {0} /\ buf' = Spliced(buf, point, t, point)
    BY <1>1, InputLineAssumption DEF InsertChar, Spliced, Upto, Beyond
  <2> HIDE DEF t
  <2>2. /\ size' = (IF length + 1 >= size THEN length + 1 + Slack ELSE size) /\ point' = point + 1
        /\ UNCHANGED <<static_length, mark, kill_ring, pc, one, prompt>>
    BY <1>1 DEF InsertChar
  <2>3. size' \in Nat /\ length + 1 < size'
    <3>1. length \in Nat /\ size \in Nat /\ length < size /\ Slack \in Nat \ {0}
      BY <2>1, LineFacts
    <3>2. CASE length + 1 >= size
      BY <2>2, <3>1, <3>2
    <3>3. CASE ~(length + 1 >= size)
      BY <2>2, <3>1, <3>3
    <3> QED BY <3>2, <3>3
  <2>4. /\ length + Len(t) - (point - point) < size' /\ point' \in point .. point + Len(t)
        /\ kill_ring' \in Seq(Char) /\ mark' \in Int /\ pc' \in {"ready", "spaces"} /\ one' \in BOOLEAN
    BY <2>1, <2>2, <2>3, LineFacts DEF LineOK, TypeOK
  <2>5. /\ point \in Nat /\ static_length <= point /\ point <= point /\ point <= length
        /\ UNCHANGED <<static_length, prompt>> /\ t \in Seq(Char) /\ buf' = Spliced(buf, point, t, point)
    BY <2>1, <2>2, LineFacts
  <2> QED BY <2>3, <2>4, <2>5, Edited
<1>2. ASSUME NEW t \in Texts, InsertText(t) PROVE LineOK'
  BY <1>2, InsertTextStep, InputLineAssumption
<1>3. CASE Yank
  BY <1>3, InsertTextStep, LineFacts DEF Yank
<1> QED BY <1>1, <1>2, <1>3 DEF Insert

(* il_delete_horizontal_space shrinks the buffer more than once.           *)
LEMMA DeleteStep == ASSUME LineOK, Delete PROVE LineOK'
<1>1. CASE DeleteChar
  <2>1. /\ point + 1 \in Nat /\ point + 1 <= length /\ buf' = Joined(point, point + 1)
        /\ size' \in Nat /\ length - 1 < size'
    BY <1>1, LineFacts DEF DeleteChar, Shrunk, Joined
  <2>2. length - (point + 1 - point) < size' /\ point <= point + 1
    BY <2>1, LineFacts
  <2>3. /\ UNCHANGED <<static_length, prompt>> /\ point' = point
        /\ kill_ring' \in Seq(Char) /\ mark' \in Int /\ pc' \in {"ready", "spaces"} /\ one' \in BOOLEAN
    BY <1>1 DEF DeleteChar, LineOK, TypeOK
  <2> QED BY <2>1, <2>2, <2>3, Removed, LineFacts
<1>2. CASE BackwardDeleteChar
  <2>1. /\ point - 1 \in Nat /\ static_length <= point - 1 /\ buf' = Joined(point - 1, point)
        /\ size' \in Nat /\ length - 1 < size' /\ point' = point - 1
    BY <1>2, LineFacts DEF BackwardDeleteChar, BackwardDelete, Shrunk, Joined
  <2>2. length - (point - (point - 1)) < size' /\ point - 1 <= point
    BY <2>1, LineFacts
  <2> QED BY <1>2, <2>1, <2>2, Removed, LineFacts DEF BackwardDeleteChar, LineOK, TypeOK
<1>3. ASSUME NEW o \in BOOLEAN, DeleteHorizontalSpace(o) PROVE LineOK'
  <2> DEFINE k == FirstFrom(point, Char \ {Space})
             pages == {len \in length - (k - point) .. length - 1 : len % Page = 0}
  <2>1. k \in point .. length /\ k \in Nat
    BY LineFacts, FirstFromBounds
  <2>2. /\ buf' = Joined(point, k)
        /\ size' = IF pages = {} THEN size ELSE Min(pages) + 1
    BY <1>3 DEF DeleteHorizontalSpace, Joined
  <2> HIDE DEF k
  <2>3. pages \in SUBSET Nat /\ pages \subseteq length - (k - point) .. length - 1
    BY <2>1, LineFacts
  <2> HIDE DEF pages
  <2>4. size' \in Nat /\ length - (k - point) < size'
    <3>1. CASE pages = {}
      BY <2>1, <2>2, <3>1, LineFacts
    <3>2. CASE pages # {}
      <4>1. Min(pages) \in pages
        BY <2>3, <3>2, LeastOf
      <4>2. Min(pages) \in length - (k - point) .. length - 1
        BY <2>3, <4>1
      <4>3. length - (k - point) \in Nat /\ length \in Nat
        BY <2>1, LineFacts
      <4> QED BY <2>2, <3>2, <4>2, <4>3
    <3> QED BY <3>1, <3>2
  <2>5. static_length <= point /\ point <= k /\ k <= length
    BY <2>1, LineFacts
  <2> QED BY <1>3, <2>1, <2>2, <2>4, <2>5, Removed, LineFacts DEF DeleteHorizontalSpace
<1> QED BY <1>1, <1>2, <1>3 DEF Delete


-----------------------------------------------------------------------------
(* The killing commands cut a piece behind the prompt.                     *)

LEMMA JoinedFacts ==
  ASSUME LineOK, NEW lo \in 0 .. length, NEW hi \in lo .. length
  PROVE  /\ Joined(lo, hi) \in Seq(Char) /\ Len(Joined(lo, hi)) = length - (hi - lo)
         /\ \A i \in 1 .. lo : Joined(lo, hi)[i] = buf[i]
         /\ \A i \in 1 .. length - hi : Joined(lo, hi)[lo + i] = buf[hi + i]
<1> DEFINE t == << >>
<1>1. t \in Seq(Char) /\ Len(t) = 0
  OBVIOUS
<1>2. Joined(lo, hi) = Spliced(buf, lo, t, hi) /\ lo \in Nat /\ hi \in Nat /\ lo <= hi /\ hi <= Len(buf)
      /\ buf \in Seq(Char) /\ Len(buf) \in Nat
  BY NoText, LineFacts
<1> HIDE DEF t
<1>s. IsSplice(Spliced(buf, lo, t, hi), buf, lo, t, hi)
  BY <1>1, <1>2, Splice
<1>3. Spliced(buf, lo, t, hi) \in Seq(Char) /\ Len(Spliced(buf, lo, t, hi)) = lo + Len(t) + Len(buf) - hi
  BY <1>s DEF IsSplice
<1>4. \A i \in 1 .. lo : Spliced(buf, lo, t, hi)[i] = buf[i]
  BY <1>s DEF IsSplice
<1>5. \A i \in 1 .. Len(buf) - hi : Spliced(buf, lo, t, hi)[lo + Len(t) + i] = buf[hi + i]
  BY <1>s DEF IsSplice
<1>6. lo + Len(t) = lo /\ lo + Len(t) + Len(buf) - hi = length - (hi - lo)
  BY <1>1, <1>2
<1> QED BY <1>2, <1>3, <1>4, <1>5, <1>6

LEMMA StoredFacts ==
  ASSUME LineOK, NEW lo \in 0 .. length, NEW hi \in lo .. length
  PROVE  /\ Stored(lo, hi) \in Seq(Char) /\ Len(Stored(lo, hi)) = hi - lo
         /\ \A i \in 1 .. hi - lo : Stored(lo, hi)[i] = buf[lo + i]
<1>1. buf \in Seq(Char) /\ length \in Nat /\ lo \in Nat /\ hi \in Nat /\ \A i \in lo + 1 .. hi : buf[i] \in Char
  BY LineFacts, LenProperties
<1>2. /\ SubSeq(buf, lo + 1, hi) \in Seq(Char)
      /\ Len(SubSeq(buf, lo + 1, hi)) = (IF lo + 1 <= hi THEN hi - (lo + 1) + 1 ELSE 0)
      /\ \A i \in 1 .. hi - (lo + 1) + 1 : SubSeq(buf, lo + 1, hi)[i] = buf[lo + 1 + i - 1]
  BY <1>1, SubSeqProperties
<1>3. hi - (lo + 1) + 1 = hi - lo /\ \A i \in Int : lo + 1 + i - 1 = lo + i
  BY <1>1
<1>4. Len(SubSeq(buf, lo + 1, hi)) = hi - lo
  BY <1>1, <1>2
<1>5. ASSUME NEW i \in 1 .. hi - lo PROVE SubSeq(buf, lo + 1, hi)[i] = buf[lo + i]
  <2>1. i \in 1 .. hi - (lo + 1) + 1 /\ lo + 1 + i - 1 = lo + i
    BY <1>3
  <2> QED BY <1>2, <2>1
<1> QED BY <1>2, <1>4, <1>5 DEF Stored

LEMMA KillStep ==
  ASSUME LineOK, NEW lo \in static_length .. length, NEW hi \in lo .. length, NEW store \in BOOLEAN,
         Kill(lo, hi, store), mark' \in Int, UNCHANGED <<static_length, pc, one, prompt>>
  PROVE  LineOK'
<1>1. /\ lo \in 0 .. length /\ hi \in lo .. length /\ lo \in Nat /\ hi \in Nat /\ static_length <= lo
      /\ lo <= hi /\ hi <= length /\ length \in Nat
  BY LineFacts
<1>2. /\ buf' = Joined(lo, hi) /\ point' = lo
      /\ size' = (IF lo = hi THEN size ELSE length - (hi - lo) + 1)
      /\ kill_ring' = (IF store /\ lo < hi THEN Stored(lo, hi) ELSE kill_ring)
  BY DEF Kill, Joined
<1>3. size' \in Nat /\ length - (hi - lo) < size'
  BY <1>1, <1>2, LineFacts
<1>4. kill_ring' \in Seq(Char)
  BY <1>1, <1>2, StoredFacts, LineFacts
<1>5. pc' \in {"ready", "spaces"} /\ one' \in BOOLEAN
  BY DEF LineOK, TypeOK
<1> QED BY <1>1, <1>2, <1>3, <1>4, <1>5, Removed

(* ... and what they stored is what is missing.                            *)
LEMMA KillBack ==
  ASSUME LineOK, NEW lo \in static_length .. length, NEW hi \in lo .. length, Kill(lo, hi, TRUE), buf' # buf
  PROVE  buf = Spliced(buf', point', kill_ring', point')
<1>0. /\ lo \in 0 .. length /\ hi \in lo .. length /\ lo \in Nat /\ hi \in Nat
      /\ lo <= hi /\ hi <= length /\ length \in Nat /\ buf \in Seq(Char)
  BY LineFacts
<1>1. buf' = Joined(lo, hi) /\ point' = lo /\ kill_ring' = IF lo < hi THEN Stored(lo, hi) ELSE kill_ring
  BY DEF Kill, Joined
<1> DEFINE j == Joined(lo, hi)
           s == Stored(lo, hi)
<1>2. /\ j \in Seq(Char) /\ Len(j) = length - (hi - lo)
      /\ \A i \in 1 .. lo : j[i] = buf[i]
      /\ \A i \in 1 .. length - hi : j[lo + i] = buf[hi + i]
  BY <1>0, JoinedFacts
<1>3. s \in Seq(Char) /\ Len(s) = hi - lo /\ \A i \in 1 .. hi - lo : s[i] = buf[lo + i]
  BY <1>0, StoredFacts
<1> HIDE DEF j, s
<1>4. lo < hi
  <2> SUFFICES ASSUME lo = hi PROVE j = buf
    BY <1>0, <1>1 DEF j
  <2>1. Len(j) = Len(buf)
    BY <1>0, <1>2
  <2>2. ASSUME NEW i \in 1 .. Len(j) PROVE j[i] = buf[i]
    <3>1. CASE i <= lo
      BY <1>0, <1>2, <3>1
    <3>2. CASE i > lo
      <4>1. i - lo \in 1 .. length - hi /\ lo + (i - lo) = i /\ hi + (i - lo) = i
        BY <1>0, <1>2, <3>2
      <4> QED BY <1>2, <4>1
    <3> QED BY <1>0, <3>1, <3>2
  <2> QED BY <1>0, <1>2, <2>1, <2>2, SeqEqual
<1> DEFINE r == Spliced(j, lo, s, lo)
<1>10. j \in Seq(Char) /\ s \in Seq(Char) /\ lo \in Nat /\ lo <= lo /\ lo <= Len(j)
  BY <1>0, <1>2, <1>3
<1>s. IsSplice(r, j, lo, s, lo)
  BY <1>10, Splice
<1>5. r \in Seq(Char) /\ Len(r) = lo + Len(s) + Len(j) - lo
  BY <1>s DEF IsSplice
<1>6. /\ \A i \in 1 .. lo : r[i] = j[i]
      /\ \A i \in 1 .. Len(s) : r[lo + i] = s[i]
      /\ \A i \in 1 .. Len(j) - lo : r[lo + Len(s) + i] = j[lo + i]
  BY <1>s DEF IsSplice
<1> HIDE DEF r
<1>7. Len(r) = Len(buf)
  BY <1>0, <1>2, <1>3, <1>5
<1>8. ASSUME NEW i \in 1 .. Len(r) PROVE r[i] = buf[i]
  <2>1. CASE i <= lo
    BY <1>0, <1>2, <1>6, <2>1
  <2>2. CASE lo < i /\ i <= hi
    <3>1. i - lo \in 1 .. hi - lo /\ lo + (i - lo) = i
      BY <1>0, <2>2
    <3> QED BY <1>3, <1>6, <3>1
  <2>3. CASE hi < i
    <3>1. i - hi \in 1 .. length - hi /\ hi + (i - hi) = i /\ lo + Len(s) + (i - hi) = i /\ Len(j) - lo = length - hi
      BY <1>0, <1>2, <1>3, <1>7, <2>3
    <3>2. r[lo + Len(s) + (i - hi)] = j[lo + (i - hi)]
      BY <1>6, <3>1
    <3>3. j[lo + (i - hi)] = buf[hi + (i - hi)]
      BY <1>2, <3>1
    <3> QED BY <3>1, <3>2, <3>3
  <2> QED BY <1>0, <2>1, <2>2, <2>3
<1>9. r = buf
  BY <1>0, <1>5, <1>7, <1>8, SeqEqual
<1> QED BY <1>1, <1>4, <1>9 DEF r, j, s

LEMMA CutForm ==
  ASSUME LineOK, AnyMark = FALSE, Cut
  PROVE  \E lo \in static_length .. point : \E hi \in point .. length :
           Kill(lo, hi, TRUE) /\ mark' \in Int /\ UNCHANGED <<static_length, pc, one, prompt>>
<1> USE DEF Lesser, Greater
<1>0. \A lo \in 0 .. length : \A hi \in lo .. length : Kill(lo, hi, TRUE) => Len(buf') \in Nat
  <2> SUFFICES ASSUME NEW lo \in 0 .. length, NEW hi \in lo .. length, Kill(lo, hi, TRUE)
               PROVE  Len(buf') \in Nat
    OBVIOUS
  <2>1. buf' = Joined(lo, hi)
    BY DEF Kill, Joined
  <2>2. Joined(lo, hi) \in Seq(Char)
    BY JoinedFacts
  <2> QED BY <2>1, <2>2, LenProperties
<1>1. CASE KillRegion
  <2>1. mark \in static_length .. length
    BY <1>1, LineFacts DEF KillRegion, Usable, FreshMark, InDynamic
  <2> DEFINE lo == Lesser(point, mark)
             hi == Greater(point, mark)
  <2>2. lo \in static_length .. point /\ hi \in point .. length /\ lo \in Int
    BY <2>1, LineFacts
  <2>3. Kill(lo, hi, TRUE) /\ mark' = point' /\ point' = lo /\ UNCHANGED <<static_length, pc, one, prompt>>
    BY <1>1 DEF KillRegion, Kill
  <2> HIDE DEF lo, hi
  <2> QED BY <2>2, <2>3
<1>2. CASE KillWord
  <2> DEFINE hi == ForwardWord(point)
  <2>1. point \in static_length .. point /\ hi \in point .. length
    BY LineFacts, WordBounds
  <2>2. /\ Kill(point, hi, TRUE) /\ mark' = MarkAfterCut(point, hi)
        /\ UNCHANGED <<static_length, pc, one, prompt>>
    BY <1>2 DEF KillWord
  <2> HIDE DEF hi
  <2>3. mark' \in Int
    BY <2>1, <2>2, LineFacts DEF MarkAfterCut
  <2> QED BY <2>1, <2>2, <2>3
<1>3. CASE BackwardKillWord
  <2> DEFINE lo == BackwardWord(point)
  <2>1. lo \in static_length .. point /\ point \in point .. length
    BY LineFacts, WordBounds
  <2>2. /\ Kill(lo, point, TRUE) /\ mark' = MarkAfterCut(lo, point)
        /\ UNCHANGED <<static_length, pc, one, prompt>>
    BY <1>3 DEF BackwardKillWord
  <2> HIDE DEF lo
  <2>3. mark' \in Int
    BY <2>1, <2>2, LineFacts DEF MarkAfterCut
  <2> QED BY <2>1, <2>2, <2>3
<1>4. CASE KillLine(TRUE)
  <2> DEFINE hi == length
  <2>1. static_length \in static_length .. point /\ hi \in point .. length
    BY LineFacts
  <2>2. Kill(static_length, hi, TRUE) /\ mark' = static_length /\ UNCHANGED <<static_length, pc, one, prompt>>
    BY <1>4 DEF KillLine
  <2>3. mark' \in Int
    BY <2>2, LineFacts
  <2> HIDE DEF hi
  <2> QED BY <2>1, <2>2, <2>3
<1>5. CASE KillToBeginningOfLine
  <2>1. static_length \in static_length .. point /\ point \in point .. length
    BY LineFacts
  <2>2. Kill(static_length, point, TRUE) /\ UNCHANGED <<static_length, pc, one, prompt>>
    BY <1>5, LineFacts DEF KillToBeginningOfLine
  <2>3. mark' \in Int
    <3>1. Len(buf') \in Nat
      BY <1>0, <2>1, <2>2, LineFacts
    <3> QED BY <1>5, <3>1, LineFacts DEF KillToBeginningOfLine
  <2> QED BY <2>1, <2>2, <2>3
<1>6. CASE KillToEndOfLine
  <2> DEFINE hi == length
  <2>1. point \in static_length .. point /\ hi \in point .. length
    BY LineFacts
  <2>2. Kill(point, hi, TRUE) /\ UNCHANGED <<static_length, pc, one, prompt>>
    BY <1>6 DEF KillToEndOfLine
  <2>3. mark' \in Int
    <3>1. Len(buf') \in Nat
      BY <1>0, <2>1, <2>2, LineFacts
    <3> QED BY <1>6, <3>1, LineFacts DEF KillToEndOfLine
  <2> HIDE DEF hi
  <2> QED BY <2>1, <2>2, <2>3
<1> QED BY <1>1, <1>2, <1>3, <1>4, <1>5, <1>6 DEF Cut


-----------------------------------------------------------------------------
(* Words are rewritten in place.                                           *)

LEMMA RecasedStep ==
  ASSUME LineOK, buf' \in Seq(Char), Len(buf') = length,
         \A i \in 1 .. static_length : buf'[i] = buf[i],
         point' \in point .. length,
         UNCHANGED <<static_length, mark, kill_ring, size, pc, one, prompt>>
  PROVE  LineOK'
<1>1. /\ static_length = Len(prompt) /\ Len(prompt) \in Nat /\ Len(prompt) <= length /\ length \in Nat
      /\ prompt \in Seq(Char) /\ buf \in Seq(Char)
  BY LineFacts
<1>2. SubSeq(buf, 1, Len(prompt)) = prompt
  BY <1>1 DEF LineOK, PromptIntact, Upto
<1>3. \A i \in 1 .. Len(prompt) : buf[i] = prompt[i]
  BY <1>1, <1>2, PromptAt
<1>4. \A i \in 1 .. Len(prompt) : buf'[i] = prompt[i]
  BY <1>1, <1>3
<1>5. SubSeq(buf', 1, Len(prompt)) = prompt
  BY <1>1, <1>4, PromptAt
<1>6. PromptIntact'
  BY <1>1, <1>5 DEF PromptIntact, Upto
<1>7. PointInText' /\ BufferFits' /\ point' \in Nat
  BY LineFacts DEF PointInText, InDynamic, BufferFits
<1>8. TypeOK'
  BY <1>7 DEF TypeOK, LineOK
<1> QED BY <1>6, <1>7, <1>8 DEF LineOK

(* The characters that the point moves over change their case, no other.   *)
Recased(end) ==
  /\ buf' \in Seq(Char) /\ Len(buf') = length
  /\ \A i \in 1 .. length :
       IF point < i /\ i <= end THEN buf'[i] \in {Upper[buf[i]], Lower[buf[i]]} ELSE buf'[i] = buf[i]
  /\ point' = end /\ UNCHANGED <<static_length, mark, kill_ring, size, pc, one, prompt>>

LEMMA RecasingForm == ASSUME LineOK, Recasing PROVE \E end \in point .. length : Recased(end)
<1> DEFINE end == ForwardWord(point)
           first == FirstFrom(point, WordChar) + 1
<1>0. /\ length \in Nat /\ end \in point .. length /\ \A i \in 1 .. length : buf[i] \in Char
      /\ \A c \in Char : Upper[c] \in Char /\ Lower[c] \in Char
  BY LineFacts, WordBounds, LenProperties, InputLineAssumption
<1>1. ASSUME NEW new, \A i \in 1 .. length : new[i] \in {Upper[buf[i]], Lower[buf[i]]},
             buf' = [i \in 1 .. length |-> IF point < i /\ i <= end THEN new[i] ELSE buf[i]],
             point' = end, UNCHANGED <<static_length, mark, kill_ring, size, pc, one, prompt>>
      PROVE  Recased(end)
  <2> HIDE DEF end
  <2>1. buf' \in [1 .. length -> Char]
    BY <1>0, <1>1
  <2>2. buf' \in Seq(Char) /\ Len(buf') = length
    BY <1>0, <2>1, SeqDef
  <2> QED BY <1>1, <2>2 DEF Recased
<1>2. ASSUME DowncaseWord PROVE Recased(end)
  <2> DEFINE new == [i \in 1 .. length |-> Lower[buf[i]]]
  <2>1. \A i \in 1 .. length : new[i] \in {Upper[buf[i]], Lower[buf[i]]}
    OBVIOUS
  <2>2. buf' = [i \in 1 .. length |-> IF point < i /\ i <= end THEN new[i] ELSE buf[i]]
    BY <1>2 DEF DowncaseWord, Recase
  <2>3. point' = end /\ UNCHANGED <<static_length, mark, kill_ring, size, pc, one, prompt>>
    BY <1>2 DEF DowncaseWord, Recase
  <2> HIDE DEF new
  <2> QED BY <1>1, <2>1, <2>2, <2>3
<1>3. ASSUME UpcaseWord PROVE Recased(end)
  <2> DEFINE new == [i \in 1 .. length |-> Upper[buf[i]]]
  <2>1. \A i \in 1 .. length : new[i] \in {Upper[buf[i]], Lower[buf[i]]}
    OBVIOUS
  <2>2. buf' = [i \in 1 .. length |-> IF point < i /\ i <= end THEN new[i] ELSE buf[i]]
    BY <1>3 DEF UpcaseWord, Recase
  <2>3. point' = end /\ UNCHANGED <<static_length, mark, kill_ring, size, pc, one, prompt>>
    BY <1>3 DEF UpcaseWord, Recase
  <2> HIDE DEF new
  <2> QED BY <1>1, <2>1, <2>2, <2>3
<1>4. ASSUME CapitalizeWord PROVE Recased(end)
  <2> DEFINE new == [i \in 1 .. length |-> IF i = first THEN Upper[buf[i]] ELSE Lower[buf[i]]]
  <2>1. \A i \in 1 .. length : new[i] \in {Upper[buf[i]], Lower[buf[i]]}
    OBVIOUS
  <2>2. buf' = [i \in 1 .. length |-> IF point < i /\ i <= end THEN new[i] ELSE buf[i]]
    BY <1>4 DEF CapitalizeWord, Recase
  <2>3. point' = end /\ UNCHANGED <<static_length, mark, kill_ring, size, pc, one, prompt>>
    BY <1>4 DEF CapitalizeWord, Recase
  <2> HIDE DEF new
  <2> QED BY <1>1, <2>1, <2>2, <2>3
<1>5. Recased(end)
  BY <1>2, <1>3, <1>4 DEF Recasing
<1> HIDE DEF end
<1> QED BY <1>0, <1>5

LEMMA RecasingStep == ASSUME LineOK, Recasing PROVE LineOK'
<1>1. PICK end \in point .. length : Recased(end)
  BY RecasingForm
<1>2. buf' \in Seq(Char) /\ Len(buf') = length /\ \A i \in 1 .. static_length : buf'[i] = buf[i]
  BY <1>1, LineFacts DEF Recased
<1> QED BY <1>1, <1>2, RecasedStep DEF Recased

-----------------------------------------------------------------------------
(* The program sets another prompt, in front of the text or with a new one.*)

LEMMA NewPrompt ==
  ASSUME LineOK, NEW p \in Prompts, NEW t \in Seq(Char), buf' = p \o t, prompt' = p, static_length' = Len(p),
         point' \in Len(p) .. Len(buf'), mark' \in Int, size' \in Nat, Len(buf') < size',
         UNCHANGED <<kill_ring, pc, one>>
  PROVE  LineOK'
<1>1. p \in Seq(Char) /\ Len(p) \in Nat /\ Len(t) \in Nat
  BY InputLineAssumption, LenProperties
<1>2. /\ p \o t \in Seq(Char) /\ Len(p \o t) = Len(p) + Len(t)
      /\ \A i \in 1 .. Len(p) + Len(t) : (p \o t)[i] = IF i <= Len(p) THEN p[i] ELSE t[i - Len(p)]
  BY <1>1, ConcatProperties
<1> DEFINE b == p \o t
<1>3. b \in Seq(Char) /\ Len(b) \in Nat /\ Len(p) <= Len(b) /\ \A i \in 1 .. Len(p) : b[i] = p[i]
  BY <1>1, <1>2
<1>4. buf' = b
  OBVIOUS
<1> HIDE DEF b
<1>5. SubSeq(b, 1, Len(p)) = p
  BY <1>1, <1>3, PromptAt
<1>6. PromptIntact'
  BY <1>3, <1>4, <1>5 DEF PromptIntact, Upto
<1>7. PointInText' /\ BufferFits' /\ point' \in Nat
  BY <1>1, <1>3, <1>4 DEF PointInText, InDynamic, BufferFits
<1>8. TypeOK'
  BY <1>1, <1>3, <1>4, <1>7 DEF TypeOK, LineOK
<1> QED BY <1>6, <1>7, <1>8 DEF LineOK

LEMMA ProgramStep == ASSUME LineOK, Program PROVE LineOK'
<1>1. CASE KillLine(FALSE)
  <2> DEFINE hi == length
             store == FALSE
  <2>1. static_length \in static_length .. length /\ hi \in static_length .. length /\ store \in BOOLEAN
    BY LineFacts
  <2>2. Kill(static_length, hi, store) /\ mark' = static_length /\ UNCHANGED <<static_length, pc, one, prompt>>
    BY <1>1 DEF KillLine
  <2>3. mark' \in Int
    BY <2>2, LineFacts
  <2> HIDE DEF hi, store
  <2> QED BY <2>1, <2>2, <2>3, KillStep
<1>2. ASSUME NEW p \in Prompts, SetStaticText(p) PROVE LineOK'
  <2> DEFINE t == Beyond(static_length)
  <2>0. p \in Seq(Char) /\ Len(p) \in Nat
    BY InputLineAssumption, LenProperties
  <2>1. t \in Seq(Char) /\ Len(t) = length - static_length
    <3>1. /\ static_length \in Nat /\ length \in Nat /\ static_length <= length
          /\ \A i \in static_length + 1 .. length : buf[i] \in Char
      BY LineFacts, LenProperties
    <3> QED BY <3>1, SubSeqProperties DEF Beyond
  <2>2. Len(p \o t) = Len(p) + (length - static_length)
    <3> HIDE DEF t
    <3> QED BY <2>0, <2>1, ConcatProperties
  <2>3. /\ buf' = p \o t /\ point' = point + Len(p) - static_length /\ mark' = mark + Len(p) - static_length
        /\ static_length' = Len(p) /\ prompt' = p /\ size' = Greater(size, Len(buf') + 1)
        /\ UNCHANGED <<kill_ring, pc, one>>
    BY <1>2 DEF SetStaticText
  <2> HIDE DEF t
  <2>4. Len(buf') = Len(p) + (length - static_length)
    BY <2>2, <2>3
  <2>5. /\ static_length \in Nat /\ point \in Nat /\ length \in Nat /\ size \in Nat /\ mark \in Int
        /\ static_length <= point /\ point <= length
    BY LineFacts
  <2>6. point' \in Len(p) .. Len(buf') /\ mark' \in Int
    BY <2>0, <2>3, <2>4, <2>5
  <2>7. Len(buf') \in Nat
    BY <2>0, <2>4, <2>5
  <2>8. size' \in Nat /\ Len(buf') < size'
    BY <2>3, <2>5, <2>7 DEF Greater
  <2> QED BY <2>1, <2>3, <2>6, <2>8, NewPrompt
<1>3. ASSUME NEW p \in Prompts, NEW t \in Texts, Question(p, t) PROVE LineOK'
  <2>0. p \in Seq(Char) /\ Len(p) \in Nat /\ t \in Seq(Char) /\ Len(t) \in Nat /\ Slack \in Nat
    BY InputLineAssumption, LenProperties
  <2>1. Len(p \o t) = Len(p) + Len(t)
    BY <2>0, ConcatProperties
  <2>2. /\ buf' = p \o t /\ point' = Len(buf') /\ mark' = Len(p) /\ static_length' = Len(p) /\ prompt' = p
        /\ size' = (IF Len(buf') + 1 > Len(p) + 1 THEN Len(p) + 1 + Len(t) + 1 + Slack ELSE Len(p) + 1)
        /\ UNCHANGED <<kill_ring, pc, one>>
    BY <1>3 DEF Question
  <2>3. Len(buf') = Len(p) + Len(t)
    BY <2>1, <2>2
  <2>4. point' \in Len(p) .. Len(buf') /\ mark' \in Int
    BY <2>0, <2>2, <2>3
  <2>5. size' \in Nat /\ Len(buf') < size'
    <3>1. size' = IF Len(t) > 0 THEN Len(p) + 1 + Len(t) + 1 + Slack ELSE Len(p) + 1
      BY <2>0, <2>2, <2>3
    <3> QED BY <2>0, <2>3, <3>1
  <2> QED BY <2>0, <2>2, <2>4, <2>5, NewPrompt
<1> QED BY <1>1, <1>2, <1>3 DEF Program


-----------------------------------------------------------------------------
LEMMA LoopStep == ASSUME LineOK, Loop PROVE LineOK'
<1>1. CASE DeleteSpaceBefore
  <2>1. /\ point - 1 \in Nat /\ static_length <= point - 1 /\ buf' = Joined(point - 1, point)
        /\ size' \in Nat /\ length - 1 < size' /\ point' = point - 1
    BY <1>1, LineFacts DEF DeleteSpaceBefore, BackwardDelete, Shrunk, Joined
  <2>2. length - (point - (point - 1)) < size' /\ point - 1 <= point
    BY <2>1, LineFacts
  <2>3. /\ UNCHANGED <<static_length, prompt>>
        /\ kill_ring' \in Seq(Char) /\ mark' \in Int /\ pc' \in {"ready", "spaces"} /\ one' \in BOOLEAN
    BY <1>1 DEF DeleteSpaceBefore, LineOK, TypeOK
  <2> QED BY <2>1, <2>2, <2>3, Removed, LineFacts
<1>2. CASE SpacesDone /\ ~one
  BY <1>2, LineFacts DEF SpacesDone, LineOK, TypeOK, PromptIntact, PointInText, BufferFits, InDynamic, Upto
<1>3. CASE SpacesDone /\ one
  <2> DEFINE t == <<Space>>
  <2>0. Space \in Char /\ Slack \in Nat \ {0} /\ buf' = Upto(point) \o <<Space>> \o Beyond(point)
    BY <1>3, InputLineAssumption DEF SpacesDone
  <2>1. t \in Seq(Char) /\ Len(t) = 1 /\ Slack \in Nat \ {0} /\ buf' = Spliced(buf, point, t, point)
    BY <2>0 DEF Spliced, Upto, Beyond
  <2> HIDE DEF t
  <2>2. /\ size' = (IF length + 1 >= size THEN length + 1 + Slack ELSE size) /\ point' = point + 1
        /\ UNCHANGED <<static_length, mark, kill_ring, prompt>> /\ pc' = "ready" /\ one' = FALSE
    BY <1>3 DEF SpacesDone
  <2>3. size' \in Nat /\ length + 1 < size'
    BY <2>1, <2>2, LineFacts
  <2>4. /\ length + Len(t) - (point - point) < size' /\ point' \in point .. point + Len(t)
        /\ kill_ring' \in Seq(Char) /\ mark' \in Int /\ pc' \in {"ready", "spaces"} /\ one' \in BOOLEAN
    <3>1. /\ length + Len(t) - (point - point) < size' /\ point' \in point .. point + Len(t)
      BY <2>1, <2>2, <2>3, LineFacts
    <3> QED BY <2>2, <3>1, LineFacts
  <2>5. /\ point \in Nat /\ static_length <= point /\ point <= point /\ point <= length
        /\ UNCHANGED <<static_length, prompt>> /\ t \in Seq(Char) /\ buf' = Spliced(buf, point, t, point)
    BY <2>1, <2>2, LineFacts
  <2> QED BY <2>3, <2>4, <2>5, Edited
<1> QED BY <1>1, <1>2, <1>3 DEF Loop

LEMMA LineInductive ==
  ASSUME AnyMark = FALSE
  PROVE  /\ Init => LineOK
         /\ LineOK /\ [Next]_vars => LineOK'
<1>1. ASSUME Init PROVE LineOK
  <2>1. prompt \in Seq(Char) /\ Len(prompt) \in Nat /\ prompt \in Prompts
    BY <1>1, InputLineAssumption, LenProperties DEF Init
  <2>2. SubSeq(prompt, 1, Len(prompt)) = prompt
    BY <2>1, PromptAt
  <2>3. /\ buf = prompt /\ static_length = Len(prompt) /\ point = Len(prompt) /\ mark = Len(prompt)
        /\ kill_ring = << >> /\ size = Len(prompt) + 1 /\ pc = "ready" /\ one = FALSE
    BY <1>1 DEF Init
  <2>4. TypeOK
    <3>1. kill_ring \in Seq(Char)
      BY <2>3
    <3>2. size \in Nat /\ mark \in Int
      BY <2>1, <2>3
    <3> QED BY <2>1, <2>3, <3>1, <3>2 DEF TypeOK
  <2>5. PromptIntact /\ PointInText /\ BufferFits
    BY <2>1, <2>2, <2>3 DEF PromptIntact, PointInText, InDynamic, BufferFits, Upto
  <2> QED BY <2>4, <2>5 DEF LineOK
<1>2. ASSUME LineOK, Next PROVE LineOK'
  <2>1. CASE Move
    BY <1>2, <2>1, MoveStep
  <2>2. CASE Insert
    BY <1>2, <2>2, InsertStep
  <2>3. CASE Delete
    BY <1>2, <2>3, DeleteStep
  <2>4. CASE Cut
    <3> DEFINE store == TRUE
    <3>3. PICK lo \in static_length .. point : \E hi \in point .. length :
            Kill(lo, hi, TRUE) /\ mark' \in Int /\ UNCHANGED <<static_length, pc, one, prompt>>
      BY <1>2, <2>4, CutForm
    <3>1. PICK hi \in point .. length :
            Kill(lo, hi, TRUE) /\ mark' \in Int /\ UNCHANGED <<static_length, pc, one, prompt>>
      BY <3>3
    <3>2. Kill(lo, hi, store) /\ store \in BOOLEAN
      BY <3>1
    <3>4. lo \in static_length .. length /\ hi \in lo .. length
      BY <1>2, LineFacts
    <3> HIDE DEF store
    <3> QED BY <1>2, <3>1, <3>2, <3>4, KillStep
  <2>5. CASE KillRingSave
    <3>1. mark \in static_length .. length
      BY <1>2, <2>5, LineFacts DEF KillRingSave, Usable, FreshMark, InDynamic
    <3> DEFINE lo == Lesser(point, mark)
               hi == Greater(point, mark)
    <3>2. lo \in 0 .. length /\ hi \in lo .. length
      BY <1>2, <3>1, LineFacts DEF Lesser, Greater
    <3>3. kill_ring' = Stored(lo, hi) /\ UNCHANGED <<buf, static_length, point, mark, size, pc, one, prompt>>
      BY <2>5 DEF KillRingSave
    <3> HIDE DEF lo, hi
    <3>4. kill_ring' \in Seq(Char)
      BY <1>2, <3>2, <3>3, StoredFacts
    <3> QED BY <1>2, <3>3, <3>4 DEF LineOK, TypeOK, PromptIntact, PointInText, InDynamic, BufferFits, Upto
  <2>6. CASE Recasing
    BY <1>2, <2>6, RecasingStep
  <2>7. CASE Program
    BY <1>2, <2>7, ProgramStep
  <2>8. CASE Loop
    BY <1>2, <2>8, LoopStep
  <2> QED BY <1>2, <2>1, <2>2, <2>3, <2>4, <2>5, <2>6, <2>7, <2>8 DEF Next
<1>3. ASSUME LineOK, UNCHANGED vars PROVE LineOK'
  BY <1>3 DEF vars, LineOK, TypeOK, PromptIntact, PointInText, InDynamic, BufferFits, Upto
<1> QED BY <1>1, <1>2, <1>3

LEMMA LineInvariant == ASSUME AnyMark = FALSE PROVE Spec => []LineOK
BY LineInductive, PTL DEF Spec

(* Whatever is typed, killed, yanked or asked, the prompt in front of the  *)
(* text stays what il_set_static_text was given, as long as the mark is    *)
(* used only inside the text (AnyMark = FALSE, here and below).            *)
THEOREM PromptCorrect == ASSUME AnyMark = FALSE PROVE Spec => []PromptIntact
<1>1. LineOK => PromptIntact
  BY DEF LineOK
<1> QED BY <1>1, LineInvariant, PTL

(* The point stays between the prompt and the end of the line, where a     *)
(* mark left in the prompt (il_kill_to_beginning_of_line) may not take it. *)
THEOREM PointCorrect == ASSUME AnyMark = FALSE PROVE Spec => []PointInText
<1>1. LineOK => PointInText
  BY DEF LineOK
<1> QED BY <1>1, LineInvariant, PTL

(* Insertions have grown the buffer in time, and no deletion shrinks it    *)
(* below what is left and the terminator.                                  *)
THEOREM BufferCorrect == ASSUME AnyMark = FALSE PROVE Spec => []BufferFits
<1>1. LineOK => BufferFits
  BY DEF LineOK
<1> QED BY <1>1, LineInvariant, PTL

(* Every command that kills stores exactly what it cuts: the line is what  *)
(* is left with the kill ring's text in it.                                *)
THEOREM KillCorrect == ASSUME AnyMark = FALSE PROVE Spec => KilledTextComesBack
<1> DEFINE Comes == Cut /\ buf' # buf =>
             buf = SubSeq(buf', 1, point') \o kill_ring' \o SubSeq(buf', point' + 1, Len(buf'))
<1>1. ASSUME LineOK, Cut, buf' # buf
      PROVE  buf = SubSeq(buf', 1, point') \o kill_ring' \o SubSeq(buf', point' + 1, Len(buf'))
  <2>3. PICK lo \in static_length .. point : \E hi \in point .. length : Kill(lo, hi, TRUE)
    BY <1>1, CutForm
  <2>1. PICK hi \in point .. length : Kill(lo, hi, TRUE)
    BY <2>3
  <2>4. lo \in static_length .. length /\ hi \in lo .. length
    BY <1>1, LineFacts
  <2>2. buf = Spliced(buf', point', kill_ring', point')
    BY <1>1, <2>1, <2>4, KillBack
  <2> QED BY <2>2 DEF Spliced
<1>2. LineOK /\ [Next]_vars => [Comes]_vars
  BY <1>1
<1> QED BY <1>2, LineInvariant, PTL DEF Spec, KilledTextComesBack

-----------------------------------------------------------------------------
(* The loop of il_delete_horizontal_space.                                 *)

(* A space before the point is one that can be deleted, or the prompt's.   *)
GoesOnOrSticks == pc = "spaces" /\ SpaceBefore => StuckAtPrompt \/ point > static_length

(* Each iteration deletes a character, or is the last.                     *)
Shortens == pc = "spaces" => pc' = "ready" \/ Len(buf') < length

LEMMA SticksThere == ASSUME LineOK PROVE GoesOnOrSticks
<1> SUFFICES ASSUME pc = "spaces", SpaceBefore, ~(point > static_length)
             PROVE  StuckAtPrompt
  BY DEF GoesOnOrSticks
<1>1. point = static_length /\ point = Len(prompt) /\ length > static_length /\ point \in Nat
  BY LineFacts DEF SpaceBefore
<1>2. prompt \in Seq(Char) /\ Len(prompt) \in 1 .. length
  <2>1. prompt \in Seq(Char) /\ Len(prompt) # 0
    BY LineFacts, EmptySeq, InputLineAssumption DEF LineOK, TypeOK
  <2> QED BY <1>1, <2>1
<1>3. buf[Len(prompt)] = prompt[Len(prompt)]
  <2>1. SubSeq(buf, 1, Len(prompt)) = prompt
    BY LineFacts DEF LineOK, PromptIntact, Upto
  <2>2. \A i \in 1 .. Len(prompt) : buf[i] = prompt[i]
    BY <1>2, <2>1, PromptAt, LineFacts
  <2> QED BY <1>2, <2>2
<1>4. point - 1 + 1 = Len(prompt)
  BY <1>1
<1> QED BY <1>1, <1>3, <1>4 DEF StuckAtPrompt, SpaceBefore, At

LEMMA IterationShortens == ASSUME LineOK, [Next]_vars, ~(UNCHANGED vars) PROVE Shortens
<1> SUFFICES ASSUME pc = "spaces"
             PROVE  pc' = "ready" \/ Len(buf') < length
  BY DEF Shortens
<1>1. Loop
  BY DEF Next, Move, BackwardChar, ForwardChar, BackwardWordCmd, ForwardWordCmd, BeginningOfLine, EndOfLine,
     MoveTo, SetMark, ExchangePointAndMark, Insert, InsertChar, InsertText, Yank, Delete, DeleteChar,
     BackwardDeleteChar, DeleteHorizontalSpace, Cut, KillRegion, KillWord, BackwardKillWord, KillLine,
     KillToBeginningOfLine, KillToEndOfLine, Kill, KillRingSave, Recasing, DowncaseWord, UpcaseWord,
     CapitalizeWord, Recase, Program, SetStaticText, Question, Ready
<1>2. CASE SpacesDone
  BY <1>2 DEF SpacesDone
<1>3. CASE DeleteSpaceBefore
  <2>1. buf' = Joined(point - 1, point) /\ point - 1 \in Nat /\ point \in Nat /\ point <= length
    BY <1>3, LineFacts DEF DeleteSpaceBefore, BackwardDelete, Joined
  <2> DEFINE t == <<>>
  <2>2. t \in Seq(Char) /\ Len(t) = 0
    OBVIOUS
  <2>3. buf' = Spliced(buf, point - 1, t, point)
    <3>1. point - 1 \in 0 .. length /\ point \in 0 .. length
      BY <2>1, LineFacts
    <3> QED BY <2>1, <3>1, NoText
  <2> HIDE DEF t
  <2>4. IsSplice(buf', buf, point - 1, t, point)
    <3> DEFINE lo == point - 1
    <3>1. lo \in Nat /\ point \in Nat /\ lo <= point /\ point <= Len(buf) /\ buf \in Seq(Char)
      BY <2>1, LineFacts
    <3> HIDE DEF lo
    <3>2. IsSplice(Spliced(buf, lo, t, point), buf, lo, t, point)
      BY <2>2, <3>1, Splice
    <3> QED BY <2>3, <3>2 DEF lo
  <2> QED BY <2>1, <2>2, <2>4, LineFacts DEF IsSplice
<1> QED BY <1>1, <1>2, <1>3 DEF Loop

(* A command ends, or sticks at the first character of the text, for any   *)
(* text: in il_delete_horizontal_space's second loop every iteration       *)
(* shortens the line or is the last one, and it only fails to find a       *)
(* character it may delete when the prompt ends in a space.                *)
THEOREM LoopEndsOrSticks ==
  ASSUME AnyMark = FALSE
  PROVE  Spec => []GoesOnOrSticks /\ [][Shortens]_vars
<1>1. LineOK => GoesOnOrSticks
  BY SticksThere
<1>2. LineOK /\ [Next]_vars => [Shortens]_vars
  BY IterationShortens
<1> QED BY <1>1, <1>2, LineInvariant, PTL DEF Spec

-----------------------------------------------------------------------------
(* Pieces of a sequence, between two positions.                             *)
Between(b, i, j) == SubSeq(b, i + 1, j)

LEMMA FromStart == \A b, j : Between(b, 0, j) = SubSeq(b, 1, j)
<1>1. 0 + 1 = 1
  OBVIOUS
<1> QED BY <1>1 DEF Between

LEMMA BetweenIs ==
  ASSUME NEW b \in Seq(Char), NEW i \in Nat, NEW j \in Nat, i <= j, j <= Len(b)
  PROVE  /\ Between(b, i, j) \in Seq(Char) /\ Len(Between(b, i, j)) = j - i
         /\ \A k \in 1 .. j - i : Between(b, i, j)[k] = b[i + k]
<1>1. Len(b) \in Nat /\ \A k \in i + 1 .. j : b[k] \in Char
  BY LenProperties
<1>2. /\ SubSeq(b, i + 1, j) \in Seq(Char)
      /\ Len(SubSeq(b, i + 1, j)) = (IF i + 1 <= j THEN j - (i + 1) + 1 ELSE 0)
      /\ \A k \in 1 .. j - (i + 1) + 1 : SubSeq(b, i + 1, j)[k] = b[i + 1 + k - 1]
  BY <1>1, SubSeqProperties
<1>3. Len(SubSeq(b, i + 1, j)) = j - i
  BY <1>1, <1>2
<1>4. ASSUME NEW k \in 1 .. j - i PROVE SubSeq(b, i + 1, j)[k] = b[i + k]
  <2>1. k \in 1 .. j - (i + 1) + 1 /\ i + 1 + k - 1 = i + k
    OBVIOUS
  <2> QED BY <1>2, <2>1
<1> QED BY <1>2, <1>3, <1>4 DEF Between

(* Two sequences with the same characters there have the same piece.       *)
LEMMA SamePiece ==
  ASSUME NEW b \in Seq(Char), NEW i \in Nat, NEW j \in Nat, i <= j, j <= Len(b),
         NEW c \in Seq(Char), Len(c) = j - i, \A k \in 1 .. j - i : c[k] = b[i + k]
  PROVE  Between(b, i, j) = c
<1>1. /\ Between(b, i, j) \in Seq(Char) /\ Len(Between(b, i, j)) = j - i
      /\ \A k \in 1 .. j - i : Between(b, i, j)[k] = b[i + k]
  BY BetweenIs
<1> DEFINE d == Between(b, i, j)
<1>2. d \in Seq(Char) /\ Len(d) = Len(c) /\ \A k \in 1 .. Len(d) : d[k] = c[k]
  BY <1>1
<1> HIDE DEF d
<1>3. d = c
  BY <1>2, SeqEqual
<1> QED BY <1>3 DEF d

(* A piece of a piece.                                                     *)
LEMMA PieceOfPiece ==
  ASSUME NEW b \in Seq(Char), NEW i \in Nat, NEW j \in Nat, i <= j, j <= Len(b),
         NEW m \in Nat, NEW n \in Nat, m <= n, n <= j - i
  PROVE  Between(Between(b, i, j), m, n) = Between(b, i + m, i + n)
<1> DEFINE d == Between(b, i, j)
           e == Between(b, i + m, i + n)
<1>1. d \in Seq(Char) /\ Len(d) = j - i /\ \A k \in 1 .. j - i : d[k] = b[i + k]
  BY BetweenIs
<1>2. i + m \in Nat /\ i + n \in Nat /\ i + m <= i + n /\ i + n <= Len(b)
  BY LenProperties
<1>3. e \in Seq(Char) /\ Len(e) = i + n - (i + m) /\ \A k \in 1 .. i + n - (i + m) : e[k] = b[i + m + k]
  <2> DEFINE p == i + m
             q == i + n
  <2>1. p \in Nat /\ q \in Nat /\ p <= q /\ q <= Len(b)
    BY <1>2
  <2> HIDE DEF p, q
  <2>2. /\ Between(b, p, q) \in Seq(Char) /\ Len(Between(b, p, q)) = q - p
        /\ \A k \in 1 .. q - p : Between(b, p, q)[k] = b[p + k]
    BY <2>1, BetweenIs
  <2> QED BY <2>2 DEF p, q
<1> HIDE DEF d, e
<1>4. Len(e) = n - m /\ n <= Len(d)
  BY <1>1, <1>3
<1>5. ASSUME NEW k \in 1 .. n - m PROVE e[k] = d[m + k]
  <2>1. k \in 1 .. i + n - (i + m) /\ m + k \in 1 .. j - i /\ i + (m + k) = i + m + k
    OBVIOUS
  <2> QED BY <1>1, <1>3, <2>1
<1>6. Between(d, m, n) = e
  BY <1>1, <1>3, <1>4, <1>5, SamePiece
<1> QED BY <1>6 DEF d, e

(* Two pieces that meet.                                                   *)
LEMMA PiecesJoin ==
  ASSUME NEW b \in Seq(Char), NEW i \in Nat, NEW j \in Nat, NEW k \in Nat, i <= j, j <= k, k <= Len(b)
  PROVE  Between(b, i, j) \o Between(b, j, k) = Between(b, i, k)
<1> DEFINE d == Between(b, i, j)
           e == Between(b, j, k)
<1>0. Len(b) \in Nat /\ j <= Len(b)
  BY LenProperties
<1>1. d \in Seq(Char) /\ Len(d) = j - i /\ \A m \in 1 .. j - i : d[m] = b[i + m]
  BY <1>0, BetweenIs
<1>2. e \in Seq(Char) /\ Len(e) = k - j /\ \A m \in 1 .. k - j : e[m] = b[j + m]
  BY BetweenIs
<1> HIDE DEF d, e
<1>3. /\ d \o e \in Seq(Char) /\ Len(d \o e) = Len(d) + Len(e)
      /\ \A m \in 1 .. Len(d) + Len(e) : (d \o e)[m] = IF m <= Len(d) THEN d[m] ELSE e[m - Len(d)]
  BY <1>1, <1>2, ConcatProperties
<1>4. Len(d \o e) = k - i /\ i <= k
  BY <1>1, <1>2, <1>3
<1>5. ASSUME NEW m \in 1 .. k - i PROVE (d \o e)[m] = b[i + m]
  <2>1. m \in 1 .. Len(d) + Len(e)
    BY <1>1, <1>2
  <2>2. CASE m <= j - i
    BY <1>1, <1>3, <2>1, <2>2
  <2>3. CASE ~(m <= j - i)
    <3> DEFINE h == m - (j - i)
    <3>1. h \in 1 .. k - j /\ j + h = i + m
      BY <2>3
    <3>2. (d \o e)[m] = e[h]
      BY <1>1, <1>3, <2>1, <2>3
    <3> HIDE DEF h
    <3>3. e[h] = b[j + h]
      BY <1>2, <3>1
    <3> QED BY <3>1, <3>2, <3>3
  <2> QED BY <2>2, <2>3
<1>6. Between(b, i, k) = d \o e
  BY <1>3, <1>4, <1>5, SamePiece
<1> QED BY <1>6 DEF d, e

(* r has the pieces of the line b, from s on, but t between lo and hi.     *)
PiecesAround(r, b, s, lo, t, hi) ==
  /\ Between(r, s, lo) = Between(b, s, lo)
  /\ Between(r, s, lo + Len(t)) = Between(b, s, lo) \o t
  /\ Between(r, lo + Len(t), Len(r)) = Between(b, hi, Len(b))

LEMMA SplicedPieces ==
  ASSUME NEW b \in Seq(Char), NEW lo \in Nat, NEW hi \in Nat, lo <= hi, hi <= Len(b), NEW t \in Seq(Char),
         NEW s \in Nat, s <= lo
  PROVE  PiecesAround(Spliced(b, lo, t, hi), b, s, lo, t, hi)
<1> DEFINE r == Spliced(b, lo, t, hi)
<1>0. Len(b) \in Nat /\ Len(t) \in Nat /\ lo <= Len(b)
  BY LenProperties
<1>s. IsSplice(r, b, lo, t, hi)
  BY Splice
<1>1. /\ r \in Seq(Char) /\ Len(r) = lo + Len(t) + Len(b) - hi
      /\ \A i \in 1 .. lo : r[i] = b[i]
      /\ \A i \in 1 .. Len(t) : r[lo + i] = t[i]
      /\ \A i \in 1 .. Len(b) - hi : r[lo + Len(t) + i] = b[hi + i]
  BY <1>s DEF IsSplice
<1> HIDE DEF r
<1>2. Between(r, s, lo) = Between(b, s, lo)
  <2> DEFINE c == Between(b, s, lo)
  <2>1. c \in Seq(Char) /\ Len(c) = lo - s /\ \A k \in 1 .. lo - s : c[k] = b[s + k]
    BY <1>0, BetweenIs
  <2> HIDE DEF c
  <2>2. ASSUME NEW k \in 1 .. lo - s PROVE c[k] = r[s + k]
    <3>1. s + k \in 1 .. lo
      OBVIOUS
    <3> QED BY <1>1, <2>1, <3>1
  <2>3. lo <= Len(r)
    BY <1>0, <1>1
  <2>4. Between(r, s, lo) = c
    BY <1>1, <2>1, <2>2, <2>3, SamePiece
  <2> QED BY <2>4 DEF c
<1>3. Between(r, lo, lo + Len(t)) = t
  <2> DEFINE m == lo + Len(t)
  <2>1. m \in Nat /\ lo <= m /\ m <= Len(r) /\ m - lo = Len(t)
    BY <1>0, <1>1
  <2> HIDE DEF m
  <2>2. Len(t) = m - lo /\ \A k \in 1 .. m - lo : t[k] = r[lo + k]
    BY <1>1, <2>1
  <2>3. Between(r, lo, m) = t
    BY <1>1, <2>1, <2>2, SamePiece
  <2> QED BY <2>3 DEF m
<1>4. Between(r, s, lo + Len(t)) = Between(b, s, lo) \o t
  <2>1. lo + Len(t) \in Nat /\ lo <= lo + Len(t) /\ lo + Len(t) <= Len(r)
    BY <1>0, <1>1
  <2>2. Between(r, s, lo) \o Between(r, lo, lo + Len(t)) = Between(r, s, lo + Len(t))
    BY <1>1, <2>1, PiecesJoin
  <2> QED BY <1>2, <1>3, <2>2
<1>5. Between(r, lo + Len(t), Len(r)) = Between(b, hi, Len(b))
  <2> DEFINE c == Between(b, hi, Len(b))
             m == lo + Len(t)
  <2>1. c \in Seq(Char) /\ Len(c) = Len(b) - hi /\ \A k \in 1 .. Len(b) - hi : c[k] = b[hi + k]
    <3> DEFINE l == Len(b)
    <3>1. l \in Nat /\ l <= Len(b) /\ hi <= l
      BY <1>0
    <3> HIDE DEF l
    <3>2. /\ Between(b, hi, l) \in Seq(Char) /\ Len(Between(b, hi, l)) = l - hi
          /\ \A k \in 1 .. l - hi : Between(b, hi, l)[k] = b[hi + k]
      BY <3>1, BetweenIs
    <3> QED BY <3>2 DEF l
  <2>2. m \in Nat /\ m <= Len(r) /\ Len(r) - m = Len(b) - hi /\ Len(r) \in Nat
    BY <1>0, <1>1
  <2>3. \A k \in 1 .. Len(b) - hi : r[m + k] = b[hi + k]
    BY <1>1
  <2> HIDE DEF c, m
  <2>4. \A k \in 1 .. Len(r) - m : c[k] = r[m + k]
    BY <2>1, <2>2, <2>3
  <2> DEFINE l == Len(r)
  <2>5. /\ l \in Nat /\ l <= Len(r) /\ m \in Nat /\ m <= l /\ Len(c) = l - m
        /\ \A k \in 1 .. l - m : c[k] = r[m + k]
        /\ r \in Seq(Char) /\ c \in Seq(Char)
    BY <1>1, <2>1, <2>2, <2>4
  <2> HIDE DEF l
  <2>6. Between(r, m, l) = c
    BY <2>5, SamePiece
  <2> QED BY <2>6 DEF c, m, l
<1>6. PiecesAround(r, b, s, lo, t, hi)
  BY <1>2, <1>4, <1>5 DEF PiecesAround
<1> QED BY <1>6 DEF r

-----------------------------------------------------------------------------
(* The line as the module Editor sees it.                                   *)

TextBefore == Between(buf, static_length, point)
TextAfter  == Between(buf, point, length)

LEMMA TextFacts ==
  ASSUME LineOK
  PROVE  /\ TextBefore \in Seq(Char) /\ Len(TextBefore) = point - static_length
         /\ TextAfter \in Seq(Char) /\ Len(TextAfter) = length - point
<1>1. /\ buf \in Seq(Char) /\ static_length \in Nat /\ point \in Nat /\ length \in Nat
      /\ static_length <= point /\ point <= length
  BY LineFacts
<1>2. TextBefore \in Seq(Char) /\ Len(TextBefore) = point - static_length
  BY <1>1, BetweenIs DEF TextBefore
<1>3. TextAfter \in Seq(Char) /\ Len(TextAfter) = length - point
  <2> DEFINE l == Len(buf)
  <2>1. l \in Nat /\ l <= Len(buf) /\ point <= l
    BY <1>1
  <2> HIDE DEF l
  <2>2. Between(buf, point, l) \in Seq(Char) /\ Len(Between(buf, point, l)) = l - point
    BY <1>1, <2>1, BetweenIs
  <2> QED BY <2>2 DEF l, TextAfter
<1> QED BY <1>2, <1>3

(* What is put at the point comes to lie before it.                        *)
LEMMA TypedStep ==
  ASSUME LineOK, NEW t \in Seq(Char), t \in Ed!Typed,
         buf' = Spliced(buf, point, t, point), point' = point + Len(t),
         UNCHANGED <<static_length, kill_ring>>
  PROVE  Ed!Type
<1>1. /\ buf \in Seq(Char) /\ static_length \in Nat /\ point \in Nat
      /\ static_length <= point /\ point <= Len(buf) /\ point <= point
  BY LineFacts
<1>2. /\ Between(buf', static_length, point + Len(t)) = Between(buf, static_length, point) \o t
      /\ Between(buf', point + Len(t), Len(buf')) = Between(buf, point, Len(buf))
  <2> DEFINE b == buf
             r == buf'
             s == static_length
             k == point
             h == point
  <2>1. /\ b \in Seq(Char) /\ k \in Nat /\ h \in Nat /\ k <= h /\ h <= Len(b) /\ s \in Nat /\ s <= k
        /\ t \in Seq(Char) /\ r = Spliced(b, k, t, h)
    BY <1>1
  <2> HIDE DEF b, r, s, k, h
  <2>2. PiecesAround(Spliced(b, k, t, h), b, s, k, t, h)
    BY <2>1, SplicedPieces
  <2>3. /\ Between(r, s, k + Len(t)) = Between(b, s, k) \o t
        /\ Between(r, k + Len(t), Len(r)) = Between(b, h, Len(b))
    BY <2>1, <2>2 DEF PiecesAround
  <2> QED BY <2>3 DEF b, r, s, k, h
<1>3. TextBefore' = TextBefore \o t /\ TextAfter' = TextAfter
  BY <1>2 DEF TextBefore, TextAfter, Between
<1> QED BY <1>3 DEF TextBefore, TextAfter, Between, Beyond, Ed!Type

LEMMA MovedStep ==
  ASSUME LineOK, point' \in static_length .. length, UNCHANGED <<buf, static_length, kill_ring>>
  PROVE  Ed!Move
<1> DEFINE T == Between(buf, static_length, length)
           k == point' - static_length
<1>1. /\ buf \in Seq(Char) /\ static_length \in Nat /\ point \in Nat /\ length \in Nat
      /\ static_length <= point /\ point <= length /\ point' \in Nat
      /\ static_length <= point' /\ point' <= length /\ length <= Len(buf)
  BY LineFacts
<1>2. TextBefore \o TextAfter = T
  <2> DEFINE l == Len(buf)
  <2>1. l \in Nat /\ l <= Len(buf) /\ point <= l
    BY <1>1
  <2> HIDE DEF l
  <2>2. Between(buf, static_length, point) \o Between(buf, point, l) = Between(buf, static_length, l)
    BY <1>1, <2>1, PiecesJoin
  <2> QED BY <2>2 DEF l, TextBefore, TextAfter
<1>3. /\ Len(T) = length - static_length
      /\ \A m, n \in Nat : m <= n /\ n <= length - static_length =>
           Between(T, m, n) = Between(buf, static_length + m, static_length + n)
  <2> DEFINE l == Len(buf)
  <2>1. l \in Nat /\ l <= Len(buf) /\ static_length <= l
    BY <1>1
  <2> HIDE DEF l
  <2>2. Between(buf, static_length, l) \in Seq(Char) /\ Len(Between(buf, static_length, l)) = l - static_length
    BY <1>1, <2>1, BetweenIs
  <2>3. \A m, n \in Nat : m <= n /\ n <= l - static_length =>
          Between(Between(buf, static_length, l), m, n) = Between(buf, static_length + m, static_length + n)
    BY <1>1, <2>1, PieceOfPiece
  <2> QED BY <2>2, <2>3 DEF l
<1> HIDE DEF T
<1>4. k \in 0 .. Len(T) /\ k \in Nat /\ Len(T) \in Nat /\ 0 <= k /\ k <= Len(T)
      /\ static_length + 0 = static_length /\ static_length + k = point' /\ static_length + Len(T) = length
  <2> DEFINE n == Len(T)
             l == Len(buf)
             q == point'
             s == static_length
  <2>1. n = l - s
    BY <1>3
  <2>2. l \in Nat /\ s \in Nat /\ q \in Nat /\ s <= q /\ q <= l
    BY <1>1
  <2> HIDE DEF n, l, q, s
  <2>3. ASSUME NEW d, d = q - s
        PROVE  /\ d \in 0 .. n /\ d \in Nat /\ n \in Nat /\ 0 <= d /\ d <= n
               /\ s + 0 = s /\ s + d = q /\ s + n = l
    BY <2>1, <2>2, <2>3
  <2>4. k = q - s
    BY DEF q, s
  <2> HIDE DEF k
  <2>5. /\ k \in 0 .. n /\ k \in Nat /\ n \in Nat /\ 0 <= k /\ k <= n
        /\ s + 0 = s /\ s + k = q /\ s + n = l
    BY <2>3, <2>4
  <2> QED BY <2>5 DEF n, l, q, s
<1>5. Between(T, 0, k) = TextBefore'
  <2>1. Between(T, 0, k) = Between(buf, static_length + 0, static_length + k)
    BY <1>3, <1>4
  <2> QED BY <1>4, <2>1 DEF TextBefore, Between
<1>6. Between(T, k, Len(T)) = TextAfter'
  <2>1. Between(T, k, Len(T)) = Between(buf, static_length + k, static_length + Len(T))
    BY <1>3, <1>4
  <2> QED BY <1>4, <2>1 DEF TextAfter, Between
<1> HIDE DEF k
<1>7. TextBefore' = SubSeq(T, 1, k) /\ TextAfter' = SubSeq(T, k + 1, Len(T))
  BY <1>5, <1>6 DEF Between
<1>8. Ed!Text = T
  BY <1>2 DEF Ed!Text, TextBefore, TextAfter, Between, Beyond
<1> QED BY <1>4, <1>7, <1>8 DEF Ed!Move, TextBefore, TextAfter, Between, Beyond

(* A piece that reaches to the point, from lo to hi.                        *)
LEMMA ReachedPiece ==
  ASSUME LineOK, NEW lo \in static_length .. point, NEW hi \in point .. length
  PROVE  /\ <<lo - static_length, hi - point>> \in Ed!Reach
         /\ Ed!Piece(lo - static_length, hi - point) = Stored(lo, hi)
         /\ SubSeq(TextBefore, 1, lo - static_length) = Between(buf, static_length, lo)
         /\ SubSeq(TextAfter, hi - point + 1, Len(TextAfter)) = Between(buf, hi, Len(buf))
<1> DEFINE i == lo - static_length
           j == hi - point
           n == Len(TextBefore)
           m == Len(TextAfter)
           l == Len(buf)
<1>1. /\ buf \in Seq(Char) /\ static_length \in Nat /\ point \in Nat /\ l \in Nat
      /\ static_length <= point /\ point <= l /\ lo \in Nat /\ hi \in Nat
      /\ l <= Len(buf) /\ hi <= l /\ lo <= point /\ point <= hi /\ static_length <= lo
  BY LineFacts
<1>2. n = point - static_length /\ m = l - point
  BY TextFacts
<1>3. TextAfter = Between(buf, point, l)
  BY DEF TextAfter
<1>4. hi <= Len(buf) /\ point <= Len(buf)
  BY <1>1
<1> HIDE DEF n, m, l
<1>5. /\ i \in Nat /\ j \in Nat /\ n \in Nat /\ m \in Nat /\ 0 <= i /\ i <= n /\ 0 <= j /\ j <= m
      /\ n <= point - static_length /\ m <= l - point /\ i <= point - static_length /\ j <= l - point
      /\ static_length + 0 = static_length /\ static_length + i = lo /\ static_length + n = point
      /\ point + 0 = point /\ point + j = hi /\ point + m = l
  BY <1>1, <1>2
<1> HIDE DEF i, j
<1>6. /\ Between(TextBefore, 0, i) = Between(buf, static_length, lo)
      /\ Between(TextBefore, i, n) = Between(buf, lo, point)
  <2>1. /\ Between(Between(buf, static_length, point), 0, i) = Between(buf, static_length + 0, static_length + i)
        /\ Between(Between(buf, static_length, point), i, n) = Between(buf, static_length + i, static_length + n)
    BY <1>1, <1>4, <1>5, PieceOfPiece
  <2> QED BY <1>5, <2>1 DEF TextBefore
<1>7. /\ Between(TextAfter, 0, j) = Between(buf, point, hi)
      /\ Between(TextAfter, j, m) = Between(buf, hi, l)
  <2>1. /\ Between(Between(buf, point, l), 0, j) = Between(buf, point + 0, point + j)
        /\ Between(Between(buf, point, l), j, m) = Between(buf, point + j, point + m)
    BY <1>1, <1>5, PieceOfPiece
  <2> QED BY <1>3, <1>5, <2>1
<1>8. Between(buf, lo, point) \o Between(buf, point, hi) = Between(buf, lo, hi)
  BY <1>1, <1>4, PiecesJoin
<1>9. <<i, j>> \in Ed!Reach
  <2>1. i \in 0 .. Len(TextBefore) /\ j \in 0 .. Len(TextAfter)
    BY <1>5 DEF n, m
  <2> QED BY <2>1 DEF Ed!Reach, TextBefore, TextAfter, Between, Beyond
<1>10. SubSeq(TextBefore, i + 1, Len(TextBefore)) \o SubSeq(TextAfter, 1, j) = Stored(lo, hi)
  <2>1. SubSeq(TextBefore, i + 1, Len(TextBefore)) = Between(buf, lo, point)
    BY <1>6 DEF Between, n
  <2>2. SubSeq(TextAfter, 1, j) = Between(buf, point, hi)
    BY <1>7, FromStart
  <2>3. Stored(lo, hi) = Between(buf, lo, hi)
    BY DEF Between, Stored
  <2> QED BY <1>8, <2>1, <2>2, <2>3
<1>11. Ed!Piece(i, j) = Stored(lo, hi)
  BY <1>10 DEF Ed!Piece, TextBefore, TextAfter, Between, Beyond
<1>12. /\ SubSeq(TextBefore, 1, i) = Between(buf, static_length, lo)
       /\ SubSeq(TextAfter, j + 1, Len(TextAfter)) = Between(buf, hi, Len(buf))
  <2>1. SubSeq(TextBefore, 1, i) = Between(buf, static_length, lo)
    BY <1>6, FromStart
  <2>2. SubSeq(TextAfter, j + 1, Len(TextAfter)) = Between(buf, hi, Len(buf))
    BY <1>7 DEF Between, m, l
  <2> QED BY <2>1, <2>2
<1> QED BY <1>9, <1>11, <1>12 DEF i, j

(* Cutting the line around the point takes such a piece away.               *)
LEMMA RemovedPiece ==
  ASSUME LineOK, NEW lo \in static_length .. point, NEW hi \in point .. length,
         buf' = Joined(lo, hi), point' = lo, static_length' = static_length
  PROVE  Ed!Remove(lo - static_length, hi - point)
<1> DEFINE t == << >>
           i == lo - static_length
           j == hi - point
<1>1. /\ buf \in Seq(Char) /\ static_length \in Nat /\ lo \in Nat /\ hi \in Nat /\ lo <= hi /\ hi <= Len(buf)
      /\ static_length <= lo /\ lo \in 0 .. length /\ hi \in 0 .. length
  BY LineFacts
<1>2. t \in Seq(Char) /\ Len(t) = 0 /\ lo + Len(t) = lo
  BY <1>1
<1>3. buf' = Spliced(buf, lo, t, hi)
  BY <1>1, NoText
<1> HIDE DEF t
<1>4. /\ Between(buf', static_length, lo) = Between(buf, static_length, lo)
      /\ Between(buf', lo + Len(t), Len(buf')) = Between(buf, hi, Len(buf))
  <2> DEFINE b == buf
             r == buf'
             s == static_length
  <2>1. /\ b \in Seq(Char) /\ lo \in Nat /\ hi \in Nat /\ lo <= hi /\ hi <= Len(b)
        /\ t \in Seq(Char) /\ s \in Nat /\ s <= lo
        /\ r = Spliced(b, lo, t, hi)
    BY <1>1, <1>2, <1>3
  <2> HIDE DEF b, r, s
  <2>2. PiecesAround(Spliced(b, lo, t, hi), b, s, lo, t, hi)
    BY <2>1, SplicedPieces
  <2>3. /\ Between(r, s, lo) = Between(b, s, lo)
        /\ Between(r, lo + Len(t), Len(r)) = Between(b, hi, Len(b))
    BY <2>1, <2>2 DEF PiecesAround
  <2> QED BY <2>3 DEF b, r, s
<1>5. TextBefore' = Between(buf, static_length, lo) /\ TextAfter' = Between(buf, hi, Len(buf))
  BY <1>2, <1>4 DEF TextBefore, TextAfter, Between
<1>6. /\ SubSeq(TextBefore, 1, i) = Between(buf, static_length, lo)
      /\ SubSeq(TextAfter, j + 1, Len(TextAfter)) = Between(buf, hi, Len(buf))
  BY ReachedPiece
<1> HIDE DEF i, j
<1>7. TextBefore' = SubSeq(TextBefore, 1, i) /\ TextAfter' = SubSeq(TextAfter, j + 1, Len(TextAfter))
  BY <1>5, <1>6
<1>8. Ed!Remove(i, j)
  BY <1>7 DEF Ed!Remove, TextBefore, TextAfter, Between, Beyond
<1> QED BY <1>8 DEF i, j

LEMMA ErasedStep ==
  ASSUME LineOK, NEW lo \in static_length .. point, NEW hi \in point .. length,
         buf' = Joined(lo, hi), point' = lo, UNCHANGED <<static_length, kill_ring>>
  PROVE  Ed!Erase
<1> DEFINE r == <<lo - static_length, hi - point>>
<1>1. r \in Ed!Reach /\ Ed!Remove(r[1], r[2])
  BY ReachedPiece, RemovedPiece
<1> QED BY <1>1 DEF Ed!Erase

(* A kill of nothing changes nothing.                                       *)
LEMMA KilledStep ==
  ASSUME LineOK, NEW lo \in static_length .. point, NEW hi \in point .. length, Kill(lo, hi, TRUE),
         UNCHANGED static_length
  PROVE  Ed!Kill \/ Ed!Erase
<1> DEFINE r == <<lo - static_length, hi - point>>
<1>1. buf' = Joined(lo, hi) /\ point' = lo /\ kill_ring' = IF lo < hi THEN Stored(lo, hi) ELSE kill_ring
  BY DEF Kill, Joined
<1>2. CASE lo < hi
  <2>1. r \in Ed!Reach /\ Ed!Remove(r[1], r[2]) /\ Ed!Piece(r[1], r[2]) = Stored(lo, hi)
    BY <1>1, ReachedPiece, RemovedPiece
  <2> QED BY <1>1, <1>2, <2>1 DEF Ed!Kill
<1>3. CASE ~(lo < hi)
  BY <1>1, <1>3, ErasedStep
<1> QED BY <1>2, <1>3

(* Every insertion puts at the point what may be typed there.               *)
LEMMA InsertsTyped == ASSUME LineOK, Insert PROVE Ed!Type
<1>1. ASSUME NEW c \in Char, InsertChar(c) PROVE Ed!Type
  <2> DEFINE t == <<c>>
  <2>1. t \in Seq(Char) /\ t \in Ed!Typed /\ Len(t) = 1
    BY DEF Ed!Typed
  <2>2. /\ buf' = Spliced(buf, point, t, point) /\ point' = point + 1
        /\ UNCHANGED <<static_length, kill_ring>>
    BY <1>1 DEF InsertChar, Spliced, Upto, Beyond
  <2> HIDE DEF t
  <2> QED BY <2>1, <2>2, TypedStep
<1>2. ASSUME NEW t \in Seq(Char), t \in Ed!Typed, InsertText(t) PROVE Ed!Type
  <2>1. /\ buf' = Spliced(buf, point, t, point) /\ point' = point + Len(t)
        /\ UNCHANGED <<static_length, kill_ring>>
    BY <1>2 DEF InsertText, Spliced, Upto, Beyond
  <2> QED BY <1>2, <2>1, TypedStep
<1>3. ASSUME NEW t \in Texts, InsertText(t) PROVE Ed!Type
  <2>1. t \in Seq(Char) /\ t \in Ed!Typed
    BY InputLineAssumption DEF Ed!Typed
  <2> QED BY <1>2, <1>3, <2>1
<1>4. CASE Yank
  <2>1. kill_ring \in Seq(Char) /\ kill_ring \in Ed!Typed
    BY LineFacts DEF Ed!Typed
  <2> QED BY <1>2, <1>4, <2>1 DEF Yank
<1> QED BY <1>1, <1>3, <1>4 DEF Insert

(* Deleting takes a piece before or a piece after the point away.           *)
LEMMA DeletesErase == ASSUME LineOK, Delete PROVE Ed!Erase
<1>0. point \in static_length .. point /\ point \in point .. length
  BY LineFacts
<1>1. CASE DeleteChar
  <2>1. point + 1 \in point .. length
    BY <1>1, LineFacts DEF DeleteChar
  <2>2. buf' = Joined(point, point + 1) /\ point' = point /\ UNCHANGED <<static_length, kill_ring>>
    BY <1>1 DEF DeleteChar, Joined
  <2> QED BY <1>0, <2>1, <2>2, ErasedStep
<1>2. CASE BackwardDeleteChar
  <2>1. point - 1 \in static_length .. point
    BY <1>2, LineFacts DEF BackwardDeleteChar, BackwardDelete
  <2>2. buf' = Joined(point - 1, point) /\ point' = point - 1 /\ UNCHANGED <<static_length, kill_ring>>
    BY <1>2 DEF BackwardDeleteChar, BackwardDelete, Joined
  <2> QED BY <1>0, <2>1, <2>2, ErasedStep
<1>3. ASSUME NEW o \in BOOLEAN, DeleteHorizontalSpace(o) PROVE Ed!Erase
  <2> DEFINE k == FirstFrom(point, Char \ {Space})
  <2>1. k \in point .. length
    BY LineFacts, FirstFromBounds
  <2>2. buf' = Joined(point, k) /\ point' = point /\ UNCHANGED <<static_length, kill_ring>>
    BY <1>3 DEF DeleteHorizontalSpace, Joined
  <2> HIDE DEF k
  <2> QED BY <1>0, <2>1, <2>2, ErasedStep
<1> QED BY <1>1, <1>2, <1>3 DEF Delete

(* The loop of il_delete_horizontal_space erases character by character.    *)
LEMMA LoopErases == ASSUME LineOK, Loop PROVE Ed!Erase \/ Ed!Type \/ UNCHANGED Ed!vars
<1>1. CASE DeleteSpaceBefore
  <2>1. point - 1 \in static_length .. point /\ point \in point .. length
    BY <1>1, LineFacts DEF DeleteSpaceBefore, BackwardDelete
  <2>2. buf' = Joined(point - 1, point) /\ point' = point - 1 /\ UNCHANGED <<static_length, kill_ring>>
    BY <1>1 DEF DeleteSpaceBefore, BackwardDelete, Joined
  <2> QED BY <2>1, <2>2, ErasedStep
<1>2. CASE SpacesDone /\ one
  <2> DEFINE t == <<Space>>
  <2>1. t \in Seq(Char) /\ t \in Ed!Typed /\ Len(t) = 1
    BY InputLineAssumption DEF Ed!Typed
  <2>2. /\ buf' = Spliced(buf, point, t, point) /\ point' = point + 1
        /\ UNCHANGED <<static_length, kill_ring>>
    BY <1>2 DEF SpacesDone, Spliced, Upto, Beyond
  <2> HIDE DEF t
  <2> QED BY <2>1, <2>2, TypedStep
<1>3. CASE SpacesDone /\ ~one
  BY <1>3 DEF SpacesDone, Ed!vars, Beyond
<1> QED BY <1>1, <1>2, <1>3 DEF Loop

LEMMA CutKills == ASSUME LineOK, AnyMark = FALSE, Cut PROVE Ed!Kill \/ Ed!Erase
<1>1. PICK lo \in static_length .. point : \E hi \in point .. length :
        Kill(lo, hi, TRUE) /\ mark' \in Int /\ UNCHANGED <<static_length, pc, one, prompt>>
  BY CutForm
<1>2. PICK hi \in point .. length : Kill(lo, hi, TRUE) /\ UNCHANGED static_length
  BY <1>1
<1> QED BY <1>2, KilledStep

LEMMA RegionSaved == ASSUME LineOK, AnyMark = FALSE, KillRingSave PROVE Ed!Save
<1> DEFINE lo == Lesser(point, mark)
           hi == Greater(point, mark)
           r == <<lo - static_length, hi - point>>
<1>1. mark \in static_length .. length
  BY LineFacts DEF KillRingSave, Usable, FreshMark, InDynamic
<1>2. lo \in static_length .. point /\ hi \in point .. length
  BY <1>1, LineFacts DEF Lesser, Greater
<1>3. kill_ring' = Stored(lo, hi) /\ UNCHANGED <<buf, static_length, point>>
  BY DEF KillRingSave
<1> HIDE DEF lo, hi
<1>4. r \in Ed!Reach /\ Ed!Piece(r[1], r[2]) = Stored(lo, hi)
  BY <1>2, ReachedPiece
<1> QED BY <1>3, <1>4 DEF Ed!Save, Beyond

(* Behind another prompt the text is the same.                              *)
LEMMA Behind ==
  ASSUME NEW p \in Seq(Char), NEW t \in Seq(Char), NEW m \in Nat, NEW n \in Nat, m <= n, n <= Len(t)
  PROVE  Between(p \o t, Len(p) + m, Len(p) + n) = Between(t, m, n)
<1> DEFINE b == p \o t
           c == Between(t, m, n)
           i == Len(p) + m
           j == Len(p) + n
<1>0. Len(p) \in Nat /\ Len(t) \in Nat
  BY LenProperties
<1>1. b \in Seq(Char) /\ Len(b) = Len(p) + Len(t)
      /\ \A k \in 1 .. Len(p) + Len(t) : b[k] = IF k <= Len(p) THEN p[k] ELSE t[k - Len(p)]
  BY ConcatProperties
<1>2. c \in Seq(Char) /\ Len(c) = n - m /\ \A k \in 1 .. n - m : c[k] = t[m + k]
  BY BetweenIs
<1> HIDE DEF b, c
<1>3. i \in Nat /\ j \in Nat /\ i <= j /\ j <= Len(b) /\ j - i = n - m
  BY <1>0, <1>1
<1>4. ASSUME NEW k \in 1 .. n - m PROVE c[k] = b[i + k]
  <2> DEFINE h == i + k
  <2>1. h \in 1 .. Len(p) + Len(t) /\ ~(h <= Len(p)) /\ h - Len(p) = m + k
    BY <1>0
  <2> HIDE DEF h
  <2>2. b[h] = t[h - Len(p)]
    BY <1>1, <2>1
  <2>3. t[h - Len(p)] = t[m + k]
    BY <2>1
  <2>4. c[k] = t[m + k]
    BY <1>2
  <2> QED BY <2>2, <2>3, <2>4 DEF h
<1> HIDE DEF i, j
<1>5. Between(b, i, j) = c
  <2>1. Len(c) = j - i
    BY <1>2, <1>3
  <2>2. ASSUME NEW k \in 1 .. j - i PROVE c[k] = b[i + k]
    <3>1. k \in 1 .. n - m
      BY <1>3
    <3> QED BY <1>4, <3>1
  <2>3. b \in Seq(Char) /\ c \in Seq(Char) /\ i \in Nat /\ j \in Nat /\ i <= j /\ j <= Len(b)
    BY <1>1, <1>2, <1>3
  <2> QED BY <2>1, <2>2, <2>3, SamePiece
<1> QED BY <1>5 DEF b, c, i, j

(* A new prompt makes no difference to the text, a new question is asked    *)
(* with its default answer.                                                 *)
LEMMA ProgramAsks == ASSUME LineOK, Program PROVE Ed!Erase \/ Ed!Ask \/ UNCHANGED Ed!vars
<1> DEFINE s == static_length
           l == length
<1>0. /\ buf \in Seq(Char) /\ s \in Nat /\ l \in Nat /\ point \in Nat /\ s <= point /\ point <= l
      /\ s <= l /\ l <= Len(buf)
  BY LineFacts
<1>1. CASE KillLine(FALSE)
  <2>1. s \in static_length .. point /\ l \in point .. length
    BY LineFacts
  <2>2. buf' = Joined(s, l) /\ point' = s /\ UNCHANGED <<static_length, kill_ring>>
    BY <1>1 DEF KillLine, Kill, Joined
  <2> HIDE DEF s, l
  <2> QED BY <2>1, <2>2, ErasedStep
<1>2. ASSUME NEW p \in Prompts, SetStaticText(p) PROVE UNCHANGED Ed!vars
  <2> DEFINE t == Between(buf, s, l)
             m == point - s
             n == Len(t)
             i == Len(p)
  <2>1. p \in Seq(Char) /\ i \in Nat
    BY InputLineAssumption, LenProperties
  <2>2. /\ buf' = p \o t /\ point' = point + i - s /\ static_length' = i /\ kill_ring' = kill_ring
    BY <1>2 DEF SetStaticText, Beyond, Between
  <2> HIDE DEF s, l
  <2>3. t \in Seq(Char) /\ n = l - s
    BY <1>0, BetweenIs
  <2>4. Len(p \o t) = i + n
    <3> HIDE DEF t
    <3> QED BY <2>1, <2>3, ConcatProperties DEF n, i
  <2> HIDE DEF t, n, i
  <2>5. /\ m \in Nat /\ n \in Nat /\ 0 <= m /\ m <= n /\ n <= n /\ m <= l - s /\ n <= l - s
        /\ i + 0 = i /\ i + m = point' /\ s + 0 = s /\ s + m = point /\ s + n = l
    BY <1>0, <2>1, <2>2, <2>3
  <2> HIDE DEF m
  <2>6. /\ Between(p \o t, i + 0, i + m) = Between(t, 0, m)
        /\ Between(p \o t, i + m, i + n) = Between(t, m, n)
    BY <2>1, <2>3, <2>5, Behind DEF n, i
  <2>7. /\ Between(t, 0, m) = Between(buf, s + 0, s + m)
        /\ Between(t, m, n) = Between(buf, s + m, s + n)
    BY <1>0, <2>5, PieceOfPiece DEF t
  <2>8. /\ Between(buf', static_length', point') = Between(buf, s, point)
        /\ Between(buf', point', Len(buf')) = Between(buf, point, l)
    BY <2>2, <2>4, <2>5, <2>6, <2>7
  <2> QED BY <2>2, <2>8 DEF Ed!vars, Between, Beyond, s, l
<1>3. ASSUME NEW p \in Prompts, NEW t \in Texts, Question(p, t) PROVE Ed!Ask
  <2> DEFINE n == Len(t)
             i == Len(p)
  <2>1. p \in Seq(Char) /\ t \in Seq(Char) /\ i \in Nat /\ n \in Nat
    BY InputLineAssumption, LenProperties
  <2>2. buf' = p \o t /\ point' = Len(buf') /\ static_length' = i /\ kill_ring' = kill_ring
    BY <1>3 DEF Question
  <2>3. Len(p \o t) = i + n
    BY <2>1, ConcatProperties
  <2> HIDE DEF n, i
  <2>4. 0 <= n /\ n <= n /\ i + 0 = i
    BY <2>1
  <2>5. Between(p \o t, i + 0, i + n) = Between(t, 0, n)
    BY <2>1, <2>4, Behind DEF n, i
  <2>6. Between(t, 0, n) = t
    <3>1. n - 0 = n /\ \A k \in 1 .. n : 0 + k = k
      BY <2>1
    <3>2. Len(t) = n - 0 /\ \A k \in 1 .. n - 0 : t[k] = t[0 + k]
      BY <3>1 DEF n
    <3>3. n <= Len(t)
      BY <2>4 DEF n
    <3> QED BY <2>1, <2>4, <3>2, <3>3, SamePiece
  <2>7. Between(buf', static_length', point') = t
    BY <2>2, <2>3, <2>4, <2>5, <2>6
  <2>8. SubSeq(buf', point' + 1, Len(buf')) = << >>
    <3> DEFINE q == Len(buf')
    <3>1. q \in Nat /\ point' = q
      BY <2>1, <2>2, <2>3
    <3> HIDE DEF q
    <3>2. SubSeq(buf', q + 1, q) = << >>
      <4>1. q + 1 \in Int /\ q \in Int /\ q < q + 1
        BY <3>1
      <4> QED BY <4>1, SubSeqEmpty
    <3> QED BY <3>1, <3>2 DEF q
  <2> QED BY <2>2, <2>7, <2>8 DEF Ed!Ask, Between, Beyond
<1> QED BY <1>1, <1>2, <1>3 DEF Program

(* What the point moves over comes to lie before it, in its new case.       *)
LEMMA RecasingRecases == ASSUME LineOK, Recasing PROVE Ed!Recase \/ UNCHANGED Ed!vars
<1>1. PICK end \in point .. length : Recased(end)
  BY RecasingForm
<1> DEFINE s == static_length
           l == length
           k == end - point
           w == Between(buf', point, end)
<1>2. /\ buf \in Seq(Char) /\ s \in Nat /\ l \in Nat /\ point \in Nat /\ s <= point /\ point <= l
      /\ end \in Nat /\ point <= end /\ end <= l /\ l <= Len(buf) /\ end \in Int
  BY LineFacts
<1>3. /\ buf' \in Seq(Char) /\ Len(buf') = l
      /\ \A i \in 1 .. l :
           IF point < i /\ i <= end THEN buf'[i] \in {Upper[buf[i]], Lower[buf[i]]} ELSE buf'[i] = buf[i]
      /\ point' = end /\ static_length' = s /\ kill_ring' = kill_ring
  BY <1>1 DEF Recased
<1>4. CASE end = point
  <2>1. \A i \in 1 .. l : buf'[i] = buf[i]
    <3> HIDE DEF l
    <3> QED BY <1>2, <1>3, <1>4
  <2>2. buf' = buf
    BY <1>2, <1>3, <2>1, SeqEqual
  <2> QED BY <1>3, <1>4, <2>2 DEF Ed!vars, Beyond
<1>5. CASE end # point
  <2>1. s \in static_length .. point /\ end \in point .. length /\ point \in static_length .. point
    BY <1>2
  <2>2. /\ SubSeq(TextAfter, k + 1, Len(TextAfter)) = Between(buf, end, Len(buf))
    BY <2>1, ReachedPiece
  <2>3. /\ TextAfter \in Seq(Char) /\ Len(TextAfter) = l - point
        /\ \A i \in 1 .. l - point : TextAfter[i] = buf[point + i]
    <3> HIDE DEF s, l
    <3> QED BY <1>2, BetweenIs DEF TextAfter, l
  <2> HIDE DEF s, l
  <2>4. end <= Len(buf') /\ l <= Len(buf') /\ point <= Len(buf') /\ point <= Len(buf) /\ s <= end
    BY <1>2, <1>3 DEF l
  <2>5. w \in Seq(Char) /\ Len(w) = k /\ \A i \in 1 .. k : w[i] = buf'[point + i]
    <3> DEFINE b == buf'
               i == point
    <3>1. b \in Seq(Char) /\ i \in Nat /\ end \in Nat /\ i <= end /\ end <= Len(b)
      BY <1>2, <1>3, <2>4
    <3> HIDE DEF b, i
    <3>2. /\ Between(b, i, end) \in Seq(Char) /\ Len(Between(b, i, end)) = end - i
          /\ \A j \in 1 .. end - i : Between(b, i, end)[j] = b[i + j]
      BY <3>1, BetweenIs
    <3> QED BY <3>2 DEF b, i
  <2>6. k \in 1 .. Len(TextAfter)
    BY <1>2, <1>5, <2>3
  <2>7. w \in [1 .. k -> Char]
    <3> HIDE DEF w, k
    <3> QED BY <2>5, LenProperties
  <2>8. ASSUME NEW i \in 1 .. k PROVE w[i] \in Ed!Case(TextAfter[i])
    <3>1. /\ point + i \in 1 .. l /\ point < point + i /\ point + i <= end /\ i \in 1 .. l - point
      BY <1>2
    <3> DEFINE q == point + i
    <3> HIDE DEF q, w
    <3>2. buf'[q] \in {Upper[buf[q]], Lower[buf[q]]}
      BY <1>3, <3>1 DEF q
    <3>3. w[i] = buf'[q] /\ TextAfter[i] = buf[q]
      BY <2>3, <2>5, <3>1 DEF q
    <3> QED BY <3>2, <3>3 DEF Ed!Case
  <2> HIDE DEF w, k
  <2>9. TextBefore' = TextBefore \o w
    <3>1. Between(buf', s, point) \o Between(buf', point, end) = Between(buf', s, end)
      BY <1>2, <1>3, <2>4, PiecesJoin
    <3>2. Between(buf', s, point) = TextBefore
      <4>1. /\ TextBefore \in Seq(Char) /\ Len(TextBefore) = point - s
            /\ \A i \in 1 .. point - s : TextBefore[i] = buf[s + i]
        BY <1>2, <2>4, BetweenIs DEF TextBefore, s
      <4>2. ASSUME NEW i \in 1 .. point - s PROVE TextBefore[i] = buf'[s + i]
        <5> DEFINE q == s + i
        <5>1. q \in 1 .. l /\ ~(point < q)
          BY <1>2
        <5> HIDE DEF q
        <5>2. buf'[q] = buf[q]
          BY <1>3, <5>1
        <5> QED BY <4>1, <5>2 DEF q
      <4> QED BY <1>2, <1>3, <2>4, <4>1, <4>2, SamePiece
    <3> QED BY <1>3, <3>1, <3>2 DEF w, TextBefore, Between
  <2>10. TextAfter' = SubSeq(TextAfter, k + 1, Len(TextAfter))
    <3>1. Between(buf', end, l) = Between(buf, end, l)
      <4> DEFINE c == Between(buf, end, l)
      <4>1. c \in Seq(Char) /\ Len(c) = l - end /\ \A i \in 1 .. l - end : c[i] = buf[end + i]
        BY <1>2, BetweenIs
      <4>2. ASSUME NEW i \in 1 .. l - end PROVE c[i] = buf'[end + i]
        <5> DEFINE q == end + i
        <5>1. q \in 1 .. l /\ ~(q <= end)
          BY <1>2
        <5> HIDE DEF q, c
        <5>2. buf'[q] = buf[q]
          BY <1>3, <5>1
        <5> QED BY <4>1, <5>2 DEF q
      <4> HIDE DEF c
      <4>3. Between(buf', end, l) = c
        BY <1>2, <1>3, <2>4, <4>1, <4>2, SamePiece
      <4> QED BY <4>3 DEF c
    <3> QED BY <1>3, <2>2, <3>1 DEF TextAfter, Between, l
  <2>11. kill_ring' = kill_ring
    BY <1>3
  <2> QED BY <2>6, <2>7, <2>8, <2>9, <2>10, <2>11 DEF Ed!Recase, TextBefore, TextAfter, Between, Beyond
<1> QED BY <1>4, <1>5

LEMMA EditorStep ==
  ASSUME LineOK, AnyMark = FALSE, [Next]_vars PROVE [Ed!Next]_(Ed!vars)
<1>1. CASE Move
  <2>1. point' \in static_length .. length /\ UNCHANGED <<buf, static_length, kill_ring>>
    BY <1>1, MoveForm
  <2> QED BY <2>1, MovedStep DEF Ed!Next
<1>2. CASE Insert
  BY <1>2, InsertsTyped DEF Ed!Next
<1>3. CASE Delete
  BY <1>3, DeletesErase DEF Ed!Next
<1>4. CASE Cut
  BY <1>4, CutKills DEF Ed!Next
<1>5. CASE KillRingSave
  BY <1>5, RegionSaved DEF Ed!Next
<1>6. CASE Recasing
  BY <1>6, RecasingRecases DEF Ed!Next
<1>7. CASE Program
  BY <1>7, ProgramAsks DEF Ed!Next
<1>8. CASE Loop
  BY <1>8, LoopErases DEF Ed!Next
<1>9. CASE UNCHANGED vars
  BY <1>9 DEF vars, Ed!vars, Beyond
<1> QED BY <1>1, <1>2, <1>3, <1>4, <1>5, <1>6, <1>7, <1>8, <1>9 DEF Next

LEMMA EditorInit == ASSUME Init PROVE Ed!Init
<1> DEFINE n == Len(prompt)
<1>1. n \in Int /\ n < n + 1
  BY InputLineAssumption, LenProperties DEF Init
<1> HIDE DEF n
<1>2. SubSeq(prompt, n + 1, n) = << >>
  BY <1>1, SubSeqEmpty
<1> QED BY <1>2 DEF Init, Ed!Init, Beyond, n

(* Whatever command a key is dispatched to, the user's text changes at the *)
(* point only: each call of il_insert_char, il_region_command,             *)
(* il_set_static_text and the others does to the text before and after the *)
(* point what one step of Editor does, or nothing, as long as no region    *)
(* reaches from a mark in the prompt.                                      *)
THEOREM EditorImplemented == ASSUME AnyMark = FALSE PROVE Spec => ImplementsEditor
<1>1. LineOK /\ [Next]_vars => [Ed!Next]_(Ed!vars)
  BY EditorStep
<1>2. Init => Ed!Init
  BY EditorInit
<1> QED BY <1>1, <1>2, LineInvariant, PTL DEF Spec, ImplementsEditor, Ed!Spec

-----------------------------------------------------------------------------
(* The history of the lines that were entered (module History).             *)

(* The list and the file fit, and every position lies within the list.     *)
ListOK ==
  /\ the_history \in Seq(Line) /\ history_length <= MaxInput
  /\ file \in Seq(Line) /\ Len(file) <= MaxInput
  /\ history_offset \in 0 .. history_length
  /\ last_history_position \in 0 .. history_length
  /\ browsing \in BOOLEAN /\ running \in BOOLEAN /\ behind \in BOOLEAN
  /\ result \in Line \cup {<<>>}

(* Where the next line is recorded: behind the newest entry, also when the *)
(* walk through the history has left that place for the moment.            *)
NewestOK == running /\ ~behind => RecordPosition = history_length

HistoryInv == ListOK /\ NewestOK

-----------------------------------------------------------------------------
(* Operators.                                                              *)

USE DEF history_length

(* A non-empty set of positions has a last one, because the intervals from *)
(* its elements to the end are finite sets.                                *)
LEMMA LastExists ==
  ASSUME NEW n \in Nat, NEW S \in SUBSET (1 .. n), S # {}
  PROVE  \E i \in S : \A j \in S : j <= i
<1> DEFINE I(x) == x .. n
           X == {I(x) : x \in S}
           R == StrictSubsetOrdering(Nat)
<1>1. X \subseteq FiniteSubsetsOf(Nat) /\ X # {}
  <2>1. \A x \in S : x .. n \in SUBSET Nat /\ IsFiniteSet(x .. n)
    BY FS_Interval
  <2> QED BY <2>1 DEF FiniteSubsetsOf
<1>2. PICK t \in X : \A u \in X : <<u, t>> \notin R
  <2> HIDE DEF X, R
  <2>1. IsWellFoundedOn(R, FiniteSubsetsOf(Nat))
    BY FS_StrictSubsetOrderingWellFounded DEF R
  <2> QED BY <1>1, <2>1, WFMin
<1>3. PICK x \in S : t = x .. n
  BY <1>2
<1>4. ASSUME NEW y \in S
      PROVE  y <= x
  <2>1. <<y .. n, x .. n>> \notin R /\ y .. n \in SUBSET Nat /\ x .. n \in SUBSET Nat
    <3>1. y .. n \in X /\ x .. n \in SUBSET Nat /\ y .. n \in SUBSET Nat
      OBVIOUS
    <3> HIDE DEF X, R
    <3> QED BY <1>2, <1>3, <3>1
  <2>2. y .. n = x .. n \/ ~(y .. n \subseteq x .. n)
    BY <2>1 DEF StrictSubsetOrdering
  <2>3. x < y => x \in x .. n /\ x \notin y .. n /\ y .. n \subseteq x .. n
    OBVIOUS
  <2> QED BY <2>2, <2>3
<1> QED BY <1>4

(* What !str stands for is the last entry that begins like that.           *)
LEMMA HitIsLast ==
  ASSUME ListOK, NEW from \in 0 .. history_length, NEW str, Hits(from, str) # {}
  PROVE  /\ Hit(from, str) \in Hits(from, str)
         /\ \A j \in Hits(from, str) : j <= Hit(from, str)
         /\ Hit(from, str) \in 1 .. history_length
<1>1. Hits(from, str) \subseteq 1 .. from /\ from \in Nat /\ from <= history_length /\ history_length \in Nat
  BY LenProperties DEF Hits, ListOK
<1>2. \E i \in Hits(from, str) : \A j \in Hits(from, str) : j <= i
  BY <1>1, LastExists
<1>3. Hit(from, str) \in Hits(from, str) /\ \A j \in Hits(from, str) : j <= Hit(from, str)
  BY <1>2 DEF Hit
<1> QED BY <1>1, <1>3

LEMMA AddFacts ==
  ASSUME NEW h \in Seq(Line), NEW line \in Line, Len(h) <= MaxInput
  PROVE  /\ Add(h, line) \in Seq(Line) /\ Len(Add(h, line)) <= MaxInput
         /\ Len(Add(h, line)) = IF Len(h) = MaxInput THEN Len(h) ELSE Len(h) + 1
         /\ Len(Add(h, line)) > 0 /\ Add(h, line)[Len(Add(h, line))] = line
<1>1. MaxInput \in Nat \ {0} /\ Len(h) \in Nat
  BY MaxInputAssumption, LenProperties
<1>2. CASE Len(h) = MaxInput
  <2>1. Tail(h) \in Seq(Line) /\ Len(Tail(h)) = Len(h) - 1
    BY <1>1, <1>2, HeadTailProperties, EmptySeq
  <2> QED BY <1>1, <1>2, <2>1, AppendProperties DEF Add
<1>3. CASE Len(h) # MaxInput
  BY <1>1, <1>3, AppendProperties DEF Add
<1> QED BY <1>2, <1>3

(* Recording keeps the list within its limit and goes behind its end if    *)
(* the position was there.                                                 *)
LEMMA RecordFacts ==
  ASSUME NEW h \in Seq(Line), NEW line \in Line, Len(h) <= MaxInput, NEW at \in 0 .. Len(h),
         Record(h, at, line)
  PROVE  /\ the_history' \in Seq(Line) /\ Len(the_history') <= MaxInput
         /\ history_offset' \in 0 .. Len(the_history')
         /\ last_history_position' = 0 /\ browsing' = FALSE
         /\ at = Len(h) => history_offset' = Len(the_history')
         /\ at = Len(h) => Len(the_history') > 0 /\ the_history'[Len(the_history')] = line
         /\ at = Len(h) /\ Len(h) > 0 /\ h[Len(h)] = line => the_history' = h
<1>1. Len(h) \in Nat
  BY LenProperties
<1>2. CASE at > 0 /\ h[at] = line
  BY <1>1, <1>2 DEF Record
<1>3. CASE ~(at > 0 /\ h[at] = line)
  <2>1. the_history' = Add(h, line) /\ history_offset' = After(the_history', at)
        /\ last_history_position' = 0 /\ browsing' = FALSE
    BY <1>3 DEF Record
  <2>2. /\ Len(the_history') = IF Len(h) = MaxInput THEN Len(h) ELSE Len(h) + 1
        /\ Len(the_history') > 0 /\ the_history'[Len(the_history')] = line
        /\ the_history' \in Seq(Line) /\ Len(the_history') <= MaxInput
    BY <2>1, AddFacts
  <2> QED BY <1>1, <1>3, <2>1, <2>2 DEF After
<1> QED BY <1>2, <1>3

-----------------------------------------------------------------------------
(* The invariant.                                                          *)

LEMMA HistoryInvInit == HistoryInit => HistoryInv
<1> SUFFICES ASSUME HistoryInit PROVE HistoryInv
  OBVIOUS
<1>1. <<>> \in Seq(Line) /\ Len(<<>>) = 0 /\ MaxInput \in Nat
  BY EmptySeq, MaxInputAssumption
<1>2. the_history = <<>> /\ file = <<>> /\ history_offset = 0 /\ last_history_position = 0 /\ result = <<>>
      /\ browsing = FALSE /\ running = FALSE /\ behind = FALSE
  BY DEF HistoryInit
<1>3. 0 \in 0 .. Len(<<>>) /\ Len(<<>>) <= MaxInput
  BY <1>1
<1> QED BY <1>1, <1>2, <1>3 DEF HistoryInv, ListOK, NewestOK

LEMMA PositionsOK ==
  ASSUME ListOK
  PROVE  /\ history_length \in Nat /\ RecordPosition \in 0 .. history_length
         /\ After(the_history, history_offset) \in 0 .. history_length
BY LenProperties DEF ListOK, RecordPosition, After

LEMMA BrowseStep == ASSUME HistoryInv, NEW k \in 0 .. history_length, Browse(k) PROVE HistoryInv'
<1>1. ListOK'
  BY DEF Browse, HistoryInv, ListOK
<1>2. NewestOK'
  BY DEF Browse, HistoryInv, NewestOK, ListOK, RecordPosition
<1> QED BY <1>1, <1>2 DEF HistoryInv

LEMMA RecordStep ==
  ASSUME HistoryInv, NEW h \in Seq(Line), NEW line \in Line, Len(h) <= MaxInput, NEW at \in 0 .. Len(h),
         Record(h, at, line), UNCHANGED <<file, running>>,
         result' \in Line \cup {<<>>}, behind' \in BOOLEAN, running /\ ~behind' => at = Len(h)
  PROVE  HistoryInv'
<1>1. ListOK'
  <2>1. 0 \in 0 .. Len(the_history')
    BY RecordFacts, LenProperties
  <2> QED BY <2>1, RecordFacts DEF HistoryInv, ListOK
<1>2. NewestOK'
  BY RecordFacts DEF HistoryInv, NewestOK, RecordPosition
<1> QED BY <1>1, <1>2 DEF HistoryInv

LEMMA HistoryInvStep == HistoryInv /\ [HistoryNext]_historyVars => HistoryInv'
<1> SUFFICES ASSUME HistoryInv, [HistoryNext]_historyVars PROVE HistoryInv'
  OBVIOUS
<1>0. /\ the_history \in Seq(Line) /\ Len(the_history) <= MaxInput /\ behind \in BOOLEAN
      /\ history_length \in Nat /\ RecordPosition \in 0 .. history_length
      /\ result \in Line \cup {<<>>} /\ file \in Seq(Line) /\ Len(file) \in Nat /\ Len(file) <= MaxInput
      /\ running /\ ~behind => RecordPosition = Len(the_history)
  BY PositionsOK, LenProperties DEF HistoryInv, ListOK, NewestOK
<1>1. CASE Previous \/ NextLine
  <2>1. 0 \in 0 .. history_length /\ (history_offset # 0 => history_offset - 1 \in 0 .. history_length)
        /\ After(the_history, history_offset) \in 0 .. history_length
    BY PositionsOK, <1>0 DEF HistoryInv, ListOK
  <2> QED BY <1>1, <2>1, BrowseStep DEF Previous, NextLine
<1>2. ASSUME NEW line \in Line, Execute(line)
      PROVE  HistoryInv'
  BY <1>0, <1>2, RecordStep DEF Execute
<1>3. ASSUME NEW i \in 1 .. MaxInput, ExpandNumber(i)
      PROVE  HistoryInv'
  <2>1. the_history[i] \in Line
    BY <1>0, <1>3, ElementOfSeq DEF ExpandNumber
  <2> QED BY <1>0, <1>3, <2>1, RecordStep DEF ExpandNumber
<1>4. ASSUME NEW i \in 1 .. MaxInput, ExpandPrint(i)
      PROVE  HistoryInv'
  <2>1. the_history[i] \in Line
    BY <1>0, <1>4, ElementOfSeq DEF ExpandPrint
  <2> DEFINE h == Add(the_history, the_history[i])
  <2>2. h \in Seq(Line) /\ Len(h) <= MaxInput /\ RecordPosition \in 0 .. Len(h)
    <3>1. /\ Len(h) = IF Len(the_history) = MaxInput THEN Len(the_history) ELSE Len(the_history) + 1
          /\ h \in Seq(Line) /\ Len(h) <= MaxInput
      BY <1>0, <2>1, AddFacts
    <3> HIDE DEF h
    <3> QED BY <1>0, <3>1
  <2>3. Record(h, RecordPosition, the_history[i]) /\ UNCHANGED <<file, running>>
        /\ result' \in Line \cup {<<>>} /\ behind' = TRUE
    BY <1>4, <2>1 DEF ExpandPrint
  <2> HIDE DEF h
  <2> QED BY <2>1, <2>2, <2>3, RecordStep
<1>5. CASE ExpandNothing \/ UNCHANGED historyVars
  BY <1>0, <1>5 DEF ExpandNothing, historyVars, position, HistoryInv, ListOK, NewestOK, RecordPosition
<1>6. ASSUME NEW str \in Str, ExpandSearch(str)
      PROVE  HistoryInv'
  <2>1. SearchStart \in 0 .. history_length
    BY PositionsOK DEF SearchStart, HistoryInv
  <2>2. CASE Hits(SearchStart, str) # {}
    <3> DEFINE line == the_history[Hit(SearchStart, str)]
               at   == IF browsing THEN last_history_position ELSE history_length
    <3>1. line \in Line
      BY <1>0, <2>1, <2>2, HitIsLast, ElementOfSeq DEF HistoryInv
    <3>2. at \in 0 .. Len(the_history) /\ (running /\ ~(behind /\ browsing) => at = Len(the_history))
      BY <1>0 DEF HistoryInv, ListOK, RecordPosition
    <3>3. /\ Record(the_history, at, line) /\ UNCHANGED <<file, running>>
          /\ result' = line /\ behind' = (behind /\ browsing)
      BY <1>6, <2>2 DEF ExpandSearch
    <3> HIDE DEF line, at
    <3> QED BY <1>0, <3>1, <3>2, <3>3, RecordStep
  <2>3. CASE Hits(SearchStart, str) = {}
    <3>1. /\ result' = <<>> /\ history_offset' = history_length /\ behind' = (behind /\ browsing)
          /\ UNCHANGED <<the_history, browsing, last_history_position, file, running>>
      BY <1>6, <2>3 DEF ExpandSearch
    <3> QED BY <1>0, <3>1 DEF HistoryInv, ListOK, NewestOK, RecordPosition
  <2> QED BY <2>2, <2>3
<1>7. CASE Start
  <2>1. the_history' = file /\ history_offset' = Len(file) /\ browsing' = FALSE /\ last_history_position' = 0
        /\ running' = TRUE /\ behind' = FALSE /\ UNCHANGED <<file, result>>
    BY <1>7 DEF Start
  <2>2. Len(file) \in 0 .. Len(file) /\ 0 \in 0 .. Len(file)
    BY <1>0
  <2> QED BY <1>0, <2>1, <2>2 DEF HistoryInv, ListOK, NewestOK, RecordPosition
<1>8. CASE Quit \/ Killed
  BY <1>0, <1>8 DEF Quit, Killed, Stop, position, HistoryInv, ListOK, NewestOK
<1>9. CASE QuitDiskFull
  <2>1. PICK n \in 0 .. history_length : file' = SubSeq(the_history, 1, n)
    BY <1>9 DEF QuitDiskFull
  <2>2. file' \in Seq(Line) /\ Len(file') <= MaxInput
    <3>1. n \in Nat /\ n <= Len(the_history) /\ \A i \in 1 .. n : the_history[i] \in Line
      BY <1>0, ElementOfSeq
    <3>2. SubSeq(the_history, 1, n) \in Seq(Line) /\ Len(SubSeq(the_history, 1, n)) = n
      BY <1>0, <3>1, SubSeqProperties
    <3>3. n <= MaxInput
      BY <1>0, <3>1, MaxInputAssumption
    <3> QED BY <2>1, <3>2, <3>3
  <2> QED BY <1>9, <2>2 DEF QuitDiskFull, Stop, position, HistoryInv, ListOK, NewestOK
<1> QED BY <1>1, <1>2, <1>3, <1>4, <1>5, <1>6, <1>7, <1>8, <1>9 DEF HistoryNext

(* The list never exceeds MAX_INPUT_HISTORY, whatever is executed or       *)
(* expanded, and however often the program is started again; every         *)
(* position lies within the list, so that no entry outside it is read.     *)
THEOREM HistoryTypeCorrect == HistorySpec => []HistoryTypeOK
<1>1. HistoryInv => HistoryTypeOK
  BY DEF HistoryInv, ListOK, HistoryTypeOK
<1> QED BY HistoryInvInit, HistoryInvStep, <1>1, PTL DEF HistorySpec

(* The first IL_PREVIOUS on a new line shows the last command: il_history  *)
(* and history_expand leave the position behind the newest entry, a full   *)
(* list and a restart included, unless a ":p" got in between.              *)
THEOREM NewestFirst == HistorySpec => []StartsAtNewest
<1>1. HistoryInv => StartsAtNewest
  BY DEF HistoryInv, NewestOK, StartsAtNewest, RecordPosition
<1> QED BY HistoryInvInit, HistoryInvStep, <1>1, PTL DEF HistorySpec

(* IL_RECORD compares with the newest entry wherever the walk through the  *)
(* history was: a command that is repeated is kept once, and every command *)
(* becomes the newest entry.                                               *)
THEOREM KeptOnce == HistorySpec => RepeatedKeptOnce
<1> DEFINE A == \A line \in Line :
                  Execute(line) /\ ~behind =>
                    /\ Last(the_history') = line
                    /\ history_length > 0 /\ Last(the_history) = line => the_history' = the_history
<1>1. HistoryInv /\ [HistoryNext]_historyVars => [A]_historyVars
  <2> SUFFICES ASSUME HistoryInv, NEW line \in Line, Execute(line), ~behind
               PROVE  /\ Last(the_history') = line
                      /\ history_length > 0 /\ Last(the_history) = line => the_history' = the_history
    OBVIOUS
  <2>1. /\ the_history \in Seq(Line) /\ Len(the_history) <= MaxInput
        /\ RecordPosition = Len(the_history) /\ RecordPosition \in 0 .. Len(the_history)
        /\ Record(the_history, RecordPosition, line)
    BY PositionsOK DEF HistoryInv, ListOK, NewestOK, Execute
  <2> QED BY <2>1, RecordFacts DEF Last
<1> QED BY HistoryInvInit, HistoryInvStep, <1>1, PTL DEF HistorySpec, RepeatedKeptOnce

(* history_search_internal starts one entry behind the position; when the  *)
(* line was typed afresh that is the end of the list, and what !str finds  *)
(* is the last of all entries that begin like it.                          *)
THEOREM MostRecentFound == HistorySpec => FindsMostRecent
<1> DEFINE A == \A str \in Str :
                  ExpandSearch(str) /\ ~browsing /\ ~behind =>
                    result' = IF Hits(history_length, str) = {} THEN <<>>
                              ELSE the_history[Hit(history_length, str)]
<1>1. HistoryInv /\ [HistoryNext]_historyVars => [A]_historyVars
  <2> SUFFICES ASSUME HistoryInv, NEW str \in Str, ExpandSearch(str), ~browsing, ~behind
               PROVE  result' = IF Hits(history_length, str) = {} THEN <<>>
                                ELSE the_history[Hit(history_length, str)]
    OBVIOUS
  <2>1. history_offset = history_length
    BY DEF HistoryInv, NewestOK, RecordPosition, ExpandSearch
  <2>2. SearchStart = history_length
    BY <2>1 DEF SearchStart, After
  <2> QED BY <2>2 DEF ExpandSearch
<1> QED BY HistoryInvInit, HistoryInvStep, <1>1, PTL DEF HistorySpec, FindsMostRecent
=============================================================================
