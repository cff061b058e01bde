----------------------------- MODULE KeysProofs -----------------------------
(***************************************************************************)
(* The list of key sequences and the search in it, for any bindings made   *)
(* in any order and any bytes read.                                        *)
(***************************************************************************)
EXTENDS Keys, FiniteSetTheorems, SequenceTheorems, TLAPS

(* What tty_extract_key returns.                                           *)
Character == (1 .. 127) \cup {255}

TypeInv ==
  /\ list \in Seq(Binding) /\ order \in Seq(Binding)
  /\ key \in 0 .. Len(list) /\ current_key \in 1 .. Len(list) + 1
  /\ keybuf \in Seq(0 .. 255)
  /\ tty_key_seq \in Seq(Character) /\ Len(tty_key_seq) <= MaxKeyLength
  /\ repeat_count \in Nat \ {0}
  /\ pc \in {"bind", "get", "match", "more", "found", "default", "undefined"}

(* The characters that were used up are those of the sequence s.           *)
UsedUp(s) == taken \in Seq(Nat) /\ Len(taken) = Len(s) /\ Entered(taken) = s

(* The search stands behind entries that are less than what was typed, and *)
(* what was typed so far is not bound, and neither is a beginning of it.   *)
SearchOK ==
  pc \in {"get", "match", "more"} =>
    /\ \A j \in 1 .. current_key - 1 : ~Leq(tty_key_seq, list[j].key_seq)
    /\ list # <<>> => current_key <= Len(list)
    /\ UsedUp(tty_key_seq)
    /\ pc = "get" <=> tty_key_seq = <<>>
    /\ \A i \in DOMAIN list : IsPrefix(list[i].key_seq, tty_key_seq) =>
         pc = "match" /\ list[i].key_seq = tty_key_seq

(* The command found is the one bound last to what was typed.              *)
FoundOK ==
  pc = "found" => /\ current_key \in DOMAIN list /\ list[current_key].key_seq = tty_key_seq
                  /\ FirstOf(current_key)

Inv == TypeInv /\ Sorted /\ LatestFirst /\ SearchOK /\ FoundOK /\ OnlyPrefixesWait

(* The bytes that are read do not contain 255, which stands for ^SPC.      *)
BytesOK == keybuf \in Seq(0 .. 254)

-----------------------------------------------------------------------------
(* strcmp is a total order.                                                *)

LEMMA LeastOf ==
  ASSUME NEW S \in SUBSET Nat, S # {}
  PROVE  \E m \in S : \A y \in S : m <= y
<1> DEFINE X == {0 .. x : x \in S}
           R == StrictSubsetOrdering(Nat)
<1>1. X \subseteq FiniteSubsetsOf(Nat) /\ X # {}
  <2>1. \A x \in S : 0 .. x \in SUBSET Nat /\ IsFiniteSet(0 .. x)
    BY FS_Interval
  <2> QED BY <2>1 DEF FiniteSubsetsOf
<1>2. PICK t \in X : \A u \in X : <<u, t>> \notin R
  <2> HIDE DEF X, R
  <2>1. IsWellFoundedOn(R, FiniteSubsetsOf(Nat))
    BY FS_StrictSubsetOrderingWellFounded DEF R
  <2> QED BY <1>1, <2>1, WFMin
<1>3. PICK x \in S : t = 0 .. x
  BY <1>2
<1>4. ASSUME NEW y \in S PROVE x <= y
  <2>1. 0 .. y \in X /\ 0 .. x \in SUBSET Nat /\ 0 .. y \in SUBSET Nat
    OBVIOUS
  <2>2. <<0 .. y, 0 .. x>> \notin R
    <3> HIDE DEF X, R
    <3> QED BY <1>2, <1>3, <2>1
  <2>3. 0 .. y = 0 .. x \/ ~(0 .. y \subseteq 0 .. x)
    BY <2>1, <2>2 DEF StrictSubsetOrdering
  <2>4. y < x => x \in 0 .. x /\ x \notin 0 .. y /\ 0 .. y \subseteq 0 .. x
    OBVIOUS
  <2> QED BY <2>3, <2>4
<1> QED BY <1>4

LEMMA PrefixIs ==
  ASSUME NEW s \in Seq(Nat), NEW t \in Seq(Nat)
  PROVE  IsPrefix(s, t) <=> Len(s) <= Len(t) /\ \A i \in 1 .. Len(s) : s[i] = t[i]
<1> DEFINE k == Len(s)
           c == SubSeq(s, 1, k)
           d == SubSeq(t, 1, k)
<1>1. k \in Nat /\ Len(t) \in Nat
  BY LenProperties
<1> SUFFICES ASSUME k <= Len(t) PROVE c = d <=> \A i \in 1 .. k : s[i] = t[i]
  BY DEF IsPrefix
<1>2. (\A i \in 1 .. k : s[i] \in Nat) /\ (\A i \in 1 .. k : t[i] \in Nat)
  BY <1>1, LenProperties
<1>3. c \in Seq(Nat) /\ Len(c) = k /\ \A i \in 1 .. k : c[i] = s[i]
  BY <1>1, <1>2, SubSeqProperties
<1>4. d \in Seq(Nat) /\ Len(d) = k /\ \A i \in 1 .. k : d[i] = t[i]
  BY <1>1, <1>2, SubSeqProperties
<1> HIDE DEF c, d
<1>5. ASSUME \A i \in 1 .. k : s[i] = t[i] PROVE c = d
  <2>1. \A i \in 1 .. k : c[i] = d[i]
    BY <1>3, <1>4, <1>5
  <2> QED BY <1>3, <1>4, <2>1, SeqEqual
<1>6. ASSUME c = d PROVE \A i \in 1 .. k : s[i] = t[i]
  BY <1>3, <1>4, <1>6
<1> QED BY <1>5, <1>6

(* s is less than t at the place i, the first where they differ.           *)
LessAt(s, t, i) ==
  /\ i \in 1 .. Len(s) /\ i \in 1 .. Len(t) /\ s[i] < t[i]
  /\ \A j \in 1 .. i - 1 : s[j] = t[j]
Begins(s, t) == Len(s) <= Len(t) /\ \A i \in 1 .. Len(s) : s[i] = t[i]

LEMMA LeqIs ==
  ASSUME NEW s \in Seq(Nat), NEW t \in Seq(Nat)
  PROVE  Leq(s, t) <=> Begins(s, t) \/ \E i \in Nat : LessAt(s, t, i)
<1>1. DOMAIN s = 1 .. Len(s) /\ DOMAIN t = 1 .. Len(t)
  BY LenProperties
<1>2. IsPrefix(s, t) <=> Begins(s, t)
  BY PrefixIs DEF Begins
<1>3. (\E i \in DOMAIN s \cap DOMAIN t : s[i] < t[i] /\ \A j \in 1 .. i - 1 : s[j] = t[j])
      <=> \E i \in Nat : LessAt(s, t, i)
  <2>1. \A i \in DOMAIN s \cap DOMAIN t : i \in Nat /\ i \in 1 .. Len(s) /\ i \in 1 .. Len(t)
    <3>1. Len(s) \in Nat
      BY LenProperties
    <3> QED BY <1>1, <3>1
  <2>2. \A i \in Nat : i \in 1 .. Len(s) /\ i \in 1 .. Len(t) => i \in DOMAIN s \cap DOMAIN t
    BY <1>1
  <2> QED BY <2>1, <2>2 DEF LessAt
<1> QED BY <1>2, <1>3 DEF Leq

LEMMA LeqTotal ==
  ASSUME NEW s \in Seq(Nat), NEW t \in Seq(Nat)
  PROVE  Leq(s, t) \/ Leq(t, s)
<1> DEFINE D == {i \in Nat : i \in 1 .. Len(s) /\ i \in 1 .. Len(t) /\ s[i] # t[i]}
<1>1. /\ Len(s) \in Nat /\ Len(t) \in Nat
      /\ \A i \in 1 .. Len(s) : s[i] \in Nat
      /\ \A i \in 1 .. Len(t) : t[i] \in Nat
  BY LenProperties
<1>2. CASE D = {}
  <2>1. \A i \in 1 .. Len(s) : i \in 1 .. Len(t) => s[i] = t[i]
    <3> SUFFICES ASSUME NEW i \in 1 .. Len(s), i \in 1 .. Len(t), s[i] # t[i] PROVE FALSE
      OBVIOUS
    <3>1. i \in D
      BY <1>1
    <3> HIDE DEF D
    <3> QED BY <1>2, <3>1
  <2>2. Begins(s, t) \/ Begins(t, s)
    BY <1>1, <2>1 DEF Begins
  <2> QED BY <2>2, LeqIs
<1>3. CASE D # {}
  <2>1. D \in SUBSET Nat
    OBVIOUS
  <2>2. PICK m \in D : \A y \in D : m <= y
    <3> HIDE DEF D
    <3> QED BY <1>3, <2>1, LeastOf
  <2>3. \A j \in 1 .. m - 1 : s[j] = t[j] /\ t[j] = s[j]
    <3> SUFFICES ASSUME NEW j \in 1 .. m - 1 PROVE s[j] = t[j]
      OBVIOUS
    <3>1. j \in 1 .. Len(s) /\ j \in 1 .. Len(t) /\ j < m /\ j \in Nat /\ m \in Nat
      BY <1>1, <2>2
    <3> QED BY <2>2, <3>1
  <2>4. m \in 1 .. Len(s) /\ m \in 1 .. Len(t) /\ (s[m] < t[m] \/ t[m] < s[m])
    BY <1>1, <2>2
  <2>5. LessAt(s, t, m) \/ LessAt(t, s, m)
    BY <2>3, <2>4 DEF LessAt
  <2> QED BY <2>5, LeqIs
<1> QED BY <1>2, <1>3

LEMMA LeqAntisymmetric ==
  ASSUME NEW s \in Seq(Nat), NEW t \in Seq(Nat), Leq(s, t), Leq(t, s)
  PROVE  s = t
<1>1. /\ Len(s) \in Nat /\ Len(t) \in Nat
      /\ \A i \in 1 .. Len(s) : s[i] \in Nat
      /\ \A i \in 1 .. Len(t) : t[i] \in Nat
  BY LenProperties
<1>2. ASSUME NEW i \in Nat, LessAt(s, t, i) PROVE FALSE
  <2>1. CASE Begins(t, s)
    BY <1>1, <1>2, <2>1 DEF LessAt, Begins
  <2>2. ASSUME NEW j \in Nat, LessAt(t, s, j) PROVE FALSE
    <3>1. CASE i < j
      BY <1>1, <1>2, <2>2, <3>1 DEF LessAt
    <3>2. CASE j < i
      BY <1>1, <1>2, <2>2, <3>2 DEF LessAt
    <3>3. CASE i = j
      BY <1>1, <1>2, <2>2, <3>3 DEF LessAt
    <3> QED BY <3>1, <3>2, <3>3
  <2> QED BY <2>1, <2>2, LeqIs
<1>3. Begins(s, t)
  BY <1>2, LeqIs
<1>4. ASSUME NEW i \in Nat, LessAt(t, s, i) PROVE FALSE
  BY <1>1, <1>3, <1>4 DEF LessAt, Begins
<1>5. Begins(t, s)
  BY <1>4, LeqIs
<1>6. Len(s) = Len(t) /\ \A i \in 1 .. Len(s) : s[i] = t[i]
  BY <1>1, <1>3, <1>5 DEF Begins
<1> QED BY <1>6, SeqEqual

LEMMA LeqTransitive ==
  ASSUME NEW s \in Seq(Nat), NEW t \in Seq(Nat), NEW u \in Seq(Nat), Leq(s, t), Leq(t, u)
  PROVE  Leq(s, u)
<1>1. /\ Len(s) \in Nat /\ Len(t) \in Nat /\ Len(u) \in Nat
      /\ \A i \in 1 .. Len(s) : s[i] \in Nat
      /\ \A i \in 1 .. Len(t) : t[i] \in Nat
      /\ \A i \in 1 .. Len(u) : u[i] \in Nat
  BY LenProperties
<1>2. CASE Begins(s, t) /\ Begins(t, u)
  <2>1. Begins(s, u)
    BY <1>1, <1>2 DEF Begins
  <2> QED BY <2>1, LeqIs
<1>3. ASSUME Begins(s, t), NEW j \in Nat, LessAt(t, u, j) PROVE Leq(s, u)
  <2>1. CASE j <= Len(s)
    <3>1. LessAt(s, u, j)
      BY <1>1, <1>3, <2>1 DEF LessAt, Begins
    <3> QED BY <3>1, LeqIs
  <2>2. CASE Len(s) < j
    <3>1. Begins(s, u)
      BY <1>1, <1>3, <2>2 DEF LessAt, Begins
    <3> QED BY <3>1, LeqIs
  <2> QED BY <1>1, <2>1, <2>2
<1>4. ASSUME NEW i \in Nat, LessAt(s, t, i), Begins(t, u) PROVE Leq(s, u)
  <2>1. i \in 1 .. Len(s) /\ i \in 1 .. Len(t) /\ i \in 1 .. Len(u)
    BY <1>1, <1>4 DEF LessAt, Begins
  <2>2. s[i] < t[i] /\ t[i] = u[i]
    BY <1>4, <2>1 DEF LessAt, Begins
  <2>3. ASSUME NEW k \in 1 .. i - 1 PROVE s[k] = u[k]
    <3>1. k \in 1 .. Len(t)
      BY <1>1, <2>1
    <3> QED BY <1>4, <3>1 DEF LessAt, Begins
  <2>4. LessAt(s, u, i)
    BY <2>1, <2>2, <2>3 DEF LessAt
  <2> QED BY <2>4, LeqIs
<1>5. ASSUME NEW i \in Nat, LessAt(s, t, i), NEW j \in Nat, LessAt(t, u, j) PROVE Leq(s, u)
  <2>1. CASE i <= j
    <3>1. i \in 1 .. Len(s) /\ i \in 1 .. Len(t) /\ i \in 1 .. Len(u)
      BY <1>1, <1>5, <2>1 DEF LessAt
    <3>2. \A k \in 1 .. i - 1 : s[k] = u[k]
      BY <1>1, <1>5, <2>1 DEF LessAt
    <3>3. s[i] < u[i]
      <4>1. CASE i = j
        <5>1. s[i] < t[i] /\ t[i] < u[i]
          BY <1>5, <4>1 DEF LessAt
        <5>2. s[i] \in Nat /\ t[i] \in Nat /\ u[i] \in Nat
          BY <1>1, <3>1
        <5> QED BY <5>1, <5>2
      <4>2. CASE i < j
        <5>1. t[i] = u[i]
          BY <1>5, <3>1, <4>2 DEF LessAt
        <5> QED BY <1>5, <5>1 DEF LessAt
      <4> QED BY <2>1, <4>1, <4>2
    <3>4. LessAt(s, u, i)
      BY <3>1, <3>2, <3>3 DEF LessAt
    <3> QED BY <3>4, LeqIs
  <2>2. CASE j < i
    <3>1. j \in 1 .. i - 1 /\ j \in 1 .. Len(s) /\ j \in 1 .. Len(u)
      BY <1>1, <1>5, <2>2 DEF LessAt
    <3>2. s[j] = t[j] /\ t[j] < u[j]
      BY <1>5, <3>1 DEF LessAt
    <3>3. ASSUME NEW k \in 1 .. j - 1 PROVE s[k] = u[k]
      <4>1. k \in 1 .. i - 1
        BY <1>5, <2>2
      <4> QED BY <1>5, <4>1 DEF LessAt
    <3>4. LessAt(s, u, j)
      BY <3>1, <3>2, <3>3 DEF LessAt
    <3> QED BY <3>4, LeqIs
  <2> QED BY <2>1, <2>2
<1> QED BY <1>2, <1>3, <1>4, <1>5, LeqIs

(* What lies between a sequence and one that begins with it does so too.   *)
LEMMA PrefixBetween ==
  ASSUME NEW s \in Seq(Nat), NEW t \in Seq(Nat), NEW u \in Seq(Nat),
         Leq(s, t), Leq(t, u), IsPrefix(s, u)
  PROVE  IsPrefix(s, t)
<1>1. /\ Len(s) \in Nat /\ Len(t) \in Nat /\ Len(u) \in Nat
      /\ \A i \in 1 .. Len(s) : s[i] \in Nat
      /\ \A i \in 1 .. Len(t) : t[i] \in Nat
      /\ \A i \in 1 .. Len(u) : u[i] \in Nat
  BY LenProperties
<1>2. Begins(s, u)
  BY PrefixIs DEF Begins
<1>3. ASSUME NEW i \in Nat, LessAt(s, t, i) PROVE FALSE
  <2>1. CASE Begins(t, u)
    BY <1>1, <1>2, <1>3, <2>1 DEF LessAt, Begins
  <2>2. ASSUME NEW j \in Nat, LessAt(t, u, j) PROVE FALSE
    <3>1. CASE j < i
      <4>1. t[j] = s[j] /\ s[j] = u[j] /\ t[j] < u[j] /\ t[j] \in Nat /\ u[j] \in Nat
        BY <1>1, <1>2, <1>3, <2>2, <3>1 DEF LessAt, Begins
      <4> QED BY <4>1
    <3>2. CASE i < j
      <4>1. t[i] = u[i] /\ s[i] = u[i] /\ s[i] < t[i] /\ t[i] \in Nat /\ u[i] \in Nat
        BY <1>1, <1>2, <1>3, <2>2, <3>2 DEF LessAt, Begins
      <4> QED BY <4>1
    <3>3. CASE i = j
      <4>1. s[i] = u[i] /\ s[i] < t[i] /\ t[i] < u[i] /\ s[i] \in Nat /\ t[i] \in Nat /\ u[i] \in Nat
        BY <1>1, <1>2, <1>3, <2>2, <3>3 DEF LessAt, Begins
      <4> QED BY <4>1
    <3> QED BY <3>1, <3>2, <3>3
  <2> QED BY <2>1, <2>2, LeqIs
<1>4. Begins(s, t)
  BY <1>3, LeqIs
<1> QED BY <1>4, PrefixIs DEF Begins


LEMMA LeqReflexive ==
  ASSUME NEW s \in Seq(Nat)
  PROVE  Leq(s, s)
BY LeqTotal

-----------------------------------------------------------------------------
(* The list.                                                               *)

LEMMA ListEntry ==
  ASSUME TypeInv, NEW i \in 1 .. Len(list)
  PROVE  list[i] \in Binding /\ list[i].key_seq \in KeySeq /\ list[i].key_seq \in Seq(Nat) /\ list[i].key_seq # <<>>
<1>1. list[i] \in Binding
  BY ElementOfSeq DEF TypeInv
<1> QED BY <1>1, KeysAssumption DEF Binding

LEMMA FirstFromIs ==
  ASSUME TypeInv, NEW from \in 1 .. Len(list) + 1, NEW s
  PROVE  /\ FirstFrom(from, s) \in from .. Len(list) + 1
         /\ FirstFrom(from, s) = Len(list) + 1 \/ Leq(s, list[FirstFrom(from, s)].key_seq)
         /\ \A j \in from .. FirstFrom(from, s) - 1 : ~Leq(s, list[j].key_seq)
<1> DEFINE end == Len(list) + 1
           S == {i \in from .. end : i = end \/ Leq(s, list[i].key_seq)}
<1>1. end \in Nat
  BY LenProperties DEF TypeInv
<1>2. S \in SUBSET Nat /\ S # {}
  BY <1>1
<1>3. PICK m \in S : \A y \in S : m <= y
  <2> HIDE DEF S
  <2> QED BY <1>2, LeastOf
<1>4. \A j \in from .. m - 1 : ~Leq(s, list[j].key_seq)
  BY <1>1, <1>3
<1>5. \E i \in from .. end : /\ i = end \/ Leq(s, list[i].key_seq)
                             /\ \A j \in from .. i - 1 : ~Leq(s, list[j].key_seq)
  BY <1>3, <1>4
<1> QED BY <1>5 DEF FirstFrom

LEMMA Inserting ==
  ASSUME NEW T, NEW l \in Seq(T), NEW e \in T, NEW at \in 1 .. Len(l) + 1
  PROVE  /\ InsertAt(l, at, e) \in Seq(T) /\ Len(InsertAt(l, at, e)) = Len(l) + 1
         /\ InsertAt(l, at, e)[at] = e
         /\ \A i \in 1 .. at - 1 : InsertAt(l, at, e)[i] = l[i]
         /\ \A i \in at .. Len(l) : InsertAt(l, at, e)[i + 1] = l[i]
<1> DEFINE f == SubSeq(l, 1, at - 1)
           r == SubSeq(l, at, Len(l))
           m == <<e>>
<1>1. Len(l) \in Nat /\ at \in Nat /\ at >= 1 /\ at <= Len(l) + 1
  BY LenProperties
<1>2. \A i \in 1 .. Len(l) : l[i] \in T
  BY ElementOfSeq
<1>3. f \in Seq(T) /\ Len(f) = at - 1 /\ \A i \in 1 .. at - 1 : f[i] = l[i]
  <2>1. \A i \in 1 .. at - 1 : l[i] \in T
    BY <1>1, <1>2
  <2>2. /\ f \in Seq(T) /\ Len(f) = (IF 1 <= at - 1 THEN (at - 1) - 1 + 1 ELSE 0)
        /\ \A i \in 1 .. (at - 1) - 1 + 1 : f[i] = l[1 + i - 1]
    BY <1>1, <2>1, SubSeqProperties
  <2> QED BY <1>1, <2>2
<1>4. r \in Seq(T) /\ Len(r) = Len(l) + 1 - at /\ \A i \in 1 .. Len(l) + 1 - at : r[i] = l[at + i - 1]
  <2>1. \A i \in at .. Len(l) : l[i] \in T
    BY <1>1, <1>2
  <2>2. /\ r \in Seq(T) /\ Len(r) = (IF at <= Len(l) THEN Len(l) - at + 1 ELSE 0)
        /\ \A i \in 1 .. Len(l) - at + 1 : r[i] = l[at + i - 1]
    BY <1>1, <2>1, SubSeqProperties
  <2> QED BY <1>1, <2>2
<1>5. m \in Seq(T) /\ Len(m) = 1 /\ m[1] = e
  OBVIOUS
<1> HIDE DEF f, r, m
<1>6. /\ f \o m \in Seq(T) /\ Len(f \o m) = at
      /\ \A i \in 1 .. at : (f \o m)[i] = IF i <= at - 1 THEN f[i] ELSE m[i - (at - 1)]
  <2>1. /\ f \o m \in Seq(T) /\ Len(f \o m) = Len(f) + Len(m)
        /\ \A i \in 1 .. Len(f) + Len(m) : (f \o m)[i] = IF i <= Len(f) THEN f[i] ELSE m[i - Len(f)]
    BY <1>3, <1>5, ConcatProperties
  <2>2. Len(f) + Len(m) = at
    BY <1>1, <1>3, <1>5
  <2> QED BY <1>3, <2>1, <2>2
<1>7. /\ (f \o m) \o r \in Seq(T) /\ Len((f \o m) \o r) = Len(l) + 1
      /\ \A i \in 1 .. Len(l) + 1 : ((f \o m) \o r)[i] = IF i <= at THEN (f \o m)[i] ELSE r[i - at]
  <2> DEFINE g == f \o m
  <2> HIDE DEF g
  <2>0. g \in Seq(T) /\ Len(g) = at
    BY <1>6 DEF g
  <2>1. /\ g \o r \in Seq(T) /\ Len(g \o r) = Len(g) + Len(r)
        /\ \A i \in 1 .. Len(g) + Len(r) : (g \o r)[i] = IF i <= Len(g) THEN g[i] ELSE r[i - Len(g)]
    BY <1>4, <2>0, ConcatProperties
  <2>2. Len(g) + Len(r) = Len(l) + 1
    BY <1>1, <1>4, <2>0
  <2>3. /\ g \o r \in Seq(T) /\ Len(g \o r) = Len(l) + 1
        /\ \A i \in 1 .. Len(l) + 1 : (g \o r)[i] = IF i <= at THEN g[i] ELSE r[i - at]
    BY <2>0, <2>1, <2>2
  <2> QED BY <2>3 DEF g
<1> DEFINE h == (f \o m) \o r
           g == f \o m
<1>8. InsertAt(l, at, e) = h
  BY DEF InsertAt, f, m, r
<1> HIDE DEF g
<1>9. g = f \o m
  BY DEF g
<1>10. h[at] = e
  <2>1. g[at] = m[1]
    BY <1>1, <1>6, <1>9
  <2>2. h[at] = g[at]
    <3>1. at \in 1 .. Len(l) + 1 /\ at <= at
      BY <1>1
    <3> QED BY <1>7, <1>9, <3>1
  <2> QED BY <1>5, <2>1, <2>2
<1>11. ASSUME NEW i \in 1 .. at - 1 PROVE h[i] = l[i]
  <2>1. i \in 1 .. at /\ i \in 1 .. Len(l) + 1 /\ i <= at /\ i <= at - 1
    BY <1>1
  <2>2. h[i] = g[i]
    BY <1>7, <1>9, <2>1
  <2>3. g[i] = f[i]
    BY <1>6, <1>9, <2>1
  <2> QED BY <1>3, <2>2, <2>3
<1>12. ASSUME NEW i \in at .. Len(l) PROVE h[i + 1] = l[i]
  <2>1. i + 1 \in 1 .. Len(l) + 1 /\ ~(i + 1 <= at) /\ (i + 1) - at \in 1 .. Len(l) + 1 - at
    BY <1>1
  <2>2. h[i + 1] = r[(i + 1) - at]
    BY <1>7, <2>1
  <2>3. r[(i + 1) - at] = l[at + ((i + 1) - at) - 1]
    BY <1>4, <2>1
  <2>4. at + ((i + 1) - at) - 1 = i
    BY <1>1
  <2> QED BY <2>2, <2>3, <2>4
<1>13. h \in Seq(T) /\ Len(h) = Len(l) + 1
  BY <1>7
<1> HIDE DEF h
<1> QED BY <1>8, <1>10, <1>11, <1>12, <1>13


-----------------------------------------------------------------------------
(* Binding a sequence.                                                     *)

LEMMA BindStep ==
  ASSUME Inv, NEW s \in KeySeq, NEW command \in Command, Bind(s, command)
  PROVE  Inv'
<1> DEFINE from == IF key = 0 \/ Leq(s, list[key].key_seq) THEN 1 ELSE key
           at   == FirstFrom(from, s)
           new  == [key_seq |-> s, aux_data |-> command]
           q(i) == list[i].key_seq
<1>1. /\ pc = "bind" /\ list' = InsertAt(list, at, new) /\ key' = at /\ order' = Append(order, new)
      /\ keybuf' = keybuf /\ tty_key_seq' = tty_key_seq /\ current_key' = current_key
      /\ pc' = pc /\ taken' = taken /\ repeat_count' = repeat_count
  BY DEF Bind
<1>2. TypeInv /\ Sorted /\ LatestFirst
  BY DEF Inv
<1>3. /\ list \in Seq(Binding) /\ Len(list) \in Nat /\ DOMAIN list = 1 .. Len(list)
      /\ order \in Seq(Binding) /\ Len(order) \in Nat /\ DOMAIN order = 1 .. Len(order)
      /\ key \in 0 .. Len(list) /\ current_key \in 1 .. Len(list) + 1
  BY <1>2, LenProperties DEF TypeInv
<1>4. s \in Seq(Nat) /\ s # <<>> /\ new \in Binding
  BY KeysAssumption DEF Binding
<1>5. \A i \in 1 .. Len(list) : q(i) \in Seq(Nat)
  BY <1>2, ListEntry
<1>6. \A i, j \in 1 .. Len(list) : i < j => Leq(q(i), q(j))
  BY <1>2, <1>3 DEF Sorted
<1>7. from \in 1 .. Len(list) + 1 /\ (from = 1 \/ (from \in 1 .. Len(list) /\ ~Leq(s, q(from))))
  BY <1>3
<1> HIDE DEF from
<1>8. /\ at \in from .. Len(list) + 1
      /\ at = Len(list) + 1 \/ Leq(s, q(at))
      /\ \A j \in from .. at - 1 : ~Leq(s, q(j))
  BY <1>2, <1>7, FirstFromIs
<1> HIDE DEF at, new
<1>9. at \in 1 .. Len(list) + 1 /\ at \in Nat
  BY <1>3, <1>7, <1>8
<1>10. ASSUME NEW j \in 1 .. at - 1 PROVE j \in 1 .. Len(list) /\ ~Leq(s, q(j)) /\ Leq(q(j), s) /\ q(j) # s
  <2>1. j \in 1 .. Len(list) /\ q(j) \in Seq(Nat)
    BY <1>3, <1>5, <1>9
  <2>2. ~Leq(s, q(j))
    <3>1. CASE j >= from
      <4>1. j \in from .. at - 1
        BY <1>7, <1>9, <3>1
      <4> QED BY <1>8, <4>1
    <3>2. CASE j < from
      <4>1. from \in 1 .. Len(list) /\ ~Leq(s, q(from)) /\ q(from) \in Seq(Nat)
        BY <1>5, <1>7, <3>2
      <4>2. Leq(q(j), q(from))
        BY <1>6, <2>1, <3>2, <4>1
      <4> HIDE DEF q
      <4> QED BY <1>4, <2>1, <4>1, <4>2, LeqTransitive
    <3> QED BY <1>7, <3>1, <3>2
  <2> HIDE DEF q
  <2> QED BY <1>4, <2>1, <2>2, LeqTotal, LeqReflexive
<1>11. ASSUME NEW j \in at .. Len(list) PROVE j \in 1 .. Len(list) /\ Leq(s, q(j))
  <2>1. j \in 1 .. Len(list) /\ at \in 1 .. Len(list)
    BY <1>3, <1>9
  <2>2. Leq(s, q(at)) /\ q(at) \in Seq(Nat) /\ q(j) \in Seq(Nat)
    BY <1>3, <1>5, <1>8, <2>1
  <2>3. CASE at = j
    BY <2>1, <2>2, <2>3
  <2>4. CASE at < j
    <3>1. Leq(q(at), q(j))
      BY <1>6, <2>1, <2>4
    <3> HIDE DEF q
    <3> QED BY <1>4, <2>1, <2>2, <3>1, LeqTransitive
  <2> QED BY <1>9, <2>3, <2>4
<1>12. /\ list' \in Seq(Binding) /\ Len(list') = Len(list) + 1 /\ list'[at] = new
       /\ \A i \in 1 .. at - 1 : list'[i] = list[i]
       /\ \A i \in at .. Len(list) : list'[i + 1] = list[i]
  <2> DEFINE l == InsertAt(list, at, new)
  <2>1. /\ l \in Seq(Binding) /\ Len(l) = Len(list) + 1 /\ l[at] = new
        /\ \A i \in 1 .. at - 1 : l[i] = list[i]
        /\ \A i \in at .. Len(list) : l[i + 1] = list[i]
    <3>1. list \in Seq(Binding) /\ new \in Binding /\ at \in 1 .. Len(list) + 1
      BY <1>3, <1>4, <1>9 DEF new
    <3> QED BY <3>1, Inserting
  <2>2. list' = l
    BY <1>1
  <2> HIDE DEF l
  <2> QED BY <2>1, <2>2
<1>13. /\ order' \in Seq(Binding) /\ Len(order') = Len(order) + 1 /\ order'[Len(order) + 1] = new
       /\ \A i \in 1 .. Len(order) : order'[i] = order[i]
  BY <1>1, <1>3, <1>4, AppendProperties
<1>14. DOMAIN list' = 1 .. Len(list) + 1 /\ DOMAIN order' = 1 .. Len(order) + 1
  BY <1>12, <1>13, LenProperties
<1>15. ASSUME NEW i \in 1 .. Len(list) + 1
       PROVE  \/ i \in 1 .. at - 1 /\ list'[i] = list[i]
              \/ i = at /\ list'[i] = new
              \/ i - 1 \in at .. Len(list) /\ list'[i] = list[i - 1]
  <2>1. CASE i < at
    BY <1>9, <1>12, <2>1
  <2>2. CASE i = at
    BY <1>12, <2>2
  <2>3. CASE i > at
    <3>1. i - 1 \in at .. Len(list) /\ (i - 1) + 1 = i
      BY <1>3, <1>9, <2>3
    <3>2. list'[(i - 1) + 1] = list[i - 1]
      BY <1>12, <3>1
    <3> QED BY <3>1, <3>2
  <2> QED BY <1>9, <2>1, <2>2, <2>3
<1>16. new.key_seq = s
  BY DEF new
<1>17. TypeInv'
  <2>1. key' \in 0 .. Len(list') /\ current_key' \in 1 .. Len(list') + 1
    BY <1>1, <1>3, <1>9, <1>12
  <2> QED BY <1>1, <1>2, <1>12, <1>13, <2>1 DEF TypeInv
<1>18. Sorted'
  <2>1. Len(list') = Len(order')
    BY <1>2, <1>12, <1>13 DEF Sorted
  <2>2. ToSet(list') = ToSet(list) \cup {new}
    <3>1. \A i \in 1 .. Len(list) + 1 : list'[i] \in ToSet(list) \cup {new}
      <4>1. \A j \in 1 .. Len(list) : list[j] \in ToSet(list)
        BY <1>3 DEF ToSet
      <4>2. \A i \in 1 .. Len(list) + 1 :
              list'[i] = new \/ \E j \in 1 .. Len(list) : list'[i] = list[j]
        BY <1>10, <1>11, <1>15
      <4> QED BY <4>1, <4>2
    <3>2. \A i \in 1 .. Len(list) : \E j \in 1 .. Len(list) + 1 : list'[j] = list[i]
      <4> SUFFICES ASSUME NEW i \in 1 .. Len(list) PROVE \E j \in 1 .. Len(list) + 1 : list'[j] = list[i]
        OBVIOUS
      <4>1. CASE i < at
        <5>1. i \in 1 .. at - 1 /\ i \in 1 .. Len(list) + 1
          BY <1>3, <1>9, <4>1
        <5> QED BY <1>12, <5>1
      <4>2. CASE i >= at
        <5>1. i \in at .. Len(list) /\ i + 1 \in 1 .. Len(list) + 1
          BY <1>3, <1>9, <4>2
        <5> QED BY <1>12, <5>1
      <4> QED BY <1>9, <4>1, <4>2
    <3>3. \A x \in ToSet(list') : x \in ToSet(list) \cup {new}
      BY <1>14, <3>1 DEF ToSet
    <3>4. \A x \in ToSet(list) : x \in ToSet(list')
      BY <1>3, <1>14, <3>2 DEF ToSet
    <3>5. new \in ToSet(list')
      BY <1>9, <1>12, <1>14 DEF ToSet
    <3> QED BY <3>3, <3>4, <3>5
  <2>3. ToSet(order') = ToSet(order) \cup {new}
    <3>1. \A x \in ToSet(order') : x \in ToSet(order) \cup {new}
      BY <1>3, <1>13, <1>14 DEF ToSet
    <3>2. \A x \in ToSet(order) \cup {new} : x \in ToSet(order')
      BY <1>3, <1>13, <1>14 DEF ToSet
    <3> QED BY <3>1, <3>2
  <2>4. ASSUME NEW i \in 1 .. Len(list) + 1, NEW j \in 1 .. Len(list) + 1, i < j
        PROVE  Leq(list'[i].key_seq, list'[j].key_seq)
    <3>1. CASE i \in 1 .. at - 1 /\ list'[i] = list[i]
      <4>1. CASE j \in 1 .. at - 1 /\ list'[j] = list[j]
        BY <1>6, <1>10, <2>4, <3>1, <4>1
      <4>2. CASE j = at /\ list'[j] = new
        BY <1>10, <1>16, <3>1, <4>2
      <4>3. CASE j - 1 \in at .. Len(list) /\ list'[j] = list[j - 1]
        <5>1. i < j - 1 /\ i \in 1 .. Len(list) /\ j - 1 \in 1 .. Len(list)
          BY <1>3, <1>9, <3>1, <4>3
        <5> QED BY <1>6, <3>1, <4>3, <5>1
      <4> QED BY <1>15, <4>1, <4>2, <4>3
    <3>2. CASE i = at /\ list'[i] = new
      <4>1. j - 1 \in at .. Len(list) /\ list'[j] = list[j - 1]
        BY <1>15, <1>9, <2>4, <3>2
      <4> QED BY <1>11, <1>16, <3>2, <4>1
    <3>3. CASE i - 1 \in at .. Len(list) /\ list'[i] = list[i - 1]
      <4>1. j - 1 \in at .. Len(list) /\ list'[j] = list[j - 1]
        BY <1>15, <1>9, <2>4, <3>3
      <4>2. i - 1 < j - 1 /\ i - 1 \in 1 .. Len(list) /\ j - 1 \in 1 .. Len(list)
        BY <1>3, <1>9, <2>4, <3>3, <4>1
      <4> QED BY <1>6, <3>3, <4>1, <4>2
    <3> QED BY <1>15, <3>1, <3>2, <3>3
  <2>5. ToSet(list) = ToSet(order)
    BY <1>2 DEF Sorted
  <2> QED BY <1>14, <2>1, <2>2, <2>3, <2>4, <2>5 DEF Sorted
<1>19. LatestFirst'
  <2> SUFFICES ASSUME NEW i \in 1 .. Len(list) + 1, NEW c \in Binding, c = list'[i], FirstOf(i)'
               PROVE  Latest(c.key_seq, c)'
    <3>1. \A i \in DOMAIN list' : list'[i] \in Binding
      BY <1>12, <1>14, ElementOfSeq
    <3> QED BY <1>14, <3>1 DEF LatestFirst, Latest
  <2>1. ASSUME NEW b \in Binding, b.key_seq # s, Latest(b.key_seq, b) PROVE Latest(b.key_seq, b)'
    <3>1. PICK k \in 1 .. Len(order) : /\ order[k] = b
                                      /\ \A l \in 1 .. Len(order) : order[l].key_seq = b.key_seq => l <= k
      BY <1>3, <2>1 DEF Latest
    <3>2. k \in 1 .. Len(order) + 1 /\ order'[k] = b
      BY <1>3, <1>13, <3>1
    <3>3. \A l \in 1 .. Len(order) + 1 : order'[l].key_seq = b.key_seq => l <= k
      <4> SUFFICES ASSUME NEW l \in 1 .. Len(order) + 1, order'[l].key_seq = b.key_seq PROVE l <= k
        OBVIOUS
      <4>1. l # Len(order) + 1
        BY <1>13, <1>16, <2>1
      <4>2. l \in 1 .. Len(order)
        BY <1>3, <4>1
      <4>3. order'[l] = order[l]
        BY <1>13, <4>2
      <4> QED BY <3>1, <4>2, <4>3
    <3> QED BY <1>14, <3>2, <3>3 DEF Latest
  <2>2. \A j \in 1 .. i - 1 : list'[j].key_seq # list'[i].key_seq
    BY DEF FirstOf
  <2>3. CASE i \in 1 .. at - 1 /\ list'[i] = list[i]
    <3>1. i \in 1 .. Len(list) /\ q(i) # s /\ list[i] \in Binding
      BY <1>2, <1>10, <2>3, ListEntry
    <3>2. \A j \in 1 .. i - 1 : list'[j] = list[j]
      BY <1>9, <1>12, <2>3
    <3>3. FirstOf(i)
      BY <2>2, <2>3, <3>2 DEF FirstOf
    <3>4. Latest(q(i), list[i])
      BY <1>2, <1>3, <3>1, <3>3 DEF LatestFirst
    <3>5. Latest(c.key_seq, c) /\ c.key_seq # s
      BY <2>3, <3>1, <3>4
    <3> QED BY <2>1, <3>5
  <2>4. CASE i = at /\ list'[i] = new
    <3>1. Len(order) + 1 \in DOMAIN order' /\ order'[Len(order) + 1] = new /\ new.key_seq = s
      BY <1>3, <1>13, <1>14, <1>16
    <3>2. \A l \in DOMAIN order' : l <= Len(order) + 1
      BY <1>3, <1>14
    <3> QED BY <2>4, <3>1, <3>2 DEF Latest
  <2>5. CASE i - 1 \in at .. Len(list) /\ list'[i] = list[i - 1]
    <3>1. i - 1 \in 1 .. Len(list) /\ list[i - 1] \in Binding /\ at \in 1 .. i - 1
      BY <1>2, <1>9, <1>11, <2>5, ListEntry
    <3>2. q(i - 1) # s
      BY <1>12, <1>16, <2>2, <2>5, <3>1
    <3>3. ASSUME NEW j \in 1 .. (i - 1) - 1 PROVE q(j) # q(i - 1)
      <4>1. CASE j < at
        <5>1. j \in 1 .. at - 1 /\ j \in 1 .. i - 1
          BY <1>9, <4>1, <3>1
        <5> QED BY <1>12, <2>2, <2>5, <5>1
      <4>2. CASE j >= at
        <5>1. j \in at .. Len(list) /\ j + 1 \in 1 .. i - 1
          BY <1>3, <1>9, <3>1, <4>2
        <5>2. list'[j + 1] = list[j]
          BY <1>12, <5>1
        <5> QED BY <2>2, <2>5, <5>1, <5>2
      <4> QED BY <1>9, <4>1, <4>2
    <3>4. FirstOf(i - 1)
      BY <3>3 DEF FirstOf
    <3>5. Latest(q(i - 1), list[i - 1])
      BY <1>2, <1>3, <3>1, <3>4 DEF LatestFirst
    <3>6. Latest(c.key_seq, c) /\ c.key_seq # s
      BY <2>5, <3>2, <3>5
    <3> QED BY <2>1, <3>6
  <2> QED BY <1>15, <2>3, <2>4, <2>5
<1>20. SearchOK' /\ FoundOK' /\ OnlyPrefixesWait'
  BY <1>1 DEF SearchOK, FoundOK, OnlyPrefixesWait
<1> QED BY <1>17, <1>18, <1>19, <1>20 DEF Inv


-----------------------------------------------------------------------------
(* FlattenSeq, which is defined by a recursive function: there is one such *)
(* function, so that a sequence of one more is flattened by one more       *)
(* concatenation.                                                          *)

Flat(q, f) == f = [i \in 1 .. Len(q) |-> IF i = 1 THEN q[i] ELSE f[i - 1] \o q[i]]

LEMMA FlatUnique ==
  ASSUME NEW q, NEW r, NEW f, NEW g, NEW n \in Nat, Len(q) \in Nat, Len(r) \in Nat, n <= Len(q), n <= Len(r),
         \A i \in 1 .. n : q[i] = r[i], Flat(q, f), Flat(r, g)
  PROVE  \A i \in 1 .. n : f[i] = g[i]
<1> DEFINE D == {i \in 1 .. n : f[i] # g[i]}
<1> SUFFICES ASSUME D # {} PROVE FALSE
  OBVIOUS
<1>1. D \in SUBSET Nat
  OBVIOUS
<1>2. PICK m \in D : \A y \in D : m <= y
  <2> HIDE DEF D
  <2> QED BY <1>1, LeastOf
<1>3. m \in 1 .. n /\ m \in 1 .. Len(q) /\ m \in 1 .. Len(r) /\ q[m] = r[m] /\ m \in Nat
  BY <1>2
<1>4. f[m] = IF m = 1 THEN q[m] ELSE f[m - 1] \o q[m]
  BY <1>3 DEF Flat
<1>5. g[m] = IF m = 1 THEN r[m] ELSE g[m - 1] \o r[m]
  BY <1>3 DEF Flat
<1>6. m # 1 => f[m - 1] = g[m - 1]
  <2>1. m # 1 => m - 1 \in 1 .. n /\ ~(m <= m - 1)
    BY <1>3
  <2> QED BY <1>2, <2>1
<1>7. f[m] = g[m]
  BY <1>3, <1>4, <1>5, <1>6
<1> QED BY <1>2, <1>7

LEMMA FlatExists ==
  ASSUME NEW q, Len(q) \in Nat
  PROVE  \E f : Flat(q, f)
<1> DEFINE P(n, f) == \A i \in 1 .. n : f[i] = IF i = 1 THEN q[i] ELSE f[i - 1] \o q[i]
           D == {n \in Nat : ~\E f : P(n, f)}
<1>1. D = {}
  <2> SUFFICES ASSUME D # {} PROVE FALSE
    OBVIOUS
  <2>1. D \in SUBSET Nat
    OBVIOUS
  <2>2. PICK m \in D : \A y \in D : m <= y
    <3> HIDE DEF D
    <3> QED BY <2>1, LeastOf
  <2>3. m \in Nat /\ ~\E f : P(m, f)
    BY <2>2
  <2>4. m # 0
    <3>1. P(0, <<>>)
      OBVIOUS
    <3> HIDE DEF P
    <3> QED BY <2>3, <3>1
  <2>5. m - 1 \in Nat /\ m - 1 \notin D
    <3>1. m - 1 \in Nat /\ ~(m <= m - 1)
      BY <2>3, <2>4
    <3> HIDE DEF D
    <3> QED BY <2>2, <3>1
  <2>6. PICK f : P(m - 1, f)
    <3> HIDE DEF P
    <3> QED BY <2>5
  <2> DEFINE g == [i \in 1 .. m |-> IF i < m THEN f[i] ELSE IF m = 1 THEN q[m] ELSE f[m - 1] \o q[m]]
  <2>7. ASSUME NEW i \in 1 .. m PROVE g[i] = IF i = 1 THEN q[i] ELSE g[i - 1] \o q[i]
    <3>1. CASE i < m
      <4>1. i \in 1 .. m - 1 /\ (i # 1 => i - 1 \in 1 .. m /\ i - 1 < m)
        BY <2>3, <3>1
      <4>2. f[i] = IF i = 1 THEN q[i] ELSE f[i - 1] \o q[i]
        BY <2>6, <4>1
      <4>3. g[i] = f[i] /\ (i # 1 => g[i - 1] = f[i - 1])
        BY <3>1, <4>1
      <4> HIDE DEF g
      <4> QED BY <4>2, <4>3
    <3>2. CASE i = m
      <4>1. g[m] = IF m = 1 THEN q[m] ELSE f[m - 1] \o q[m]
        <5>1. m \in 1 .. m /\ ~(m < m)
          BY <2>3, <2>4
        <5> QED BY <5>1
      <4>2. m # 1 => g[m - 1] = f[m - 1]
        BY <2>3, <2>4
      <4> HIDE DEF g
      <4> QED BY <3>2, <4>1, <4>2
    <3> QED BY <2>3, <3>1, <3>2
  <2>8. P(m, g)
    <3> HIDE DEF g
    <3> QED BY <2>7
  <2> HIDE DEF P
  <2> QED BY <2>3, <2>8
<1> DEFINE n == Len(q)
<1>2. PICK f : P(n, f)
  <2> HIDE DEF P
  <2> QED BY <1>1
<1> DEFINE g == [i \in 1 .. n |-> f[i]]
<1>3. \A i \in 1 .. n : g[i] = IF i = 1 THEN q[i] ELSE g[i - 1] \o q[i]
  <2> SUFFICES ASSUME NEW i \in 1 .. n PROVE g[i] = IF i = 1 THEN q[i] ELSE g[i - 1] \o q[i]
    OBVIOUS
  <2>1. f[i] = IF i = 1 THEN q[i] ELSE f[i - 1] \o q[i]
    BY <1>2
  <2>2. i # 1 => i - 1 \in 1 .. n
    OBVIOUS
  <2>3. g[i] = f[i] /\ (i # 1 => g[i - 1] = f[i - 1])
    BY <2>2
  <2> HIDE DEF g
  <2> QED BY <2>1, <2>3
<1>4. g = [i \in 1 .. n |-> IF i = 1 THEN q[i] ELSE g[i - 1] \o q[i]]
  <2>1. g = [i \in 1 .. n |-> g[i]]
    OBVIOUS
  <2> HIDE DEF g
  <2> QED BY <1>3, <2>1
<1> HIDE DEF g
<1> QED BY <1>4 DEF Flat

LEMMA FlattenIs ==
  ASSUME NEW q, Len(q) \in Nat \ {0}, NEW f, Flat(q, f)
  PROVE  FlattenSeq(q) = f[Len(q)]
<1> DEFINE g == CHOOSE h : Flat(q, h)
<1>1. Flat(q, g)
  BY FlatExists
<1>2. FlattenSeq(q) = g[Len(q)]
  BY DEF FlattenSeq, Flat
<1> HIDE DEF g
<1>3. g[Len(q)] = f[Len(q)]
  <2> DEFINE n == Len(q)
  <2>1. n \in Nat /\ n <= Len(q) /\ n \in 1 .. n /\ \A i \in 1 .. n : q[i] = q[i]
    OBVIOUS
  <2> HIDE DEF n
  <2>2. \A i \in 1 .. n : g[i] = f[i]
    BY <1>1, <2>1, FlatUnique
  <2> QED BY <2>1, <2>2 DEF n
<1> QED BY <1>2, <1>3


LEMMA TimesStep ==
  ASSUME NEW T, NEW s \in Seq(T), NEW n \in Nat
  PROVE  Times(s, 0) = <<>> /\ Times(s, n + 1) = Times(s, n) \o s
<1> DEFINE q == [i \in 1 .. n + 1 |-> s]
           r == [i \in 1 .. n |-> s]
<1>1. Times(s, 0) = <<>>
  <2>1. Len([i \in 1 .. 0 |-> s]) = 0 /\ [i \in 1 .. 0 |-> s] = <<>>
    OBVIOUS
  <2> QED BY <2>1 DEF Times, FlattenSeq
<1>2. Len(q) = n + 1 /\ Len(r) = n
  OBVIOUS
<1>3. Times(s, n + 1) = FlattenSeq(q) /\ Times(s, n) = FlattenSeq(r)
  BY DEF Times
<1>4. q[n + 1] = s /\ q[1] = s /\ \A i \in 1 .. n : q[i] = r[i]
  OBVIOUS
<1> HIDE DEF q, r
<1>5. PICK f : Flat(q, f)
  BY <1>2, FlatExists
<1>6. FlattenSeq(q) = f[n + 1]
  BY <1>2, <1>5, FlattenIs
<1>7. f[n + 1] = IF n + 1 = 1 THEN s ELSE f[(n + 1) - 1] \o s
  <2>1. n + 1 \in 1 .. Len(q)
    BY <1>2
  <2>2. f[n + 1] = IF n + 1 = 1 THEN q[n + 1] ELSE f[(n + 1) - 1] \o q[n + 1]
    BY <1>5, <2>1 DEF Flat
  <2> QED BY <1>4, <2>2
<1>8. CASE n = 0
  BY <1>1, <1>3, <1>6, <1>7, <1>8, ConcatEmptySeq
<1>9. CASE n # 0
  <2>1. PICK g : Flat(r, g)
    BY <1>2, FlatExists
  <2>2. FlattenSeq(r) = g[n]
    BY <1>2, <1>9, <2>1, FlattenIs
  <2>3. \A i \in 1 .. n : f[i] = g[i]
    <3>1. n <= Len(q) /\ n <= Len(r) /\ Len(q) \in Nat /\ Len(r) \in Nat
      BY <1>2
    <3> QED BY <1>4, <1>5, <2>1, <3>1, FlatUnique
  <2>4. f[n] = g[n] /\ (n + 1) - 1 = n /\ n + 1 # 1
    BY <1>9, <2>3
  <2> QED BY <1>1, <1>3, <1>6, <1>7, <2>2, <2>4
<1> QED BY <1>8, <1>9

LEMMA TimesIs ==
  ASSUME NEW T, NEW s \in Seq(T), NEW n \in Nat
  PROVE  /\ Times(s, n) \in Seq(T) /\ Len(Times(s, n)) = n * Len(s)
         /\ s \o Times(s, n) = Times(s, n + 1)
<1> DEFINE P(k) == /\ Times(s, k) \in Seq(T) /\ Len(Times(s, k)) = k * Len(s)
                   /\ s \o Times(s, k) = Times(s, k + 1)
           D == {k \in Nat : ~P(k)}
<1> SUFFICES ASSUME D # {} PROVE FALSE
  OBVIOUS
<1>1. D \in SUBSET Nat /\ Len(s) \in Nat
  BY LenProperties
<1>2. PICK m \in D : \A y \in D : m <= y
  <2> HIDE DEF D
  <2> QED BY <1>1, LeastOf
<1>3. m \in Nat /\ ~P(m)
  BY <1>2
<1>4. CASE m = 0
  <2>1. Times(s, 0) = <<>> /\ Times(s, 0 + 1) = Times(s, 0) \o s
    BY TimesStep
  <2>2. <<>> \in Seq(T) /\ Len(<<>>) = 0 /\ 0 * Len(s) = 0
    BY <1>1
  <2>3. s \o <<>> = s /\ <<>> \o s = s
    BY ConcatEmptySeq
  <2>4. P(0)
    BY <2>1, <2>2, <2>3
  <2> HIDE DEF P
  <2> QED BY <1>3, <1>4, <2>4
<1>5. CASE m # 0
  <2>1. m - 1 \in Nat /\ ~(m <= m - 1)
    BY <1>3, <1>5
  <2>2. m - 1 \notin D
    <3> HIDE DEF D
    <3> QED BY <1>2, <2>1
  <2>3. P(m - 1)
    <3> HIDE DEF P
    <3> QED BY <2>1, <2>2
  <2> DEFINE a == Times(s, m - 1)
             b == Times(s, m)
  <2>4. a \in Seq(T) /\ Len(a) = (m - 1) * Len(s) /\ s \o a = b
    <3>1. (m - 1) + 1 = m
      BY <1>3
    <3>2. a \in Seq(T) /\ Len(a) = (m - 1) * Len(s) /\ s \o a = Times(s, (m - 1) + 1)
      BY <2>3
    <3> HIDE DEF a
    <3> QED BY <3>1, <3>2
  <2>5. b = a \o s
    <3>1. Times(s, (m - 1) + 1) = Times(s, m - 1) \o s
      BY <2>1, TimesStep
    <3>2. (m - 1) + 1 = m
      BY <1>3
    <3> QED BY <3>1, <3>2
  <2>6. Times(s, m + 1) = b \o s
    BY <1>3, TimesStep
  <2> HIDE DEF a
  <2>7. b \in Seq(T) /\ Len(b) = Len(a) + Len(s)
    <3> HIDE DEF b
    <3> QED BY <2>4, <2>5, ConcatProperties
  <2>8. (m - 1) * Len(s) + Len(s) = m * Len(s)
    BY <1>1, <1>3
  <2>9. s \o b = b \o s
    <3> HIDE DEF b
    <3>0. a \in Seq(T)
      BY <2>4
    <3>1. (s \o a) \o s = s \o (a \o s)
      BY <3>0, ConcatAssociative, SMTT(30)
    <3> QED BY <2>4, <2>5, <3>1
  <2>10. P(m)
    BY <2>4, <2>6, <2>7, <2>8, <2>9
  <2> HIDE DEF P
  <2> QED BY <1>3, <2>10
<1> QED BY <1>4, <1>5

(* Characters that are neither 0 nor have the 8th bit stand for themselves. *)
LEMMA RawIs ==
  ASSUME NEW b \in Seq(1 .. 127)
  PROVE  Raw(b) = b
<1> DEFINE n == Len(b)
           q == [i \in DOMAIN b |-> IF b[i] >= 128 THEN <<ESC, NonZero(b[i] - 128)>> ELSE <<NonZero(b[i])>>]
<1>1. n \in Nat /\ DOMAIN b = 1 .. n /\ \A i \in 1 .. n : b[i] \in 1 .. 127
  BY LenProperties
<1>2. \A i \in 1 .. n : q[i] = <<b[i]>>
  <2> SUFFICES ASSUME NEW i \in 1 .. n PROVE q[i] = <<b[i]>>
    OBVIOUS
  <2>1. ~(b[i] >= 128) /\ b[i] # 0
    <3>1. b[i] \in 1 .. 127
      BY <1>1
    <3>2. \A c \in 1 .. 127 : ~(c >= 128) /\ c # 0
      OBVIOUS
    <3> HIDE DEF n, q
    <3> QED BY <3>1, <3>2
  <2> QED BY <1>1, <2>1 DEF NonZero
<1>3. Len(q) = n
  BY <1>1
<1>4. Raw(b) = FlattenSeq(q)
  BY DEF Raw
<1>5. CASE n = 0
  <2>1. b = <<>>
    BY <1>5, EmptySeq
  <2>2. q = <<>>
    BY <1>1, <1>5
  <2>3. FlattenSeq(q) = q
    <3>1. Len(q) = 0
      BY <1>3, <1>5
    <3> HIDE DEF q
    <3> QED BY <3>1 DEF FlattenSeq
  <2> QED BY <1>4, <2>1, <2>2, <2>3
<1>6. CASE n # 0
  <2> HIDE DEF q
  <2>1. PICK f : Flat(q, f)
    BY <1>1, <1>3, FlatExists
  <2>2. \A i \in 1 .. n : f[i] = IF i = 1 THEN q[i] ELSE f[i - 1] \o q[i]
    BY <1>3, <2>1 DEF Flat
  <2> DEFINE D == {i \in 1 .. n : f[i] # SubSeq(b, 1, i)}
  <2>3. D = {}
    <3> SUFFICES ASSUME D # {} PROVE FALSE
      OBVIOUS
    <3>1. D \in SUBSET Nat
      BY <1>1
    <3>2. PICK m \in D : \A y \in D : m <= y
      <4> HIDE DEF D
      <4> QED BY <3>1, LeastOf
    <3>3. m \in 1 .. n /\ m \in Nat /\ f[m] # SubSeq(b, 1, m)
      BY <1>1, <3>2
    <3>4. SubSeq(b, 1, m) = SubSeq(b, 1, m - 1) \o <<b[m]>>
      <4>1. 1 \in 1 .. Len(b) /\ m \in 1 .. Len(b)
        BY <1>1, <3>3
      <4> HIDE DEF n
      <4> QED BY <4>1, SubSeqRecursiveSecond
    <3>5. CASE m = 1
      <4>1. SubSeq(b, 1, m - 1) = <<>>
        BY <3>5, SubSeqEmpty
      <4>2. <<b[m]>> \in Seq(1 .. 127)
        BY <1>1, <3>3
      <4>3. <<>> \o <<b[m]>> = <<b[m]>>
        BY <4>2, ConcatEmptySeq
      <4> QED BY <1>2, <2>2, <3>3, <3>4, <3>5, <4>1, <4>3
    <3>6. CASE m # 1
      <4>1. m - 1 \in 1 .. n /\ ~(m <= m - 1)
        BY <1>1, <3>3, <3>6
      <4>2. m - 1 \notin D
        <5> HIDE DEF D
        <5> QED BY <3>2, <4>1
      <4>3. f[m - 1] = SubSeq(b, 1, m - 1)
        BY <4>1, <4>2
      <4> QED BY <1>2, <2>2, <3>3, <3>4, <3>6, <4>3
    <3> QED BY <3>5, <3>6
  <2>4. n \in 1 .. n
    BY <1>1, <1>6
  <2>5. f[n] = SubSeq(b, 1, n)
    BY <2>3, <2>4
  <2>6. FlattenSeq(q) = f[n]
    BY <1>1, <1>3, <1>6, <2>1, FlattenIs
  <2>7. SubSeq(b, 1, Len(b)) = b
    BY SubSeqFull
  <2> QED BY <1>4, <2>5, <2>6, <2>7
<1> QED BY <1>5, <1>6


LEMMA RepeatsIs ==
  ASSUME NEW s \in Seq(Nat), s # <<>>, s = tty_key_seq, keybuf \in Seq(Nat)
  PROVE  /\ Repeats \in Nat /\ Repeats * Len(s) \in 0 .. Len(keybuf)
         /\ SubSeq(keybuf, 1, Repeats * Len(s)) = Times(s, Repeats)
<1> DEFINE K == Len(keybuf)
           L == Len(s)
           Fits(n) == IsPrefix(Times(s, n), keybuf)
           D == {n \in Nat : ~Fits(n + 1)}
<1>1. K \in Nat /\ L \in Nat /\ L > 0
  BY LenProperties, EmptySeq
<1>2. \A n \in Nat : Times(s, n) \in Seq(Nat) /\ Len(Times(s, n)) = n * L
  BY TimesIs
<1>3. \A n \in Nat : Fits(n) => n * L <= K
  BY <1>2 DEF IsPrefix
<1>4. ASSUME NEW n \in Nat PROVE n * L >= n /\ n * L \in Nat
  <2> HIDE DEF L
  <2>1. PICK k \in Nat : L = k + 1
    <3>1. L - 1 \in Nat /\ L = (L - 1) + 1
      BY <1>1
    <3> QED BY <3>1
  <2>2. n * k \in Nat
    OBVIOUS
  <2>3. n * (k + 1) = n * k + n
    OBVIOUS
  <2> QED BY <2>1, <2>2, <2>3
<1>5. K \in D
  <2>1. K + 1 \in Nat /\ (K + 1) * L >= K + 1
    <3>1. K + 1 \in Nat
      BY <1>1
    <3> HIDE DEF K, L
    <3> QED BY <1>4, <3>1
  <2>2. (K + 1) * L \in Int
    BY <1>1
  <2>3. ~((K + 1) * L <= K)
    <3> DEFINE p == (K + 1) * L
    <3> HIDE DEF p
    <3>1. p \in Int /\ p >= K + 1
      BY <2>1, <2>2 DEF p
    <3> QED BY <1>1, <3>1 DEF p
  <2>4. ~Fits(K + 1)
    <3> HIDE DEF Fits
    <3> QED BY <1>3, <2>1, <2>3
  <2> QED BY <1>1, <2>4
<1>6. D \in SUBSET Nat
  OBVIOUS
<1>7. PICK m \in D : \A y \in D : m <= y
  <2> HIDE DEF D
  <2> QED BY <1>5, <1>6, LeastOf
<1>8. m \in Nat /\ ~Fits(m + 1)
  BY <1>7
<1>9. Fits(m)
  <2>1. CASE m = 0
    <3>1. Times(s, 0) = <<>> /\ Len(<<>>) = 0 /\ <<>> \in Seq(Nat)
      BY TimesStep
    <3>2. IsPrefix(<<>>, keybuf)
      <4>1. SubSeq(<<>>, 1, 0) = <<>> /\ SubSeq(keybuf, 1, 0) = <<>>
        BY SubSeqEmpty
      <4> QED BY <1>1, <3>1, <4>1 DEF IsPrefix
    <3> QED BY <2>1, <3>1, <3>2
  <2>2. CASE m # 0
    <3>1. m - 1 \in Nat /\ ~(m <= m - 1) /\ (m - 1) + 1 = m
      BY <1>8, <2>2
    <3>2. m - 1 \notin D
      <4> HIDE DEF D
      <4> QED BY <1>7, <3>1
    <3> HIDE DEF Fits
    <3> QED BY <3>1, <3>2
  <2> QED BY <2>1, <2>2
<1>10. m \in 0 .. K
  BY <1>1, <1>5, <1>7, <1>8
<1>11. Repeats \in 0 .. K /\ Fits(Repeats)
  <2>1. \E n \in 0 .. Len(keybuf) : IsPrefix(Times(tty_key_seq, n), keybuf) /\ ~IsPrefix(Times(tty_key_seq, n + 1), keybuf)
    BY <1>8, <1>9, <1>10
  <2>2. Repeats \in 0 .. Len(keybuf) /\ IsPrefix(Times(tty_key_seq, Repeats), keybuf)
    BY <2>1 DEF Repeats
  <2> QED BY <2>2
<1> DEFINE R == Repeats
<1> HIDE DEF D, R
<1>12. R \in Nat /\ R = Repeats
  BY <1>1, <1>11 DEF R
<1>13. Times(s, R) \in Seq(Nat) /\ Len(Times(s, R)) = R * L /\ R * L <= K /\ R * L \in Nat
  <2>1. Times(s, R) \in Seq(Nat) /\ Len(Times(s, R)) = R * L
    <3> HIDE DEF L
    <3> QED BY <1>2, <1>12
  <2>2. Fits(R)
    BY <1>11 DEF R
  <2>3. R * L <= K
    <3> HIDE DEF Fits, L, K
    <3> QED BY <1>3, <1>12, <2>2
  <2> QED BY <2>1, <2>3, <1>12, LenProperties
<1>14. SubSeq(keybuf, 1, R * L) = Times(s, R)
  <2> DEFINE t == Times(s, R)
  <2>1. SubSeq(t, 1, Len(t)) = t
    <3> HIDE DEF t
    <3>1. t \in Seq(Nat)
      BY <1>13 DEF t
    <3> QED BY <3>1, SubSeqFull
  <2>2. SubSeq(t, 1, Len(t)) = SubSeq(keybuf, 1, Len(t))
    BY <1>11 DEF IsPrefix, R
  <2>3. Len(t) = R * L
    BY <1>13
  <2> QED BY <2>1, <2>2, <2>3
<1> QED BY <1>12, <1>13, <1>14, <1>1


-----------------------------------------------------------------------------
(* Reading a key.                                                          *)

LEMMA SeqTypes ==
  ASSUME TypeInv
  PROVE  /\ tty_key_seq \in Seq(Nat) /\ Len(tty_key_seq) \in Nat
         /\ keybuf \in Seq(Nat) /\ Len(keybuf) \in Nat
         /\ Len(list) \in Nat /\ DOMAIN list = 1 .. Len(list)
<1>1. Character \subseteq Nat /\ 0 .. 255 \subseteq Nat
  BY DEF Character
<1>2. tty_key_seq \in Seq(Character) /\ keybuf \in Seq(0 .. 255) /\ list \in Seq(Binding)
  BY DEF TypeInv
<1>3. tty_key_seq \in Seq(Nat) /\ keybuf \in Seq(Nat)
  BY <1>1, <1>2, SeqMonotonic
<1> QED BY <1>2, <1>3, LenProperties

LEMMA ListSame ==
  ASSUME Inv, bindings' = bindings
  PROVE  /\ list' = list /\ key' = key /\ order' = order
         /\ Sorted' /\ LatestFirst' /\ \A i : FirstOf(i)' = FirstOf(i)
<1>1. list' = list /\ key' = key /\ order' = order
  BY DEF bindings
<1>2. Sorted' = Sorted
  BY <1>1 DEF Sorted
<1>3. LatestFirst' = LatestFirst
  BY <1>1 DEF LatestFirst, FirstOf, Latest
<1>4. \A i : FirstOf(i)' = FirstOf(i)
  BY <1>1 DEF FirstOf
<1> QED BY <1>1, <1>2, <1>3, <1>4 DEF Inv

LEMMA GetKeyStep ==
  ASSUME Inv, GetKey
  PROVE  Inv'
<1>1. /\ pc' = "get" /\ tty_key_seq' = <<>> /\ repeat_count' = 1 /\ taken' = <<>> /\ current_key' = 1
      /\ keybuf' = keybuf /\ bindings' = bindings
  BY DEF GetKey
<1>2. list' = list /\ key' = key /\ order' = order /\ Sorted' /\ LatestFirst'
  BY <1>1, ListSame
<1>3. TypeInv /\ Len(list) \in Nat /\ DOMAIN list = 1 .. Len(list) /\ Len(<<>>) = 0
      /\ <<>> \in Seq(Character) /\ <<>> \in Seq(Nat)
  BY SeqTypes, EmptySeq DEF Inv
<1>4. TypeInv'
  <2>1. 1 \in 1 .. Len(list) + 1 /\ Len(<<>>) <= MaxKeyLength
    BY <1>3, KeysAssumption
  <2> QED BY <1>1, <1>2, <1>3, <2>1 DEF TypeInv
<1>5. ASSUME NEW i \in 1 .. Len(list) PROVE ~IsPrefix(list[i].key_seq, <<>>)
  <2>1. list[i].key_seq \in Seq(Nat) /\ list[i].key_seq # <<>>
    BY <1>3, ListEntry
  <2>2. Len(list[i].key_seq) \in Nat \ {0}
    BY <2>1, EmptySeq
  <2> QED BY <1>3, <2>2 DEF IsPrefix
<1>6. list # <<>> => 1 <= Len(list)
  <2>1. list \in Seq(Binding)
    BY <1>3 DEF TypeInv
  <2>2. list # <<>> => Len(list) \in Nat \ {0}
    BY <2>1, EmptySeq
  <2> QED BY <2>2
<1>7. UsedUp(tty_key_seq)'
  BY <1>1, <1>3 DEF UsedUp, Entered
<1>8. SearchOK'
  BY <1>1, <1>2, <1>3, <1>5, <1>6, <1>7 DEF SearchOK
<1>9. FoundOK' /\ OnlyPrefixesWait'
  BY <1>1 DEF FoundOK, OnlyPrefixesWait
<1> QED BY <1>2, <1>4, <1>8, <1>9 DEF Inv

LEMMA ReadStep ==
  ASSUME Inv, NEW k \in 1 .. MaxRead, NEW bytes \in [1 .. k -> Byte], Read(bytes)
  PROVE  Inv'
<1>1. /\ keybuf' = bytes /\ bindings' = bindings /\ tty_key_seq' = tty_key_seq /\ current_key' = current_key
      /\ pc' = pc /\ repeat_count' = repeat_count /\ taken' = taken /\ restricted' = restricted
  BY DEF Read
<1>2. /\ list' = list /\ key' = key /\ order' = order /\ Sorted' /\ LatestFirst'
      /\ \A i : FirstOf(i)' = FirstOf(i)
  BY <1>1, ListSame
<1>3. bytes \in Seq(0 .. 255)
  <2>1. k \in Nat
    BY KeysAssumption
  <2>2. bytes \in [1 .. k -> 0 .. 255]
    <3>1. Byte \subseteq 0 .. 255
      BY KeysAssumption
    <3>2. DOMAIN bytes = 1 .. k /\ bytes = [i \in 1 .. k |-> bytes[i]] /\ \A i \in 1 .. k : bytes[i] \in Byte
      OBVIOUS
    <3> QED BY <3>1, <3>2, Zenon
  <2> QED BY <2>1, <2>2
<1>4. TypeInv'
  BY <1>1, <1>2, <1>3 DEF Inv, TypeInv
<1>5. SearchOK' /\ OnlyPrefixesWait'
  <2>1. SearchOK' = SearchOK
    BY <1>1, <1>2 DEF SearchOK, UsedUp, Entered
  <2>2. OnlyPrefixesWait' = OnlyPrefixesWait
    BY <1>1, <1>2 DEF OnlyPrefixesWait
  <2> QED BY <2>1, <2>2 DEF Inv
<1>6. FoundOK'
  BY <1>1 DEF Read, FoundOK
<1> QED BY <1>2, <1>4, <1>5, <1>6 DEF Inv

(* The next character.                                                     *)
LEMMA ExtractedIs ==
  ASSUME TypeInv, keybuf # <<>>
  PROVE  Extracted \in Character /\ Rest \in Seq(0 .. 255)
         /\ (BytesOK => Rest \in Seq(0 .. 254))
<1>1. Head(keybuf) \in 0 .. 255 /\ Tail(keybuf) \in Seq(0 .. 255)
  BY HeadTailProperties DEF TypeInv
<1>2. Extracted \in Character
  <2>1. \A h \in 0 .. 255 : (IF h >= 128 THEN 27 ELSE IF h = 0 THEN 255 ELSE h) \in Character
    BY DEF Character
  <2> QED BY <1>1, <2>1 DEF Extracted, NonZero, ESC
<1>3. ASSUME NEW m \in {254, 255}, Tail(keybuf) \in Seq(0 .. m)
      PROVE  Rest \in Seq(0 .. m)
  <2>1. CASE Head(keybuf) >= 128
    <3> DEFINE h == Head(keybuf) - 128
    <3>1. h \in 0 .. m
      <4>1. PICK g \in 0 .. 255 : g = Head(keybuf)
        BY <1>1, Zenon
      <4>2. g >= 128 /\ h = g - 128
        BY <2>1, <4>1, Zenon
      <4> HIDE DEF h
      <4>3. h \in 0 .. 254
        BY <4>2
      <4> QED BY <4>3
    <3> HIDE DEF h
    <3>2. <<h>> \in Seq(0 .. m)
      BY <3>1
    <3>3. <<h>> \o Tail(keybuf) \in Seq(0 .. m)
      BY <1>3, <3>2, ConcatProperties
    <3> QED BY <2>1, <3>3 DEF Rest, h
  <2>2. CASE ~(Head(keybuf) >= 128)
    BY <1>3, <2>2 DEF Rest
  <2> QED BY <2>1, <2>2
<1>4. BytesOK => Tail(keybuf) \in Seq(0 .. 254)
  BY HeadTailProperties DEF BytesOK
<1>5. Rest \in Seq(0 .. 255)
  BY <1>1, <1>3
<1>6. BytesOK => Rest \in Seq(0 .. 254)
  BY <1>3, <1>4
<1> QED BY <1>2, <1>5, <1>6

(* Only the first character of what was used up is ever another one.       *)
LEMMA EnteredLonger ==
  ASSUME NEW u \in Seq(Nat), u # <<>>, NEW v \in Seq(Nat)
  PROVE  Entered(u \o v) = Entered(u) \o v
<1> DEFINE w == u \o v
           e == [u EXCEPT ![1] = key_ENTER]
           f == [w EXCEPT ![1] = key_ENTER]
<1>1. Len(u) \in Nat \ {0} /\ Len(v) \in Nat /\ DOMAIN u = 1 .. Len(u)
  BY EmptySeq, LenProperties
<1>2. /\ w \in Seq(Nat) /\ Len(w) = Len(u) + Len(v) /\ DOMAIN w = 1 .. Len(u) + Len(v)
      /\ \A i \in 1 .. Len(u) + Len(v) : w[i] = IF i <= Len(u) THEN u[i] ELSE v[i - Len(u)]
  BY <1>1, ConcatProperties, LenProperties
<1> HIDE DEF w
<1>3. e \in Seq(Nat) /\ Len(e) = Len(u) /\ \A i \in 1 .. Len(u) : e[i] = IF i = 1 THEN key_ENTER ELSE u[i]
  BY <1>1, ExceptSeq DEF key_ENTER
<1>4. f \in Seq(Nat) /\ Len(f) = Len(w) /\ \A i \in 1 .. Len(w) : f[i] = IF i = 1 THEN key_ENTER ELSE w[i]
  <2>1. 1 \in 1 .. Len(w) /\ 10 \in Nat
    BY <1>1, <1>2
  <2> QED BY <1>2, <2>1, ExceptSeq DEF key_ENTER
<1>5. w # <<>> /\ w[1] = u[1]
  BY <1>1, <1>2
<1> HIDE DEF e, f, w
<1>6. f = e \o v
  <2>1. /\ e \o v \in Seq(Nat) /\ Len(e \o v) = Len(e) + Len(v)
        /\ \A i \in 1 .. Len(e) + Len(v) : (e \o v)[i] = IF i <= Len(e) THEN e[i] ELSE v[i - Len(e)]
    BY <1>3, ConcatProperties
  <2>2. Len(f) = Len(u) + Len(v) /\ Len(e \o v) = Len(u) + Len(v)
    BY <1>2, <1>3, <1>4, <2>1
  <2>3. ASSUME NEW i \in 1 .. Len(u) + Len(v) PROVE f[i] = (e \o v)[i]
    <3>1. CASE i <= Len(u)
      <4>1. i \in 1 .. Len(u)
        BY <1>1, <3>1
      <4> QED BY <1>2, <1>3, <1>4, <2>1, <3>1, <4>1
    <3>2. CASE ~(i <= Len(u))
      <4>1. i # 1
        BY <1>1, <3>2
      <4> QED BY <1>2, <1>3, <1>4, <2>1, <3>2, <4>1
    <3> QED BY <3>1, <3>2
  <2> HIDE DEF e, f
  <2> QED BY <1>4, <2>1, <2>2, <2>3, SeqEqual
<1>7. Entered(w) = IF restricted /\ u[1] = 13 THEN f ELSE w
  BY <1>5 DEF Entered, f
<1>8. Entered(u) = IF restricted /\ u[1] = 13 THEN e ELSE u
  BY DEF Entered, e
<1> QED BY <1>6, <1>7, <1>8 DEF w

LEMMA UsedUpNext ==
  ASSUME TypeInv, keybuf # <<>>, pc \in {"get", "more"}, UsedUp(tty_key_seq), pc = "get" <=> tty_key_seq = <<>>
  PROVE  /\ Append(taken, Extracted) \in Seq(Nat) /\ Len(Append(taken, Extracted)) = Len(tty_key_seq) + 1
         /\ Entered(Append(taken, Extracted)) = Append(tty_key_seq, Received)
         /\ Received \in Character /\ Received \in Nat
<1> DEFINE x == Extracted
<1>1. x \in Character /\ x \in Nat
  <2>1. Character \subseteq Nat
    BY DEF Character
  <2> QED BY <2>1, ExtractedIs
<1>2. taken \in Seq(Nat) /\ Len(taken) = Len(tty_key_seq) /\ Entered(taken) = tty_key_seq
      /\ tty_key_seq \in Seq(Nat)
  BY SeqTypes DEF UsedUp
<1> HIDE DEF x
<1>3. Received = IF pc = "get" /\ restricted /\ x \in {10, 13} THEN 10 ELSE x
  BY DEF Received, key_ENTER, x
<1>4. Received \in Character /\ Received \in Nat
  BY <1>1, <1>3 DEF Character
<1>5. Append(taken, x) \in Seq(Nat) /\ Len(Append(taken, x)) = Len(tty_key_seq) + 1
      /\ Append(taken, x) = taken \o <<x>> /\ <<x>> \in Seq(Nat)
  BY <1>1, <1>2, AppendProperties, AppendIsConcat
<1>6. Entered(Append(taken, x)) = Append(tty_key_seq, Received)
  <2>1. CASE pc = "get"
    <3>1. taken = <<>> /\ tty_key_seq = <<>>
      BY <1>2, <2>1, EmptySeq
    <3>2. Append(taken, x) = <<x>> /\ Append(tty_key_seq, Received) = <<Received>>
      BY <3>1
    <3>3. [<<x>> EXCEPT ![1] = 10] = <<10>> /\ <<x>> # <<>> /\ <<x>>[1] = x
      OBVIOUS
    <3>4. Entered(<<x>>) = IF restricted /\ x = 13 THEN <<10>> ELSE <<x>>
      BY <3>3 DEF Entered, key_ENTER
    <3> QED BY <1>3, <2>1, <3>2, <3>4
  <2>2. CASE pc = "more"
    <3>1. taken # <<>> /\ Received = x
      BY <1>2, <1>3, <2>2, EmptySeq
    <3>2. Entered(taken \o <<x>>) = tty_key_seq \o <<x>>
      BY <1>2, <1>5, <3>1, EnteredLonger
    <3> QED BY <1>1, <1>2, <1>5, <3>1, <3>2, AppendIsConcat
  <2> QED BY <2>1, <2>2
<1> QED BY <1>4, <1>5, <1>6 DEF x

LEMMA ExtractStep ==
  ASSUME Inv, Extract
  PROVE  Inv'
<1> DEFINE c == Received
           s == tty_key_seq
           t == Append(s, c)
<1>1. /\ pc \in {"get", "more"} /\ keybuf # <<>> /\ keybuf' = Rest
      /\ taken' = Append(taken, Extracted) /\ restricted' = restricted
      /\ \/ Len(s) = MaxKeyLength /\ pc' = "undefined" /\ tty_key_seq' = s
         \/ Len(s) # MaxKeyLength /\ tty_key_seq' = t /\ pc' \in {"default", "match"}
      /\ bindings' = bindings /\ current_key' = current_key /\ repeat_count' = repeat_count
  BY DEF Extract
<1>2. list' = list /\ key' = key /\ order' = order /\ Sorted' /\ LatestFirst'
  BY <1>1, ListSame
<1>3. TypeInv /\ SearchOK
  BY DEF Inv
<1>4. /\ s \in Seq(Nat) /\ Len(s) \in Nat /\ Len(list) \in Nat /\ DOMAIN list = 1 .. Len(list)
      /\ s \in Seq(Character) /\ Len(s) <= MaxKeyLength /\ MaxKeyLength \in Nat
  BY <1>3, SeqTypes, KeysAssumption DEF TypeInv
<1>5. /\ c \in Character /\ c \in Nat /\ Rest \in Seq(0 .. 255)
      /\ taken' \in Seq(Nat) /\ Len(taken') = Len(s) + 1 /\ Entered(taken') = t
  <2>1. UsedUp(s) /\ (pc = "get" <=> s = <<>>)
    BY <1>1, <1>3 DEF SearchOK
  <2> QED BY <1>1, <1>3, <2>1, ExtractedIs, UsedUpNext
<1> HIDE DEF c
<1>6. /\ t \in Seq(Nat) /\ Len(t) = Len(s) + 1 /\ t # <<>>
      /\ \A i \in 1 .. Len(s) : t[i] = s[i]
  <2>1. c \in Nat /\ s \in Seq(Nat) /\ Len(s) \in Nat
    BY <1>4, <1>5
  <2> QED BY <2>1, AppendProperties
<1>7. t \in Seq(Character)
  <2>1. c \in Character /\ s \in Seq(Character)
    BY <1>4, <1>5
  <2> QED BY <2>1, AppendProperties
<1>8. TypeInv'
  <2>1. tty_key_seq' \in Seq(Character) /\ Len(tty_key_seq') <= MaxKeyLength
    <3>1. CASE Len(s) = MaxKeyLength /\ tty_key_seq' = s
      BY <1>4, <3>1
    <3>2. CASE Len(s) # MaxKeyLength /\ tty_key_seq' = t
      <4>1. Len(s) + 1 <= MaxKeyLength
        BY <1>4, <3>2
      <4> HIDE DEF t, s
      <4> QED BY <1>6, <1>7, <3>2, <4>1
    <3> QED BY <1>1, <3>1, <3>2
  <2> QED BY <1>1, <1>2, <1>3, <1>5, <2>1 DEF TypeInv
<1>9. CASE pc' = "undefined"
  <2>1. Len(taken') = Len(s) + 1 /\ Len(s) = MaxKeyLength
    BY <1>1, <1>5, <1>9
  <2>2. ~(Len(taken') <= MaxKeyLength)
    BY <1>4, <2>1
  <2>3. SearchOK' /\ FoundOK' /\ OnlyPrefixesWait'
    BY <1>9, <2>2 DEF SearchOK, FoundOK, OnlyPrefixesWait
  <2> QED BY <1>2, <1>8, <2>3 DEF Inv
<1>10. CASE pc' = "default"
  <2>1. SearchOK' /\ FoundOK' /\ OnlyPrefixesWait'
    BY <1>10 DEF SearchOK, FoundOK, OnlyPrefixesWait
  <2> QED BY <1>2, <1>8, <2>1 DEF Inv
<1>11. CASE pc' = "match"
  <2>1. tty_key_seq' = t /\ UsedUp(tty_key_seq)'
    <3>1. tty_key_seq' = t
      BY <1>1, <1>11
    <3>2. Len(t) = Len(s) + 1
      BY <1>6
    <3> HIDE DEF t
    <3> QED BY <1>1, <1>5, <3>1, <3>2 DEF UsedUp, Entered
  <2> HIDE DEF t, s
  <2>2. ASSUME NEW j \in 1 .. current_key - 1 PROVE ~Leq(t, list[j].key_seq)
    <3>1. j \in 1 .. Len(list) /\ ~Leq(s, list[j].key_seq)
      BY <1>1, <1>3, <1>4 DEF SearchOK, TypeInv, s
    <3>2. list[j].key_seq \in Seq(Nat)
      BY <1>3, <3>1, ListEntry
    <3>3. Leq(s, t)
      <4>1. Begins(s, t)
        BY <1>4, <1>6 DEF Begins
      <4> QED BY <1>4, <1>6, <4>1, LeqIs
    <3> QED BY <1>4, <1>6, <3>1, <3>2, <3>3, LeqTransitive
  <2>3. ASSUME NEW i \in 1 .. Len(list), IsPrefix(list[i].key_seq, t) PROVE list[i].key_seq = t
    <3> DEFINE b == list[i].key_seq
    <3>1. b \in Seq(Nat)
      BY <1>3, ListEntry
    <3>2. ~IsPrefix(b, s)
      BY <1>1, <1>3, <1>4 DEF SearchOK, s
    <3>3. IsPrefix(b, t)
      BY <2>3
    <3> HIDE DEF b
    <3>4. Len(b) \in Nat /\ Len(b) <= Len(t) /\ \A k \in 1 .. Len(b) : b[k] = t[k]
      BY <1>6, <3>1, <3>3, PrefixIs, LenProperties
    <3>5. ~(Len(b) <= Len(s))
      <4> SUFFICES ASSUME Len(b) <= Len(s) PROVE FALSE
        OBVIOUS
      <4>1. \A k \in 1 .. Len(b) : b[k] = s[k]
        BY <1>4, <1>6, <3>4
      <4> QED BY <1>4, <3>1, <3>2, <4>1, PrefixIs
    <3>6. Len(b) = Len(t)
      BY <1>4, <1>6, <3>4, <3>5
    <3>7. b = t
      BY <1>6, <3>1, <3>4, <3>6, SeqEqual
    <3> QED BY <3>7 DEF b
  <2>4. list # <<>> => current_key <= Len(list)
    BY <1>1, <1>3 DEF SearchOK
  <2>5. SearchOK'
    BY <1>1, <1>2, <1>4, <1>6, <1>11, <2>1, <2>2, <2>3, <2>4 DEF SearchOK
  <2>6. FoundOK' /\ OnlyPrefixesWait'
    BY <1>11 DEF FoundOK, OnlyPrefixesWait
  <2> QED BY <1>2, <1>8, <2>5, <2>6 DEF Inv
<1> QED BY <1>1, <1>9, <1>10, <1>11


LEMMA FoundIs ==
  ASSUME Inv, pc = "match"
  PROVE  /\ Found \in 1 .. Len(list) + 1
         /\ Found \in 1 .. Len(list) => Leq(tty_key_seq, list[Found].key_seq)
         /\ \A j \in 1 .. Found - 1 : ~Leq(tty_key_seq, list[j].key_seq)
         /\ ~Matches => \A i \in 1 .. Len(list) : ~IsPrefix(list[i].key_seq, tty_key_seq)
<1> DEFINE s == tty_key_seq
           q(i) == list[i].key_seq
<1>1. TypeInv /\ SearchOK /\ Sorted
  BY DEF Inv
<1>2. s \in Seq(Nat) /\ Len(list) \in Nat /\ DOMAIN list = 1 .. Len(list) /\ current_key \in 1 .. Len(list) + 1
  BY <1>1, SeqTypes DEF TypeInv
<1>3. /\ Found \in current_key .. Len(list) + 1
      /\ Found = Len(list) + 1 \/ Leq(s, q(Found))
      /\ \A j \in current_key .. Found - 1 : ~Leq(s, q(j))
  BY <1>1, <1>2, FirstFromIs DEF Found
<1> DEFINE F == Found
<1> HIDE DEF F
<1>4. F = Found
  BY DEF F
<1>5. F \in 1 .. Len(list) + 1 /\ (F \in 1 .. Len(list) => Leq(s, q(F)))
  BY <1>2, <1>3, <1>4
<1>6. ASSUME NEW j \in 1 .. F - 1 PROVE ~Leq(s, q(j))
  <2>1. CASE j < current_key
    <3>1. j \in 1 .. current_key - 1
      BY <1>2, <2>1
    <3> QED BY <1>1, <3>1 DEF SearchOK
  <2>2. CASE ~(j < current_key)
    <3>1. j \in current_key .. F - 1
      BY <1>2, <1>5, <2>2
    <3> QED BY <1>3, <1>4, <3>1
  <2> QED BY <2>1, <2>2
<1>7. ASSUME ~Matches, NEW i \in 1 .. Len(list), IsPrefix(q(i), s) PROVE FALSE
  <2>1. q(i) = s /\ q(i) \in Seq(Nat)
    BY <1>1, <1>2, <1>7, ListEntry DEF SearchOK
  <2>2. Leq(s, q(i))
    BY <1>2, <2>1, LeqReflexive
  <2>3. ~(i \in 1 .. F - 1)
    BY <1>6, <2>2
  <2>4. F \in 1 .. Len(list) /\ (F = i \/ F < i)
    BY <1>2, <1>5, <2>3
  <2>5. Leq(q(F), s) /\ Leq(s, q(F)) /\ q(F) \in Seq(Nat)
    <3>1. F = i \/ Leq(q(F), q(i))
      BY <1>1, <1>2, <2>4 DEF Sorted
    <3> QED BY <1>1, <1>5, <2>1, <2>2, <2>4, <3>1, ListEntry
  <2>6. q(F) = s
    <3> HIDE DEF q, s
    <3> QED BY <1>2, <2>5, LeqAntisymmetric
  <2> QED BY <1>2, <1>4, <1>7, <2>4, <2>6 DEF Matches
<1> QED BY <1>4, <1>5, <1>6, <1>7

LEMMA MatchMoreStep ==
  ASSUME Inv, MatchMore
  PROVE  Inv'
<1>1. /\ pc = "match" /\ ~Matches /\ MayMatch /\ pc' = "more" /\ current_key' = Found
      /\ bindings' = bindings /\ keybuf' = keybuf /\ tty_key_seq' = tty_key_seq
      /\ repeat_count' = repeat_count /\ taken' = taken /\ restricted' = restricted
  BY DEF MatchMore
<1>2. list' = list /\ key' = key /\ order' = order /\ Sorted' /\ LatestFirst'
  BY <1>1, ListSame
<1>3. TypeInv /\ SearchOK /\ DOMAIN list = 1 .. Len(list) /\ Len(list) \in Nat
  BY SeqTypes DEF Inv
<1>4. /\ Found \in 1 .. Len(list) + 1
      /\ \A j \in 1 .. Found - 1 : ~Leq(tty_key_seq, list[j].key_seq)
      /\ \A i \in 1 .. Len(list) : ~IsPrefix(list[i].key_seq, tty_key_seq)
  BY <1>1, FoundIs
<1>5. TypeInv'
  BY <1>1, <1>2, <1>3, <1>4 DEF TypeInv
<1>6. list # <<>> => Found <= Len(list) /\ IsPrefix(tty_key_seq, list[Found].key_seq)
  <2>1. list # <<>> => current_key <= Len(list)
    BY <1>1, <1>3 DEF SearchOK
  <2>2. current_key = Len(list) + 1 => ~(current_key <= Len(list))
    BY <1>3
  <2> QED BY <1>1, <2>1, <2>2 DEF MayMatch
<1>7. list # <<>> => \E i \in DOMAIN list : IsStrictPrefix(tty_key_seq, list[i].key_seq)
  <2> SUFFICES ASSUME list # <<>> PROVE \E i \in DOMAIN list : IsStrictPrefix(tty_key_seq, list[i].key_seq)
    OBVIOUS
  <2>1. Found \in DOMAIN list /\ IsPrefix(tty_key_seq, list[Found].key_seq)
    BY <1>3, <1>4, <1>6
  <2>2. tty_key_seq # list[Found].key_seq
    BY <1>1, <1>6 DEF Matches
  <2> QED BY <2>1, <2>2 DEF IsStrictPrefix
<1>8. UsedUp(tty_key_seq)' /\ tty_key_seq # <<>>
  BY <1>1, <1>3 DEF SearchOK, UsedUp, Entered
<1>9. SearchOK'
  BY <1>1, <1>2, <1>3, <1>4, <1>6, <1>8 DEF SearchOK
<1>10. OnlyPrefixesWait' /\ FoundOK'
  BY <1>1, <1>2, <1>3, <1>4, <1>7 DEF OnlyPrefixesWait, FoundOK
<1> QED BY <1>2, <1>5, <1>9, <1>10 DEF Inv

LEMMA MatchNoneStep ==
  ASSUME Inv, MatchNone
  PROVE  Inv'
<1>1. /\ pc = "match" /\ ~Matches /\ ~MayMatch /\ pc' = "undefined" /\ current_key' = Found
      /\ bindings' = bindings /\ keybuf' = keybuf /\ tty_key_seq' = tty_key_seq
      /\ repeat_count' = repeat_count /\ taken' = taken
  BY DEF MatchNone
<1>2. list' = list /\ key' = key /\ order' = order /\ Sorted' /\ LatestFirst'
  BY <1>1, ListSame
<1>3. TypeInv /\ Sorted /\ tty_key_seq \in Seq(Nat) /\ DOMAIN list = 1 .. Len(list) /\ Len(list) \in Nat
  BY SeqTypes DEF Inv
<1>4. /\ Found \in 1 .. Len(list) + 1
      /\ Found \in 1 .. Len(list) => Leq(tty_key_seq, list[Found].key_seq)
      /\ \A j \in 1 .. Found - 1 : ~Leq(tty_key_seq, list[j].key_seq)
      /\ \A i \in 1 .. Len(list) : ~IsPrefix(list[i].key_seq, tty_key_seq)
  BY <1>1, FoundIs
<1>5. TypeInv'
  BY <1>1, <1>2, <1>3, <1>4 DEF TypeInv
<1>6. ASSUME NEW i \in 1 .. Len(list), IsPrefix(tty_key_seq, list[i].key_seq) PROVE FALSE
  <2> DEFINE F == Found
             q(j) == list[j].key_seq
  <2> HIDE DEF F
  <2>0. /\ F \in 1 .. Len(list) + 1
        /\ F \in 1 .. Len(list) => Leq(tty_key_seq, q(F))
        /\ \A j \in 1 .. F - 1 : ~Leq(tty_key_seq, q(j))
    BY <1>4 DEF F
  <2>1. q(i) \in Seq(Nat)
    BY <1>3, ListEntry
  <2>2. Leq(tty_key_seq, q(i))
    BY <1>6 DEF Leq
  <2>3. F \in 1 .. Len(list) /\ (F = i \/ F < i)
    <3>1. ~(i \in 1 .. F - 1)
      BY <2>0, <2>2
    <3> QED BY <1>3, <2>0, <3>1
  <2>4. q(F) \in Seq(Nat)
    BY <1>3, <2>3, ListEntry
  <2>5. F = i \/ Leq(q(F), q(i))
    BY <1>3, <2>3 DEF Sorted
  <2>6. IsPrefix(tty_key_seq, q(F))
    <3>1. CASE F = i
      BY <1>6, <3>1
    <3>2. CASE Leq(q(F), q(i))
      <4>1. IsPrefix(tty_key_seq, q(i)) /\ Leq(tty_key_seq, q(F))
        BY <1>6, <2>0, <2>3
      <4> HIDE DEF q
      <4> QED BY <1>3, <2>1, <2>4, <3>2, <4>1, PrefixBetween
    <3> QED BY <2>5, <3>1, <3>2
  <2>7. F <= Len(list)
    BY <2>3
  <2> QED BY <1>1, <2>6, <2>7 DEF MayMatch, F
<1>7. SearchOK' /\ FoundOK'
  BY <1>1 DEF SearchOK, FoundOK
<1>8. OnlyPrefixesWait'
  BY <1>1, <1>2, <1>3, <1>4, <1>6 DEF OnlyPrefixesWait
<1> QED BY <1>2, <1>5, <1>7, <1>8 DEF Inv

(* The bytes that stay and those that are counted as repetitions.          *)
LEMMA AheadIs ==
  ASSUME NEW T, T \subseteq Nat, keybuf \in Seq(T),
         tty_key_seq \in Seq(Nat), tty_key_seq # <<>>
  PROVE  /\ Repeats \in Nat
         /\ SubSeq(keybuf, Repeats * Len(tty_key_seq) + 1, Len(keybuf)) \in Seq(T)
         /\ SubSeq(keybuf, 1, Repeats * Len(tty_key_seq)) \in Seq(T)
         /\ SubSeq(keybuf, 1, Repeats * Len(tty_key_seq)) = Times(tty_key_seq, Repeats)
<1> DEFINE s == tty_key_seq
           a == Repeats * Len(s)
           K == Len(keybuf)
<1>1. K \in Nat /\ keybuf \in Seq(Nat)
  BY LenProperties, SeqMonotonic
<1>2. Repeats \in Nat /\ a \in 0 .. K /\ SubSeq(keybuf, 1, a) = Times(s, Repeats)
  BY <1>1, RepeatsIs
<1> HIDE DEF a
<1>3. \A i \in 1 .. K : keybuf[i] \in T
  BY ElementOfSeq
<1>4. SubSeq(keybuf, 1, a) \in Seq(T)
  <2>1. \A i \in 1 .. a : keybuf[i] \in T
    BY <1>1, <1>2, <1>3
  <2> QED BY <1>2, <2>1, SubSeqProperties
<1>5. SubSeq(keybuf, a + 1, K) \in Seq(T)
  <2>1. \A i \in a + 1 .. K : keybuf[i] \in T
    BY <1>1, <1>2, <1>3
  <2> HIDE DEF K
  <2>2. a + 1 \in Nat /\ a + 1 \in Int /\ K \in Int
    BY <1>1, <1>2
  <2> QED BY <2>1, <2>2, SubSeqProperties
<1> QED BY <1>2, <1>4, <1>5 DEF a

LEMMA MatchKeyStep ==
  ASSUME Inv, MatchKey
  PROVE  Inv'
<1>1. /\ pc = "match" /\ Matches /\ pc' = "found" /\ current_key' = Found
      /\ keybuf' = SubSeq(keybuf, Repeats * Len(tty_key_seq) + 1, Len(keybuf))
      /\ repeat_count' = 1 + Repeats
      /\ bindings' = bindings /\ tty_key_seq' = tty_key_seq
  BY DEF MatchKey
<1>2. /\ list' = list /\ key' = key /\ order' = order /\ Sorted' /\ LatestFirst'
      /\ \A i : FirstOf(i)' = FirstOf(i)
  BY <1>1, ListSame
<1>3. TypeInv /\ SearchOK /\ tty_key_seq \in Seq(Nat) /\ DOMAIN list = 1 .. Len(list) /\ Len(list) \in Nat
  BY SeqTypes DEF Inv
<1>4. /\ Found \in 1 .. Len(list) + 1
      /\ \A j \in 1 .. Found - 1 : ~Leq(tty_key_seq, list[j].key_seq)
  BY <1>1, FoundIs
<1>5. Found \in 1 .. Len(list) /\ list[Found].key_seq = tty_key_seq
  BY <1>1, <1>3, <1>4 DEF Matches
<1>6. keybuf' \in Seq(0 .. 255) /\ repeat_count' \in Nat \ {0}
  <2>1. tty_key_seq # <<>> /\ 0 .. 255 \subseteq Nat /\ keybuf \in Seq(0 .. 255)
    BY <1>1, <1>3 DEF SearchOK, TypeInv
  <2>2. /\ Repeats \in Nat
        /\ SubSeq(keybuf, Repeats * Len(tty_key_seq) + 1, Len(keybuf)) \in Seq(0 .. 255)
    BY <1>3, <2>1, AheadIs
  <2> QED BY <1>1, <2>2
<1>7. TypeInv'
  BY <1>1, <1>2, <1>3, <1>4, <1>6 DEF TypeInv
<1>8. FirstOf(Found)
  <2>1. Leq(tty_key_seq, tty_key_seq)
    BY <1>3, LeqReflexive
  <2>2. \A j \in 1 .. Found - 1 : list[j].key_seq # tty_key_seq
    BY <1>4, <2>1
  <2> QED BY <1>5, <2>2 DEF FirstOf
<1>9. FoundOK'
  <2>1. \A j \in 1 .. Found - 1 : list[j].key_seq # list[Found].key_seq
    BY <1>8 DEF FirstOf
  <2> QED BY <1>1, <1>2, <1>3, <1>5, <2>1 DEF FoundOK, FirstOf
<1>10. SearchOK' /\ OnlyPrefixesWait'
  BY <1>1 DEF SearchOK, OnlyPrefixesWait
<1> QED BY <1>2, <1>7, <1>9, <1>10 DEF Inv


-----------------------------------------------------------------------------

LEMMA UnchangedStep ==
  ASSUME Inv, UNCHANGED vars
  PROVE  Inv'
<1>1. /\ bindings' = bindings /\ keybuf' = keybuf /\ tty_key_seq' = tty_key_seq /\ current_key' = current_key
      /\ pc' = pc /\ repeat_count' = repeat_count /\ taken' = taken /\ restricted' = restricted
  BY DEF vars
<1>2. /\ list' = list /\ key' = key /\ order' = order /\ Sorted' /\ LatestFirst'
      /\ \A i : FirstOf(i)' = FirstOf(i)
  BY <1>1, ListSame
<1>3. TypeInv'
  BY <1>1, <1>2 DEF Inv, TypeInv
<1>4. SearchOK'
  BY <1>1, <1>2 DEF Inv, SearchOK, UsedUp, Entered
<1>5. FoundOK'
  BY <1>1, <1>2 DEF Inv, FoundOK, FirstOf
<1>6. OnlyPrefixesWait'
  BY <1>1, <1>2 DEF Inv, OnlyPrefixesWait
<1> QED BY <1>2, <1>3, <1>4, <1>5, <1>6 DEF Inv

LEMMA InitInv == Init => Inv
<1> SUFFICES ASSUME Init PROVE Inv
  OBVIOUS
<1>1. /\ list = <<>> /\ key = 0 /\ order = <<>> /\ keybuf = <<>> /\ tty_key_seq = <<>>
      /\ current_key = 1 /\ pc = "bind" /\ repeat_count = 1 /\ taken = <<>>
  BY DEF Init
<1>2. /\ <<>> \in Seq(Binding) /\ <<>> \in Seq(0 .. 255) /\ <<>> \in Seq(Character)
      /\ Len(<<>>) = 0 /\ DOMAIN <<>> = {}
  OBVIOUS
<1>3. TypeInv
  <2>1. 0 <= MaxKeyLength /\ 1 \in 1 .. 0 + 1 /\ 0 \in 0 .. 0
    BY KeysAssumption
  <2> QED BY <1>1, <1>2, <2>1 DEF TypeInv
<1>4. Sorted /\ LatestFirst
  BY <1>1, <1>2 DEF Sorted, LatestFirst
<1>5. SearchOK /\ FoundOK /\ OnlyPrefixesWait
  BY <1>1 DEF SearchOK, FoundOK, OnlyPrefixesWait
<1> QED BY <1>3, <1>4, <1>5 DEF Inv

LEMMA NextInv == Inv /\ [Next]_vars => Inv'
<1> SUFFICES ASSUME Inv, [Next]_vars PROVE Inv'
  OBVIOUS
<1>1. ASSUME NEW s \in KeySeq, NEW c \in Command, Bind(s, c) PROVE Inv'
  BY <1>1, BindStep
<1>2. CASE GetKey
  BY <1>2, GetKeyStep
<1>3. ASSUME NEW n \in 1 .. MaxRead, NEW bytes \in [1 .. n -> Byte], Read(bytes) PROVE Inv'
  BY <1>3, ReadStep
<1>4. CASE Extract
  BY <1>4, ExtractStep
<1>5. CASE MatchKey
  BY <1>5, MatchKeyStep
<1>6. CASE MatchMore
  BY <1>6, MatchMoreStep
<1>7. CASE MatchNone
  BY <1>7, MatchNoneStep
<1>8. CASE UNCHANGED vars
  BY <1>8, UnchangedStep
<1> QED BY <1>1, <1>2, <1>3, <1>4, <1>5, <1>6, <1>7, <1>8 DEF Next

LEMMA InvCorrect == Spec => []Inv
BY InitInv, NextInv, PTL DEF Spec

(* The list holds every binding ever made, sorted and with the latest of a *)
(* sequence before the others, in whatever order they are made, although   *)
(* tty_key_list_insert goes on from the last insertion.                    *)
THEOREM SortedCorrect == Spec => []ListSorted
<1>1. Inv => ListSorted
  BY DEF Inv, ListSorted
<1> QED BY <1>1, InvCorrect, PTL

(* tty_get_key waits for more exactly while a bound sequence begins with   *)
(* what was typed, and gives up only when none can match any more.         *)
THEOREM WaitCorrect == Spec => []OnlyPrefixesWait
<1>1. Inv => OnlyPrefixesWait
  BY DEF Inv
<1> QED BY <1>1, InvCorrect, PTL

-----------------------------------------------------------------------------
(* What was used up for a key, if no byte 255 is read.                     *)

TakenOK == pc = "found" => Entered(taken) = Times(tty_key_seq, repeat_count)

LEMMA BytesStep ==
  ASSUME 255 \notin Byte, Inv, BytesOK, [Next]_vars
  PROVE  BytesOK'
<1>1. ASSUME keybuf' = keybuf PROVE BytesOK'
  BY <1>1 DEF BytesOK
<1>2. ASSUME NEW n \in 1 .. MaxRead, NEW bytes \in [1 .. n -> Byte], Read(bytes) PROVE BytesOK'
  <2>1. n \in Nat
    BY KeysAssumption
  <2>2. bytes \in [1 .. n -> 0 .. 254]
    <3>1. Byte \subseteq 0 .. 254
      <4>1. ASSUME NEW b \in Byte PROVE b \in 0 .. 254
        <5>1. b \in 0 .. 255
          BY KeysAssumption, Zenon
        <5>2. b # 255
          OBVIOUS
        <5> QED BY <5>1, <5>2
      <4> QED BY <4>1
    <3>2. DOMAIN bytes = 1 .. n /\ bytes = [i \in 1 .. n |-> bytes[i]] /\ \A i \in 1 .. n : bytes[i] \in Byte
      OBVIOUS
    <3> QED BY <3>1, <3>2, Zenon
  <2>3. bytes \in Seq(0 .. 254) /\ keybuf' = bytes
    BY <1>2, <2>1, <2>2 DEF Read
  <2> QED BY <2>3 DEF BytesOK
<1>3. CASE Extract
  <2>1. TypeInv /\ keybuf # <<>> /\ keybuf' = Rest
    BY <1>3 DEF Inv, Extract
  <2>2. Rest \in Seq(0 .. 254)
    BY <2>1, ExtractedIs
  <2> QED BY <2>1, <2>2 DEF BytesOK
<1>4. CASE MatchKey
  <2>1. /\ pc = "match" /\ TypeInv /\ SearchOK
        /\ keybuf' = SubSeq(keybuf, Repeats * Len(tty_key_seq) + 1, Len(keybuf))
    BY <1>4 DEF Inv, MatchKey
  <2>2. tty_key_seq \in Seq(Nat) /\ tty_key_seq # <<>>
    BY <2>1, SeqTypes DEF SearchOK
  <2>3. keybuf \in Seq(0 .. 254) /\ 0 .. 254 \subseteq Nat
    BY DEF BytesOK
  <2>4. SubSeq(keybuf, Repeats * Len(tty_key_seq) + 1, Len(keybuf)) \in Seq(0 .. 254)
    BY <2>2, <2>3, AheadIs
  <2> QED BY <2>1, <2>4 DEF BytesOK
<1>5. (\E s \in KeySeq, c \in Command : Bind(s, c)) \/ GetKey \/ MatchMore \/ MatchNone \/ UNCHANGED vars
        => keybuf' = keybuf
  BY DEF Bind, GetKey, MatchMore, MatchNone, vars
<1> QED BY <1>1, <1>2, <1>3, <1>4, <1>5 DEF Next

LEMMA MatchKeyTaken ==
  ASSUME Inv, BytesOK, MatchKey
  PROVE  TakenOK'
<1> DEFINE s == tty_key_seq
           R == Repeats
           A == SubSeq(keybuf, 1, R * Len(s))
<1>1. /\ pc = "match" /\ TypeInv /\ SearchOK /\ tty_key_seq' = s
      /\ repeat_count' = 1 + R /\ taken' = taken \o Raw(A) /\ restricted' = restricted
  BY DEF Inv, MatchKey
<1>2. s \in Seq(Nat) /\ s # <<>> /\ s \in Seq(Character)
      /\ taken \in Seq(Nat) /\ taken # <<>> /\ Entered(taken) = s
  BY <1>1, SeqTypes, EmptySeq DEF SearchOK, UsedUp, TypeInv
<1>3. keybuf \in Seq(0 .. 254) /\ 0 .. 254 \subseteq Nat
  BY DEF BytesOK
<1>4. R \in Nat /\ A \in Seq(0 .. 254) /\ A = Times(s, R)
  BY <1>2, <1>3, AheadIs
<1> HIDE DEF R, A, s
<1>5. Times(s, R) \in Seq(Character) /\ s \o Times(s, R) = Times(s, R + 1)
  BY <1>2, <1>4, TimesIs
<1>6. A \in Seq(1 .. 127)
  <2>1. Len(A) \in Nat /\ A = [i \in 1 .. Len(A) |-> A[i]]
    BY <1>4, LenProperties
  <2>2. ASSUME NEW i \in 1 .. Len(A) PROVE A[i] \in 1 .. 127
    <3>1. A[i] \in 0 .. 254
      BY <1>4, <2>2, ElementOfSeq
    <3>2. A[i] \in Character
      BY <1>4, <1>5, <2>2, ElementOfSeq
    <3>3. \A x \in 0 .. 254 : x # 255
      OBVIOUS
    <3>4. A[i] # 255
      BY <3>1, <3>3, Zenon
    <3> QED BY <3>2, <3>4, Zenon DEF Character
  <2>3. A \in [1 .. Len(A) -> 1 .. 127]
    BY <2>1, <2>2, Zenon
  <2>4. \A n \in Nat : [1 .. n -> 1 .. 127] \subseteq Seq(1 .. 127)
    OBVIOUS
  <2> QED BY <2>1, <2>3, <2>4, Zenon
<1>7. Raw(A) = A
  BY <1>6, RawIs
<1>8. Entered(taken \o A) = s \o A
  <2>1. A \in Seq(Nat)
    BY <1>3, <1>4, SeqMonotonic
  <2> QED BY <1>2, <2>1, EnteredLonger
<1>9. taken' = taken \o A /\ Entered(taken') = Times(s, R + 1) /\ repeat_count' = R + 1
  BY <1>1, <1>4, <1>5, <1>7, <1>8
<1> QED BY <1>1, <1>9 DEF TakenOK, Entered

LEMMA TakenStep ==
  ASSUME 255 \notin Byte, Inv, BytesOK, TakenOK, [Next]_vars
  PROVE  TakenOK'
<1>1. CASE MatchKey
  BY <1>1, MatchKeyTaken
<1>2. (\E s \in KeySeq, c \in Command : Bind(s, c)) \/ GetKey
        \/ (\E n \in 1 .. MaxRead : \E bytes \in [1 .. n -> Byte] : Read(bytes))
        \/ Extract \/ MatchMore \/ MatchNone
        => pc' # "found"
  BY DEF Bind, GetKey, Read, Extract, MatchMore, MatchNone
<1>3. CASE UNCHANGED vars
  BY <1>3 DEF TakenOK, Entered, vars
<1> QED BY <1>1, <1>2, <1>3 DEF Next, TakenOK

LEMMA FoundLatest ==
  ASSUME Inv, TakenOK
  PROVE  KeyIsTyped
<1> SUFFICES ASSUME pc = "found" PROVE KeyIsTyped
  BY DEF KeyIsTyped
<1>1. /\ current_key \in DOMAIN list /\ list[current_key].key_seq = tty_key_seq
      /\ FirstOf(current_key)
  BY DEF Inv, FoundOK
<1>2. Latest(tty_key_seq, list[current_key])
  BY <1>1 DEF Inv, LatestFirst
<1>3. Entered(taken) = Times(list[current_key].key_seq, repeat_count)
  BY <1>1 DEF TakenOK
<1> QED BY <1>2, <1>3 DEF KeyIsTyped

(* What tty_get_key takes for a key and its repetitions is what was typed, *)
(* a ^M in front standing for Enter with restricted input, and the command *)
(* is the one bound last, for all bindings and bytes but 255, which is     *)
(* Meta-DEL and is counted as a repeated ^SPC.                             *)
THEOREM TypedCorrect ==
  ASSUME 255 \notin Byte
  PROVE  Spec => []KeyIsTyped
<1>1. Init => BytesOK /\ TakenOK
  BY DEF Init, BytesOK, TakenOK
<1>2. Inv /\ BytesOK /\ TakenOK /\ [Next]_vars => BytesOK' /\ TakenOK'
  BY BytesStep, TakenStep
<1>3. Inv /\ TakenOK => KeyIsTyped
  BY FoundLatest
<1> QED BY <1>1, <1>2, <1>3, InvCorrect, PTL DEF Spec
=============================================================================
