-------------------------- MODULE PanelDirsProofs --------------------------
(***************************************************************************)
(* Where the process is, and what the panels show, for every tree of       *)
(* directories and however other processes change it.                      *)
(***************************************************************************)
EXTENDS PanelDirs, SequenceTheorems, TLAPS

(* A directory exists only with its parent; what a panel lists is never    *)
(* the root directory, so that it has a name.                              *)
TreeOK ==
  /\ \A d \in alive : Up(d) \in alive
  /\ \A p \in Panel : Root \notin listing[p]

(* What each step of a command leaves to be done.                          *)
PlanOK ==
  /\ pc = "this" => who = active /\ after = "prompt"
  /\ pc = "twin" => after \in {"prompt", "record", "record_restart"}
  /\ pc \in {"other", "last"} => after \in {"prompt", "focus"}

(* While the other panel is still to be compared with the one that was     *)
(* read, the process is already where it has to be at the prompt.          *)
CwdOK ==
  pc \in {"prompt", "twin", "record", "record_restart"} /\ cwd # path[active]
    => cwd = Gone \/ (cwd = Root /\ path[dst] = Root)

TypeInv == TypeOK /\ TreeOK /\ PlanOK

(* In an undisturbed command: the panel that was read shows what is on the *)
(* disk, and so does the other one when it comes to the same directory.    *)
Fresh(p) == path[p] \in alive => listing[p] = Children(path[p])

FreshOK ==
  calm =>
    /\ pc = "twin" =>
         /\ Fresh(who)
         /\ who # active /\ path[who] # path[active] => path[active] \notin alive
    /\ pc \in {"record", "record_restart"} =>
         \A p \in Panel : path[p] = path[active] => Fresh(p)
    /\ pc = "last" => Fresh(dst)
    /\ pc = "focus" => \A p \in Panel : Fresh(p)
-----------------------------------------------------------------------------
(* Sequences, and directories as sequences.                                *)

LEMMA PrefixByElements ==
  ASSUME NEW s \in Seq(STRING), NEW t \in Seq(STRING)
  PROVE  IsPrefix(s, t) <=> Len(s) <= Len(t) /\ \A i \in 1 .. Len(s) : s[i] = t[i]
<1>1. SubSeq(s, 1, Len(s)) = s
  BY SubSeqFull
<1>2. ASSUME Len(s) <= Len(t)
      PROVE  /\ SubSeq(t, 1, Len(s)) \in Seq(STRING)
             /\ Len(SubSeq(t, 1, Len(s))) = Len(s)
             /\ \A i \in 1 .. Len(s) : SubSeq(t, 1, Len(s))[i] = t[i]
  BY <1>2
<1>3. ASSUME Len(s) <= Len(t), \A i \in 1 .. Len(s) : s[i] = t[i]
      PROVE  s = SubSeq(t, 1, Len(s))
  BY <1>2, <1>3, SeqEqual
<1> QED BY <1>1, <1>2, <1>3 DEF IsPrefix

LEMMA FrontProperties ==
  ASSUME NEW s \in Seq(STRING), s # <<>>
  PROVE  /\ Front(s) \in Seq(STRING) /\ Len(Front(s)) = Len(s) - 1 /\ Len(s) > 0
         /\ \A i \in 1 .. Len(s) - 1 : Front(s)[i] = s[i]
         /\ Last(s) \in STRING
<1>1. Len(s) \in Nat /\ Len(s) > 0
  BY EmptySeq
<1>2. \A i \in 1 .. Len(s) : s[i] \in STRING
  BY ElementOfSeq
<1>3. Last(s) \in STRING
  BY <1>1, <1>2 DEF Last
<1>4. /\ SubSeq(s, 1, Len(s) - 1) \in Seq(STRING)
      /\ Len(SubSeq(s, 1, Len(s) - 1)) = Len(s) - 1
      /\ \A i \in 1 .. Len(s) - 1 : SubSeq(s, 1, Len(s) - 1)[i] = s[i]
  <2>1. ASSUME NEW k \in 0 .. Len(s)
        PROVE  /\ SubSeq(s, 1, k) \in Seq(STRING) /\ Len(SubSeq(s, 1, k)) = k
               /\ \A i \in 1 .. k : SubSeq(s, 1, k)[i] = s[i]
    OBVIOUS
  <2>2. Len(s) - 1 \in 0 .. Len(s)
    BY <1>1
  <2> QED BY <2>1, <2>2
<1> QED BY <1>1, <1>3, <1>4 DEF Front

LEMMA DirIsSeq ==
  /\ Root \in Dir /\ \A d \in Dir : d \in Seq(STRING)
  /\ \A d \in Dir : Up(d) \in Dir
<1>1. Root \in Seq(STRING)
  BY EmptySeq DEF Root
<1>2. \A d \in Dir \ {Root} : d \in Seq(STRING) /\ Front(d) \in Dir
  BY DirAssumption
<1>3. Root \in Dir
  BY DirAssumption
<1> QED BY <1>1, <1>2, <1>3 DEF Up

(* Whatever is above a directory is above everything below it.             *)
LEMMA BelowUp ==
  ASSUME NEW x \in Seq(STRING), NEW d \in Dir, d # Root, Up(d) \in Below(x)
  PROVE  d \in Below(x)
<1>1. d \in Seq(STRING) /\ d # <<>>
  BY DirIsSeq DEF Root
<1>2. Up(d) = Front(d) /\ IsPrefix(x, Front(d))
  BY DEF Up, Below
<1> QED BY <1>1, <1>2, FrontProperties, PrefixByElements DEF Below

LEMMA PrefixUp ==
  ASSUME NEW e \in Dir, NEW d \in Seq(STRING), IsPrefix(e, d)
  PROVE  IsPrefix(Up(e), d)
<1>1. e \in Seq(STRING)
  BY DirIsSeq
<1>2. CASE e = Root
  BY <1>2 DEF Up
<1>3. CASE e # Root
  <2>1. Up(e) = Front(e) /\ e # <<>>
    BY <1>3 DEF Up, Root
  <2>2. /\ Front(e) \in Seq(STRING) /\ Len(Front(e)) = Len(e) - 1
        /\ \A i \in 1 .. Len(e) - 1 : Front(e)[i] = e[i]
    BY <1>1, <2>1, FrontProperties
  <2>3. Len(e) <= Len(d) /\ \A i \in 1 .. Len(e) : e[i] = d[i]
    BY <1>1, PrefixByElements
  <2>4. Len(Front(e)) <= Len(d) /\ \A i \in 1 .. Len(Front(e)) : Front(e)[i] = d[i]
    BY <1>1, <2>2, <2>3
  <2> QED BY <2>1, <2>2, <2>4, PrefixByElements
<1> QED BY <1>2, <1>3

(* Removing a directory with all that is below it leaves a tree.           *)
LEMMA TreeWithout ==
  ASSUME NEW D \in SUBSET Dir, Root \in D, \A d \in D : Up(d) \in D,
         NEW x \in Seq(STRING), x # Root
  PROVE  Root \in D \ Below(x) /\ \A d \in D \ Below(x) : Up(d) \in D \ Below(x)
<1>1. Root \notin Below(x)
  <2>1. Len(x) > 0 /\ Root \in Seq(STRING) /\ Len(Root) = 0
    BY DEF Root
  <2> QED BY <2>1 DEF Below, IsPrefix
<1>2. ASSUME NEW d \in D, d \notin Below(x)
      PROVE  Up(d) \notin Below(x)
  BY <1>1, <1>2, BelowUp DEF Up
<1> QED BY <1>1, <1>2

(* r is s followed by the l names of t.                                      *)
IsConcat(r, s, t, l) ==
  /\ r \in Seq(STRING) /\ Len(r) = Len(s) + l
  /\ \A i \in 1 .. Len(s) + l : r[i] = IF i <= Len(s) THEN s[i] ELSE t[i - Len(s)]

(* Joining two paths keeps the names of each, in order.                      *)
LEMMA Concatenated ==
  ASSUME NEW s \in Seq(STRING), NEW t \in Seq(STRING), NEW l, Len(t) = l
  PROVE  IsConcat(s \o t, s, t, l)
BY ConcatProperties DEF IsConcat

(* A directory that gets another name takes what is below it along.        *)
LEMMA TreeRenamed ==
  ASSUME alive \in SUBSET Dir, Root \in alive, \A d \in alive : Up(d) \in alive,
         NEW from \in alive, from # Root,
         NEW to \in Dir, to \notin alive, Up(to) \in alive, to \notin Below(from)
  PROVE  Root \in Renamed(from, to) /\ \A d \in Renamed(from, to) : Up(d) \in Renamed(from, to)
<1> DEFINE Rest(e) == SubSeq(e, Len(from) + 1, Len(e))
<1>1. from \in Seq(STRING) /\ to \in Seq(STRING) /\ to # Root /\ Len(to) \in Nat /\ Len(to) > 0
  BY DirIsSeq, EmptySeq DEF Root
<1>2. Root \in alive \ Below(from) /\ \A d \in alive \ Below(from) : Up(d) \in alive \ Below(from)
  BY <1>1, TreeWithout
<1>3. Up(to) \in alive \ Below(from)
  BY <1>1, BelowUp
<1>4. ASSUME NEW e \in alive \cap Below(from)
      PROVE  Up(to \o Rest(e)) \in Renamed(from, to)
  <2>1. e \in Seq(STRING) /\ Len(e) \in Nat /\ Len(from) \in Nat /\ Len(from) <= Len(e)
    BY <1>1, DirIsSeq DEF Below, IsPrefix
  <2>2. CASE Len(e) = Len(from)
    <3>1. Rest(e) = <<>>
      BY <2>1, <2>2, SubSeqEmpty
    <3>2. to \o Rest(e) = to
      BY <1>1, <3>1, ConcatEmptySeq
    <3> QED BY <1>3, <3>2 DEF Renamed
  <2>3. CASE Len(e) > Len(from)
    <3>1. e # <<>> /\ Up(e) = Front(e) /\ Up(e) \in alive /\ Up(e) \in Dir
      BY <2>1, <2>3, DirIsSeq DEF Up, Root
    <3>2. /\ Front(e) \in Seq(STRING) /\ Len(Front(e)) = Len(e) - 1
          /\ \A i \in 1 .. Len(e) - 1 : Front(e)[i] = e[i]
      BY <2>1, <3>1, FrontProperties
    <3>3. \A i \in 1 .. Len(from) : from[i] = e[i]
      BY <1>1, <2>1, PrefixByElements DEF Below
    <3>4. Len(from) <= Len(Front(e)) /\ \A i \in 1 .. Len(from) : from[i] = Front(e)[i]
      BY <2>1, <2>3, <3>2, <3>3
    <3>5. Up(e) \in Below(from)
      BY <1>1, <3>1, <3>2, <3>4, PrefixByElements DEF Below
    <3>6. /\ Rest(e) \in Seq(STRING) /\ Len(Rest(e)) = Len(e) - Len(from)
          /\ \A i \in 1 .. Len(e) - Len(from) : Rest(e)[i] = e[Len(from) + i]
      BY <2>1, <2>3
    <3>7. /\ Rest(Front(e)) \in Seq(STRING) /\ Len(Rest(Front(e))) = Len(e) - 1 - Len(from)
          /\ \A i \in 1 .. Len(e) - 1 - Len(from) : Rest(Front(e))[i] = e[Len(from) + i]
      <4> HIDE DEF Rest
      <4>1. \A f \in Seq(STRING) : Len(from) <= Len(f) =>
              /\ Rest(f) \in Seq(STRING) /\ Len(Rest(f)) = Len(f) - Len(from)
              /\ \A i \in 1 .. Len(f) - Len(from) : Rest(f)[i] = f[Len(from) + i]
        BY <2>1 DEF Rest
      <4>2. \A i \in 1 .. Len(e) - 1 - Len(from) : Len(from) + i \in 1 .. Len(e) - 1
        BY <2>1
      <4> QED BY <4>1, <4>2, <3>2, <3>4
    <3> DEFINE d == to \o Rest(e)
               u == to \o Rest(Front(e))
    <3> HIDE DEF Rest
    <3>8. /\ d \in Seq(STRING) /\ Len(d) = Len(to) + (Len(e) - Len(from))
          /\ \A i \in 1 .. Len(to) + (Len(e) - Len(from)) :
               d[i] = IF i <= Len(to) THEN to[i] ELSE Rest(e)[i - Len(to)]
      <4>1. IsConcat(d, to, Rest(e), Len(e) - Len(from))
        BY <1>1, <3>6, Concatenated
      <4> QED BY <4>1 DEF IsConcat
    <3>9. /\ u \in Seq(STRING) /\ Len(u) = Len(to) + (Len(e) - 1 - Len(from))
          /\ \A i \in 1 .. Len(to) + (Len(e) - 1 - Len(from)) :
               u[i] = IF i <= Len(to) THEN to[i] ELSE Rest(Front(e))[i - Len(to)]
      <4>1. IsConcat(u, to, Rest(Front(e)), Len(e) - 1 - Len(from))
        BY <1>1, <3>7, Concatenated
      <4> QED BY <4>1 DEF IsConcat
    <3> HIDE DEF d, u
    <3>10. d # <<>> /\ Up(d) = Front(d)
      BY <1>1, <2>1, <2>3, <3>8 DEF Up, Root
    <3>11. /\ Front(d) \in Seq(STRING) /\ Len(Front(d)) = Len(d) - 1
           /\ \A i \in 1 .. Len(d) - 1 : Front(d)[i] = d[i]
      BY <3>8, <3>10, FrontProperties
    <3>12. Len(u) = Len(d) - 1 /\ Len(u) \in Nat
      BY <1>1, <2>1, <2>3, <3>8, <3>9
    <3>13. ASSUME NEW i \in 1 .. Len(u)
           PROVE  Front(d)[i] = u[i]
      <4>1. /\ i \in 1 .. Len(d) - 1
            /\ i \in 1 .. Len(to) + (Len(e) - Len(from))
            /\ i \in 1 .. Len(to) + (Len(e) - 1 - Len(from))
        BY <1>1, <2>1, <3>8, <3>9, <3>12
      <4>2. Front(d)[i] = d[i]
        BY <4>1, <3>11
      <4>3. d[i] = IF i <= Len(to) THEN to[i] ELSE Rest(e)[i - Len(to)]
        BY <4>1, <3>8
      <4>4. u[i] = IF i <= Len(to) THEN to[i] ELSE Rest(Front(e))[i - Len(to)]
        BY <4>1, <3>9
      <4>5. ASSUME i > Len(to)
            PROVE  Rest(e)[i - Len(to)] = Rest(Front(e))[i - Len(to)]
        <5>1. i - Len(to) \in 1 .. Len(e) - 1 - Len(from) /\ i - Len(to) \in 1 .. Len(e) - Len(from)
          BY <4>1, <4>5, <1>1, <2>1
        <5>2. Rest(e)[i - Len(to)] = e[Len(from) + (i - Len(to))]
          BY <5>1, <3>6
        <5>3. Rest(Front(e))[i - Len(to)] = e[Len(from) + (i - Len(to))]
          BY <5>1, <3>7
        <5> QED BY <5>2, <5>3
      <4> QED BY <4>1, <4>2, <4>3, <4>4, <4>5, <1>1
    <3>14. Front(d) = u
      BY <3>9, <3>11, <3>12, <3>13, SeqEqual
    <3>15. u \in Renamed(from, to)
      BY <3>1, <3>5 DEF u, Rest, Renamed
    <3> QED BY <3>10, <3>14, <3>15 DEF d
  <2> QED BY <2>1, <2>2, <2>3
<1> QED BY <1>2, <1>4 DEF Renamed

-----------------------------------------------------------------------------
(* Type correctness: a tree stays a tree, and the process is in it.        *)

(* Reading a panel at an existing directory.                               *)
LEMMA ReadTypes ==
  ASSUME TypeOK, TreeOK, NEW p \in Panel, NEW d \in alive, ReadAt(p, d)
  PROVE  /\ cwd' = d /\ path' \in [Panel -> Dir] /\ path'[p] = d
         /\ listing' \in [Panel -> SUBSET Dir]
         /\ \A q \in Panel : Root \notin listing'[q]
         /\ \A q \in Panel \ {p} : path'[q] = path[q] /\ listing'[q] = listing[q]
<1>1. Children(d) \subseteq Dir /\ Root \notin Children(d) /\ d \in Dir
  BY DEF TypeOK, Children
<1> QED BY <1>1 DEF TypeOK, TreeOK, ReadAt

LEMMA OpenTypes ==
  ASSUME TypeOK, TreeOK, NEW p \in Panel, NEW d, Open(p, d)
  PROVE  /\ cwd' \in alive /\ path' \in [Panel -> Dir] /\ path'[p] = cwd'
         /\ listing' \in [Panel -> SUBSET Dir]
         /\ \A q \in Panel : Root \notin listing'[q]
         /\ \A q \in Panel \ {p} : path'[q] = path[q] /\ listing'[q] = listing[q]
<1>1. PICK e \in alive : ReadAt(p, e)
  BY DEF TypeOK, Open, Recover
<1> QED BY <1>1, ReadTypes

LEMMA ChangeDiskTypes ==
  ASSUME TypeInv, NEW D \in SUBSET Dir, Root \in D, \A d \in D : Up(d) \in D,
         NEW step, NEW next, ChangeDisk(D, step, next),
         (step = "this" /\ next = "prompt") \/ (step = "other" /\ next \in {"prompt", "focus"})
  PROVE  TypeInv'
<1>1. /\ alive' = D /\ cwd' \in D \cup {Gone} /\ pc' = step /\ who' = active /\ after' = next
      /\ calm' = TRUE /\ path' = path /\ listing' = listing /\ active' = active
      /\ dir_history' = dir_history /\ dir_history_point' = dir_history_point
  BY DEF ChangeDisk, Command, panels, history
<1>2. TypeOK'
  BY <1>1 DEF TypeInv, TypeOK, PcSet
<1>3. TreeOK'
  BY <1>1 DEF TypeInv, TreeOK, Up
<1>4. PlanOK'
  BY <1>1 DEF PlanOK
<1> QED BY <1>2, <1>3, <1>4 DEF TypeInv

(* Commands that read one panel and leave the disk alone.                  *)
LEMMA CommandTypes ==
  ASSUME TypeInv, NEW step, NEW p \in Panel, NEW next, Command(step, p, next),
         UNCHANGED alive, active' \in Panel,
         cwd' \in alive \cup {Gone}, path' \in [Panel -> Dir], listing' \in [Panel -> SUBSET Dir],
         \A q \in Panel : Root \notin listing'[q],
         dir_history' \in Seq(Dir), dir_history_point' \in 0 .. Len(dir_history') - 1,
         \/ step = "prompt" /\ next = "prompt"
         \/ step = "twin" /\ next \in {"prompt", "record", "record_restart"}
  PROVE  TypeInv'
<1>1. pc' = step /\ who' = p /\ after' = next /\ calm' = TRUE
  BY DEF Command
<1>2. TypeOK'
  BY <1>1 DEF TypeInv, TypeOK, PcSet
<1>3. TreeOK'
  BY <1>1 DEF TypeInv, TreeOK, Up
<1>4. PlanOK'
  BY <1>1 DEF PlanOK
<1> QED BY <1>2, <1>3, <1>4 DEF TypeInv

(* The rest of a command.                                                  *)
LEMMA ContinueTypes ==
  ASSUME TypeInv, UNCHANGED <<alive, active, who, calm>>,
         cwd' \in alive \cup {Gone}, path' \in [Panel -> Dir], listing' \in [Panel -> SUBSET Dir],
         \A q \in Panel : Root \notin listing'[q],
         dir_history' \in Seq(Dir), dir_history_point' \in 0 .. Len(dir_history') - 1,
         pc' \in PcSet, after' \in PcSet, PlanOK'
  PROVE  TypeInv'
<1>1. TypeOK'
  BY DEF TypeInv, TypeOK
<1>2. TreeOK'
  BY DEF TypeInv, TreeOK, Up
<1> QED BY <1>1, <1>2 DEF TypeInv

LEMMA TypeStep == TypeInv /\ [Next]_vars => TypeInv'
<1> SUFFICES ASSUME TypeInv, [Next]_vars PROVE TypeInv'
  OBVIOUS
<1>1. TypeOK /\ TreeOK /\ PlanOK
  BY DEF TypeInv
<1>2. /\ alive \in SUBSET Dir /\ Root \in alive /\ \A d \in alive : Up(d) \in alive
      /\ active \in Panel /\ dst \in Panel /\ who \in Panel /\ Other(who) \in Panel
      /\ cwd \in alive \cup {Gone} /\ path \in [Panel -> Dir] /\ listing \in [Panel -> SUBSET Dir]
      /\ \A q \in Panel : Root \notin listing[q]
      /\ dir_history \in Seq(Dir) /\ dir_history_point \in 0 .. Len(dir_history) - 1
      /\ after \in PcSet
  BY <1>1 DEF TypeOK, TreeOK, dst, Other, Panel
<1> DEFINE PathsOK ==
             /\ cwd' \in alive \cup {Gone} /\ path' \in [Panel -> Dir]
             /\ listing' \in [Panel -> SUBSET Dir] /\ \A q \in Panel : Root \notin listing'[q]
<1>3. ASSUME NEW p \in Panel, NEW d, Open(p, d)
      PROVE  PathsOK
  BY <1>1, <1>3, OpenTypes
<1>4. ASSUME NEW p \in Panel, NEW d \in alive, ReadAt(p, d)
      PROVE  PathsOK
  BY <1>1, <1>4, ReadTypes
<1>5. ASSUME NEW p \in Panel, Recover(p)
      PROVE  PathsOK
  BY <1>2, <1>4, <1>5 DEF Recover
<1>6. ASSUME UNCHANGED <<cwd, panels>>
      PROVE  PathsOK
  BY <1>2, <1>6 DEF panels
<1>7. ASSUME NEW d, d \in listing[active], cwd # Gone
      PROVE  /\ Append(cwd, Last(d)) \in Seq(STRING) /\ Append(cwd, Last(d)) # Root
  <2>1. d \in Seq(STRING) /\ d # <<>> /\ cwd \in Seq(STRING)
    BY <1>2, <1>7, DirIsSeq DEF Root
  <2>2. Last(d) \in STRING
    BY <2>1, FrontProperties
  <2> QED BY <2>1, <2>2, AppendProperties DEF Root
<1> HIDE DEF PathsOK
<1>8. ASSUME NEW d \in Dir, Enter(d) PROVE TypeInv'
  <2>1. PathsOK
    BY <1>2, <1>4, <1>8 DEF Enter
  <2> QED BY <1>2, <1>8, <2>1, CommandTypes DEF Enter, Quietly, history, PathsOK
<1>9. ASSUME NEW d \in Dir, MakeDirectory(d) PROVE TypeInv'
  <2> DEFINE D == alive \cup {e \in Dir : IsPrefix(e, d)}
  <2>1. Root \in D /\ D \in SUBSET Dir
    BY <1>2
  <2>2. \A e \in D : Up(e) \in D
    <3>1. d \in Seq(STRING)
      BY DirIsSeq
    <3> QED BY <1>2, <3>1, DirIsSeq, PrefixUp
  <2> QED BY <1>9, <2>1, <2>2, ChangeDiskTypes DEF MakeDirectory
<1>10. ASSUME NEW d \in Dir, Delete(d) PROVE TypeInv'
  <2> DEFINE x == Append(cwd, Last(d))
  <2>1. x \in Seq(STRING) /\ x # Root
    BY <1>7, <1>10 DEF Delete
  <2>2. Root \in alive \ Below(x) /\ \A e \in alive \ Below(x) : Up(e) \in alive \ Below(x)
    BY <1>2, <2>1, TreeWithout
  <2>3. alive \ Below(x) \in SUBSET Dir
    BY <1>2
  <2> QED BY <1>10, <2>2, <2>3, ChangeDiskTypes DEF Delete
<1>11. ASSUME EnterUp PROVE TypeInv'
  <2> DEFINE up == IF cwd # Gone THEN Up(cwd) ELSE Up(path[active])
             ok == IF cwd # Gone THEN TRUE ELSE up # Root /\ up \in alive
  <2>1. CASE ok /\ ReadAt(active, up) /\ Command("twin", active, "prompt") /\ Quietly
    <3>1. up \in alive
      BY <1>2, <2>1
    <3>2. PathsOK
      BY <1>2, <1>4, <2>1, <3>1
    <3> QED BY <1>2, <2>1, <3>2, CommandTypes DEF Quietly, history, PathsOK
  <2>2. CASE Recover(active) /\ Command("prompt", active, "prompt") /\ Quietly
    <3>1. PathsOK
      BY <1>2, <1>5, <2>2
    <3> QED BY <1>2, <2>2, <3>1, CommandTypes DEF Quietly, history, PathsOK
  <2> QED BY <1>11, <2>1, <2>2 DEF EnterUp
<1>12. ASSUME NEW d \in Dir, NEW next \in {"record", "record_restart"}, ChangeDirectory(d, next)
       PROVE  TypeInv'
  <2>1. PathsOK
    BY <1>2, <1>3, <1>12 DEF ChangeDirectory
  <2> QED BY <1>2, <1>12, <2>1, CommandTypes DEF ChangeDirectory, Quietly, history, PathsOK
<1>13. ASSUME AdaptOther PROVE TypeInv'
  <2>1. PathsOK
    BY <1>2, <1>3, <1>13 DEF AdaptOther
  <2> QED BY <1>2, <1>13, <2>1, CommandTypes DEF AdaptOther, Quietly, history, PathsOK
<1>14. ASSUME NEW step \in {-1, 1}, GoInHistory(step) PROVE TypeInv'
  <2>1. PathsOK
    BY <1>2, <1>3, <1>14 DEF GoInHistory
  <2> QED BY <1>2, <1>14, <2>1, CommandTypes DEF GoInHistory, PathsOK
<1>15. ASSUME ResetHistory PROVE TypeInv'
  <2>1. PathsOK
    BY <1>6, <1>15 DEF ResetHistory
  <2>2. dir_history' \in Seq(Dir) /\ dir_history_point' \in 0 .. Len(dir_history') - 1
    BY <1>2, <1>15 DEF ResetHistory
  <2> QED BY <1>2, <1>15, <2>1, <2>2, CommandTypes DEF ResetHistory, PathsOK
<1>16. ASSUME OtherPanel PROVE TypeInv'
  <2>1. PathsOK
    <3>1. CASE path[dst] \in alive /\ cwd' = path[dst] /\ UNCHANGED panels
      BY <1>2, <3>1 DEF panels, PathsOK
    <3> QED BY <1>2, <1>5, <1>16, <3>1 DEF OtherPanel
  <2> QED BY <1>2, <1>16, <2>1, CommandTypes DEF OtherPanel, history, PathsOK
<1>17. ASSUME NEW d \in Dir, NEW to \in Dir, Copy(d, to) PROVE TypeInv'
  <2>1. \A e \in alive \cup {to} : Up(e) \in alive \cup {to}
    BY <1>2, <1>17 DEF Copy
  <2> QED BY <1>2, <1>17, <2>1, ChangeDiskTypes DEF Copy
<1>18. ASSUME NEW d \in Dir, NEW to \in Dir, NEW step \in {"other", "this"}, Rename(d, to, step)
       PROVE  TypeInv'
  <2> DEFINE from == Append(cwd, Last(d))
  <2>1. /\ from # Root /\ from \in alive /\ to \notin alive /\ Up(to) \in alive
        /\ to \notin Below(from) /\ Renamed(from, to) \in SUBSET Dir
        /\ ChangeDisk(Renamed(from, to), step, "prompt")
    BY <1>7, <1>18 DEF Rename
  <2>2. Root \in Renamed(from, to) /\ \A e \in Renamed(from, to) : Up(e) \in Renamed(from, to)
    BY <1>2, <2>1, TreeRenamed
  <2> QED BY <2>1, <2>2, ChangeDiskTypes
<1>19. ASSUME Refresh \/ Restart PROVE TypeInv'
  BY <1>2, <1>19, ChangeDiskTypes DEF Refresh, Restart
<1>20. ASSUME ReadThis PROVE TypeInv'
  <2>1. PathsOK
    BY <1>2, <1>3, <1>20 DEF ReadThis, Reread
  <2>2. PlanOK'
    BY <1>1, <1>20 DEF ReadThis, PlanOK
  <2> QED BY <1>2, <1>20, <2>1, <2>2, ContinueTypes DEF ReadThis, history, PathsOK, PcSet
<1>21. ASSUME Twin PROVE TypeInv'
  <2>1. PathsOK
    BY <1>2, <1>3, <1>6, <1>21 DEF Twin, RereadTwin, Reread
  <2>2. PlanOK'
    BY <1>1, <1>21 DEF Twin, PlanOK
  <2> QED BY <1>2, <1>21, <2>1, <2>2, ContinueTypes DEF Twin, history, PathsOK
<1>22. ASSUME Record PROVE TypeInv'
  <2>1. PathsOK
    BY <1>6, <1>22 DEF Record
  <2>2. PlanOK' /\ pc' \in PcSet /\ after' \in PcSet
    BY <1>1, <1>2, <1>22 DEF Record, PlanOK, PcSet
  <2>3. dir_history' \in Seq(Dir) /\ dir_history_point' \in 0 .. Len(dir_history') - 1
    <3>1. path[who] \in Dir /\ Len(dir_history) \in Nat
      BY <1>2
    <3> QED BY <1>2, <1>22, <3>1, AppendProperties DEF Record
  <2> QED BY <1>2, <1>22, <2>1, <2>2, <2>3, ContinueTypes DEF Record, PathsOK
<1>23. ASSUME ReadOther PROVE TypeInv'
  <2>1. PathsOK
    BY <1>2, <1>3, <1>23 DEF ReadOther, Reread
  <2>2. PlanOK'
    BY <1>1, <1>23 DEF ReadOther, PlanOK
  <2> QED BY <1>2, <1>23, <2>1, <2>2, ContinueTypes DEF ReadOther, history, PathsOK, PcSet
<1>24. ASSUME ReadLast PROVE TypeInv'
  <2>1. PathsOK
    BY <1>2, <1>3, <1>24 DEF ReadLast, Reread
  <2>2. PlanOK'
    BY <1>1, <1>24 DEF ReadLast, PlanOK
  <2> QED BY <1>2, <1>24, <2>1, <2>2, ContinueTypes DEF ReadLast, history, PathsOK
<1>25. ASSUME Focus PROVE TypeInv'
  <2>1. PathsOK
    <3>1. CASE path[active] \in alive /\ cwd' = path[active] /\ UNCHANGED panels
      BY <1>2, <3>1 DEF panels, PathsOK
    <3> QED BY <1>2, <1>5, <1>25, <3>1 DEF Focus
  <2>2. PlanOK'
    BY <1>1, <1>25 DEF Focus, PlanOK
  <2> QED BY <1>2, <1>25, <2>1, <2>2, ContinueTypes DEF Focus, history, PathsOK, PcSet
<1>26. ASSUME NEW d \in Dir, Vanish(d) PROVE TypeInv'
  <2>1. d \in Seq(STRING) /\ d # Root
    BY <1>26, DirIsSeq DEF Vanish
  <2>2. Root \in alive \ Below(d) /\ \A e \in alive \ Below(d) : Up(e) \in alive \ Below(d)
    BY <1>2, <2>1, TreeWithout
  <2>3. /\ alive' = alive \ Below(d) /\ cwd' \in alive' \cup {Gone} /\ calm' = FALSE
        /\ UNCHANGED <<path, listing, active, pc, who, after, dir_history, dir_history_point>>
    BY <1>26 DEF Vanish, panels, plan, history
  <2>4. TypeOK'
    BY <1>1, <2>2, <2>3 DEF TypeOK
  <2>5. TreeOK'
    BY <1>1, <2>2, <2>3 DEF TreeOK, Up
  <2>6. PlanOK'
    BY <1>1, <2>3 DEF PlanOK
  <2> QED BY <2>4, <2>5, <2>6 DEF TypeInv
<1>27. ASSUME NEW d \in Dir, Appear(d) PROVE TypeInv'
  <2>1. /\ alive' = alive \cup {d} /\ Up(d) \in alive /\ calm' = FALSE
        /\ UNCHANGED <<cwd, path, listing, active, pc, who, after, dir_history, dir_history_point>>
    BY <1>27 DEF Appear, panels, plan, history
  <2>2. TypeOK'
    BY <1>1, <2>1 DEF TypeOK
  <2>3. TreeOK'
    BY <1>1, <2>1 DEF TreeOK, Up
  <2>4. PlanOK'
    BY <1>1, <2>1 DEF PlanOK
  <2> QED BY <2>2, <2>3, <2>4 DEF TypeInv
<1>28. ASSUME UNCHANGED vars PROVE TypeInv'
  BY <1>1, <1>28 DEF vars, panels, plan, history, TypeInv, TypeOK, TreeOK, PlanOK, Up
<1> QED
  BY <1>8, <1>9, <1>10, <1>11, <1>12, <1>13, <1>14, <1>15, <1>16, <1>17, <1>18, <1>19, <1>20,
     <1>21, <1>22, <1>23, <1>24, <1>25, <1>26, <1>27, <1>28
  DEF Next, Start, Continue

(* The initial state; the panels show the root directory.                  *)
LEMMA DirsInit == Init => TypeInv /\ CwdOK /\ FreshOK
<1> SUFFICES ASSUME Init PROVE TypeInv /\ CwdOK /\ FreshOK
  OBVIOUS
<1>1. /\ alive \in SUBSET Dir /\ Root \in alive /\ \A d \in alive : Up(d) \in alive
      /\ path = [p \in Panel |-> Root] /\ listing = [p \in Panel |-> Children(Root)]
      /\ cwd = Root /\ active \in Panel /\ dir_history = <<Root>> /\ dir_history_point = 0
      /\ pc = "prompt" /\ who = active /\ after = "prompt" /\ calm = TRUE
  BY DEF Init
<1>2. Children(Root) \subseteq Dir /\ Root \notin Children(Root) /\ Root \in Dir
  BY <1>1 DEF Children
<1>3. dir_history \in Seq(Dir) /\ Len(dir_history) = 1
  BY <1>1, <1>2
<1>4. TypeOK
  BY <1>1, <1>2, <1>3 DEF TypeOK, PcSet
<1>5. TreeOK /\ PlanOK /\ CwdOK /\ FreshOK
  BY <1>1, <1>2 DEF TreeOK, PlanOK, CwdOK, FreshOK
<1> QED BY <1>4, <1>5 DEF TypeInv

(* Every reachable state is well formed: the directories that exist form a *)
(* tree, the process is in one of them or in one that was removed, and the *)
(* point of the directory history is inside it.                            *)
THEOREM TypeCorrect == Spec => []TypeOK
<1>1. Init => TypeInv
  BY DirsInit
<1>2. TypeInv => TypeOK
  BY DEF TypeInv
<1> QED BY <1>1, <1>2, TypeStep, PTL DEF Spec

-----------------------------------------------------------------------------
(* The current directory.                                                  *)

LEMMA CwdStep == TypeInv /\ CwdOK /\ [Next]_vars => CwdOK'
<1> SUFFICES ASSUME TypeInv, CwdOK, [Next]_vars PROVE CwdOK'
  OBVIOUS
<1>1. TypeOK /\ TreeOK /\ PlanOK
  BY DEF TypeInv
<1>2. active \in Panel /\ dst \in Panel /\ dst # active /\ Other(dst) = active
      /\ who \in {active, dst} /\ path \in [Panel -> Dir]
  BY <1>1 DEF TypeOK, dst, Other, Panel
(* A read of the active panel takes the process to it.                     *)
<1>3. ASSUME NEW d, Open(active, d), UNCHANGED active
      PROVE  CwdOK'
  BY <1>1, <1>2, <1>3, OpenTypes DEF CwdOK
<1>4. ASSUME NEW d \in alive, ReadAt(active, d), UNCHANGED active
      PROVE  CwdOK'
  BY <1>1, <1>2, <1>4, ReadTypes DEF CwdOK
(* A read of the other panel at the active panel's directory either finds  *)
(* it or sends the other panel to the root directory.                      *)
<1>5. ASSUME Open(dst, path[active]), UNCHANGED active
      PROVE  CwdOK'
  <2>1. CASE path[active] \in alive /\ ReadAt(dst, path[active])
    BY <1>1, <1>2, <1>5, <2>1, ReadTypes DEF CwdOK
  <2>2. CASE Recover(dst)
    <3>1. Root \in alive
      BY <1>1 DEF TypeOK
    <3>2. cwd' = Root /\ path'[dst] = Root
      BY <1>1, <1>2, <2>2, <3>1, ReadTypes DEF Recover
    <3> QED BY <1>5, <3>2 DEF CwdOK, dst
  <2> QED BY <1>5, <2>1, <2>2 DEF Open
<1>6. ASSUME NEW d \in Dir, Enter(d) PROVE CwdOK'
  BY <1>4, <1>6 DEF Enter, Quietly
<1>7. ASSUME EnterUp PROVE CwdOK'
  <2>1. Root \in alive /\ \A d \in alive : Up(d) \in alive /\ cwd \in alive \cup {Gone}
    BY <1>1 DEF TypeOK, TreeOK
  <2> QED BY <1>4, <1>7, <2>1 DEF EnterUp, Recover, Quietly
<1>8. ASSUME NEW d \in Dir, NEW next, ChangeDirectory(d, next) PROVE CwdOK'
  BY <1>3, <1>8 DEF ChangeDirectory, Quietly
<1>9. ASSUME AdaptOther PROVE CwdOK'
  BY <1>5, <1>9 DEF AdaptOther, Quietly
<1>10. ASSUME NEW step, GoInHistory(step) PROVE CwdOK'
  BY <1>3, <1>10 DEF GoInHistory
<1>11. ASSUME ResetHistory PROVE CwdOK'
  BY <1>11 DEF ResetHistory, Command, CwdOK, panels, dst
<1>12. ASSUME OtherPanel PROVE CwdOK'
  <2>1. CASE path[dst] \in alive /\ cwd' = path[dst] /\ UNCHANGED panels
    BY <1>12, <2>1 DEF OtherPanel, panels, CwdOK
  <2>2. CASE Recover(dst)
    <3>1. Root \in alive
      BY <1>1 DEF TypeOK
    <3>2. cwd' = path'[dst]
      BY <1>1, <1>2, <2>2, <3>1, ReadTypes DEF Recover
    <3> QED BY <1>12, <3>2 DEF OtherPanel, CwdOK
  <2> QED BY <1>12, <2>1, <2>2 DEF OtherPanel
(* A command that changes the disk has its panels still to read.           *)
<1>13. ASSUME NEW D, NEW step \in {"this", "other"}, NEW next, ChangeDisk(D, step, next)
       PROVE  CwdOK'
  BY <1>13 DEF ChangeDisk, Command, CwdOK
<1>14. ASSUME NEW d \in Dir, MakeDirectory(d) \/ Delete(d) PROVE CwdOK'
  BY <1>13, <1>14 DEF MakeDirectory, Delete
<1>15. ASSUME NEW d \in Dir, NEW to \in Dir, Copy(d, to) PROVE CwdOK'
  BY <1>13, <1>15 DEF Copy
<1>16. ASSUME NEW d \in Dir, NEW to \in Dir, NEW step \in {"this", "other"}, Rename(d, to, step)
       PROVE  CwdOK'
  BY <1>13, <1>16 DEF Rename
<1>17. ASSUME Refresh \/ Restart PROVE CwdOK'
  BY <1>13, <1>17 DEF Refresh, Restart
<1>18. ASSUME ReadThis PROVE CwdOK'
  BY <1>1, <1>3, <1>18 DEF ReadThis, PlanOK, Reread
<1>19. ASSUME Twin PROVE CwdOK'
  <2>1. pc = "twin" /\ UNCHANGED active
    BY <1>19 DEF Twin
  <2>2. CASE path[who] = path[Other(who)] /\ Reread(Other(who))
    <3>1. CASE who = active
      BY <1>5, <2>1, <2>2, <3>1 DEF Reread, dst
    <3>2. CASE who = dst
      BY <1>2, <1>3, <2>1, <2>2, <3>2 DEF Reread
    <3> QED BY <1>2, <3>1, <3>2
  <2>3. CASE UNCHANGED <<cwd, panels>>
    BY <2>1, <2>3 DEF CwdOK, panels, dst
  <2> QED BY <1>19, <2>2, <2>3 DEF Twin, RereadTwin
<1>20. ASSUME Record PROVE CwdOK'
  BY <1>20 DEF Record, CwdOK, panels, dst
<1>21. ASSUME ReadOther PROVE CwdOK'
  BY <1>21 DEF ReadOther, CwdOK
<1>22. ASSUME ReadLast PROVE CwdOK'
  BY <1>3, <1>22 DEF ReadLast, Reread
<1>23. ASSUME Focus PROVE CwdOK'
  <2>1. Root \in alive
    BY <1>1 DEF TypeOK
  <2>2. CASE cwd' = path[active] /\ UNCHANGED panels
    BY <1>23, <2>2 DEF Focus, panels, CwdOK
  <2> QED BY <1>4, <1>23, <2>1, <2>2 DEF Focus, Recover
<1>24. ASSUME NEW d \in Dir, Vanish(d) PROVE CwdOK'
  BY <1>24 DEF Vanish, panels, plan, CwdOK, dst
<1>25. ASSUME NEW d \in Dir, Appear(d) PROVE CwdOK'
  BY <1>25 DEF Appear, panels, plan, CwdOK, dst
<1>26. CASE UNCHANGED vars
  BY <1>26 DEF vars, panels, plan, CwdOK, dst
<1> QED
  BY <1>6, <1>7, <1>8, <1>9, <1>10, <1>11, <1>12, <1>14, <1>15, <1>16, <1>17, <1>18, <1>19, <1>20,
     <1>21, <1>22, <1>23, <1>24, <1>25, <1>26
  DEF Next, Start, Continue

(* Whenever a key is read the process is in the active panel's directory,  *)
(* unless that was removed or the inactive panel was just sent to the root *)
(* directory (git.c, reread): commands find the files the panel shows.     *)
THEOREM CwdCorrect == Spec => []CwdIsActive
<1>1. Init => TypeInv /\ CwdOK
  BY DirsInit
<1>2. TypeInv /\ CwdOK /\ [Next]_vars => (TypeInv /\ CwdOK)'
  BY TypeStep, CwdStep
<1>3. CwdOK => CwdIsActive
  BY DEF CwdOK, CwdIsActive
<1> QED BY <1>1, <1>2, <1>3, PTL DEF Spec

-----------------------------------------------------------------------------
(* What the panels show.                                                   *)

LEMMA OpenFresh ==
  ASSUME TypeInv, NEW p \in Panel, NEW d, Open(p, d), UNCHANGED alive
  PROVE  /\ Fresh(p)' /\ \A q \in Panel \ {p} : path'[q] = path[q] /\ (Fresh(q) => Fresh(q)')
         /\ path'[p] = d \/ (d \notin alive /\ path'[p] = Root)
<1>1. TypeOK /\ TreeOK /\ Root \in alive
  BY DEF TypeInv, TypeOK
<1>2. PICK e \in alive : ReadAt(p, e) /\ (e = d \/ (d \notin alive /\ e = Root))
  BY <1>1 DEF Open, Recover
<1>3. path' = [path EXCEPT ![p] = e] /\ listing' = [listing EXCEPT ![p] = Children(e)]
  BY <1>2 DEF ReadAt
<1>4. path \in [Panel -> Dir] /\ listing \in [Panel -> SUBSET Dir]
  BY <1>1 DEF TypeOK
<1>5. path'[p] = e /\ listing'[p] = Children(e) /\ Fresh(p)'
  BY <1>3, <1>4 DEF Fresh, Children
<1>6. ASSUME NEW q \in Panel \ {p}
      PROVE  path'[q] = path[q] /\ (Fresh(q) => Fresh(q)')
  BY <1>3, <1>4 DEF Fresh, Children
<1> QED BY <1>2, <1>5, <1>6

LEMMA TwinFresh ==
  ASSUME TypeInv, FreshOK, Twin, calm
  PROVE  \A p \in Panel : path'[p] = path'[active'] => Fresh(p)'
<1> DEFINE other == Other(who)
<1>1. /\ who \in Panel /\ other \in Panel /\ other # who /\ Panel = {who, other}
      /\ active \in Panel /\ pc = "twin" /\ UNCHANGED <<alive, active>>
  BY DEF TypeInv, TypeOK, Panel, Other, Twin
<1>2. /\ Fresh(who)
      /\ who # active /\ path[who] # path[active] => path[active] \notin alive
  BY <1>1 DEF FreshOK
<1>3. CASE path[who] = path[other] /\ Open(other, path[other])
  BY <1>1, <1>2, <1>3, OpenFresh
<1>4. CASE path[who] # path[other] /\ UNCHANGED <<path, listing>>
  <2>1. \A p \in Panel : Fresh(p) => Fresh(p)'
    BY <1>1, <1>4 DEF Fresh, Children
  <2>2. path[other] = path[active] => Fresh(other)
    BY <1>1, <1>2, <1>4 DEF Fresh
  <2> QED BY <1>1, <1>2, <1>4, <2>1, <2>2
<1> QED BY <1>3, <1>4 DEF Twin, RereadTwin, Reread, panels

LEMMA ReadLastFresh ==
  ASSUME TypeInv, FreshOK, ReadLast, calm
  PROVE  \A p \in Panel : Fresh(p)'
<1>1. active \in Panel /\ dst \in Panel /\ Panel = {active, dst}
  BY DEF TypeInv, TypeOK, Panel, dst, Other
<1>2. Fresh(dst) /\ Open(active, path[active]) /\ UNCHANGED alive
  BY DEF FreshOK, ReadLast, Reread
<1> QED BY <1>1, <1>2, OpenFresh

LEMMA FocusFresh ==
  ASSUME TypeInv, FreshOK, Focus, calm
  PROVE  \A p \in Panel : Fresh(p)'
<1>1. \A p \in Panel : Fresh(p)
  BY DEF FreshOK, Focus
<1>2. active \in Panel /\ UNCHANGED alive
  BY DEF TypeInv, TypeOK, Focus
<1>3. CASE UNCHANGED <<path, listing>>
  BY <1>1, <1>2, <1>3 DEF Fresh, Children
<1>4. CASE path[active] \notin alive /\ Recover(active)
  BY <1>1, <1>2, <1>4, OpenFresh DEF Open
<1> QED BY <1>3, <1>4 DEF Focus, panels

LEMMA FreshStep == TypeInv /\ FreshOK /\ [Next]_vars => FreshOK'
<1> SUFFICES ASSUME TypeInv, FreshOK, [Next]_vars PROVE FreshOK'
  OBVIOUS
<1>1. /\ active \in Panel /\ dst \in Panel /\ dst # active
      /\ Root \in alive /\ \A d \in alive : Up(d) \in alive /\ cwd \in alive \cup {Gone}
  BY DEF TypeInv, TypeOK, TreeOK, dst, Other, Panel
<1>2. /\ pc = "this" => who = active
      /\ pc = "twin" => after \in {"prompt", "record", "record_restart"}
      /\ pc \in {"other", "last"} => after \in {"prompt", "focus"}
  BY DEF TypeInv, PlanOK
(* The active panel was read and the other one is compared with it.        *)
<1>3. ASSUME NEW d, Open(active, d), pc' = "twin", who' = active, UNCHANGED <<alive, active>>
      PROVE  FreshOK'
  BY <1>1, <1>3, OpenFresh DEF FreshOK, Fresh, Children
<1>4. ASSUME pc' \in {"prompt", "this", "other"}
      PROVE  FreshOK'
  BY <1>4 DEF FreshOK
<1>5. ASSUME NEW d \in Dir, Enter(d) PROVE FreshOK'
  BY <1>3, <1>5 DEF Enter, Open, Command, Quietly
<1>6. ASSUME EnterUp PROVE FreshOK'
  BY <1>1, <1>3, <1>4, <1>6 DEF EnterUp, Open, Command, Quietly
<1>7. ASSUME NEW d \in Dir, NEW next, ChangeDirectory(d, next) PROVE FreshOK'
  BY <1>3, <1>7 DEF ChangeDirectory, Command, Quietly
<1>8. ASSUME AdaptOther PROVE FreshOK'
  <2>1. pc' = "twin" /\ who' = dst /\ UNCHANGED <<alive, active>> /\ Open(dst, path[active])
    BY <1>8 DEF AdaptOther, Command, Quietly
  <2>2. /\ Fresh(dst)' /\ path'[active] = path[active]
        /\ path'[dst] = path[active] \/ path[active] \notin alive
    <3>1. dst' = dst
      BY <2>1 DEF dst
    <3> QED BY <1>1, <2>1, <3>1, OpenFresh DEF Fresh
  <2>3. dst' = dst
    BY <2>1 DEF dst
  <2> QED BY <1>1, <2>1, <2>2, <2>3 DEF FreshOK, Fresh
<1>9. ASSUME NEW step, GoInHistory(step) PROVE FreshOK'
  BY <1>3, <1>9 DEF GoInHistory, Command
<1>10. ASSUME ResetHistory \/ OtherPanel PROVE FreshOK'
  BY <1>4, <1>10 DEF ResetHistory, OtherPanel, Command
<1>11. ASSUME NEW D, NEW step \in {"this", "other"}, NEW next, ChangeDisk(D, step, next)
       PROVE  FreshOK'
  BY <1>4, <1>11 DEF ChangeDisk, Command
<1>12. ASSUME NEW d \in Dir, MakeDirectory(d) \/ Delete(d) PROVE FreshOK'
  BY <1>11, <1>12 DEF MakeDirectory, Delete
<1>13. ASSUME NEW d \in Dir, NEW to \in Dir, Copy(d, to) PROVE FreshOK'
  BY <1>11, <1>13 DEF Copy
<1>14. ASSUME NEW d \in Dir, NEW to \in Dir, NEW step \in {"this", "other"}, Rename(d, to, step)
       PROVE  FreshOK'
  BY <1>11, <1>14 DEF Rename
<1>15. ASSUME Refresh \/ Restart PROVE FreshOK'
  BY <1>11, <1>15 DEF Refresh, Restart
<1>16. ASSUME ReadThis PROVE FreshOK'
  BY <1>2, <1>3, <1>16 DEF ReadThis, Reread
<1>17. ASSUME Twin PROVE FreshOK'
  <2>1. pc' = after /\ after \in {"prompt", "record", "record_restart"} /\ UNCHANGED calm
    BY <1>2, <1>17 DEF Twin
  <2> QED BY <1>17, <2>1, TwinFresh DEF FreshOK
<1>18. ASSUME Record PROVE FreshOK'
  BY <1>4, <1>18 DEF Record
<1>19. ASSUME ReadOther PROVE FreshOK'
  <2>1. pc' = "last" /\ UNCHANGED <<alive, active>> /\ Open(dst, path[dst])
    BY <1>19 DEF ReadOther, Reread
  <2>2. Fresh(dst)' /\ dst' = dst
    BY <1>1, <2>1, OpenFresh DEF dst
  <2> QED BY <2>1, <2>2 DEF FreshOK, Fresh
<1>20. ASSUME ReadLast PROVE FreshOK'
  <2>1. pc' = after /\ after \in {"prompt", "focus"} /\ UNCHANGED calm
    BY <1>2, <1>20 DEF ReadLast
  <2> QED BY <1>20, <2>1, ReadLastFresh DEF FreshOK
<1>21. ASSUME Focus PROVE FreshOK'
  BY <1>4, <1>21 DEF Focus
<1>22. ASSUME NEW d \in Dir, Vanish(d) \/ Appear(d) PROVE FreshOK'
  BY <1>22 DEF Vanish, Appear, FreshOK
<1>23. CASE UNCHANGED vars
  BY <1>23 DEF vars, panels, plan, FreshOK, Fresh, Children, dst
<1> QED
  BY <1>5, <1>6, <1>7, <1>8, <1>9, <1>10, <1>12, <1>13, <1>14, <1>15, <1>16, <1>17, <1>18, <1>19,
     <1>20, <1>21, <1>22, <1>23
  DEF Next, Start, Continue

(* A command that was not disturbed by another process comes back to the   *)
(* prompt with the active panel, and the other one if it is in the same    *)
(* directory, showing what is on the disk (panel_act_CHDIR, reread).       *)
THEOREM PanelsFreshCorrect == Spec => PanelsFresh
<1> DEFINE AtPrompt == pc # "prompt" /\ pc' = "prompt" /\ calm'
             => \A p \in Panel :
                  path'[p] = path'[active'] /\ path'[p] \in alive'
                    => listing'[p] = {e \in alive' : e # Root /\ Front(e) = path'[p]}
<1>1. Init => TypeInv /\ FreshOK
  BY DirsInit
<1>2. TypeInv /\ FreshOK /\ [Next]_vars => (TypeInv /\ FreshOK)'
  BY TypeStep, FreshStep
<1>3. TypeInv /\ FreshOK /\ [Next]_vars => [AtPrompt]_vars
  <2> SUFFICES ASSUME TypeInv, FreshOK, Next, pc # "prompt", pc' = "prompt", calm'
               PROVE  \A p \in Panel : path'[p] = path'[active'] => Fresh(p)'
    BY DEF Fresh, Children
  <2>1. Continue
    <3>1. \A step, p, next : ~Command(step, p, next)
      BY DEF Command
    <3>2. ~Start
      BY <3>1 DEF Start, Enter, EnterUp, ChangeDirectory, AdaptOther, GoInHistory, ResetHistory,
           OtherPanel, ChangeDisk, MakeDirectory, Delete, Copy, Rename, Refresh, Restart
    <3> QED BY <3>2 DEF Next, Vanish, Appear
  <2>2. ~ReadThis /\ ~ReadOther
    BY DEF ReadThis, ReadOther
  <2>3. CASE Twin
    BY <2>3, TwinFresh DEF Twin
  <2>4. CASE Record
    <3>1. pc \in {"record", "record_restart"} /\ calm /\ UNCHANGED <<alive, path, listing, active>>
      BY <2>4 DEF Record, panels
    <3> QED BY <3>1 DEF FreshOK, Fresh, Children
  <2>5. CASE ReadLast
    BY <2>5, ReadLastFresh DEF ReadLast
  <2>6. CASE Focus
    BY <2>6, FocusFresh DEF Focus
  <2> QED BY <2>1, <2>2, <2>3, <2>4, <2>5, <2>6 DEF Continue
<1>4. Spec => [][AtPrompt]_vars
  <2> HIDE DEF AtPrompt
  <2> QED BY <1>1, <1>2, <1>3, PTL DEF Spec
<1> QED BY <1>4, PTL DEF PanelsFresh
=============================================================================
