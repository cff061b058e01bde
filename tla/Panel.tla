------------------------------- MODULE Panel -------------------------------
(***************************************************************************)
(* One panel of gitfm (src/panel.c): the listing of a directory, the       *)
(* cursor, the part of the listing that is on the screen, and the marks    *)
(* the user puts on entries.                                               *)
(*                                                                         *)
(* The listing is a set of names; an entry's index is its rank in the      *)
(* order panel_read_directory and act_SORT sort by (directories first,     *)
(* then the sort method's key, then the name; ".." in front).  The         *)
(* directory on the disk belongs to the environment: every reading may     *)
(* find any set of names.                                                  *)
(*                                                                         *)
(* act_UP and act_DOWN loop over a repeat count: the loop is one step per  *)
(* iteration ("todo"), since act_SELECT and the incremental search enter   *)
(* the same loop.  Every other operation is one action.                    *)
(***************************************************************************)
EXTENDS Integers, FiniteSets

CONSTANTS
  File,         \* names that may be in a directory, in strcmp's order
  Directory,    \* those that name directories (or links to directories)
  Method,       \* the sort methods
  Key,          \* Key[m][f]: what method m compares of f; ties go by name
  Extension,    \* Extension[f]: a number for what follows the last dot, 0 for none
  Sizes,        \* numbers of lines the panel can have, its frame included
  StartupScrollStep,  \* the configured scroll step, 0 or less for half a panel
  MaxRepeat     \* bound on the repeat count of a key

DotDot == 0

(* resize(): the panels have 2 lines when the terminal is too small to     *)
(* show them, and tty_lines - 3 lines, at least 4, otherwise.              *)
ASSUME PanelAssumption ==
  /\ File \subseteq Nat \ {DotDot} /\ IsFiniteSet(File) /\ Directory \subseteq File
  /\ Method # {} /\ Key \in [Method -> [File -> Nat]]
  /\ Extension \in [File \cup {DotDot} -> Nat]
  /\ Sizes \subseteq Nat /\ \A p \in Sizes : p = 2 \/ p >= 4
  /\ StartupScrollStep \in Int /\ MaxRepeat \in Nat

VARIABLES
  listed,            \* the names in dir_entry
  sort_method,       \* this->sort_method
  selected,          \* the entries whose selected flag is set
  selected_entries,  \* this->selected_entries
  current_entry,     \* this->current_entry
  first_on_screen,   \* this->first_on_screen
  plines,            \* this->plines
  scroll_step,       \* this->scroll_step
  todo,              \* rounds left of act_DOWN's loop (> 0) or act_UP's (< 0)
  miscounted         \* history: TOGGLE met marked directories since the last count

cursor == <<current_entry, first_on_screen>>
marks  == <<selected, selected_entries, miscounted>>
size   == <<plines, scroll_step>>
vars   == <<listed, sort_method, cursor, marks, size, todo>>

----------------------------------------------------------------------------
(* The listing.                                                            *)

Dirs   == Directory \cup {DotDot}
NonDirectory == listed \ Directory                                  \* mutant
NonDir == listed \ Dirs
rootdir == DotDot \notin listed
Listings == {S \in SUBSET (File \cup {DotDot}) : S # {}}

(* sort_compare_fn, with ".." kept out of the sort and in front. *)
Before(m, f, g) ==
  \/ f = DotDot /\ g # DotDot
  \/ /\ f # DotDot /\ g # DotDot
     /\ \/ f \in Directory /\ g \notin Directory
        \/ /\ f \in Directory <=> g \in Directory
           /\ Key[m][f] < Key[m][g] \/ (Key[m][f] = Key[m][g] /\ f < g)

Rank(S, m, f) == Cardinality({g \in S : Before(m, g, f)})

entries  == Cardinality(listed)
Index(f) == Rank(listed, sort_method, f)
At(i, f) == f \in listed /\ Index(f) = i           \* dir_entry[i] is f

----------------------------------------------------------------------------
(* The window.                                                             *)

Lesser(i, j)  == IF i <= j THEN i ELSE j
Greater(i, j) == IF i <= j THEN j ELSE i

Lines(p) == p - 2

(* panel_get_centered_fos and panel_get_fos for n entries. *)
CenteredFos(p, cur, n) ==
  IF cur - (Lines(p) \div 2) + Lines(p) >= n THEN Greater(0, n - Lines(p))
                                             ELSE Greater(0, cur - (Lines(p) \div 2))
FosOffByOne(p, first, cur, n) ==                                    \* mutant
  IF first <= cur /\ cur <= first + Lines(p) /\ first + Lines(p) <= n
    THEN first ELSE CenteredFos(p, cur, n)
Fos(p, first, cur, n) ==
  IF first <= cur /\ cur < first + Lines(p) /\ first + Lines(p) <= n
    THEN first ELSE CenteredFos(p, cur, n)

(* panel_set_current_entry. *)
SetCurrentEntry(i) ==
  current_entry' = i /\ first_on_screen' = Fos(plines, first_on_screen, i, entries)

(* panel_resize. *)
StepFor(p) ==
  IF StartupScrollStep <= 0 \/ StartupScrollStep >= p - 1 THEN p \div 2 ELSE StartupScrollStep

Idle == todo = 0

Resize(p) ==
  /\ Idle
  /\ plines' = p /\ scroll_step' = StepFor(p)
  /\ first_on_screen' = CenteredFos(p, current_entry, entries)
  /\ UNCHANGED <<listed, sort_method, marks, current_entry, todo>>

(* act_SWITCH: both panels have the same number of lines and are resized. *)
Switch == Resize(plines)

(* act_SET_SCROLL_STEP: too large a step is refused. *)
SetScrollStep(k) ==
  /\ Idle /\ 0 < k /\ k < plines - 1
  /\ scroll_step' = k
  /\ UNCHANGED <<listed, sort_method, marks, cursor, plines, todo>>

----------------------------------------------------------------------------
(* Moving the cursor.                                                      *)

StepDown ==
  /\ todo > 0
  /\ IF current_entry < entries - 1
       THEN /\ current_entry' = current_entry + 1
            /\ first_on_screen' = IF current_entry' - first_on_screen >= Lines(plines)
                 THEN Lesser(first_on_screen + scroll_step, entries - Lines(plines))
                 ELSE first_on_screen
            /\ todo' = todo - 1
       ELSE todo' = 0 /\ UNCHANGED cursor
  /\ UNCHANGED <<listed, sort_method, marks, size>>

StepUp ==
  /\ todo < 0
  /\ IF current_entry # 0
       THEN /\ current_entry' = current_entry - 1
            /\ first_on_screen' = IF current_entry = first_on_screen
                 THEN Greater(0, first_on_screen - scroll_step)
                 ELSE first_on_screen
            /\ todo' = todo + 1
       ELSE todo' = 0 /\ UNCHANGED cursor
  /\ UNCHANGED <<listed, sort_method, marks, size>>

Repeat(k) ==
  /\ Idle /\ todo' = k
  /\ UNCHANGED <<listed, sort_method, marks, cursor, size>>

MoveTo(i) ==
  /\ Idle /\ SetCurrentEntry(i)
  /\ UNCHANGED <<listed, sort_method, marks, size, todo>>

Home == current_entry # 0 /\ MoveTo(0)
End  == current_entry # entries - 1 /\ MoveTo(entries - 1)

PageUp ==
  current_entry # 0 /\ MoveTo(Greater(0, current_entry - Lines(plines)))

PageDown ==
  /\ current_entry # entries - 1
  /\ MoveTo(IF \/ entries - 1 - first_on_screen < Lines(plines)
               \/ entries - 1 - current_entry < Lines(plines)
              THEN entries - 1 ELSE current_entry + Lines(plines))

----------------------------------------------------------------------------
(* Marking entries.                                                        *)

(* act_SELECT: never "..", then the cursor moves down. *)
Select(k) ==
  /\ Idle
  /\ \/ /\ rootdir \/ current_entry # 0
        /\ \E f \in listed :
             /\ At(current_entry, f)
             /\ IF f \in selected
                  THEN selected' = selected \ {f} /\ selected_entries' = selected_entries - 1
                  ELSE selected' = selected \cup {f} /\ selected_entries' = selected_entries + 1
     \/ ~rootdir /\ current_entry = 0 /\ UNCHANGED <<selected, selected_entries>>
  /\ todo' = k
  /\ UNCHANGED <<listed, sort_method, cursor, size, miscounted>>

(* Set or clear the mark of each entry of P that has not got it so. *)
MarkCountingAll(P) == /\ selected' = selected \cup P                 \* mutant
                      /\ selected_entries' = selected_entries + Cardinality(P)
Mark(P)   == /\ selected' = selected \cup P
             /\ selected_entries' = selected_entries + Cardinality(P \ selected)
Unmark(P) == /\ selected' = selected \ P
             /\ selected_entries' = selected_entries - Cardinality(P \cap selected)

Marking ==
  Idle /\ UNCHANGED <<listed, sort_method, cursor, size, todo, miscounted>>

SelectAll == Marking /\ Mark(NonDir)

(* act_PATTERN_(UN)SELECT: whatever files the patterns match. *)
PatternSelect(P)   == Marking /\ Mark(P)
PatternUnselect(P) == Marking /\ Unmark(P)

(* act_(UN)SELECT_EXTENSION: the files that end like the current entry. *)
SameExtension(f) == {g \in NonDir : Extension[g] = Extension[f]}

SelectExtension ==
  Marking /\ \E f \in listed : At(current_entry, f) /\ Extension[f] # 0 /\ Mark(SameExtension(f))
UnselectExtension ==
  Marking /\ \E f \in listed : At(current_entry, f) /\ Extension[f] # 0 /\ Unmark(SameExtension(f))

UnselectAll ==
  /\ Idle /\ selected' = {} /\ selected_entries' = 0 /\ miscounted' = FALSE
  /\ UNCHANGED <<listed, sort_method, cursor, size, todo>>

(* act_BIN_PACKING: all marks go, and whatever files go into the first bin *)
(* are marked.                                                             *)
BinPacking(P) ==
  /\ Idle /\ selected' = P /\ selected_entries' = Cardinality(P) /\ miscounted' = FALSE
  /\ UNCHANGED <<listed, sort_method, cursor, size, todo>>

(* act_TOGGLE: directories keep their marks, and only files are counted. *)
Toggle ==
  /\ Idle
  /\ selected' = (selected \cap Dirs) \cup (NonDir \ selected)
  /\ selected_entries' = Cardinality(NonDir \ selected)
  /\ miscounted' = (selected \cap Dirs # {})
  /\ UNCHANGED <<listed, sort_method, cursor, size, todo>>

(* act_CMPDIR: all files are marked, then those found identical in the     *)
(* other panel, or newer there, lose the mark again.                       *)
CompareDirs(same) ==
  /\ Marking
  /\ selected' = (selected \cup NonDir) \ same
  /\ selected_entries' = selected_entries + Cardinality(NonDir \ selected) - Cardinality(same)

----------------------------------------------------------------------------
(* Reading the directory again, or another one.                            *)

(* panel_read_directory: with "verify", marks, and the same path as before *)
(* the marks of names that are still there are kept and counted anew.      *)
KeptVanished(M, S, verify) == IF verify THEN M ELSE {}              \* mutant
KeptIfMany(M, S, verify)   ==                                       \* mutant
  IF verify /\ selected_entries > 1 THEN M \cap S ELSE {}
Kept(M, S, verify)         == IF verify /\ selected_entries # 0 THEN M \cap S ELSE {}

ReadDirectory(S, verify) ==
  /\ listed' = S
  /\ LET kept == Kept(selected, S, verify) IN
       selected' = kept /\ selected_entries' = Cardinality(kept)
  /\ miscounted' = FALSE

(* Its last line, and then the caller's panel_set_current_entry(i). *)
ClampedFos(S, cur) ==
  Fos(plines, first_on_screen, Lesser(cur, Cardinality(S) - 1), Cardinality(S))
ThenSet(S, i) ==
  /\ current_entry' = i
  /\ first_on_screen' = Fos(plines, ClampedFos(S, current_entry), i, Cardinality(S))

Reading == Idle /\ UNCHANGED <<sort_method, size, todo>>
SamePlace(S) == rootdir <=> DotDot \notin S

(* act_REGET with verify: the cursor goes to the name it was on, or to the *)
(* one panel_find_index settles for.                                       *)
Reread(S) ==
  /\ Reading /\ SamePlace(S)
  /\ ReadDirectory(S, TRUE)
  /\ \E f \in listed :
       /\ At(current_entry, f)
       /\ IF f \in S THEN ThenSet(S, Rank(S, sort_method, f))
          ELSE \E i \in 0 .. Cardinality(S) - 1 : ThenSet(S, i)

(* The end of act_COPY, act_MOVE and act_DELETE, which clear the mark of   *)
(* every entry they are done with: the cursor keeps its place, not its     *)
(* name, and after a MOVE or DELETE of marked entries that place is the    *)
(* first marked one's.                                                     *)
Completed(done, S, i, first) ==
  /\ listed' = S
  /\ LET kept == Kept(selected \ done, S, TRUE) IN
       selected' = kept /\ selected_entries' = Cardinality(kept)
  /\ miscounted' = FALSE
  /\ current_entry' = Lesser(i, Cardinality(S) - 1)
  /\ first_on_screen' = Fos(plines, first, Lesser(i, Cardinality(S) - 1), Cardinality(S))

Operated(done, S) ==
  /\ Reading /\ SamePlace(S)
  /\ \/ Completed(done, S, current_entry, first_on_screen)
     \/ \E f \in selected :
          /\ \A g \in selected : ~Before(sort_method, g, f)
          /\ Completed(done, S, Index(f), Fos(plines, first_on_screen, Index(f), entries))

(* act_CHDIR, panel_recover (which goes to the root) and the REGET of      *)
(* act_CASE, which read without verify, be it the directory the panel is   *)
(* in: they end on the first entry, which puts the window at the top       *)
(* wherever it was.                                                        *)
ReadFromTop(S) == Reading /\ ReadDirectory(S, FALSE) /\ ThenSet(S, 0)

(* act_ENTER on a directory that can be read.  From ".." the cursor goes   *)
(* to the directory it came from, as panel_find_index finds it; "same"     *)
(* says that a link led back to where the panel was.                       *)
Enter(S, same) ==
  /\ Reading /\ (same => SamePlace(S))
  /\ ReadDirectory(S, same)
  /\ \E f \in listed :
       /\ At(current_entry, f) /\ f \in Dirs /\ (f = DotDot => ~same)
       /\ \E i \in IF f = DotDot THEN 0 .. Cardinality(S) - 1 ELSE {0} : ThenSet(S, i)

(* act_UP_ONE_DIR: to the first entry, which is "..", and into it. *)
UpOneDir(S) ==
  /\ Reading /\ ~rootdir
  /\ ReadDirectory(S, FALSE)
  /\ \E i \in 0 .. Cardinality(S) - 1 :
       /\ current_entry' = i
       /\ first_on_screen' = Fos(plines, 0, i, Cardinality(S))

(* act_SORT_*: the listing is sorted anew and the cursor stays on its name. *)
SortInPlace(m) ==                                                   \* mutant
  Idle /\ sort_method' = m /\ UNCHANGED <<listed, cursor, marks, size, todo>>
Sort(m) ==
  /\ Idle /\ sort_method' = m
  /\ UNCHANGED <<listed, marks, size, todo>>
  /\ \E f \in listed : At(current_entry, f) /\ SetCurrentEntry(Rank(listed, m, f))

----------------------------------------------------------------------------
Init ==
  /\ listed \in Listings /\ sort_method \in Method
  /\ selected = {} /\ selected_entries = 0 /\ miscounted = FALSE
  /\ current_entry = 0 /\ first_on_screen = 0
  /\ plines \in Sizes /\ scroll_step = StepFor(plines)
  /\ todo = 0

Window == Switch \/ (\E p \in Sizes : Resize(p)) \/ \E k \in 1 .. plines : SetScrollStep(k)

Steps == StepDown \/ StepUp

Move ==
  \/ Steps \/ PageUp \/ PageDown \/ Home \/ End
  \/ \E k \in 1 .. MaxRepeat : Repeat(k) \/ Repeat(-k)

Choose ==
  \/ \E k \in 1 .. MaxRepeat : Select(k)
  \/ SelectAll \/ UnselectAll \/ Toggle \/ SelectExtension \/ UnselectExtension
  \/ \E P \in SUBSET NonDir :
       PatternSelect(P) \/ PatternUnselect(P) \/ CompareDirs(P) \/ BinPacking(P)

Read ==
  \E S \in Listings :
    \/ Reread(S) \/ ReadFromTop(S) \/ UpOneDir(S)
    \/ \E done \in SUBSET selected : Operated(done, S)
    \/ \E same \in BOOLEAN : Enter(S, same)

Next == Window \/ Move \/ Choose \/ Read \/ \E m \in Method : Sort(m)

Spec == Init /\ [][Next]_vars

----------------------------------------------------------------------------
(* PROPERTIES *)

TypeOK ==
  /\ listed \in Listings /\ sort_method \in Method
  /\ selected \subseteq listed /\ selected_entries \in Int /\ miscounted \in BOOLEAN
  /\ current_entry \in Int /\ first_on_screen \in Int
  /\ plines \in Sizes /\ scroll_step \in Nat /\ todo \in Int

(* The cursor is on an entry, as panel_set_current_entry and panel_update  *)
(* assert; when the panel is displayed that entry is inside the window,    *)
(* and the window does not reach beyond a listing that could fill it.      *)
CursorInWindow ==
  /\ 0 <= current_entry /\ current_entry < entries /\ 0 <= first_on_screen
  /\ plines # 2 =>
       /\ first_on_screen <= current_entry
       /\ current_entry < first_on_screen + Lines(plines)
       /\ first_on_screen = 0 \/ first_on_screen + Lines(plines) <= entries

(* No way of marking entries marks "..", which the operations on a         *)
(* selection would delete or move.                                         *)
ParentNeverMarked == DotDot \notin selected

(* selected_entries, by which every operation decides whether it works on  *)
(* the selection or on the current entry, is the number of marked entries, *)
(* from one counting of them to the next TOGGLE with marked directories.   *)
CountExact == miscounted \/ selected_entries = Cardinality(selected)

(* "The # of selected entries", always. *)
SelectionCounted == selected_entries = Cardinality(selected)

(* Sorting the listing or reading it again leaves the cursor on the name   *)
(* it was on, as long as that name is still there.                         *)
CursorKeepsName ==
  [][(\E m \in Method : Sort(m)) \/ Reread(listed') =>
       \A f \in listed \cap listed' : At(current_entry, f) => At(current_entry, f)']_vars

(* Reading a panel's directory again with verify, also after an operation, *)
(* takes the mark only from entries that are gone or that the operation    *)
(* finished.  A reading without verify drops every mark, the same          *)
(* directory or not: act_CHDIR, panel_recover and the REGET of act_CASE,   *)
(* after which the renames that failed are no longer marked.               *)
MarksSurviveReread ==
  [][/\ ~miscounted =>
          /\ Reread(listed') => selected' = selected \cap listed'
          /\ \A done \in SUBSET selected :
               Operated(done, listed') => selected' = (selected \ done) \cap listed'
     /\ ReadFromTop(listed') => selected' = {} /\ selected_entries' = 0]_vars
=============================================================================
