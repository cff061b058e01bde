-------------------------------- MODULE GitPs --------------------------------
(***************************************************************************)
(* gitps, the process viewer and killer: the list that ps(1) printed, the  *)
(* cursor and the window in it, and the process a signal goes to           *)
(* (gitps.c).  Processes come and go while the list stays as it was read.  *)
(*                                                                         *)
(* Indices count from 0, as in the code; the line of index i is            *)
(* ps_vect[i + 1].                                                         *)
(***************************************************************************)
EXTENDS Integers, Sequences, FiniteSetsExt

CONSTANTS
  Pid,                 \* numbers of processes
  Heights,             \* heights the terminal can have
  StartupScrollStep,
  RefreshAfterKill     \* configuration flag

(* Below four lines a page is empty or negative: scrolling by it leaves    *)
(* the list, so such terminals are left out of the runs.                   *)
ASSUME GitPsAssumption ==
  /\ Pid \subseteq Nat /\ Pid # {} /\ IsFiniteSet(Pid)
  /\ Heights \subseteq {l \in Nat : l > 3}
  /\ StartupScrollStep \in Int /\ RefreshAfterKill \in BOOLEAN

VARIABLES
  alive,       \* processes that exist
  ps_vect,     \* the list on the screen
  current_process, first_on_screen,
  tty_lines, scroll_step,
  pc           \* "key", "reread", "end"

cursor == <<current_process, first_on_screen>>
size   == <<tty_lines, scroll_step>>
vars   == <<alive, ps_vect, cursor, size, pc>>

processes == Len(ps_vect)
Rows      == tty_lines - 3         \* lines of the window

(* The processes of P in the order of their numbers. *)
Sorted(P) ==
  [i \in 1 .. Cardinality(P) |-> CHOOSE p \in P : Cardinality({q \in P : q < p}) = i - 1]

-----------------------------------------------------------------------------
(* Moving the cursor; a repeated key is a repetition of these steps.       *)

Key == pc = "key"
Go(cur, fos) ==
  /\ current_process' = cur /\ first_on_screen' = fos
  /\ UNCHANGED <<alive, ps_vect, size, pc>>

PreviousLine ==
  /\ Key /\ current_process > 0
  /\ Go(current_process - 1,
        IF current_process = first_on_screen THEN Max({0, first_on_screen - scroll_step})
                                             ELSE first_on_screen)

\* mutant: the window follows one line too late
NextLineLate ==
  /\ Key /\ current_process < processes - 1
  /\ Go(current_process + 1,
        IF current_process + 1 - first_on_screen > Rows
        THEN Min({first_on_screen + scroll_step, processes - Rows})
        ELSE first_on_screen)

NextLine ==
  /\ Key /\ current_process < processes - 1
  /\ Go(current_process + 1,
        IF current_process + 1 - first_on_screen >= Rows
        THEN Min({first_on_screen + scroll_step, processes - Rows})
        ELSE first_on_screen)

ScrollDown ==
  /\ Key /\ current_process # 0
  /\ IF current_process < Rows
     THEN Go(0, 0)
     ELSE Go(current_process - Rows, Max({0, first_on_screen - Rows}))

ScrollUp ==
  /\ Key /\ current_process # processes - 1
  /\ IF processes - 1 - first_on_screen < Rows
     THEN Go(processes - 1, first_on_screen)
     ELSE IF processes - 1 - current_process < Rows
     THEN Go(processes - 1, processes - Rows)
     ELSE Go(current_process + Rows, Min({first_on_screen + Rows, processes - Rows}))

BeginningOfList == Key /\ current_process # 0 /\ Go(0, 0)
EndOfList ==
  /\ Key /\ current_process # processes - 1
  /\ Go(processes - 1, Max({0, processes - Rows}))

-----------------------------------------------------------------------------
(* The window changes its size, perhaps in width only, when lines is       *)
(* tty_lines: the cursor's line becomes the last one.                      *)
Resize(lines) ==
  /\ Key
  /\ tty_lines' = lines
  /\ first_on_screen' = Max({0, current_process - (lines - 3) + 1})
  /\ scroll_step' =
       IF lines < 5 THEN scroll_step
       ELSE IF StartupScrollStep <= 0 \/ StartupScrollStep >= lines - 4
            THEN (lines - 3) \div 2 ELSE StartupScrollStep
  /\ UNCHANGED <<alive, ps_vect, current_process, pc>>

\* mutant: the cursor is not cut to the new list
RereadUncut ==
  /\ pc = "reread" /\ pc' = "key"
  /\ ps_vect' = Sorted(alive)
  /\ UNCHANGED <<alive, cursor, size>>

(* The list is read again; the cursor keeps its index, cut to the list,    *)
(* and the window stays where it is, perhaps below the cursor.             *)
Reread ==
  /\ pc = "reread" /\ pc' = "key"
  /\ ps_vect' = Sorted(alive)
  /\ current_process' = Min({current_process, Cardinality(alive) - 1})
  /\ UNCHANGED <<alive, first_on_screen, size>>

Refresh == Key /\ pc' = "reread" /\ UNCHANGED <<alive, ps_vect, cursor, size>>

Target == ps_vect[current_process + 1]

(* The signal reaches the process of that number, which may end; without   *)
(* a process, or the permission, an error is shown.                        *)
Kill ==
  /\ Key
  /\ Target \in alive
  /\ alive' \in {alive, alive \ {Target}} \ {{}}
  /\ pc' = IF RefreshAfterKill THEN "reread" ELSE "key"
  /\ UNCHANGED <<ps_vect, cursor, size>>

Exit == Key /\ pc' = "end" /\ UNCHANGED <<alive, ps_vect, cursor, size>>

(* Other processes; gitps and ps themselves are always there.              *)
Fork(p)  == pc # "end" /\ p \notin alive /\ alive' = alive \cup {p}
Ends(p)  == pc # "end" /\ p \in alive /\ alive # {p} /\ alive' = alive \ {p}
Others(p) == (Fork(p) \/ Ends(p)) /\ UNCHANGED <<ps_vect, cursor, size, pc>>

Init ==
  /\ alive \in (SUBSET Pid) \ {{}}
  /\ ps_vect = Sorted(alive)
  /\ current_process = 0 /\ first_on_screen = 0
  /\ tty_lines \in {l \in Heights : l >= 5}
  /\ scroll_step = IF StartupScrollStep <= 0 \/ StartupScrollStep >= tty_lines - 4
                   THEN (tty_lines - 3) \div 2 ELSE StartupScrollStep
  /\ pc = "key"

Next ==
  \/ PreviousLine \/ NextLine \/ ScrollDown \/ ScrollUp
  \/ BeginningOfList \/ EndOfList
  \/ \E l \in Heights : Resize(l)
  \/ Refresh \/ Reread \/ Kill \/ Exit
  \/ \E p \in Pid : Others(p)

Spec == Init /\ [][Next]_vars

-----------------------------------------------------------------------------
(* The cursor is on a process of the list: the index kill_process uses.    *)
TypeOK ==
  /\ alive \subseteq Pid /\ ps_vect \in Seq(Pid)
  /\ current_process \in 0 .. processes - 1
  /\ first_on_screen \in Nat
  /\ pc \in {"key", "reread", "end"}

(* While the user gives commands the window follows the cursor, so the     *)
(* process a signal goes to is one that is displayed.  (Only reading a     *)
(* shorter list can leave the window below its cursor; under five lines    *)
(* no process is displayed, and a step may be longer than the window.)     *)
InWindow == current_process - first_on_screen \in 0 .. Rows - 1
CursorStaysInWindow == [][pc = "key" /\ tty_lines >= 5 /\ InWindow => InWindow']_vars
=============================================================================
