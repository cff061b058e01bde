------------------------------- MODULE History -------------------------------
(***************************************************************************)
(* The command history of gitfm: the list of history.c with its current    *)
(* position (history_offset), the keys that walk through it and the        *)
(* recording of commands (il_history of inputline.c), the expansion of     *)
(* events such as !! and !str in a command line (history_expand), and the  *)
(* file in which it is kept between two runs of the program.               *)
(*                                                                         *)
(* Lines are sequences of characters, because !str compares beginnings.    *)
(* Positions count entries from 0, as in the code: the entry before the    *)
(* position p is the_history[p] here.  An event stands for a whole entry;  *)
(* the designators that pick words out of it are left out, except for      *)
(* ":p", which changes the list.                                           *)
(***************************************************************************)
EXTENDS Integers, SequencesExt

CONSTANTS
  Line,      \* command lines
  Str,       \* what is searched for with !str
  MaxInput   \* MAX_INPUT_HISTORY

ASSUME MaxInputAssumption == MaxInput \in Nat \ {0}

VARIABLES
  the_history,            \* the entries, oldest first
  history_offset,
  browsing, last_history_position,   \* static variables of il_history, the
                          \* second one 0 while it does not matter
  file,                   \* the history file
  running,
  result,                 \* what the last event stands for, <<>> if not found
  behind                  \* history variable: a :p has left the position behind

position == <<history_offset, browsing, last_history_position>>
historyVars     == <<the_history, position, file, running, result, behind>>

history_length == Len(the_history)

-----------------------------------------------------------------------------
AddWithoutLimit(h, line) == Append(h, line)    \* mutant

(* add_history: a full list drops its oldest entry.  The position is not   *)
(* adapted.                                                                *)
Add(h, line) == Append(IF Len(h) = MaxInput THEN Tail(h) ELSE h, line)

(* next_history.                                                           *)
After(h, at) == IF at = Len(h) THEN at ELSE at + 1

(* IL_PREVIOUS and IL_NEXT: the first of them remembers the position.      *)
Browse(offset) ==
  /\ running
  /\ browsing' = TRUE /\ history_offset' = offset
  /\ last_history_position' = IF browsing THEN last_history_position ELSE history_offset
  /\ UNCHANGED <<the_history, file, running, result, behind>>

Previous == Browse(IF history_offset = 0 THEN 0 ELSE history_offset - 1)
NextLine == Browse(After(the_history, history_offset))

RecordPositionHere == history_offset    \* mutant

(* IL_RECORD: back to the remembered position; the line is compared with   *)
(* the entry before it, and added if it is another; the position moves on. *)
RecordPosition == IF browsing THEN last_history_position ELSE history_offset

RecordStaying(h, at, line) ==    \* mutant
  LET same == at > 0 /\ h[at] = line
      new  == IF same THEN h ELSE Add(h, line)
  IN /\ the_history' = new
     /\ history_offset' = at
     /\ browsing' = FALSE /\ last_history_position' = 0

Record(h, at, line) ==
  LET same == at > 0 /\ h[at] = line
      new  == IF same THEN h ELSE Add(h, line)
  IN /\ the_history' = new
     /\ history_offset' = IF same THEN at ELSE After(new, at)
     /\ browsing' = FALSE /\ last_history_position' = 0

(* A command line without events is recorded.                              *)
Execute(line) ==
  /\ running
  /\ Record(the_history, RecordPosition, line)
  /\ UNCHANGED <<file, running, result, behind>>

-----------------------------------------------------------------------------
(* Events.  The entry takes the place of the command line, which is        *)
(* executed and recorded; an event that is not found is an error.          *)

(* !!, !n, !-n: history_get, the entry of a number, or none.               *)
ExpandNumber(i) ==
  /\ running /\ i <= history_length
  /\ result' = the_history[i]
  /\ Record(the_history, RecordPosition, the_history[i])
  /\ UNCHANGED <<file, running, behind>>

ExpandNothing ==
  /\ running
  /\ result' = <<>>
  /\ UNCHANGED <<the_history, position, file, running, behind>>

SearchStartHere == IF history_offset = 0 THEN 0 ELSE history_offset - 1    \* mutant

(* history_search_internal, backwards and anchored, starts at the current  *)
(* position.                                                               *)
SearchStart    == After(the_history, history_offset)
Hits(from, str) == {i \in 1 .. from : IsPrefix(str, the_history[i])}
Hit(from, str)  == CHOOSE i \in Hits(from, str) : \A j \in Hits(from, str) : j <= i

(* !str leaves the position behind the last entry, found or not.           *)
ExpandSearch(str) ==
  /\ running
  /\ behind' = (behind /\ browsing)
  /\ \/ /\ Hits(SearchStart, str) # {}
        /\ LET line == the_history[Hit(SearchStart, str)]
           IN /\ result' = line
              /\ Record(the_history,
                        IF browsing THEN last_history_position ELSE history_length, line)
     \/ /\ Hits(SearchStart, str) = {}
        /\ result' = <<>> /\ history_offset' = history_length
        /\ UNCHANGED <<the_history, browsing, last_history_position>>
  /\ UNCHANGED <<file, running>>

(* With ":p" history_expand adds the line to the list itself, and the      *)
(* command is executed and recorded nevertheless: the line is compared     *)
(* with the entry before the position, which has stayed where it was.      *)
ExpandPrint(i) ==
  /\ running /\ i <= history_length
  /\ result' = the_history[i]
  /\ Record(Add(the_history, the_history[i]), RecordPosition, the_history[i])
  /\ behind' = TRUE
  /\ UNCHANGED <<file, running>>

-----------------------------------------------------------------------------
(* il_init reads the file and goes behind its last line; il_end writes it, *)
(* after truncating it: a write that fails leaves the first lines.  The    *)
(* file was written by gitfm, so that it has no more than MaxInput lines.  *)
Start ==
  /\ ~running /\ running' = TRUE
  /\ the_history' = file /\ history_offset' = Len(file)
  /\ browsing' = FALSE /\ last_history_position' = 0
  /\ behind' = FALSE
  /\ UNCHANGED <<file, result>>

Stop ==
  /\ running /\ running' = FALSE
  /\ UNCHANGED <<the_history, position, result, behind>>

Quit          == Stop /\ file' = the_history
QuitDiskFull  == Stop /\ \E n \in 0 .. history_length : file' = SubSeq(the_history, 1, n)
Killed        == Stop /\ UNCHANGED file

HistoryInit ==
  /\ the_history = <<>> /\ history_offset = 0
  /\ browsing = FALSE /\ last_history_position = 0
  /\ file = <<>> /\ running = FALSE /\ result = <<>> /\ behind = FALSE

HistoryNext ==
  \/ Previous \/ NextLine
  \/ \E line \in Line : Execute(line)
  \/ \E i \in 1 .. MaxInput : ExpandNumber(i) \/ ExpandPrint(i)
  \/ ExpandNothing
  \/ \E str \in Str : ExpandSearch(str)
  \/ Start \/ Quit \/ QuitDiskFull \/ Killed

HistorySpec == HistoryInit /\ [][HistoryNext]_historyVars

-----------------------------------------------------------------------------
HistoryTypeOK ==
  /\ the_history \in Seq(Line) /\ history_length <= MaxInput
  /\ history_offset \in 0 .. history_length
  /\ last_history_position \in 0 .. history_length
  /\ browsing \in BOOLEAN /\ running \in BOOLEAN /\ behind \in BOOLEAN
  /\ file \in Seq(Line) /\ result \in Line \cup {<<>>}

(* Unless a ":p" got in between, the walk through the history starts       *)
(* behind the newest entry whenever a new line is typed: the first         *)
(* IL_PREVIOUS shows the command that was executed last.                   *)
StartsAtNewest ==
  running /\ ~browsing /\ ~behind => history_offset = history_length

(* A command that was recorded is the newest entry, and a command that is  *)
(* repeated is kept once, wherever the walk through the history was.       *)
RepeatedKeptOnce ==
  [][\A line \in Line :
       Execute(line) /\ ~behind =>
         /\ Last(the_history') = line
         /\ history_length > 0 /\ Last(the_history) = line
              => the_history' = the_history]_historyVars

(* !str finds the most recent command that starts with str, if the command *)
(* line was typed without walking through the history (and no ":p" got in  *)
(* between).                                                               *)
FindsMostRecent ==
  [][\A str \in Str :
       ExpandSearch(str) /\ ~browsing /\ ~behind =>
         result' = IF Hits(history_length, str) = {} THEN <<>>
                   ELSE the_history[Hit(history_length, str)]]_historyVars

(* get_history_event: "!str the most recent command starting with STR".    *)
BangIsMostRecent ==
  [][\A str \in Str :
       ExpandSearch(str) =>
         result' = IF Hits(history_length, str) = {} THEN <<>>
                   ELSE the_history[Hit(history_length, str)]]_historyVars
=============================================================================
