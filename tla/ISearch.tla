------------------------------ MODULE ISearch ------------------------------
(***************************************************************************)
(* The incremental search in a panel: the main loop of src/git.c           *)
(* (BUILTIN_isearch_forward and _backward) with il_isearch, which reads    *)
(* the keys, and panel_action (act_ISEARCH_*, src/panel.c), which searches *)
(* and keeps a stack of what to go back to.                                *)
(*                                                                         *)
(* Three parties keep a record of one search, and nothing but their        *)
(* agreement makes the backspace key undo it: the input line (text), the   *)
(* panel (isearch_stack, isearch_length, wrapped_isearch) and the main     *)
(* loop (previous_isearch_failed, resuming_previous_isearch,               *)
(* search_string).  Each action is one key, with the search it starts and  *)
(* what the main loop then does to the text; the cursor's way to the entry *)
(* found is act_UP's or act_DOWN's loop, taken from Panel.                 *)
(***************************************************************************)
EXTENDS Panel, Sequences, FiniteSetsExt

CONSTANTS
  Letter,        \* the characters the user types
  Spelling,      \* Spelling[f]: the characters of name f, in one case
  MaxText,       \* bound on the length of the text searched for
  MaxUndo,       \* bound on the depth of isearch_stack
  ResumeMisses   \* the user types on after resuming a search without a match

ASSUME ISearchAssumption ==
  /\ Spelling \in [File \cup {DotDot} -> Seq(Letter)]
  /\ MaxText \in Nat /\ MaxUndo \in Nat /\ ResumeMisses \in BOOLEAN

VARIABLES
  direction,        \* "forward" or "backward" during a search, else "off"
  text,             \* the input line: what is searched for
  isearch_stack,    \* this->isearch_stack: <<entry, length>> pairs
  isearch_length,   \* this->isearch_length
  wrapped_isearch,  \* this->wrapped_isearch
  previous_isearch_failed,
  resuming_previous_isearch,
  search_string,    \* the text of the search before, <<>> for NULL
  start             \* history: where the cursor was when the search began

loop   == <<previous_isearch_failed, resuming_previous_isearch, search_string>>
svars  == <<direction, text, isearch_stack, isearch_length, wrapped_isearch, loop, start>>
fixed  == <<listed, sort_method, marks, size>>
allVars == <<vars, svars>>

Searching == direction # "off"

----------------------------------------------------------------------------
(* Searching the listing.                                                  *)

Matches(t, f) == Len(t) <= Len(Spelling[f]) /\ SubSeq(Spelling[f], 1, Len(t)) = t
Hits(t)       == {Index(f) : f \in {g \in listed : Matches(t, g)}}

(* panel_isearch_forward and panel_isearch_backward from an entry on.      *)
Ahead(t, from) == {i \in Hits(t) : IF direction = "forward" THEN i >= from ELSE i <= from}
Nearest(H)     == IF direction = "forward" THEN Min(H) ELSE Max(H)

After == IF direction = "forward" THEN current_entry + 1 ELSE current_entry - 1
Edge  == IF direction = "forward" THEN 0 ELSE entries - 1

(* act_UP or act_DOWN, with the distance for a repeat count. *)
WalkUpOnly(i) == todo' = (IF i < current_entry THEN i - current_entry ELSE 0)  \* mutant
WalkTo(i)     == todo' = i - current_entry

(* "isearch_*_action_increase": the cursor goes to the entry found, at     *)
(* once after a wrap, by act_UP or act_DOWN otherwise.                     *)
Found(t, i, wrapped) ==
  /\ isearch_length' = Len(t) /\ wrapped_isearch' = FALSE
  /\ IF wrapped THEN SetCurrentEntry(i) /\ UNCHANGED todo
                ELSE WalkTo(i) /\ UNCHANGED cursor

NotFound(wrapped) ==
  wrapped_isearch' = wrapped /\ UNCHANGED <<isearch_length, cursor, todo>>

(* What the main loop does to the text t that was searched for, len being  *)
(* iai.length: drop a resumed text that no longer matches, and otherwise   *)
(* the last character.  il_backward_delete_char ignores an empty line.     *)
DeleteLast(t) == IF t = <<>> THEN t ELSE SubSeq(t, 1, Len(t) - 1)
AdjustedIfResumed(t, len, resuming) ==                              \* mutant
  IF resuming /\ len < Len(search_string) THEN <<>> ELSE t
Adjusted(t, len, resuming) ==
  IF resuming /\ len < Len(search_string) THEN <<>>
  ELSE IF len < Len(t) THEN DeleteLast(t) ELSE t
StillResuming(len, resuming) == resuming /\ len >= Len(search_string)

(* One search for t from an entry on, and the main loop's reaction; a      *)
(* success leaves previous_isearch_failed as it was before the search.     *)
Search(t, from, wrapped, resuming, failed) ==
  LET H == Ahead(t, from) IN
  IF H = {}
    THEN /\ NotFound(wrapped)
         /\ previous_isearch_failed' = TRUE
         /\ text' = t /\ resuming_previous_isearch' = resuming
    ELSE /\ Found(t, Nearest(H), wrapped)
         /\ previous_isearch_failed' = failed
         /\ text' = Adjusted(t, Len(t), resuming)
         /\ resuming_previous_isearch' = StillResuming(Len(t), resuming)

Push(len) ==
  /\ Len(isearch_stack) < MaxUndo
  /\ isearch_stack' = Append(isearch_stack, <<current_entry, len>>)

----------------------------------------------------------------------------
(* The keys.                                                               *)

BeginUnrecorded(d) ==                                               \* mutant
  /\ ~Searching /\ Idle
  /\ direction' = d /\ text' = <<>> /\ start' = current_entry
  /\ isearch_stack' = <<>>
  /\ isearch_length' = 0 /\ wrapped_isearch' = FALSE
  /\ previous_isearch_failed' = FALSE /\ resuming_previous_isearch' = FALSE
  /\ UNCHANGED <<vars, search_string>>

Begin(d) ==
  /\ ~Searching /\ Idle
  /\ direction' = d /\ text' = <<>> /\ start' = current_entry
  /\ isearch_stack' = <<<<current_entry, 0>>>>
  /\ isearch_length' = 0 /\ wrapped_isearch' = FALSE
  /\ previous_isearch_failed' = FALSE /\ resuming_previous_isearch' = FALSE
  /\ UNCHANGED <<vars, search_string>>

AtKey == Searching /\ Idle /\ UNCHANGED <<fixed, direction, search_string, start>>

(* A character, or the search key on an empty line (with nothing to        *)
(* resume): INCREASE searches from the current entry on.                   *)
Increase(t) ==
  /\ Push(Len(t))
  /\ Search(t, current_entry, wrapped_isearch, resuming_previous_isearch, previous_isearch_failed)

TypeChar(c) ==
  /\ AtKey /\ Len(text) < MaxText
  /\ ResumeMisses \/ ~(resuming_previous_isearch /\ isearch_length < Len(search_string))
  /\ Increase(Append(text, c))

SearchAgainEmpty == AtKey /\ text = <<>> /\ search_string = <<>> /\ Increase(<<>>)

(* On an empty line the search key resumes the search before. *)
Resume ==
  /\ AtKey /\ text = <<>> /\ search_string # <<>>
  /\ Push(Len(search_string))
  /\ Search(search_string, current_entry, wrapped_isearch, TRUE, FALSE)

(* RETRY: the next entry that matches; after a failure, from the edge.     *)
Retry ==
  /\ AtKey /\ text # <<>>
  /\ LET wrapped == previous_isearch_failed \/ wrapped_isearch
         from    == IF wrapped THEN Edge ELSE After
     IN /\ IF wrapped THEN UNCHANGED isearch_stack ELSE Push(Len(text))
        /\ Search(text, from, wrapped, resuming_previous_isearch, FALSE)

(* DECREASE undoes the last step: back to the entry popped if the search   *)
(* for this text had succeeded, and the length on the top counts again.    *)
(* From an empty stack nothing is popped, and what the code then uses is   *)
(* not initialised.                                                        *)
Backspace ==
  /\ AtKey /\ text # <<>>
  /\ UNCHANGED <<wrapped_isearch, previous_isearch_failed, cursor>>
  /\ LET popped == isearch_stack # <<>>
         rest   == IF popped THEN SubSeq(isearch_stack, 1, Len(isearch_stack) - 1) ELSE <<>>
     IN /\ isearch_stack' = rest
        /\ IF isearch_length # Len(text)
             THEN UNCHANGED <<isearch_length, todo>>
             ELSE /\ \E e \in IF popped THEN {isearch_stack[Len(isearch_stack)][1]}
                                        ELSE 0 .. entries - 1 : WalkTo(e)
                  /\ \E l \in IF rest # <<>> THEN {rest[Len(rest)][2]} ELSE 0 .. MaxText :
                       isearch_length' = l
  /\ text' = Adjusted(text, isearch_length', resuming_previous_isearch)
  /\ resuming_previous_isearch' = StillResuming(isearch_length', resuming_previous_isearch)

(* On an empty line the backspace key only beeps, but the main loop takes  *)
(* the empty line for a search to resume, puts its text there, and takes   *)
(* it away again when it sees that fewer characters match.                 *)
BackspaceEmpty ==
  /\ AtKey /\ text = <<>> /\ search_string # <<>>
  /\ text' = Adjusted(search_string, isearch_length, TRUE)
  /\ resuming_previous_isearch' = StillResuming(isearch_length, TRUE)
  /\ previous_isearch_failed' = FALSE
  /\ UNCHANGED <<isearch_stack, isearch_length, wrapped_isearch, cursor, todo>>

(* Any other key ends the search where the cursor is. *)
EndSearch ==
  /\ Searching /\ Idle
  /\ direction' = "off" /\ search_string' = text
  /\ isearch_stack' = <<>>
  /\ UNCHANGED <<vars, text, isearch_length, wrapped_isearch, previous_isearch_failed,
                 resuming_previous_isearch, start>>

----------------------------------------------------------------------------
SearchInit ==
  /\ listed \in Listings /\ sort_method \in Method
  /\ selected = {} /\ selected_entries = 0 /\ miscounted = FALSE
  /\ plines \in Sizes /\ scroll_step = StepFor(plines) /\ todo = 0
  /\ current_entry \in 0 .. entries - 1
  /\ first_on_screen = CenteredFos(plines, current_entry, entries)
  /\ direction = "off" /\ text = <<>> /\ isearch_stack = <<>> /\ isearch_length = 0
  /\ wrapped_isearch = FALSE /\ previous_isearch_failed = FALSE
  /\ resuming_previous_isearch = FALSE /\ search_string = <<>> /\ start = 0

SearchKey ==
  \/ \E c \in Letter : TypeChar(c)
  \/ SearchAgainEmpty \/ Resume \/ Retry \/ Backspace \/ BackspaceEmpty \/ EndSearch

SearchNext ==
  \/ \E d \in {"forward", "backward"} : Begin(d)
  \/ SearchKey
  \/ Steps /\ UNCHANGED svars

SearchSpec == SearchInit /\ [][SearchNext]_allVars

----------------------------------------------------------------------------
(* PROPERTIES *)

SearchTypeOK ==
  /\ TypeOK
  /\ direction \in {"off", "forward", "backward"}
  /\ text \in Seq(Letter) /\ search_string \in Seq(Letter)
  /\ isearch_stack \in Seq((0 .. entries - 1) \X Nat) /\ isearch_length \in Nat
  /\ {wrapped_isearch, previous_isearch_failed, resuming_previous_isearch} \subseteq BOOLEAN
  /\ start \in 0 .. entries

Settled == Searching /\ Idle

(* Deleting all of the text brings the cursor back to where it was when    *)
(* the search began.                                                       *)
DeletingAllReturns == Settled /\ text = <<>> => current_entry = start

(* While there is text, the stack has what undoes it: the backspace key    *)
(* never pops an empty stack.                                              *)
BackspaceHasRecord == Settled /\ text # <<>> => isearch_stack # <<>>

(* "isearch_length at match time" is what the stack is to hold: as much of *)
(* the text as the panel counts as found is the beginning of the name      *)
(* under the cursor, whatever was typed, retried, wrapped or undone before. *)
CursorShowsMatch ==
  Settled => \E f \in listed :
    At(current_entry, f) /\ Matches(SubSeq(text, 1, isearch_length), f)

(* "If there is no matching element in the panel stack, we should delete   *)
(* the last character in the input line": the backspace key shortens the   *)
(* text when no element below the popped one was pushed for that text.     *)
BackspaceDeletes ==
  [][Backspace /\ (\A k \in 1 .. Len(isearch_stack) - 1 : isearch_stack[k][2] # Len(text)) =>
       Len(text') < Len(text)]_allVars

(* "Pressing ^S again will force gitfm to go to the next entry that        *)
(* matches the current isearched string": when there is one ahead.         *)
RetryGoesToNext ==
  [][Retry /\ Ahead(text, After) # {} =>
       current_entry' + todo' = Nearest(Ahead(text, After))]_allVars
=============================================================================
