----------------------------- MODULE InputLine -----------------------------
(***************************************************************************)
(* The input line of gitfm (src/inputline.c): one buffer that holds the    *)
(* static text (the prompt) followed by the dynamic text the user edits,   *)
(* a point, a mark and a kill ring.  Positions count characters from 0;    *)
(* character i of the code's buffer is buf[i + 1].                         *)
(*                                                                         *)
(* Every action is one call a key is dispatched to (il_dispatch_commands   *)
(* in src/git.c) or one that the program makes between two keys.  The one  *)
(* command with a loop that may not end, il_delete_horizontal_space, is    *)
(* spread over several steps.                                              *)
(*                                                                         *)
(* il_insert_char, il_delete_char, il_backward_delete_char, il_insert_text *)
(* and il_history leave the mark where it was, so it may come to lie       *)
(* behind the end of the line, and il_kill_to_beginning_of_line can put it *)
(* inside the prompt.  AnyMark says whether the user then still runs a     *)
(* command that uses it.                                                   *)
(***************************************************************************)
EXTENDS Integers, Sequences, FiniteSetsExt

CONSTANTS
  Char,       \* the characters
  WordChar,   \* those for which il_separator() is false
  Space,      \* ' '
  Upper,      \* towupper()
  Lower,      \* towlower()
  Prompts,    \* the static texts
  Texts,      \* texts the program inserts: default answers, file names
  MaxText,    \* bound on the length of the dynamic text
  Slack,      \* spare room a growing buffer gets: 32 in the code
  Page,       \* deletions shrink the buffer at multiples of this: 16
  AnyMark     \* the user runs commands on a mark outside the dynamic text

ASSUME InputLineAssumption ==
  /\ WordChar \subseteq Char /\ Space \in Char \ WordChar
  /\ Upper \in [Char -> Char] /\ Lower \in [Char -> Char]
  /\ Prompts \subseteq Seq(Char) /\ Prompts # {} /\ <<>> \notin Prompts
  /\ Texts \subseteq Seq(Char)
  /\ MaxText \in Nat /\ Slack \in Nat \ {0} /\ Page \in Nat \ {0}
  /\ AnyMark \in BOOLEAN

VARIABLES
  buf,            \* il->buffer up to il->length
  static_length,  \* il->static_length
  point,          \* il->point
  mark,           \* il->mark
  kill_ring,      \* il->kill_ring, <<>> for NULL
  size,           \* il->size: characters allocated
  pc,             \* "spaces" inside il_delete_horizontal_space's second loop
  one,            \* that call comes from il_just_one_space
  prompt          \* history: the static text last set

vars == <<buf, static_length, point, mark, kill_ring, size, pc, one, prompt>>

length == Len(buf)

TypeOK ==
  /\ buf \in Seq(Char) /\ kill_ring \in Seq(Char) /\ prompt \in Prompts
  /\ static_length \in Nat /\ point \in Nat /\ mark \in Int /\ size \in Nat
  /\ pc \in {"ready", "spaces"} /\ one \in BOOLEAN

----------------------------------------------------------------------------
(* Pieces of the line.                                                     *)

Upto(k) == SubSeq(buf, 1, k)
Beyond(k)  == SubSeq(buf, k + 1, length)
At(k)    == buf[k + 1]                      \* buffer[k], for k < length

InDynamic(k) == static_length <= k /\ k <= length
FreshMark    == InDynamic(mark)

(* A mark beyond the end, or a point at 0, makes the code run off its      *)
(* buffer: no step of the model goes there.                                *)
Usable == FreshMark \/ (AnyMark /\ 0 < mark /\ mark <= length)

(* Skip separators, then a word: where il_forward_word and                 *)
(* il_backward_word stop.                                                  *)
FirstFrom(k, S)  == Min({length} \cup {i \in k .. length - 1 : At(i) \in S})
LastBefore(k, S) == Max({static_length} \cup {i \in static_length + 1 .. k : At(i - 1) \in S})
Separator        == Char \ WordChar
ForwardWord(k)   == FirstFrom(FirstFrom(k, WordChar), Separator)
BackwardWord(k)  ==
  IF k > static_length THEN LastBefore(LastBefore(k, WordChar), Separator) ELSE k

----------------------------------------------------------------------------
(* Moving.                                                                 *)

Ready == pc = "ready"

MoveTo(k) ==
  Ready /\ point' = k
  /\ UNCHANGED <<buf, static_length, mark, kill_ring, size, pc, one, prompt>>

BackwardChar    == point > static_length /\ MoveTo(point - 1)
ForwardChar     == point < length /\ MoveTo(point + 1)
BackwardWordCmd == MoveTo(BackwardWord(point))
ForwardWordCmd  == point < length /\ MoveTo(ForwardWord(point))
BeginningOfLine == MoveTo(static_length)
EndOfLine       == MoveTo(length)

SetMark ==
  /\ Ready /\ mark' = point
  /\ UNCHANGED <<buf, static_length, point, kill_ring, size, pc, one, prompt>>

ExchangePointAndMark ==
  /\ Ready /\ Usable
  /\ point' = mark /\ mark' = point
  /\ UNCHANGED <<buf, static_length, kill_ring, size, pc, one, prompt>>

----------------------------------------------------------------------------
(* Inserting and deleting at the point.                                    *)

Room(k) == length - static_length + k <= MaxText

InsertChar(c) ==
  /\ Ready /\ Room(1)
  /\ buf' = Upto(point) \o <<c>> \o Beyond(point)
  /\ point' = point + 1
  /\ size' = IF length + 1 >= size THEN length + 1 + Slack ELSE size
  /\ UNCHANGED <<static_length, mark, kill_ring, pc, one, prompt>>

InsertText(t) ==
  /\ Ready /\ Room(Len(t))
  /\ buf' = Upto(point) \o t \o Beyond(point)
  /\ point' = point + Len(t)
  /\ size' = IF length + Len(t) + 1 > size THEN size + Len(t) + 1 + Slack ELSE size
  /\ UNCHANGED <<static_length, mark, kill_ring, pc, one, prompt>>

Yank == kill_ring # <<>> /\ InsertText(kill_ring)

ShrunkToText(len) == IF len % Page = 0 THEN len ELSE size           \* mutant
Shrunk(len)       == IF len % Page = 0 THEN len + 1 ELSE size

DeleteChar ==
  /\ Ready /\ point < length
  /\ buf' = Upto(point) \o Beyond(point + 1)
  /\ size' = Shrunk(length - 1)
  /\ UNCHANGED <<static_length, point, mark, kill_ring, pc, one, prompt>>

BackwardDeleteAnywhere ==                                           \* mutant
  /\ point > 0
  /\ buf' = Upto(point - 1) \o Beyond(point)
  /\ point' = point - 1
  /\ size' = Shrunk(length - 1)
BackwardDelete ==
  /\ point > static_length
  /\ buf' = Upto(point - 1) \o Beyond(point)
  /\ point' = point - 1
  /\ size' = Shrunk(length - 1)

BackwardDeleteChar ==
  /\ Ready /\ BackwardDelete
  /\ UNCHANGED <<static_length, mark, kill_ring, pc, one, prompt>>

(* il_delete_horizontal_space: with a space at the point, delete forward   *)
(* while there is one, then backward while some dynamic text remains and   *)
(* the character before the point is a space.                              *)
DeleteHorizontalSpace(o) ==
  /\ Ready /\ point < length /\ At(point) = Space
  /\ LET k == FirstFrom(point, Char \ {Space}) IN
       /\ buf' = Upto(point) \o Beyond(k)
       /\ size' = LET pages == {len \in length - (k - point) .. length - 1 : len % Page = 0}
                  IN IF pages = {} THEN size ELSE Min(pages) + 1
  /\ pc' = "spaces" /\ one' = o
  /\ UNCHANGED <<static_length, point, mark, kill_ring, prompt>>

AnythingBefore == length > static_length                            \* mutant
SpaceBefore == length > static_length /\ At(point - 1) = Space

DeleteSpaceBefore ==
  /\ pc = "spaces" /\ SpaceBefore
  /\ BackwardDelete
  /\ UNCHANGED <<static_length, mark, kill_ring, pc, one, prompt>>

(* il_just_one_space then inserts the one. *)
SpacesDone ==
  /\ pc = "spaces" /\ ~SpaceBefore
  /\ pc' = "ready" /\ one' = FALSE
  /\ IF one
       THEN /\ buf' = Upto(point) \o <<Space>> \o Beyond(point)
            /\ point' = point + 1
            /\ size' = IF length + 1 >= size THEN length + 1 + Slack ELSE size
       ELSE UNCHANGED <<buf, point, size>>
  /\ UNCHANGED <<static_length, mark, kill_ring, prompt>>

----------------------------------------------------------------------------
(* Killing: il_region_command between two positions.  An empty region      *)
(* leaves the kill ring, the text and the buffer's size alone.             *)

StoredShort(lo, hi) == SubSeq(buf, lo + 1, hi - 1)                  \* mutant
Stored(lo, hi)      == SubSeq(buf, lo + 1, hi)

Kill(lo, hi, store) ==
  /\ buf' = Upto(lo) \o Beyond(hi)
  /\ point' = lo
  /\ size' = IF lo = hi THEN size ELSE length - (hi - lo) + 1
  /\ kill_ring' = IF store /\ lo < hi THEN Stored(lo, hi) ELSE kill_ring

Lesser(i, j)  == IF i <= j THEN i ELSE j
Greater(i, j) == IF i <= j THEN j ELSE i

KillRegion ==
  /\ Ready /\ Usable
  /\ Kill(Lesser(point, mark), Greater(point, mark), TRUE)
  /\ mark' = point'
  /\ UNCHANGED <<static_length, pc, one, prompt>>

KillRingSave ==
  /\ Ready /\ Usable /\ mark # point
  /\ kill_ring' = Stored(Lesser(point, mark), Greater(point, mark))
  /\ UNCHANGED <<buf, static_length, point, mark, size, pc, one, prompt>>

(* The mark keeps its place in the text, or moves to where it was cut. *)
MarkAfterCut(lo, hi) ==
  IF mark <= lo THEN mark ELSE IF mark >= hi THEN mark - (hi - lo) ELSE lo

KillWord ==
  /\ Ready
  /\ LET hi == ForwardWord(point) IN
       Kill(point, hi, TRUE) /\ mark' = MarkAfterCut(point, hi)
  /\ UNCHANGED <<static_length, pc, one, prompt>>

BackwardKillWord ==
  /\ Ready
  /\ LET lo == BackwardWord(point) IN
       Kill(lo, point, TRUE) /\ mark' = MarkAfterCut(lo, point)
  /\ UNCHANGED <<static_length, pc, one, prompt>>

KillLine(store) ==
  /\ Ready
  /\ Kill(static_length, length, store) /\ mark' = static_length
  /\ UNCHANGED <<static_length, pc, one, prompt>>

KillToBeginningOfLine ==
  /\ Ready
  /\ Kill(Lesser(static_length, point), Greater(static_length, point), TRUE)
  /\ mark' = Lesser(IF mark <= point THEN static_length ELSE mark - point, Len(buf'))
  /\ UNCHANGED <<static_length, pc, one, prompt>>

KillToEndOfLine ==
  /\ Ready
  /\ Kill(point, length, TRUE) /\ mark' = Lesser(mark, Len(buf'))
  /\ UNCHANGED <<static_length, pc, one, prompt>>

----------------------------------------------------------------------------
(* Changing the case of the following word, moving over.                   *)

Recase(F(_, _)) ==
  /\ Ready /\ point < length
  /\ LET end == ForwardWord(point) IN
       /\ buf' = [i \in 1 .. length |->
                    IF point < i /\ i <= end THEN F(i, FirstFrom(point, WordChar) + 1)
                                             ELSE buf[i]]
       /\ point' = end
  /\ UNCHANGED <<static_length, mark, kill_ring, size, pc, one, prompt>>

DowncaseWord   == Recase(LAMBDA i, first : Lower[buf[i]])
UpcaseWord     == Recase(LAMBDA i, first : Upper[buf[i]])
CapitalizeWord == Recase(LAMBDA i, first : IF i = first THEN Upper[buf[i]]
                                           ELSE Lower[buf[i]])

----------------------------------------------------------------------------
(* What the program does between keys.                                     *)

(* il_set_static_text: a new prompt, the text and the positions in it kept. *)
SetStaticText(p) ==
  /\ Ready /\ p # prompt
  /\ buf' = p \o Beyond(static_length)
  /\ point' = point + Len(p) - static_length
  /\ mark' = mark + Len(p) - static_length
  /\ static_length' = Len(p) /\ prompt' = p
  /\ size' = Greater(size, Len(buf') + 1)
  /\ UNCHANGED <<kill_ring, pc, one>>

QuestionKeepingText(p, t) ==                                        \* mutant
  /\ Ready /\ Len(t) <= MaxText
  /\ buf' = p \o t \o Beyond(static_length) /\ point' = Len(p) + Len(t)
  /\ mark' = Len(p) /\ static_length' = Len(p) /\ prompt' = p
  /\ size' = Len(buf') + 1 + Slack
  /\ UNCHANGED <<kill_ring, pc, one>>

(* il_read_line's opening: il_reset_line, the prompt, the default answer. *)
Question(p, t) ==
  /\ Ready /\ Len(t) <= MaxText
  /\ buf' = p \o t /\ point' = Len(buf')
  /\ mark' = Len(p) /\ static_length' = Len(p) /\ prompt' = p
  /\ size' = LET asked == Len(p) + 1 IN
              IF Len(buf') + 1 > asked THEN asked + Len(t) + 1 + Slack ELSE asked
  /\ UNCHANGED <<kill_ring, pc, one>>

Init ==
  /\ prompt \in Prompts
  /\ buf = prompt /\ static_length = Len(prompt)
  /\ point = Len(prompt) /\ mark = Len(prompt)
  /\ kill_ring = <<>> /\ size = Len(prompt) + 1
  /\ pc = "ready" /\ one = FALSE

Move ==
  \/ BackwardChar \/ ForwardChar \/ BackwardWordCmd \/ ForwardWordCmd
  \/ BeginningOfLine \/ EndOfLine \/ SetMark \/ ExchangePointAndMark

Insert ==
  \/ \E c \in Char : InsertChar(c)
  \/ \E t \in Texts : InsertText(t)
  \/ Yank

Delete == DeleteChar \/ BackwardDeleteChar \/ \E o \in BOOLEAN : DeleteHorizontalSpace(o)

(* The commands that store what they cut in the kill ring. *)
Cut ==
  \/ KillRegion \/ KillWord \/ BackwardKillWord \/ KillLine(TRUE)
  \/ KillToBeginningOfLine \/ KillToEndOfLine

Recasing == DowncaseWord \/ UpcaseWord \/ CapitalizeWord

Program ==
  \/ KillLine(FALSE)
  \/ \E p \in Prompts : SetStaticText(p) \/ \E t \in Texts : Question(p, t)

Loop == DeleteSpaceBefore \/ SpacesDone

Next == Move \/ Insert \/ Delete \/ Cut \/ KillRingSave \/ Recasing \/ Program \/ Loop

(* A command that was entered runs; nothing makes the user press a key. *)
Spec == Init /\ [][Next]_vars /\ WF_vars(Loop)

----------------------------------------------------------------------------
(* PROPERTIES *)

(* The prompt in front of the text is what il_set_static_text put there:   *)
(* "This text cannot be modified by normal editing commands".              *)
PromptIntact == static_length = Len(prompt) /\ static_length <= length
                /\ Upto(static_length) = prompt

(* The point never enters the prompt and never leaves the line.            *)
PointInText == InDynamic(point)

(* The allocated buffer always holds the line and its terminator.          *)
BufferFits == length < size

(* What a killing command removed is in the kill ring, and a yank right    *)
(* after it puts the line back as it was.                                  *)
KilledTextComesBack ==
  [][Cut /\ buf' # buf =>
       buf = SubSeq(buf', 1, point') \o kill_ring' \o SubSeq(buf', point' + 1, Len(buf'))]_vars

(* The prompt, the buffer's size and the mark make no difference to what   *)
(* the user sees: the text before and after the point and the kill ring    *)
(* change as the module Editor says, whichever command il_dispatch_commands*)
(* calls.                                                                  *)
Ed == INSTANCE Editor WITH before <- SubSeq(buf, static_length + 1, point),
                           after <- Beyond(point), killed <- kill_ring
ImplementsEditor == Ed!Spec

(* A command ends, unless it is il_delete_horizontal_space at the first    *)
(* character of the text with a prompt that ends in a space: the backward  *)
(* loop's il_backward_delete_char does nothing there.                      *)
StuckAtPrompt ==
  /\ pc = "spaces" /\ point = static_length /\ length > static_length
  /\ prompt[Len(prompt)] = Space
CommandEndsOrSticks == []<>(pc = "ready" \/ StuckAtPrompt)

(* "Delete all the spaces around the point" comes to an end. *)
CommandEnds == (pc = "spaces") ~> (pc = "ready")
=============================================================================
