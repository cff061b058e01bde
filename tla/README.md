# A verification of gnuit's file manager

gnuit (GNU Interactive Tools) is a set of terminal programs around `gitfm`, a
two-panel file manager.  This directory holds TLA+ models of the parts of
`gitfm` that decide what happens to the user's files and text, TLC
configurations that check them on small instances, and proofs, checked by
TLAPS, of what holds for every instance.  All paths below are relative to the
repository; the C sources are in `src/`, and line numbers refer to them.

`PROJECT.json` maps every definition to the lines it stands for and lists the
runs, the seeded faults, the findings, the hazards and the theorems.

## The system

| Component | State | Operations | Talks to |
|---|---|---|---|
| Main loop, `git.c` | which panel is the source, the search loops' flags, prompts, the directory history | read a key, dispatch to `panel_action`, `il_*`, commands, user actions | everything |
| Panel, `panel.c` | listing, marks and their count, cursor, window, sort method, path, isearch stack | `panel_action(act_*)`: move, mark, sort, read, enter, copy, move, delete, compare, ... | the other panel, the file system, the input line, children |
| Two panels, `panel.c` + `git.c` | two paths and listings, one current directory of the process, the focus | `ENTER`, `CHDIR`, `MKDIR`, `REGET`, `SWITCH`, `reread()`, `panel_recover` | the file system, the directory history |
| File operations, `panel.c` 2199-3630 | the iterator, `chkdest`, the offset of a copy | `panel_act_COPY`, `_MOVE`, `_DELETE`, `panel_copy`, `panel_move` | the file system, `cp`/`mv`/`rm` through `start()`, the user, SIGINT |
| Comparison, `panel.c` 3734-4140 | offsets in two files, sizes, the marks of both panels | `panel_compare`, `panel_act_COMPARE`, `panel_act_CMPDIR` | the file system, the user, SIGINT |
| Input line, `inputline.c` | buffer, prompt length, point, mark, kill ring, allocated size | editing commands, prompts, questions | keyboard, histories |
| Incremental search, `git.c` + `panel.c` + `xstack.c` | text, stack of what to go back to, three flags | type, search again, wrap, backspace, resume, end | input line, panel |
| Command history, `history.c`, `inputline.c` | a stifled list, the current position, a remembered position, the file | previous, next, record, expand events, read, write | input line |
| Keyboard, `tty.c` | the sorted list of key sequences, bytes read ahead | `tty_key_list_insert`, `tty_get_key` | signals |
| Signals, `signals.c` | `suspend_requested`, `refresh_requested`, `alarm_requested`, `refresh_at_SIGCONT`, `user_heart_attack` | handlers, `service_pending_signals` | keyboard, operations, children |
| Children, `system.c` | descriptors, log files | `start`, `my_system`, `display_errors` | file operations, actions |
| `gitps`, `gitps.c` | the list of processes, cursor, window | move, refresh, kill, resize | `ps(1)`, `kill(2)` |
| Screen, `tty.c`, `window.c`, `status.c`, `title.c` | curses windows | drawing | - |
| Configuration, `configure.c`, `misc.c` | variables | parse at start-up | - |
| Companions `gitview`, `gitwipe`, `gitwhich`, `gitkeys`; shell scripts | - | - | - |

There is one thread.  What makes the code hard is not parallelism but *state
kept twice*: the marks and their count, the cursor's index and its name, the
text of a search and the stack that undoes it, the positions in a line and the
text under them, what was agreed with the user and what is on the disk.  Every
operation updates both halves by its own code.  The concurrency there is comes
from outside: signals between any two steps, other programs that change a
directory between two readings, children, and any system call failing between
two others.

What has to be true, component by component:

- **File operations**: at each point of a copy or move, whatever fails, the
  contents of an entry are complete somewhere; nothing is overwritten without
  a yes given in this operation; an interrupted copy leaves no partial file; an
  entry loses its mark only when it was dealt with; every operation ends.
- **Panel**: the cursor is on an entry and inside the window; it keeps its
  *name* over a sort or a rereading; `..` is never marked; `selected_entries`
  is the number of marks; marks survive a rereading with `verify`.
- **Input line**: the prompt cannot be edited; the point stays in the text; the
  buffer holds the text; what was killed can be yanked back; commands return.
- **Incremental search**: the backspace key undoes the steps one by one, back
  to where the search began; the cursor shows a match for what counts as
  matched; the search key goes to the next match.
- **Two panels**: the process's current directory is the active panel's, since
  every file operation uses names relative to it; after a command both panels
  show what is on the disk.
- **Comparison**: files reported as identical are; what `CMPDIR` leaves unmarked
  has its contents, or a newer version, in the other panel.
- **Command history**: positions stay in the list; the first "previous" shows the
  last command; a repeated command is kept once; `!str` finds the most recent.
- **Keyboard**: a key returned is a key typed, as often as it was typed.
- **Signals and children**: a handler never draws in the middle of a command
  (but for `resume()` with its flag left set); a request takes effect; a screen
  that was hidden with the promise to show it again is shown before the next
  key; whatever fails, the descriptors come back.
- **gitps**: the process a signal goes to is in the list and on the screen.

## Modules

`FileOps` — the file operations. `fs` maps the paths that matter (an entry in
the source directory, the same name in the destination, and inside a directory
of that name there) to what is found at them: whose contents, and how many copy
buffers of them. `linked` says which destinations are one inode with the entry's
source, as hard links or as `MoveLink` leaves them until one of the names is
unlinked: writing one writes the other. `spoiled` is a history of the entries
that an operation put onto themselves. `pc` is where the operation stands. One
action per step another actor can get between: `PickNext` (iterator and
`canceled()`), `Target` (the common prologue of `panel_copy` and `panel_move`
with its question), `Dispatch`, `ChildRuns` (`cp -r`, `mv -f`), `CopyOpen`,
`CopyBuffer` (one turn of the copy loop), `MoveLink` (`unlink` and `link`),
`MoveUnlink`, `DeleteAsk`, `Delete`, `EntryDone` (what the result does to the
mark), `Finish`. `Interrupt` is SIGINT. Every call can fail.

`Panel` — one panel under every `act_*` that moves the cursor, marks, sorts,
resizes or reads.  A listing is a set of names and a name's index is its rank in
`sort_compare_fn`'s order, so that sorting is a change of `sort_method`.  The disk
is the environment: each reading may find any set of names.  A reading with
`verify` (`Reread`, `Operated`) keeps the marks of what is still there; one without
(`ReadFromTop`: CHDIR, CASE, `panel_recover`) drops them all.  `act_UP` and
`act_DOWN` are loops over a repeat count, taken one iteration at a time (`todo`),
because `act_SELECT` and the incremental search enter the same loops.

`ISearch` — extends `Panel` with the search: the main loop's part
(`search_string`, `previous_isearch_failed`, `resuming_previous_isearch`), the
input line's (`text`) and the panel's (`isearch_stack`, `isearch_length`,
`wrapped_isearch`).  One action per key.  The walk to an entry found is
`Panel`'s.

`InputLine` — the input line.  `buf` is the code's buffer up to `il->length`,
prompt included.  One action per command; `il_delete_horizontal_space`, whose
second loop can fail to end, is spread over `DeleteHorizontalSpace`,
`DeleteSpaceBefore` and `SpacesDone`.  `size` follows `IL_RESIZE` and the two
growth rules, with 32 and 16 replaced by the constants `Slack` and `Page`.

`Editor` — what the user of an input line may expect, without prompt, buffer and
mark: the text before and the text after the point and what was killed last.  A
step types at the point, moves it, takes a piece away that reaches to the point
(and may keep it as killed), changes the case of what comes next, or asks a new
question.  `InputLine` implements it: `Ed == INSTANCE Editor` maps what lies in
`buf` between `static_length` and `point` to `before`, the rest to `after`, and
`ImplementsEditor == Ed!Spec`.

`Transfer` — what a file operation promises, without how: for every entry, where
its contents are whole (`source`, `elsewhere`), which entries are marked, and the
operation that runs.  Contents never leave the last place where they are whole
unless by a deletion, a mark goes only from an entry that was done, every
operation ends.  What it gives up is said, too: an entry put onto itself is lost
(`Spoil`).  `FileOps` implements it: `T == INSTANCE Transfer` maps `fs` to `whole`
and `selected` to `marks`, and `ImplementsTransfer == T!Spec`.

`PanelDirs` — two panels, their paths and listings, and the current directory
`cwd` of the process, which every reading of a panel moves.  A command is a
sequence of readings (`pc`: `this`, `twin`, `other`, `last`, `focus`, `record`);
between any two of them `Vanish` and `Appear` change the disk.  `Start` has one
action per command: `Enter`, `EnterUp`, `ChangeDirectory`, `AdaptOther`,
`GoInHistory`, `ResetHistory`, `OtherPanel`, `MakeDirectory`, `Delete`, `Copy`,
`Rename` (MOVE and CASE), `Refresh`, `Restart`.  `ReadAt` is
`panel_read_directory`, `Recover` is `panel_recover`.

`Signals` — the handlers of `signals.c` against the thread. Handlers that run
form a stack (`frames`), the kernel's pending signals are `arriving`; a handler
is taken in steps (`entry`, `stop`, `draw`, `finish`) so that another signal can
come between. SIGCONT may come at any time, and `resume()` looks at
`refresh_at_SIGCONT` only, not at `signals_allowed`. `service_pending_signals`
is `ServiceSuspend` ... `ServiceNothing`, `tty_getc` is `Buffered`, `StartRead`,
`KeyRead`; `StartTransfer` and `Transferred` are `signals(ON)` and
`signals(OFF)` around the reading of a file.

`Children` — extends `Signals` with `start()` and `my_system()`: descriptors as a
table (`fds`), where `dup` and `mkstemp` take the lowest free one, the log files,
`fork`, `wait`, and what the main loop does with the result.

`Keys` — the sorted list of bindings, `tty_key_list_insert` (`Bind`) with the
shortcut it takes from the last insertion, and `tty_get_key`: `Read`, `Extract`
(8th bit, `^SPC`; with restricted input `^J` and `^M` are Enter, a printable
character is a key of its own and the interrupt character returns the default
key), the incremental search (`MatchKey`, `MatchMore`, `MatchNone`)
and the repeat count.

`History` — `history.c`'s list and position with `il_history` on top
(`Previous`, `NextLine`, `Execute`), the events of `history_expand`
(`ExpandNumber`, `ExpandSearch`, `ExpandPrint`, `ExpandNothing`) and the file
between two runs of the program.

`Compare` — `panel_compare` one pair of reads at a time (`ReadPair`), the sizes it
falls back on after a mismatch, which a read that fails may cut short
(`SizesAfterMismatch`), the result
as an integer of `IntBits` bits, `panel_act_COMPARE`'s messages (`Report`) and
`panel_act_CMPDIR` in both ways (`CompareDirs`, `NextFile`, `Decide`).

`GitPs` — gitps: every key that moves the cursor, `Resize` (of either dimension),
`Refresh`, `Kill`,
and processes that come and go while the list stays as it was read.

How they fit together: `ISearch` extends `Panel` and shares its walk to an
entry; `Children` extends `Signals`; `FileOps` implements `Transfer` and
`InputLine` implements `Editor`.  The others
meet at an interface that both sides leave free: a reading of `PanelDirs` is
`Panel`'s `Reread` with any listing; the outcome of a child, which `Children`
produces, is any of its outcomes in `FileOps`' `ChildRuns`; a line that `History`
puts into the input line is an `InsertText` of `InputLine`.

`FileOpsProofs`, `PanelProofs` (about `Panel` and `ISearch`), `PanelDirsProofs`,
`InputLineProofs` (about `InputLine` and `History`), `KeysProofs`,
`CompareProofs`, `ChildrenProofs` (about `Signals` and `Children`) and
`GitPsProofs` hold the theorems, see [Proofs](#proofs). The `MC*` modules give
the constants that a `.cfg` cannot.

Definitions marked `\* mutant` are plausible faults (a dropped guard, a count of
the wrong thing, a flag not reset).  Nothing uses them; `PROJECT.json` names, for
every checked property, the definition one of them replaces, and TLC then finds
the property violated.

## Runs

| Run | Checks | Shows |
|---|---|---|
| `file_ops` | `NoPartialLeft`, `NoContentLost`, `OverwriteNeedsConsent`, `ImplementsTransfer` | with every call able to fail and ^C at any moment, two operations in a row lose, overwrite or unmark nothing they should not, and end, unless an entry is put onto itself |
| `same_file` | `NeverOntoItself` violated | the check for "the same file" is asked about the path as typed, and misses a directory that contains the source, or another link to it, as a move whose `unlink` failed leaves |
| `input_line` | `PromptIntact`, `BufferFits`, `KilledTextComesBack`, `ImplementsEditor`, `CommandEndsOrSticks` | every command in any order keeps the line right, and is a step of the abstract editor, while the mark is used only inside the text |
| `input_line_spaces` | `CommandEnds` violated | `il_delete_horizontal_space` at a prompt that ends in a space never returns |
| `panel` | `TypeOK`, `CursorInWindow`, `ParentNeverMarked`, `CountExact`, `CursorKeepsName`, `MarksSurviveReread` | a panel under all its operations |
| `isearch` | `DeletingAllReturns`, `BackspaceHasRecord`, `BackspaceDeletes` | text and stack stay in step, as long as a resumed text that is not found is not typed on |
| `panel_dirs` | `TypeOK`, `CwdIsActive`, `PanelsFresh` | whatever other programs do between two readings, the next key finds gitfm in the active panel's directory, with the three exceptions `CwdIsActive` names |
| `children` | `HandlersKeepOut`, `PromisesKept`, `DescriptorsRestored`, `ErrorsCanBeShown`, `SuspendTakesEffect`, `RedrawTakesEffect` | signals at any moment of a command, of another handler or of a child |
| `keys` | `ListSorted`, `KeyIsTyped`, `OnlyPrefixesWait` | any bindings in any order, any bytes cut into reads in any way, with restricted input or not |
| `history` | `HistoryTypeOK`, `StartsAtNewest`, `RepeatedKeptOnce`, `FindsMostRecent` | a growing and a full list, walks through it, events, and leaving with the file written whole, in part or not at all |
| `compare` | `OKMeansIdentical`, `DifferenceReported`, `UnmarkedIsCovered`, `CountKept` | short reads, devices, stale sizes, errors and ^C do not make a comparison say what is not so, with the exceptions the properties name |
| `gitps` | `TypeOK`, `CursorStaysInWindow` | the cursor of gitps under its keys, window sizes and new lists |

The disagreements with comments, messages and the manual that a run shows are
quoted under `findings`.  The passing runs state each a condition under which the
code is right; lifting it shows what happens otherwise.

### Where the code does not keep its word

Besides the two findings, these statements of comments and of the manual do not
hold.  They are definitions of the models; to see a counterexample, name the
definition in the `.cfg` of the run (with the constant that is mentioned), or take
the exception out of it.

| Statement | Definition | With |
|---|---|---|
| "This text cannot be modified by normal editing commands" | `InputLine!PromptIntact` | `AnyMark = TRUE`: `il_kill_to_beginning_of_line` leaves a mark in the prompt, from which `il_kill_region` cuts |
| "The # of selected entries" | `Panel!SelectionCounted` | `act_TOGGLE` leaves marked directories uncounted |
| ^S again goes "to the next entry that matches" | `ISearch!RetryGoesToNext` | after a failure was deleted the search key wraps although a match lies ahead |
| "isearch_length at match time" | `ISearch!CursorShowsMatch` | the stack's lengths are of texts typed, not of texts matched |
| "we should delete the last character in the input line" | `ISearch!BackspaceDeletes` | `ResumeMisses = TRUE`: typing on over a resumed text that is not found |
| hide() "is not reentrant" and is kept out of commands by `signals_allowed` | `HandlersKeepOut` without its exception | `resume()` does not ask `signals_allowed`; `refresh_at_SIGCONT` stays set after it, so that a later SIGCONT draws in the middle of a command |
| "Block other terminal-generated signals while handler runs" | `Signals!HandlersDoNotNest` | the mask is copied into the `sigaction` before it is complete |
| "!str the most recent command starting with STR" | `History!BangIsMostRecent` | the search starts where the walk through the history stands |

Three more are behaviours of the models that no property forbids.  Keys are
read in canonic mode after a suspension that waited for the end of a command
(`service_pending_signals` does not set `refresh_at_SIGCONT`) or that met canonic
mode, as the next one after it does: `PromisesKept` speaks of the time while the
flag is set.  A window that changes while it is being drawn is not drawn again
(`signals.c` 85): `RedrawTakesEffect` speaks of a request made before the drawing.
And a move whose `unlink(from)` fails after `link()` leaves one inode under two
names (`panel.c` 2854); copying the entry again truncates it under both and
reports success, which is the loss `same_file` shows and `NoContentLost`
excepts.

### Bounds

- `file_ops`: a file of two copy buffers and a directory with something in it,
  each with every combination of what may be at its destination (nothing, a
  file, a directory, a directory that has the name already), both devices, hard
  linked or not, from the start or by a move whose `unlink` failed. Two entries
  are needed for a selection to be half done; two buffers for an interruption
  between two; two operations (`MaxOps`) for what one leaves to the next
  (`chkdest`, marks, files moved away).
- `panel`: four names and `..`, one a directory, two orders; a hidden panel
  (2 lines) and one of three lines, so listings are shorter than, equal to and
  longer than the window, and half a panel's scroll step is neither 1 nor the
  whole window; repeat counts up to 2.  The proofs below are for any size.
- `input_line`: prompts of one and of two characters, up to three characters of
  text (`MaxText`), a letter in both cases and a space; a page of 3 and a slack
  of 2 make shrinking and growing happen within them.
- `isearch`: names `a`, `ab`, `ba` and `..`, texts of up to three characters
  (`MaxText`), five records (`MaxUndo`): enough for two failures, a wrap and
  undoing all of it, with a resumed search before.

- `panel_dirs`: the root, `a`, `b` and `a/b`, so that a name exists in two
  directories and a command given in the wrong one would find something; a
  directory history of two (`MaxHistory`).  Every subset of the directories may
  exist at any time.
- `children`: two handlers inside one another (`MaxNesting`); with one the
  nesting the mask allows would not happen, with three nothing new does, as each
  kind of signal runs at most once.
- `keys`: three bindings (`MaxKeys`) of eight sequences, among them one that
  begins another, one with ESC, one with 255, Enter and one longer than
  `MaxKeyLength` = 3; bytes 0, 10 and 13, an 8th bit and the interrupt
  character; reads of at most two bytes, so that a sequence is cut in its middle
  and repeats are partly read ahead.
- `history`: a list of four (`MaxInput`), filled and stifled, of three lines.
- `compare`: contents of up to four bytes in buffers of two; integers of three
  bits, so that an offset can be an error code and be cut by the `int` of a
  `switch`; two names, one of which may be listed first in either panel.
- `gitps`: six processes, terminals of 4 to 7 lines (windows of 1 to 4).

### Fairness

`FileOps` assumes `WF_vars(Work)`: a system call or a child returns and the user
answers a question.  `canceled()` lowers the flag each time it is asked, so ^C
may come any number of times and the operation still ends, which is `Transfer`'s
`WF_vars(End)`; nothing is assumed of `User` or `Interrupt`.  `InputLine` assumes
`WF_vars(Loop)`: a command that was entered keeps running.

`Children` assumes that a handler that can go on does (`WF`), and that signals do
not come so fast that the thread never runs again while the process is not
stopped (`[]<>(stopped \/ ThreadRuns)`).  The thread's steps are disabled each
time a signal is delivered, so that they, and the end of a child, need strong
fairness.  Nobody is assumed to send a signal, to continue a stopped process or
to press a key.  The other modules assume no fairness and claim no liveness.

`panel_dirs`, `children`, `keys`, `history` and `compare` check deadlock: in each
of them the program can always go on.  The others stop when the bound on what
the user does is reached, when gitps is left, or when the user does nothing more.

## Proofs

Every invariant and every action property of the passing runs is also a theorem,
for every value of the constants the module's assumption admits. What a theorem
assumes beyond that is said with it. The proofs of a module are in a module of
their own; `ISearch` shares `PanelProofs`, `History` shares `InputLineProofs`,
and `Signals` and `Children` share `ChildrenProofs`. In each, an invariant that
says what holds between the steps of a command is shown to hold initially and to
be kept by every action, one lemma per action, and implies what the run checks.

### `Panel` (`PanelProofs`)

From `PanelAssumption` alone (names are positive numbers and finitely many; a
panel has 2 lines or at least 4), for every number of names, every panel size,
configured scroll step, sort method and repeat count:

- `TypeCorrect`: `Spec => []TypeOK`.  `RankBounds` (a name's rank is between 0 and
  the number of entries less one) and `RankInjective` (two names never have the
  same rank) carry the arguments of all the operations that go from names to
  indices and back.
- `CursorCorrect`: `Spec => []CursorInWindow`.  Not inductive alone: a step of
  `act_DOWN` scrolls by `scroll_step`, and the cursor stays inside only if the
  step is not longer than the window.  The invariant is therefore `WindowInv ==
  CursorInWindow /\ StepFits`, where `StepFits` says that a displayed panel's
  step is between 1 and its number of lines; `StepFor` and `act_SET_SCROLL_STEP`
  establish it.  `Fos` and `CenteredFos` are dealt with once, in lemmas about
  arbitrary numbers.
- `ParentSafe`: `Spec => []ParentNeverMarked`. `..` has rank 0 (`DotDotFirst`),
  so `act_SELECT`'s test of the index is a test of the name; the others take
  only `NonDir`.
- `CountCorrect`: `Spec => []CountExact`, from the cardinalities of unions and
  differences.
- `SortKeepsName` and `MarksKept`: the two action properties.  `MarksKept` says what
  a reading with `verify` takes and that one without takes every mark, with their
  count.

### `ISearch` (`PanelProofs`)

`SearchReturns`, `SearchHasRecord` and `SearchDeletes` assume `ResumeMisses =
FALSE`, the condition of the run: without it the properties do not hold (see
above). They follow from `SearchInv` (`SearchRecords`), which says how three
structures that separate code keeps agree:

- `Lengths`: the lengths on `isearch_stack` start at 0, end with that of the
  text, never fall, and grow by one character or, from 0, by a resumed text.
- `Origins`: a record above one of length 0 holds the entry where the search
  began, which is why deleting everything returns there.
- `FoundLength`: `isearch_length` is at most the text's length, and less only
  after a failure; then every character that was not found has a record of its
  own (`OwnRecords`), so a backspace undoes exactly one.
- `WalkOK`: the iterations of `act_UP` and `act_DOWN` that are left end on an entry.

`SearchTypeCorrect` and `SearchInWindow` (`CursorInWindow` under `SearchSpec`) need
no condition: also when the records have got out of step, even when the stack is
empty and the code goes to an entry it never initialised, each entry a search
remembers or walks to is one of the listing (`PathInv`).  `SearchInWindow` takes the
cursor's steps of a search to those of the panel and uses `WindowInv`.

### `GitPs` (`GitPsProofs`)

`CursorInList` (`[]TypeOK`) and `WindowFollows` hold for any finite, nonempty
set of processes, on terminals that always keep more than three lines
(`GitPsAssumption`); on fewer the cursor does leave the list, and the theorems
say nothing. `Inv` adds to `TypeOK` that at least one process exists and that
the step fits into the window when there is one. `SortedList` shows that the
sorted list has one line per process: ranks are a bijection.

### `FileOps` (`FileOpsProofs`)

For any entries, sizes and number of operations:

- `TypeCorrect` and `OverwriteAsked` hold under every fault the model has.  `Inv`
  is the conjunction of `WorkOK` (where the operation may stand), `FilesOK` (an
  entry's paths hold its contents, nothing, or what was there), `LinkedOK`,
  `WritingOK`, `AskedOK` (what is about to be lost was agreed to, by a question
  in this operation or by All) and `SourceOK`.
- `NoPartialFile` assumes complete reads (`"short_read" \notin Faults`).  `Safe` adds
  to `Inv` that the file that is being written is not the one that is read
  (`LoopApart`: opening another link of the source has emptied it, and the loop is
  not entered), and that only the file that is being written is a part of another
  (`WholeOK`), unless its entry is `spoiled`.
- `ContentsKept` assumes complete reads and no device at the destination
  (`{"short_read", "special"} \cap Faults = {}`, `NoSpecial`): two blind spots the
  code really has, see `hazards`.  Its third, an entry put onto itself, is no
  assumption: the operation is in the model, and the theorem excepts the entry.
- `TransferImplemented` is the safety half of `ImplementsTransfer`: `Spec =>
  T!Init /\ [][T!Next]_(T!vars)`, under `Faults = {}` (calls and children may
  still fail, the user may refuse and ^C may come).  `DoneOK` carries what makes
  a mark go: an entry whose work ended well is where it was asked to be.
- `OperationsEnd`, under every fault: each step of an operation lowers `Left` (the
  entries still to come, the stage of the one that is worked on, the buffers to
  copy and whether ^C is still to be noticed) in `Nearer`, a well-founded order.
  It needs `LoopApart`: were the file that is written the one that is read, the
  loop would have more to read the more it writes; opening it for writing has
  emptied it, and the loop is not entered.

### `PanelDirs` (`PanelDirsProofs`)

For any tree of directories: `TypeCorrect`, `CwdCorrect` (`[]CwdIsActive`) and
`PanelsFreshCorrect`.  `CwdIsActive` speaks of the prompt only.  `CwdOK` extends it
to the reading of the twin, when the process already has to be where the prompt
will expect it; `FreshOK` says for each step of an undisturbed command which panel
shows what is on the disk.  `TreeOK` (a directory exists only with its parent)
and `PlanOK` (what each step leaves to be done) support both.

### `InputLine` (`InputLineProofs`)

`PromptCorrect`, `PointCorrect`, `BufferCorrect`, `KillCorrect` and
`EditorImplemented`, for any characters, prompts, texts, page and positive
slack, assume `AnyMark = FALSE`: a mark outside the text cuts the prompt. The
three invariants are inductive only together (`LineOK`): an edit spares the
prompt if the point is behind it, and the buffer is shrunk to the length of the
text that is left. All the edits are instances of `Edited`, a splice of a
sequence; `CutForm` and `KillBack` show that what is stored is what was cut.

`EditorImplemented` is the refinement, a lemma for each kind of command.  It rests
on an algebra of pieces of a sequence (`BetweenIs`, `PieceOfPiece`, `PiecesJoin`,
`SplicedPieces`, `Behind`), on `CutForm`, which says that all that is killed
reaches to the point, and on `RecasingForm`.  `LineOK` is needed at every step: a
point inside the prompt would make the prompt part of the text.

`LoopEndsOrSticks` is about `il_delete_horizontal_space`'s loop: every iteration
shortens the line or is the last, and a space before the point that cannot be
deleted is the prompt's (`StuckAtPrompt`).

### `History` (`InputLineProofs`)

For any `MAX_INPUT_HISTORY` and file: `HistoryTypeCorrect`, `NewestFirst`,
`KeptOnce` and `MostRecentFound`. `StartsAtNewest` is inductive with `ListOK`,
the bounds of the list and of the positions.

### `Signals` and `Children` (`ChildrenProofs`)

For any depth of nesting: `TypeCorrect`, `HandlersCorrect`, `PromisesCorrect`,
`DescriptorsCorrect` and `ErrorsCorrect`. `Inv` needs, beside types, `OneEach`
(a signal's handler is not interrupted by the same signal), `WhereOK` (where the
thread is decides whether signals are allowed), `KeptOut` (in a command the
handlers on the stack are still at their entry, or `resume()` with
`refresh_at_SIGCONT` set), `HiddenOK` (while that promise stands and the
terminal is canonic, something is under way that keeps it: a stop, the SIGCONT
after it or its handler, or the next suspension: `UnderWay`), `MovedOK` (the
table of descriptors in each step of `my_system`) and `LogsOK`.

### `Keys` (`KeysProofs`)

For any sequences, bindings and bytes: `SortedCorrect`, `WaitCorrect` and
`TypedCorrect`. The order is shown to be total, and what lies between two
sequences with a common prefix to have it (`PrefixBetween`). `LatestFirst` (of
the bindings of one sequence the latest comes first) makes `ListSorted` useful
to the search, and `SearchOK` says that the search, which never goes back, has
passed only what is less than what was typed. `TypedCorrect` assumes that byte
255 is not read, and says of restricted input that Enter may have been typed as
`^M`.

### `Compare` (`CompareProofs`)

For files, buffers and integers of any size: `OKCorrect`, `DifferenceCorrect`,
`UnmarkedCorrect`, `CountCorrect` and `TypeCorrect`. `ReadOK` says what `n` and
the two offsets mean while files are read: of regular files, `n` bytes agree; of
special ones only as long as neither read fell short; `SizesRead` says what a
loop that ends early, by a mismatch or an error after it, leaves of the sizes.
`ResultOK` takes this to the result; `TodoOK` and `CoverOK` are the invariants
of the loop of `CMPDIR`, whose list holds only what is still marked on both
sides.

### What the proofs found

- `BufferFits` needs `Slack > 0`: with no slack the buffer, grown to the text,
  has no room for the terminator.  The code has 32.
- Byte 255 is read as the key `^SPC` is turned into; typed after one it is
  counted as a repetition of it (`tty.c` 1351).  `KeyIsTyped` is therefore proved for
  other bytes; the run has sequences that contain 255, but no such byte is read.
- `OnlyPrefixesWait` said too little: giving up has also to mean that no bound
  sequence begins what was typed, nor what was typed one.
- The assumptions of `Keys`, `Compare` and `GitPs` had left unsaid that names and
  processes are finitely many and that bytes are bytes.

### What is only model-checked

- Liveness, which the prover cannot do: `CommandEndsOrSticks`, `SuspendTakesEffect`,
  `RedrawTakesEffect`, and the fairness half of `ImplementsTransfer` (`WF_vars(End)`
  of `Transfer`).  `ENABLED` goes with it.  What is proved of the first and the
  last is that the steps there are lead to an end (`LoopEndsOrSticks`,
  `OperationsEnd`); that there is always a next step until then is `ENABLED`, and
  the runs' part, which check liveness under `WF_vars`.
- The two runs that expect a violation: a counterexample is its own proof.
- The statements listed under "Where the code does not keep its word" have
  counterexamples instead.

## Abstractions, and what is not modelled

- `FileOps`: symbolic links and MSDOS file systems are left out (a source's
  device decides how it is moved); ownership and modes too. After All, `consent`
  holds every path, and it is emptied when the next operation starts. The
  selection is of two entries and `..` is never one of them (that is `Panel`'s
  `ParentNeverMarked`). The faults `short_read` (a `read` that returns less
  before the end of the file), `unstarted` (no child could be forked) and
  `special` (a device or FIFO at the destination) are in the model and turned
  off in the runs: the code relies on none of them happening, see `hazards`. An
  entry that is put onto itself is in the runs, and `NoPartialLeft`,
  `NoContentLost` and `Transfer` except it (`spoiled`): the code truncates it.
- `Panel`: the other panel is part of the environment.  `BinPacking` marks any
  set of files: which ones fit into a bin is arithmetic on sizes and left open.
  COMPARE is in `Compare`; the display modes and horizontal scrolling are not
  there.  A root directory
  has at least one entry, other directories list `..`.  `panel_find_index` on a
  name that is gone may settle for any entry.
- `ISearch`: case and wide characters do not matter, a name is spelled in one
  case.  A key sequence that is bound to nothing, pressed during a search, leaves
  the loop by another way; as the first key it leads to undefined behaviour
  (`git.c` 3105) and is not modelled.
- `InputLine`: completion and drawing are left out; `il_history` is in
  `History`.  A mark beyond the end is kept, but no command uses it, since the
  code's outcome then is undefined.
- `PanelDirs`: a directory that cannot be opened is one that does not exist;
  archives and files that are run on ENTER end in `Restart`.  The inactive
  panel's marks and cursor are `Panel`'s.
- `Signals`: SIGINT is `FileOps`' and `Compare`'s; SIGSEGV, SIGHUP and SIGTERM end
  the program.  In `TTY mode` (not screen mode) a request to redraw is dropped on
  purpose and not modelled.
- `Children`: after a `fork` that fails with the output hidden, descriptors 1 and
  2 stay in the log files; the model stops there (`pc = "lost"`).
- `History`: word designators and modifiers of events, other than `:p`, and quick
  substitution change the text of a line, not the list.  The answers to other
  prompts (`xstack`) are not modelled.
- `Compare`: the two properties about results except a listed size that is stale,
  and a device against an empty file, which `panel_compare` takes for identical
  without reading (`panel.c` 3776).
- `GitPs`: terminals of fewer than four lines, where a page is empty or negative
  and scrolling leaves the list (`gitps.c` 1327, 1357), are left out.  A failing
  `ps(1)` on refresh is not noticed (`gitps.c` 1497).

Hazards of the code beyond those in `PROJECT.json`, for a reader who goes on:
`panel.c` 1296 (a directory without `..`), 4353 (`pack_compare_fn` returns a
64-bit difference as an `int`), `system.c` 190 (`wait` that returns -1 for ever),
212 (handlers that draw while descriptors 1 and 2 are the log files), `history.c`
722 (an unchecked `write`), `inputline.c` 257 (a history file with more lines than
the list keeps leaves the position behind its end), `gitps.c` 1504 (the number of
a process may have been given to another one).

Not modelled at all:

- `lib/`, two thirds of the lines of C: gnulib's and glibc's replacements for
  library functions, vendored code whose effects the models take as given.
- Drawing (`tty.c` from `tty_update` on, `window.c`, `status.c`, `title.c`): output
  without state that a decision depends on.
- Configuration (`configure.c`, `misc.c`): parsed once at start-up, pure text.
- `command_expand` and mounting in `git.c`: text, and wrappers around commands.
- `gitview`, `gitwipe`, `gitwhich`, `gitkeys`: a viewer, a wiper, a path search and
  a key printer, each one loop over keys or arguments.
- `xio.c`, `xmalloc.c`, `tilde.c`: wrappers around calls that are repeated on EINTR.
- The shell scripts.

## Plan

Done: the models `FileOps` with `Transfer`, `Panel`, `ISearch`, `InputLine` with
`Editor`, `PanelDirs`, `Signals`, `Children`, `Keys`, `History`, `Compare` and
`GitPs`, and the proofs of all they are checked for, but liveness.

Next:

1. What still holds where a theorem has a condition: of an input line with
   `AnyMark = TRUE` (the point and the buffer), of keys when 255 is read.
2. `TransferImplemented` under the faults that change nothing of it
   (`"unstarted"` for a deletion or a move).
3. The hazards without a property: an undefined key in a search, a short read, a
   destination that is a device; each needs a condition under which the code is
   right.
4. More of `git.c`: `command_expand`'s loop over the selection, and the switch
   between the two terminal modes.
