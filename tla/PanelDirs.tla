------------------------------ MODULE PanelDirs ------------------------------
(***************************************************************************)
(* The two panels of gitfm, the directory each of them shows, and the one  *)
(* current directory of the process, which every read of a panel moves     *)
(* (panel_read_directory calls chdir).  Commands name files relative to    *)
(* the current directory, so it has to be the active panel's whenever the  *)
(* next key is read.                                                       *)
(*                                                                         *)
(* A command is a sequence of directory reads; between two of them other   *)
(* processes make and remove directories (Appear, Vanish).  Directories    *)
(* are sequences of names below <<>>, the root directory, which always     *)
(* exists; the ones that cannot be opened are the ones that do not exist.  *)
(* panel.c: panel_read_directory, panel_recover, panel_set_focus,          *)
(* panel_act_ENTER, _CHDIR, _REGET, _MKDIR, and how COPY, MOVE, DELETE and *)
(* CASE end; git.c: the commands that change or reread directories and     *)
(* the directory history.                                                  *)
(***************************************************************************)
EXTENDS Integers, Sequences, SequencesExt

CONSTANTS
  Dir,          \* the directories that may exist, sequences of names
  MaxHistory    \* bound: entries of the directory history

Root  == <<>>
Gone  == <<"(deleted)">>   \* the current directory after it was removed
Panel == {"left", "right"}

ASSUME DirAssumption ==
  Root \in Dir /\ Gone \notin Dir /\ \A d \in Dir \ {Root} : d \in Seq(STRING) /\ Front(d) \in Dir

VARIABLES
  alive,    \* the directories that exist now
  cwd,      \* the current directory of the process
  path,     \* path of each panel
  listing,  \* the directories each panel showed when it was last read
  active,   \* src_panel; the other one is dst_panel
  pc,       \* what the current command still has to do
  who,      \* `this' of the panel action that is running
  after,    \* what follows the panel action
  dir_history, dir_history_point,
  calm      \* history variable: no other process interfered with the command

panels  == <<path, listing>>
plan    == <<pc, who, after>>
history == <<dir_history, dir_history_point>>
vars    == <<alive, cwd, panels, active, plan, history, calm>>

Other(p) == IF p = "left" THEN "right" ELSE "left"
dst      == Other(active)

Up(d)       == IF d = Root THEN Root ELSE Front(d)
Below(d)    == {e \in Dir : IsPrefix(d, e)}
Children(d) == {e \in alive : e # Root /\ Front(e) = d}

-----------------------------------------------------------------------------
(* panel_read_directory when opendir and chdir succeed: the process is in  *)
(* the directory the panel shows.                                          *)
ReadAt(p, d) ==
  /\ cwd'     = d
  /\ path'    = [path EXCEPT ![p] = d]
  /\ listing' = [listing EXCEPT ![p] = Children(d)]

(* panel_recover: the panel, and the process, go to the root directory.    *)
Recover(p) == ReadAt(p, Root)

Open(p, d) == \/ d \in alive /\ ReadAt(p, d)
              \/ d \notin alive /\ Recover(p)

Reread(p) == Open(p, path[p])

RereadTwinNever(here, there) == UNCHANGED <<cwd, panels>>    \* mutant

(* The panel at `there' is read again if it shows the same directory.      *)
RereadTwin(here, there) ==
  \/ path[here] = path[there] /\ Reread(there)
  \/ path[here] # path[there] /\ UNCHANGED <<cwd, panels>>

-----------------------------------------------------------------------------
Init ==
  /\ alive \in {D \in SUBSET Dir : Root \in D /\ \A d \in D : Up(d) \in D}
  /\ path = [p \in Panel |-> Root]
  /\ listing = [p \in Panel |-> Children(Root)]
  /\ cwd = Root
  /\ active \in Panel
  /\ dir_history = <<Root>> /\ dir_history_point = 0
  /\ pc = "prompt" /\ who = active /\ after = "prompt"
  /\ calm = TRUE

(* The commands of the main loop start at the prompt.                      *)
Command(step, p, next) ==
  /\ pc = "prompt" /\ pc' = step
  /\ who' = p /\ after' = next
  /\ calm' = TRUE
Quietly == UNCHANGED <<alive, active, history>>

(* panel_act_ENTER on a directory that was listed: its name is looked up   *)
(* in the current directory.  When it cannot be opened nothing changes.    *)
Enter(d) ==
  /\ d \in listing[active] /\ cwd # Gone
  /\ Append(cwd, Last(d)) \in alive
  /\ ReadAt(active, Append(cwd, Last(d)))
  /\ Command("twin", active, "prompt")
  /\ Quietly

(* ".."; when the current directory is gone, so is its "..", and the last  *)
(* component is taken off the panel's path instead.  Without a parent the  *)
(* panel recovers and the other one is not compared.                       *)
EnterUp ==
  /\ path[active] # Root
  /\ LET up == IF cwd # Gone THEN Up(cwd) ELSE Up(path[active])
         ok == IF cwd # Gone THEN TRUE ELSE up # Root /\ up \in alive
     IN \/ ok /\ ReadAt(active, up) /\ Command("twin", active, "prompt")
        \/ ~ok /\ Recover(active) /\ Command("prompt", active, "prompt")
  /\ Quietly

(* panel_act_CHDIR of the active panel: BUILTIN_change_directory,          *)
(* BUILTIN_adapt_current_directory (d is the other panel's path), and a    *)
(* user command with a new directory, which is followed by a restart.      *)
ChangeDirectory(d, next) ==
  /\ Open(active, d)
  /\ Command("twin", active, next)
  /\ Quietly

(* BUILTIN_adapt_other_directory: the inactive panel goes to the active    *)
(* panel's directory, and the process with it.                             *)
AdaptOther ==
  /\ Open(dst, path[active])
  /\ Command("twin", dst, "record")
  /\ Quietly

(* dir_history_prev, dir_history_next.                                     *)
GoInHistory(step) ==
  /\ dir_history_point + step \in 0 .. Len(dir_history) - 1
  /\ dir_history_point' = dir_history_point + step
  /\ Open(active, dir_history[dir_history_point + step + 1])
  /\ Command("twin", active, "prompt")
  /\ UNCHANGED <<alive, active, dir_history>>

ResetHistoryEmpty ==    \* mutant
  /\ dir_history' = <<>> /\ dir_history_point' = 0
  /\ Command("prompt", active, "prompt")
  /\ UNCHANGED <<alive, cwd, panels, active>>

ResetHistory ==
  /\ dir_history' = <<path[active]>> /\ dir_history_point' = 0
  /\ Command("prompt", active, "prompt")
  /\ UNCHANGED <<alive, cwd, panels, active>>

(* BUILTIN_other_panel and BUILTIN_enlarge_other_panel: panel_set_focus    *)
(* moves the process to the panel that becomes active.                     *)
OtherPanel ==
  /\ active' = dst
  /\ \/ path[dst] \in alive /\ cwd' = path[dst] /\ UNCHANGED panels
     \/ path[dst] \notin alive /\ Recover(dst)
  /\ Command("prompt", dst, "prompt")
  /\ UNCHANGED <<alive, history>>

-----------------------------------------------------------------------------
(* Commands that change the disk first and read the panels afterwards.     *)

ChangeDisk(D, step, next) ==
  /\ alive' = D
  /\ cwd' = IF cwd \in D THEN cwd ELSE Gone
  /\ Command(step, active, next)
  /\ UNCHANGED <<panels, active, history>>

(* panel_mkdirs makes every missing directory on the way to d.             *)
MakeDirectory(d) ==
  d # Root /\ ChangeDisk(alive \cup {e \in Dir : IsPrefix(e, d)}, "this", "prompt")

(* DELETE of a listed directory, looked up in the current directory.       *)
Delete(d) ==
  /\ d \in listing[active] /\ cwd # Gone
  /\ ChangeDisk(alive \ Below(Append(cwd, Last(d))), "this", "prompt")

(* COPY and MOVE of a listed directory to `to' (a copy makes one directory *)
(* here, a move takes what is below along), and CASE, which gives it       *)
(* another name: COPY and MOVE read the other panel first.                 *)
Copy(d, to) ==
  /\ d \in listing[active] /\ cwd # Gone /\ Append(cwd, Last(d)) \in alive
  /\ to # Root /\ Up(to) \in alive
  /\ ChangeDisk(alive \cup {to}, "other", "prompt")

Renamed(from, to) ==
  (alive \ Below(from))
    \cup {to \o SubSeq(e, Len(from) + 1, Len(e)) : e \in alive \cap Below(from)}

Rename(d, to, step) ==
  /\ d \in listing[active] /\ cwd # Gone
  /\ LET from == Append(cwd, Last(d))
     IN /\ from \in alive
        /\ to \notin alive /\ Up(to) \in alive /\ to \notin Below(from)
        /\ Renamed(from, to) \subseteq Dir
        /\ step = "this" => Up(to) = cwd
        /\ ChangeDisk(Renamed(from, to), step, "prompt")

(* BUILTIN_refresh; a command that ran in a child process ends with the    *)
(* code at `restart', which also gives the active panel the focus again.   *)
Refresh == ChangeDisk(alive, "other", "prompt")
Restart == ChangeDisk(alive, "other", "focus")

-----------------------------------------------------------------------------
(* The rest of a command.                                                  *)

ReadThis ==
  /\ pc = "this" /\ pc' = "twin"
  /\ Reread(who)
  /\ UNCHANGED <<alive, active, who, after, history, calm>>

Twin ==
  /\ pc = "twin" /\ pc' = after
  /\ RereadTwin(who, Other(who))
  /\ UNCHANGED <<alive, active, who, after, history, calm>>

(* dir_history_add: entries after the point are kept, and the point jumps  *)
(* behind them.                                                            *)
Record ==
  /\ pc \in {"record", "record_restart"}
  /\ dir_history_point' = Len(dir_history)
  /\ dir_history' = Append(dir_history, path[who])
  /\ IF pc = "record" THEN pc' = "prompt" /\ UNCHANGED after
                      ELSE pc' = "other" /\ after' = "focus"
  /\ UNCHANGED <<alive, cwd, panels, active, who, calm>>

(* reread(), and the end of COPY and MOVE: the active panel comes last.    *)
ReadOther ==
  /\ pc = "other" /\ pc' = "last"
  /\ Reread(dst)
  /\ UNCHANGED <<alive, active, who, after, history, calm>>

ReadLastOther ==    \* mutant
  /\ pc = "last" /\ pc' = after
  /\ Reread(dst)
  /\ UNCHANGED <<alive, active, who, after, history, calm>>

ReadLast ==
  /\ pc = "last" /\ pc' = after
  /\ Reread(active)
  /\ UNCHANGED <<alive, active, who, after, history, calm>>

Focus ==
  /\ pc = "focus" /\ pc' = "prompt"
  /\ \/ path[active] \in alive /\ cwd' = path[active] /\ UNCHANGED panels
     \/ path[active] \notin alive /\ Recover(active)
  /\ UNCHANGED <<alive, active, who, after, history, calm>>

-----------------------------------------------------------------------------
(* Other processes.                                                        *)
Vanish(d) ==
  /\ d \in alive \ {Root}
  /\ alive' = alive \ Below(d)
  /\ cwd' = IF cwd \in alive' THEN cwd ELSE Gone
  /\ calm' = FALSE
  /\ UNCHANGED <<panels, active, plan, history>>

Appear(d) ==
  /\ d \in Dir \ alive /\ Up(d) \in alive
  /\ alive' = alive \cup {d}
  /\ calm' = FALSE
  /\ UNCHANGED <<cwd, panels, active, plan, history>>

Start ==
  \/ \E d \in Dir : \/ Enter(d)
                    \/ MakeDirectory(d)
                    \/ Delete(d)
  \/ EnterUp
  \/ Len(dir_history) < MaxHistory /\ \E d \in Dir : ChangeDirectory(d, "record")
  \/ Len(dir_history) < MaxHistory /\ \E d \in Dir : ChangeDirectory(d, "record_restart")
  \/ Len(dir_history) < MaxHistory /\ AdaptOther
  \/ GoInHistory(-1)
  \/ GoInHistory(1)
  \/ ResetHistory
  \/ OtherPanel
  \/ \E d, to \in Dir : Copy(d, to)
  \/ \E d, to \in Dir : Rename(d, to, "other")    \* MOVE
  \/ \E d, to \in Dir : Rename(d, to, "this")     \* CASE
  \/ Refresh
  \/ Restart

Continue == ReadThis \/ Twin \/ Record \/ ReadOther \/ ReadLast \/ Focus

Next == Start \/ Continue \/ \E d \in Dir : Vanish(d) \/ Appear(d)

Spec == Init /\ [][Next]_vars

-----------------------------------------------------------------------------
PcSet == {"prompt", "this", "twin", "record", "record_restart", "other", "last", "focus"}

(* Types; directories exist with their parents; the point of the directory *)
(* history is inside it (dir_history[dir_history_point] is read).          *)
TypeOK ==
  /\ alive \subseteq Dir /\ Root \in alive
  /\ cwd \in alive \cup {Gone}
  /\ path \in [Panel -> Dir] /\ listing \in [Panel -> SUBSET Dir]
  /\ active \in Panel
  /\ pc \in PcSet /\ who \in Panel /\ after \in PcSet
  /\ dir_history \in Seq(Dir) /\ dir_history_point \in 0 .. Len(dir_history) - 1
  /\ calm \in BOOLEAN

(* When the next key is read the process is in the active panel's          *)
(* directory (git.c, reread: "we want its current directory to be git's    *)
(* current directory").  The exceptions: that directory was removed, or    *)
(* the inactive panel has just been sent to the root directory because its *)
(* own could not be read any more.                                         *)
CwdIsActive ==
  pc = "prompt" /\ cwd # path[active]
    => cwd = Gone \/ (cwd = Root /\ path[dst] = Root)

(* A command that reads the panels and is not disturbed leaves the active  *)
(* panel, and the other one if it shows the same directory, with what is   *)
(* on the disk (panel_act_CHDIR: "as well if it turns out that both point  *)
(* to the same directory").                                                *)
PanelsFresh ==
  [][pc # "prompt" /\ pc' = "prompt" /\ calm'
       => \A p \in Panel :
            path'[p] = path'[active'] /\ path'[p] \in alive'
              => listing'[p] = {e \in alive' : e # Root /\ Front(e) = path'[p]}]_vars
=============================================================================
