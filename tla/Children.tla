------------------------------- MODULE Children ------------------------------
(***************************************************************************)
(* start() and my_system() of system.c on top of module Signals: a command *)
(* runs in a child process, either on the terminal with gitfm's handlers   *)
(* switched off, or hidden, with its output in two log files and signals   *)
(* allowed.  For a hidden command the descriptors 1 and 2 of gitfm itself  *)
(* are moved: the log files are opened in their place, and the old ones    *)
(* come back by dup, which takes the lowest free descriptor.               *)
(***************************************************************************)
EXTENDS Signals, FiniteSetsExt

VARIABLES
  fds,          \* what every descriptor of gitfm is open on
  old_out, old_err, log_out, log_err,     \* descriptors held by my_system
  logs,         \* the log files that exist
  hide, status  \* argument and result of start

locals    == <<old_out, old_err, log_out, log_err>>
childVars == <<fds, locals, logs, hide, status>>
vars      == <<signalVars, childVars>>

Fd      == 0 .. 6
InitFds == [f \in Fd |-> CASE f = 0 -> "stdin" [] f = 1 -> "stdout" [] f = 2 -> "stderr"
                           [] OTHER -> "closed"]
None    == -1

Lowest(table)    == Min({f \in Fd : table[f] = "closed"})
Dup(table, f)    == [table EXCEPT ![Lowest(table)] = table[f]]
OpenLog(table, l) == [table EXCEPT ![Lowest(table)] = l]
Close(table, F)  == [f \in Fd |-> IF f \in F THEN "closed" ELSE table[f]]

GoOn(step) == ThreadRuns /\ pc' = step
(* What the thread does apart from signals leaves them alone.              *)
Aside == UNCHANGED <<flags, installed, kernel, terminal, back>>

-----------------------------------------------------------------------------
(* start(command, 1): signals(ON), then my_system.                         *)
StartHidden ==
  /\ ThreadRuns /\ pc = "command"
  /\ signals_allowed' = TRUE /\ Call("my_system")
  /\ hide' = TRUE
  /\ UNCHANGED <<requested, refresh_at_SIGCONT, installed, kernel, terminal,
                 fds, locals, logs, status>>

(* start(command, 0): the handlers go off and the terminal is given back.  *)
StartShown ==
  /\ GoOn("my_system") /\ pc = "command"
  /\ installed' = FALSE /\ hide' = FALSE
  /\ UNCHANGED <<back, flags, kernel, terminal, fds, locals, logs, status>>

(* remove_log, then dup(1), dup(2), close(1), close(2).                    *)
SaveOutput ==
  /\ pc = "my_system" /\ logs' = {}
  /\ \/ ~hide /\ GoOn("fork") /\ UNCHANGED <<fds, locals>>
     \/ /\ hide /\ GoOn("open_logs")
        /\ old_out' = Lowest(fds)
        /\ LET t == Dup(fds, 1)
           IN old_err' = Lowest(t) /\ fds' = Close(Dup(t, 2), {1, 2})
        /\ UNCHANGED <<log_out, log_err>>
  /\ Aside /\ UNCHANGED <<hide, status>>

(* mkstemp, which may fail, takes the lowest free descriptor: 1 and 2.     *)
OpenLogs(opened) ==
  LET out == "out_log" \in opened
      err == "err_log" \in opened
      t   == IF out THEN OpenLog(fds, "out_log") ELSE fds
  IN /\ pc = "open_logs" /\ GoOn(IF out /\ err THEN "fork" ELSE "give_up")
     /\ log_out' = IF out THEN Lowest(fds) ELSE None
     /\ log_err' = IF err THEN Lowest(t) ELSE None
     /\ fds' = IF err THEN OpenLog(t, "err_log") ELSE t
     /\ logs' = opened
     /\ Aside /\ UNCHANGED <<old_out, old_err, hide, status>>

RestoredOver == Close(Dup(Dup(fds, old_out), old_err), {old_out, old_err})    \* mutant

(* The logs are closed and the old descriptors come back.                  *)
Restored ==
  LET t == Close(fds, {log_out, log_err})
  IN Close(Dup(Dup(t, old_out), old_err), {old_out, old_err})

GiveUp ==
  /\ pc = "give_up" /\ GoOn("return")
  /\ logs' = {} /\ fds' = Restored
  /\ status' = "none"
  /\ Aside /\ UNCHANGED <<locals, hide>>

(* fork; when it fails, the result is -1 and nothing is put back: gitfm    *)
(* goes on with its output in a log file, and the model stops there.       *)
Fork ==
  /\ pc = "fork" /\ GoOn("wait")
  /\ fds' = IF hide THEN Restored ELSE fds
  /\ Aside /\ UNCHANGED <<locals, logs, hide, status>>

ForkFails ==
  /\ pc = "fork" /\ GoOn(IF hide THEN "lost" ELSE "return")
  /\ status' = "none"
  /\ Aside /\ UNCHANGED <<fds, locals, logs, hide>>

(* wait returns when the child exits or is killed.                         *)
Wait(s) ==
  /\ pc = "wait" /\ GoOn("return")
  /\ status' = s
  /\ Aside /\ UNCHANGED <<fds, locals, logs, hide>>

(* How a command on the terminal ended matters to nobody.                  *)
ResultOf(s) == IF hide THEN s ELSE "ok"

StartReturnsTidy ==    \* mutant
  /\ pc = "return"
  /\ GoOn(IF ~hide THEN "restart" ELSE "started")
  /\ IF hide THEN signals_allowed' = FALSE /\ UNCHANGED installed
             ELSE installed' = TRUE /\ UNCHANGED signals_allowed
  /\ old_out' = None /\ old_err' = None /\ log_out' = None /\ log_err' = None
  /\ hide' = FALSE /\ logs' = {} /\ status' = ResultOf(status)
  /\ UNCHANGED <<back, requested, refresh_at_SIGCONT, kernel, terminal, fds>>

(* signals(OFF), or the handlers come back.                                *)
StartReturns ==
  /\ pc = "return"
  /\ GoOn(IF ~hide THEN "restart" ELSE "started")
  /\ IF hide THEN signals_allowed' = FALSE /\ UNCHANGED installed
             ELSE installed' = TRUE /\ UNCHANGED signals_allowed
  /\ old_out' = None /\ old_err' = None /\ log_out' = None /\ log_err' = None
  /\ hide' = FALSE /\ status' = ResultOf(status)
  /\ UNCHANGED <<back, requested, refresh_at_SIGCONT, kernel, terminal, fds, logs>>

(* A file operation goes on; a user command reports a failure, from the    *)
(* log of its error output when it did exit.                               *)
Started ==
  /\ pc = "started"
  /\ GoOn(IF status = "failed" THEN "report" ELSE "restart") \/ GoOn("command")
  /\ status' = "ok"
  /\ Aside /\ UNCHANGED <<fds, locals, logs, hide>>

Report ==
  /\ pc = "report" /\ GoOn("restart")
  /\ Aside /\ UNCHANGED childVars

(* The code at `restart' sets the terminal up and draws the screen.        *)
Restart ==
  /\ ThreadRuns /\ pc = "restart"
  /\ mode' = "noncanonic" /\ stale' = FALSE
  /\ Call("getc")
  /\ UNCHANGED <<flags, installed, kernel, childVars>>

Start ==
  \/ StartHidden \/ StartShown \/ SaveOutput \/ GiveUp
  \/ \E opened \in SUBSET {"out_log", "err_log"} : OpenLogs(opened)
  \/ Fork \/ ForkFails
  \/ StartReturns \/ Started \/ Report \/ Restart

ChildEnds == \E s \in {"ok", "failed", "killed"} : Wait(s)

-----------------------------------------------------------------------------
Init ==
  /\ SignalsInit
  /\ fds = InitFds /\ old_out = None /\ old_err = None /\ log_out = None /\ log_err = None
  /\ logs = {} /\ hide = FALSE /\ status = "ok"

Signalling    == (\E sig \in Signal : Arrive(sig)) /\ UNCHANGED childVars
Handling(sig) == Handle(sig) /\ UNCHANGED childVars
Serving       == Service /\ UNCHANGED childVars
Reading       == KeyRead /\ UNCHANGED childVars
Thread        == Serving \/ Start

Next ==
  \/ Signalling
  \/ \E sig \in Signal : Handling(sig)
  \/ Thread \/ Reading \/ ChildEnds

(* Handlers, the thread and children go on when they can.  Signals may     *)
(* come again and again, but not so fast that a handler is always running. *)
(* Nobody has to send a signal or to press a key.                          *)
Fairness ==
  /\ WF_vars(\E sig \in Signal : Handling(sig))
  /\ []<>(stopped \/ ThreadRuns)
  /\ SF_vars(Thread) /\ SF_vars(ChildEnds)

Spec == Init /\ [][Next]_vars /\ Fairness

-----------------------------------------------------------------------------
TypeOK ==
  /\ SignalsTypeOK
  /\ fds \in [Fd -> {"stdin", "stdout", "stderr", "out_log", "err_log", "closed"}]
  /\ {old_out, old_err, log_out, log_err} \subseteq Fd \cup {None}
  /\ logs \subseteq {"out_log", "err_log"}
  /\ hide \in BOOLEAN /\ status \in {"ok", "failed", "killed", "none"}

(* Whatever failed on the way, start() gives gitfm its descriptors back:   *)
(* 1 and 2 are the terminal again and none is left open.  The exception is *)
(* a fork that failed: the command's log files stay in their place.        *)
DescriptorsRestored ==
  pc \in {"command", "getc", "started"} => fds = InitFds

(* The error log that display_errors opens is there, and it is the one of  *)
(* the command that failed: the next start() removes it, nothing earlier.  *)
ErrorsCanBeShown ==
  pc = "report" => "err_log" \in logs
=============================================================================
