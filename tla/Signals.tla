------------------------------- MODULE Signals -------------------------------
(***************************************************************************)
(* The signals of gitfm (signals.c) against its one thread: SIGTSTP,       *)
(* SIGCONT, SIGWINCH and SIGALRM arrive at any time.  A handler acts at    *)
(* once while signals are allowed, which they are while a key is read and  *)
(* while a hidden child runs or a file is read; otherwise it leaves a      *)
(* request that service_pending_signals takes up later.                    *)
(*                                                                         *)
(* The handlers that run form a stack.  The kernel keeps one pending       *)
(* signal of each kind, delivers it before the program goes on and before  *)
(* the next one arrives, unless it is blocked or the process is stopped,   *)
(* and blocks only the signals of the handler's mask.  What the thread     *)
(* does is given by pc: reading keys and servicing requests here (tty.c,   *)
(* tty_getc), starting children in module Children.                        *)
(***************************************************************************)
EXTENDS Integers, Sequences, FiniteSets

Signal == {"TSTP", "CONT", "WINCH", "ALRM"}

CONSTANT MaxNesting     \* bound: handlers that run inside one another

ASSUME MaxNestingAssumption == MaxNesting \in Nat \ {0}

VARIABLES
  pc,                  \* what the thread does
  back,                \* where service_pending_signals returns to
  signals_allowed,
  requested,           \* suspend_requested, refresh_requested, alarm_requested
  refresh_at_SIGCONT,
  installed,           \* signal_handlers(ON); otherwise signals are ignored
  frames,              \* the handlers that run, the innermost one first
  arriving,            \* signals the kernel has not delivered yet
  stopped,             \* the process is stopped
  mode,                \* tty_mode
  stale                \* the window changed after it was last drawn

thread   == <<pc, back>>
flags    == <<signals_allowed, requested, refresh_at_SIGCONT>>
kernel   == <<frames, arriving, stopped>>
terminal == <<mode, stale>>
signalVars == <<thread, flags, installed, kernel, terminal>>

Running == {frames[i].sig : i \in DOMAIN frames}

(* install_handler copies the mask before it adds to it: while a handler   *)
(* runs, only SIGINT and the handler's own signal are blocked.             *)
Blocked == IF Len(frames) < MaxNesting THEN Running ELSE Signal

Deliverable == IF stopped THEN {} ELSE arriving \ Blocked

(* The thread goes on when nothing runs on top of it.                      *)
ThreadRuns == ~stopped /\ frames = <<>> /\ arriving = {}
HandlerRuns(sig, step) ==
  /\ ~stopped /\ Deliverable = {}
  /\ frames # <<>> /\ Head(frames) = [sig |-> sig, step |-> step]
To(step) == frames' = <<[Head(frames) EXCEPT !.step = step]>> \o Tail(frames)
Return   == frames' = Tail(frames)

-----------------------------------------------------------------------------
(* The kernel and the user.                                                *)

(* SIGCONT cancels a pending stop signal, and a stop signal SIGCONT.       *)
Cancelled(sig) == CASE sig = "CONT" -> {"TSTP"}
                    [] sig = "TSTP" -> {"CONT"}
                    [] OTHER        -> {}

Arrive(sig) ==
  /\ sig \notin arriving /\ (stopped \/ arriving \subseteq Running)
  /\ sig = "TSTP" => ~stopped
  /\ stopped' = (stopped /\ sig # "CONT")
  /\ stale' = (stale \/ sig = "WINCH")
  /\ arriving' = (arriving \ Cancelled(sig)) \cup (IF installed THEN {sig} ELSE {})
  /\ UNCHANGED <<thread, flags, installed, frames, mode>>

Deliver(sig) ==
  /\ sig \in Deliverable
  /\ arriving' = arriving \ {sig}
  /\ frames' = <<[sig |-> sig, step |-> "entry"]>> \o frames
  /\ UNCHANGED <<thread, flags, installed, stopped, terminal>>

-----------------------------------------------------------------------------
(* The handlers.                                                           *)

Postpone(sig) ==
  /\ HandlerRuns(sig, "entry") /\ ~signals_allowed /\ sig # "CONT"
  /\ requested' = requested \cup {sig}
  /\ Return
  /\ UNCHANGED <<thread, signals_allowed, refresh_at_SIGCONT, installed, arriving,
                 stopped, terminal>>

(* suspend: hide() puts the terminal back into canonic mode.               *)
Suspend ==
  /\ HandlerRuns("TSTP", "entry") /\ signals_allowed
  /\ refresh_at_SIGCONT' = (mode = "noncanonic")
  /\ mode' = "canonic"
  /\ To("stop")
  /\ UNCHANGED <<thread, signals_allowed, requested, installed, arriving, stopped, stale>>

SuspendStop ==
  /\ HandlerRuns("TSTP", "stop")
  /\ stopped' = TRUE /\ arriving' = arriving \ {"CONT"}
  /\ To("finish")
  /\ UNCHANGED <<thread, flags, installed, terminal>>

(* window_change: screen_refresh asks for the window's size first and      *)
(* draws then.                                                             *)
Redraw ==
  /\ HandlerRuns("WINCH", "entry") /\ signals_allowed
  /\ stale' = FALSE
  /\ To("draw")
  /\ UNCHANGED <<thread, flags, installed, arriving, stopped, mode>>

(* time_change writes the clock, in one step.                              *)
Tick ==
  /\ HandlerRuns("ALRM", "entry") /\ signals_allowed
  /\ requested' = requested \ {"ALRM"}
  /\ Return
  /\ UNCHANGED <<thread, signals_allowed, refresh_at_SIGCONT, installed, arriving,
                 stopped, terminal>>

ResumeCanonic ==    \* mutant
  /\ HandlerRuns("CONT", "entry") /\ refresh_at_SIGCONT
  /\ stale' = FALSE
  /\ To("draw")
  /\ UNCHANGED <<thread, flags, installed, arriving, stopped, mode>>

(* resume: unhide() if the last suspension that the handler serviced was   *)
(* in noncanonic mode.  It does not ask whether signals are allowed, and   *)
(* nothing lowers refresh_at_SIGCONT but the next suspension.              *)
Resume ==
  /\ HandlerRuns("CONT", "entry") /\ refresh_at_SIGCONT
  /\ mode' = "noncanonic" /\ stale' = FALSE
  /\ To("draw")
  /\ UNCHANGED <<thread, flags, installed, arriving, stopped>>

ResumeNothing ==
  /\ HandlerRuns("CONT", "entry") /\ ~refresh_at_SIGCONT
  /\ Return
  /\ UNCHANGED <<thread, flags, installed, arriving, stopped, terminal>>

Drawn(sig) ==
  /\ HandlerRuns(sig, "draw")
  /\ To("finish")
  /\ UNCHANGED <<thread, flags, installed, arriving, stopped, terminal>>

Request(sig) == IF sig = "CONT" THEN "WINCH" ELSE sig

Finish(sig) ==
  /\ HandlerRuns(sig, "finish")
  /\ requested' = requested \ {Request(sig)}
  /\ Return
  /\ UNCHANGED <<thread, signals_allowed, refresh_at_SIGCONT, installed, arriving,
                 stopped, terminal>>

(* One step of the handler of sig.                                         *)
Handle(sig) ==
  \/ Deliver(sig) \/ Postpone(sig) \/ Drawn(sig) \/ Finish(sig)
  \/ sig = "TSTP" /\ (Suspend \/ SuspendStop)
  \/ sig = "WINCH" /\ Redraw
  \/ sig = "ALRM" /\ Tick
  \/ sig = "CONT" /\ (Resume \/ ResumeNothing)

-----------------------------------------------------------------------------
(* The thread.                                                             *)

Call(return) == pc' = "service" /\ back' = return
GoBack       == pc' = back /\ back' = "command"

(* service_pending_signals takes up one request: hide and stop ...         *)
ServiceSuspend ==
  /\ ThreadRuns /\ pc = "service" /\ "TSTP" \in requested
  /\ mode' = "canonic"
  /\ pc' = "stop"
  /\ UNCHANGED <<back, flags, installed, kernel, stale>>

ServiceStop ==
  /\ ThreadRuns /\ pc = "stop"
  /\ stopped' = TRUE
  /\ pc' = "stopped"
  /\ UNCHANGED <<back, flags, installed, frames, arriving, terminal>>

(* ... which forgets the other requests, too ...                           *)
ServiceSuspendDone ==
  /\ ThreadRuns /\ pc = "stopped"
  /\ requested' = {}
  /\ GoBack
  /\ UNCHANGED <<signals_allowed, refresh_at_SIGCONT, installed, kernel, terminal>>

ServiceRefreshStale ==    \* mutant
  /\ ThreadRuns /\ pc = "service" /\ "TSTP" \notin requested /\ "WINCH" \in requested
  /\ pc' = "draw"
  /\ UNCHANGED <<back, flags, installed, kernel, terminal>>

(* ... or draw the screen ...                                              *)
ServiceRefresh ==
  /\ ThreadRuns /\ pc = "service" /\ "TSTP" \notin requested /\ "WINCH" \in requested
  /\ stale' = FALSE
  /\ pc' = "draw"
  /\ UNCHANGED <<back, flags, installed, kernel, mode>>

ServiceRefreshDone ==
  /\ ThreadRuns /\ pc = "draw"
  /\ requested' = requested \ {"WINCH", "ALRM"}
  /\ GoBack
  /\ UNCHANGED <<signals_allowed, refresh_at_SIGCONT, installed, kernel, terminal>>

ServiceNothingButRefresh ==    \* mutant
  /\ ThreadRuns /\ pc = "service" /\ "WINCH" \notin requested
  /\ requested' = {}
  /\ GoBack
  /\ UNCHANGED <<signals_allowed, refresh_at_SIGCONT, installed, kernel, terminal>>

(* ... or nothing, an alarm being forgotten.                               *)
ServiceNothing ==
  /\ ThreadRuns /\ pc = "service" /\ requested \subseteq {"ALRM"}
  /\ requested' = {}
  /\ GoBack
  /\ UNCHANGED <<signals_allowed, refresh_at_SIGCONT, installed, kernel, terminal>>

(* A command checks for signals between two files, and ends in tty_getc.   *)
Check(return) ==
  /\ ThreadRuns /\ pc = "command"
  /\ Call(return)
  /\ UNCHANGED <<flags, installed, kernel, terminal>>

(* A copy and a comparison allow signals while they read a file.           *)
StartTransfer ==
  /\ ThreadRuns /\ pc = "command"
  /\ signals_allowed' = TRUE
  /\ Call("transfer")
  /\ UNCHANGED <<requested, refresh_at_SIGCONT, installed, kernel, terminal>>

Transferred ==
  /\ ThreadRuns /\ pc = "transfer"
  /\ signals_allowed' = FALSE
  /\ pc' = "command"
  /\ UNCHANGED <<back, requested, refresh_at_SIGCONT, installed, kernel, terminal>>

(* tty_getc: a character that was already read ends it; otherwise          *)
(* signals(ON) allows signals and services the pending ones.               *)
Buffered ==
  /\ ThreadRuns /\ pc = "getc"
  /\ pc' = "command"
  /\ UNCHANGED <<back, flags, installed, kernel, terminal>>

StartRead ==
  /\ ThreadRuns /\ pc = "getc"
  /\ signals_allowed' = TRUE
  /\ Call("reading")
  /\ UNCHANGED <<requested, refresh_at_SIGCONT, installed, kernel, terminal>>

KeyReadAllowed ==    \* mutant
  /\ ThreadRuns /\ pc = "reading"
  /\ pc' = "command"
  /\ UNCHANGED <<back, flags, installed, kernel, terminal>>

(* The read returns a key, and signals(OFF).                               *)
KeyRead ==
  /\ ThreadRuns /\ pc = "reading"
  /\ signals_allowed' = FALSE
  /\ pc' = "command"
  /\ UNCHANGED <<back, requested, refresh_at_SIGCONT, installed, kernel, terminal>>

Service ==
  \/ ServiceSuspend \/ ServiceStop \/ ServiceSuspendDone
  \/ ServiceRefresh \/ ServiceRefreshDone \/ ServiceNothing
  \/ Check("command") \/ Check("getc") \/ Buffered \/ StartRead
  \/ StartTransfer \/ Transferred

SignalsInit ==
  /\ pc = "command" /\ back = "command"
  /\ signals_allowed = FALSE /\ requested = {} /\ refresh_at_SIGCONT = FALSE
  /\ installed = TRUE
  /\ frames = <<>> /\ arriving = {} /\ stopped = FALSE
  /\ mode = "noncanonic" /\ stale = FALSE

-----------------------------------------------------------------------------
Step == {"entry", "stop", "draw", "finish"}

SignalsTypeOK ==
  /\ signals_allowed \in BOOLEAN /\ refresh_at_SIGCONT \in BOOLEAN
  /\ requested \subseteq Signal \ {"CONT"}
  /\ frames \in Seq([sig : Signal, step : Step])
  /\ Cardinality(Running) = Len(frames)
  /\ arriving \subseteq Signal
  /\ installed \in BOOLEAN /\ stopped \in BOOLEAN /\ stale \in BOOLEAN
  /\ mode \in {"canonic", "noncanonic"}

(* With signals off a handler leaves a request and does not draw or hide   *)
(* the screen in the middle of a command (signals.c: "hide() is not        *)
(* reentrant", "refresh() is not reentrant").  The one exception is        *)
(* resume(), once a suspension has left refresh_at_SIGCONT set: it draws   *)
(* wherever a SIGCONT comes.                                               *)
HandlersKeepOut ==
  pc \in {"command", "getc", "started", "report", "restart"}
    => \A i \in DOMAIN frames :
         frames[i].step = "entry" \/ (frames[i].sig = "CONT" /\ refresh_at_SIGCONT)

(* refresh_at_SIGCONT is a promise to show the screen again, and resume()  *)
(* keeps it however signals nest and cancel one another: while it is set,  *)
(* no command runs and no key is read in canonic mode.  Where suspend() or *)
(* service_pending_signals() promise nothing, keys may be read in canonic  *)
(* mode: after a suspension that waited for the end of a command, unless   *)
(* the promise of an earlier one still stands, and after any that met      *)
(* canonic mode.                                                           *)
PromisesKept ==
  pc \in {"command", "getc", "reading"} /\ ThreadRuns /\ refresh_at_SIGCONT
    => mode = "noncanonic"

(* A suspension that is asked for while a command runs takes effect, and   *)
(* so does a redraw unless a suspension comes first.  A window that        *)
(* changes while the screen is being drawn, by resume() in the middle of a *)
(* command or when the request is serviced, is not covered: the request is *)
(* lowered after the drawing.                                              *)
SuspendTakesEffect ==
  pc = "command" /\ "TSTP" \in requested ~> stopped
RedrawTakesEffect ==
  pc = "command" /\ "WINCH" \in requested /\ stale /\ "CONT" \notin Running
    ~> ~stale \/ stopped

(* install_handler: "Block other terminal-generated signals while handler  *)
(* runs".  The mask is copied into the sigaction before they are added to  *)
(* it, so that one handler does interrupt another.                         *)
HandlersDoNotNest == Len(frames) <= 1
=============================================================================
