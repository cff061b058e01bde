---------------------------- MODULE ChildrenProofs ---------------------------
(***************************************************************************)
(* What signals and children leave as it was, for handlers that interrupt  *)
(* one another to any depth.                                               *)
(***************************************************************************)
EXTENDS Children, FiniteSetTheorems, FunctionTheorems, SequenceTheorems, TLAPS

Frame  == [sig : Signal, step : Step]
Frames == {frames[i] : i \in DOMAIN frames}

Quiet     == {"command", "getc", "started", "report", "restart"}
Servicing == {"service", "stop", "stopped", "draw"}
InSystem  == {"my_system", "open_logs", "give_up", "fork", "wait", "return"}

TypeInv ==
  /\ signals_allowed \in BOOLEAN /\ refresh_at_SIGCONT \in BOOLEAN
  /\ requested \subseteq Signal \ {"CONT"}
  /\ frames \in Seq(Frame)
  /\ arriving \subseteq Signal
  /\ installed \in BOOLEAN /\ stopped \in BOOLEAN /\ stale \in BOOLEAN
  /\ mode \in {"canonic", "noncanonic"}
  /\ fds \in [Fd -> {"stdin", "stdout", "stderr", "out_log", "err_log", "closed"}]
  /\ {old_out, old_err, log_out, log_err} \subseteq Fd \cup {None}
  /\ logs \subseteq {"out_log", "err_log"}
  /\ hide \in BOOLEAN /\ status \in {"ok", "failed", "killed", "none"}

(* The handler of a signal is not interrupted by the same signal.          *)
OneEach == \A i, j \in DOMAIN frames : frames[i].sig = frames[j].sig => i = j

(* Where the thread is decides whether signals are allowed and whether the *)
(* handlers are installed.                                                 *)
WhereOK ==
  /\ pc \in Quiet \cup Servicing \cup InSystem \cup {"transfer", "reading", "lost"}
  /\ pc \in Servicing => /\ back \in {"command", "getc", "transfer", "reading", "my_system"}
                         /\ back = "my_system" => hide
  /\ pc \in {"open_logs", "give_up", "lost"} => hide
  /\ signals_allowed <=> \/ pc \in {"transfer", "reading", "lost"}
                         \/ pc \in Servicing /\ back \in {"transfer", "reading", "my_system"}
                         \/ pc \in InSystem /\ hide
  /\ installed <=> ~(pc \in InSystem /\ ~hide)

(* What runs on top of the thread.                                         *)
KeptOut ==
  /\ ~installed => frames = <<>> /\ arriving = {} /\ ~stopped
  /\ ~signals_allowed =>
       /\ \A f \in Frames : f.step = "entry" \/ (f.sig = "CONT" /\ refresh_at_SIGCONT)
       /\ stopped => frames = <<>>
  /\ pc \in Quiet => ~stopped

(* Once a suspension has hidden the screen, something is under way that    *)
(* will show it again: a stop, the SIGCONT after it or its handler; or the *)
(* next suspension, which will not promise to do so.  A SIGCONT that waits *)
(* for an earlier one counts only while a stop that cancels it would hide  *)
(* the screen anew.                                                        *)
UnderWay ==
  \/ pc = "stop" \/ stopped
  \/ "CONT" \in arriving /\ (signals_allowed \/ \A f \in Frames : f.sig # "CONT")
  \/ [sig |-> "CONT", step |-> "entry"] \in Frames
  \/ [sig |-> "TSTP", step |-> "stop"] \in Frames
  \/ signals_allowed /\ ("TSTP" \in arriving \/ [sig |-> "TSTP", step |-> "entry"] \in Frames)

HiddenOK == refresh_at_SIGCONT /\ mode = "canonic" => UnderWay

(* The descriptors while my_system has moved them.                         *)
Table(one, two, three, four) ==
  [f \in Fd |-> CASE f = 0 -> "stdin" [] f = 1 -> one [] f = 2 -> two
                  [] f = 3 -> three [] f = 4 -> four [] OTHER -> "closed"]

MovedOK ==
  /\ pc \notin {"open_logs", "give_up", "fork", "lost"} => fds = InitFds
  /\ pc = "fork" /\ ~hide => fds = InitFds
  /\ pc \in {"open_logs", "give_up"} \/ (pc = "fork" /\ hide) => old_out = 3 /\ old_err = 4
  /\ pc = "open_logs" => fds = Table("closed", "closed", "stdout", "stderr")
  /\ pc = "give_up" =>
       \/ fds = Table("closed", "closed", "stdout", "stderr") /\ log_out = None /\ log_err = None
       \/ fds = Table("out_log", "closed", "stdout", "stderr") /\ log_out = 1 /\ log_err = None
       \/ fds = Table("err_log", "closed", "stdout", "stderr") /\ log_out = None /\ log_err = 1
  /\ pc = "fork" /\ hide =>
       fds = Table("out_log", "err_log", "stdout", "stderr") /\ log_out = 1 /\ log_err = 2

LogsOK ==
  /\ pc \in {"fork", "wait"} /\ hide => "err_log" \in logs
  /\ pc = "return" /\ hide /\ status = "failed" => "err_log" \in logs
  /\ pc = "started" /\ status = "failed" => "err_log" \in logs
  /\ pc = "report" => "err_log" \in logs

Inv == TypeInv /\ OneEach /\ WhereOK /\ KeptOut /\ HiddenOK /\ MovedOK /\ LogsOK


-----------------------------------------------------------------------------
(* The stack of the handlers.                                              *)

LEMMA Pushed ==
  ASSUME frames \in Seq(Frame), OneEach, NEW f \in Frame, f.sig \notin Running, frames' = <<f>> \o frames
  PROVE  frames' \in Seq(Frame) /\ Frames' = Frames \cup {f} /\ OneEach'
<1>1. /\ <<f>> \in Seq(Frame) /\ Len(<<f>>) = 1 /\ <<f>>[1] = f
      /\ Len(frames) \in Nat /\ DOMAIN frames = 1 .. Len(frames)
  BY LenProperties
<1>2. /\ frames' \in Seq(Frame) /\ Len(frames') = 1 + Len(frames)
      /\ DOMAIN frames' = 1 .. 1 + Len(frames)
      /\ \A i \in 1 .. 1 + Len(frames) : frames'[i] = IF i <= 1 THEN f ELSE frames[i - 1]
  BY <1>1, ConcatProperties, LenProperties
<1>3. frames'[1] = f /\ \A i \in 1 .. Len(frames) : i + 1 \in DOMAIN frames' /\ frames'[i + 1] = frames[i]
  BY <1>1, <1>2
<1>4. \A i \in DOMAIN frames' : i = 1 \/ (i - 1 \in DOMAIN frames /\ frames'[i] = frames[i - 1])
  BY <1>1, <1>2
<1>5. Frames' = Frames \cup {f}
  <2>1. \A g \in Frames' : g \in Frames \cup {f}
    BY <1>3, <1>4 DEF Frames
  <2>2. f \in Frames'
    <3>1. 1 \in DOMAIN frames' /\ frames'[1] = f
      BY <1>1, <1>2, <1>3
    <3> QED BY <3>1 DEF Frames
  <2>3. ASSUME NEW g \in Frames PROVE g \in Frames'
    <3>1. PICK i \in DOMAIN frames : g = frames[i]
      BY DEF Frames
    <3>2. i + 1 \in DOMAIN frames' /\ frames'[i + 1] = g
      BY <1>1, <1>3, <3>1
    <3> QED BY <3>2 DEF Frames
  <2> QED BY <2>1, <2>2, <2>3
<1>6. OneEach'
  <2> SUFFICES ASSUME NEW i \in DOMAIN frames', NEW j \in DOMAIN frames', frames'[i].sig = frames'[j].sig
               PROVE  i = j
    BY DEF OneEach
  <2>1. \A k \in DOMAIN frames : frames[k].sig # f.sig
    BY DEF Running
  <2> QED BY <1>2, <1>3, <1>4, <2>1 DEF OneEach
<1> QED BY <1>2, <1>5, <1>6

LEMMA Popped ==
  ASSUME frames \in Seq(Frame), OneEach, frames # <<>>, frames' = Tail(frames)
  PROVE  /\ frames' \in Seq(Frame) /\ Frames' \subseteq Frames /\ OneEach'
         /\ Frames \subseteq Frames' \cup {Head(frames)} /\ Head(frames) \in Frames
<1>1. /\ Tail(frames) \in Seq(Frame) /\ Len(Tail(frames)) = Len(frames) - 1 /\ Len(frames) \in Nat
      /\ DOMAIN frames = 1 .. Len(frames) /\ DOMAIN Tail(frames) = 1 .. Len(Tail(frames))
      /\ \A i \in 1 .. Len(Tail(frames)) : Tail(frames)[i] = frames[i + 1]
      /\ Len(frames) > 0 /\ Head(frames) = frames[1]
  BY HeadTailProperties, LenProperties, EmptySeq
<1>2. \A i \in DOMAIN frames' : i + 1 \in DOMAIN frames /\ frames'[i] = frames[i + 1] /\ i \in Int
  BY <1>1
<1>3. \A i \in DOMAIN frames : i = 1 \/ (i - 1 \in DOMAIN frames' /\ frames[i] = frames'[i - 1])
  BY <1>1
<1>4. Frames' \subseteq Frames
  BY <1>2 DEF Frames
<1>5. Head(frames) \in Frames
  BY <1>1 DEF Frames
<1>6. ASSUME NEW g \in Frames PROVE g = Head(frames) \/ g \in Frames'
  <2>1. PICK i \in DOMAIN frames : g = frames[i]
    BY DEF Frames
  <2>2. i = 1 \/ (i - 1 \in DOMAIN frames' /\ frames'[i - 1] = g)
    BY <1>3, <2>1
  <2> QED BY <1>1, <2>1, <2>2 DEF Frames
<1>7. OneEach'
  BY <1>2 DEF OneEach
<1> QED BY <1>1, <1>4, <1>5, <1>6, <1>7

LEMMA Replaced ==
  ASSUME frames \in Seq(Frame), OneEach, frames # <<>>, NEW step \in Step, To(step)
  PROVE  /\ frames' \in Seq(Frame) /\ OneEach'
         /\ Frames' \subseteq Frames \cup {[sig |-> Head(frames).sig, step |-> step]}
         /\ [sig |-> Head(frames).sig, step |-> step] \in Frames'
         /\ Frames \subseteq Frames' \cup {Head(frames)} /\ Head(frames) \in Frames
<1> DEFINE f == [Head(frames) EXCEPT !.step = step]
<1>1. /\ Tail(frames) \in Seq(Frame) /\ Len(Tail(frames)) = Len(frames) - 1 /\ Len(frames) \in Nat
      /\ DOMAIN frames = 1 .. Len(frames)
      /\ \A i \in 1 .. Len(Tail(frames)) : Tail(frames)[i] = frames[i + 1]
      /\ Len(frames) > 0 /\ Head(frames) = frames[1] /\ Head(frames) \in Frame
  BY HeadTailProperties, LenProperties, EmptySeq
<1>2. f \in Frame /\ f = [sig |-> Head(frames).sig, step |-> step] /\ f.sig = Head(frames).sig
  BY <1>1 DEF Frame
<1>3. <<f>> \in Seq(Frame) /\ Len(<<f>>) = 1 /\ <<f>>[1] = f /\ frames' = <<f>> \o Tail(frames)
  BY <1>2 DEF To
<1> HIDE DEF f
<1>4. /\ frames' \in Seq(Frame) /\ Len(frames') = Len(frames) /\ DOMAIN frames' = 1 .. Len(frames)
      /\ \A i \in 1 .. Len(frames) : frames'[i] = IF i <= 1 THEN f ELSE Tail(frames)[i - 1]
  BY <1>1, <1>3, ConcatProperties, LenProperties
<1>5. frames'[1] = f /\ \A i \in DOMAIN frames' : i = 1 \/ frames'[i] = frames[i]
  BY <1>1, <1>4
<1>6. OneEach'
  <2>1. \A i \in DOMAIN frames : frames'[i].sig = frames[i].sig
    BY <1>1, <1>2, <1>4, <1>5
  <2> QED BY <1>1, <1>4, <2>1 DEF OneEach
<1> QED BY <1>1, <1>2, <1>4, <1>5, <1>6 DEF Frames

LEMMA NoFrames == ASSUME frames = <<>> PROVE Frames = {}
BY DEF Frames

LEMMA HeadRuns ==
  ASSUME TypeInv, NEW sig, NEW step, HandlerRuns(sig, step)
  PROVE  /\ ~stopped /\ frames # <<>> /\ frames \in Seq(Frame)
         /\ Head(frames) = [sig |-> sig, step |-> step] /\ [sig |-> sig, step |-> step] \in Frames
         /\ sig \in Signal /\ step \in Step
<1>1. Head(frames) = [sig |-> sig, step |-> step] /\ frames # <<>> /\ ~stopped /\ frames \in Seq(Frame)
  BY DEF HandlerRuns, TypeInv
<1>2. Head(frames) \in Frame /\ Head(frames) = frames[1] /\ 1 \in DOMAIN frames
  BY <1>1, HeadTailProperties, LenProperties, EmptySeq
<1> QED BY <1>1, <1>2 DEF Frames, Frame

-----------------------------------------------------------------------------
(* The kernel and the handlers.                                            *)

LEMMA AsideStep ==
  ASSUME Inv, UNCHANGED <<thread, signals_allowed, installed, childVars>>,
         refresh_at_SIGCONT' \in BOOLEAN, stopped' \in BOOLEAN, stale' \in BOOLEAN,
         mode' \in {"canonic", "noncanonic"}, requested' \subseteq Signal \ {"CONT"},
         arriving' \subseteq Signal, frames' \in Seq(Frame), OneEach', KeptOut', HiddenOK'
  PROVE  Inv'
<1>1. TypeInv'
  BY DEF Inv, TypeInv, childVars, locals
<1>2. WhereOK'
  BY DEF Inv, WhereOK, thread, childVars
<1>3. MovedOK'
  BY DEF Inv, MovedOK, thread, childVars, locals
<1>4. LogsOK'
  BY DEF Inv, LogsOK, thread, childVars
<1> QED BY <1>1, <1>2, <1>3, <1>4 DEF Inv

LEMMA ArriveStep == ASSUME Inv, NEW sig \in Signal, Arrive(sig), UNCHANGED childVars PROVE Inv'
<1>1. /\ UNCHANGED <<thread, signals_allowed, installed, frames, mode, refresh_at_SIGCONT, requested>>
      /\ stopped' = (stopped /\ sig # "CONT") /\ stale' \in BOOLEAN
      /\ arriving' = (arriving \ Cancelled(sig)) \cup (IF installed THEN {sig} ELSE {})
      /\ sig = "TSTP" => ~stopped
      /\ stopped \/ arriving \subseteq Running
  BY DEF Arrive, flags, Inv, TypeInv
<1>2. Frames' = Frames /\ OneEach' /\ frames' \in Seq(Frame) /\ arriving' \subseteq Signal
  BY <1>1 DEF Frames, OneEach, Inv, TypeInv
<1>3. KeptOut'
  <2>1. pc' = pc
    BY <1>1 DEF thread
  <2>2. ~installed => frames = <<>> /\ arriving' = {} /\ ~stopped'
    BY <1>1 DEF Inv, KeptOut
  <2>3. ~signals_allowed => (stopped' => frames = <<>>)
    BY <1>1 DEF Inv, KeptOut
  <2>4. pc \in Quiet => ~stopped'
    BY <1>1 DEF Inv, KeptOut
  <2> QED BY <1>1, <1>2, <2>1, <2>2, <2>3, <2>4 DEF Inv, KeptOut
<1>4. UnderWay => UnderWay'
  <2>1. pc' = pc /\ signals_allowed' = signals_allowed
    BY <1>1 DEF thread
  <2>2. CASE stopped
    <3>1. installed /\ (~signals_allowed => Frames = {})
      BY <2>2, NoFrames DEF Inv, KeptOut
    <3>2. CASE sig = "CONT"
      <4>1. "CONT" \in arriving' /\ (signals_allowed' \/ \A f \in Frames' : f.sig # "CONT")
        BY <1>1, <1>2, <2>1, <3>1, <3>2
      <4> QED BY <4>1 DEF UnderWay
    <3>3. CASE sig # "CONT"
      BY <1>1, <2>2, <3>3 DEF UnderWay
    <3> QED BY <3>2, <3>3
  <2>3. CASE ~stopped /\ sig = "CONT"
    <3>1. installed => "CONT" \in arriving'
      BY <1>1, <2>3
    <3>2. ~installed => Frames = {} /\ arriving = {}
      BY NoFrames DEF Inv, KeptOut
    <3> QED BY <1>1, <1>2, <2>1, <2>3, <3>1, <3>2 DEF UnderWay
  <2>4. CASE ~stopped /\ sig = "TSTP" /\ "CONT" \in arriving
    <3>1. \E f \in Frames : f.sig = "CONT"
      BY <1>1, <2>4 DEF Running, Frames
    <3>2. installed
      BY <2>4 DEF Inv, KeptOut
    <3>3. "TSTP" \in arriving'
      BY <1>1, <2>4, <3>2
    <3> QED BY <1>1, <1>2, <2>1, <2>4, <3>1, <3>3 DEF UnderWay
  <2>5. CASE ~stopped /\ sig # "CONT" /\ ~(sig = "TSTP" /\ "CONT" \in arriving)
    <3>1. arriving \subseteq arriving'
      BY <1>1, <2>5 DEF Cancelled
    <3> QED BY <1>1, <1>2, <2>1, <2>5, <3>1 DEF UnderWay
  <2> QED BY <2>2, <2>3, <2>4, <2>5
<1>5. HiddenOK'
  BY <1>1, <1>4 DEF Inv, HiddenOK
<1> QED BY <1>1, <1>2, <1>3, <1>5, AsideStep DEF Inv, TypeInv

LEMMA DeliverStep == ASSUME Inv, NEW sig \in Signal, Deliver(sig), UNCHANGED childVars PROVE Inv'
<1> DEFINE f == [sig |-> sig, step |-> "entry"]
<1>1. /\ UNCHANGED <<thread, flags, installed, stopped, terminal>>
      /\ ~stopped /\ sig \in arriving /\ sig \notin Running
      /\ arriving' = arriving \ {sig} /\ frames' = <<f>> \o frames
  BY DEF Deliver, Deliverable, Blocked
<1>2. f \in Frame /\ f.sig = sig /\ f.step = "entry"
  BY DEF Frame, Step
<1> HIDE DEF f
<1>3. frames' \in Seq(Frame) /\ Frames' = Frames \cup {f} /\ OneEach'
  BY <1>1, <1>2, Pushed DEF Inv, TypeInv
<1>4. KeptOut'
  <2>1. installed
    BY <1>1 DEF Inv, KeptOut
  <2>2. UNCHANGED <<pc, signals_allowed, installed, stopped>>
    BY <1>1 DEF thread, flags
  <2> QED BY <1>1, <1>2, <1>3, <2>1, <2>2 DEF Inv, KeptOut, flags
<1>5. UnderWay => UnderWay'
  <2>1. sig = "CONT" => [sig |-> "CONT", step |-> "entry"] \in Frames'
    BY <1>3 DEF f
  <2>2. sig = "TSTP" => [sig |-> "TSTP", step |-> "entry"] \in Frames'
    BY <1>3 DEF f
  <2> QED BY <1>1, <1>2, <1>3, <2>1, <2>2 DEF UnderWay, thread, flags
<1>6. HiddenOK'
  BY <1>1, <1>5 DEF Inv, HiddenOK, flags, terminal
<1> QED BY <1>1, <1>3, <1>4, <1>6, AsideStep DEF Inv, TypeInv, flags, terminal

(* A handler returns ...                                                   *)
LEMMA PopStep ==
  ASSUME Inv, NEW sig, NEW step, HandlerRuns(sig, step), Return,
         UNCHANGED <<thread, signals_allowed, refresh_at_SIGCONT, installed, arriving, stopped, terminal, childVars>>,
         requested' \subseteq Signal \ {"CONT"},
         \/ step = "finish" \/ sig = "ALRM"
         \/ sig = "CONT" /\ ~refresh_at_SIGCONT
         \/ ~signals_allowed /\ step = "entry" /\ sig # "CONT"
  PROVE  Inv'
<1>1. frames' \in Seq(Frame) /\ Frames' \subseteq Frames /\ OneEach'
      /\ Frames \subseteq Frames' \cup {[sig |-> sig, step |-> step]}
      /\ frames # <<>>
  BY HeadRuns, Popped DEF Return, Inv
<1>2. KeptOut'
  BY <1>1, NoFrames DEF Inv, KeptOut, thread
<1>3. HiddenOK'
  <2>1. CASE sig = "CONT" /\ ~refresh_at_SIGCONT
    BY <2>1 DEF HiddenOK
  <2>2. CASE step = "finish" \/ sig = "ALRM" \/ (~signals_allowed /\ step = "entry" /\ sig # "CONT")
    <3>1. [sig |-> "CONT", step |-> "entry"] \in Frames => [sig |-> "CONT", step |-> "entry"] \in Frames'
      BY <1>1, <2>2
    <3>2. [sig |-> "TSTP", step |-> "stop"] \in Frames => [sig |-> "TSTP", step |-> "stop"] \in Frames'
      BY <1>1, <2>2
    <3>3. signals_allowed /\ [sig |-> "TSTP", step |-> "entry"] \in Frames
          => [sig |-> "TSTP", step |-> "entry"] \in Frames'
      BY <1>1, <2>2
    <3>4. (\A f \in Frames : f.sig # "CONT") => \A f \in Frames' : f.sig # "CONT"
      BY <1>1
    <3>5. UnderWay => UnderWay'
      BY <3>1, <3>2, <3>3, <3>4 DEF UnderWay, thread
    <3> QED BY <3>5 DEF Inv, HiddenOK, terminal
  <2> QED BY <2>1, <2>2
<1> QED BY <1>1, <1>2, <1>3, AsideStep DEF Inv, TypeInv, terminal

(* ... or goes on, which but for SIGCONT's it does only if signals are     *)
(* allowed.                                                                *)
LEMMA ToStep ==
  ASSUME Inv, NEW sig, NEW step, NEW next \in Step, HandlerRuns(sig, step), To(next),
         UNCHANGED <<thread, signals_allowed, requested, installed, childVars>>,
         \/ signals_allowed
         \/ /\ refresh_at_SIGCONT' = refresh_at_SIGCONT
            /\ step # "entry" \/ (sig = "CONT" /\ refresh_at_SIGCONT),
         refresh_at_SIGCONT' \in BOOLEAN, stopped' \in BOOLEAN, stale' \in BOOLEAN,
         mode' \in {"canonic", "noncanonic"},
         arriving' \subseteq arriving, stopped' => signals_allowed,
         \/ next = "stop" /\ sig = "TSTP"
         \/ stopped' \/ mode' = "noncanonic"
         \/ /\ UNCHANGED <<refresh_at_SIGCONT, mode, arriving, stopped>>
            /\ step = "draw" \/ sig = "WINCH"
  PROVE  Inv'
<1>1. /\ frames' \in Seq(Frame) /\ OneEach' /\ frames # <<>> /\ [sig |-> sig, step |-> step] \in Frames
      /\ Frames' \subseteq Frames \cup {[sig |-> sig, step |-> next]}
      /\ [sig |-> sig, step |-> next] \in Frames'
      /\ Frames \subseteq Frames' \cup {[sig |-> sig, step |-> step]}
  BY HeadRuns, Replaced DEF Inv
<1>2. installed
  BY <1>1 DEF Inv, KeptOut
<1>3. ~signals_allowed => /\ sig = "CONT" /\ refresh_at_SIGCONT
                          /\ refresh_at_SIGCONT' = refresh_at_SIGCONT
  BY <1>1 DEF Inv, KeptOut
<1>4. pc \in Quiet => ~signals_allowed
  BY DEF Inv, WhereOK, Quiet, Servicing, InSystem
<1>5. KeptOut'
  <2>1. ~signals_allowed =>
             /\ \A f \in Frames' : f.step = "entry" \/ (f.sig = "CONT" /\ refresh_at_SIGCONT')
             /\ ~stopped'
    BY <1>1, <1>3 DEF Inv, KeptOut
  <2> QED BY <1>2, <1>4, <2>1 DEF KeptOut, thread
<1>6. HiddenOK'
  <2>1. CASE next = "stop" /\ sig = "TSTP"
    BY <1>1, <2>1 DEF HiddenOK, UnderWay
  <2>2. CASE stopped' \/ mode' = "noncanonic"
    BY <2>2 DEF HiddenOK, UnderWay
  <2>3. CASE /\ UNCHANGED <<refresh_at_SIGCONT, mode, arriving, stopped>>
             /\ step = "draw" \/ sig = "WINCH"
    <3>1. \A g \in Frames : g.step # "draw" /\ g.sig # "WINCH" => g \in Frames'
      BY <1>1, <2>3
    <3>2. /\ [sig |-> "CONT", step |-> "entry"] \in Frames => [sig |-> "CONT", step |-> "entry"] \in Frames'
          /\ [sig |-> "TSTP", step |-> "stop"] \in Frames => [sig |-> "TSTP", step |-> "stop"] \in Frames'
          /\ [sig |-> "TSTP", step |-> "entry"] \in Frames => [sig |-> "TSTP", step |-> "entry"] \in Frames'
      BY <3>1
    <3>3. (\A f \in Frames : f.sig # "CONT") => \A f \in Frames' : f.sig # "CONT"
      BY <1>1
    <3> QED BY <2>3, <3>2, <3>3 DEF Inv, HiddenOK, UnderWay, thread
  <2> QED BY <2>1, <2>2, <2>3
<1> QED BY <1>1, <1>5, <1>6, AsideStep DEF Inv, TypeInv

LEMMA HandleStep == ASSUME Inv, NEW sig \in Signal, Handling(sig) PROVE Inv'
<1>0. UNCHANGED childVars /\ Handle(sig)
  BY DEF Handling
<1>1. CASE Deliver(sig)
  BY <1>0, <1>1, DeliverStep
<1>2. CASE Postpone(sig)
  <2>1. requested' \subseteq Signal \ {"CONT"}
    BY <1>2 DEF Postpone, Inv, TypeInv
  <2> QED BY <1>0, <1>2, <2>1, PopStep DEF Postpone
<1>3. CASE Finish(sig)
  <2>1. requested' \subseteq Signal \ {"CONT"}
    BY <1>3 DEF Finish, Inv, TypeInv
  <2> QED BY <1>0, <1>3, <2>1, PopStep DEF Finish
<1>4. CASE Tick
  <2>1. requested' \subseteq Signal \ {"CONT"}
    BY <1>4 DEF Tick, Inv, TypeInv
  <2> QED BY <1>0, <1>4, <2>1, PopStep DEF Tick
<1>5. CASE ResumeNothing
  <2>1. requested' \subseteq Signal \ {"CONT"}
    BY <1>5 DEF ResumeNothing, flags, Inv, TypeInv
  <2> QED BY <1>0, <1>5, <2>1, PopStep DEF ResumeNothing, flags
<1>6. CASE Drawn(sig)
  <2>1. "finish" \in Step /\ ~stopped /\ ~stopped'
    BY <1>6 DEF Step, Drawn, HandlerRuns
  <2> QED BY <1>0, <1>6, <2>1, ToStep DEF Drawn, flags, terminal, Inv, TypeInv
<1>7. CASE Suspend
  <2>1. "stop" \in Step /\ ~stopped /\ ~stopped'
    BY <1>7 DEF Step, Suspend, HandlerRuns
  <2>2. refresh_at_SIGCONT' \in BOOLEAN
    BY <1>7 DEF Suspend
  <2> QED BY <1>0, <1>7, <2>1, <2>2, ToStep DEF Suspend, Inv, TypeInv
<1>8. CASE SuspendStop
  <2>1. "finish" \in Step /\ arriving' \subseteq arriving
    BY <1>8 DEF Step, SuspendStop
  <2>2. signals_allowed
    <3>1. [sig |-> "TSTP", step |-> "stop"] \in Frames
      BY <1>8, HeadRuns DEF SuspendStop, Inv
    <3> QED BY <3>1 DEF Inv, KeptOut
  <2> QED BY <1>0, <1>8, <2>1, <2>2, ToStep DEF SuspendStop, flags, terminal, Inv, TypeInv
<1>9. CASE Redraw
  <2>1. "draw" \in Step /\ ~stopped /\ ~stopped'
    BY <1>9 DEF Step, Redraw, HandlerRuns
  <2> QED BY <1>0, <1>9, <2>1, ToStep DEF Redraw, flags, Inv, TypeInv
<1>10. CASE Resume
  <2>1. "draw" \in Step /\ ~stopped /\ ~stopped'
    BY <1>10 DEF Step, Resume, HandlerRuns
  <2> QED BY <1>0, <1>10, <2>1, ToStep DEF Resume, flags, Inv, TypeInv
<1> QED BY <1>0, <1>1, <1>2, <1>3, <1>4, <1>5, <1>6, <1>7, <1>8, <1>9, <1>10 DEF Handle


-----------------------------------------------------------------------------
(* What the thread does while no handler runs.  It leaves the stack alone, *)
(* and it hides the screen only to stop.                                   *)
LEMMA GoOnStep ==
  ASSUME Inv, ThreadRuns, UNCHANGED <<frames, arriving, stopped, refresh_at_SIGCONT>>,
         pc # "stop", pc' = "stop" \/ mode' = mode \/ mode' = "noncanonic",
         TypeInv', WhereOK', MovedOK', LogsOK'
  PROVE  Inv'
<1>1. frames' = <<>> /\ frames = <<>> /\ arriving' = {} /\ arriving = {} /\ ~stopped' /\ ~stopped
  BY DEF ThreadRuns
<1>2. Frames' = {} /\ Frames = {} /\ OneEach'
  BY <1>1 DEF Frames, OneEach
<1>3. KeptOut'
  BY <1>1, <1>2 DEF KeptOut
<1>4. HiddenOK'
  <2>1. ~UnderWay
    BY <1>1, <1>2 DEF UnderWay
  <2> QED BY <2>1 DEF Inv, HiddenOK, UnderWay
<1> QED BY <1>2, <1>3, <1>4 DEF Inv

LEMMA ServiceStopStep == ASSUME Inv, ServiceStop, UNCHANGED childVars PROVE Inv'
<1>1. /\ frames' = <<>> /\ arriving' = {} /\ stopped' /\ pc = "stop" /\ pc' = "stopped"
      /\ UNCHANGED <<back, signals_allowed, requested, refresh_at_SIGCONT, installed, mode, stale>>
  BY DEF ServiceStop, ThreadRuns, flags, terminal
<1>2. Frames' = {} /\ OneEach' /\ frames' \in Seq(Frame)
  BY <1>1 DEF Frames, OneEach
<1>3. TypeInv'
  BY <1>1, <1>2 DEF ServiceStop, Inv, TypeInv, childVars, locals
<1>4. WhereOK'
  BY <1>1 DEF Inv, WhereOK, Quiet, Servicing, InSystem, childVars
<1>5. installed'
  BY <1>1 DEF Inv, WhereOK, InSystem
<1>6. KeptOut'
  BY <1>1, <1>2, <1>5 DEF KeptOut, Quiet
<1>7. HiddenOK'
  BY <1>1 DEF HiddenOK, UnderWay
<1>8. MovedOK' /\ LogsOK'
  BY <1>1 DEF Inv, MovedOK, LogsOK, childVars, locals
<1> QED BY <1>2, <1>3, <1>4, <1>6, <1>7, <1>8 DEF Inv

(* Requests are serviced, and files read, between two commands.            *)
LEMMA ServingStep == ASSUME Inv, Serving \/ Reading PROVE Inv'
<1>0. UNCHANGED <<fds, old_out, old_err, log_out, log_err, logs, hide, status>>
  BY DEF Serving, Reading, childVars, locals
<1>1. CASE ServiceStop
  BY <1>0, <1>1, ServiceStopStep DEF childVars, locals
<1> DEFINE Elsewhere == {"command", "getc", "transfer", "reading", "my_system"} \cup Servicing
<1>2. CASE ~ServiceStop
  <2>1. /\ ThreadRuns /\ UNCHANGED <<frames, arriving, stopped, refresh_at_SIGCONT, installed>>
        /\ requested' \subseteq requested
        /\ pc # "stop" /\ (pc' = "stop" \/ mode' = mode)
        /\ mode' \in {mode, "canonic"} /\ stale' \in {stale, FALSE}
    BY <1>2 DEF Serving, Reading, Service, ServiceSuspend, ServiceSuspendDone, ServiceRefresh,
       ServiceRefreshDone, ServiceNothing, Check, Buffered, StartRead, StartTransfer, Transferred,
       KeyRead, Call, GoBack, flags, kernel, terminal
  <2>2. /\ pc \in {"command", "getc", "transfer", "reading"} \cup Servicing
        /\ \/ /\ pc \in Servicing /\ pc' \in Servicing /\ back' = back /\ signals_allowed' = signals_allowed
           \/ /\ pc \in Servicing /\ pc' = back /\ back' = "command" /\ signals_allowed' = signals_allowed
           \/ /\ pc \in {"command", "getc"} /\ pc' = "service"
              /\ back' \in {"command", "getc"} /\ signals_allowed' = signals_allowed
           \/ /\ pc \in {"command", "getc"} /\ pc' = "service"
              /\ back' \in {"transfer", "reading"} /\ signals_allowed' = TRUE
           \/ /\ pc \in {"transfer", "reading"} /\ pc' = "command" /\ back' = back /\ signals_allowed' = FALSE
           \/ /\ pc = "getc" /\ pc' = "command" /\ back' = back /\ signals_allowed' = signals_allowed
    BY <1>2 DEF Serving, Reading, Service, ServiceSuspend, ServiceSuspendDone, ServiceRefresh,
       ServiceRefreshDone, ServiceNothing, Check, Buffered, StartRead, StartTransfer, Transferred,
       KeyRead, Call, GoBack, flags, Servicing
  <2>3. TypeInv'
    <3>1. signals_allowed' \in BOOLEAN
      BY <2>2 DEF Inv, TypeInv
    <3> QED BY <1>0, <2>1, <3>1 DEF Inv, TypeInv
  <2>4. WhereOK'
    BY <1>0, <2>1, <2>2 DEF Inv, TypeInv, WhereOK, Quiet, Servicing, InSystem
  <2>5. /\ pc \notin {"open_logs", "give_up", "fork", "lost", "wait", "return"}
        /\ pc' \notin {"open_logs", "give_up", "fork", "lost", "wait", "return", "started", "report"}
    BY <2>2 DEF Inv, WhereOK, Servicing
  <2>6. MovedOK' /\ LogsOK'
    BY <1>0, <2>5 DEF Inv, MovedOK, LogsOK
  <2> QED BY <2>1, <2>3, <2>4, <2>6, GoOnStep
<1> QED BY <1>1, <1>2


-----------------------------------------------------------------------------
(* The descriptors that are free and those that dup takes.                 *)
LEMMA LowestIs ==
  ASSUME NEW t, NEW k \in Fd, t[k] = "closed", \A f \in Fd : f < k => t[f] # "closed"
  PROVE  Lowest(t) = k
<1> DEFINE S == {f \in Fd : t[f] = "closed"}
<1>1. k \in S /\ \A f \in S : k <= f /\ f \in Int
  BY DEF Fd
<1>2. \A x \in S : (\A y \in S : x <= y) => x = k
  BY <1>1 DEF Fd
<1>3. Lowest(t) = CHOOSE x \in S : \A y \in S : x <= y
  BY DEF Lowest, Min
<1> HIDE DEF S
<1> QED BY <1>1, <1>2, <1>3

LEMMA InitTable == InitFds = Table("stdout", "stderr", "closed", "closed")
BY DEF InitFds, Table, Fd

LEMMA TableAt ==
  ASSUME NEW one, NEW two, NEW three, NEW four
  PROVE  /\ Table(one, two, three, four)[0] = "stdin" /\ Table(one, two, three, four)[1] = one
         /\ Table(one, two, three, four)[2] = two /\ Table(one, two, three, four)[3] = three
         /\ Table(one, two, three, four)[4] = four
         /\ 0 \in Fd /\ 1 \in Fd /\ 2 \in Fd /\ 3 \in Fd /\ 4 \in Fd
BY DEF Table, Fd

LEMMA TableSet ==
  ASSUME NEW one, NEW two, NEW three, NEW four, NEW x
  PROVE  /\ [Table(one, two, three, four) EXCEPT ![1] = x] = Table(x, two, three, four)
         /\ [Table(one, two, three, four) EXCEPT ![2] = x] = Table(one, x, three, four)
         /\ [Table(one, two, three, four) EXCEPT ![3] = x] = Table(one, two, x, four)
         /\ [Table(one, two, three, four) EXCEPT ![4] = x] = Table(one, two, three, x)
<1>1. [Table(one, two, three, four) EXCEPT ![1] = x] = Table(x, two, three, four)
  <2>1. ASSUME NEW f \in Fd PROVE [Table(one, two, three, four) EXCEPT ![1] = x][f] = Table(x, two, three, four)[f]
    BY DEF Table, Fd
  <2> QED BY <2>1 DEF Table
<1>2. [Table(one, two, three, four) EXCEPT ![2] = x] = Table(one, x, three, four)
  <2>1. ASSUME NEW f \in Fd PROVE [Table(one, two, three, four) EXCEPT ![2] = x][f] = Table(one, x, three, four)[f]
    BY DEF Table, Fd
  <2> QED BY <2>1 DEF Table
<1>3. [Table(one, two, three, four) EXCEPT ![3] = x] = Table(one, two, x, four)
  <2>1. ASSUME NEW f \in Fd PROVE [Table(one, two, three, four) EXCEPT ![3] = x][f] = Table(one, two, x, four)[f]
    BY DEF Table, Fd
  <2> QED BY <2>1 DEF Table
<1>4. [Table(one, two, three, four) EXCEPT ![4] = x] = Table(one, two, three, x)
  <2>1. ASSUME NEW f \in Fd PROVE [Table(one, two, three, four) EXCEPT ![4] = x][f] = Table(one, two, three, x)[f]
    BY DEF Table, Fd
  <2> QED BY <2>1 DEF Table
<1> QED BY <1>1, <1>2, <1>3, <1>4

LEMMA TableLowest ==
  ASSUME NEW one, NEW two, NEW three, NEW four
  PROVE  /\ Lowest(Table("closed", two, three, four)) = 1
         /\ one # "closed" => Lowest(Table(one, "closed", three, four)) = 2
         /\ one # "closed" /\ two # "closed" => Lowest(Table(one, two, "closed", four)) = 3
         /\ one # "closed" /\ two # "closed" /\ three # "closed"
              => Lowest(Table(one, two, three, "closed")) = 4
<1>1. /\ \A f \in Fd : f < 1 => f = 0
      /\ \A f \in Fd : f < 2 => f = 0 \/ f = 1
      /\ \A f \in Fd : f < 3 => f = 0 \/ f = 1 \/ f = 2
      /\ \A f \in Fd : f < 4 => f = 0 \/ f = 1 \/ f = 2 \/ f = 3
      /\ 1 \in Fd /\ 2 \in Fd /\ 3 \in Fd /\ 4 \in Fd
  BY DEF Fd
<1>2. Lowest(Table("closed", two, three, four)) = 1
  <2> DEFINE t == Table("closed", two, three, four)
  <2>1. t[1] = "closed" /\ t[0] = "stdin"
    BY TableAt
  <2> HIDE DEF t
  <2>2. Lowest(t) = 1
    BY <1>1, <2>1, LowestIs
  <2> QED BY <2>2 DEF t
<1>3. ASSUME one # "closed" PROVE Lowest(Table(one, "closed", three, four)) = 2
  <2> DEFINE t == Table(one, "closed", three, four)
  <2>1. t[2] = "closed" /\ t[0] = "stdin" /\ t[1] = one
    BY TableAt
  <2> HIDE DEF t
  <2>2. Lowest(t) = 2
    BY <1>1, <1>3, <2>1, LowestIs
  <2> QED BY <2>2 DEF t
<1>4. ASSUME one # "closed", two # "closed" PROVE Lowest(Table(one, two, "closed", four)) = 3
  <2> DEFINE t == Table(one, two, "closed", four)
  <2>1. t[3] = "closed" /\ t[0] = "stdin" /\ t[1] = one /\ t[2] = two
    BY TableAt
  <2> HIDE DEF t
  <2>2. Lowest(t) = 3
    BY <1>1, <1>4, <2>1, LowestIs
  <2> QED BY <2>2 DEF t
<1>5. ASSUME one # "closed", two # "closed", three # "closed" PROVE Lowest(Table(one, two, three, "closed")) = 4
  <2> DEFINE t == Table(one, two, three, "closed")
  <2>1. t[4] = "closed" /\ t[0] = "stdin" /\ t[1] = one /\ t[2] = two /\ t[3] = three
    BY TableAt
  <2> HIDE DEF t
  <2>2. Lowest(t) = 4
    BY <1>1, <1>5, <2>1, LowestIs
  <2> QED BY <2>2 DEF t
<1> QED BY <1>2, <1>3, <1>4, <1>5

(* remove_log ... close: the output is saved in 3 and 4.                   *)
LEMMA Saved ==
  /\ Lowest(InitFds) = 3
  /\ Lowest(Dup(InitFds, 1)) = 4
  /\ Close(Dup(Dup(InitFds, 1), 2), {1, 2}) = Table("closed", "closed", "stdout", "stderr")
<1> DEFINE t == Table("stdout", "stderr", "closed", "closed")
           u == Table("stdout", "stderr", "stdout", "closed")
           v == Table("stdout", "stderr", "stdout", "stderr")
<1>1. Lowest(InitFds) = 3
  BY InitTable, TableLowest
<1>2. Dup(InitFds, 1) = u
  <2>1. t[1] = "stdout" /\ [t EXCEPT ![3] = "stdout"] = u
    BY TableAt, TableSet
  <2> QED BY <1>1, <2>1, InitTable DEF Dup
<1>3. Lowest(Dup(InitFds, 1)) = 4
  <2>1. Lowest(u) = 4
    BY TableLowest
  <2> QED BY <1>2, <2>1
<1>4. Dup(Dup(InitFds, 1), 2) = v
  <2>1. u[2] = "stderr" /\ [u EXCEPT ![4] = "stderr"] = v
    BY TableAt, TableSet
  <2> QED BY <1>2, <1>3, <2>1 DEF Dup
<1>5. Close(Table("stdout", "stderr", "stdout", "stderr"), {1, 2}) = Table("closed", "closed", "stdout", "stderr")
  BY DEF Close, Table, Fd
<1> QED BY <1>1, <1>3, <1>4, <1>5

(* However far the log files got, closing them leaves 1 and 2 to dup.      *)
LEMMA RestoredIsInit ==
  ASSUME NEW one, NEW two, fds = Table(one, two, "stdout", "stderr"),
         one = "closed" \/ 1 \in {log_out, log_err}, two = "closed" \/ 2 \in {log_out, log_err},
         {log_out, log_err} \subseteq {None, 1, 2}, old_out = 3, old_err = 4
  PROVE  Restored = InitFds
<1>1. Close(fds, {log_out, log_err}) = Table("closed", "closed", "stdout", "stderr")
  BY DEF Close, Table, Fd, None
<1>2. Dup(Table("closed", "closed", "stdout", "stderr"), 3) = Table("stdout", "closed", "stdout", "stderr")
  BY TableLowest, TableAt, TableSet DEF Dup
<1>3. Dup(Table("stdout", "closed", "stdout", "stderr"), 4) = Table("stdout", "stderr", "stdout", "stderr")
  <2> DEFINE t == Table("stdout", "closed", "stdout", "stderr")
  <2>1. Lowest(t) = 2
    BY TableLowest
  <2>2. t[4] = "stderr" /\ [t EXCEPT ![2] = "stderr"] = Table("stdout", "stderr", "stdout", "stderr")
    BY TableAt, TableSet
  <2> QED BY <2>1, <2>2 DEF Dup
<1>4. Close(Table("stdout", "stderr", "stdout", "stderr"), {3, 4}) = Table("stdout", "stderr", "closed", "closed")
  BY DEF Close, Table, Fd
<1> QED BY <1>1, <1>2, <1>3, <1>4, InitTable DEF Restored


-----------------------------------------------------------------------------
(* start() and my_system(), from the command to the next key.              *)
LEMMA StartStep == ASSUME Inv, Start \/ ChildEnds PROVE Inv'
<1> USE DEF Quiet, Servicing, InSystem
<1>t. TypeInv /\ WhereOK /\ MovedOK /\ LogsOK
  BY DEF Inv
<1>1. CASE StartHidden
  <2>0. /\ ThreadRuns /\ pc = "command" /\ pc' = "service" /\ back' = "my_system"
        /\ signals_allowed' = TRUE /\ hide' = TRUE
        /\ UNCHANGED <<requested, refresh_at_SIGCONT, installed, frames, arriving, stopped, mode, stale,
                       fds, old_out, old_err, log_out, log_err, logs, status>>
    BY <1>1 DEF StartHidden, Call, kernel, terminal, locals
  <2>1. TypeInv'
    BY <1>t, <2>0 DEF TypeInv
  <2>2. WhereOK'
    BY <1>t, <2>0 DEF WhereOK
  <2>3. MovedOK' /\ LogsOK'
    BY <1>t, <2>0 DEF MovedOK, LogsOK
  <2> QED BY <2>0, <2>1, <2>2, <2>3, GoOnStep
<1>2. CASE StartShown
  <2>0. /\ ThreadRuns /\ pc = "command" /\ pc' = "my_system" /\ installed' = FALSE /\ hide' = FALSE
        /\ UNCHANGED <<back, signals_allowed, requested, refresh_at_SIGCONT, frames, arriving, stopped, mode,
                       stale, fds, old_out, old_err, log_out, log_err, logs, status>>
    BY <1>2 DEF StartShown, GoOn, flags, kernel, terminal, locals
  <2>1. TypeInv'
    BY <1>t, <2>0 DEF TypeInv
  <2>2. WhereOK'
    BY <1>t, <2>0 DEF WhereOK
  <2>3. MovedOK' /\ LogsOK'
    BY <1>t, <2>0 DEF MovedOK, LogsOK
  <2> QED BY <2>0, <2>1, <2>2, <2>3, GoOnStep
<1> DEFINE Aside0 == /\ ThreadRuns
                     /\ UNCHANGED <<back, signals_allowed, requested, refresh_at_SIGCONT, installed,
                                    frames, arriving, stopped, mode, stale, hide>>
<1>3. CASE SaveOutput
  <2>0. Aside0 /\ pc = "my_system" /\ logs' = {} /\ status' = status /\ fds = InitFds
    BY <1>3, <1>t DEF SaveOutput, GoOn, Aside, flags, kernel, terminal, MovedOK
  <2>1. CASE ~hide
    <3>0. pc' = "fork" /\ UNCHANGED <<fds, old_out, old_err, log_out, log_err>>
      BY <1>3, <2>1 DEF SaveOutput, GoOn, locals
    <3>1. TypeInv'
      BY <1>t, <2>0, <3>0 DEF TypeInv
    <3>2. WhereOK'
      BY <1>t, <2>0, <2>1, <3>0 DEF WhereOK
    <3>3. MovedOK' /\ LogsOK'
      BY <2>0, <2>1, <3>0 DEF MovedOK, LogsOK
    <3> QED BY <2>0, <3>0, <3>1, <3>2, <3>3, GoOnStep
  <2>2. CASE hide
    <3>0. /\ pc' = "open_logs" /\ log_out' = log_out /\ log_err' = log_err
          /\ old_out' = 3 /\ old_err' = 4
          /\ fds' = Table("closed", "closed", "stdout", "stderr")
      BY <1>3, <2>0, <2>2, Saved DEF SaveOutput, GoOn
    <3>1. TypeInv'
      <4>1. fds' \in [Fd -> {"stdin", "stdout", "stderr", "out_log", "err_log", "closed"}]
        BY <3>0 DEF Table
      <4>2. 3 \in Fd /\ 4 \in Fd
        BY DEF Fd
      <4> QED BY <1>t, <2>0, <3>0, <4>1, <4>2 DEF TypeInv
    <3>2. WhereOK'
      BY <1>t, <2>0, <2>2, <3>0 DEF WhereOK
    <3>3. MovedOK' /\ LogsOK'
      BY <2>0, <2>2, <3>0 DEF MovedOK, LogsOK
    <3> QED BY <2>0, <3>0, <3>1, <3>2, <3>3, GoOnStep
  <2> QED BY <1>t, <2>1, <2>2 DEF TypeInv
<1>4. ASSUME NEW opened \in SUBSET {"out_log", "err_log"}, OpenLogs(opened) PROVE Inv'
  <2> DEFINE out == "out_log" \in opened
             err == "err_log" \in opened
             t == IF out THEN OpenLog(fds, "out_log") ELSE fds
             u == IF err THEN OpenLog(t, "err_log") ELSE t
  <2>0. /\ Aside0 /\ pc = "open_logs" /\ pc' = IF out /\ err THEN "fork" ELSE "give_up"
        /\ log_out' = (IF out THEN Lowest(fds) ELSE None) /\ log_err' = (IF err THEN Lowest(t) ELSE None)
        /\ fds' = u /\ logs' = opened
        /\ UNCHANGED <<old_out, old_err, status>>
    BY <1>4 DEF OpenLogs, GoOn, Aside, flags, kernel, terminal
  <2>1. fds = Table("closed", "closed", "stdout", "stderr") /\ old_out = 3 /\ old_err = 4 /\ hide
    BY <1>t, <2>0 DEF MovedOK, WhereOK
  <2>2. Lowest(fds) = 1 /\ OpenLog(fds, "out_log") = Table("out_log", "closed", "stdout", "stderr")
        /\ OpenLog(fds, "err_log") = Table("err_log", "closed", "stdout", "stderr")
    BY <2>1, TableLowest, TableSet DEF OpenLog
  <2>3. /\ Lowest(Table("out_log", "closed", "stdout", "stderr")) = 2
        /\ OpenLog(Table("out_log", "closed", "stdout", "stderr"), "err_log")
             = Table("out_log", "err_log", "stdout", "stderr")
    <3>1. Lowest(Table("out_log", "closed", "stdout", "stderr")) = 2
      <4>1. "out_log" # "closed"
        OBVIOUS
      <4> QED BY <4>1, TableLowest
    <3>2. [Table("out_log", "closed", "stdout", "stderr") EXCEPT ![2] = "err_log"]
            = Table("out_log", "err_log", "stdout", "stderr")
      BY TableSet
    <3> QED BY <3>1, <3>2 DEF OpenLog
  <2>4. /\ log_out' = IF out THEN 1 ELSE None
        /\ log_err' = IF err THEN (IF out THEN 2 ELSE 1) ELSE None
        /\ fds' = IF err THEN IF out THEN Table("out_log", "err_log", "stdout", "stderr")
                                     ELSE Table("err_log", "closed", "stdout", "stderr")
                         ELSE IF out THEN Table("out_log", "closed", "stdout", "stderr")
                                     ELSE Table("closed", "closed", "stdout", "stderr")
    BY <2>0, <2>1, <2>2, <2>3
  <2>5. TypeInv'
    <3>1. fds' \in [Fd -> {"stdin", "stdout", "stderr", "out_log", "err_log", "closed"}]
      BY <2>4 DEF Table
    <3>2. 1 \in Fd /\ 2 \in Fd /\ log_out' \in Fd \cup {None} /\ log_err' \in Fd \cup {None}
      BY <2>4 DEF Fd
    <3> QED BY <1>t, <2>0, <3>1, <3>2 DEF TypeInv
  <2>6. WhereOK'
    BY <1>t, <2>0, <2>1 DEF WhereOK
  <2>7. MovedOK' /\ LogsOK'
    BY <2>0, <2>1, <2>4 DEF MovedOK, LogsOK
  <2> QED BY <2>0, <2>5, <2>6, <2>7, GoOnStep
<1>5. CASE GiveUp
  <2>0. /\ Aside0 /\ pc = "give_up" /\ pc' = "return" /\ logs' = {} /\ status' = "none" /\ fds' = Restored
        /\ UNCHANGED <<old_out, old_err, log_out, log_err>>
    BY <1>5 DEF GiveUp, GoOn, Aside, flags, kernel, terminal, locals
  <2>1. fds' = InitFds
    <3>1. old_out = 3 /\ old_err = 4
      BY <1>t, <2>0 DEF MovedOK
    <3>2. CASE fds = Table("closed", "closed", "stdout", "stderr") /\ log_out = None /\ log_err = None
      BY <2>0, <3>1, <3>2, RestoredIsInit
    <3>3. CASE fds = Table("out_log", "closed", "stdout", "stderr") /\ log_out = 1 /\ log_err = None
      BY <2>0, <3>1, <3>3, RestoredIsInit
    <3>4. CASE fds = Table("err_log", "closed", "stdout", "stderr") /\ log_out = None /\ log_err = 1
      BY <2>0, <3>1, <3>4, RestoredIsInit
    <3> QED BY <1>t, <2>0, <3>2, <3>3, <3>4 DEF MovedOK
  <2>2. TypeInv'
    BY <1>t, <2>0, <2>1, InitTable DEF TypeInv, Table
  <2>3. WhereOK'
    BY <1>t, <2>0 DEF WhereOK
  <2>4. MovedOK' /\ LogsOK'
    BY <1>t, <2>0, <2>1 DEF MovedOK, LogsOK
  <2> QED BY <2>0, <2>2, <2>3, <2>4, GoOnStep
<1>6. CASE Fork
  <2>0. /\ Aside0 /\ pc = "fork" /\ pc' = "wait" /\ fds' = IF hide THEN Restored ELSE fds
        /\ UNCHANGED <<old_out, old_err, log_out, log_err, logs, status>>
    BY <1>6 DEF Fork, GoOn, Aside, flags, kernel, terminal, locals
  <2>1. fds' = InitFds
    <3>1. CASE hide
      <4>1. /\ old_out = 3 /\ old_err = 4 /\ log_out = 1 /\ log_err = 2
            /\ fds = Table("out_log", "err_log", "stdout", "stderr")
        BY <1>t, <2>0, <3>1 DEF MovedOK
      <4> QED BY <2>0, <3>1, <4>1, RestoredIsInit
    <3> QED BY <1>t, <2>0, <3>1 DEF MovedOK
  <2>2. TypeInv'
    BY <1>t, <2>0, <2>1, InitTable DEF TypeInv, Table
  <2>3. WhereOK'
    BY <1>t, <2>0 DEF WhereOK
  <2>4. MovedOK' /\ LogsOK'
    BY <1>t, <2>0, <2>1 DEF MovedOK, LogsOK
  <2> QED BY <2>0, <2>2, <2>3, <2>4, GoOnStep
<1>7. CASE ForkFails
  <2>0. /\ Aside0 /\ pc = "fork" /\ pc' = (IF hide THEN "lost" ELSE "return") /\ status' = "none"
        /\ UNCHANGED <<fds, old_out, old_err, log_out, log_err, logs>>
    BY <1>7 DEF ForkFails, GoOn, Aside, flags, kernel, terminal, locals
  <2>1. TypeInv'
    BY <1>t, <2>0 DEF TypeInv
  <2>2. WhereOK'
    BY <1>t, <2>0 DEF WhereOK
  <2>3. MovedOK' /\ LogsOK'
    BY <1>t, <2>0 DEF MovedOK, LogsOK
  <2> QED BY <2>0, <2>1, <2>2, <2>3, GoOnStep
<1>8. CASE ChildEnds
  <2>1. PICK s \in {"ok", "failed", "killed"} : Wait(s)
    BY <1>8 DEF ChildEnds
  <2>2. /\ Aside0 /\ pc = "wait" /\ pc' = "return" /\ status' = s
        /\ UNCHANGED <<fds, old_out, old_err, log_out, log_err, logs>>
    BY <2>1 DEF Wait, GoOn, Aside, flags, kernel, terminal, locals
  <2>3. TypeInv'
    BY <1>t, <2>2 DEF TypeInv
  <2>4. WhereOK'
    BY <1>t, <2>2 DEF WhereOK
  <2>5. MovedOK' /\ LogsOK'
    BY <1>t, <2>2 DEF MovedOK, LogsOK
  <2> QED BY <2>2, <2>3, <2>4, <2>5, GoOnStep
<1>9. CASE StartReturns
  <2>0. /\ ThreadRuns /\ pc = "return" /\ pc' = (IF ~hide THEN "restart" ELSE "started")
        /\ IF hide THEN signals_allowed' = FALSE /\ installed' = installed
                   ELSE installed' = TRUE /\ signals_allowed' = signals_allowed
        /\ old_out' = None /\ old_err' = None /\ log_out' = None /\ log_err' = None /\ hide' = FALSE
        /\ UNCHANGED <<back, requested, refresh_at_SIGCONT, frames, arriving, stopped, mode, stale,
                       fds, logs>>
        /\ status' = IF hide THEN status ELSE "ok"
    BY <1>9 DEF StartReturns, ResultOf, GoOn, kernel, terminal
  <2>1. TypeInv'
    BY <1>t, <2>0 DEF TypeInv
  <2>2. WhereOK'
    BY <1>t, <2>0 DEF WhereOK
  <2>3. MovedOK' /\ LogsOK'
    BY <1>t, <2>0 DEF MovedOK, LogsOK
  <2> QED BY <2>0, <2>1, <2>2, <2>3, GoOnStep
<1>10. CASE Started
  <2>0. /\ Aside0 /\ pc = "started" /\ status' = "ok"
        /\ pc' = "command" \/ pc' = IF status = "failed" THEN "report" ELSE "restart"
        /\ UNCHANGED <<fds, old_out, old_err, log_out, log_err, logs>>
    BY <1>10 DEF Started, GoOn, Aside, flags, kernel, terminal, locals
  <2>1. TypeInv'
    BY <1>t, <2>0 DEF TypeInv
  <2>2. WhereOK'
    BY <1>t, <2>0 DEF WhereOK
  <2>3. MovedOK' /\ LogsOK'
    BY <1>t, <2>0 DEF MovedOK, LogsOK
  <2> QED BY <2>0, <2>1, <2>2, <2>3, GoOnStep
<1>11. CASE Report
  <2>0. /\ Aside0 /\ pc = "report" /\ pc' = "restart"
        /\ UNCHANGED <<fds, old_out, old_err, log_out, log_err, logs, status>>
    BY <1>11 DEF Report, GoOn, Aside, flags, kernel, terminal, childVars, locals
  <2>1. TypeInv'
    BY <1>t, <2>0 DEF TypeInv
  <2>2. WhereOK'
    BY <1>t, <2>0 DEF WhereOK
  <2>3. MovedOK' /\ LogsOK'
    BY <1>t, <2>0 DEF MovedOK, LogsOK
  <2> QED BY <2>0, <2>1, <2>2, <2>3, GoOnStep
<1>12. CASE Restart
  <2>0. /\ ThreadRuns /\ pc = "restart" /\ pc' = "service" /\ back' = "getc"
        /\ mode' = "noncanonic" /\ stale' = FALSE
        /\ UNCHANGED <<signals_allowed, requested, refresh_at_SIGCONT, installed, frames, arriving, stopped,
                       fds, old_out, old_err, log_out, log_err, logs, hide, status>>
    BY <1>12 DEF Restart, Call, flags, kernel, childVars, locals
  <2>1. TypeInv'
    BY <1>t, <2>0 DEF TypeInv
  <2>2. WhereOK'
    BY <1>t, <2>0 DEF WhereOK
  <2>3. MovedOK' /\ LogsOK'
    BY <1>t, <2>0 DEF MovedOK, LogsOK
  <2> QED BY <2>0, <2>1, <2>2, <2>3, GoOnStep
<1> QED BY <1>1, <1>2, <1>3, <1>4, <1>5, <1>6, <1>7, <1>8, <1>9, <1>10, <1>11, <1>12 DEF Start


-----------------------------------------------------------------------------
LEMMA Inductive ==
  /\ Init => Inv
  /\ Inv /\ [Next]_vars => Inv'
<1>1. ASSUME Init PROVE Inv
  <2>1. /\ pc = "command" /\ back = "command" /\ signals_allowed = FALSE /\ requested = {}
        /\ refresh_at_SIGCONT = FALSE /\ installed = TRUE /\ frames = <<>> /\ arriving = {}
        /\ stopped = FALSE /\ mode = "noncanonic" /\ stale = FALSE
        /\ fds = InitFds /\ old_out = None /\ old_err = None /\ log_out = None /\ log_err = None
        /\ logs = {} /\ hide = FALSE /\ status = "ok"
    BY <1>1 DEF Init, SignalsInit
  <2>2. Frames = {} /\ OneEach /\ frames \in Seq(Frame)
    BY <2>1 DEF Frames, OneEach
  <2>3. TypeInv
    BY <2>1, <2>2, InitTable DEF TypeInv, Table
  <2>4. WhereOK /\ KeptOut /\ HiddenOK
    BY <2>1, <2>2 DEF WhereOK, KeptOut, HiddenOK, Quiet, Servicing, InSystem
  <2>5. MovedOK /\ LogsOK
    BY <2>1 DEF MovedOK, LogsOK
  <2> QED BY <2>2, <2>3, <2>4, <2>5 DEF Inv
<1>2. ASSUME Inv, Next PROVE Inv'
  <2>1. CASE Signalling
    BY <1>2, <2>1, ArriveStep DEF Signalling
  <2>2. CASE \E sig \in Signal : Handling(sig)
    BY <1>2, <2>2, HandleStep
  <2>3. CASE Serving \/ Reading
    BY <1>2, <2>3, ServingStep
  <2>4. CASE Start \/ ChildEnds
    BY <1>2, <2>4, StartStep
  <2> QED BY <1>2, <2>1, <2>2, <2>3, <2>4 DEF Next, Thread
<1>3. ASSUME Inv, UNCHANGED vars PROVE Inv'
  BY <1>3 DEF vars, signalVars, childVars, locals, thread, flags, kernel, terminal, Inv, TypeInv, OneEach,
     WhereOK, KeptOut, HiddenOK, UnderWay, Frames, MovedOK, LogsOK
<1> QED BY <1>1, <1>2, <1>3

LEMMA Invariant == Spec => []Inv
BY Inductive, PTL DEF Spec

LEMMA EachRunsOnce ==
  ASSUME frames \in Seq(Frame), OneEach
  PROVE  Cardinality(Running) = Len(frames)
<1> DEFINE S == 1 .. Len(frames)
           b == [i \in S |-> frames[i].sig]
<1>1. Len(frames) \in Nat /\ DOMAIN frames = S
  BY LenProperties
<1>2. b \in [S -> Running] /\ \A s \in Running : \E i \in S : b[i] = s
  BY <1>1 DEF Running
<1>3. \A i, j \in S : b[i] = b[j] => i = j
  BY <1>1 DEF OneEach
<1>4. ExistsBijection(S, Running)
  BY <1>2, <1>3, Fun_IsBij DEF ExistsBijection
<1>5. IsFiniteSet(S) /\ Cardinality(S) = Len(frames)
  BY <1>1, FS_Interval
<1> HIDE DEF S
<1> QED BY <1>4, <1>5, FS_Bijection

(* Handlers and requests stay what signals.c declares, at most one handler *)
(* of a signal runs at a time, and my_system's descriptors are descriptors.*)
THEOREM TypeCorrect == Spec => []TypeOK
<1>1. Inv => TypeOK
  BY EachRunsOnce DEF Inv, TypeInv, TypeOK, SignalsTypeOK, Frame
<1> QED BY <1>1, Invariant, PTL

(* However deeply handlers interrupt one another, none draws or hides the  *)
(* screen in the middle of a command, which is what signals_allowed is     *)
(* for; but resume() does once refresh_at_SIGCONT was left set.            *)
THEOREM HandlersCorrect == Spec => []HandlersKeepOut
<1>1. Inv => HandlersKeepOut
  <2> SUFFICES ASSUME Inv, pc \in Quiet, NEW i \in DOMAIN frames
               PROVE  frames[i].step = "entry" \/ (frames[i].sig = "CONT" /\ refresh_at_SIGCONT)
    BY DEF HandlersKeepOut, Quiet
  <2>1. ~signals_allowed
    BY DEF Inv, WhereOK, Quiet, Servicing, InSystem
  <2> QED BY <2>1 DEF Inv, KeptOut, Frames
<1> QED BY <1>1, Invariant, PTL

(* While refresh_at_SIGCONT is set the screen is shown again before a      *)
(* command goes on or a key is read, however signals nest and cancel one   *)
(* another.  It says nothing of the suspensions that leave it unset.       *)
THEOREM PromisesCorrect == Spec => []PromisesKept
<1>1. Inv => PromisesKept
  <2> SUFFICES ASSUME Inv, pc # "stop", ThreadRuns, refresh_at_SIGCONT, mode = "canonic"
               PROVE  FALSE
    BY DEF Inv, TypeInv, PromisesKept
  <2>1. frames = <<>> /\ arriving = {} /\ ~stopped /\ Frames = {}
    BY NoFrames DEF ThreadRuns
  <2> QED BY <2>1 DEF Inv, HiddenOK, UnderWay
<1> QED BY <1>1, Invariant, PTL

(* Whichever of my_system's log files could not be opened, start() returns *)
(* with 0, 1 and 2 on the terminal and nothing else open.                  *)
THEOREM DescriptorsCorrect == Spec => []DescriptorsRestored
<1>1. Inv => DescriptorsRestored
  BY DEF Inv, MovedOK, DescriptorsRestored
<1> QED BY <1>1, Invariant, PTL

(* When display_errors looks for the error log of the command that failed, *)
(* my_system has left it there.                                            *)
THEOREM ErrorsCorrect == Spec => []ErrorsCanBeShown
<1>1. Inv => ErrorsCanBeShown
  BY DEF Inv, LogsOK, ErrorsCanBeShown
<1> QED BY <1>1, Invariant, PTL
=============================================================================
