------------------------------ MODULE WinTimer ------------------------------
(***************************************************************************)
(* The kernel timer on Windows (FFOS/timer.h).  A thread of its own arms   *)
(* the waitable timer and sleeps in an alertable state, because the timer  *)
(* procedure runs there only; it posts to the kernel queue.  The caller    *)
(* hands it commands through one slot, `ctl`, and two auto-reset events.   *)
(*                                                                         *)
(* External: an auto-reset event is a flag that a satisfied wait clears;   *)
(* an alertable wait runs the queued procedure call only if its object is  *)
(* not signalled; a timer has one procedure call, which SetWaitableTimer,  *)
(* CancelWaitableTimer and the last CloseHandle take off the queue; a due  *)
(* time below zero is relative, any other is absolute, counted from 1601.  *)
(***************************************************************************)
EXTENDS Integers, SequencesExt

CONSTANTS
  Queues,    \* kernel queues
  Datas,     \* what the caller wants ffkq_event_data() to return
  Periods,   \* period_ms of a caller
  Epoch,     \* absolute time at which the clock below is 0
  MaxTime,   \* bound of the clock
  MaxCalls,  \* bound of the number of calls
  NoStart    \* the timer is not running

ASSUME WinTimerAssumption ==
  /\ Periods \subseteq Int
  /\ Epoch \in Nat \ {0} /\ MaxTime \in Nat /\ MaxCalls \in Nat
  /\ \A p \in Periods : -p < Epoch
  /\ Queues # {} /\ Datas # {}
  /\ NoStart \notin [kq : Queues, data : Datas, period : Int, at : Nat, again : BOOLEAN]

VARIABLES
  open,        \* what was created and not closed yet
  tmr,         \* the members kq, data, period_ms, ctl and result of _fftimer
  evt,         \* tmr->evt is signalled
  evt_result,  \* tmr->evt_result is signalled
  ktimer,      \* the waitable timer: when it is due and again after which period
  apc,         \* the timer procedure is queued to the thread
  port,        \* what each kernel queue holds
  now,         \* the clock
  pc,          \* where the caller stands
  ret,         \* what its last call returned
  tpc,         \* where the timer thread stands
  tkq,         \* the queue that _fftimer_onfire() has read
  started,     \* history: the last fftimer_start(), unless the timer was stopped,
               \* and whether the timer was running then
  calls,       \* history: number of starts and stops
  ran,         \* history: number of the command that gave tmr->result
  fired        \* history: when the last event was posted

callerVars == <<open, pc, ret>>
threadVars == <<tpc, tkq>>
kernelVars == <<ktimer, apc>>
history    == <<started, calls, ran, fired>>
vars       == <<callerVars, threadVars, kernelVars, history, tmr, evt, evt_result, port, now>>

EXIT  == 0
START == 1
STOP  == 2

Handles == {"mem", "htmr", "evt", "evt_result", "thd"}
Off     == [on |-> FALSE, due |-> 0, period |-> 0]

Magnitude(n) == IF n < 0 THEN -n ELSE n

Init ==
  /\ open = {}
  /\ tmr = [kq |-> CHOOSE q \in Queues : TRUE, data |-> CHOOSE d \in Datas : TRUE,
            period_ms |-> 0, ctl |-> EXIT, result |-> 0] \* kq and data: not set yet
  /\ evt = FALSE /\ evt_result = FALSE
  /\ ktimer = Off /\ apc = FALSE
  /\ port = [q \in Queues |-> << >>]
  /\ now = 0
  /\ pc = "none" /\ ret = 0
  /\ tpc = "none" /\ tkq = tmr.kq
  /\ started = NoStart /\ calls = 0 /\ ran = 0 /\ fired = -1

-----------------------------------------------------------------------------
(* Faulty variants, one plausible mistake each.  No specification uses them. *)

\* fftimer_close() does not wait for the thread.
JoinAtOnce ==
  /\ pc = "join"
  /\ open' = open \ {"thd"}
  /\ pc' = "free"
  /\ UNCHANGED <<ret, threadVars, kernelVars, history, tmr, evt, evt_result, port, now>>

\* _fftimer_cmd() does not wait for the answer.
CmdSignalOnly ==
  /\ pc = "signal"
  /\ evt' = TRUE
  /\ pc' = IF tmr.ctl = EXIT THEN "join" ELSE "read"
  /\ UNCHANGED <<open, ret, threadVars, kernelVars, history, tmr, evt_result, port, now>>

\* The period in milliseconds is taken for the due time as it is.
DueAtAbsolute(p) == p - Epoch

\* The thread wakes the caller only when the command succeeded.
ThreadSignalSuccess ==
  /\ tpc = "signal"
  /\ evt_result' = (tmr.result = 0)
  /\ tpc' = "wait"
  /\ UNCHANGED <<callerVars, tkq, kernelVars, history, tmr, evt, port, now>>

\* The period is passed for timers that fire once, and not for the others.
PeriodInverted(p) == IF p < 0 THEN -p ELSE 0

\* The case _FFTIMER_STOP is missing from the switch.
ThreadExecNoStop ==
  /\ tpc = "exec"
  /\ IF tmr.ctl = START
     THEN ktimer' = [on |-> TRUE, due |-> now + tmr.period_ms, period |-> tmr.period_ms] /\ apc' = FALSE
     ELSE UNCHANGED kernelVars
  /\ tmr' = [tmr EXCEPT !.result = 0]
  /\ ran' = calls
  /\ tpc' = "signal"
  /\ UNCHANGED <<callerVars, tkq, started, calls, fired, evt, evt_result, port, now>>

\* The arguments of ffkq_post() are swapped.
ThreadPostSwapped ==
  /\ tpc = "post"
  /\ port' = [port EXCEPT ![tkq] = Append(@, tmr.kq)]
  /\ tpc' = "wait"
  /\ fired' = now
  /\ UNCHANGED <<callerVars, tkq, kernelVars, started, calls, ran, tmr, evt, evt_result, now>>

-----------------------------------------------------------------------------
(* The caller                                                              *)

\* fftimer_create() succeeds.
Create ==
  /\ pc = "none"
  /\ open' = Handles
  /\ tmr' = [tmr EXCEPT !.period_ms = 0, !.ctl = EXIT, !.result = 0]
  /\ evt' = FALSE /\ evt_result' = FALSE
  /\ tpc' = "wait"
  /\ pc' = "app"
  /\ UNCHANGED <<ret, tkq, kernelVars, history, port, now>>

\* fftimer_create() fails after some of its steps and calls fftimer_close().
CreateFail ==
  /\ pc = "none"
  /\ \E made \in {{"mem"}, {"mem", "htmr"}, {"mem", "htmr", "evt"},
                  {"mem", "htmr", "evt", "evt_result"}} : open' = made
  /\ pc' = "close"
  /\ UNCHANGED <<ret, threadVars, kernelVars, history, tmr, evt, evt_result, port, now>>

\* fftimer_start() stores the queue; the timer procedure may run meanwhile.
StartKq(q, d, p) ==
  /\ pc = "app" /\ calls < MaxCalls
  /\ tmr' = [tmr EXCEPT !.kq = q]
  /\ started' = [kq |-> q, data |-> d, period |-> p, at |-> now,
                 again |-> started # NoStart]
  /\ calls' = calls + 1
  /\ pc' = "start"
  /\ UNCHANGED <<open, ret, threadVars, kernelVars, ran, fired, evt, evt_result, port, now>>

\* It stores the other arguments and the command.
StartData ==
  /\ pc = "start"
  /\ tmr' = [tmr EXCEPT !.data = started.data, !.period_ms = started.period, !.ctl = START]
  /\ pc' = "signal"
  /\ UNCHANGED <<open, ret, threadVars, kernelVars, history, evt, evt_result, port, now>>

\* fftimer_stop() stores the command.
Stop ==
  /\ pc = "app" /\ calls < MaxCalls
  /\ tmr' = [tmr EXCEPT !.ctl = STOP]
  /\ calls' = calls + 1
  /\ pc' = "signal"
  /\ UNCHANGED <<open, ret, threadVars, kernelVars, started, ran, fired, evt, evt_result, port, now>>

\* fftimer_close()
Close ==
  /\ pc = "app"
  /\ pc' = "close"
  /\ UNCHANGED <<open, ret, threadVars, kernelVars, history, tmr, evt, evt_result, port, now>>

\* It closes the timer, then sends the command to exit if there is a thread.
CloseTimer ==
  /\ pc = "close"
  /\ open' = open \ {"htmr"}
  /\ ktimer' = Off /\ apc' = FALSE
  /\ IF "thd" \in open
     THEN tmr' = [tmr EXCEPT !.ctl = EXIT] /\ pc' = "signal"
     ELSE tmr' = tmr /\ pc' = "free"
  /\ UNCHANGED <<ret, threadVars, history, evt, evt_result, port, now>>

\* _fftimer_cmd() signals the thread; there is no answer to _FFTIMER_EXIT.
CmdSignal ==
  /\ pc = "signal"
  /\ evt' = TRUE
  /\ pc' = IF tmr.ctl = EXIT THEN "join" ELSE "result"
  /\ UNCHANGED <<open, ret, threadVars, kernelVars, history, tmr, evt_result, port, now>>

\* It waits for the answer.
CmdWait ==
  /\ pc = "result"
  /\ evt_result
  /\ evt_result' = FALSE
  /\ pc' = "read"
  /\ UNCHANGED <<open, ret, threadVars, kernelVars, history, tmr, evt, port, now>>

\* It returns the result.  A timer that could not be started again runs on with
\* its period.
CmdRead ==
  /\ pc = "read"
  /\ ret' = tmr.result
  /\ started' = CASE tmr.ctl = STOP /\ tmr.result = 0 -> NoStart
                  [] tmr.ctl = START /\ tmr.result = 1 ->
                       IF started.again THEN [started EXCEPT !.period = ktimer.period] ELSE NoStart
                  [] OTHER -> started
  /\ pc' = "app"
  /\ UNCHANGED <<open, threadVars, kernelVars, calls, ran, fired, tmr, evt, evt_result, port, now>>

\* fftimer_close(): ffthread_join()
Join ==
  /\ pc = "join"
  /\ tpc = "done"
  /\ open' = open \ {"thd"}
  /\ pc' = "free"
  /\ UNCHANGED <<ret, threadVars, kernelVars, history, tmr, evt, evt_result, port, now>>

\* fftimer_close() closes the events and frees the object.
Free ==
  /\ pc = "free"
  /\ open' = open \ {"evt", "evt_result", "mem"}
  /\ started' = NoStart
  /\ pc' = "none"
  /\ UNCHANGED <<ret, threadVars, kernelVars, calls, ran, fired, tmr, evt, evt_result, port, now>>

-----------------------------------------------------------------------------
(* The timer thread                                                        *)

\* The wait returns WAIT_OBJECT_0 and the thread reads the command.
ThreadWake ==
  /\ tpc = "wait"
  /\ evt
  /\ evt' = FALSE
  /\ tpc' = IF tmr.ctl = EXIT THEN "done" ELSE "exec"
  /\ UNCHANGED <<callerVars, tkq, kernelVars, history, tmr, evt_result, port, now>>

\* When a timer started now with `due_ns100` = -10000 * p is due.
DueAt(p) == IF -p < 0 THEN now + p ELSE -p - Epoch

\* The period after which it is due again, 0 if it is not.
PeriodOf(p) == IF p >= 0 THEN p ELSE 0

\* The command is executed and the result stored; the kernel may refuse.
ThreadExec ==
  /\ tpc = "exec"
  /\ \/ /\ tmr.ctl = START
        /\ ktimer' = [on |-> TRUE, due |-> DueAt(tmr.period_ms), period |-> PeriodOf(tmr.period_ms)]
        /\ apc' = FALSE
        /\ tmr' = [tmr EXCEPT !.result = 0]
     \/ /\ tmr.ctl = STOP
        /\ ktimer' = Off /\ apc' = FALSE
        /\ tmr' = [tmr EXCEPT !.result = 0]
     \/ /\ tmr' = [tmr EXCEPT !.result = 1]
        /\ UNCHANGED kernelVars
  /\ ran' = calls
  /\ tpc' = "signal"
  /\ UNCHANGED <<callerVars, tkq, started, calls, fired, evt, evt_result, port, now>>

\* The caller is woken.
ThreadSignal ==
  /\ tpc = "signal"
  /\ evt_result' = TRUE
  /\ tpc' = "wait"
  /\ UNCHANGED <<callerVars, tkq, kernelVars, history, tmr, evt, port, now>>

\* The wait runs _fftimer_onfire(), which reads the queue ...
ThreadFire ==
  /\ tpc = "wait"
  /\ apc /\ ~evt
  /\ apc' = FALSE
  /\ tkq' = tmr.kq
  /\ tpc' = "post"
  /\ UNCHANGED <<callerVars, ktimer, history, tmr, evt, evt_result, port, now>>

\* ... then the data, and posts.
ThreadPost ==
  /\ tpc = "post"
  /\ port' = [port EXCEPT ![tkq] = Append(@, tmr.data)]
  /\ tpc' = "wait"
  /\ fired' = now
  /\ UNCHANGED <<callerVars, tkq, kernelVars, started, calls, ran, tmr, evt, evt_result, now>>

-----------------------------------------------------------------------------
(* The kernel and the event loop                                           *)

\* The timer is due: its procedure is queued, if it is not.
Expire ==
  /\ ktimer.on /\ ktimer.due <= now
  /\ apc' = TRUE
  /\ ktimer' = IF ktimer.period = 0 THEN Off
               ELSE [ktimer EXCEPT !.due = @ + ktimer.period]
  /\ UNCHANGED <<callerVars, threadVars, history, tmr, evt, evt_result, port, now>>

Tick ==
  /\ now < MaxTime
  /\ now' = now + 1
  /\ UNCHANGED <<callerVars, threadVars, kernelVars, history, tmr, evt, evt_result, port>>

\* ffkq_wait() takes an event; fftimer_consume() does nothing.
Wait(q) ==
  /\ port[q] # << >>
  /\ port' = [port EXCEPT ![q] = Tail(@)]
  /\ UNCHANGED <<callerVars, threadVars, kernelVars, history, tmr, evt, evt_result, now>>

\* ffkq_wait() returns at its timeout.
WaitTimeout(q) == port[q] = << >> /\ UNCHANGED vars

-----------------------------------------------------------------------------
Caller == StartData \/ CloseTimer \/ CmdSignal \/ CmdWait \/ CmdRead \/ Join \/ Free

Thread == ThreadWake \/ ThreadExec \/ ThreadSignal \/ ThreadFire \/ ThreadPost

Next ==
  \/ Create \/ CreateFail \/ Stop \/ Close \/ Caller \/ Thread \/ Expire \/ Tick
  \/ \E q \in Queues, d \in Datas, p \in Periods : StartKq(q, d, p)
  \/ \E q \in Queues : Wait(q) \/ WaitTimeout(q)

Spec == Init /\ [][Next]_vars

\* Both threads keep running, and time passes.
Fairness == WF_vars(Caller) /\ WF_vars(Thread) /\ WF_vars(Expire) /\ WF_vars(Tick)

FairSpec == Spec /\ Fairness

-----------------------------------------------------------------------------
(* Properties                                                              *)

\* What the members of _fftimer, the waitable timer and a start are.
Members == [kq : Queues, data : Datas, period_ms : Periods \cup {0}, ctl : {EXIT, START, STOP}, result : {0, 1}]
KTimers == [on : BOOLEAN, due : Int, period : Nat]
Starts  == [kq : Queues, data : Datas, period : Periods \cup {0}, at : 0..MaxTime, again : BOOLEAN]

\* Types.  That queues hold what fftimer_start() was given as `data` depends on
\* what _fftimer_onfire() passes to ffkq_post().
TypeOK ==
  /\ open \subseteq Handles
  /\ tmr \in Members
  /\ evt \in BOOLEAN /\ evt_result \in BOOLEAN /\ apc \in BOOLEAN
  /\ ktimer \in KTimers
  /\ port \in [Queues -> Seq(Datas)]
  /\ now \in 0..MaxTime
  /\ pc \in {"none", "app", "start", "signal", "result", "read", "close", "join", "free"}
  /\ ret \in {0, 1}
  /\ tpc \in {"none", "wait", "exec", "signal", "post", "done"}
  /\ tkq \in Queues
  /\ started = NoStart \/ started \in Starts
  /\ calls \in 0..MaxCalls /\ ran \in 0..MaxCalls /\ fired \in -1..MaxTime

\* The thread never uses what fftimer_close() has released, and a timer that was
\* closed, or whose creation failed half-way, leaves nothing behind
\* (fftimer_close joins before it frees; fftimer_create ends in fftimer_close).
Lifetime ==
  /\ tpc \in {"wait", "exec", "signal", "post"} => {"mem", "evt", "evt_result"} \subseteq open
  /\ pc = "none" => open = {} /\ ~ktimer.on /\ ~apc

\* A call returns the result of its own command, never of an earlier one, and
\* reads it when the thread has stored it (the handshake of _fftimer_cmd and
\* _fftimer_thread through two auto-reset events).
OwnResult == pc = "read" => ran = calls

\* The queue q gets one more event in this step.
Posted(q) == Len(port'[q]) > Len(port[q])

\* The timer posts while it is running only, to the queue and with the data of the
\* fftimer_start() that runs it, although _fftimer_onfire() reads the two from an
\* object the caller writes to: once fftimer_stop() has returned 0 nothing is posted.
\* A timer that is started again while it runs may mix the two.
PostsAsStarted ==
  [][\A q \in Queues : Posted(q) =>
       /\ started # NoStart
       /\ started.again \/ (q = started.kq /\ Last(port'[q]) = started.data)]_vars

\* An event comes no earlier than the interval after fftimer_start(): "<0: fire
\* just once after -period_ms interval" (doc of fftimer_start; due_ns100).
NeverEarly ==
  [][\A q \in Queues : Posted(q) =>
       started.again \/ now >= started.at + Magnitude(started.period)]_vars

\* After fftimer_stop() has returned 0 ffkq_wait() returns no timer event, as
\* test_timer() expects ("waiting after timer stop...").
NoSignalAfterStop ==
  [][\A q \in Queues : pc = "app" /\ Len(port'[q]) < Len(port[q]) => started # NoStart]_vars

\* Every call returns: the caller and the thread never wait for each other, and
\* the thread ends when it is told to (_fftimer_cmd, fftimer_close).
Returns == pc \notin {"app", "none"} ~> pc \in {"app", "none"}

\* A periodic timer keeps firing: while it runs and nobody calls, there is an event
\* after every moment that leaves a period of time (SetWaitableTimer's period).
KeepsFiring ==
  \A t \in 0..MaxTime :
    /\ pc = "app" /\ now = t
    /\ started # NoStart /\ started.period > 0 /\ t + started.period <= MaxTime
    ~> fired > t \/ pc # "app"

=============================================================================
