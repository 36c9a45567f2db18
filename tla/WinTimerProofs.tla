--------------------------- MODULE WinTimerProofs ---------------------------
(***************************************************************************)
(* Theorems about the Windows kernel timer, for any queues, data, periods, *)
(* number of calls and time: the handshake of the caller with the timer    *)
(* thread, the lifetime of the object they share, and what is posted.      *)
(***************************************************************************)
EXTENDS WinTimer, SequenceTheorems, TLAPS

-----------------------------------------------------------------------------
(* The inductive invariant                                                 *)

\* The thread sleeps in its alertable wait, or posts from within it.
Resting == tpc \in {"wait", "post"}

\* The thread is not running: not started yet, or told to end.
Absent == tpc \in {"none", "done"}

\* _fftimer_cmd() and _fftimer_thread(): which of the two moves at each place of
\* the caller, and that an answer is there only when it was asked for.
Handshake ==
  /\ pc = "none" => Absent /\ open = {}
  /\ pc \in {"app", "start", "read"} => Resting /\ ~evt /\ ~evt_result /\ open = Handles
  /\ pc = "signal" => Resting /\ ~evt /\ ~evt_result /\ Handles \ {"htmr"} \subseteq open
  /\ pc = "result" =>
       /\ open = Handles /\ tmr.ctl # EXIT
       /\ \/ Resting /\ evt /\ ~evt_result
          \/ tpc \in {"exec", "signal"} /\ ~evt /\ ~evt_result
          \/ Resting /\ ~evt /\ evt_result
  /\ pc = "close" => IF "thd" \in open THEN Resting /\ ~evt /\ ~evt_result /\ open = Handles
                                       ELSE Absent
  /\ pc = "join" =>
       /\ open = Handles \ {"htmr"} /\ tmr.ctl = EXIT
       /\ (Resting /\ evt) \/ tpc = "done"
  /\ pc = "free" => Absent /\ open \cap {"htmr", "thd"} = {}
  /\ pc = "read" => tmr.ctl # EXIT
  /\ pc = "signal" => (tmr.ctl = EXIT <=> "htmr" \notin open)

\* A command was given and not executed yet.
Pending ==
  \/ pc = "start"
  \/ pc = "signal" /\ tmr.ctl # EXIT
  \/ pc = "result" /\ (evt \/ tpc = "exec")

\* Its number is the last one exactly when the last command was executed.
Counted == ran <= calls /\ (ran = calls <=> ~Pending)

\* Nothing can be posted: the timer is off and the thread not on its way.
Quiet == ~ktimer.on /\ ~apc /\ tpc # "post"

\* The last command was a start, or is to be one.
Starting == pc = "start" \/ (pc \in {"signal", "result", "read"} /\ tmr.ctl = START)

\* The command was executed and its outcome is not known to the caller yet.
Executed == pc \in {"result", "read"} /\ ~Pending

\* What the caller knows of the timer: it is off unless it was started, and for
\* a timer that was not running before, unless the start was executed with success.
Known ==
  /\ "htmr" \notin open => ~ktimer.on /\ ~apc
  /\ started = NoStart => Quiet /\ ~Starting
  /\ Starting /\ ~started.again /\ (Pending \/ tmr.result = 1) => Quiet
  /\ Executed /\ tmr.ctl = STOP /\ tmr.result = 0 => Quiet

\* What _fftimer_onfire() reads is what the running timer was started with.
Parameters ==
  started # NoStart =>
    /\ tmr.kq = started.kq
    /\ pc # "start" => tmr.data = started.data
    /\ Starting /\ pc # "start" => tmr.period_ms = started.period
    /\ tpc = "post" /\ ~started.again => tkq = started.kq

\* The periods the kernel is given are periods of callers.
Period == ktimer.period \in (Periods \cup {0}) /\ ktimer.period >= 0

TimerInv == TypeOK /\ Handshake /\ Counted /\ Known /\ Parameters /\ Period

\* The interval since the start has passed.
Elapsed == now >= started.at + started.period

\* A periodic timer that was not running before: it is due, its procedure queued
\* and its event on the way no earlier than its interval after the start.
InTime ==
  started # NoStart =>
    /\ started.at <= now
    /\ ~started.again =>
         /\ ktimer.on => started.period = 0 \/ ktimer.due >= started.at + started.period
         /\ apc \/ tpc = "post" => Elapsed

-----------------------------------------------------------------------------
\* The periods and 0, which the kernel is given for none, are integers.
LEMMA PeriodsAreInts == Periods \cup {0} \subseteq Int
<1>1. Periods \subseteq Int
  BY Zenon, WinTimerAssumption
<1> QED
  BY <1>1

\* A start that is recorded is not mistaken for none.
LEMMA StartIsSome ==
  ASSUME NEW s \in Starts
  PROVE  s # NoStart
<1>1. Periods \cup {0} \subseteq Int /\ 0..MaxTime \subseteq Nat
  BY WinTimerAssumption
<1>2. s \in [kq : Queues, data : Datas, period : Int, at : Nat, again : BOOLEAN]
  BY Zenon, <1>1 DEF Starts
<1> QED
  BY Zenon, <1>2, WinTimerAssumption

\* Every step keeps the types.
LEMMA TypeStep ==
  ASSUME TypeOK, Period, Handshake, Known, [Next]_vars
  PROVE  TypeOK'
<1> USE DEF TypeOK, vars, callerVars, threadVars, kernelVars, history
<1>1. CASE Create
  <2>1. tmr' \in Members
    BY Zenon, <1>1 DEF Create, Members, EXIT
  <2> QED
    BY Zenon, <1>1, <2>1 DEF Create
<1>2. CASE CreateFail
  <2>1. open' \subseteq Handles
    BY Zenon, <1>2 DEF CreateFail, Handles
  <2> QED
    BY Zenon, <1>2, <2>1 DEF CreateFail
<1>3. CASE Stop
  <2>1. tmr' \in Members
    BY Zenon, <1>3 DEF Stop, Members, EXIT, START, STOP
  <2>2. calls' \in 0..MaxCalls
    BY <1>3, WinTimerAssumption DEF Stop
  <2> QED
    BY Zenon, <1>3, <2>1, <2>2 DEF Stop
<1>4. CASE Close
  BY Zenon, <1>4 DEF Close
<1>5. CASE StartData
  <2>1. started \in Starts
    BY Zenon, <1>5 DEF StartData, Known, Starting
  <2>2. tmr' \in Members
    BY Zenon, <1>5, <2>1 DEF StartData, Members, Starts, START
  <2> QED
    BY Zenon, <1>5, <2>2 DEF StartData
<1>6. CASE CloseTimer
  <2>1. tmr' \in Members /\ open' \subseteq Handles /\ pc' \in {"signal", "free"}
    BY Zenon, <1>6 DEF CloseTimer, Members, EXIT
  <2>2. ktimer' \in KTimers
    BY <1>6 DEF CloseTimer, KTimers, Off
  <2> QED
    BY Zenon, <1>6, <2>1, <2>2 DEF CloseTimer
<1>7. CASE CmdSignal
  BY Zenon, <1>7 DEF CmdSignal
<1>8. CASE CmdWait
  BY Zenon, <1>8 DEF CmdWait
<1>9. CASE CmdRead
  <2>1. ret' \in {0, 1}
    BY Zenon, <1>9 DEF CmdRead, Members
  <2>2. started' \in {NoStart, started} \/ (started.again /\ started' = [started EXCEPT !.period = ktimer.period] /\ tmr.ctl = START)
    BY <1>9 DEF CmdRead, Members
  <2>3. started' = NoStart \/ started' \in Starts
    <3>1. CASE started' \in {NoStart, started}
      BY Zenon, <3>1
    <3>2. CASE started.again /\ started' = [started EXCEPT !.period = ktimer.period] /\ tmr.ctl = START
      <4>1. Starting
        BY Zenon, <1>9, <3>2 DEF CmdRead, Starting
      <4>2. started \in Starts
        BY Zenon, <4>1 DEF Known
      <4>3. ktimer.period \in (Periods \cup {0})
        BY Zenon DEF Period
      <4> QED
        BY Zenon, <3>2, <4>2, <4>3 DEF Starts
    <3> QED
      BY Zenon, <2>2, <3>1, <3>2
  <2> QED
    BY Zenon, <1>9, <2>1, <2>3 DEF CmdRead
<1>10. CASE Join
  <2>1. open' \subseteq Handles
    BY Zenon, <1>10 DEF Join
  <2> QED
    BY Zenon, <1>10, <2>1 DEF Join
<1>11. CASE Free
  <2>1. open' \subseteq Handles
    BY Zenon, <1>11 DEF Free
  <2> QED
    BY Zenon, <1>11, <2>1 DEF Free
<1>12. CASE ThreadWake
  BY Zenon, <1>12 DEF ThreadWake
<1>13. CASE ThreadExec
  <2>1. tmr' \in Members
    BY Zenon, <1>13 DEF ThreadExec, Members
  <2>2. ktimer' \in KTimers
    <3> DEFINE p == tmr.period_ms
    <3>1. p \in Periods \cup {0}
      BY Zenon DEF Members
    <3>2. p \in Int
      BY Zenon, <3>1, PeriodsAreInts
    <3>0. now \in Int /\ Epoch \in Int
      BY WinTimerAssumption
    <3>3. DueAt(p) \in Int /\ PeriodOf(p) \in Nat
      BY <3>0, <3>2 DEF DueAt, PeriodOf
    <3>4. [on |-> TRUE, due |-> DueAt(p), period |-> PeriodOf(p)] \in KTimers
      BY Zenon, <3>3 DEF KTimers
    <3>5. Off \in KTimers
      BY DEF KTimers, Off
    <3> QED
      BY Zenon, <1>13, <3>4, <3>5 DEF ThreadExec
  <2>3. apc' \in BOOLEAN
    BY Zenon, <1>13 DEF ThreadExec
  <2> QED
    BY Zenon, <1>13, <2>1, <2>2, <2>3 DEF ThreadExec
<1>14. CASE ThreadSignal
  BY Zenon, <1>14 DEF ThreadSignal
<1>15. CASE ThreadFire
  <2>1. tkq' \in Queues
    BY Zenon, <1>15 DEF ThreadFire, Members
  <2> QED
    BY Zenon, <1>15, <2>1 DEF ThreadFire
<1>16. CASE ThreadPost
  <2>1. tmr.data \in Datas
    BY Zenon DEF Members
  <2>2. port' \in [Queues -> Seq(Datas)] /\ fired' \in -1..MaxTime
    BY <1>16, <2>1, WinTimerAssumption DEF ThreadPost
  <2> QED
    BY Zenon, <1>16, <2>2 DEF ThreadPost
<1>17. CASE Expire
  <2>1. ktimer' \in KTimers
    BY SMTT(30), <1>17 DEF Expire, KTimers, Off
  <2> QED
    BY Zenon, <1>17, <2>1 DEF Expire
<1>18. CASE Tick
  <2>1. now' \in 0..MaxTime
    BY <1>18, WinTimerAssumption DEF Tick
  <2> QED
    BY ZenonT(60), <1>18, <2>1 DEF Tick
<1>19. ASSUME NEW q \in Queues, NEW d \in Datas, NEW p \in Periods, StartKq(q, d, p)
      PROVE  TypeOK'
  <2>1. tmr' \in Members
    BY Zenon, <1>19 DEF StartKq, Members
  <2>2. started' \in Starts
    BY Zenon, <1>19 DEF StartKq, Starts
  <2>3. calls' \in 0..MaxCalls
    BY <1>19, WinTimerAssumption DEF StartKq
  <2> QED
    BY Zenon, <1>19, <2>1, <2>2, <2>3 DEF StartKq
<1>20. ASSUME NEW q \in Queues, Wait(q)
      PROVE  TypeOK'
  <2>1. port' \in [Queues -> Seq(Datas)]
    BY <1>20 DEF Wait
  <2> QED
    BY ZenonT(60), <1>20, <2>1 DEF Wait
<1>21. CASE UNCHANGED vars
  BY ZenonT(60), <1>21
<1> QED
  BY ZenonT(60), <1>1, <1>2, <1>3, <1>4, <1>5, <1>6, <1>7, <1>8, <1>9, <1>10, <1>11, <1>12, <1>13,
     <1>14, <1>15, <1>16, <1>17, <1>18, <1>19, <1>20, <1>21
     DEF Next, Caller, Thread, WaitTimeout

\* The handshake holds at every step: whoever waits is woken by the other, and no
\* answer is left over for a later command.
LEMMA HandshakeStep ==
  ASSUME TypeOK, Handshake, [Next]_vars
  PROVE  Handshake'
<1> USE DEF Handshake, TypeOK, Resting, Absent, vars, callerVars, threadVars, kernelVars, history
<1>1. CASE Create
  BY Zenon, <1>1 DEF Create
<1>2. CASE CreateFail
  BY <1>2 DEF CreateFail
<1>3. CASE Stop
  <2>1. tmr'.ctl # EXIT
    BY <1>3 DEF Stop, Members, EXIT, STOP
  <2> QED
    BY Zenon, <1>3, <2>1 DEF Stop, Handles
<1>4. CASE Close
  BY Zenon, <1>4 DEF Close, Handles
<1>5. CASE StartData
  <2>1. tmr'.ctl # EXIT
    BY <1>5 DEF StartData, Members, EXIT, START
  <2> QED
    BY Zenon, <1>5, <2>1 DEF StartData, Handles
<1>6. CASE CloseTimer
  <2>1. CASE "thd" \in open
    <3>1. tmr'.ctl = EXIT /\ open' = open \ {"htmr"}
      BY Zenon, <1>6, <2>1 DEF CloseTimer, Members
    <3> QED
      BY Zenon, <1>6, <2>1, <3>1 DEF CloseTimer, Handles
  <2>2. CASE "thd" \notin open
    BY Zenon, <1>6, <2>2 DEF CloseTimer, Handles
  <2> QED
    BY Zenon, <2>1, <2>2
<1>7. CASE CmdSignal
  BY Zenon, <1>7 DEF CmdSignal
<1>8. CASE CmdWait
  BY Zenon, <1>8 DEF CmdWait
<1>9. CASE CmdRead
  BY Zenon, <1>9 DEF CmdRead
<1>10. CASE Join
  BY Zenon, <1>10 DEF Join
<1>11. CASE Free
  BY Zenon, <1>11 DEF Free, Handles
<1>12. CASE ThreadWake
  BY Zenon, <1>12 DEF ThreadWake
<1>13. CASE ThreadExec
  <2>1. tmr'.ctl = tmr.ctl
    BY Zenon, <1>13 DEF ThreadExec, Members
  <2>2. pc = "result" /\ ~evt /\ ~evt_result
    BY Zenon, <1>13 DEF ThreadExec
  <2> QED
    BY Zenon, <1>13, <2>1, <2>2 DEF ThreadExec
<1>14. CASE ThreadSignal
  BY Zenon, <1>14 DEF ThreadSignal
<1>15. CASE ThreadFire
  BY Zenon, <1>15 DEF ThreadFire
<1>16. CASE ThreadPost
  BY Zenon, <1>16 DEF ThreadPost
<1>17. CASE Expire
  BY Zenon, <1>17 DEF Expire
<1>18. CASE Tick
  BY Zenon, <1>18 DEF Tick
<1>19. ASSUME NEW q \in Queues, NEW d \in Datas, NEW p \in Periods, StartKq(q, d, p)
       PROVE  Handshake'
  BY Zenon, <1>19 DEF StartKq
<1>20. ASSUME NEW q \in Queues, Wait(q)
       PROVE  Handshake'
  BY Zenon, <1>20 DEF Wait
<1>21. CASE UNCHANGED vars
  BY Zenon, <1>21
<1> QED
  BY Zenon, <1>1, <1>2, <1>3, <1>4, <1>5, <1>6, <1>7, <1>8, <1>9, <1>10, <1>11, <1>12, <1>13,
     <1>14, <1>15, <1>16, <1>17, <1>18, <1>19, <1>20, <1>21
     DEF Next, Caller, Thread, WaitTimeout

\* The number of the last executed command is the number of the last command exactly
\* when none is pending.
LEMMA CountedStep ==
  ASSUME TypeOK, Handshake, Counted, [Next]_vars
  PROVE  Counted'
<1> USE DEF Counted, Pending, Handshake, TypeOK, Resting, Absent, vars, callerVars, threadVars, kernelVars, history
<1>1. CASE Create
  BY Zenon, <1>1 DEF Create
<1>2. CASE CreateFail
  BY Zenon, <1>2 DEF CreateFail
<1>3. CASE Stop
  BY <1>3 DEF Stop, Members, EXIT, STOP
<1>4. CASE Close
  BY Zenon, <1>4 DEF Close
<1>5. CASE StartData
  BY <1>5 DEF StartData, Members, EXIT, START
<1>6. CASE CloseTimer
  BY Zenon, <1>6 DEF CloseTimer, Members
<1>7. CASE CmdSignal
  BY Zenon, <1>7 DEF CmdSignal
<1>8. CASE CmdWait
  BY Zenon, <1>8 DEF CmdWait
<1>9. CASE CmdRead
  BY Zenon, <1>9 DEF CmdRead
<1>10. CASE Join
  BY Zenon, <1>10 DEF Join
<1>11. CASE Free
  BY Zenon, <1>11 DEF Free
<1>12. CASE ThreadWake
  BY Zenon, <1>12 DEF ThreadWake
<1>13. CASE ThreadExec
  BY <1>13 DEF ThreadExec
<1>14. CASE ThreadSignal
  BY Zenon, <1>14 DEF ThreadSignal
<1>15. CASE ThreadFire
  BY Zenon, <1>15 DEF ThreadFire
<1>16. CASE ThreadPost
  BY Zenon, <1>16 DEF ThreadPost
<1>17. CASE Expire
  BY Zenon, <1>17 DEF Expire
<1>18. CASE Tick
  BY Zenon, <1>18 DEF Tick
<1>19. ASSUME NEW q \in Queues, NEW d \in Datas, NEW p \in Periods, StartKq(q, d, p)
       PROVE  Counted'
  BY <1>19 DEF StartKq
<1>20. ASSUME NEW q \in Queues, Wait(q)
       PROVE  Counted'
  BY Zenon, <1>20 DEF Wait
<1>21. CASE UNCHANGED vars
  BY Zenon, <1>21
<1> QED
  BY ZenonT(60), <1>1, <1>2, <1>3, <1>4, <1>5, <1>6, <1>7, <1>8, <1>9, <1>10, <1>11, <1>12, <1>13,
     <1>14, <1>15, <1>16, <1>17, <1>18, <1>19, <1>20, <1>21
     DEF Next, Caller, Thread, WaitTimeout

\* The timer is off whenever the caller may believe so.
LEMMA KnownStep ==
  ASSUME TypeOK, Handshake, Period, Known, [Next]_vars
  PROVE  Known'
<1> USE DEF Known, Pending, Starting, Executed, Quiet, Handshake, TypeOK, Resting, Absent, vars, callerVars, threadVars, kernelVars, history
<1>1. CASE Create
  BY Zenon, <1>1 DEF Create
<1>2. CASE CreateFail
  BY Zenon, <1>2 DEF CreateFail
<1>3. CASE Stop
  <2>1. tmr'.ctl = STOP /\ STOP # START
    BY <1>3 DEF Stop, Members, STOP, START
  <2> QED
    BY Zenon, <1>3, <2>1 DEF Stop
<1>4. CASE Close
  BY Zenon, <1>4 DEF Close
<1>5. CASE StartData
  BY Zenon, <1>5 DEF StartData
<1>6. CASE CloseTimer
  <2>1. ~ktimer'.on /\ ~apc'
    BY Zenon, <1>6 DEF CloseTimer, Off
  <2>2. ~Starting' /\ ~Executed'
    BY <1>6 DEF CloseTimer, Members, EXIT, START
  <2>3. tpc' = tpc /\ started' = started
    BY Zenon, <1>6 DEF CloseTimer
  <2> QED
    BY Zenon, <2>1, <2>2, <2>3
<1>7. CASE CmdSignal
  BY Zenon, <1>7 DEF CmdSignal
<1>8. CASE CmdWait
  BY Zenon, <1>8 DEF CmdWait
<1>9. CASE CmdRead
  <2>1. ~Starting' /\ ~Executed' /\ ~Pending
    BY Zenon, <1>9 DEF CmdRead
  <2>2. Quiet' <=> Quiet
    BY Zenon, <1>9 DEF CmdRead
  <2>3. ASSUME started' = NoStart
        PROVE  Quiet
    <3>1. CASE tmr.ctl = STOP /\ tmr.result = 0
      BY Zenon, <1>9, <3>1, <2>1 DEF CmdRead
    <3>2. CASE tmr.ctl = START /\ tmr.result = 1 /\ ~started.again
      BY Zenon, <1>9, <3>2, <2>1 DEF CmdRead
    <3>3. CASE tmr.ctl = START /\ tmr.result = 1 /\ started.again
      <4>1. started \in Starts
        BY Zenon, <1>9, <3>3 DEF CmdRead
      <4>2. started' = [started EXCEPT !.period = ktimer.period]
        BY <1>9, <3>3 DEF CmdRead, START, STOP
      <4>3. started' \in Starts
        BY Zenon, <4>1, <4>2 DEF Starts, Period
      <4> QED
        BY Zenon, <4>3, <2>3, StartIsSome
    <3>4. CASE ~(tmr.ctl = STOP /\ tmr.result = 0) /\ ~(tmr.ctl = START /\ tmr.result = 1)
      <4>1. started' = started
        BY Zenon, <1>9, <3>4 DEF CmdRead
      <4> QED
        BY Zenon, <4>1, <2>3
    <3> QED
      BY Zenon, <3>1, <3>2, <3>3, <3>4
  <2>4. open' = open /\ ktimer' = ktimer /\ apc' = apc
    BY Zenon, <1>9 DEF CmdRead
  <2> QED
    BY Zenon, <2>1, <2>2, <2>3, <2>4
<1>10. CASE Join
  BY Zenon, <1>10 DEF Join
<1>11. CASE Free
  BY Zenon, <1>11 DEF Free
<1>12. CASE ThreadWake
  BY Zenon, <1>12 DEF ThreadWake
<1>13. CASE ThreadExec
  <2>1. pc = "result" /\ pc' = "result" /\ ~evt /\ ~evt' /\ tpc' = "signal" /\ open' = open
    BY Zenon, <1>13 DEF ThreadExec
  <2>2. Pending /\ ~Pending' /\ Executed' /\ "htmr" \in open
    BY Zenon, <1>13, <2>1 DEF ThreadExec, Handles
  <2>3. started' = started /\ tmr'.ctl = tmr.ctl /\ (Starting' <=> Starting)
    BY Zenon, <1>13, <2>1 DEF ThreadExec, Members
  <2>4. CASE tmr.ctl = START /\ tmr'.result = 0
    BY SMTT(30), <2>1, <2>2, <2>3, <2>4 DEF START, STOP
  <2>5. CASE tmr'.result = 1 /\ UNCHANGED kernelVars
    BY SMTT(30), <2>1, <2>2, <2>3, <2>5, <1>13 DEF ThreadExec
  <2>6. CASE tmr.ctl = STOP /\ ktimer' = Off /\ apc' = FALSE
    BY Zenon, <2>1, <2>2, <2>3, <2>6 DEF START, STOP, Off
  <2> QED
    BY Zenon, <1>13, <2>4, <2>5, <2>6 DEF ThreadExec, Members
<1>14. CASE ThreadSignal
  BY Zenon, <1>14 DEF ThreadSignal
<1>15. CASE ThreadFire
  BY Zenon, <1>15 DEF ThreadFire
<1>16. CASE ThreadPost
  BY Zenon, <1>16 DEF ThreadPost
<1>17. CASE Expire
  BY Zenon, <1>17 DEF Expire
<1>18. CASE Tick
  BY Zenon, <1>18 DEF Tick
<1>19. ASSUME NEW q \in Queues, NEW d \in Datas, NEW p \in Periods, StartKq(q, d, p)
       PROVE  Known'
  <2>1. started' \in Starts /\ (started'.again <=> started # NoStart)
    BY Zenon, <1>19 DEF StartKq, Starts
  <2>2. started' # NoStart
    BY Zenon, <2>1, StartIsSome
  <2>3. Pending' /\ ~Executed'
    BY Zenon, <1>19 DEF StartKq
  <2> QED
    BY Zenon, <1>19, <2>1, <2>2, <2>3 DEF StartKq
<1>20. ASSUME NEW q \in Queues, Wait(q)
       PROVE  Known'
  BY Zenon, <1>20 DEF Wait
<1>21. CASE UNCHANGED vars
  BY Zenon, <1>21
<1> QED
  BY ZenonT(60), <1>1, <1>2, <1>3, <1>4, <1>5, <1>6, <1>7, <1>8, <1>9, <1>10, <1>11, <1>12, <1>13,
     <1>14, <1>15, <1>16, <1>17, <1>18, <1>19, <1>20, <1>21
     DEF Next, Caller, Thread, WaitTimeout

\* The members of the object are those of the last start.
LEMMA ParametersStep ==
  ASSUME TypeOK, Handshake, Known, Parameters, [Next]_vars
  PROVE  Parameters'
<1> USE DEF Parameters, Known, Pending, Starting, Executed, Quiet, Handshake, TypeOK, Resting, Absent, vars, callerVars, threadVars, kernelVars, history
<1>1. CASE Create
  BY <1>1 DEF Create
<1>2. CASE CreateFail
  BY Zenon, <1>2 DEF CreateFail
<1>3. CASE Stop
  <2>1. tmr'.ctl = STOP /\ STOP # START /\ tmr'.kq = tmr.kq /\ tmr'.data = tmr.data
    BY <1>3 DEF Stop, Members, STOP, START
  <2> QED
    BY Zenon, <1>3, <2>1 DEF Stop
<1>4. CASE Close
  BY Zenon, <1>4 DEF Close
<1>5. CASE StartData
  BY <1>5 DEF StartData
<1>6. CASE CloseTimer
  <2>1. tmr'.kq = tmr.kq /\ tmr'.data = tmr.data
    BY Zenon, <1>6 DEF CloseTimer, Members
  <2>2. ~Starting'
    BY <1>6 DEF CloseTimer, Members, EXIT, START
  <2>3. tpc' = tpc /\ tkq' = tkq /\ started' = started /\ pc # "start" /\ pc' # "start"
    BY Zenon, <1>6 DEF CloseTimer
  <2> QED
    BY Zenon, <2>1, <2>2, <2>3
<1>7. CASE CmdSignal
  BY Zenon, <1>7 DEF CmdSignal
<1>8. CASE CmdWait
  BY Zenon, <1>8 DEF CmdWait
<1>9. CASE CmdRead
  BY <1>9 DEF CmdRead
<1>10. CASE Join
  BY Zenon, <1>10 DEF Join
<1>11. CASE Free
  BY Zenon, <1>11 DEF Free
<1>12. CASE ThreadWake
  BY Zenon, <1>12 DEF ThreadWake
<1>13. CASE ThreadExec
  <2>1. /\ tmr'.kq = tmr.kq /\ tmr'.data = tmr.data /\ tmr'.ctl = tmr.ctl
        /\ tmr'.period_ms = tmr.period_ms
    BY Zenon, <1>13 DEF ThreadExec, Members
  <2> QED
    BY Zenon, <1>13, <2>1 DEF ThreadExec
<1>14. CASE ThreadSignal
  BY Zenon, <1>14 DEF ThreadSignal
<1>15. CASE ThreadFire
  BY Zenon, <1>15 DEF ThreadFire
<1>16. CASE ThreadPost
  BY Zenon, <1>16 DEF ThreadPost
<1>17. CASE Expire
  BY Zenon, <1>17 DEF Expire
<1>18. CASE Tick
  BY Zenon, <1>18 DEF Tick
<1>19. ASSUME NEW q \in Queues, NEW d \in Datas, NEW p \in Periods, StartKq(q, d, p)
       PROVE  Parameters'
  <2>1. started' \in Starts /\ (started'.again <=> started # NoStart) /\ started'.kq = q
    BY Zenon, <1>19 DEF StartKq, Starts
  <2>2. tmr'.kq = q /\ pc' = "start" /\ tpc' = tpc
    BY Zenon, <1>19 DEF StartKq, Members
  <2> QED
    BY Zenon, <2>1, <2>2
<1>20. ASSUME NEW q \in Queues, Wait(q)
       PROVE  Parameters'
  BY Zenon, <1>20 DEF Wait
<1>21. CASE UNCHANGED vars
  BY Zenon, <1>21
<1> QED
  BY ZenonT(60), <1>1, <1>2, <1>3, <1>4, <1>5, <1>6, <1>7, <1>8, <1>9, <1>10, <1>11, <1>12, <1>13,
     <1>14, <1>15, <1>16, <1>17, <1>18, <1>19, <1>20, <1>21
     DEF Next, Caller, Thread, WaitTimeout

\* The kernel timer has the period of a caller, or none.
LEMMA PeriodStep ==
  ASSUME TypeOK, Period, [Next]_vars
  PROVE  Period'
<1> USE DEF Period, TypeOK, vars, callerVars, threadVars, kernelVars, history
<1>1. CASE Create
  BY Zenon, <1>1 DEF Create
<1>2. CASE CreateFail
  BY Zenon, <1>2 DEF CreateFail
<1>3. CASE Stop
  BY Zenon, <1>3 DEF Stop
<1>4. CASE Close
  BY Zenon, <1>4 DEF Close
<1>5. CASE StartData
  BY Zenon, <1>5 DEF StartData
<1>6. CASE CloseTimer
  BY <1>6 DEF CloseTimer, Off
<1>7. CASE CmdSignal
  BY Zenon, <1>7 DEF CmdSignal
<1>8. CASE CmdWait
  BY Zenon, <1>8 DEF CmdWait
<1>9. CASE CmdRead
  BY Zenon, <1>9 DEF CmdRead
<1>10. CASE Join
  BY Zenon, <1>10 DEF Join
<1>11. CASE Free
  BY Zenon, <1>11 DEF Free
<1>12. CASE ThreadWake
  BY Zenon, <1>12 DEF ThreadWake
<1>13. CASE ThreadExec
  <2> DEFINE p == tmr.period_ms
  <2>1. p \in Periods \cup {0}
    BY Zenon DEF Members
  <2>2. PeriodOf(p) \in Periods \cup {0} /\ PeriodOf(p) >= 0
    BY <2>1, WinTimerAssumption DEF PeriodOf
  <2>3. ktimer' \in {ktimer, Off, [on |-> TRUE, due |-> DueAt(p), period |-> PeriodOf(p)]}
    BY Zenon, <1>13 DEF ThreadExec
  <2> QED
    BY <2>2, <2>3 DEF Off
<1>14. CASE ThreadSignal
  BY Zenon, <1>14 DEF ThreadSignal
<1>15. CASE ThreadFire
  BY Zenon, <1>15 DEF ThreadFire
<1>16. CASE ThreadPost
  BY Zenon, <1>16 DEF ThreadPost
<1>17. CASE Expire
  BY Zenon, <1>17 DEF Expire, Off, KTimers
<1>18. CASE Tick
  BY Zenon, <1>18 DEF Tick
<1>19. ASSUME NEW q \in Queues, NEW d \in Datas, NEW p \in Periods, StartKq(q, d, p)
       PROVE  Period'
  BY Zenon, <1>19 DEF StartKq
<1>20. ASSUME NEW q \in Queues, Wait(q)
       PROVE  Period'
  BY Zenon, <1>20 DEF Wait
<1>21. CASE UNCHANGED vars
  BY Zenon, <1>21
<1> QED
  BY ZenonT(60), <1>1, <1>2, <1>3, <1>4, <1>5, <1>6, <1>7, <1>8, <1>9, <1>10, <1>11, <1>12, <1>13,
     <1>14, <1>15, <1>16, <1>17, <1>18, <1>19, <1>20, <1>21
     DEF Next, Caller, Thread, WaitTimeout

\* The invariant holds at first and is kept.
LEMMA InitInv == Init => TimerInv
<1> SUFFICES ASSUME Init PROVE TimerInv
  BY Zenon
<1>1. tmr \in Members /\ tkq \in Queues
  <2>1. (CHOOSE q \in Queues : TRUE) \in Queues /\ (CHOOSE d \in Datas : TRUE) \in Datas
    BY Zenon, WinTimerAssumption
  <2> QED
    BY Zenon, <2>1 DEF Init, Members, EXIT
<1>2. ktimer \in KTimers /\ Period
  BY DEF Init, KTimers, Off, Period
<1>3. port \in [Queues -> Seq(Datas)]
  BY DEF Init
<1>4. now \in 0..MaxTime /\ calls \in 0..MaxCalls /\ ran \in 0..MaxCalls /\ fired \in -1..MaxTime
  BY WinTimerAssumption DEF Init
<1>5. TypeOK
  BY Zenon, <1>1, <1>2, <1>3, <1>4 DEF Init, TypeOK
<1>6. Handshake /\ Counted
  BY DEF Init, Handshake, Counted, Absent, Pending
<1>7. Known /\ Parameters
  BY Zenon DEF Init, Known, Parameters, Quiet, Starting, Executed, Off
<1> QED
  BY Zenon, <1>2, <1>5, <1>6, <1>7 DEF TimerInv

\* Every step of the user, the timer thread and the kernel keeps the invariant.
LEMMA StepInv == TimerInv /\ [Next]_vars => TimerInv'
BY Zenon, TypeStep, HandshakeStep, CountedStep, KnownStep, ParametersStep, PeriodStep DEF TimerInv

\* The invariant of the Windows timer: the handshake of fftimer_start(),
\* fftimer_stop() and fftimer_close() with _fftimer_thread(), and what the caller
\* knows of the timer, for any number of calls.
THEOREM TimerInvariant == Spec => []TimerInv
BY InitInv, StepInv, PTL DEF Spec

\* Types; in particular the queues only get what was given as `data`.
THEOREM TypeCorrect == Spec => []TypeOK
<1>1. TimerInv => TypeOK
  BY Zenon DEF TimerInv
<1> QED
  BY <1>1, TimerInvariant, PTL

\* fftimer_close() frees nothing the thread still uses, and leaves nothing behind.
THEOREM LifetimeSafe == Spec => []Lifetime
<1>1. TimerInv => Lifetime
  BY Zenon DEF TimerInv, TypeOK, Handshake, Known, Lifetime, Resting, Absent, Handles
<1> QED
  BY <1>1, TimerInvariant, PTL

\* _fftimer_cmd() returns the result of its own command.
THEOREM ResultIsOwn == Spec => []OwnResult
<1>1. TimerInv => OwnResult
  BY Zenon DEF TimerInv, Counted, Pending, OwnResult
<1> QED
  BY <1>1, TimerInvariant, PTL

-----------------------------------------------------------------------------
(* What is posted                                                          *)

\* Only ThreadPost, the end of _fftimer_onfire(), adds to a queue.
LEMMA OnlyThreadPosts ==
  ASSUME TypeOK, [Next]_vars, NEW q \in Queues, Posted(q)
  PROVE  ThreadPost /\ q = tkq /\ Last(port'[q]) = tmr.data
<1>1. port' # port
  BY DEF Posted, TypeOK
<1>2. ASSUME NEW r \in Queues, Wait(r)
      PROVE  FALSE
  <2>1. port \in [Queues -> Seq(Datas)] /\ port' = [port EXCEPT ![r] = Tail(@)] /\ port[r] # << >>
    BY Zenon, <1>2 DEF Wait, TypeOK
  <2>2. Len(Tail(port[r])) <= Len(port[r]) /\ Len(port[r]) \in Nat
    BY <2>1
  <2>3. Len(port'[q]) <= Len(port[q]) /\ Len(port[q]) \in Nat
    BY <2>1, <2>2
  <2> QED
    BY <2>3 DEF Posted
<1>3. ThreadPost
  BY Zenon, <1>1, <1>2 DEF Next, Caller, Thread, vars, callerVars, threadVars, kernelVars, history,
     Create, CreateFail, Stop, Close, StartData, CloseTimer, CmdSignal, CmdWait, CmdRead, Join, Free,
     ThreadWake, ThreadExec, ThreadSignal, ThreadFire, Expire, Tick, StartKq, WaitTimeout
<1>4. port' = [port EXCEPT ![tkq] = Append(@, tmr.data)] /\ port \in [Queues -> Seq(Datas)]
  BY Zenon, <1>3 DEF ThreadPost, TypeOK
<1>5. tkq \in Queues /\ tmr.data \in Datas
  BY Zenon DEF TypeOK, Members
<1>6. q = tkq
  BY <1>4, <1>5 DEF Posted
<1>7. port'[q] = Append(port[q], tmr.data) /\ port[q] \in Seq(Datas)
  BY Zenon, <1>4, <1>6
<1>8. Last(port'[q]) = tmr.data
  BY <1>5, <1>7, AppendProperties DEF Last
<1> QED
  BY Zenon, <1>3, <1>6, <1>8

\* Nothing is posted by a timer that is not running, and a running one posts to
\* the queue and with the data it was started with, although the thread reads both
\* from the object while the caller may write to it.
THEOREM PostedAsStarted == Spec => PostsAsStarted
<1>1. ASSUME TimerInv, [Next]_vars, NEW q \in Queues, Posted(q)
      PROVE  /\ started # NoStart
             /\ started.again \/ (q = started.kq /\ Last(port'[q]) = started.data)
  <2>1. tpc = "post" /\ q = tkq /\ Last(port'[q]) = tmr.data
    BY Zenon, <1>1, OnlyThreadPosts DEF TimerInv, ThreadPost
  <2>2. started # NoStart
    BY Zenon, <1>1, <2>1 DEF TimerInv, Known, Quiet
  <2>3. ~started.again => pc # "start"
    BY Zenon, <1>1, <2>1 DEF TimerInv, Known, Quiet, Starting, Pending
  <2> QED
    BY Zenon, <1>1, <2>1, <2>2, <2>3 DEF TimerInv, Parameters
<1>2. TimerInv /\ [Next]_vars =>
        [\A q \in Queues : Posted(q) =>
           /\ started # NoStart
           /\ started.again \/ (q = started.kq /\ Last(port'[q]) = started.data)]_vars
  BY Zenon, <1>1
<1> QED
  BY <1>2, TimerInvariant, PTL DEF Spec, PostsAsStarted

-----------------------------------------------------------------------------
(* When it is posted                                                       *)

\* The times are kept.  Timers that fire once are left out: their due time is
\* absolute (DueAt).
LEMMA InTimeStep ==
  ASSUME Periods \subseteq Nat, TimerInv, InTime, [Next]_vars
  PROVE  InTime'
<1> USE DEF InTime, Elapsed, TimerInv, TypeOK, vars, callerVars, threadVars, kernelVars, history
<1>0. /\ now \in Nat /\ ktimer.due \in Int /\ ktimer.period \in Nat
      /\ started # NoStart => started \in Starts /\ started.at \in Nat /\ started.period \in Nat
  <2>1. started \in Starts => started.at \in 0..MaxTime /\ started.period \in Periods \cup {0}
    BY Zenon DEF Starts
  <2>2. Periods \cup {0} \subseteq Nat /\ 0..MaxTime \subseteq Nat
    BY WinTimerAssumption
  <2> QED
    BY Zenon, <2>1, <2>2 DEF KTimers
<1>1. CASE Create
  BY Zenon, <1>1 DEF Create
<1>2. CASE CreateFail
  BY Zenon, <1>2 DEF CreateFail
<1>3. CASE Stop
  BY Zenon, <1>3 DEF Stop
<1>4. CASE Close
  BY Zenon, <1>4 DEF Close
<1>5. CASE StartData
  BY Zenon, <1>5 DEF StartData
<1>6. CASE CloseTimer
  <2>1. ~ktimer'.on /\ ~apc' /\ started' = started /\ now' = now /\ tpc' = tpc
    BY Zenon, <1>6 DEF CloseTimer, Off
  <2> QED
    BY Zenon, <2>1
<1>7. CASE CmdSignal
  BY Zenon, <1>7 DEF CmdSignal
<1>8. CASE CmdWait
  BY Zenon, <1>8 DEF CmdWait
<1>9. CASE CmdRead
  <2>1. ktimer' = ktimer /\ apc' = apc /\ tpc' = tpc /\ now' = now
    BY Zenon, <1>9 DEF CmdRead
  <2>2. \/ started' = NoStart \/ started' = started
        \/ started # NoStart /\ started.again /\ started' = [started EXCEPT !.period = ktimer.period]
    BY <1>9 DEF CmdRead, Known, Starting
  <2>3. started # NoStart /\ started.again /\ started' = [started EXCEPT !.period = ktimer.period]
        => started'.at = started.at /\ started'.again
    BY Zenon, <1>0 DEF Starts
  <2> QED
    BY Zenon, <2>1, <2>2, <2>3
<1>10. CASE Join
  BY Zenon, <1>10 DEF Join
<1>11. CASE Free
  BY Zenon, <1>11 DEF Free
<1>12. CASE ThreadWake
  BY Zenon, <1>12 DEF ThreadWake
<1>13. CASE ThreadExec
  <2>1. pc = "result" /\ Pending /\ tpc' = "signal" /\ now' = now /\ started' = started
    BY Zenon, <1>13 DEF ThreadExec, Handshake, Resting, Absent, Pending
  <2>2. CASE tmr.ctl = START /\ apc' = FALSE
             /\ ktimer' = [on |-> TRUE, due |-> DueAt(tmr.period_ms), period |-> PeriodOf(tmr.period_ms)]
    <3>1. started # NoStart => tmr.period_ms = started.period
      BY Zenon, <2>1, <2>2 DEF Parameters, Starting
    <3>2. started # NoStart /\ started.period # 0 => ktimer'.due = now + started.period
      BY SMTT(30), <2>2, <3>1, <1>0 DEF DueAt
    <3> QED
      BY SMTT(30), <2>1, <2>2, <3>2, <1>0
  <2>3. CASE ktimer' = Off /\ apc' = FALSE
    BY Zenon, <2>1, <2>3 DEF Off
  <2>4. CASE UNCHANGED kernelVars
    BY Zenon, <2>1, <2>4
  <2> QED
    BY Zenon, <1>13, <2>2, <2>3, <2>4 DEF ThreadExec
<1>14. CASE ThreadSignal
  BY Zenon, <1>14 DEF ThreadSignal
<1>15. CASE ThreadFire
  BY Zenon, <1>15 DEF ThreadFire
<1>16. CASE ThreadPost
  BY Zenon, <1>16 DEF ThreadPost
<1>17. CASE Expire
  <2>1. started' = started /\ now' = now /\ ktimer.on /\ ktimer.due <= now
    BY Zenon, <1>17 DEF Expire
  <2>2. ktimer'.on => ktimer'.due = ktimer.due + ktimer.period
    BY Zenon, <1>17 DEF Expire, Off, KTimers
  <2>3. started # NoStart /\ ~started.again => Elapsed
    BY <2>1, <1>0
  <2>4. Elapsed' <=> Elapsed
    BY Zenon, <2>1
  <2> QED
    BY SMTT(30), <2>1, <2>2, <2>3, <2>4, <1>0
<1>18. CASE Tick
  <2>1. started' = started /\ ktimer' = ktimer /\ apc' = apc /\ tpc' = tpc /\ now' = now + 1
    BY Zenon, <1>18 DEF Tick
  <2> QED
    BY <2>1, <1>0
<1>19. ASSUME NEW q \in Queues, NEW d \in Datas, NEW p \in Periods, StartKq(q, d, p)
       PROVE  InTime'
  <2>1. started'.at = now /\ (started'.again <=> started # NoStart)
    BY Zenon, <1>19 DEF StartKq
  <2>2. started = NoStart => Quiet'
    BY Zenon, <1>19 DEF StartKq, Known, Quiet
  <2> QED
    BY <1>19, <2>1, <2>2, <1>0 DEF StartKq, Quiet
<1>20. ASSUME NEW q \in Queues, Wait(q)
       PROVE  InTime'
  BY Zenon, <1>20 DEF Wait
<1>21. CASE UNCHANGED vars
  BY Zenon, <1>21
<1> QED
  BY ZenonT(60), <1>1, <1>2, <1>3, <1>4, <1>5, <1>6, <1>7, <1>8, <1>9, <1>10, <1>11, <1>12, <1>13,
     <1>14, <1>15, <1>16, <1>17, <1>18, <1>19, <1>20, <1>21
     DEF Next, Caller, Thread, WaitTimeout

\* A timer with a period posts no earlier than its period after fftimer_start(),
\* for every set of periods that are not negative; fftimer_start() of a timer that
\* is running already is left out, since its old event may be on the way.
THEOREM NotEarly == Periods \subseteq Nat => (Spec => NeverEarly)
<1> SUFFICES ASSUME Periods \subseteq Nat
             PROVE  Spec => NeverEarly
  BY Zenon
<1>1. Init => InTime
  BY Zenon DEF Init, InTime
<1>2. TimerInv /\ InTime /\ [Next]_vars => InTime'
  BY Zenon, InTimeStep
<1>3. ASSUME TimerInv, InTime, [Next]_vars, NEW q \in Queues, Posted(q)
      PROVE  started.again \/ now >= started.at + Magnitude(started.period)
  <2>1. tpc = "post"
    BY Zenon, <1>3, OnlyThreadPosts DEF TimerInv, ThreadPost
  <2>2. started \in Starts
    BY Zenon, <1>3, <2>1 DEF TimerInv, TypeOK, Known, Quiet
  <2>3. started.period \in Nat
    <3>1. started.period \in Periods \cup {0}
      BY Zenon, <2>2 DEF Starts
    <3>2. Periods \cup {0} \subseteq Nat
      OBVIOUS
    <3> QED
      BY Zenon, <3>1, <3>2
  <2>4. started.again \/ Elapsed
    BY Zenon, <1>3, <2>1, <2>2, StartIsSome DEF InTime
  <2> QED
    BY <2>3, <2>4 DEF Elapsed, Magnitude
<1>4. TimerInv /\ InTime /\ [Next]_vars =>
        [\A q \in Queues : Posted(q) =>
           started.again \/ now >= started.at + Magnitude(started.period)]_vars
  BY Zenon, <1>3
<1> QED
  BY <1>1, <1>2, <1>4, TimerInvariant, PTL DEF Spec, NeverEarly

=============================================================================
