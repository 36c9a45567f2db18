------------------------------ MODULE Processes ------------------------------
(***************************************************************************)
(* Threads of a program that start processes (process.h) and wait: for a   *)
(* process, for a worker thread (thread.h), for a semaphore (semaphore.h). *)
(* On UNIX a process is started in one step, since it has its own copy of  *)
(* the descriptors from vfork() on; on Windows the handles are made        *)
(* inheritable one by one around CreateProcessW(), and other threads run   *)
(* meanwhile.                                                              *)
(*                                                                         *)
(* Time is counted in parts of a second, Part of them in one, so that the  *)
(* carry from the nanoseconds of a timespec to its seconds is there.       *)
(***************************************************************************)
EXTENDS Integers, Sequences, FiniteSets

CONSTANTS
  Threads,     \* threads that start and wait
  Systems,     \* {"linux", "apple", "windows"} or fewer
  Infos,       \* system -> thread -> standard descriptors <<in, out, err>> it passes; -1: none
  Timeouts,    \* times to wait for threads and processes; -1: forever
  SemTimeouts, \* times to wait for the semaphore
  Part,        \* parts in a second
  MaxTime,     \* bound: the clock
  MaxOps,      \* bound: operations of each thread
  MaxIntr      \* bound: signals that interrupt a wait

ASSUME ProcessesAssumption ==
  /\ Systems \subseteq {"linux", "apple", "windows"}
  /\ \A s \in {"linux", "apple", "windows"}, t \in Threads : Infos[s][t] \subseteq [1 .. 3 -> -1 .. 9]
  /\ Timeouts \subseteq Nat \cup {-1} /\ SemTimeouts \subseteq Nat \cup {-1}
  /\ Part \in Nat \ {0} /\ MaxOps \in Nat

Handles(i) == {i[k] : k \in 1 .. 3} \ {-1}

VARIABLES
  os,
  topic,   \* whether the threads deal with processes, or with the worker and the semaphore
  now,     \* the clock
  inherit, \* Windows: handles that a new process inherits
  met,     \* thread -> handles that other calls passed while it was about to create its process
  child,   \* thread -> its process
  worker,  \* a thread that another one may join
  sem,     \* value of the semaphore
  thr,     \* thread -> what it does
  intr     \* interruptions still to come

vars == <<os, topic, now, inherit, met, child, worker, sem, thr, intr>>

NoChild == [state |-> "none", code |-> 0, info |-> <<-1, -1, -1>>, std |-> <<-1, -1, -1>>,
            inherits |-> {}]
Idle    == [at |-> "idle", info |-> <<-1, -1, -1>>, step |-> 0, what |-> "none", wait |-> "none",
            time |-> 0, since |-> 0, until |-> [sec |-> 0, nsec |-> 0], ret |-> "none", code |-> 0,
            left |-> MaxOps]

Init ==
  /\ os \in Systems /\ topic \in {"processes", "others"} /\ now = 0 /\ inherit = {}
  /\ met = [t \in Threads |-> {}]
  /\ child = [t \in Threads |-> NoChild]
  /\ worker = [state |-> IF topic = "others" THEN "running" ELSE "gone", code |-> 0]
  /\ sem = 0 /\ intr = MaxIntr
  /\ thr = [t \in Threads |-> Idle]

Begin(t, new) ==
  /\ thr[t].at = "idle" /\ thr[t].left > 0
  /\ thr' = [thr EXCEPT ![t] = [new EXCEPT !.left = thr[t].left - 1]]

-----------------------------------------------------------------------------
(* Starting a process                                                      *)

\* The table of descriptors after dup2() of fd to n; a file is named by its
\* descriptor in the parent.
dup2(table, fd, n) == IF fd = -1 THEN table ELSE [table EXCEPT ![n] = table[fd]]
Std(info, table)   == [k \in 1 .. 3 |-> IF info[k] = -1 THEN -1 ELSE table[k - 1]]
Start(t, i, std) ==
  \E failed \in BOOLEAN : \* chdir() or execve() failed: _exit(255)
    child' = [child EXCEPT ![t] = [state |-> IF failed THEN "ended" ELSE "running",
                                   code |-> IF failed THEN 255 ELSE 0, info |-> i, std |-> std,
                                   inherits |-> {}]]

ffps_exec_info_unix(t) ==
  /\ os # "windows" /\ topic = "processes" /\ child[t].state = "none"
  /\ \/ \E i \in Infos[os][t] :
          /\ Begin(t, Idle)
          /\ LET parent == [fd \in 0 .. 9 |-> fd]
                 table == dup2(dup2(dup2(parent, i[1], 0), i[2], 1), i[3], 2)
             IN Start(t, i, Std(i, table))
     \/ Begin(t, [Idle EXCEPT !.ret = "error"]) /\ UNCHANGED child \* vfork() failed
  /\ UNCHANGED <<os, topic, now, inherit, met, worker, sem, intr>>

Passing(t) == thr[t].at \in {"inherit", "create", "clear"}
\* Two calls pass handles at the same time.
Meet(t, i) ==
  met' = [u \in Threads |->
            CASE u = t -> UNION {Handles(thr[v].info) : v \in {w \in Threads : Passing(w)}}
              [] u # t /\ thr[u].at \in {"inherit", "create"} -> met[u] \cup Handles(i)
              [] OTHER -> met[u]]
ffps_exec_info_win(t) ==
  /\ os = "windows" /\ topic = "processes" /\ child[t].state = "none"
  /\ \/ \E i \in Infos[os][t] :
          Begin(t, [Idle EXCEPT !.at = "inherit", !.info = i, !.step = 1]) /\ Meet(t, i)
     \/ Begin(t, [Idle EXCEPT !.ret = "error"]) /\ UNCHANGED met \* no memory for the names
  /\ UNCHANGED <<os, topic, now, inherit, child, worker, sem, intr>>

inherit_two(t) == \* the third one is forgotten
  /\ thr[t].at = "inherit"
  /\ LET k == thr[t].step IN
     /\ inherit' = inherit \cup ({thr[t].info[k]} \ {-1})
     /\ thr' = [thr EXCEPT ![t].at = IF k = 2 THEN "create" ELSE "inherit", ![t].step = (k % 2) + 1]
  /\ UNCHANGED <<os, topic, now, met, child, worker, sem, intr>>
\* Make the handles inheritable, one at a time.
SetInherit(t) ==
  /\ thr[t].at = "inherit"
  /\ LET k == thr[t].step IN
     /\ inherit' = inherit \cup ({thr[t].info[k]} \ {-1})
     /\ thr' = [thr EXCEPT ![t].at = IF k = 3 THEN "create" ELSE "inherit", ![t].step = (k % 3) + 1]
  /\ UNCHANGED <<os, topic, now, met, child, worker, sem, intr>>

\* A process that is given a handle inherits all that are inheritable; one
\* that was not inherited is of no use to it.
Inherited(i) ==
  [k \in 1 .. 3 |-> IF i[k] = -1 \/ i[k] \in inherit THEN i[k] ELSE -2]
Created(i) == [state |-> "running", code |-> 0, info |-> i, std |-> Inherited(i),
               inherits |-> IF Handles(i) = {} THEN {} ELSE inherit]
create_returns(t) ==
  /\ thr[t].at = "create"
  /\ \/ /\ child' = [child EXCEPT ![t] = Created(thr[t].info)]
        /\ thr' = [thr EXCEPT ![t].at = "clear"]
     \/ UNCHANGED child /\ thr' = [thr EXCEPT ![t].at = "idle", ![t].ret = "error"]
  /\ UNCHANGED <<os, topic, now, inherit, met, worker, sem, intr>>
CreateProcessW(t) ==
  /\ thr[t].at = "create"
  /\ \/ /\ child' = [child EXCEPT ![t] = Created(thr[t].info)]
        /\ thr' = [thr EXCEPT ![t].at = "clear"]
     \/ UNCHANGED child /\ thr' = [thr EXCEPT ![t].at = "clear", ![t].ret = "error"]
  /\ UNCHANGED <<os, topic, now, inherit, met, worker, sem, intr>>

ClearInherit(t) ==
  /\ thr[t].at = "clear"
  /\ LET k == thr[t].step IN
     /\ inherit' = inherit \ {thr[t].info[k]}
     /\ thr' = [thr EXCEPT ![t] = IF k = 3 THEN [Idle EXCEPT !.ret = thr[t].ret, !.left = thr[t].left]
                                  ELSE [@ EXCEPT !.step = k + 1]]
  /\ UNCHANGED <<os, topic, now, met, child, worker, sem, intr>>

_ffps_exec_cmdln(t) == SetInherit(t) \/ CreateProcessW(t) \/ ClearInherit(t)

\* Windows: the exit code is 9; UNIX: a signal.
Killed == IF os = "windows" THEN 9 ELSE -9
ffps_kill(t) ==
  /\ child[t].state \in {"running", "ended"} /\ Begin(t, Idle)
  /\ child' = IF child[t].state = "running"
              THEN [child EXCEPT ![t].state = "ended", ![t].code = Killed] ELSE child
  /\ UNCHANGED <<os, topic, now, inherit, met, worker, sem, intr>>

-----------------------------------------------------------------------------
(* Waiting                                                                 *)

\* The time as a timespec, and a time later.
Timespec(n) == [sec |-> n \div Part, nsec |-> n % Part]
addms_raw(ts, ms) == [sec |-> ts.sec + (ms \div Part), nsec |-> ts.nsec + (ms % Part)]
_fftimespec_addms(ts, ms) ==
  LET s == ts.sec + (ms \div Part)
      n == ts.nsec + (ms % Part)
  IN  IF n >= Part THEN [sec |-> s + 1, nsec |-> n - Part] ELSE [sec |-> s, nsec |-> n]

\* How a wait of the given time is done: tried, without limit, until a time,
\* or refused.
Try       == [wait |-> "try", until |-> [sec |-> 0, nsec |-> 0]]
Forever   == [wait |-> "forever", until |-> [sec |-> 0, nsec |-> 0]]
Until(ts) == [wait |-> IF ts.nsec < Part THEN "until" ELSE "invalid", until |-> ts]
WaitForSingleObject(ms) == IF ms = -1 THEN Forever ELSE Until(Timespec(now + ms))

ffps_wait_unix(ms) == IF ms = -1 THEN Forever ELSE Try
ffps_wait_win(ms)  == WaitForSingleObject(ms)
ffthread_join_unix(ms) ==
  IF ms = -1 \/ os # "linux" THEN Forever
  ELSE IF ms = 0 THEN Try ELSE Until(_fftimespec_addms(Timespec(now), ms))
ffthread_join_win(ms) == WaitForSingleObject(ms)
\* The nanoseconds are added without a carry.
ffsem_wait_linux(ms) ==
  CASE ms = 0  -> Try
    [] ms = -1 -> Forever
    [] OTHER   -> Until([sec |-> (now \div Part) + (ms \div Part), nsec |-> (now % Part) + (ms % Part)])
ffsem_wait_apple(ms) ==
  CASE ms = 0 -> Try [] ms = -1 -> Forever [] OTHER -> [Forever EXCEPT !.wait = "invalid"]
ffsem_wait_win(ms) == WaitForSingleObject(ms)

HowProcess(ms) == IF os = "windows" THEN ffps_wait_win(ms) ELSE ffps_wait_unix(ms)
HowThread(ms)  == IF os = "windows" THEN ffthread_join_win(ms) ELSE ffthread_join_unix(ms)
HowSem(ms) ==
  CASE os = "windows" -> ffsem_wait_win(ms)
    [] os = "apple"   -> ffsem_wait_apple(ms)
    [] os = "linux"   -> ffsem_wait_linux(ms)

BeginWait(t, what, ms, how) ==
  /\ now + ms <= MaxTime
  /\ Begin(t, [Idle EXCEPT !.at = "wait", !.what = what, !.wait = how.wait, !.until = how.until,
                           !.time = ms, !.since = now])
  /\ UNCHANGED <<os, topic, now, inherit, met, child, worker, sem, intr>>

Wait(t) ==
  \/ /\ child[t].state \in {"running", "ended"}
     /\ \E ms \in Timeouts : BeginWait(t, "process", ms, HowProcess(ms))
  \/ /\ topic = "others" /\ worker.state \in {"running", "ended"} \* a thread is joined by one thread
     /\ \A u \in Threads : ~(thr[u].at = "wait" /\ thr[u].what = "thread")
     /\ \E ms \in Timeouts : BeginWait(t, "thread", ms, HowThread(ms))
  \/ topic = "others" /\ \E ms \in SemTimeouts : BeginWait(t, "sem", ms, HowSem(ms))

Happened(t) ==
  CASE thr[t].what = "process" -> child[t].state = "ended"
    [] thr[t].what = "thread"  -> worker.state = "ended"
    [] thr[t].what = "sem"     -> sem > 0
Returned(t, r, c) == thr' = [thr EXCEPT ![t] = [Idle EXCEPT !.ret = r, !.code = c, !.left = thr[t].left]]

\* The process is reaped or its handle closed, the thread is gone, the
\* semaphore taken.
WaitSuccess(t) ==
  /\ thr[t].at = "wait" /\ thr[t].wait # "invalid" /\ Happened(t)
  /\ Returned(t, "ok", CASE thr[t].what = "process" -> child[t].code
                         [] thr[t].what = "thread" -> worker.code [] OTHER -> 0)
  /\ child' = IF thr[t].what = "process" THEN [child EXCEPT ![t].state = "gone"] ELSE child
  /\ worker' = IF thr[t].what = "thread" THEN [worker EXCEPT !.state = "gone"] ELSE worker
  /\ sem' = IF thr[t].what = "sem" THEN sem - 1 ELSE sem
  /\ UNCHANGED <<os, topic, now, inherit, met, intr>>

failure_again(t) == \* repeated after every error
  /\ thr[t].at = "wait"
  /\ \/ thr[t].wait = "try" /\ ~Happened(t) /\ Returned(t, "timeout", 0)
     \/ thr[t].wait # "try" /\ UNCHANGED thr
  /\ UNCHANGED <<os, topic, now, inherit, met, child, worker, sem, intr>>
WaitFailure(t) ==
  /\ thr[t].at = "wait"
  /\ \/ thr[t].wait = "invalid" /\ Returned(t, "invalid", 0)
     \/ thr[t].wait = "try" /\ ~Happened(t) /\ Returned(t, "timeout", 0)
     \/ /\ thr[t].wait = "until" /\ ~Happened(t)
        /\ now >= thr[t].until.sec * Part + thr[t].until.nsec
        /\ Returned(t, "timeout", 0)
  /\ UNCHANGED <<os, topic, now, inherit, met, child, worker, sem, intr>>

\* waitid() and the waits for a semaphore fail with EINTR and are repeated.
Interrupt(t) ==
  /\ intr > 0 /\ os # "windows" /\ thr[t].at = "wait" /\ thr[t].what # "thread"
  /\ thr[t].wait \in {"forever", "until"}
  /\ intr' = intr - 1 /\ UNCHANGED <<os, topic, now, inherit, met, child, worker, sem, thr>>

ffsem_post(t) ==
  /\ topic = "others" /\ Begin(t, Idle) /\ sem' = sem + 1
  /\ UNCHANGED <<os, topic, now, inherit, met, child, worker, intr>>

-----------------------------------------------------------------------------
(* Processes, the worker, the clock                                        *)

ChildEnds(t) ==
  /\ child[t].state = "running"
  /\ \E c \in {0, 7} : child' = [child EXCEPT ![t].state = "ended", ![t].code = c]
  /\ UNCHANGED <<os, topic, now, inherit, met, worker, sem, thr, intr>>
WorkerEnds ==
  /\ worker.state = "running" /\ worker' = [state |-> "ended", code |-> 5]
  /\ UNCHANGED <<os, topic, now, inherit, met, child, sem, thr, intr>>
Tick ==
  /\ now < MaxTime /\ now' = now + 1
  /\ UNCHANGED <<os, topic, inherit, met, child, worker, sem, thr, intr>>
\* Nothing is left to do, or everyone waits for a semaphore forever.
Finished ==
  /\ now = MaxTime
  /\ \A t \in Threads :
       \/ thr[t].at = "idle" /\ thr[t].left = 0
       \/ thr[t].at = "wait" /\ thr[t].what = "sem" /\ thr[t].wait = "forever"
  /\ UNCHANGED vars

Return(t) == WaitSuccess(t) \/ WaitFailure(t)
Step(t) ==
  \/ ffps_exec_info_unix(t) \/ ffps_exec_info_win(t) \/ _ffps_exec_cmdln(t) \/ ffps_kill(t)
  \/ Wait(t) \/ Return(t) \/ Interrupt(t) \/ ffsem_post(t)
Next == (\E t \in Threads : Step(t) \/ ChildEnds(t)) \/ WorkerEnds \/ Tick \/ Finished

Spec == Init /\ [][Next]_vars

\* The system runs its threads, the clock goes on, processes and the worker
\* end some time.
FairSpec ==
  /\ Spec /\ WF_vars(Tick) /\ WF_vars(WorkerEnds)
  /\ \A t \in Threads : WF_vars(Return(t)) /\ WF_vars(_ffps_exec_cmdln(t)) /\ WF_vars(ChildEnds(t))

-----------------------------------------------------------------------------
(* Properties                                                              *)

\* UNIX: an earlier dup2() has replaced the descriptor.
Overwritten(i, k) == os # "windows" /\ \E j \in 1 .. k - 1 : i[j] \notin {-1, j - 1} /\ i[k] = j - 1
\* Windows: another call passes the same handle at the same time.
Shared(t, h) == os = "windows" /\ h \in met[t]

\* A new process has the standard descriptors it was to have: on UNIX although
\* one dup2() follows the other (process.h:283-288), on Windows although other
\* threads start processes at the same time and make handles inheritable and
\* not (process.h:106-137).  Lost are only a descriptor that an earlier dup2()
\* has replaced, and a handle that two calls pass at the same time.
StdAsAsked ==
  \A t \in Threads : child[t].state # "none" =>
    \A k \in 1 .. 3 :
      LET asked == child[t].info[k] IN
        child[t].std[k] = asked \/ Overwritten(child[t].info, k) \/ Shared(t, asked)

\* "Standard file descriptors" (process.h:34), without exception.  It does not
\* hold: on Windows the first of two calls with the same handle takes it back
\* before the other one creates its process (process.h:129-137).
StdAlways == \A t \in Threads : child[t].state # "none" => child[t].std = child[t].info

\* A handle is inheritable only while some call passes it, so that the
\* processes started afterwards do not get it, whether the process started or
\* not (process.h:129-137).  And a process inherits nothing but what it is given
\* and what the calls that run at the same time pass.
NotInheritable ==
  /\ \A h \in inherit : \E t \in Threads : Passing(t) /\ h \in Handles(thr[t].info)
  /\ \A t \in Threads : child[t].inherits \subseteq Handles(child[t].info) \cup met[t]

\* A wait that gives up does so because its time is over, never earlier and
\* never for a signal ("UNIX: EINTR is handled automatically",
\* semaphore.h:293, process.h:462); 0 only asks, and for ffps_wait() all times
\* may.  It fails otherwise only where "only 0 or -1 values are supported"
\* (semaphore.h:297).
GaveUp(t) ==
  thr[t].at = "wait" /\ thr'[t].at # "wait" =>
    /\ thr'[t].ret = "invalid" => os = "apple" /\ thr[t].what = "sem" /\ thr[t].time > 0
    /\ thr'[t].ret = "timeout" =>
         /\ thr[t].time # -1
         /\ thr[t].what = "process" \/ now >= thr[t].since + thr[t].time
WaitsItsTime == [][\A t \in Threads : GaveUp(t)]_vars

\* ffps_wait(): ">=0: check status (don't wait)" (process.h:464).  It does not
\* hold on Windows, where it waits for the time (process.h:166).
AsksOnly ==
  \A t \in Threads : thr[t].at = "wait" /\ thr[t].what = "process" /\ thr[t].time > 0 => thr[t].wait = "try"

\* A wait ends if what it waits for does, or if it has a limit.
WaitEnds ==
  \A t \in Threads :
    (thr[t].at = "wait" /\ (thr[t].what # "sem" \/ thr[t].wait # "forever")) ~> (thr[t].at # "wait")
=============================================================================
