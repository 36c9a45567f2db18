--------------------------- MODULE ProcessesProofs ---------------------------
(***************************************************************************)
(* Proofs about Processes: the handles that are made inheritable for a     *)
(* moment, the standard descriptors of new processes, and the time that    *)
(* the waits take.                                                         *)
(***************************************************************************)
EXTENDS Processes, TLAPS

Descriptors3 == [1 .. 3 -> -1 .. 9]
Times3       == [sec : Int, nsec : Int]
Waiter == [at : {"idle", "inherit", "create", "clear", "wait"}, info : Descriptors3, step : 0 .. 3,
           what : {"none", "process", "thread", "sem"},
           wait : {"none", "try", "forever", "until", "invalid"},
           time : Int, since : Nat, until : Times3,
           ret : {"none", "ok", "error", "timeout", "invalid"}, code : Int, left : Int]
Child == [state : {"none", "running", "ended", "gone"}, code : Int, info : Descriptors3,
          std : [1 .. 3 -> -2 .. 9], inherits : SUBSET Int]

\* The variables have their types.
TypeOK ==
  /\ os \in Systems /\ now \in Nat /\ inherit \in SUBSET Int
  /\ thr \in [Threads -> Waiter] /\ child \in [Threads -> Child]
  /\ worker \in [state : {"running", "ended", "gone"}, code : Int]

-----------------------------------------------------------------------------
(* Inheritable handles                                                     *)

\* The standard descriptors of t's call that may be inheritable now: those set
\* so far, all of them, those not cleared yet.
Exposed(t) ==
  CASE thr[t].at = "inherit" -> 1 .. (thr[t].step - 1)
    [] thr[t].at = "create"  -> 1 .. 3
    [] thr[t].at = "clear"   -> thr[t].step .. 3
    [] OTHER                 -> {}

\* A thread that passes handles runs on Windows, and they are its own.
OwnHandles ==
  \A t \in Threads : Passing(t) =>
    /\ os = "windows" /\ thr[t].info \in Infos["windows"][t] /\ thr[t].step \in 1 .. 3
    /\ thr[t].at = "create" => thr[t].step = 1

\* Every inheritable handle is one that some thread passes now.
Accounted ==
  \A h \in inherit : h # -1 /\ \E t \in Threads : \E k \in Exposed(t) : h = thr[t].info[k]

\* Until the process is created nobody takes the handles back but a call that
\* passes the same ones.
StillThere ==
  \A t \in Threads : thr[t].at \in {"inherit", "create"} =>
    \A k \in Exposed(t) : thr[t].info[k] = -1 \/ thr[t].info[k] \in inherit \/ thr[t].info[k] \in met[t]

\* A call that is about to create its process has met all others that run.
AllMet ==
  \A t, u \in Threads : t # u /\ thr[t].at \in {"inherit", "create"} /\ Passing(u) =>
    Handles(thr[u].info) \subseteq met[t]

HandlesInv == TypeOK /\ OwnHandles /\ Accounted /\ StillThere /\ AllMet

-----------------------------------------------------------------------------
(* Waits                                                                   *)

\* How a wait is done fits the time it was given.
WaitFits(t) ==
  /\ thr[t].time \in Nat \cup {-1} /\ thr[t].since <= now
  /\ thr[t].wait = "try" => \/ thr[t].time = 0
                            \/ thr[t].what = "process" /\ os # "windows" /\ thr[t].time # -1
  /\ thr[t].wait = "until" =>
       /\ thr[t].time # -1
       /\ thr[t].until.sec * Part + thr[t].until.nsec = thr[t].since + thr[t].time
  /\ thr[t].wait = "invalid" => os = "apple" /\ thr[t].what = "sem" /\ thr[t].time > 0
WaitsFit == \A t \in Threads : thr[t].at = "wait" => WaitFits(t)

-----------------------------------------------------------------------------
(* Types                                                                   *)

\* A thread that waits for nothing and a child that never ran have their types.
LEMMA IdleType == Idle \in Waiter /\ NoChild \in Child
<1>1. <<-1, -1, -1>> \in Descriptors3 /\ <<-1, -1, -1>> \in [1 .. 3 -> -2 .. 9]
  BY DEF Descriptors3
<1>2. MaxOps \in Int
  BY ProcessesAssumption
<1> QED
  BY <1>1, <1>2 DEF Idle, NoChild, Waiter, Child, Times3

\* What Begin() does to the threads.
LEMMA BeginType ==
  ASSUME TypeOK, NEW t \in Threads, NEW new \in Waiter, Begin(t, new)
  PROVE  /\ thr' \in [Threads -> Waiter]
         /\ thr[t].at = "idle" /\ thr'[t] = [new EXCEPT !.left = thr[t].left - 1]
         /\ \A u \in Threads : u # t => thr'[u] = thr[u]
<1>1. thr[t] \in Waiter
  BY Zenon DEF TypeOK
<1>2. thr[t].left - 1 \in Int
  BY <1>1 DEF Waiter
<1>3. [new EXCEPT !.left = thr[t].left - 1] \in Waiter
  BY Zenon, <1>2 DEF Waiter
<1> QED
  BY Zenon, <1>3 DEF TypeOK, Begin

\* What Returned() does to the threads.
LEMMA ReturnedType ==
  ASSUME TypeOK, NEW t \in Threads, NEW r \in {"ok", "timeout", "invalid"}, NEW c \in Int, Returned(t, r, c)
  PROVE  /\ thr' \in [Threads -> Waiter]
         /\ thr'[t].at = "idle" /\ thr'[t].ret = r
         /\ \A u \in Threads : u # t => thr'[u] = thr[u]
<1>1. thr[t] \in Waiter
  BY Zenon DEF TypeOK
<1>2. thr[t].left \in Int
  BY Zenon, <1>1 DEF Waiter
<1> DEFINE new == [Idle EXCEPT !.ret = r, !.code = c, !.left = thr[t].left]
<1>3. new \in Waiter
  BY Zenon, <1>2, IdleType DEF Waiter
<1>4. new.at = "idle" /\ new.ret = r
  BY Zenon, <1>3 DEF Waiter, Idle
<1>5. thr' = [thr EXCEPT ![t] = new]
  BY Zenon DEF Returned
<1> HIDE DEF new
<1> QED
  BY Zenon, <1>3, <1>4, <1>5 DEF TypeOK

-----------------------------------------------------------------------------
(* The operators                                                           *)

Tables == [0 .. 9 -> 0 .. 9]

\* dup2() changes one entry, or none.
LEMMA Dup2 ==
  ASSUME NEW table \in Tables, NEW fd \in -1 .. 9, NEW n \in 0 .. 2
  PROVE  /\ dup2(table, fd, n) \in Tables
         /\ fd # -1 => dup2(table, fd, n)[n] = table[fd]
         /\ fd = -1 => dup2(table, fd, n)[n] = table[n]
         /\ \A m \in 0 .. 9 : m # n => dup2(table, fd, n)[m] = table[m]
BY DEF dup2, Tables

\* The three dup2() of ffps_exec_info(): each standard descriptor is the one
\* that was asked for, unless it is overwritten before it is duplicated.
LEMMA Dups ==
  ASSUME NEW i \in Descriptors3, NEW parent, parent = [fd \in 0 .. 9 |-> fd],
         NEW table, table = dup2(dup2(dup2(parent, i[1], 0), i[2], 1), i[3], 2)
  PROVE  /\ Std(i, table) \in [1 .. 3 -> -2 .. 9]
         /\ os # "windows" => \A k \in 1 .. 3 : Std(i, table)[k] = i[k] \/ Overwritten(i, k)
<1> DEFINE one == dup2(parent, i[1], 0)
           two == dup2(one, i[2], 1)
<1>1. i[1] \in -1 .. 9 /\ i[2] \in -1 .. 9 /\ i[3] \in -1 .. 9
  BY DEF Descriptors3
<1>2. parent \in Tables /\ \A m \in 0 .. 9 : parent[m] = m
  BY Zenon DEF Tables
<1>3. /\ one \in Tables
      /\ i[1] # -1 => one[0] = i[1]
      /\ i[1] = -1 => one[0] = 0
      /\ \A m \in 0 .. 9 : m # 0 => one[m] = m
  BY <1>1, <1>2, Dup2
<1>4. /\ two \in Tables
      /\ i[2] # -1 => two[1] = one[i[2]]
      /\ i[2] = -1 => two[1] = one[1]
      /\ \A m \in 0 .. 9 : m # 1 => two[m] = one[m]
  <2> HIDE DEF one
  <2> QED
    BY <1>1, <1>3, Dup2
<1>5. /\ table \in Tables
      /\ i[3] # -1 => table[2] = two[i[3]]
      /\ \A m \in 0 .. 9 : m # 2 => table[m] = two[m]
  <2>1. table = dup2(two, i[3], 2)
    BY Zenon
  <2> HIDE DEF two
  <2> QED
    BY <1>1, <1>4, <2>1, Dup2
<1> HIDE DEF one, two
<1>6. Std(i, table) \in [1 .. 3 -> -2 .. 9]
  BY <1>5 DEF Std, Tables
<1>7. ASSUME os # "windows" PROVE \A k \in 1 .. 3 : Std(i, table)[k] = i[k] \/ Overwritten(i, k)
  <2>1. i[1] # -1 => table[0] = i[1]
    BY <1>3, <1>4, <1>5
  <2>2. i[2] # -1 => table[1] = i[2] \/ (i[1] \notin {-1, 0} /\ i[2] = 0)
    BY <1>1, <1>3, <1>4, <1>5
  <2>3. i[3] # -1 => \/ table[2] = i[3]
                     \/ i[1] \notin {-1, 0} /\ i[3] = 0
                     \/ i[2] \notin {-1, 1} /\ i[3] = 1
    BY <1>1, <1>3, <1>4, <1>5
  <2>4. Std(i, table)[1] = i[1]
    BY <2>1 DEF Std
  <2>5. Std(i, table)[2] = i[2] \/ Overwritten(i, 2)
    BY <1>7, <2>2 DEF Std, Overwritten
  <2>6. Std(i, table)[3] = i[3] \/ Overwritten(i, 3)
    BY <1>7, <2>3 DEF Std, Overwritten
  <2>7. \A k \in 1 .. 3 : k = 1 \/ k = 2 \/ k = 3
    OBVIOUS
  <2> QED
    BY Zenon, <2>4, <2>5, <2>6, <2>7
<1> QED
  BY Zenon, <1>6, <1>7

\* A time and its timespec.
LEMMA Timespecs ==
  ASSUME NEW n \in Nat
  PROVE  /\ Timespec(n) \in Times3
         /\ Timespec(n).sec * Part + Timespec(n).nsec = n
         /\ Timespec(n).nsec \in 0 .. Part - 1 /\ Timespec(n).sec \in Nat
<1>1. Part \in Nat \ {0}
  BY Zenon, ProcessesAssumption
<1>2. (n \div Part) * Part + (n % Part) = n
  BY <1>1
<1>3. (n % Part) \in 0 .. Part - 1 /\ n \div Part \in Nat
  BY <1>1
<1> QED
  BY <1>1, <1>2, <1>3 DEF Timespec, Times3

\* _fftimespec_addms() carries to the seconds.
LEMMA AddMs ==
  ASSUME NEW n \in Nat, NEW ms \in Nat, NEW ts, ts = _fftimespec_addms(Timespec(n), ms)
  PROVE  /\ ts \in Times3 /\ ts.nsec < Part
         /\ ts.sec * Part + ts.nsec = n + ms
<1>1. Part \in Nat \ {0}
  BY Zenon, ProcessesAssumption
<1> DEFINE a == Timespec(n)
           q == ms \div Part
           r == ms % Part
<1>2. q * Part + r = ms /\ r \in 0 .. Part - 1 /\ q \in Nat
  BY <1>1
<1>3. a.sec * Part + a.nsec = n /\ a.nsec \in 0 .. Part - 1 /\ a.sec \in Nat
  BY Zenon, Timespecs
<1>4. /\ a.nsec + r >= Part => ts = [sec |-> a.sec + q + 1, nsec |-> a.nsec + r - Part]
      /\ ~(a.nsec + r >= Part) => ts = [sec |-> a.sec + q, nsec |-> a.nsec + r]
  <2>1. ts = _fftimespec_addms(a, ms)
    BY Zenon
  <2> HIDE DEF a
  <2> QED
    BY <1>1, <1>2, <1>3, <2>1 DEF _fftimespec_addms
<1> HIDE DEF a, q, r
<1>5. /\ (a.sec + q) * Part = a.sec * Part + q * Part
      /\ (a.sec + q + 1) * Part = a.sec * Part + q * Part + Part
      /\ a.sec * Part \in Nat /\ q * Part \in Nat
  BY <1>1, <1>2, <1>3
<1> QED
  BY <1>1, <1>2, <1>3, <1>4, <1>5 DEF Times3

\* How a wait may be done, and how it has to be for a given time.
Hows == [wait : {"try", "forever", "until", "invalid"}, until : Times3]
Fits(what, ms, how) ==
  /\ how.wait = "try" => ms = 0 \/ (what = "process" /\ os # "windows" /\ ms # -1)
  /\ how.wait = "until" => ms # -1 /\ how.until.sec * Part + how.until.nsec = now + ms
  /\ how.wait = "invalid" => os = "apple" /\ what = "sem" /\ ms > 0

\* The semaphore of Linux is waited for in whole seconds only.
InSeconds == "linux" \in Systems => \A ms \in SemTimeouts : ms = -1 \/ ms % Part = 0

\* A wait until the current time plus the interval waits its time.
LEMMA UntilFits ==
  ASSUME NEW ts \in Times3, ts.nsec < Part, NEW ms \in Nat,
         ts.sec * Part + ts.nsec = now + ms, NEW what
  PROVE  Until(ts) \in Hows /\ Fits(what, ms, Until(ts))
<1>1. Until(ts) = [wait |-> "until", until |-> ts]
  BY Zenon DEF Until
<1> QED
  BY <1>1 DEF Hows, Fits

\* A wait without a limit and one that does not block fit the calls that ask for them.
LEMMA EasyFits ==
  ASSUME NEW what, NEW ms \in Nat \cup {-1}
  PROVE  /\ Forever \in Hows /\ Fits(what, ms, Forever)
         /\ Try \in Hows
         /\ ms = 0 => Fits(what, ms, Try)
         /\ what = "process" /\ os # "windows" /\ ms # -1 => Fits(what, ms, Try)
<1>1. Forever.wait = "forever" /\ Try.wait = "try"
  BY Zenon DEF Forever, Try
<1>2. Forever \in Hows /\ Try \in Hows
  BY DEF Forever, Try, Hows, Times3
<1>3. Fits(what, ms, Forever)
  BY Zenon, <1>1 DEF Fits
<1>4. ms = 0 => Fits(what, ms, Try)
  BY Zenon, <1>1 DEF Fits
<1>5. what = "process" /\ os # "windows" /\ ms # -1 => Fits(what, ms, Try)
  BY Zenon, <1>1 DEF Fits
<1> QED
  BY Zenon, <1>2, <1>3, <1>4, <1>5

\* WaitForSingleObject() with the milliseconds of the call waits its time.
LEMMA WindowsFits ==
  ASSUME TypeOK, NEW ms \in Nat \cup {-1}, NEW what
  PROVE  WaitForSingleObject(ms) \in Hows /\ Fits(what, ms, WaitForSingleObject(ms))
<1>1. CASE ms = -1
  BY Zenon, <1>1, EasyFits DEF WaitForSingleObject
<1>2. CASE ms # -1
  <2>1. ms \in Nat /\ now + ms \in Nat /\ now \in Nat
    BY <1>2 DEF TypeOK
  <2> DEFINE ts == Timespec(now + ms)
  <2>2. /\ ts \in Times3 /\ ts.sec * Part + ts.nsec = now + ms
        /\ ts.nsec \in 0 .. Part - 1
    BY Zenon, <2>1, Timespecs
  <2>3. ts.nsec < Part
    BY <2>2, ProcessesAssumption
  <2>4. WaitForSingleObject(ms) = Until(ts)
    BY Zenon, <1>2 DEF WaitForSingleObject
  <2> HIDE DEF ts
  <2> QED
    BY Zenon, <2>1, <2>2, <2>3, <2>4, UntilFits
<1> QED
  BY Zenon, <1>1, <1>2

\* ffthread_join(): the wait each system is asked for fits the interval of the call.
LEMMA ThreadFits ==
  ASSUME TypeOK, NEW ms \in Nat \cup {-1}
  PROVE  HowThread(ms) \in Hows /\ Fits("thread", ms, HowThread(ms))
<1>1. CASE os = "windows"
  BY Zenon, <1>1, WindowsFits DEF HowThread, ffthread_join_win
<1>2. CASE os # "windows" /\ os = "linux" /\ ms > 0
  <2>1. ms \in Nat /\ ms # -1 /\ ms # 0 /\ now \in Nat
    BY <1>2 DEF TypeOK
  <2> DEFINE ts == _fftimespec_addms(Timespec(now), ms)
  <2>2. ts \in Times3 /\ ts.nsec < Part /\ ts.sec * Part + ts.nsec = now + ms
    BY Zenon, <2>1, AddMs
  <2>3. HowThread(ms) = Until(ts)
    BY Zenon, <1>2, <2>1 DEF HowThread, ffthread_join_unix
  <2> HIDE DEF ts
  <2> QED
    BY Zenon, <2>1, <2>2, <2>3, UntilFits
<1>3. CASE os # "windows" /\ ~(os = "linux" /\ ms > 0)
  <2>0. ms = -1 \/ ms = 0 \/ os # "linux"
    BY <1>3
  <2>1. HowThread(ms) = Forever \/ (HowThread(ms) = Try /\ ms = 0)
    BY Zenon, <1>3, <2>0 DEF HowThread, ffthread_join_unix
  <2> QED
    BY Zenon, <2>1, EasyFits
<1> QED
  BY Zenon, <1>1, <1>2, <1>3

\* ffps_wait(): the wait each system is asked for fits the interval of the call.
LEMMA ProcessFits ==
  ASSUME TypeOK, NEW ms \in Nat \cup {-1}
  PROVE  HowProcess(ms) \in Hows /\ Fits("process", ms, HowProcess(ms))
<1>1. CASE os = "windows"
  BY Zenon, <1>1, WindowsFits DEF HowProcess, ffps_wait_win
<1>2. CASE os # "windows"
  BY Zenon, <1>2, EasyFits DEF HowProcess, ffps_wait_unix
<1> QED
  BY Zenon, <1>1, <1>2

\* On Linux the nanoseconds are added without a carry: there is none to carry
\* when whole seconds are added.
LEMMA SemFits ==
  ASSUME TypeOK, NEW ms \in Nat \cup {-1}
  PROVE  /\ HowSem(ms) \in Hows
         /\ (os = "linux" => ms = -1 \/ ms % Part = 0) => Fits("sem", ms, HowSem(ms))
<1>1. CASE os = "windows"
  BY Zenon, <1>1, WindowsFits DEF HowSem, ffsem_wait_win
<1>2. CASE os = "apple"
  <2>1. \/ HowSem(ms) = Try /\ ms = 0
        \/ HowSem(ms) = Forever
        \/ HowSem(ms) = [Forever EXCEPT !.wait = "invalid"] /\ ms # 0 /\ ms # -1
    BY <1>2 DEF HowSem, ffsem_wait_apple
  <2>2. CASE HowSem(ms) = [Forever EXCEPT !.wait = "invalid"] /\ ms # 0 /\ ms # -1
    BY <1>2, <2>2 DEF Forever, Hows, Fits, Times3
  <2> QED
    BY Zenon, <2>1, <2>2, EasyFits
<1>3. CASE os = "linux" /\ ms \in {0, -1}
  BY Zenon, <1>3, EasyFits DEF HowSem, ffsem_wait_linux
<1>4. CASE os = "linux" /\ ms \notin {0, -1}
  <2>1. ms \in Nat /\ now \in Nat /\ Part \in Nat \ {0}
    BY Zenon, <1>4, ProcessesAssumption DEF TypeOK
  <2> DEFINE q == ms \div Part
             r == ms % Part
             p == now \div Part
             s == now % Part
             ts == [sec |-> p + q, nsec |-> s + r]
  <2>2. HowSem(ms) = Until(ts)
    BY Zenon, <1>4 DEF HowSem, ffsem_wait_linux
  <2>3. /\ q * Part + r = ms /\ r \in Nat /\ q \in Nat
        /\ p * Part + s = now /\ s \in 0 .. Part - 1 /\ p \in Nat
    BY <2>1
  <2>4. (p + q) * Part = p * Part + q * Part /\ p * Part \in Nat /\ q * Part \in Nat
    <3> HIDE DEF p, q
    <3> QED
      BY <2>1, <2>3
  <2>5. ts \in Times3 /\ ts.sec = p + q /\ ts.nsec = s + r
    BY <2>3 DEF Times3
  <2>6. Until(ts) \in Hows
    BY Zenon, <2>5 DEF Until, Hows
  <2>7. ASSUME r = 0 PROVE ts.nsec < Part /\ ts.sec * Part + ts.nsec = now + ms
    <3> HIDE DEF p, q, r, s, ts
    <3> QED
      BY <2>1, <2>3, <2>4, <2>5, <2>7
  <2> HIDE DEF ts
  <2>8. r = 0 => Fits("sem", ms, Until(ts))
    BY Zenon, <2>1, <2>5, <2>7, UntilFits
  <2> QED
    BY Zenon, <1>4, <2>1, <2>2, <2>6, <2>8
<1> QED
  BY Zenon, <1>1, <1>2, <1>3, <1>4, ProcessesAssumption DEF TypeOK

\* What a wait begins with.
LEMMA WaitBegins ==
  ASSUME TypeOK, NEW t \in Threads, Wait(t)
  PROVE  \E what \in {"process", "thread", "sem"}, ms \in Nat \cup {-1}, how \in Hows :
            BeginWait(t, what, ms, how) /\ (InSeconds => Fits(what, ms, how))
<1>0. Timeouts \subseteq Nat \cup {-1} /\ SemTimeouts \subseteq Nat \cup {-1}
  BY Zenon, ProcessesAssumption
<1>1. ASSUME NEW ms \in Timeouts, BeginWait(t, "process", ms, HowProcess(ms))
      PROVE  \E how \in Hows : BeginWait(t, "process", ms, how) /\ Fits("process", ms, how)
  BY Zenon, <1>0, <1>1, ProcessFits
<1>2. ASSUME NEW ms \in Timeouts, BeginWait(t, "thread", ms, HowThread(ms))
      PROVE  \E how \in Hows : BeginWait(t, "thread", ms, how) /\ Fits("thread", ms, how)
  BY Zenon, <1>0, <1>2, ThreadFits
<1>3. ASSUME NEW ms \in SemTimeouts, BeginWait(t, "sem", ms, HowSem(ms))
      PROVE  \E how \in Hows : BeginWait(t, "sem", ms, how) /\ (InSeconds => Fits("sem", ms, how))
  <2>1. os \in Systems /\ ms \in Nat \cup {-1}
    BY Zenon, <1>0 DEF TypeOK
  <2>2. InSeconds => (os = "linux" => ms = -1 \/ ms % Part = 0)
    BY Zenon, <2>1 DEF InSeconds
  <2>3. HowSem(ms) \in Hows /\ (InSeconds => Fits("sem", ms, HowSem(ms)))
    BY Zenon, <2>1, <2>2, SemFits
  <2> QED
    BY Zenon, <1>3, <2>3
<1> QED
  BY Zenon, <1>0, <1>1, <1>2, <1>3 DEF Wait

-----------------------------------------------------------------------------
(* The types are kept                                                      *)

\* The states of a child that ends, or is waited for, stay states of a child.
LEMMA ChildType ==
  ASSUME TypeOK, NEW t \in Threads, NEW s \in {"ended", "gone"}, NEW c \in Int
  PROVE  /\ [child EXCEPT ![t].state = s, ![t].code = c] \in [Threads -> Child]
         /\ [child EXCEPT ![t].state = s] \in [Threads -> Child]
BY ZenonT(60) DEF TypeOK, Child

\* What a thread passes, on any system, is a triple of descriptors.
LEMMA InfoType ==
  ASSUME TypeOK, NEW t \in Threads, NEW i \in Infos[os][t]
  PROVE  i \in Descriptors3
<1>1. os \in {"linux", "apple", "windows"}
  BY Zenon, ProcessesAssumption DEF TypeOK
<1>2. Infos[os][t] \subseteq [1 .. 3 -> -1 .. 9]
  BY Zenon, <1>1, ProcessesAssumption
<1> QED
  BY Zenon, <1>2 DEF Descriptors3

\* The record of a thread that begins to pass handles.
LEMMA PassType ==
  ASSUME NEW i \in Descriptors3
  PROVE  [Idle EXCEPT !.at = "inherit", !.info = i, !.step = 1] \in Waiter
<1>1. \A w \in Waiter : [w EXCEPT !.step = 1] \in Waiter
  <2>1. 1 \in 0 .. 3
    OBVIOUS
  <2> QED
    BY Zenon, <2>1 DEF Waiter
<1>2. [Idle EXCEPT !.at = "inherit", !.info = i] \in Waiter
  BY Zenon, IdleType DEF Waiter
<1>3. [[Idle EXCEPT !.at = "inherit", !.info = i] EXCEPT !.step = 1] \in Waiter
  BY Zenon, <1>1, <1>2
<1> QED
  BY Zenon, <1>3

\* The record of a thread that begins to wait.
NewWait(what, ms, how) ==
  [Idle EXCEPT !.at = "wait", !.what = what, !.wait = how.wait, !.until = how.until,
               !.time = ms, !.since = now]

\* The record of a wait holds what the call was given and when it began.
LEMMA WaiterType ==
  ASSUME TypeOK, NEW what \in {"process", "thread", "sem"}, NEW ms \in Nat \cup {-1}, NEW how \in Hows
  PROVE  /\ NewWait(what, ms, how) \in Waiter
         /\ NewWait(what, ms, how).at = "wait" /\ NewWait(what, ms, how).what = what
         /\ NewWait(what, ms, how).wait = how.wait /\ NewWait(what, ms, how).until = how.until
         /\ NewWait(what, ms, how).time = ms /\ NewWait(what, ms, how).since = now
<1>1. how.wait \in {"try", "forever", "until", "invalid"} /\ how.until \in Times3
  BY Zenon DEF Hows
<1>2. ms \in Int /\ now \in Nat
  BY DEF TypeOK
<1> QED
  BY Zenon, <1>1, <1>2, IdleType DEF Waiter, NewWait

\* Every step of a thread, a child and the clock keeps the types.
LEMMA TypeStep ==
  ASSUME TypeOK, OwnHandles, [Next]_vars
  PROVE  TypeOK'
<1> USE DEF TypeOK
<1>1. ASSUME NEW t \in Threads, ffps_exec_info_unix(t) PROVE TypeOK'
  <2>1. UNCHANGED <<os, now, inherit, worker>>
    BY Zenon, <1>1 DEF ffps_exec_info_unix
  <2>2. CASE Begin(t, [Idle EXCEPT !.ret = "error"]) /\ UNCHANGED child
    <3>1. [Idle EXCEPT !.ret = "error"] \in Waiter
      BY Zenon, IdleType DEF Waiter
    <3>2. thr' \in [Threads -> Waiter]
      BY Zenon, <2>2, <3>1, BeginType
    <3> QED
      BY Zenon, <2>1, <2>2, <3>2
  <2>3. ASSUME NEW i \in Infos[os][t], Begin(t, Idle),
               LET parent == [fd \in 0 .. 9 |-> fd]
                   table == dup2(dup2(dup2(parent, i[1], 0), i[2], 1), i[3], 2)
               IN Start(t, i, Std(i, table))
        PROVE  TypeOK'
    <3>1. thr' \in [Threads -> Waiter]
      BY Zenon, <2>3, IdleType, BeginType
    <3>2. PICK table : table = dup2(dup2(dup2([fd \in 0 .. 9 |-> fd], i[1], 0), i[2], 1), i[3], 2)
                       /\ Start(t, i, Std(i, table))
      BY Zenon, <2>3
    <3>3. Std(i, table) \in [1 .. 3 -> -2 .. 9] /\ i \in Descriptors3
      BY Zenon, <3>2, Dups, InfoType
    <3>4. PICK failed \in BOOLEAN :
            child' = [child EXCEPT ![t] = [state |-> IF failed THEN "ended" ELSE "running",
                        code |-> IF failed THEN 255 ELSE 0, info |-> i, std |-> Std(i, table),
                        inherits |-> {}]]
      BY Zenon, <3>2 DEF Start
    <3>5. [state |-> IF failed THEN "ended" ELSE "running",
           code |-> IF failed THEN 255 ELSE 0, info |-> i, std |-> Std(i, table),
                        inherits |-> {}] \in Child
      BY <3>3 DEF Child
    <3>6. child' \in [Threads -> Child]
      BY ZenonT(60), <3>4, <3>5
    <3> QED
      BY Zenon, <2>1, <3>1, <3>6
  <2> QED
    BY Zenon, <1>1, <2>2, <2>3 DEF ffps_exec_info_unix
<1>2. ASSUME NEW t \in Threads, ffps_exec_info_win(t) PROVE TypeOK'
  <2>1. UNCHANGED <<os, now, inherit, child, worker>>
    BY Zenon, <1>2 DEF ffps_exec_info_win
  <2>2. [Idle EXCEPT !.ret = "error"] \in Waiter
    BY Zenon, IdleType DEF Waiter
  <2>3. \A i \in Infos[os][t] : [Idle EXCEPT !.at = "inherit", !.info = i, !.step = 1] \in Waiter
    <3> TAKE i \in Infos[os][t]
    <3>1. i \in Descriptors3
      BY Zenon, InfoType
    <3> QED
      BY Zenon, <3>1, PassType
  <2>4. thr' \in [Threads -> Waiter]
    BY Zenon, <1>2, <2>2, <2>3, BeginType DEF ffps_exec_info_win
  <2> QED
    BY Zenon, <2>1, <2>4
<1>3. ASSUME NEW t \in Threads, SetInherit(t) PROVE TypeOK'
  <2>1. thr[t].step \in 0 .. 3
    BY Zenon DEF Waiter
  <2>2. (thr[t].step % 3) + 1 \in 0 .. 3
    BY <2>1
  <2>3. thr' \in [Threads -> Waiter]
    BY <1>3, <2>2 DEF SetInherit, Waiter
  <2>4. thr[t].info[thr[t].step] \in Int
    <3>1. thr[t].step \in 1 .. 3 /\ thr[t].info \in Descriptors3
      BY Zenon, <1>3 DEF SetInherit, OwnHandles, Passing, Waiter
    <3> QED
      BY <3>1 DEF Descriptors3
  <2>5. inherit' \in SUBSET Int
    BY Zenon, <1>3, <2>4 DEF SetInherit
  <2> QED
    BY Zenon, <1>3, <2>3, <2>5 DEF SetInherit
<1>4. ASSUME NEW t \in Threads, CreateProcessW(t) PROVE TypeOK'
  <2>1. thr' \in [Threads -> Waiter]
    BY <1>4 DEF CreateProcessW, Waiter
  <2>2. thr[t].info \in Descriptors3
    BY Zenon DEF Waiter
  <2>3. Inherited(thr[t].info) \in [1 .. 3 -> -2 .. 9]
    BY <2>2 DEF Inherited, Descriptors3
  <2>4. child' \in [Threads -> Child]
    <3>1. Created(thr[t].info) \in Child
      BY <2>2, <2>3 DEF Child, Created
    <3> QED
      BY Zenon, <1>4, <3>1 DEF CreateProcessW
  <2> QED
    BY Zenon, <1>4, <2>1, <2>4 DEF CreateProcessW
<1>5. ASSUME NEW t \in Threads, ClearInherit(t) PROVE TypeOK'
  <2>1. thr[t].step \in 0 .. 3 /\ thr[t] \in Waiter
    BY Zenon DEF Waiter
  <2>2. [Idle EXCEPT !.ret = thr[t].ret, !.left = thr[t].left] \in Waiter
    BY Zenon, <2>1, IdleType DEF Waiter
  <2>3. thr[t].step # 3 => [thr[t] EXCEPT !.step = thr[t].step + 1] \in Waiter
    BY <2>1 DEF Waiter
  <2>4. thr' \in [Threads -> Waiter]
    BY Zenon, <1>5, <2>2, <2>3 DEF ClearInherit
  <2> QED
    BY Zenon, <1>5, <2>4 DEF ClearInherit
<1>6. ASSUME NEW t \in Threads, ffps_kill(t) PROVE TypeOK'
  <2>1. thr' \in [Threads -> Waiter]
    BY Zenon, <1>6, IdleType, BeginType DEF ffps_kill
  <2>2. Killed \in Int
    BY DEF Killed
  <2>3. child' \in [Threads -> Child]
    BY Zenon, <1>6, <2>2, ChildType DEF ffps_kill
  <2> QED
    BY Zenon, <1>6, <2>1, <2>3 DEF ffps_kill
<1>7. ASSUME NEW t \in Threads, Wait(t) PROVE TypeOK'
  <2>1. PICK what \in {"process", "thread", "sem"}, ms \in Nat \cup {-1}, how \in Hows :
               BeginWait(t, what, ms, how)
    BY Zenon, <1>7, WaitBegins
  <2>2. NewWait(what, ms, how) \in Waiter /\ Begin(t, NewWait(what, ms, how))
    BY Zenon, <2>1, WaiterType DEF BeginWait, NewWait
  <2>3. thr' \in [Threads -> Waiter]
    BY Zenon, <2>2, BeginType
  <2> QED
    BY Zenon, <2>1, <2>3 DEF BeginWait
<1>8. ASSUME NEW t \in Threads, WaitSuccess(t) PROVE TypeOK'
  <2>1. child[t].code \in Int /\ worker.code \in Int
    BY Zenon DEF Child
  <2>2. PICK c \in Int : Returned(t, "ok", c)
    BY <1>8, <2>1 DEF WaitSuccess
  <2>3. thr' \in [Threads -> Waiter]
    BY Zenon, <2>2, ReturnedType
  <2>4. child' \in [Threads -> Child]
    BY Zenon, <1>8, ChildType DEF WaitSuccess
  <2>5. worker' \in [state : {"running", "ended", "gone"}, code : Int]
    BY Zenon, <1>8 DEF WaitSuccess
  <2> QED
    BY Zenon, <1>8, <2>3, <2>4, <2>5 DEF WaitSuccess
<1>9. ASSUME NEW t \in Threads, WaitFailure(t) PROVE TypeOK'
  <2>1. thr' \in [Threads -> Waiter]
    BY <1>9, ReturnedType DEF WaitFailure
  <2> QED
    BY Zenon, <1>9, <2>1 DEF WaitFailure
<1>10. ASSUME NEW t \in Threads, Interrupt(t) PROVE TypeOK'
  BY Zenon, <1>10 DEF Interrupt
<1>11. ASSUME NEW t \in Threads, ffsem_post(t) PROVE TypeOK'
  <2>1. thr' \in [Threads -> Waiter]
    BY Zenon, <1>11, IdleType, BeginType DEF ffsem_post
  <2> QED
    BY Zenon, <1>11, <2>1 DEF ffsem_post
<1>12. ASSUME NEW t \in Threads, ChildEnds(t) PROVE TypeOK'
  <2>1. child' \in [Threads -> Child]
    <3>1. PICK c \in {0, 7} : child' = [child EXCEPT ![t].state = "ended", ![t].code = c]
      BY Zenon, <1>12 DEF ChildEnds
    <3>2. c \in Int
      OBVIOUS
    <3> QED
      BY Zenon, <3>1, <3>2, ChildType
  <2> QED
    BY Zenon, <1>12, <2>1 DEF ChildEnds
<1>13. CASE WorkerEnds
  BY <1>13 DEF WorkerEnds
<1>14. CASE Tick
  BY <1>14 DEF Tick
<1>15. CASE UNCHANGED vars
  BY Zenon, <1>15 DEF vars
<1> QED
  BY Zenon, <1>1, <1>2, <1>3, <1>4, <1>5, <1>6, <1>7, <1>8, <1>9, <1>10, <1>11, <1>12, <1>13, <1>14, <1>15
     DEF Next, Step, _ffps_exec_cmdln, Return, Finished

-----------------------------------------------------------------------------
(* Inheritable handles                                                     *)

\* Steps that leave the handles alone and start or end no call that passes them.
Calm ==
  /\ UNCHANGED <<os, inherit, met>>
  /\ \A t \in Threads : thr'[t] = thr[t] \/ (~Passing(t) /\ ~Passing(t)')

\* A step that changes neither the handles in use nor the inheritable ones.
LEMMA CalmStep ==
  ASSUME OwnHandles, Accounted, StillThere, AllMet, Calm
  PROVE  OwnHandles' /\ Accounted' /\ StillThere' /\ AllMet'
<1>1. OwnHandles'
  BY Zenon DEF OwnHandles, Calm, Passing
<1>2. Accounted'
  BY DEF Accounted, Calm, Exposed, Passing
<1>3. StillThere'
  BY Zenon DEF StillThere, Calm, Exposed, Passing
<1>4. AllMet'
  BY Zenon DEF AllMet, Calm, Passing
<1> QED
  BY Zenon, <1>1, <1>2, <1>3, <1>4

\* Most steps are calm.
LEMMA MostAreCalm ==
  ASSUME TypeOK, [Next]_vars,
         \A t \in Threads : ~_ffps_exec_cmdln(t) /\ ~ffps_exec_info_win(t)
  PROVE  Calm
<1>1. ASSUME NEW t \in Threads, NEW new \in Waiter, Begin(t, new), new.at \in {"idle", "wait"},
             UNCHANGED <<os, inherit, met>>
      PROVE  Calm
  <2>1. /\ thr[t].at = "idle" /\ thr'[t] = [new EXCEPT !.left = thr[t].left - 1]
        /\ \A u \in Threads : u # t => thr'[u] = thr[u]
    BY Zenon, <1>1, BeginType
  <2>2. thr'[t].at = new.at
    BY Zenon, <2>1 DEF Waiter
  <2> QED
    BY Zenon, <1>1, <2>1, <2>2 DEF Calm, Passing
<1>2. ASSUME NEW t \in Threads, NEW r \in {"ok", "timeout", "invalid"}, NEW c \in Int,
             Returned(t, r, c), thr[t].at = "wait", UNCHANGED <<os, inherit, met>>
      PROVE  Calm
  BY Zenon, <1>2, ReturnedType DEF Calm, Passing
<1>3. /\ Idle \in Waiter /\ Idle.at = "idle"
      /\ [Idle EXCEPT !.ret = "error"] \in Waiter /\ [Idle EXCEPT !.ret = "error"].at = "idle"
  BY Zenon, IdleType DEF Waiter, Idle
<1>4. ASSUME NEW t \in Threads, ffps_exec_info_unix(t) PROVE Calm
  BY Zenon, <1>1, <1>3, <1>4 DEF ffps_exec_info_unix
<1>5. ASSUME NEW t \in Threads, ffps_kill(t) PROVE Calm
  BY Zenon, <1>1, <1>3, <1>5 DEF ffps_kill
<1>6. ASSUME NEW t \in Threads, Wait(t) PROVE Calm
  <2>1. PICK what \in {"process", "thread", "sem"}, ms \in Nat \cup {-1}, how \in Hows :
               BeginWait(t, what, ms, how)
    BY Zenon, <1>6, WaitBegins
  <2>2. NewWait(what, ms, how) \in Waiter /\ NewWait(what, ms, how).at = "wait"
    BY WaiterType
  <2>3. Begin(t, NewWait(what, ms, how)) /\ UNCHANGED <<os, inherit, met>>
    BY Zenon, <2>1 DEF BeginWait, NewWait
  <2> QED
    BY Zenon, <1>1, <2>2, <2>3
<1>7. ASSUME NEW t \in Threads, WaitSuccess(t) PROVE Calm
  <2>1. child[t].code \in Int /\ worker.code \in Int
    BY Zenon DEF TypeOK, Child
  <2>2. PICK c \in Int : Returned(t, "ok", c)
    BY <1>7, <2>1 DEF WaitSuccess
  <2> QED
    BY Zenon, <1>2, <1>7, <2>2 DEF WaitSuccess
<1>8. ASSUME NEW t \in Threads, WaitFailure(t) PROVE Calm
  BY <1>2, <1>8 DEF WaitFailure
<1>9. ASSUME NEW t \in Threads, ffsem_post(t) PROVE Calm
  BY Zenon, <1>1, <1>3, <1>9 DEF ffsem_post
<1>10. ASSUME UNCHANGED <<os, inherit, met, thr>> PROVE Calm
  BY Zenon, <1>10 DEF Calm
<1> QED
  BY Zenon, <1>4, <1>5, <1>6, <1>7, <1>8, <1>9, <1>10
     DEF Next, Step, Return, Interrupt, ChildEnds, WorkerEnds, Tick, Finished, vars

\* What is exposed at each place of the call.
LEMMA WhatIsExposed ==
  ASSUME NEW t
  PROVE  /\ thr[t].at = "inherit" => Exposed(t) = 1 .. (thr[t].step - 1)
         /\ thr[t].at = "create" => Exposed(t) = 1 .. 3
         /\ thr[t].at = "clear" => Exposed(t) = thr[t].step .. 3
         /\ ~Passing(t) => Exposed(t) = {}
BY Zenon DEF Exposed, Passing

\* The same after a step.
LEMMA WhatIsExposedNext ==
  ASSUME NEW t
  PROVE  /\ thr'[t].at = "inherit" => Exposed(t)' = 1 .. (thr'[t].step - 1)
         /\ thr'[t].at = "create" => Exposed(t)' = 1 .. 3
         /\ thr'[t].at = "clear" => Exposed(t)' = thr'[t].step .. 3
         /\ ~Passing(t)' => Exposed(t)' = {}
BY Zenon DEF Exposed, Passing

\* What the calls that run at the same time know of each other.
LEMMA MeetProperties ==
  ASSUME NEW t \in Threads, NEW i, Meet(t, i)
  PROVE  /\ \A u \in Threads : u # t => met[u] \subseteq met'[u]
         /\ \A u \in Threads : u # t /\ thr[u].at \in {"inherit", "create"} => Handles(i) \subseteq met'[u]
         /\ \A u \in Threads : Passing(u) => Handles(thr[u].info) \subseteq met'[t]
<1>1. \A u \in Threads : u # t =>
        IF thr[u].at \in {"inherit", "create"} THEN met'[u] = met[u] \cup Handles(i) ELSE met'[u] = met[u]
  BY ZenonT(60) DEF Meet
<1>2. met'[t] = UNION {Handles(thr[v].info) : v \in {w \in Threads : Passing(w)}}
  BY ZenonT(60) DEF Meet
<1> QED
  BY ZenonT(60), <1>1, <1>2

\* An inheritable handle is one that some thread passes now.
LEMMA PassedNow ==
  ASSUME OwnHandles, Accounted, NEW h \in inherit
  PROVE  \E t \in Threads : Passing(t) /\ h \in Handles(thr[t].info)
<1>1. PICK t \in Threads : h # -1 /\ \E k \in Exposed(t) : h = thr[t].info[k]
  BY Zenon DEF Accounted
<1>2. PICK k \in Exposed(t) : h = thr[t].info[k]
  BY Zenon, <1>1
<1>3. Passing(t)
  BY Zenon, <1>2, WhatIsExposed
<1>4. k \in 1 .. 3
  <2>1. thr[t].step \in 1 .. 3
    BY Zenon, <1>3 DEF OwnHandles
  <2> QED
    BY <1>2, <1>3, <2>1, WhatIsExposed DEF Passing
<1> QED
  BY Zenon, <1>1, <1>2, <1>3, <1>4 DEF Handles

\* ffps_exec_info(): a thread that begins has made no handle inheritable yet.
LEMMA BeginPassing ==
  ASSUME HandlesInv, NEW t \in Threads, ffps_exec_info_win(t)
  PROVE  OwnHandles' /\ Accounted' /\ StillThere' /\ AllMet'
<1>1. UNCHANGED <<os, inherit>> /\ os = "windows"
  BY Zenon DEF ffps_exec_info_win
<1>2. CASE Begin(t, [Idle EXCEPT !.ret = "error"]) /\ UNCHANGED met
  <2>1. [Idle EXCEPT !.ret = "error"] \in Waiter /\ [Idle EXCEPT !.ret = "error"].at = "idle"
    BY Zenon, IdleType DEF Waiter, Idle
  <2>2. /\ thr[t].at = "idle" /\ thr'[t].at = "idle"
        /\ \A u \in Threads : u # t => thr'[u] = thr[u]
    <3>1. /\ thr[t].at = "idle"
          /\ thr'[t] = [[Idle EXCEPT !.ret = "error"] EXCEPT !.left = thr[t].left - 1]
          /\ \A u \in Threads : u # t => thr'[u] = thr[u]
      BY Zenon, <1>2, <2>1, BeginType DEF HandlesInv
    <3> QED
      BY Zenon, <2>1, <3>1 DEF Idle
  <2>3. Calm
    BY Zenon, <1>1, <1>2, <2>2 DEF Calm, Passing
  <2> QED
    BY Zenon, <2>3, CalmStep DEF HandlesInv
<1>3. ASSUME NEW i \in Infos[os][t],
             Begin(t, [Idle EXCEPT !.at = "inherit", !.info = i, !.step = 1]), Meet(t, i)
      PROVE  OwnHandles' /\ Accounted' /\ StillThere' /\ AllMet'
  <2> DEFINE new == [Idle EXCEPT !.at = "inherit", !.info = i, !.step = 1]
  <2>1. new \in Waiter /\ new.at = "inherit" /\ new.info = i /\ new.step = 1
    <3>1. i \in Descriptors3
      BY Zenon, InfoType DEF HandlesInv
    <3> QED
      BY Zenon, <3>1, PassType, IdleType DEF Waiter
  <2>2. /\ thr[t].at = "idle" /\ thr'[t] = [new EXCEPT !.left = thr[t].left - 1]
        /\ \A u \in Threads : u # t => thr'[u] = thr[u]
    <3> HIDE DEF new
    <3>1. Begin(t, new)
      BY Zenon, <1>3 DEF new
    <3> QED
      BY Zenon, <2>1, <3>1, BeginType DEF HandlesInv
  <2> HIDE DEF new
  <2>3. thr'[t].at = "inherit" /\ thr'[t].info = i /\ thr'[t].step = 1
    BY Zenon, <2>1, <2>2 DEF Waiter
  <2>4. Exposed(t)' = {} /\ Exposed(t) = {} /\ \A u \in Threads : u # t => Exposed(u)' = Exposed(u)
    BY <2>2, <2>3 DEF Exposed
  <2>5. OwnHandles'
    <3>1. i \in Infos["windows"][t] /\ os' = "windows"
      BY Zenon, <1>1
    <3>2. thr'[t].at # "create" /\ thr'[t].step \in 1 .. 3
      BY <2>3
    <3>3. \A u \in Threads : u # t /\ Passing(u)' =>
            /\ thr'[u].info \in Infos["windows"][u] /\ thr'[u].step \in 1 .. 3
            /\ thr'[u].at = "create" => thr'[u].step = 1
      BY Zenon, <2>2 DEF HandlesInv, OwnHandles, Passing
    <3> QED
      BY Zenon, <2>3, <3>1, <3>2, <3>3 DEF OwnHandles
  <2>6. Accounted'
    BY <1>1, <2>2, <2>4 DEF HandlesInv, Accounted
  <2>7. /\ \A u \in Threads : u # t => met[u] \subseteq met'[u]
        /\ \A u \in Threads : u # t /\ thr[u].at \in {"inherit", "create"} => Handles(i) \subseteq met'[u]
        /\ \A u \in Threads : Passing(u) => Handles(thr[u].info) \subseteq met'[t]
    BY Zenon, <1>3, MeetProperties
  <2>8. StillThere'
    BY Zenon, <1>1, <2>2, <2>4, <2>7 DEF HandlesInv, StillThere
  <2>9. AllMet'
    <3> SUFFICES ASSUME NEW u \in Threads, NEW v \in Threads, u # v, thr'[u].at \in {"inherit", "create"},
                        Passing(v)'
                 PROVE  Handles(thr'[v].info) \subseteq met'[u]
      BY Zenon DEF AllMet
    <3>1. CASE u = t
      <4>1. thr'[v] = thr[v] /\ Passing(v)
        BY Zenon, <2>2, <3>1 DEF Passing
      <4> QED
        BY Zenon, <2>7, <3>1, <4>1
    <3>2. CASE v = t
      BY Zenon, <2>2, <2>3, <2>7, <3>2
    <3>3. CASE u # t /\ v # t
      <4>1. thr'[v] = thr[v] /\ thr'[u] = thr[u] /\ Passing(v)
        BY Zenon, <2>2, <3>3 DEF Passing
      <4>2. Handles(thr[v].info) \subseteq met[u]
        BY Zenon, <4>1 DEF HandlesInv, AllMet
      <4> QED
        BY Zenon, <2>7, <3>3, <4>1, <4>2
    <3> QED
      BY Zenon, <3>1, <3>2, <3>3
  <2> QED
    BY Zenon, <2>5, <2>6, <2>8, <2>9
<1> QED
  BY Zenon, <1>2, <1>3 DEF ffps_exec_info_win

\* SetHandleInformation(HANDLE_FLAG_INHERIT): the handle is one of the thread that sets it.
LEMMA SetPassing ==
  ASSUME HandlesInv, NEW t \in Threads, SetInherit(t)
  PROVE  OwnHandles' /\ Accounted' /\ StillThere' /\ AllMet'
<1> DEFINE k == thr[t].step
           h == thr[t].info[k]
<1>1. thr[t].at = "inherit" /\ Passing(t) /\ k \in 1 .. 3 /\ os' = os /\ met' = met
  BY Zenon DEF SetInherit, HandlesInv, OwnHandles, Passing
<1>2. inherit' = inherit \cup ({h} \ {-1})
  BY Zenon DEF SetInherit
<1>3. /\ thr'[t].at = IF k = 3 THEN "create" ELSE "inherit"
      /\ thr'[t].step = (k % 3) + 1 /\ thr'[t].info = thr[t].info
      /\ \A u \in Threads : u # t => thr'[u] = thr[u]
  BY Zenon DEF SetInherit, HandlesInv, TypeOK, Waiter
<1>4. k = 3 => thr'[t].step = 1
  BY <1>3
<1>5. k # 3 => thr'[t].step = k + 1
  BY <1>1, <1>3
<1> HIDE DEF k
<1>6. Exposed(t) = 1 .. k - 1 /\ Exposed(t)' = 1 .. k
  <2>1. Exposed(t) = 1 .. k - 1
    BY Zenon, <1>1, WhatIsExposed DEF k
  <2>2. CASE k = 3
    <3>1. thr'[t].at = "create"
      BY Zenon, <1>3, <2>2
    <3> QED
      BY Zenon, <2>1, <2>2, <3>1, WhatIsExposedNext
  <2>3. CASE k # 3
    <3>1. thr'[t].at = "inherit" /\ thr'[t].step - 1 = k
      BY <1>1, <1>3, <1>5, <2>3
    <3> QED
      BY Zenon, <2>1, <3>1, WhatIsExposedNext
  <2> QED
    BY Zenon, <2>2, <2>3
<1>7. \A u \in Threads : u # t => Exposed(u)' = Exposed(u)
  BY Zenon, <1>3 DEF Exposed
<1>8. OwnHandles'
  BY <1>1, <1>3, <1>4, <1>5 DEF HandlesInv, OwnHandles, Passing
<1>9. Accounted'
  <2> SUFFICES ASSUME NEW g \in inherit'
               PROVE  g # -1 /\ \E u \in Threads : \E m \in Exposed(u)' : g = thr'[u].info[m]
    BY Zenon DEF Accounted
  <2>1. CASE g \in inherit
    <3>0. PICK u \in Threads : \E m \in Exposed(u) : g = thr[u].info[m] /\ g # -1
      BY Zenon, <2>1 DEF HandlesInv, Accounted
    <3>1. PICK m \in Exposed(u) : g = thr[u].info[m] /\ g # -1
      BY Zenon, <3>0
    <3>2. m \in Exposed(u)' /\ thr'[u].info = thr[u].info
      BY <1>1, <1>3, <1>6, <1>7
    <3> QED
      BY Zenon, <3>1, <3>2
  <2>2. CASE g = h /\ g # -1
    <3>1. k \in Exposed(t)' /\ g = thr'[t].info[k]
      BY <1>1, <1>3, <1>6, <2>2
    <3> QED
      BY Zenon, <2>2, <3>1
  <2> QED
    BY Zenon, <1>2, <2>1, <2>2
<1>10. StillThere'
  <2> SUFFICES ASSUME NEW u \in Threads, thr'[u].at \in {"inherit", "create"}, NEW m \in Exposed(u)'
               PROVE  thr'[u].info[m] = -1 \/ thr'[u].info[m] \in inherit' \/ thr'[u].info[m] \in met'[u]
    BY Zenon DEF StillThere
  <2>1. CASE u = t
    <3>1. m \in 1 .. k - 1 \/ m = k
      BY <1>1, <1>6, <2>1
    <3> QED
      BY Zenon, <1>1, <1>2, <1>3, <1>6, <2>1, <3>1 DEF HandlesInv, StillThere
  <2>2. CASE u # t
    BY Zenon, <1>1, <1>2, <1>3, <1>7, <2>2 DEF HandlesInv, StillThere
  <2> QED
    BY Zenon, <2>1, <2>2
<1>11. AllMet'
  <2>1. \A u \in Threads :
          /\ thr'[u].at \in {"inherit", "create"} => thr[u].at \in {"inherit", "create"}
          /\ Passing(u)' => Passing(u)
          /\ thr'[u].info = thr[u].info
    BY Zenon, <1>1, <1>3 DEF Passing
  <2> QED
    BY Zenon, <1>1, <2>1 DEF HandlesInv, AllMet
<1> QED
  BY Zenon, <1>8, <1>9, <1>10, <1>11

\* CreateProcess() is called with all of the thread's handles inheritable.
LEMMA CreatePassing ==
  ASSUME HandlesInv, NEW t \in Threads, CreateProcessW(t)
  PROVE  OwnHandles' /\ Accounted' /\ StillThere' /\ AllMet'
<1>1. /\ thr[t].at = "create" /\ thr'[t].at = "clear" /\ thr'[t].info = thr[t].info
      /\ thr'[t].step = thr[t].step
      /\ \A u \in Threads : u # t => thr'[u] = thr[u]
  BY DEF CreateProcessW, HandlesInv, TypeOK, Waiter
<1>2. UNCHANGED <<os, inherit, met>> /\ thr[t].step = 1
  BY Zenon, <1>1 DEF CreateProcessW, HandlesInv, OwnHandles, Passing
<1>3. Exposed(t) = 1 .. 3 /\ Exposed(t)' = 1 .. 3
  BY Zenon, <1>1, <1>2, WhatIsExposed, WhatIsExposedNext
<1>4. \A u \in Threads : Exposed(u)' = Exposed(u) /\ thr'[u].info = thr[u].info
  BY Zenon, <1>1, <1>3 DEF Exposed
<1>5. OwnHandles'
  BY Zenon, <1>1, <1>2 DEF HandlesInv, OwnHandles, Passing
<1>6. Accounted'
  BY <1>2, <1>4 DEF HandlesInv, Accounted
<1>7. StillThere'
  BY Zenon, <1>1, <1>2, <1>4 DEF HandlesInv, StillThere
<1>8. AllMet'
  <2>1. \A u \in Threads :
          /\ thr'[u].at \in {"inherit", "create"} => thr[u].at \in {"inherit", "create"}
          /\ Passing(u)' => Passing(u)
    BY Zenon, <1>1 DEF Passing
  <2> QED
    BY Zenon, <1>2, <1>4, <2>1 DEF HandlesInv, AllMet
<1> QED
  BY Zenon, <1>5, <1>6, <1>7, <1>8

\* SetHandleInformation(0): a handle used for two streams is cleared with the first of them.
LEMMA ClearPassing ==
  ASSUME HandlesInv, NEW t \in Threads, ClearInherit(t)
  PROVE  OwnHandles' /\ Accounted' /\ StillThere' /\ AllMet'
<1> DEFINE k == thr[t].step
           h == thr[t].info[k]
<1>1. thr[t].at = "clear" /\ Passing(t) /\ k \in 1 .. 3 /\ os' = os /\ met' = met
  BY Zenon DEF ClearInherit, HandlesInv, OwnHandles, Passing
<1>2. inherit' = inherit \ {h}
  BY Zenon DEF ClearInherit
<1>3. \A u \in Threads : u # t => thr'[u] = thr[u]
  BY Zenon DEF ClearInherit, HandlesInv, TypeOK
<1>4. k = 3 => thr'[t].at = "idle"
  BY Zenon DEF ClearInherit, HandlesInv, TypeOK, Idle
<1>5. k # 3 => thr'[t].at = "clear" /\ thr'[t].info = thr[t].info /\ thr'[t].step = k + 1
  BY Zenon, <1>1 DEF ClearInherit, HandlesInv, TypeOK, Waiter
<1> HIDE DEF k
<1>6. Exposed(t) = k .. 3 /\ Exposed(t)' = (k + 1) .. 3
  <2>1. Exposed(t) = k .. 3
    BY Zenon, <1>1, WhatIsExposed DEF k
  <2>2. CASE k = 3
    <3>1. Exposed(t)' = {}
      BY Zenon, <1>4, <2>2, WhatIsExposedNext DEF Passing
    <3> QED
      BY <2>1, <2>2, <3>1
  <2>3. CASE k # 3
    BY Zenon, <1>5, <2>1, <2>3, WhatIsExposedNext
  <2> QED
    BY Zenon, <2>2, <2>3
<1>7. \A u \in Threads : u # t => Exposed(u)' = Exposed(u)
  BY Zenon, <1>3 DEF Exposed
<1>8. OwnHandles'
  BY <1>1, <1>3, <1>4, <1>5 DEF HandlesInv, OwnHandles, Passing
<1>9. Accounted'
  <2> SUFFICES ASSUME NEW g \in inherit, g # h
               PROVE  g # -1 /\ \E u \in Threads : \E m \in Exposed(u)' : g = thr'[u].info[m]
    BY Zenon, <1>2 DEF Accounted
  <2>0. PICK u \in Threads : \E m \in Exposed(u) : g = thr[u].info[m] /\ g # -1
    BY Zenon DEF HandlesInv, Accounted
  <2>1. PICK m \in Exposed(u) : g = thr[u].info[m] /\ g # -1
    BY Zenon, <2>0
  <2>2. CASE u = t
    <3>1. m \in k .. 3 /\ m # k
      BY Zenon, <1>6, <2>1, <2>2
    <3>2. m \in Exposed(t)' /\ k # 3
      BY <1>1, <1>6, <3>1
    <3> QED
      BY Zenon, <1>5, <2>1, <2>2, <3>2
  <2>3. CASE u # t
    BY Zenon, <1>3, <1>7, <2>1, <2>3
  <2> QED
    BY Zenon, <2>2, <2>3
<1>10. StillThere'
  <2> SUFFICES ASSUME NEW u \in Threads, thr'[u].at \in {"inherit", "create"}, NEW m \in Exposed(u)'
               PROVE  thr'[u].info[m] = -1 \/ thr'[u].info[m] \in inherit' \/ thr'[u].info[m] \in met'[u]
    BY Zenon DEF StillThere
  <2>1. u # t
    BY Zenon, <1>4, <1>5
  <2>2. thr'[u] = thr[u] /\ m \in Exposed(u) /\ Passing(u)
    BY Zenon, <1>3, <1>7, <2>1 DEF Passing
  <2>3. thr[u].info[m] = -1 \/ thr[u].info[m] \in inherit \/ thr[u].info[m] \in met[u]
    BY Zenon, <2>2 DEF HandlesInv, StillThere
  <2>4. h = -1 \/ h \in met[u]
    <3>1. Handles(thr[t].info) \subseteq met[u]
      BY Zenon, <1>1, <2>1, <2>2 DEF HandlesInv, AllMet
    <3> QED
      BY Zenon, <1>1, <3>1 DEF Handles
  <2> QED
    BY Zenon, <1>1, <1>2, <2>2, <2>3, <2>4
<1>11. AllMet'
  <2>1. \A u \in Threads :
          /\ thr'[u].at \in {"inherit", "create"} => thr[u].at \in {"inherit", "create"}
          /\ Passing(u)' => Passing(u) /\ thr'[u].info = thr[u].info
    BY Zenon, <1>1, <1>3, <1>4, <1>5 DEF Passing
  <2> QED
    BY Zenon, <1>1, <2>1 DEF HandlesInv, AllMet
<1> QED
  BY Zenon, <1>8, <1>9, <1>10, <1>11

\* Every step keeps the inheritable handles those of the threads that are passing them.
LEMMA HandlesStep ==
  ASSUME HandlesInv, [Next]_vars
  PROVE  HandlesInv'
<1>1. TypeOK'
  BY Zenon, TypeStep DEF HandlesInv
<1>2. CASE \E t \in Threads : _ffps_exec_cmdln(t) \/ ffps_exec_info_win(t)
  BY Zenon, <1>1, <1>2, BeginPassing, SetPassing, CreatePassing, ClearPassing DEF HandlesInv, _ffps_exec_cmdln
<1>3. CASE ~\E t \in Threads : _ffps_exec_cmdln(t) \/ ffps_exec_info_win(t)
  <2>1. Calm
    BY Zenon, <1>3, MostAreCalm DEF HandlesInv
  <2> QED
    BY Zenon, <1>1, <2>1, CalmStep DEF HandlesInv
<1> QED
  BY Zenon, <1>2, <1>3

\* The handles are passed as described, on every reachable state: for any number
\* of threads and whatever handles they pass, shared ones too.
THEOREM HandlesInvariant == Spec => []HandlesInv
<1>1. Init => HandlesInv
  <2> SUFFICES ASSUME Init PROVE HandlesInv
    BY Zenon
  <2>1. TypeOK
    <3>1. worker \in [state : {"running", "ended", "gone"}, code : Int]
      BY DEF Init
    <3> QED
      BY Zenon, <3>1, IdleType DEF Init, TypeOK
  <2>2. \A t \in Threads : thr[t].at = "idle"
    BY Zenon DEF Init, Idle
  <2> QED
    BY Zenon, <2>1, <2>2 DEF Init, HandlesInv, OwnHandles, Accounted, StillThere, AllMet, Passing
<1>2. HandlesInv /\ [Next]_vars => HandlesInv'
  BY Zenon, HandlesStep
<1> QED
  BY <1>1, <1>2, PTL DEF Spec

-----------------------------------------------------------------------------
(* What new processes get                                                  *)

\* A process inherits what it was given and what the calls beside it passed.
Given ==
  \A t \in Threads :
    /\ child[t].state = "none" => child[t].inherits = {}
    /\ child[t].inherits \subseteq Handles(child[t].info) \cup met[t]

\* A step that does not start u's process does not change what it was given.
Kept(u) ==
  /\ child'[u].info = child[u].info /\ child'[u].std = child[u].std /\ child'[u].inherits = child[u].inherits
  /\ child'[u].state = "none" <=> child[u].state = "none"

\* What a process has met is not forgotten.
LEMMA MetStep ==
  ASSUME [Next]_vars, NEW u \in Threads, child[u].state # "none"
  PROVE  met[u] \subseteq met'[u]
<1>1. ASSUME NEW t \in Threads, ffps_exec_info_win(t) PROVE met[u] \subseteq met'[u]
  <2>1. t # u
    BY Zenon, <1>1 DEF ffps_exec_info_win
  <2>2. UNCHANGED met \/ \E i : Meet(t, i)
    BY Zenon, <1>1 DEF ffps_exec_info_win
  <2>3. CASE UNCHANGED met
    BY Zenon, <2>3
  <2>4. CASE \E i : Meet(t, i)
    BY Zenon, <2>1, <2>4, MeetProperties
  <2> QED
    BY Zenon, <2>2, <2>3, <2>4
<1>2. CASE UNCHANGED met
  BY Zenon, <1>2
<1> QED
  BY Zenon, <1>1, <1>2 DEF Next, Step, ffps_exec_info_unix, _ffps_exec_cmdln, SetInherit, CreateProcessW,
         ClearInherit, ffps_kill, Wait, BeginWait, Return, WaitSuccess, WaitFailure, Interrupt, ffsem_post,
         ChildEnds, WorkerEnds, Tick, Finished, vars

\* A child gets its descriptors in the step that creates it, and no step changes them.
LEMMA ChildStep ==
  ASSUME HandlesInv, StdAsAsked, Given, [Next]_vars
  PROVE  StdAsAsked' /\ Given'
<1>0. os' = os
  BY Zenon DEF Next, Step, ffps_exec_info_unix, ffps_exec_info_win, _ffps_exec_cmdln, SetInherit, CreateProcessW,
         ClearInherit, ffps_kill, Wait, BeginWait, Return, WaitSuccess, WaitFailure, Interrupt, ffsem_post,
         ChildEnds, WorkerEnds, Tick, Finished, vars
<1> DEFINE Std1(u) == \A k \in 1 .. 3 : \/ child[u].std[k] = child[u].info[k]
                                        \/ Overwritten(child[u].info, k) \/ Shared(u, child[u].info[k])
           Given1(u) == /\ child[u].state = "none" => child[u].inherits = {}
                        /\ child[u].inherits \subseteq Handles(child[u].info) \cup met[u]
<1>1. ASSUME NEW u \in Threads, Kept(u) PROVE (child'[u].state # "none" => Std1(u)') /\ Given1(u)'
  <2>1. CASE child[u].state = "none"
    BY Zenon, <1>1, <2>1 DEF Given, Kept
  <2>2. CASE child[u].state # "none"
    <3>1. met[u] \subseteq met'[u]
      BY Zenon, <2>2, MetStep
    <3>2. Std1(u)'
      BY Zenon, <1>0, <1>1, <2>2, <3>1 DEF StdAsAsked, Kept, Overwritten, Shared
    <3> QED
      BY Zenon, <1>1, <2>2, <3>1, <3>2 DEF Given, Kept
  <2> QED
    BY Zenon, <2>1, <2>2
<1>2. child \in [Threads -> Child] /\ thr \in [Threads -> Waiter]
  BY Zenon DEF HandlesInv, TypeOK
<1>3. ASSUME \A u \in Threads : Kept(u) PROVE StdAsAsked' /\ Given'
  BY Zenon, <1>1, <1>3 DEF StdAsAsked, Given
<1>4. ASSUME NEW t \in Threads, NEW new, child' = [child EXCEPT ![t] = new], met' = met,
             \A k \in 1 .. 3 : new.std[k] = new.info[k] \/ Overwritten(new.info, k) \/ Shared(t, new.info[k]),
             new.state # "none", new.inherits \subseteq Handles(new.info) \cup met[t]
      PROVE  StdAsAsked' /\ Given'
  <2>1. child'[t] = new /\ \A u \in Threads : u # t => child'[u] = child[u]
    BY Zenon, <1>2, <1>4
  <2>2. \A u \in Threads : u # t => Kept(u)
    BY Zenon, <2>1 DEF Kept
  <2>3. Std1(t)' /\ Given1(t)'
    BY Zenon, <1>0, <1>4, <2>1 DEF Overwritten, Shared
  <2> HIDE DEF Std1, Given1
  <2>4. \A u \in Threads : (child'[u].state # "none" => Std1(u)') /\ Given1(u)'
    BY Zenon, <1>1, <2>2, <2>3
  <2> QED
    BY Zenon, <2>4 DEF StdAsAsked, Given, Std1, Given1
<1> HIDE DEF Std1, Given1
<1>10. CASE UNCHANGED child
  BY Zenon, <1>3, <1>10 DEF Kept
<1>5. ASSUME NEW t \in Threads, ffps_exec_info_unix(t), child' # child PROVE StdAsAsked' /\ Given'
  <2>1. PICK i \in Infos[os][t] :
          LET parent == [fd \in 0 .. 9 |-> fd]
              table == dup2(dup2(dup2(parent, i[1], 0), i[2], 1), i[3], 2)
          IN Start(t, i, Std(i, table))
    BY Zenon, <1>5 DEF ffps_exec_info_unix
  <2>2. PICK table : table = dup2(dup2(dup2([fd \in 0 .. 9 |-> fd], i[1], 0), i[2], 1), i[3], 2)
                     /\ Start(t, i, Std(i, table))
    BY Zenon, <2>1
  <2>3. i \in Descriptors3
    BY Zenon, InfoType DEF HandlesInv
  <2>8. os # "windows" /\ met' = met
    BY Zenon, <1>5 DEF ffps_exec_info_unix
  <2>4. \A k \in 1 .. 3 : Std(i, table)[k] = i[k] \/ Overwritten(i, k)
    BY Zenon, <2>2, <2>3, <2>8, Dups
  <2>6. PICK failed \in BOOLEAN :
          child' = [child EXCEPT ![t] = [state |-> IF failed THEN "ended" ELSE "running",
                      code |-> IF failed THEN 255 ELSE 0, info |-> i, std |-> Std(i, table),
                        inherits |-> {}]]
    BY Zenon, <2>2 DEF Start
  <2> DEFINE new == [state |-> IF failed THEN "ended" ELSE "running",
                     code |-> IF failed THEN 255 ELSE 0, info |-> i, std |-> Std(i, table),
                        inherits |-> {}]
  <2>7. /\ new.info = i /\ new.std = Std(i, table) /\ child' = [child EXCEPT ![t] = new]
        /\ new.inherits = {} /\ new.state # "none"
    BY Zenon, <2>6
  <2> HIDE DEF new
  <2> QED
    BY Zenon, <1>4, <2>4, <2>8, <2>7
<1>6. ASSUME NEW t \in Threads, CreateProcessW(t), child' # child PROVE StdAsAsked' /\ Given'
  <2>1. thr[t].at = "create" /\ thr[t].info \in Descriptors3
    BY Zenon, <1>2, <1>6 DEF CreateProcessW, Waiter
  <2>2. \A k \in 1 .. 3 : thr[t].info[k] = -1 \/ thr[t].info[k] \in inherit \/ thr[t].info[k] \in met[t]
    BY Zenon, <2>1, WhatIsExposed DEF HandlesInv, StillThere
  <2>3. os = "windows" /\ met' = met
    BY Zenon, <1>6, <2>1 DEF CreateProcessW, HandlesInv, OwnHandles, Passing
  <2> DEFINE i == thr[t].info
             new == Created(i)
  <2>4. \A k \in 1 .. 3 : Inherited(i)[k] = i[k] \/ Shared(t, i[k])
    BY Zenon, <2>2, <2>3 DEF Inherited, Shared
  <2>5. inherit \subseteq Handles(i) \cup met[t]
    <3> SUFFICES ASSUME NEW h \in inherit PROVE h \in Handles(i) \cup met[t]
      BY Zenon
    <3>1. PICK u \in Threads : Passing(u) /\ h \in Handles(thr[u].info)
      BY Zenon, PassedNow DEF HandlesInv
    <3>2. u # t => Handles(thr[u].info) \subseteq met[t]
      BY Zenon, <2>1, <3>1 DEF HandlesInv, AllMet
    <3> QED
      BY Zenon, <3>1, <3>2
  <2>6. /\ new.info = i /\ new.std = Inherited(i) /\ new.state # "none" /\ child' = [child EXCEPT ![t] = new]
        /\ new.inherits = {} \/ new.inherits = inherit
    BY Zenon, <1>6 DEF CreateProcessW, Created
  <2> HIDE DEF i, new
  <2> QED
    BY Zenon, <1>4, <2>3, <2>4, <2>5, <2>6
<1>7. ASSUME NEW t \in Threads, ffps_kill(t) PROVE StdAsAsked' /\ Given'
  <2>1. child[t].state # "none"
    BY Zenon, <1>7 DEF ffps_kill
  <2>2. child' = child \/ child' = [child EXCEPT ![t].state = "ended", ![t].code = Killed]
    BY Zenon, <1>7 DEF ffps_kill
  <2>3. \A u \in Threads : Kept(u)
    BY <1>2, <2>1, <2>2 DEF Kept, Child
  <2> QED
    BY Zenon, <1>3, <2>3
<1>8. ASSUME NEW t \in Threads, WaitSuccess(t) PROVE StdAsAsked' /\ Given'
  <2>1. CASE thr[t].what = "process"
    <3>1. child[t].state # "none"
      BY Zenon, <1>8, <2>1 DEF WaitSuccess, Happened
    <3>2. child' = [child EXCEPT ![t].state = "gone"]
      BY Zenon, <1>8, <2>1 DEF WaitSuccess
    <3>3. \A u \in Threads : Kept(u)
      BY Zenon, <1>2, <3>1, <3>2 DEF Kept, Child
    <3> QED
      BY Zenon, <1>3, <3>3
  <2>2. CASE thr[t].what # "process"
    BY Zenon, <1>10, <1>8, <2>2 DEF WaitSuccess
  <2> QED
    BY Zenon, <2>1, <2>2
<1>9. ASSUME NEW t \in Threads, ChildEnds(t) PROVE StdAsAsked' /\ Given'
  <2>1. child[t].state # "none"
    BY Zenon, <1>9 DEF ChildEnds
  <2>2. PICK c : child' = [child EXCEPT ![t].state = "ended", ![t].code = c]
    BY Zenon, <1>9 DEF ChildEnds
  <2>3. \A u \in Threads : Kept(u)
    BY Zenon, <1>2, <2>1, <2>2 DEF Kept, Child
  <2> QED
    BY Zenon, <1>3, <2>3
<1> QED
  BY Zenon, <1>10, <1>5, <1>6, <1>7, <1>8, <1>9
     DEF Next, Step, _ffps_exec_cmdln, ffps_exec_info_win, SetInherit, ClearInherit, Wait, BeginWait,
         Return, WaitFailure, Interrupt, ffsem_post, WorkerEnds, Tick, Finished, vars

\* The inductive invariant, with what the processes got.
THEOREM ChildrenInvariant == Spec => [](HandlesInv /\ StdAsAsked /\ Given)
<1>1. Init => StdAsAsked /\ Given
  <2> SUFFICES ASSUME Init PROVE StdAsAsked /\ Given
    BY Zenon
  <2>1. \A t \in Threads : child[t].state = "none" /\ child[t].inherits = {}
    BY Zenon DEF Init, NoChild
  <2> QED
    BY Zenon, <2>1 DEF StdAsAsked, Given
<1>2. HandlesInv /\ StdAsAsked /\ Given /\ [Next]_vars => StdAsAsked' /\ Given'
  BY Zenon, ChildStep
<1> QED
  BY <1>1, <1>2, HandlesInvariant, PTL DEF Spec

\* A process gets each standard descriptor that was asked for, whatever
\* descriptors are passed and whatever other threads start at the same time,
\* unless an earlier dup2() has replaced it (UNIX) or another call passes the
\* same handle at the same time (Windows).
THEOREM StdIsAsAsked == Spec => []StdAsAsked
BY ChildrenInvariant, PTL

\* A handle is inheritable only while some call passes it, and a process gets
\* only its own and those of the calls beside it: for any number of threads,
\* whatever handles they pass and however their calls interleave and fail.
THEOREM NothingLeaks == Spec => []NotInheritable
<1>1. HandlesInv /\ Given => NotInheritable
  BY Zenon, PassedNow DEF HandlesInv, Given, NotInheritable
<1> QED
  BY <1>1, ChildrenInvariant, PTL

-----------------------------------------------------------------------------
(* Waits                                                                   *)

\* A wait that goes on, or begins, fits its time; one that ends is over.
LEMMA WaitStep ==
  ASSUME InSeconds, TypeOK, OwnHandles, WaitsFit, [Next]_vars
  PROVE  WaitsFit' /\ \A t \in Threads : GaveUp(t)
<1>0. os' = os /\ now' >= now /\ now \in Nat /\ thr \in [Threads -> Waiter]
  <2>1. os' = os
    BY Zenon DEF Next, Step, ffps_exec_info_unix, ffps_exec_info_win, _ffps_exec_cmdln, SetInherit, CreateProcessW,
           ClearInherit, ffps_kill, Wait, BeginWait, Return, WaitSuccess, WaitFailure, Interrupt, ffsem_post,
           ChildEnds, WorkerEnds, Tick, Finished, vars
  <2>2. now' = now \/ now' = now + 1
    BY ZenonT(60) DEF Next, Step, ffps_exec_info_unix, ffps_exec_info_win, _ffps_exec_cmdln, SetInherit, CreateProcessW,
           ClearInherit, ffps_kill, Wait, BeginWait, Return, WaitSuccess, WaitFailure, Interrupt, ffsem_post,
           ChildEnds, WorkerEnds, Tick, Finished, vars
  <2> QED
    BY <2>1, <2>2 DEF TypeOK
<1>1. ASSUME \A u \in Threads : thr'[u] = thr[u] \/ (thr[u].at # "wait" /\ thr'[u].at # "wait")
      PROVE  WaitsFit' /\ \A t \in Threads : GaveUp(t)
  <2>1. \A u \in Threads : GaveUp(u)
    BY Zenon, <1>1 DEF GaveUp
  <2>2. ASSUME NEW u \in Threads, thr'[u].at = "wait" PROVE WaitFits(u)'
    <3>1. thr'[u] = thr[u] /\ WaitFits(u)
      BY Zenon, <1>1, <2>2 DEF WaitsFit
    <3>2. thr[u].since <= now'
      <4>1. thr[u].since \in Nat
        BY Zenon, <1>0 DEF Waiter
      <4> QED
        BY <1>0, <3>1, <4>1, TypeStep DEF WaitFits, TypeOK
    <3> QED
      BY Zenon, <1>0, <3>1, <3>2 DEF WaitFits
  <2> QED
    BY Zenon, <2>1, <2>2 DEF WaitsFit
<1>2. ASSUME NEW t \in Threads, NEW new \in Waiter, Begin(t, new), new.at # "wait"
      PROVE  WaitsFit' /\ \A u \in Threads : GaveUp(u)
  <2>1. /\ thr[t].at = "idle" /\ thr'[t] = [new EXCEPT !.left = thr[t].left - 1]
        /\ \A u \in Threads : u # t => thr'[u] = thr[u]
    BY Zenon, <1>2, BeginType
  <2>2. thr'[t].at = new.at
    BY Zenon, <2>1 DEF Waiter
  <2> QED
    BY Zenon, <1>1, <1>2, <2>1, <2>2
<1>3. /\ Idle \in Waiter /\ Idle.at = "idle"
      /\ [Idle EXCEPT !.ret = "error"] \in Waiter /\ [Idle EXCEPT !.ret = "error"].at = "idle"
  BY Zenon, IdleType DEF Waiter, Idle
<1>4. ASSUME NEW t \in Threads, NEW r \in {"ok", "timeout", "invalid"}, NEW c \in Int,
             Returned(t, r, c), thr[t].at = "wait",
             r = "invalid" => os = "apple" /\ thr[t].what = "sem" /\ thr[t].time > 0,
             r = "timeout" => /\ thr[t].time # -1
                              /\ thr[t].what = "process" \/ now >= thr[t].since + thr[t].time
      PROVE  WaitsFit' /\ \A u \in Threads : GaveUp(u)
  <2>1. /\ thr'[t].at = "idle" /\ thr'[t].ret = r
        /\ \A u \in Threads : u # t => thr'[u] = thr[u]
    BY Zenon, <1>4, ReturnedType
  <2>2. \A u \in Threads : GaveUp(u)
    BY Zenon, <1>4, <2>1 DEF GaveUp
  <2>3. UNCHANGED <<os, now>> => WaitsFit'
    BY ZenonT(60), <2>1 DEF WaitsFit, WaitFits
  <2>4. now' = now
    BY Zenon, <1>4, <2>1, <1>0 DEF Next, Step, ffps_exec_info_unix, ffps_exec_info_win, _ffps_exec_cmdln, SetInherit, CreateProcessW,
           ClearInherit, ffps_kill, Wait, BeginWait, Return, WaitSuccess, WaitFailure, Interrupt, ffsem_post,
           ChildEnds, WorkerEnds, Tick, Finished, vars
  <2> QED
    BY Zenon, <1>0, <2>2, <2>3, <2>4
<1>5. ASSUME NEW t \in Threads, ffps_exec_info_unix(t) PROVE WaitsFit' /\ \A u \in Threads : GaveUp(u)
  BY Zenon, <1>2, <1>3, <1>5 DEF ffps_exec_info_unix
<1>6. ASSUME NEW t \in Threads, ffps_exec_info_win(t) PROVE WaitsFit' /\ \A u \in Threads : GaveUp(u)
  <2>1. CASE Begin(t, [Idle EXCEPT !.ret = "error"])
    BY Zenon, <1>2, <1>3, <2>1
  <2>2. ASSUME NEW i \in Infos[os][t],
               Begin(t, [Idle EXCEPT !.at = "inherit", !.info = i, !.step = 1])
        PROVE  WaitsFit' /\ \A u \in Threads : GaveUp(u)
    <3> DEFINE new == [Idle EXCEPT !.at = "inherit", !.info = i, !.step = 1]
    <3>1. i \in Descriptors3
      BY Zenon, InfoType
    <3>2. new \in Waiter /\ new.at = "inherit" /\ Begin(t, new)
      BY Zenon, <2>2, <3>1, PassType DEF Waiter
    <3> HIDE DEF new
    <3> QED
      BY Zenon, <1>2, <3>2
  <2> QED
    BY Zenon, <1>6, <2>1, <2>2 DEF ffps_exec_info_win
<1>7. ASSUME NEW t \in Threads, _ffps_exec_cmdln(t) PROVE WaitsFit' /\ \A u \in Threads : GaveUp(u)
  <2>1. CASE SetInherit(t)
    BY Zenon, <1>0, <1>1, <2>1 DEF SetInherit, Waiter
  <2>2. CASE CreateProcessW(t)
    BY ZenonT(60), <1>0, <1>1, <2>2 DEF CreateProcessW, Waiter
  <2>3. CASE ClearInherit(t)
    <3>1. thr[t].at = "clear" /\ \A u \in Threads : u # t => thr'[u] = thr[u]
      BY Zenon, <1>0, <2>3 DEF ClearInherit
    <3>2. thr'[t].at # "wait"
      BY Zenon, <1>0, <2>3 DEF ClearInherit, Waiter, Idle
    <3> QED
      BY Zenon, <1>1, <3>1, <3>2
  <2> QED
    BY Zenon, <1>7, <2>1, <2>2, <2>3 DEF _ffps_exec_cmdln
<1>8. ASSUME NEW t \in Threads, ffps_kill(t) PROVE WaitsFit' /\ \A u \in Threads : GaveUp(u)
  BY Zenon, <1>2, <1>3, <1>8 DEF ffps_kill
<1>9. ASSUME NEW t \in Threads, Wait(t) PROVE WaitsFit' /\ \A u \in Threads : GaveUp(u)
  <2>1. PICK what \in {"process", "thread", "sem"}, ms \in Nat \cup {-1}, how \in Hows :
               BeginWait(t, what, ms, how) /\ Fits(what, ms, how)
    BY Zenon, <1>9, WaitBegins
  <2> DEFINE new == NewWait(what, ms, how)
  <2>2. /\ new \in Waiter /\ new.at = "wait" /\ new.what = what /\ new.wait = how.wait
        /\ new.until = how.until /\ new.time = ms /\ new.since = now
    BY WaiterType
  <2>3. Begin(t, new) /\ UNCHANGED <<os, now>>
    BY Zenon, <2>1 DEF BeginWait, NewWait
  <2> HIDE DEF new
  <2>4. /\ thr[t].at = "idle" /\ thr'[t] = [new EXCEPT !.left = thr[t].left - 1]
        /\ \A u \in Threads : u # t => thr'[u] = thr[u]
    BY Zenon, <2>2, <2>3, BeginType
  <2>5. /\ thr'[t].what = what /\ thr'[t].wait = how.wait /\ thr'[t].until = how.until
        /\ thr'[t].time = ms /\ thr'[t].since = now
    BY Zenon, <2>2, <2>4 DEF Waiter
  <2>6. WaitFits(t)'
    <3>1. now <= now
      BY <1>0
    <3> QED
      BY Zenon, <2>1, <2>3, <2>5, <3>1 DEF WaitFits, Fits
  <2>7. \A u \in Threads : u # t /\ thr'[u].at = "wait" => WaitFits(u)'
    BY <2>3, <2>4 DEF WaitsFit, WaitFits
  <2>8. \A u \in Threads : GaveUp(u)
    BY Zenon, <2>4 DEF GaveUp
  <2> QED
    BY Zenon, <2>6, <2>7, <2>8 DEF WaitsFit
<1>10. ASSUME NEW t \in Threads, WaitSuccess(t) PROVE WaitsFit' /\ \A u \in Threads : GaveUp(u)
  <2>1. child[t].code \in Int /\ worker.code \in Int
    BY Zenon DEF TypeOK, Child
  <2>2. PICK c \in Int : Returned(t, "ok", c)
    BY <1>10, <2>1 DEF WaitSuccess
  <2> QED
    BY Zenon, <1>4, <1>10, <2>2 DEF WaitSuccess
<1>11. ASSUME NEW t \in Threads, WaitFailure(t) PROVE WaitsFit' /\ \A u \in Threads : GaveUp(u)
  <2>1. thr[t].at = "wait" /\ WaitFits(t)
    BY Zenon, <1>11 DEF WaitFailure, WaitsFit
  <2>2. thr[t].since \in Nat /\ thr[t].time \in Int
    BY Zenon, <1>0 DEF Waiter
  <2>3. CASE thr[t].wait = "invalid" /\ Returned(t, "invalid", 0)
    BY <1>4, <2>1, <2>3 DEF WaitFits
  <2>4. CASE thr[t].wait = "try" /\ Returned(t, "timeout", 0)
    <3>1. thr[t].time # -1 /\ (thr[t].time = 0 \/ (thr[t].what = "process" /\ os # "windows"))
      BY <2>1, <2>4 DEF WaitFits
    <3>2. thr[t].time = 0 => now >= thr[t].since + thr[t].time
      BY <1>0, <2>1, <2>2 DEF WaitFits
    <3> QED
      BY <1>4, <2>1, <2>4, <3>1, <3>2
  <2>5. CASE /\ thr[t].wait = "until" /\ now >= thr[t].until.sec * Part + thr[t].until.nsec
             /\ Returned(t, "timeout", 0)
    <3>1. thr[t].time # -1 /\ now >= thr[t].since + thr[t].time
      BY Zenon, <2>1, <2>5 DEF WaitFits
    <3> QED
      BY <1>4, <2>1, <2>5, <3>1
  <2> QED
    BY Zenon, <1>11, <2>3, <2>4, <2>5 DEF WaitFailure
<1>12. ASSUME NEW t \in Threads, ffsem_post(t) PROVE WaitsFit' /\ \A u \in Threads : GaveUp(u)
  BY Zenon, <1>2, <1>3, <1>12 DEF ffsem_post
<1>13. CASE UNCHANGED thr
  BY Zenon, <1>1, <1>13
<1> QED
  BY Zenon, <1>5, <1>6, <1>7, <1>8, <1>9, <1>10, <1>11, <1>12, <1>13
     DEF Next, Step, Return, Interrupt, ChildEnds, WorkerEnds, Tick, Finished, vars

\* A wait for a thread or a semaphore gives up when its time is over and not
\* before, none without a limit gives up, and only a semaphore whose times the
\* system does not support fails with an error: for every set of times, if the
\* semaphore of Linux is waited for in whole seconds.
THEOREM WaitsAreExact == InSeconds => (Spec => WaitsItsTime)
<1> SUFFICES ASSUME InSeconds
             PROVE  Spec => WaitsItsTime
  BY Zenon
<1>1. Init => WaitsFit
  BY DEF Init, WaitsFit, Idle
<1>2. HandlesInv /\ WaitsFit /\ [Next]_vars => WaitsFit'
  BY Zenon, WaitStep DEF HandlesInv
<1>3. HandlesInv /\ WaitsFit /\ [Next]_vars => [\A t \in Threads : GaveUp(t)]_vars
  BY Zenon, WaitStep DEF HandlesInv
<1> QED
  BY <1>1, <1>2, <1>3, HandlesInvariant, PTL DEF Spec, WaitsItsTime

=============================================================================
