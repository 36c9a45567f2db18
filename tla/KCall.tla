------------------------------- MODULE KCall -------------------------------
(***************************************************************************)
(* The kernel call queue (FFOS/kcall.h): file and resolver calls that may  *)
(* block are handed to worker threads through a submission queue (SQ) and  *)
(* come back to the event loop that made them through a completion queue   *)
(* (CQ).                                                                   *)
(*                                                                         *)
(* Threads.  An event loop owns one `struct ffkcallqueue`: its CQ and the  *)
(* post event that wakes its ffkq_wait().  The loop's thread makes the     *)
(* asynchronous calls, cancels them, and runs ffkcallq_process_cq() when   *)
(* the post event fires.  A worker sleeps on the semaphore and runs        *)
(* ffkcallq_process_sq().  The SQ is shared: workers find the CQ through   *)
(* kc->q, so several loops may feed one SQ.                                *)
(*                                                                         *)
(* External code, modelled from its use here: ffbase's ring queue is a     *)
(* bounded FIFO with atomic add and fetch; the semaphore is a counter with *)
(* a maximum; the post event is Linux' eventfd (only zero or non-zero      *)
(* matters) attached to epoll in edge-triggered mode.                      *)
(***************************************************************************)
EXTENDS Integers, Sequences, FiniteSets, Functions

CONSTANTS
  Loops,      \* event loops, one ffkcallqueue each
  Workers,    \* threads running ffkcallq_process_sq()
  KCalls,     \* `struct ffkcall` objects
  Owner,      \* the loop whose queue kc->q names
  Sync,       \* the objects with kc->q == NULL: their calls are synchronous
  Posting,    \* loops with kqpost != FFKQ_NULL
  Signalling, \* loops with sem != FFSEM_NULL
  Ops,        \* the members of enum FFKCALL_OP in use
  Args,       \* what a caller may pass: file name, descriptor, buffer
  Garbage,    \* what a call reads when the union no longer holds its arguments
  NoKC,       \* no object
  SQCap,      \* capacity of the SQ
  CQCap,      \* capacity of each CQ
  SemMax      \* SEM_VALUE_MAX

ASSUME KCallAssumption ==
  /\ IsFiniteSet(KCalls)
  /\ Owner \in [KCalls -> Loops]
  /\ Sync \subseteq KCalls
  /\ Posting \subseteq Loops
  /\ Signalling \subseteq Loops
  /\ Ops \subseteq 1..5
  /\ Garbage \notin Args
  /\ NoKC \notin KCalls
  /\ SQCap \in Nat \ {0}
  /\ CQCap \in Nat \ {0}
  /\ SemMax \in Nat \ {0}

VARIABLES
  op,     \* kc->op: 0 or the operation
  state,  \* kc->state
  data,   \* the union of kc: arguments or the result, one over the other
  sq,     \* submission queue
  sem,    \* semaphore counter
  cq,     \* completion queue of each loop
  efd,    \* the loop's eventfd is non-zero
  ready,  \* epoll holds an edge of that eventfd that it has not reported yet
  lpc,    \* what the loop's thread is doing
  hkc,    \* the object whose handler it is running
  cpc,    \* where it stands inside an asynchronous call: none, add, sempost
  ckc,    \* the object of that call
  ret,    \* what the last call returned: an error code or a result
  wpc,    \* what the worker is doing
  wkc,    \* the object it took from the SQ
  wreq    \* the operation and the argument _ffkcall_exec() passes to the kernel

kcVars     == <<op, state, data>>
postVars   == <<efd, ready>>
loopVars   == <<lpc, hkc, cpc, ckc, ret>>
workerVars == <<wpc, wkc, wreq>>
vars       == <<kcVars, sq, sem, cq, postVars, loopVars, workerVars>>

Result(o, a)    == [kind |-> "res",  op |-> o, arg |-> a]
Arguments(o, a) == [kind |-> "args", op |-> o, arg |-> a]
Error(e)        == [kind |-> e,      op |-> 0, arg |-> Garbage]
NoReq           == [op |-> 0, arg |-> Garbage]
Zeroed          == [kind |-> "zero", op |-> 0, arg |-> Garbage]

Payload == [kind : {"zero", "args", "res"}, op : 0..5, arg : Args \cup {Garbage}]
Errors  == {Error(e) : e \in {"none", "EBUSY", "EAGAIN", "EINPROGRESS"}}

\* The worker's steps between taking an object from the SQ and giving it away.
Holding  == {"exec", "reset", "kernel", "mark", "add"}
\* Those of them that precede `kc->state = 2`.
Unmarked == Holding \ {"add"}

\* The object is in the SQ, or a worker has it and has not set its state yet.
Exposed(k) ==
  \/ k \in Range(sq)
  \/ \E w \in Workers : wpc[w] \in Unmarked /\ wkc[w] = k

\* The loop's thread stored the arguments but has not added the object to the SQ.
Submitting(k) == \E l \in Loops : cpc[l] = "add" /\ ckc[l] = k

\* The loop's thread is in application code, not inside a call.
InApp(l) == lpc[l] \in {"app", "handler"} /\ cpc[l] = "none"

Init ==
  /\ op    = [k \in KCalls |-> 0]
  /\ state = [k \in KCalls |-> 0]
  /\ data  = [k \in KCalls |-> Zeroed]
  /\ sq    = << >>
  /\ sem   = 0
  /\ cq    = [l \in Loops |-> << >>]
  /\ efd   = [l \in Loops |-> FALSE]
  /\ ready = [l \in Loops |-> FALSE]
  /\ lpc   = [l \in Loops |-> "app"]
  /\ hkc   = [l \in Loops |-> NoKC]
  /\ cpc   = [l \in Loops |-> "none"]
  /\ ckc   = [l \in Loops |-> NoKC]
  /\ ret   = [l \in Loops |-> Error("none")]
  /\ wpc   = [w \in Workers |-> "wait"]
  /\ wkc   = [w \in Workers |-> NoKC]
  /\ wreq  = [w \in Workers |-> NoReq]

-----------------------------------------------------------------------------
(* Faulty variants of the actions below, one plausible mistake each.  No     *)
(* specification uses them; put in an action's place, each must break the    *)
(* property that the action's design is there for.                           *)

\* The SQ is full and kc->op keeps the operation that was not queued.
CallAddFullKeepsOp(l) ==
  /\ cpc[l] = "add"
  /\ Len(sq) >= SQCap
  /\ ret' = [ret EXCEPT ![l] = Error("EAGAIN")]
  /\ cpc' = [cpc EXCEPT ![l] = "none"]
  /\ ckc' = [ckc EXCEPT ![l] = NoKC]
  /\ UNCHANGED <<op, state, data, sq, sem, cq, postVars, lpc, hkc, workerVars>>

\* The handler is called for cancelled calls too.
LoopFetchCancelled(l) ==
  /\ lpc[l] = "fetch"
  /\ cq[l] # << >>
  /\ state' = [state EXCEPT ![Head(cq[l])] = 0]
  /\ lpc' = [lpc EXCEPT ![l] = "handler"]
  /\ hkc' = [hkc EXCEPT ![l] = Head(cq[l])]
  /\ cq' = [cq EXCEPT ![l] = Tail(@)]
  /\ UNCHANGED <<op, data, sq, sem, postVars, cpc, ckc, ret, workerVars>>

\* `if` in place of the loop: one completion is handled for each wake-up.
HandlerReturnOnce(l) ==
  /\ lpc[l] = "handler" /\ cpc[l] = "none"
  /\ lpc' = [lpc EXCEPT ![l] = "app"]
  /\ hkc' = [hkc EXCEPT ![l] = NoKC]
  /\ UNCHANGED <<kcVars, sq, sem, cq, postVars, cpc, ckc, ret, workerVars>>

\* `break` in place of `continue` after a call that was not executed.
WorkerResetBreaks(w) ==
  /\ wpc[w] = "reset"
  /\ state' = [state EXCEPT ![wkc[w]] = 0]
  /\ wpc' = [wpc EXCEPT ![w] = "wait"]
  /\ wkc' = [wkc EXCEPT ![w] = NoKC]
  /\ UNCHANGED <<op, data, sq, sem, cq, postVars, loopVars, wreq>>

\* An operation has no case in the switch of _ffkcall_exec().
WorkerExecNoCase(w) ==
  /\ wpc[w] = "exec"
  /\ op[wkc[w]] # 0
  /\ wpc' = [wpc EXCEPT ![w] = "reset"]
  /\ UNCHANGED <<kcVars, sq, sem, cq, postVars, loopVars, wkc, wreq>>

\* `kc->state = 2` is missing.
WorkerMarkNothing(w) ==
  /\ wpc[w] = "mark"
  /\ wpc' = [wpc EXCEPT ![w] = "add"]
  /\ UNCHANGED <<kcVars, sq, sem, cq, postVars, loopVars, wkc, wreq>>

\* The loop is woken for every completion but the first of a batch.
WorkerAddInverted(w) ==
  LET k == wkc[w]
      l == Owner[k]
      wake == cq[l] # << >> /\ l \in Posting IN
  /\ wpc[w] = "add"
  /\ Len(cq[l]) < CQCap
  /\ cq' = [cq EXCEPT ![l] = Append(@, k)]
  /\ wpc' = [wpc EXCEPT ![w] = IF wake THEN "post" ELSE "fetch"]
  /\ wkc' = [wkc EXCEPT ![w] = IF wake THEN k ELSE NoKC]
  /\ UNCHANGED <<kcVars, sq, sem, postVars, loopVars, wreq>>

-----------------------------------------------------------------------------
(* The asynchronous calls: fffile_open_async() and the four others differ  *)
(* only in the operation and in which members of the union they fill.      *)

\* kc->q == NULL: the call is made on the spot.
CallSync(k, o, a) ==
  /\ k \in Sync
  /\ ret' = [ret EXCEPT ![Owner[k]] = Result(o, a)]
  /\ UNCHANGED <<kcVars, cpc, ckc>>

\* kc->state != 0: refused.
CallBusy(k) ==
  /\ k \notin Sync
  /\ state[k] # 0
  /\ ret' = [ret EXCEPT ![Owner[k]] = Error("EBUSY")]
  /\ UNCHANGED <<kcVars, cpc, ckc>>

\* kc->op != 0: whatever the union holds is returned as the result.
CallCollect(k) ==
  /\ k \notin Sync
  /\ state[k] = 0
  /\ op[k] # 0
  /\ op' = [op EXCEPT ![k] = 0]
  /\ ret' = [ret EXCEPT ![Owner[k]] = data[k]]
  /\ UNCHANGED <<state, data, cpc, ckc>>

\* Otherwise the arguments are stored and _ffkcall_add() is entered.
CallSubmit(k, o, a) ==
  /\ k \notin Sync
  /\ state[k] = 0
  /\ op[k] = 0
  /\ data' = [data EXCEPT ![k] = Arguments(o, a)]
  /\ op' = [op EXCEPT ![k] = o]
  /\ cpc' = [cpc EXCEPT ![Owner[k]] = "add"]
  /\ ckc' = [ckc EXCEPT ![Owner[k]] = k]
  /\ UNCHANGED <<state, ret>>

AsyncCall(k, o, a) ==
  /\ InApp(Owner[k])
  /\ \/ CallSync(k, o, a)
     \/ CallBusy(k)
     \/ CallCollect(k)
     \/ CallSubmit(k, o, a)
  /\ UNCHANGED <<sq, sem, cq, postVars, lpc, hkc, workerVars>>

\* _ffkcall_add(): ffrq_add() finds the SQ full.
CallAddFull(l) ==
  /\ cpc[l] = "add"
  /\ Len(sq) >= SQCap
  /\ op' = [op EXCEPT ![ckc[l]] = 0]
  /\ ret' = [ret EXCEPT ![l] = Error("EAGAIN")]
  /\ cpc' = [cpc EXCEPT ![l] = "none"]
  /\ ckc' = [ckc EXCEPT ![l] = NoKC]
  /\ UNCHANGED <<state, data, sq, sem, cq, postVars, lpc, hkc, workerVars>>

\* _ffkcall_add(): the object is visible to the workers from here on.
CallAdd(l) ==
  /\ cpc[l] = "add"
  /\ Len(sq) < SQCap
  /\ sq' = Append(sq, ckc[l])
  /\ cpc' = [cpc EXCEPT ![l] = "sempost"]
  /\ UNCHANGED <<kcVars, sem, cq, postVars, lpc, hkc, ckc, ret, workerVars>>

\* ffsem_post(), whose failure at the maximum is ignored, if there is a semaphore.
CallSemPost(l) ==
  /\ cpc[l] = "sempost"
  /\ sem' = IF l \in Signalling /\ sem < SemMax THEN sem + 1 ELSE sem
  /\ ret' = [ret EXCEPT ![l] = Error("EINPROGRESS")]
  /\ cpc' = [cpc EXCEPT ![l] = "none"]
  /\ ckc' = [ckc EXCEPT ![l] = NoKC]
  /\ UNCHANGED <<kcVars, sq, cq, postVars, lpc, hkc, workerVars>>

\* ffkcall_cancel()
Cancel(k) ==
  /\ InApp(Owner[k])
  /\ op' = [op EXCEPT ![k] = 0]
  /\ UNCHANGED <<state, data, sq, sem, cq, postVars, loopVars, workerVars>>

-----------------------------------------------------------------------------
(* The event loop's thread: ffkq_wait(), ffkq_post_consume(), then         *)
(* ffkcallq_process_cq().                                                  *)

\* The application calls ffkq_wait().
LoopWait(l) ==
  /\ lpc[l] = "app" /\ cpc[l] = "none"
  /\ lpc' = [lpc EXCEPT ![l] = "wait"]
  /\ UNCHANGED <<kcVars, sq, sem, cq, postVars, hkc, cpc, ckc, ret, workerVars>>

\* It may also run ffkcallq_process_cq() unprompted, as test/kcall.c does.
LoopPoll(l) ==
  /\ lpc[l] = "app" /\ cpc[l] = "none"
  /\ lpc' = [lpc EXCEPT ![l] = "fetch"]
  /\ UNCHANGED <<kcVars, sq, sem, cq, postVars, hkc, cpc, ckc, ret, workerVars>>

\* epoll takes the edge; it reports it only if the eventfd is still readable.
LoopWake(l) ==
  /\ lpc[l] = "wait"
  /\ ready[l]
  /\ ready' = [ready EXCEPT ![l] = FALSE]
  /\ lpc' = [lpc EXCEPT ![l] = IF efd[l] THEN "consume" ELSE "wait"]
  /\ UNCHANGED <<kcVars, sq, sem, cq, efd, hkc, cpc, ckc, ret, workerVars>>

\* ffkq_wait() returns without the post event: a timeout, a signal or another event.
LoopOther(l) ==
  /\ lpc[l] = "wait"
  /\ lpc' = [lpc EXCEPT ![l] = "app"]
  /\ UNCHANGED <<kcVars, sq, sem, cq, postVars, hkc, cpc, ckc, ret, workerVars>>

\* ffkq_post_consume(): one read(); it repeats until the eventfd is zero.
LoopConsume(l) ==
  /\ lpc[l] = "consume"
  /\ efd' = [efd EXCEPT ![l] = FALSE]
  /\ lpc' = [lpc EXCEPT ![l] = IF efd[l] THEN "consume" ELSE "fetch"]
  /\ UNCHANGED <<kcVars, sq, sem, cq, ready, hkc, cpc, ckc, ret, workerVars>>

\* ffkcallq_process_cq(): take one completion; call the handler unless cancelled.
LoopFetch(l) ==
  /\ lpc[l] = "fetch"
  /\ cq[l] # << >>
  /\ LET k == Head(cq[l]) IN
       /\ state' = [state EXCEPT ![k] = 0]
       /\ lpc' = [lpc EXCEPT ![l] = IF op[k] # 0 THEN "handler" ELSE "fetch"]
       /\ hkc' = [hkc EXCEPT ![l] = IF op[k] # 0 THEN k ELSE NoKC]
  /\ cq' = [cq EXCEPT ![l] = Tail(@)]
  /\ UNCHANGED <<op, data, sq, sem, postVars, cpc, ckc, ret, workerVars>>

\* ffkcallq_process_cq(): the CQ is empty, return to the application.
LoopDrained(l) ==
  /\ lpc[l] = "fetch"
  /\ cq[l] = << >>
  /\ lpc' = [lpc EXCEPT ![l] = "app"]
  /\ UNCHANGED <<kcVars, sq, sem, cq, postVars, hkc, cpc, ckc, ret, workerVars>>

\* The handler returns into ffkcallq_process_cq().
HandlerReturn(l) ==
  /\ lpc[l] = "handler" /\ cpc[l] = "none"
  /\ lpc' = [lpc EXCEPT ![l] = "fetch"]
  /\ hkc' = [hkc EXCEPT ![l] = NoKC]
  /\ UNCHANGED <<kcVars, sq, sem, cq, postVars, cpc, ckc, ret, workerVars>>

-----------------------------------------------------------------------------
(* A worker: ffsem_wait(), then ffkcallq_process_sq().                     *)

WorkerWait(w) ==
  /\ wpc[w] = "wait"
  /\ sem > 0
  /\ sem' = sem - 1
  /\ wpc' = [wpc EXCEPT ![w] = "fetch"]
  /\ UNCHANGED <<kcVars, sq, cq, postVars, loopVars, wkc, wreq>>

\* A thread may also run ffkcallq_process_sq() unprompted, as test/kcall.c does.
WorkerPoll(w) ==
  /\ wpc[w] = "wait"
  /\ wpc' = [wpc EXCEPT ![w] = "fetch"]
  /\ UNCHANGED <<kcVars, sq, sem, cq, postVars, loopVars, wkc, wreq>>

WorkerFetch(w) ==
  /\ wpc[w] = "fetch"
  /\ sq # << >>
  /\ sq' = Tail(sq)
  /\ wkc' = [wkc EXCEPT ![w] = Head(sq)]
  /\ wpc' = [wpc EXCEPT ![w] = "exec"]
  /\ UNCHANGED <<kcVars, sem, cq, postVars, loopVars, wreq>>

WorkerDrained(w) ==
  /\ wpc[w] = "fetch"
  /\ sq = << >>
  /\ wpc' = [wpc EXCEPT ![w] = "wait"]
  /\ UNCHANGED <<kcVars, sq, sem, cq, postVars, loopVars, wkc, wreq>>

\* _ffkcall_exec(): the switch finds no operation, the call was cancelled.
WorkerSkip(w) ==
  /\ wpc[w] = "exec"
  /\ op[wkc[w]] = 0
  /\ wpc' = [wpc EXCEPT ![w] = "reset"]
  /\ UNCHANGED <<kcVars, sq, sem, cq, postVars, loopVars, wkc, wreq>>

\* `kc->state = 0; continue;` for a call that was not executed.
WorkerReset(w) ==
  /\ wpc[w] = "reset"
  /\ state' = [state EXCEPT ![wkc[w]] = 0]
  /\ wpc' = [wpc EXCEPT ![w] = "fetch"]
  /\ wkc' = [wkc EXCEPT ![w] = NoKC]
  /\ UNCHANGED <<op, data, sq, sem, cq, postVars, loopVars, wreq>>

\* _ffkcall_exec(): the operation and its arguments are read, the kernel is called.
WorkerExec(w) ==
  /\ wpc[w] = "exec"
  /\ LET k == wkc[w] IN
       /\ op[k] # 0
       /\ wreq' = [wreq EXCEPT ![w] =
            [op |-> op[k], arg |-> IF data[k] = Arguments(op[k], data[k].arg)
                                   THEN data[k].arg ELSE Garbage]]
  /\ wpc' = [wpc EXCEPT ![w] = "kernel"]
  /\ UNCHANGED <<kcVars, sq, sem, cq, postVars, loopVars, wkc>>

\* _ffkcall_exec(): the kernel returns; result and error overwrite the arguments.
WorkerResult(w) ==
  /\ wpc[w] = "kernel"
  /\ data' = [data EXCEPT ![wkc[w]] = Result(wreq[w].op, wreq[w].arg)]
  /\ wreq' = [wreq EXCEPT ![w] = NoReq]
  /\ wpc' = [wpc EXCEPT ![w] = "mark"]
  /\ UNCHANGED <<op, state, sq, sem, cq, postVars, loopVars, wkc>>

WorkerMark(w) ==
  /\ wpc[w] = "mark"
  /\ state' = [state EXCEPT ![wkc[w]] = 2]
  /\ wpc' = [wpc EXCEPT ![w] = "add"]
  /\ UNCHANGED <<op, data, sq, sem, cq, postVars, loopVars, wkc, wreq>>

\* ffrq_add() to the CQ; `used == 0` decides whether the loop must be woken.
WorkerAdd(w) ==
  LET k == wkc[w]
      l == Owner[k]
      wake == cq[l] = << >> /\ l \in Posting IN
  /\ wpc[w] = "add"
  /\ Len(cq[l]) < CQCap
  /\ cq' = [cq EXCEPT ![l] = Append(@, k)]
  /\ wpc' = [wpc EXCEPT ![w] = IF wake THEN "post" ELSE "fetch"]
  /\ wkc' = [wkc EXCEPT ![w] = IF wake THEN k ELSE NoKC]
  /\ UNCHANGED <<kcVars, sq, sem, postVars, loopVars, wreq>>

\* ffrq_add() finds the CQ full: assert(0); a release build drops the object.
WorkerDrop(w) ==
  /\ wpc[w] = "add"
  /\ Len(cq[Owner[wkc[w]]]) >= CQCap
  /\ wpc' = [wpc EXCEPT ![w] = "fetch"]
  /\ wkc' = [wkc EXCEPT ![w] = NoKC]
  /\ UNCHANGED <<kcVars, sq, sem, cq, postVars, loopVars, wreq>>

\* ffkq_post(kc->q->kqpost): the write is an edge for epoll.
WorkerPost(w) ==
  LET l == Owner[wkc[w]] IN
  /\ wpc[w] = "post"
  /\ efd' = [efd EXCEPT ![l] = TRUE]
  /\ ready' = [ready EXCEPT ![l] = TRUE]
  /\ wpc' = [wpc EXCEPT ![w] = "fetch"]
  /\ wkc' = [wkc EXCEPT ![w] = NoKC]
  /\ UNCHANGED <<kcVars, sq, sem, cq, loopVars, wreq>>

-----------------------------------------------------------------------------
CallStep(l) == CallAddFull(l) \/ CallAdd(l) \/ CallSemPost(l)

ProcessStep(l) == LoopConsume(l) \/ LoopFetch(l) \/ LoopDrained(l)

WorkerStep(w) ==
  \/ WorkerWait(w) \/ WorkerFetch(w) \/ WorkerDrained(w)
  \/ WorkerSkip(w) \/ WorkerReset(w) \/ WorkerExec(w) \/ WorkerResult(w)
  \/ WorkerMark(w) \/ WorkerAdd(w) \/ WorkerDrop(w) \/ WorkerPost(w)

Threads ==
  \/ \E l \in Loops : \/ CallStep(l) \/ ProcessStep(l) \/ LoopWait(l) \/ LoopWake(l)
                      \/ LoopPoll(l) \/ LoopOther(l) \/ HandlerReturn(l)
  \/ \E w \in Workers : WorkerStep(w) \/ WorkerPoll(w)
  \/ \E k \in KCalls : Cancel(k)

\* Callers that leave an object alone while it is in the SQ or being executed:
\* nothing in kc->state tells them that it is.
Next ==
  \/ Threads
  \/ \E k \in KCalls, o \in Ops, a \in Args : ~Exposed(k) /\ AsyncCall(k, o, a)

Spec == Init /\ [][Next]_vars

\* Callers that rely on EBUSY and may call at any time.
AnyTimeNext ==
  \/ Threads
  \/ \E k \in KCalls, o \in Ops, a \in Args : AsyncCall(k, o, a)

AnyTimeSpec == Init /\ [][AnyTimeNext]_vars

\* Threads keep running, kernel calls return, handlers return, the application
\* goes back to waiting for events, and epoll, whose list of ready descriptors
\* is a queue, does not pass over an edge forever.
Fairness ==
  /\ \A w \in Workers : WF_vars(WorkerStep(w))
  /\ \A l \in Loops : /\ WF_vars(CallStep(l))
                      /\ WF_vars(ProcessStep(l))
                      /\ SF_vars(LoopWait(l))
                      /\ SF_vars(LoopWake(l))
                      /\ SF_vars(HandlerReturn(l))

FairSpec == Spec /\ Fairness

-----------------------------------------------------------------------------
(* Properties                                                              *)

\* Every variable has its type.  kc->state is 0 or 2: the 1 that the comment in
\* `struct ffkcall` gives to "in SQ" is stored nowhere.
TypeOK ==
  /\ op    \in [KCalls -> Ops \cup {0}]
  /\ state \in [KCalls -> {0, 2}]
  /\ data  \in [KCalls -> Payload]
  /\ sq    \in Seq(KCalls)
  /\ sem   \in 0..SemMax
  /\ cq    \in [Loops -> Seq(KCalls)]
  /\ efd   \in [Loops -> BOOLEAN]
  /\ ready \in [Loops -> BOOLEAN]
  /\ lpc   \in [Loops -> {"app", "wait", "consume", "fetch", "handler"}]
  /\ hkc   \in [Loops -> KCalls \cup {NoKC}]
  /\ cpc   \in [Loops -> {"none", "add", "sempost"}]
  /\ ckc   \in [Loops -> KCalls \cup {NoKC}]
  /\ ret   \in [Loops -> Errors \cup Payload]
  /\ wpc   \in [Workers -> Holding \cup {"wait", "fetch", "post"}]
  /\ wkc   \in [Workers -> KCalls \cup {NoKC}]
  /\ wreq  \in [Workers -> [op : 0..5, arg : Args \cup {Garbage}]]

\* An object is in one place at most: once in the SQ, or in one worker's hands,
\* or once in its own loop's CQ.  Otherwise two workers run one object, or a
\* handler runs twice (ffkcallq_process_sq, ffkcallq_process_cq, _ffkcall_add).
OnePlace ==
  /\ IsInjective(sq)
  /\ \A l \in Loops : IsInjective(cq[l]) /\ \A k \in Range(cq[l]) : Owner[k] = l
  /\ \A v, w \in Workers :
       wpc[v] \in Holding /\ wpc[w] \in Holding /\ wkc[v] = wkc[w] => v = w
  /\ \A w \in Workers : wpc[w] \in Holding =>
       wkc[w] \notin Range(sq) /\ \A l \in Loops : wkc[w] \notin Range(cq[l])
  /\ \A l \in Loops : Range(sq) \cap Range(cq[l]) = {}

\* A submission never sleeps: while the SQ holds a call of a loop that has a
\* semaphore, the semaphore is positive, or a worker is up and will look at the
\* SQ again, or the thread that submitted is about to post (_ffkcall_add adds
\* before it posts; ffkcallq_process_sq drains the SQ for one post).
SubmissionSeen ==
  (\E k \in Range(sq) : Owner[k] \in Signalling) =>
    \/ sem > 0
    \/ \E w \in Workers : wpc[w] # "wait"
    \/ \E l \in Signalling : cpc[l] = "sempost"

\* A loop is already on its way to its CQ, or an edge with a non-zero eventfd
\* waits for it, or a worker is about to post.
Coming(l) ==
  \/ lpc[l] \in {"consume", "fetch", "handler"}
  \/ ready[l] /\ efd[l]
  \/ \E w \in Workers : wpc[w] = "post" /\ Owner[wkc[w]] = l

\* A completion never sleeps although only the first of a batch is posted
\* (`used == 0`) and the post event is edge-triggered: while a CQ holds something,
\* its loop comes to it (ffkcallq_process_sq, ffkq_post, ffkq_post_consume).
CompletionSeen == \A l \in Posting : cq[l] # << >> => Coming(l)

\* assert(0) after ffrq_add(kc->q->cq) is not reached: a worker that is about to
\* add finds room in the CQ.
CqHasRoom ==
  \A w \in Workers : wpc[w] = "add" => Len(cq[Owner[wkc[w]]]) < CQCap

\* The condition for it: no CQ is smaller than the number of its loop's objects.
Sized == \A l \in Loops : Cardinality({k \in KCalls : Owner[k] = l}) <= CQCap

\* When a call would take its "previous result" branch (state 0, op not 0, the
\* object with no worker), the union does hold a result, of the operation that
\* kc->op names and not of arguments that were overwritten before they were used.
ResultReady ==
  \A k \in KCalls :
    /\ op[k] # 0 /\ state[k] = 0
    /\ ~Exposed(k) /\ ~Submitting(k)
    => \E a \in Args : data[k] = Result(op[k], a)

\* Whatever a call hands to its caller as a result is the result of a kernel
\* call made with arguments a caller passed.  The calls refuse with EBUSY when
\* "the previous operation is still active in SQ or CQ" so that it is so.
ReturnsResults ==
  \A l \in Loops : ret[l] \in Errors \cup {Result(o, a) : o \in Ops, a \in Args}

-----------------------------------------------------------------------------
(* The inductive invariant behind OnePlace, ResultReady and ReturnsResults *)

\* A thread inside a call or with an object in its hands has a real object.
Handles ==
  /\ \A w \in Workers : wpc[w] \in Holding \cup {"post"} => wkc[w] \in KCalls
  /\ \A l \in Loops : cpc[l] # "none" => ckc[l] \in KCalls /\ Owner[ckc[l]] = l

\* kc->state tells where an object is, as far as two values can.
StateTells ==
  /\ \A k \in KCalls : Exposed(k) \/ Submitting(k) => state[k] = 0
  /\ \A l \in Loops : \A k \in Range(cq[l]) : state[k] = 2
  /\ \A w \in Workers : wpc[w] = "add" => state[wkc[w]] = 2
  /\ \A k \in KCalls : Submitting(k) => ~Exposed(k)

\* What the union holds if the object was not cancelled.
Asked(k)    == op[k] # 0 => \E a \in Args : data[k] = Arguments(op[k], a)
Answered(k) == op[k] # 0 => \E a \in Args : data[k] = Result(op[k], a)

\* What the union holds at every stage of an object's way.
UnionHolds ==
  /\ \A k \in KCalls : k \in Range(sq) \/ Submitting(k) => Asked(k)
  /\ \A k \in KCalls : ~Exposed(k) /\ ~Submitting(k) => Answered(k)
  /\ \A w \in Workers :
       /\ wpc[w] = "exec" => Asked(wkc[w])
       /\ wpc[w] = "reset" => op[wkc[w]] = 0
       /\ wpc[w] = "kernel" => /\ op[wkc[w]] \in {0, wreq[w].op}
                               /\ wreq[w].arg \in Args
       /\ wpc[w] = "mark" => Answered(wkc[w])

\* Types, places, states and contents together: every step of every thread
\* preserves this, and OnePlace, ResultReady and ReturnsResults follow from it.
KCallInv ==
  TypeOK /\ Handles /\ OnePlace /\ StateTells /\ UnionHolds /\ ReturnsResults

-----------------------------------------------------------------------------
\* The promise of AsyncCalls, read off the program's own state: an object is
\* idle when op is 0 or its submission has not reached the SQ, done when a call
\* would collect, pending in between; its request is what the union holds.
Requests == [op : Ops, arg : Args]

Phase(k) ==
  IF op[k] = 0 \/ Submitting(k) THEN "idle"
  ELSE IF state[k] = 0 /\ ~Exposed(k) THEN "done" ELSE "pending"

Promise == INSTANCE AsyncCalls WITH
  Threads   <- Loops,
  Immediate <- Sync,
  NoRequest <- NoReq,
  NoObject  <- NoKC,
  Nothing   <- Error("none"),
  Refusals  <- {Error("EBUSY"), Error("EAGAIN")},
  InProgress <- Error("EINPROGRESS"),
  Answer    <- [r \in Requests |-> Result(r.op, r.arg)],
  phase     <- [k \in KCalls |-> Phase(k)],
  request   <- [k \in KCalls |-> IF Phase(k) = "idle" THEN NoReq
                                 ELSE [op |-> data[k].op, arg |-> data[k].arg]],
  returned  <- ret,
  handling  <- hkc

\* One handler call per submission and none after a cancel, whatever the
\* interleaving; the result collected is the one of the request submitted; a
\* finished request is never refused (the whole of kcall.h).
KeepsPromise == Promise!Spec

\* Every object comes back: one that is in the SQ, with a worker or in the CQ is
\* eventually its owner's again, finished or cancelled.  No wake-up is lost on
\* either side.
Released ==
  \A k \in KCalls : Exposed(k) \/ state[k] # 0 ~> ~Exposed(k) /\ state[k] = 0

=============================================================================
