---------------------------- MODULE KCallProofs -----------------------------
(***************************************************************************)
(* Theorems about the kernel call queue, for any number of loops, workers  *)
(* and objects and any capacities: types and wake-ups; an object is in one *)
(* place, with kc->state telling which; its union holds what each stage    *)
(* needs; the inductive invariant and what follows from it.                *)
(***************************************************************************)
EXTENDS KCall, FiniteSetTheorems, TLAPS

-----------------------------------------------------------------------------
(* Queues: what adding and fetching do to the elements of a sequence.      *)

\* A queue of objects holds objects.
LEMMA RangeInSet ==
  ASSUME NEW S, NEW s \in Seq(S)
  PROVE  Range(s) \subseteq S
<1>1. \A i \in DOMAIN s : s[i] \in S
  OBVIOUS
<1> QED
  BY Zenon, <1>1 DEF Range

\* ffrq_add(): the element joins those already there.
LEMMA RangeOfAppend ==
  ASSUME NEW S, NEW s \in Seq(S), NEW e \in S
  PROVE  Range(Append(s, e)) = Range(s) \cup {e}
<1>1. /\ Append(s, e) \in Seq(S)
      /\ Len(Append(s, e)) = Len(s) + 1
      /\ Append(s, e)[Len(s) + 1] = e
      /\ \A i \in 1..Len(s) : Append(s, e)[i] = s[i]
  OBVIOUS
<1>2. DOMAIN s = 1..Len(s) /\ DOMAIN Append(s, e) = 1..(Len(s) + 1) /\ Len(s) \in Nat
  BY <1>1
<1>3. Range(Append(s, e)) \subseteq Range(s) \cup {e}
  BY <1>1, <1>2 DEF Range
<1>4. Range(s) \cup {e} \subseteq Range(Append(s, e))
  BY <1>1, <1>2 DEF Range
<1> QED
  BY Zenon, <1>3, <1>4

\* ffrq_add() of an element that is not there keeps the elements distinct.
LEMMA InjectiveAppend ==
  ASSUME NEW S, NEW s \in Seq(S), NEW e \in S, IsInjective(s), e \notin Range(s)
  PROVE  IsInjective(Append(s, e))
<1>1. /\ Append(s, e) \in Seq(S)
      /\ Len(Append(s, e)) = Len(s) + 1
      /\ Append(s, e)[Len(s) + 1] = e
      /\ \A i \in 1..Len(s) : Append(s, e)[i] = s[i]
  OBVIOUS
<1>2. DOMAIN s = 1..Len(s) /\ DOMAIN Append(s, e) = 1..(Len(s) + 1) /\ Len(s) \in Nat
  BY <1>1
<1>3. \A i \in 1..Len(s) : s[i] # e
  BY Zenon, <1>2 DEF Range
<1> QED
  BY <1>1, <1>2, <1>3 DEF IsInjective

\* ffrq_fetch(): the head was an element, the rest are the other elements.
LEMMA RangeOfTail ==
  ASSUME NEW S, NEW s \in Seq(S), s # << >>
  PROVE  /\ Head(s) \in S
         /\ Tail(s) \in Seq(S)
         /\ Range(s) = {Head(s)} \cup Range(Tail(s))
         /\ IsInjective(s) => IsInjective(Tail(s)) /\ Head(s) \notin Range(Tail(s))
<1>1. /\ Tail(s) \in Seq(S)
      /\ Len(Tail(s)) = Len(s) - 1
      /\ \A i \in 1..Len(Tail(s)) : Tail(s)[i] = s[i + 1]
      /\ Head(s) = s[1] /\ Head(s) \in S
      /\ Len(s) \in Nat /\ Len(s) > 0
  OBVIOUS
<1>2. DOMAIN s = 1..Len(s) /\ DOMAIN Tail(s) = 1..(Len(s) - 1)
  BY <1>1
<1>3. Range(s) \subseteq {Head(s)} \cup Range(Tail(s))
  <2>1. SUFFICES ASSUME NEW i \in 1..Len(s), i # 1
                 PROVE  s[i] \in Range(Tail(s))
    BY Zenon, <1>1, <1>2 DEF Range
  <2>2. i - 1 \in 1..(Len(s) - 1) /\ s[i] = Tail(s)[i - 1]
    BY <1>1, <2>1
  <2> QED
    BY Zenon, <1>2, <2>2 DEF Range
<1>4. {Head(s)} \cup Range(Tail(s)) \subseteq Range(s)
  BY <1>1, <1>2 DEF Range
<1>5. ASSUME IsInjective(s)
      PROVE  IsInjective(Tail(s)) /\ Head(s) \notin Range(Tail(s))
  BY <1>1, <1>2, <1>5 DEF IsInjective, Range
<1> QED
  BY Zenon, <1>1, <1>3, <1>4, <1>5

-----------------------------------------------------------------------------
(* Types                                                                   *)

\* Every step of every thread keeps the types and the threads' handles, even
\* when callers call at any time.
LEMMA TypeStep ==
  ASSUME TypeOK, Handles, [AnyTimeNext]_vars
  PROVE  TypeOK' /\ Handles'
<1> USE KCallAssumption
<1> USE DEF TypeOK, Handles, Holding, Unmarked
<1>1. ASSUME NEW k \in KCalls, NEW o \in Ops, NEW a \in Args, AsyncCall(k, o, a)
      PROVE  TypeOK' /\ Handles'
  <2> USE DEF InApp, postVars, workerVars, kcVars
  <2>1. CASE CallSync(k, o, a)
    BY <1>1, <2>1 DEF AsyncCall, CallSync, Result, Payload
  <2>2. CASE CallBusy(k)
    BY Zenon, <1>1, <2>2 DEF AsyncCall, CallBusy, Errors
  <2>3. CASE CallCollect(k)
    BY Zenon, <1>1, <2>3 DEF AsyncCall, CallCollect
  <2>4. CASE CallSubmit(k, o, a)
    BY <1>1, <2>4 DEF AsyncCall, CallSubmit, Arguments, Payload
  <2> QED
    BY Zenon, <1>1, <2>1, <2>2, <2>3, <2>4 DEF AsyncCall
<1>2. ASSUME NEW k \in KCalls, Cancel(k)
      PROVE  TypeOK' /\ Handles'
  BY Zenon, <1>2 DEF Cancel, InApp, postVars, loopVars, workerVars
<1>3. ASSUME NEW l \in Loops, CallAddFull(l)
      PROVE  TypeOK' /\ Handles'
  BY Zenon, <1>3 DEF CallAddFull, kcVars, postVars, loopVars, workerVars, Errors
<1>4. ASSUME NEW l \in Loops, CallAdd(l)
      PROVE  TypeOK' /\ Handles'
  BY <1>4 DEF CallAdd, kcVars, postVars, loopVars, workerVars
<1>5. ASSUME NEW l \in Loops, CallSemPost(l)
      PROVE  TypeOK' /\ Handles'
  BY <1>5 DEF CallSemPost, kcVars, postVars, loopVars, workerVars, Errors
<1>6. ASSUME NEW l \in Loops, LoopConsume(l)
      PROVE  TypeOK' /\ Handles'
  BY Zenon, <1>6 DEF LoopConsume, kcVars, postVars, loopVars, workerVars
<1>7. ASSUME NEW l \in Loops, LoopFetch(l)
      PROVE  TypeOK' /\ Handles'
  BY Zenon, <1>7, RangeOfTail DEF LoopFetch, kcVars, postVars, loopVars, workerVars
<1>8. ASSUME NEW l \in Loops, LoopDrained(l)
      PROVE  TypeOK' /\ Handles'
  BY Zenon, <1>8 DEF LoopDrained, kcVars, postVars, loopVars, workerVars
<1>9. ASSUME NEW l \in Loops, LoopWait(l)
      PROVE  TypeOK' /\ Handles'
  BY Zenon, <1>9 DEF LoopWait, kcVars, postVars, loopVars, workerVars
<1>10. ASSUME NEW l \in Loops, LoopWake(l)
      PROVE  TypeOK' /\ Handles'
  BY Zenon, <1>10 DEF LoopWake, kcVars, postVars, loopVars, workerVars
<1>11. ASSUME NEW l \in Loops, LoopPoll(l)
      PROVE  TypeOK' /\ Handles'
  BY Zenon, <1>11 DEF LoopPoll, kcVars, postVars, loopVars, workerVars
<1>12. ASSUME NEW l \in Loops, LoopOther(l)
      PROVE  TypeOK' /\ Handles'
  BY Zenon, <1>12 DEF LoopOther, kcVars, postVars, loopVars, workerVars
<1>13. ASSUME NEW l \in Loops, HandlerReturn(l)
      PROVE  TypeOK' /\ Handles'
  BY Zenon, <1>13 DEF HandlerReturn, kcVars, postVars, loopVars, workerVars
<1>14. ASSUME NEW w \in Workers, WorkerWait(w)
      PROVE  TypeOK' /\ Handles'
  BY <1>14 DEF WorkerWait, kcVars, postVars, loopVars, workerVars
<1>15. ASSUME NEW w \in Workers, WorkerFetch(w)
      PROVE  TypeOK' /\ Handles'
  BY Zenon, <1>15, RangeOfTail DEF WorkerFetch, kcVars, postVars, loopVars, workerVars
<1>16. ASSUME NEW w \in Workers, WorkerDrained(w)
      PROVE  TypeOK' /\ Handles'
  BY Zenon, <1>16 DEF WorkerDrained, kcVars, postVars, loopVars, workerVars
<1>17. ASSUME NEW w \in Workers, WorkerSkip(w)
      PROVE  TypeOK' /\ Handles'
  BY ZenonT(60), <1>17 DEF WorkerSkip, kcVars, postVars, loopVars, workerVars
<1>18. ASSUME NEW w \in Workers, WorkerReset(w)
      PROVE  TypeOK' /\ Handles'
  BY ZenonT(60), <1>18 DEF WorkerReset, kcVars, postVars, loopVars, workerVars
<1>19. ASSUME NEW w \in Workers, WorkerExec(w)
      PROVE  TypeOK' /\ Handles'
  <2> DEFINE k == wkc[w]
             r == [op |-> op[k], arg |-> IF data[k] = Arguments(op[k], data[k].arg)
                                         THEN data[k].arg ELSE Garbage]
  <2>1. r \in [op : 0..5, arg : Args \cup {Garbage}]
    <3>1. k \in KCalls
      BY Zenon, <1>19 DEF WorkerExec
    <3> HIDE DEF k
    <3>2. op[k] \in 0..5
      <4>1. Ops \cup {0} \subseteq 0..5
        OBVIOUS
      <4>2. op[k] \in Ops \cup {0}
        BY Zenon, <3>1
      <4> QED
        BY Zenon, <4>1, <4>2
    <3>3. data[k] \in Payload
      BY Zenon, <3>1
    <3>4. data[k].arg \in Args \cup {Garbage}
      BY Zenon, <3>3 DEF Payload
    <3> QED
      BY Zenon, <3>2, <3>4
  <2>2. wreq' = [wreq EXCEPT ![w] = r]
    BY Zenon, <1>19 DEF WorkerExec
  <2> HIDE DEF r
  <2> QED
    BY <1>19, <2>1, <2>2 DEF WorkerExec, kcVars, postVars, loopVars
<1>20. ASSUME NEW w \in Workers, WorkerResult(w)
      PROVE  TypeOK' /\ Handles'
  BY <1>20 DEF WorkerResult, kcVars, postVars, loopVars, workerVars, NoReq, Result, Payload
<1>21. ASSUME NEW w \in Workers, WorkerMark(w)
      PROVE  TypeOK' /\ Handles'
  BY Zenon, <1>21 DEF WorkerMark, kcVars, postVars, loopVars, workerVars
<1>22. ASSUME NEW w \in Workers, WorkerAdd(w)
      PROVE  TypeOK' /\ Handles'
  BY <1>22 DEF WorkerAdd, kcVars, postVars, loopVars, workerVars
<1>23. ASSUME NEW w \in Workers, WorkerDrop(w)
      PROVE  TypeOK' /\ Handles'
  BY Zenon, <1>23 DEF WorkerDrop, kcVars, postVars, loopVars, workerVars
<1>24. ASSUME NEW w \in Workers, WorkerPost(w)
      PROVE  TypeOK' /\ Handles'
  BY Zenon, <1>24 DEF WorkerPost, kcVars, postVars, loopVars, workerVars
<1>25. ASSUME NEW w \in Workers, WorkerPoll(w)
      PROVE  TypeOK' /\ Handles'
  BY Zenon, <1>25 DEF WorkerPoll, kcVars, postVars, loopVars, workerVars
<1>26. CASE UNCHANGED vars
  BY Zenon, <1>26 DEF vars, kcVars, postVars, loopVars, workerVars
<1> QED
  BY ZenonT(60), <1>1, <1>2, <1>3, <1>4, <1>5, <1>6, <1>7, <1>8, <1>9, <1>10, <1>11, <1>12, <1>13, <1>14, <1>15, <1>16, <1>17, <1>18, <1>19, <1>20, <1>21, <1>22, <1>23, <1>24, <1>25, <1>26
     DEF AnyTimeNext, Threads, CallStep, ProcessStep, WorkerStep

\* The types and handles at the start.
LEMMA TypeInit == Init => TypeOK /\ Handles
  BY KCallAssumption
     DEF Init, TypeOK, Handles, Holding, Unmarked, Payload, Errors, Zeroed, Error, NoReq

\* TypeOK holds in every behaviour, with callers that call at any time
\* (the structures and the local variables of kcall.h).
THEOREM TypeCorrect == AnyTimeSpec => [](TypeOK /\ Handles)
<1>1. TypeOK /\ Handles /\ [AnyTimeNext]_vars => TypeOK' /\ Handles'
  BY Zenon, TypeStep
<1> QED
  BY <1>1, TypeInit, PTL DEF AnyTimeSpec

\* Callers that follow the protocol are callers.
LEMMA SpecIsAnyTime == Spec => AnyTimeSpec
<1>1. [Next]_vars => [AnyTimeNext]_vars
  BY Zenon DEF Next, AnyTimeNext
<1> QED
  BY <1>1, PTL DEF Spec, AnyTimeSpec

-----------------------------------------------------------------------------
(* Wake-ups                                                                *)

\* A worker goes back to the semaphore only from an empty SQ.
LEMMA WorkerStaysUp ==
  ASSUME TypeOK, NEW w \in Workers, WorkerStep(w) \/ WorkerPoll(w), ~WorkerDrained(w)
  PROVE  wpc'[w] # "wait"
<1> DEFINE Up == {"fetch", "exec", "reset", "kernel", "mark", "add", "post"}
<1>1. ASSUME NEW pc \in Up, wpc' = [wpc EXCEPT ![w] = pc]
      PROVE  wpc'[w] # "wait"
  BY Zenon, <1>1 DEF TypeOK
<1>2. CASE WorkerWait(w) \/ WorkerPoll(w) \/ WorkerReset(w) \/ WorkerDrop(w) \/ WorkerPost(w)
  BY Zenon, <1>1, <1>2 DEF WorkerWait, WorkerPoll, WorkerReset, WorkerDrop, WorkerPost
<1>3. CASE WorkerFetch(w) \/ WorkerSkip(w)
  BY Zenon, <1>1, <1>3 DEF WorkerFetch, WorkerSkip
<1>4. CASE WorkerExec(w) \/ WorkerResult(w) \/ WorkerMark(w)
  BY Zenon, <1>1, <1>4 DEF WorkerExec, WorkerResult, WorkerMark
<1>5. CASE WorkerAdd(w)
  BY Zenon, <1>1, <1>5 DEF WorkerAdd
<1> QED
  BY Zenon, <1>2, <1>3, <1>4, <1>5 DEF WorkerStep

\* No submission sleeps: SubmissionSeen for any number of loops and workers,
\* whatever callers do, and although ffsem_post() fails at its maximum.
THEOREM SubmissionsSeen == AnyTimeSpec => []SubmissionSeen
<1>1. Init => SubmissionSeen
  BY DEF Init, SubmissionSeen, Range
<1>2. ASSUME TypeOK, Handles, SubmissionSeen, [AnyTimeNext]_vars
      PROVE  SubmissionSeen'
  <2> USE <1>2, KCallAssumption
  <2> USE DEF TypeOK, Handles, SubmissionSeen, kcVars, postVars, loopVars, workerVars
  <2>1. CASE UNCHANGED vars
    BY Zenon, <2>1 DEF vars
  <2>2. ASSUME NEW k \in KCalls, NEW o \in Ops, NEW a \in Args, AsyncCall(k, o, a)
        PROVE  SubmissionSeen'
    BY <2>2 DEF AsyncCall, InApp, CallSync, CallBusy, CallCollect, CallSubmit
  <2>3. ASSUME NEW k \in KCalls, Cancel(k)
        PROVE  SubmissionSeen'
    BY Zenon, <2>3 DEF Cancel
  <2>4. ASSUME NEW l \in Loops, CallAddFull(l) 
        PROVE  SubmissionSeen'
    BY Zenon, <2>4 DEF CallAddFull
  <2>5. ASSUME NEW l \in Loops, CallAdd(l)
        PROVE  SubmissionSeen'
    <3>1. ckc[l] \in KCalls /\ Owner[ckc[l]] = l
      BY Zenon, <2>5 DEF CallAdd
    <3>2. Range(sq') = Range(sq) \cup {ckc[l]}
      BY <2>5, <3>1, RangeOfAppend DEF CallAdd
    <3> QED
      BY Zenon, <2>5, <3>1, <3>2 DEF CallAdd
  <2>6. ASSUME NEW l \in Loops, CallSemPost(l)
        PROVE  SubmissionSeen'
    BY <2>6 DEF CallSemPost
  <2>7. ASSUME NEW l \in Loops,
               \/ ProcessStep(l) \/ LoopWait(l) \/ LoopWake(l)
               \/ LoopPoll(l) \/ LoopOther(l) \/ HandlerReturn(l)
        PROVE  SubmissionSeen'
    BY Zenon, <2>7 DEF ProcessStep, LoopConsume, LoopFetch, LoopDrained, LoopWait, LoopWake,
                LoopPoll, LoopOther, HandlerReturn
  <2>8. ASSUME NEW w \in Workers, WorkerDrained(w)
        PROVE  SubmissionSeen'
    BY <2>8 DEF WorkerDrained, Range
  <2>9. ASSUME NEW w \in Workers, WorkerStep(w) \/ WorkerPoll(w), ~WorkerDrained(w)
        PROVE  SubmissionSeen'
    <3>1. wpc'[w] # "wait"
      BY Zenon, <1>2, <2>9, WorkerStaysUp
    <3> QED
      BY Zenon, <3>1
  <2> QED
    BY Zenon, <2>1, <2>2, <2>3, <2>4, <2>5, <2>6, <2>7, <2>8, <2>9
       DEF AnyTimeNext, Threads, CallStep
<1> QED
  BY <1>1, <1>2, TypeCorrect, PTL DEF AnyTimeSpec

\* No completion sleeps: CompletionSeen for any number of loops and workers,
\* although one post stands for a whole batch and epoll reports edges only.
THEOREM CompletionsSeen == AnyTimeSpec => []CompletionSeen
<1>1. Init => CompletionSeen
  BY KCallAssumption DEF Init, CompletionSeen
<1>2. ASSUME TypeOK, Handles, CompletionSeen, [AnyTimeNext]_vars
      PROVE  CompletionSeen'
  <2> USE KCallAssumption
  <2> USE DEF kcVars, postVars, loopVars, workerVars
  <2>1. SUFFICES ASSUME NEW m \in Posting, cq'[m] # << >>
                 PROVE  Coming(m)'
    BY Zenon DEF CompletionSeen
  <2>2. m \in Loops /\ (cq[m] # << >> => Coming(m))
    BY Zenon, <1>2 DEF CompletionSeen
  <2>3. TypeOK /\ Handles
    BY Zenon, <1>2
  \* A step that leaves the CQ and what Coming(m) is about alone.
  <2>4. ASSUME cq'[m] = cq[m], lpc'[m] = lpc[m], ready'[m] = ready[m], efd'[m] = efd[m],
               \A w \in Workers : wpc[w] = "post" => wpc'[w] = "post" /\ wkc'[w] = wkc[w]
        PROVE  Coming(m)'
    BY Zenon, <2>1, <2>2, <2>4 DEF Coming
  <2>5. CASE UNCHANGED vars
    BY Zenon, <2>4, <2>5 DEF vars
  <2>6. ASSUME NEW k \in KCalls, NEW o \in Ops, NEW a \in Args, AsyncCall(k, o, a)
        PROVE  Coming(m)'
    BY Zenon, <2>4, <2>6 DEF AsyncCall
  <2>7. ASSUME NEW k \in KCalls, Cancel(k)
        PROVE  Coming(m)'
    BY Zenon, <2>4, <2>7 DEF Cancel
  <2>8. ASSUME NEW l \in Loops, CallStep(l)
        PROVE  Coming(m)'
    BY Zenon, <2>4, <2>8 DEF CallStep, CallAddFull, CallAdd, CallSemPost
  <2>9. ASSUME NEW l \in Loops, ProcessStep(l) \/ LoopPoll(l) \/ HandlerReturn(l)
        PROVE  Coming(m)'
    <3> USE DEF ProcessStep, LoopConsume, LoopFetch, LoopDrained, LoopPoll, HandlerReturn
    <3>1. CASE l # m
      BY Zenon, <2>2, <2>3, <2>4, <2>9, <3>1 DEF TypeOK
    <3>2. CASE l = m
      BY Zenon, <2>1, <2>2, <2>3, <2>9, <3>2 DEF TypeOK, Coming
    <3> QED
      BY Zenon, <3>1, <3>2
  <2>10. ASSUME NEW l \in Loops, LoopWait(l) \/ LoopOther(l) \/ LoopWake(l)
         PROVE  Coming(m)'
    <3> USE DEF LoopWait, LoopOther, LoopWake
    <3>1. CASE l # m
      BY Zenon, <2>2, <2>3, <2>4, <2>10, <3>1 DEF TypeOK
    <3>2. CASE l = m
      BY Zenon, <2>1, <2>2, <2>3, <2>10, <3>2 DEF TypeOK, Coming
    <3> QED
      BY Zenon, <3>1, <3>2
  <2>11. ASSUME NEW w \in Workers, WorkerAdd(w)
         PROVE  Coming(m)'
    <3>1. wkc[w] \in KCalls /\ Owner[wkc[w]] \in Loops
      BY Zenon, <2>3, <2>11 DEF Handles, WorkerAdd, Holding
    <3>2. CASE Owner[wkc[w]] # m \/ cq[m] # << >>
      <4>1. \A v \in Workers : wpc[v] = "post" => wpc'[v] = "post" /\ wkc'[v] = wkc[v]
        BY Zenon, <2>3, <2>11 DEF TypeOK, WorkerAdd
      <4>2. UNCHANGED <<lpc, ready, efd>>
        BY Zenon, <2>11 DEF WorkerAdd
      <4>3. cq[m] # << >>
        BY Zenon, <2>1, <2>2, <2>3, <2>11, <3>1, <3>2 DEF TypeOK, WorkerAdd
      <4> QED
        BY Zenon, <2>2, <4>1, <4>2, <4>3 DEF Coming
    <3>3. CASE Owner[wkc[w]] = m /\ cq[m] = << >>
      <4>1. wpc'[w] = "post" /\ wkc'[w] = wkc[w]
        BY Zenon, <2>1, <2>3, <2>11, <3>3 DEF TypeOK, WorkerAdd
      <4> QED
        BY Zenon, <3>3, <4>1 DEF Coming
    <3> QED
      BY Zenon, <3>2, <3>3
  <2>12. ASSUME NEW w \in Workers, WorkerPost(w)
         PROVE  Coming(m)'
    <3>1. wkc[w] \in KCalls /\ Owner[wkc[w]] \in Loops
      BY Zenon, <2>3, <2>12 DEF Handles, WorkerPost
    <3>2. CASE Owner[wkc[w]] = m
      BY Zenon, <2>2, <2>3, <2>12, <3>1, <3>2 DEF TypeOK, Coming, WorkerPost
    <3>3. CASE Owner[wkc[w]] # m
      BY Zenon, <2>1, <2>2, <2>3, <2>12, <3>1, <3>3 DEF TypeOK, Coming, WorkerPost
    <3> QED
      BY SMTT(30), <3>2, <3>3
  <2>13. ASSUME NEW w \in Workers,
                WorkerStep(w) \/ WorkerPoll(w), ~WorkerAdd(w), ~WorkerPost(w)
         PROVE  Coming(m)'
    BY ZenonT(60), <2>3, <2>4, <2>13
       DEF TypeOK, WorkerStep, WorkerPoll, WorkerWait, WorkerFetch, WorkerDrained, WorkerSkip,
           WorkerReset, WorkerExec, WorkerResult, WorkerMark, WorkerDrop
  <2> QED
    BY Zenon, <1>2, <2>5, <2>6, <2>7, <2>8, <2>9, <2>10, <2>11, <2>12, <2>13
       DEF AnyTimeNext, Threads, ProcessStep
<1> QED
  BY <1>1, <1>2, TypeCorrect, PTL DEF AnyTimeSpec

-----------------------------------------------------------------------------
(* Places                                                                  *)

\* A step that adds nothing to a queue, stores no kc->state, and in which threads
\* keep the objects they have or let them go.
LEMMA KeepingStep ==
  ASSUME OnePlace, StateTells,
         sq' = sq, cq' = cq, state' = state,
         \A w \in Workers : wpc'[w] \in Unmarked => wpc[w] \in Unmarked /\ wkc'[w] = wkc[w],
         \A w \in Workers : wpc'[w] = "add" => wpc[w] = "add" /\ wkc'[w] = wkc[w],
         \A l \in Loops : cpc'[l] = "add" => cpc[l] = "add" /\ ckc'[l] = ckc[l]
  PROVE  OnePlace' /\ StateTells'
<1>1. \A w \in Workers : wpc'[w] \in Holding => wpc[w] \in Holding /\ wkc'[w] = wkc[w]
  BY Zenon DEF Unmarked, Holding
<1>2. \A k \in KCalls : (Exposed(k)' => Exposed(k)) /\ (Submitting(k)' => Submitting(k))
  BY Zenon DEF Exposed, Submitting
<1>3. OnePlace'
  BY Zenon, <1>1 DEF OnePlace
<1>4. StateTells'
  BY ZenonT(60), <1>2 DEF StateTells
<1> QED
  BY Zenon, <1>3, <1>4

\* Every step of a caller that follows the protocol, of a loop and of a worker
\* leaves an object in one place, with kc->state telling which.
LEMMA PlaceStep ==
  ASSUME TypeOK, Handles, OnePlace, StateTells, [Next]_vars
  PROVE  OnePlace' /\ StateTells'
<1> USE KCallAssumption
<1> USE DEF kcVars, postVars, loopVars, workerVars
<1>1. CASE UNCHANGED vars
  BY Zenon, <1>1, KeepingStep DEF vars
<1>2. ASSUME NEW k \in KCalls, NEW o \in Ops, NEW a \in Args, ~Exposed(k), AsyncCall(k, o, a)
      PROVE  OnePlace' /\ StateTells'
  <2>1. CASE CallSync(k, o, a) \/ CallBusy(k) \/ CallCollect(k)
    BY Zenon, <1>2, <2>1, KeepingStep DEF AsyncCall, CallSync, CallBusy, CallCollect
  <2>2. CASE CallSubmit(k, o, a)
    <3>1. sq' = sq /\ cq' = cq /\ state' = state /\ wpc' = wpc /\ wkc' = wkc /\ state[k] = 0
      BY Zenon, <1>2, <2>2 DEF AsyncCall, CallSubmit
    <3>2. \A j \in KCalls : Exposed(j)' = Exposed(j)
      BY Zenon, <3>1 DEF Exposed
    <3>3. \A j \in KCalls : Submitting(j)' => Submitting(j) \/ j = k
      BY Zenon, <1>2, <2>2 DEF CallSubmit, Submitting, TypeOK
    <3>4. OnePlace'
      BY Zenon, <3>1 DEF OnePlace
    <3>5. StateTells'
      BY Zenon, <1>2, <3>1, <3>2, <3>3 DEF StateTells
    <3> QED
      BY Zenon, <3>4, <3>5
  <2> QED
    BY Zenon, <1>2, <2>1, <2>2 DEF AsyncCall
<1>3. ASSUME NEW k \in KCalls, Cancel(k)
      PROVE  OnePlace' /\ StateTells'
  BY Zenon, <1>3, KeepingStep DEF Cancel
<1>4. ASSUME NEW l \in Loops, CallAddFull(l) \/ CallSemPost(l)
      PROVE  OnePlace' /\ StateTells'
  BY ZenonT(60), <1>4, KeepingStep DEF CallAddFull, CallSemPost, TypeOK
<1>5. ASSUME NEW l \in Loops, CallAdd(l)
      PROVE  OnePlace' /\ StateTells'
  <2> DEFINE k == ckc[l]
  <2>1. k \in KCalls /\ Owner[k] = l /\ Submitting(k)
    BY Zenon, <1>5 DEF CallAdd, Handles, Submitting
  <2>2. state[k] = 0 /\ ~Exposed(k)
    BY Zenon, <2>1 DEF StateTells
  <2>3. Range(sq') = Range(sq) \cup {k} /\ IsInjective(sq')
    <3>1. k \notin Range(sq) /\ IsInjective(sq) /\ sq \in Seq(KCalls)
      BY Zenon, <2>2 DEF Exposed, OnePlace, TypeOK
    <3>2. sq' = Append(sq, k)
      BY Zenon, <1>5 DEF CallAdd
    <3>3. Range(Append(sq, k)) = Range(sq) \cup {k}
      BY <2>1, <3>1, RangeOfAppend
    <3>4. IsInjective(Append(sq, k))
      BY Zenon, <2>1, <3>1, InjectiveAppend
    <3> QED
      BY Zenon, <3>2, <3>3, <3>4
  <2>4. cq' = cq /\ state' = state /\ wpc' = wpc /\ wkc' = wkc
    BY Zenon, <1>5 DEF CallAdd
  <2>5. \A j \in KCalls : Exposed(j)' => Exposed(j) \/ j = k
    BY Zenon, <2>3, <2>4 DEF Exposed
  <2>6. \A j \in KCalls : Submitting(j)' => Submitting(j) /\ j # k
    <3>1. \A m \in Loops : cpc'[m] = "add" => m # l /\ cpc[m] = "add" /\ ckc'[m] = ckc[m]
      BY Zenon, <1>5 DEF CallAdd, TypeOK
    <3>2. \A m \in Loops : cpc[m] = "add" => Owner[ckc[m]] = m
      BY Zenon DEF Handles
    <3> QED
      BY <2>1, <3>1, <3>2 DEF Submitting
  <2> HIDE DEF k
  <2>7. StateTells'
    BY ZenonT(60), <2>2, <2>4, <2>5, <2>6 DEF StateTells
  <2>8. \A w \in Workers : wpc[w] \in Holding => wkc[w] # k
    BY <2>2 DEF StateTells, Exposed, Holding, Unmarked
  <2>9. \A m \in Loops : k \notin Range(cq[m])
    BY <2>2 DEF StateTells
  <2>10. OnePlace'
    BY <2>3, <2>4, <2>8, <2>9 DEF OnePlace
  <2> QED
    BY Zenon, <2>7, <2>10
<1>6. ASSUME NEW l \in Loops, LoopFetch(l)
      PROVE  OnePlace' /\ StateTells'
  <2> DEFINE k == Head(cq[l])
  <2>1. /\ k \in KCalls
        /\ Range(cq[l]) = {k} \cup Range(cq'[l])
        /\ IsInjective(cq'[l]) /\ k \notin Range(cq'[l])
    <3>1. cq[l] \in Seq(KCalls) /\ cq[l] # << >> /\ cq'[l] = Tail(cq[l]) /\ IsInjective(cq[l])
      BY Zenon, <1>6 DEF LoopFetch, TypeOK, OnePlace
    <3> QED
      BY <3>1, RangeOfTail
  <2>2. \A m \in Loops \ {l} : cq'[m] = cq[m]
    BY Zenon, <1>6 DEF LoopFetch, TypeOK
  <2>3. sq' = sq /\ wpc' = wpc /\ wkc' = wkc /\ cpc' = cpc /\ ckc' = ckc
    BY Zenon, <1>6 DEF LoopFetch
  <2>4. state'[k] = 0 /\ \A j \in KCalls \ {k} : state'[j] = state[j]
    BY Zenon, <1>6, <2>1 DEF LoopFetch, TypeOK
  <2>5. \A j \in KCalls : (Exposed(j)' <=> Exposed(j)) /\ (Submitting(j)' <=> Submitting(j))
    BY Zenon, <2>3 DEF Exposed, Submitting
  <2>6. \A m \in Loops : Range(cq'[m]) \subseteq Range(cq[m]) /\ k \notin Range(cq'[m])
    BY Zenon, <2>1, <2>2 DEF OnePlace
  <2>7. \A w \in Workers : wpc[w] \in Holding => wkc[w] # k
    BY Zenon, <2>1 DEF OnePlace
  <2> HIDE DEF k
  <2>8. OnePlace'
    <3>1. \A m \in Loops : IsInjective(cq'[m])
      BY Zenon, <2>1, <2>2 DEF OnePlace
    <3> QED
      BY ZenonT(60), <2>3, <2>6, <3>1 DEF OnePlace
  <2>9. StateTells'
    <3>1. \A j \in KCalls : Exposed(j)' \/ Submitting(j)' => state'[j] = 0
      BY Zenon, <2>4, <2>5 DEF StateTells
    <3>2. \A m \in Loops : \A j \in Range(cq'[m]) : state'[j] = 2
      <4>1. \A m \in Loops : Range(cq[m]) \subseteq KCalls
        BY Zenon, RangeInSet DEF TypeOK
      <4> QED
        BY <2>4, <2>6, <4>1 DEF StateTells
    <3>3. \A w \in Workers : wpc'[w] = "add" => state'[wkc'[w]] = 2
      BY Zenon, <2>3, <2>4, <2>7 DEF StateTells, Handles, Holding
    <3> QED
      BY Zenon, <2>5, <3>1, <3>2, <3>3 DEF StateTells
  <2> QED
    BY Zenon, <2>8, <2>9
<1>7. ASSUME NEW l \in Loops,
             \/ LoopConsume(l) \/ LoopDrained(l) \/ LoopWait(l) \/ LoopWake(l)
             \/ LoopPoll(l) \/ LoopOther(l) \/ HandlerReturn(l)
      PROVE  OnePlace' /\ StateTells'
  <2>1. UNCHANGED <<sq, cq, state, wpc, wkc, cpc, ckc>>
    BY Zenon, <1>7 DEF LoopConsume, LoopDrained, LoopWait, LoopWake, LoopPoll, LoopOther, HandlerReturn
  <2> QED
    BY Zenon, <2>1, KeepingStep
<1>8. ASSUME NEW w \in Workers, WorkerWait(w) \/ WorkerPoll(w) \/ WorkerDrained(w)
      PROVE  OnePlace' /\ StateTells'
  BY ZenonT(60), <1>8, KeepingStep DEF WorkerWait, WorkerPoll, WorkerDrained, TypeOK, Unmarked, Holding
<1>9. ASSUME NEW w \in Workers, WorkerFetch(w)
      PROVE  OnePlace' /\ StateTells'
  <2> DEFINE k == Head(sq)
  <2>1. /\ k \in KCalls
        /\ Range(sq) = {k} \cup Range(sq')
        /\ IsInjective(sq') /\ k \notin Range(sq')
    BY Zenon, <1>9, RangeOfTail DEF WorkerFetch, TypeOK, OnePlace
  <2>2. cq' = cq /\ state' = state /\ cpc' = cpc /\ ckc' = ckc
    BY Zenon, <1>9 DEF WorkerFetch
  <2>3. wpc[w] = "fetch" /\ wpc'[w] = "exec" /\ wkc'[w] = k
    BY Zenon, <1>9 DEF WorkerFetch, TypeOK
  <2>4. \A v \in Workers \ {w} : wpc'[v] = wpc[v] /\ wkc'[v] = wkc[v]
    BY Zenon, <1>9 DEF WorkerFetch, TypeOK
  <2> HIDE DEF k
  <2>5. \A j \in KCalls : (Exposed(j)' <=> Exposed(j)) /\ (Submitting(j)' <=> Submitting(j))
    BY Zenon, <2>1, <2>2, <2>3, <2>4 DEF Exposed, Submitting, Unmarked, Holding
  <2>6. StateTells'
    BY ZenonT(60), <2>2, <2>3, <2>4, <2>5 DEF StateTells
  <2>7. OnePlace'
    BY Zenon, <2>1, <2>2, <2>3, <2>4 DEF OnePlace
  <2> QED
    BY Zenon, <2>6, <2>7
<1>10. ASSUME NEW w \in Workers, WorkerSkip(w) \/ WorkerExec(w) \/ WorkerResult(w)
       PROVE  OnePlace' /\ StateTells'
  BY ZenonT(60), <1>10, KeepingStep DEF WorkerSkip, WorkerExec, WorkerResult, TypeOK, Unmarked, Holding
<1>11. ASSUME NEW w \in Workers, WorkerReset(w)
       PROVE  OnePlace' /\ StateTells'
  <2>1. wkc[w] \in KCalls /\ Exposed(wkc[w])
    BY Zenon, <1>11 DEF WorkerReset, Handles, Exposed, Unmarked, Holding
  <2>2. state' = state
    BY <1>11, <2>1 DEF WorkerReset, StateTells, TypeOK
  <2> QED
    BY <1>11, <2>2, KeepingStep DEF WorkerReset, TypeOK, Unmarked, Holding
<1>12. ASSUME NEW w \in Workers, WorkerMark(w)
       PROVE  OnePlace' /\ StateTells'
  BY <1>12 DEF WorkerMark, TypeOK, Handles, OnePlace, StateTells, Exposed, Submitting, Holding, Unmarked
<1>13. ASSUME NEW w \in Workers, WorkerAdd(w)
       PROVE  OnePlace' /\ StateTells'
  <2> DEFINE k == wkc[w]
             l == Owner[k]
  <2>1. wpc[w] = "add" /\ k \in KCalls /\ l \in Loops /\ state[k] = 2
    BY Zenon, <1>13 DEF WorkerAdd, Handles, Holding, StateTells
  <2>2. k \notin Range(sq) /\ \A m \in Loops : k \notin Range(cq[m])
    BY Zenon, <2>1 DEF OnePlace, Holding
  <2>3. cq'[l] = Append(cq[l], k) /\ \A m \in Loops \ {l} : cq'[m] = cq[m]
    BY Zenon, <1>13, <2>1 DEF WorkerAdd, TypeOK
  <2>4. \A v \in Workers \ {w} : wpc'[v] = wpc[v] /\ wkc'[v] = wkc[v]
    BY Zenon, <1>13 DEF WorkerAdd, TypeOK
  <2>5. wpc'[w] \in {"post", "fetch"} /\ UNCHANGED <<state, sq, cpc, ckc>>
    BY Zenon, <1>13 DEF WorkerAdd, TypeOK
  <2>6. \A v \in Workers \ {w} : wpc[v] \in Holding => wkc[v] # k
    BY ZenonT(60), <2>1 DEF OnePlace, Holding
  <2> HIDE DEF k, l
  <2>7. Range(cq'[l]) = Range(cq[l]) \cup {k} /\ IsInjective(cq'[l])
    <3>1. cq[l] \in Seq(KCalls) /\ IsInjective(cq[l])
      BY Zenon, <2>1 DEF TypeOK, OnePlace
    <3>2. Range(Append(cq[l], k)) = Range(cq[l]) \cup {k}
      BY <2>1, <3>1, RangeOfAppend
    <3>3. IsInjective(Append(cq[l], k))
      BY Zenon, <2>1, <2>2, <3>1, InjectiveAppend
    <3> QED
      BY Zenon, <2>3, <3>2, <3>3
  <2>8. \A j \in KCalls : (Exposed(j)' => Exposed(j)) /\ (Submitting(j)' <=> Submitting(j))
    BY Zenon, <2>4, <2>5 DEF Exposed, Submitting, Unmarked, Holding
  <2>9. StateTells'
    <3>1. \A m \in Loops : \A j \in Range(cq'[m]) : state'[j] = 2
      BY Zenon, <2>1, <2>3, <2>5, <2>7 DEF StateTells
    <3> QED
      BY ZenonT(60), <2>4, <2>5, <2>8, <3>1 DEF StateTells
  <2>10. OnePlace'
    <3>1. \A m \in Loops : IsInjective(cq'[m]) /\ \A j \in Range(cq'[m]) : Owner[j] = m
      BY ZenonT(60), <2>3, <2>7 DEF OnePlace, l
    <3>2. \A v \in Workers : wpc'[v] \in Holding => v # w /\ wpc[v] \in Holding /\ wkc'[v] = wkc[v]
      BY Zenon, <2>4, <2>5 DEF Holding
    <3>3. \A m \in Loops : Range(cq'[m]) \subseteq Range(cq[m]) \cup {k}
      BY Zenon, <2>3, <2>7
    <3>4. \A u, v \in Workers :
            wpc'[u] \in Holding /\ wpc'[v] \in Holding /\ wkc'[u] = wkc'[v] => u = v
      BY Zenon, <3>2 DEF OnePlace
    <3>5. ASSUME NEW v \in Workers, wpc'[v] \in Holding
          PROVE  wkc'[v] \notin Range(sq') /\ \A m \in Loops : wkc'[v] \notin Range(cq'[m])
      <4>1. v # w /\ wpc[v] \in Holding /\ wkc'[v] = wkc[v]
        BY Zenon, <3>2, <3>5
      <4>2. wkc[v] # k /\ wkc[v] \notin Range(sq) /\ \A m \in Loops : wkc[v] \notin Range(cq[m])
        BY Zenon, <2>6, <4>1 DEF OnePlace
      <4> QED
        BY Zenon, <2>5, <3>3, <4>1, <4>2
    <3>6. \A m \in Loops : Range(sq') \cap Range(cq'[m]) = {}
      <4>1. \A m \in Loops : Range(sq) \cap Range(cq[m]) = {}
        BY Zenon DEF OnePlace
      <4> QED
        BY Zenon, <2>2, <2>5, <3>3, <4>1
    <3>7. IsInjective(sq')
      BY ZenonT(60), <2>5 DEF OnePlace
    <3> QED
      BY Zenon, <3>1, <3>4, <3>5, <3>6, <3>7 DEF OnePlace
  <2> QED
    BY Zenon, <2>9, <2>10
<1>14. ASSUME NEW w \in Workers, WorkerDrop(w) \/ WorkerPost(w)
       PROVE  OnePlace' /\ StateTells'
  BY <1>14, KeepingStep DEF WorkerDrop, WorkerPost, TypeOK, Unmarked, Holding
<1> QED
  BY Zenon, <1>1, <1>2, <1>3, <1>4, <1>5, <1>6, <1>7, <1>8, <1>9, <1>10, <1>11, <1>12, <1>13, <1>14
     DEF Next, Threads, CallStep, ProcessStep, WorkerStep


-----------------------------------------------------------------------------
(* Contents of the union                                                   *)

\* The arguments of a call hold its argument.
LEMMA ArgumentOfCall ==
  ASSUME NEW o, NEW a
  PROVE  Arguments(o, a).arg = a
BY Zenon DEF Arguments

\* A step that stores nothing in op or the union and moves no object out of or
\* into the SQ, a call, or a worker's hands before `kc->state = 2`.
LEMMA UnionKeepingStep ==
  ASSUME UnionHolds,
         op' = op, data' = data, sq' = sq,
         \A l \in Loops : /\ cpc'[l] = "add" <=> cpc[l] = "add"
                          /\ cpc[l] = "add" => ckc'[l] = ckc[l],
         \A w \in Workers : /\ wpc'[w] \in Unmarked => wpc[w] \in Unmarked
                            /\ wpc[w] \in Unmarked =>
                                 wpc'[w] = wpc[w] /\ wkc'[w] = wkc[w] /\ wreq'[w] = wreq[w]
  PROVE  UnionHolds'
<1>1. \A k : (Asked(k)' <=> Asked(k)) /\ (Answered(k)' <=> Answered(k))
  BY Zenon DEF Asked, Answered
<1>2. \A k : (Exposed(k)' <=> Exposed(k)) /\ (Submitting(k)' <=> Submitting(k))
  BY Zenon DEF Exposed, Submitting
<1>3. \A w \in Workers : wpc'[w] \in {"exec", "reset", "kernel", "mark"} =>
        wpc'[w] = wpc[w] /\ wkc'[w] = wkc[w] /\ wreq'[w] = wreq[w]
  BY Zenon DEF Unmarked, Holding
<1>4. \A k \in KCalls : k \in Range(sq)' \/ Submitting(k)' => Asked(k)'
  BY Zenon, <1>1, <1>2 DEF UnionHolds
<1>5. \A k \in KCalls : ~Exposed(k)' /\ ~Submitting(k)' => Answered(k)'
  BY Zenon, <1>1, <1>2 DEF UnionHolds
<1>6. ASSUME NEW w \in Workers
      PROVE  /\ wpc'[w] = "exec" => Asked(wkc[w])'
             /\ wpc'[w] = "reset" => op'[wkc'[w]] = 0
             /\ wpc'[w] = "kernel" => op'[wkc'[w]] \in {0, wreq'[w].op} /\ wreq'[w].arg \in Args
             /\ wpc'[w] = "mark" => Answered(wkc[w])'
  <2>1. /\ wpc[w] = "exec" => Asked(wkc[w])
        /\ wpc[w] = "reset" => op[wkc[w]] = 0
        /\ wpc[w] = "kernel" => op[wkc[w]] \in {0, wreq[w].op} /\ wreq[w].arg \in Args
        /\ wpc[w] = "mark" => Answered(wkc[w])
    BY Zenon DEF UnionHolds
  <2> QED
    BY Zenon, <1>3, <2>1 DEF Asked, Answered
<1> QED
  BY Zenon, <1>4, <1>5, <1>6 DEF UnionHolds

\* `kc->op = 0`: nothing is claimed of the union of an object without operation.
LEMMA ClearingStep ==
  ASSUME TypeOK, UnionHolds, NEW k \in KCalls,
         op' = [op EXCEPT ![k] = 0], data' = data, sq' = sq,
         wpc' = wpc, wkc' = wkc, wreq' = wreq,
         \A j \in KCalls \ {k} : Submitting(j)' <=> Submitting(j),
         \A w \in Workers : wpc[w] \in Unmarked => wkc[w] \in KCalls
  PROVE  UnionHolds'
<1>1. op'[k] = 0 /\ \A j \in KCalls \ {k} : op'[j] = op[j]
  BY Zenon DEF TypeOK
<1>2. Asked(k)' /\ Answered(k)'
  BY Zenon, <1>1 DEF Asked, Answered
<1>3. \A j \in KCalls \ {k} : (Asked(j)' <=> Asked(j)) /\ (Answered(j)' <=> Answered(j))
  BY Zenon, <1>1 DEF Asked, Answered
<1>4. \A j \in KCalls : Exposed(j)' <=> Exposed(j)
  BY Zenon DEF Exposed
<1>5. \A w \in Workers : wpc[w] \in {"exec", "reset", "kernel", "mark"} => wkc[w] \in KCalls
  BY Zenon DEF Unmarked, Holding
<1>6. \A j \in KCalls : j \in Range(sq)' \/ Submitting(j)' => Asked(j)'
  BY Zenon, <1>2, <1>3 DEF UnionHolds
<1>7. \A j \in KCalls : ~Exposed(j)' /\ ~Submitting(j)' => Answered(j)'
  BY Zenon, <1>2, <1>3, <1>4 DEF UnionHolds
<1>8. ASSUME NEW w \in Workers
      PROVE  /\ wpc[w] = "exec" => Asked(wkc[w])'
             /\ wpc[w] = "reset" => op'[wkc[w]] = 0
             /\ wpc[w] = "kernel" => op'[wkc[w]] \in {0, wreq[w].op} /\ wreq[w].arg \in Args
             /\ wpc[w] = "mark" => Answered(wkc[w])'
  <2>1. CASE wkc[w] = k
    BY Zenon, <1>1, <1>2, <2>1 DEF UnionHolds
  <2>2. CASE wkc[w] # k
    BY Zenon, <1>1, <1>3, <1>5, <2>2 DEF UnionHolds
  <2> QED
    BY Zenon, <2>1, <2>2
<1> QED
  BY Zenon, <1>6, <1>7, <1>8 DEF UnionHolds

\* A step of one worker w with the object k in its hands before `kc->state = 2`:
\* the other objects, and what the other threads have, stay as they were.
LEMMA OneWorkerStep ==
  ASSUME TypeOK, Handles, OnePlace, StateTells, UnionHolds,
         NEW w \in Workers, NEW k \in KCalls, wpc[w] \in Unmarked, wkc[w] = k,
         op' = op, \A j \in KCalls \ {k} : data'[j] = data[j],
         sq' = sq, cpc' = cpc, ckc' = ckc,
         \A v \in Workers \ {w} : wpc'[v] = wpc[v] /\ wkc'[v] = wkc[v] /\ wreq'[v] = wreq[v],
         wpc'[w] \in Unmarked => wkc'[w] = k,
         wpc'[w] \notin Unmarked => Answered(k)',
         /\ wpc'[w] = "exec" => Asked(k)'
         /\ wpc'[w] = "reset" => op[k] = 0
         /\ wpc'[w] = "kernel" => op[k] \in {0, wreq'[w].op} /\ wreq'[w].arg \in Args
         /\ wpc'[w] = "mark" => Answered(k)'
  PROVE  UnionHolds'
<1>1. Exposed(k) /\ ~Submitting(k) /\ k \notin Range(sq)
  BY Zenon DEF Exposed, StateTells, OnePlace, Unmarked
<1>2. \A v \in Workers \ {w} : wpc[v] \in Unmarked => wkc[v] \in KCalls \ {k}
  BY Zenon DEF OnePlace, Unmarked, Handles
<1>3. \A j \in KCalls \ {k} : (Asked(j)' <=> Asked(j)) /\ (Answered(j)' <=> Answered(j))
  BY Zenon DEF Asked, Answered
<1>4. \A j \in KCalls : Submitting(j)' <=> Submitting(j)
  BY Zenon DEF Submitting
<1>5. \A j \in KCalls \ {k} : Exposed(j)' <=> Exposed(j)
  BY Zenon DEF Exposed
<1>6. Exposed(k)' <=> wpc'[w] \in Unmarked
  BY Zenon, <1>1, <1>2 DEF Exposed
<1>7. \A j \in KCalls : j \in Range(sq)' \/ Submitting(j)' => Asked(j)'
  BY Zenon, <1>1, <1>3, <1>4 DEF UnionHolds
<1>8. \A j \in KCalls : ~Exposed(j)' /\ ~Submitting(j)' => Answered(j)'
  BY Zenon, <1>3, <1>4, <1>5, <1>6 DEF UnionHolds
<1>9. ASSUME NEW v \in Workers
      PROVE  /\ wpc'[v] = "exec" => Asked(wkc[v])'
             /\ wpc'[v] = "reset" => op'[wkc'[v]] = 0
             /\ wpc'[v] = "kernel" => op'[wkc'[v]] \in {0, wreq'[v].op} /\ wreq'[v].arg \in Args
             /\ wpc'[v] = "mark" => Answered(wkc[v])'
  <2>1. CASE v = w
    BY ZenonT(60), <2>1 DEF Unmarked, Holding, Asked, Answered
  <2>2. CASE v # w
    <3>1. /\ wpc[v] = "exec" => Asked(wkc[v])
          /\ wpc[v] = "reset" => op[wkc[v]] = 0
          /\ wpc[v] = "kernel" => op[wkc[v]] \in {0, wreq[v].op} /\ wreq[v].arg \in Args
          /\ wpc[v] = "mark" => Answered(wkc[v])
      BY Zenon DEF UnionHolds
    <3>2. wpc'[v] = wpc[v] /\ wkc'[v] = wkc[v] /\ wreq'[v] = wreq[v]
      BY Zenon, <2>2
    <3>3. wpc[v] \in Unmarked => data'[wkc[v]] = data[wkc[v]]
      BY Zenon, <1>2, <2>2
    <3> QED
      BY <3>1, <3>2, <3>3 DEF Unmarked, Holding, Asked, Answered
  <2> QED
    BY Zenon, <2>1, <2>2
<1> QED
  BY Zenon, <1>7, <1>8, <1>9 DEF UnionHolds

\* Every step keeps what the union holds at each stage.
LEMMA UnionStep ==
  ASSUME TypeOK, Handles, OnePlace, StateTells, UnionHolds, [Next]_vars
  PROVE  UnionHolds'
<1> USE KCallAssumption
<1> USE DEF kcVars, postVars, loopVars, workerVars
<1>1. CASE UNCHANGED vars
  BY Zenon, <1>1, UnionKeepingStep DEF vars
<1>2. \A w \in Workers : wpc[w] \in Unmarked => wkc[w] \in KCalls
  BY Zenon DEF Handles, Unmarked
<1>3. ASSUME NEW k \in KCalls, NEW o \in Ops, NEW a \in Args, ~Exposed(k), AsyncCall(k, o, a)
      PROVE  UnionHolds'
  <2>1. CASE CallSync(k, o, a) \/ CallBusy(k)
    BY Zenon, <1>3, <2>1, UnionKeepingStep DEF AsyncCall, CallSync, CallBusy
  <2>2. CASE CallCollect(k)
    BY Zenon, <1>2, <1>3, <2>2, ClearingStep DEF AsyncCall, CallCollect, Submitting
  <2>3. CASE CallSubmit(k, o, a)
    <3>1. UNCHANGED <<sq, wpc, wkc, wreq>>
      BY Zenon, <1>3, <2>3 DEF AsyncCall
    <3>2. /\ op'[k] = o /\ data'[k] = Arguments(o, a)
          /\ \A j \in KCalls \ {k} : op'[j] = op[j] /\ data'[j] = data[j]
      BY Zenon, <2>3 DEF CallSubmit, TypeOK
    <3>3. Asked(k)'
      BY Zenon, <3>2 DEF Asked
    <3>4. \A j \in KCalls \ {k} : (Asked(j)' <=> Asked(j)) /\ (Answered(j)' <=> Answered(j))
      BY Zenon, <3>2 DEF Asked, Answered
    <3>5. \A j \in KCalls : Exposed(j)' <=> Exposed(j)
      BY Zenon, <3>1 DEF Exposed
    <3>6. Submitting(k)' /\ \A j \in KCalls \ {k} : Submitting(j)' <=> Submitting(j)
      <4>1. Owner[k] \in Loops /\ cpc[Owner[k]] = "none"
        BY Zenon, <1>3 DEF AsyncCall, InApp
      <4>2. /\ cpc'[Owner[k]] = "add" /\ ckc'[Owner[k]] = k
            /\ \A l \in Loops \ {Owner[k]} : cpc'[l] = cpc[l] /\ ckc'[l] = ckc[l]
        BY ZenonT(60), <2>3, <4>1 DEF CallSubmit, TypeOK
      <4> QED
        BY Zenon, <4>1, <4>2 DEF Submitting
    <3>7. k \notin Range(sq) /\ \A w \in Workers : wpc[w] \in Unmarked => wkc[w] # k
      BY Zenon, <1>3 DEF Exposed
    <3>8. \A j \in KCalls : j \in Range(sq)' \/ Submitting(j)' => Asked(j)'
      BY Zenon, <3>1, <3>3, <3>4, <3>6 DEF UnionHolds
    <3>9. \A j \in KCalls : ~Exposed(j)' /\ ~Submitting(j)' => Answered(j)'
      BY Zenon, <3>4, <3>5, <3>6 DEF UnionHolds
    <3>10. ASSUME NEW w \in Workers, wpc[w] \in Unmarked
           PROVE  /\ op'[wkc[w]] = op[wkc[w]]
                  /\ (Asked(wkc[w])' <=> Asked(wkc[w])) /\ (Answered(wkc[w])' <=> Answered(wkc[w]))
      <4>1. wkc[w] \in KCalls \ {k} /\ wkc'[w] = wkc[w]
        BY Zenon, <1>2, <3>1, <3>7, <3>10
      <4> QED
        BY Zenon, <3>2, <4>1 DEF Asked, Answered
    <3> QED
      BY Zenon, <3>1, <3>8, <3>9, <3>10 DEF UnionHolds, Unmarked, Holding
  <2> QED
    BY Zenon, <1>3, <2>1, <2>2, <2>3 DEF AsyncCall
<1>4. ASSUME NEW k \in KCalls, Cancel(k)
      PROVE  UnionHolds'
  BY Zenon, <1>2, <1>4, ClearingStep DEF Cancel, Submitting
<1>5. ASSUME NEW l \in Loops, CallAddFull(l)
      PROVE  UnionHolds'
  <2>1. ckc[l] \in KCalls
    BY Zenon, <1>5 DEF CallAddFull, Handles
  <2>2. \A j \in KCalls \ {ckc[l]} : Submitting(j)' <=> Submitting(j)
    BY Zenon, <1>5 DEF CallAddFull, Submitting, TypeOK
  <2> QED
    BY Zenon, <1>2, <1>5, <2>1, <2>2, ClearingStep DEF CallAddFull
<1>6. ASSUME NEW l \in Loops, CallAdd(l)
      PROVE  UnionHolds'
  <2> DEFINE k == ckc[l]
  <2>1. k \in KCalls /\ Owner[k] = l /\ Submitting(k)
    BY Zenon, <1>6 DEF CallAdd, Handles, Submitting
  <2>2. Range(sq') = Range(sq) \cup {k}
    BY <1>6, <2>1, RangeOfAppend DEF CallAdd, TypeOK
  <2>3. UNCHANGED <<op, data, wpc, wkc, wreq>>
    BY Zenon, <1>6 DEF CallAdd
  <2>4. \A m \in Loops \ {l} : cpc'[m] = cpc[m] /\ ckc'[m] = ckc[m]
    BY Zenon, <1>6 DEF CallAdd, TypeOK
  <2>5. cpc'[l] = "sempost"
    BY Zenon, <1>6 DEF CallAdd, TypeOK
  <2> HIDE DEF k
  <2>6. \A j \in KCalls : (Exposed(j)' <=> Exposed(j) \/ j = k)
    BY Zenon, <2>2, <2>3 DEF Exposed
  <2>7. \A j \in KCalls : /\ Submitting(j)' => Submitting(j)
                          /\ Submitting(j) => Submitting(j)' \/ j = k
    BY Zenon, <2>4, <2>5 DEF Submitting, k
  <2>8. \A j : (Asked(j)' <=> Asked(j)) /\ (Answered(j)' <=> Answered(j))
    BY Zenon, <2>3 DEF Asked, Answered
  <2>9. \A j \in KCalls : j \in Range(sq)' \/ Submitting(j)' => Asked(j)'
    BY Zenon, <2>1, <2>2, <2>7, <2>8 DEF UnionHolds
  <2>10. \A j \in KCalls : ~Exposed(j)' /\ ~Submitting(j)' => Answered(j)'
    BY Zenon, <2>6, <2>7, <2>8 DEF UnionHolds
  <2> QED
    BY Zenon, <2>3, <2>8, <2>9, <2>10 DEF UnionHolds
<1>7. ASSUME NEW l \in Loops,
             \/ CallSemPost(l) \/ ProcessStep(l) \/ LoopWait(l) \/ LoopWake(l)
             \/ LoopPoll(l) \/ LoopOther(l) \/ HandlerReturn(l)
      PROVE  UnionHolds'
  <2>1. UNCHANGED <<op, data, sq, wpc, wkc, wreq>>
    BY Zenon, <1>7 DEF CallSemPost, ProcessStep, LoopConsume, LoopFetch, LoopDrained, LoopWait,
                LoopWake, LoopPoll, LoopOther, HandlerReturn
  <2>2. \A m \in Loops : /\ cpc'[m] = "add" <=> cpc[m] = "add"
                         /\ cpc[m] = "add" => ckc'[m] = ckc[m]
    BY ZenonT(60), <1>7 DEF CallSemPost, ProcessStep, LoopConsume, LoopFetch, LoopDrained, LoopWait,
                LoopWake, LoopPoll, LoopOther, HandlerReturn, TypeOK
  <2> QED
    BY Zenon, <2>1, <2>2, UnionKeepingStep
<1>8. ASSUME NEW w \in Workers,
             \/ WorkerWait(w) \/ WorkerPoll(w) \/ WorkerDrained(w)
             \/ WorkerAdd(w) \/ WorkerDrop(w) \/ WorkerPost(w)
      PROVE  UnionHolds'
  <2>1. UNCHANGED <<op, data, sq, wreq, cpc, ckc>>
    BY Zenon, <1>8 DEF WorkerWait, WorkerPoll, WorkerDrained, WorkerAdd, WorkerDrop, WorkerPost
  <2>2. /\ wpc[w] \notin Unmarked /\ wpc'[w] \notin Unmarked
        /\ \A v \in Workers \ {w} : wpc'[v] = wpc[v] /\ wkc'[v] = wkc[v]
    BY <1>8 DEF WorkerWait, WorkerPoll, WorkerDrained, WorkerAdd, WorkerDrop, WorkerPost,
                TypeOK, Unmarked, Holding
  <2> QED
    BY Zenon, <2>1, <2>2, UnionKeepingStep
<1>9. ASSUME NEW w \in Workers, WorkerFetch(w)
      PROVE  UnionHolds'
  <2> DEFINE k == Head(sq)
  <2>1. k \in KCalls /\ Range(sq) = {k} \cup Range(sq')
    BY Zenon, <1>9, RangeOfTail DEF WorkerFetch, TypeOK
  <2>2. UNCHANGED <<op, data, wreq, cpc, ckc>>
    BY Zenon, <1>9 DEF WorkerFetch
  <2>3. /\ wpc[w] \notin Unmarked /\ wpc'[w] = "exec" /\ wkc'[w] = k
        /\ \A v \in Workers \ {w} : wpc'[v] = wpc[v] /\ wkc'[v] = wkc[v]
    BY Zenon, <1>9 DEF WorkerFetch, TypeOK, Unmarked, Holding
  <2> HIDE DEF k
  <2>4. \A j : (Asked(j)' <=> Asked(j)) /\ (Answered(j)' <=> Answered(j))
    BY Zenon, <2>2 DEF Asked, Answered
  <2>5. \A j \in KCalls : (Exposed(j)' <=> Exposed(j)) /\ (Submitting(j)' <=> Submitting(j))
    BY Zenon, <2>1, <2>2, <2>3 DEF Exposed, Submitting, Unmarked, Holding
  <2>6. Asked(k)
    BY Zenon, <2>1 DEF UnionHolds
  <2>7. ASSUME NEW v \in Workers
        PROVE  /\ wpc'[v] = "exec" => Asked(wkc[v])'
               /\ wpc'[v] = "reset" => op'[wkc'[v]] = 0
               /\ wpc'[v] = "kernel" => op'[wkc'[v]] \in {0, wreq'[v].op} /\ wreq'[v].arg \in Args
               /\ wpc'[v] = "mark" => Answered(wkc[v])'
    <3>1. CASE v = w
      BY Zenon, <2>2, <2>3, <2>6, <3>1 DEF Asked
    <3>2. CASE v # w
      <4>1. /\ wpc[v] = "exec" => Asked(wkc[v])
            /\ wpc[v] = "reset" => op[wkc[v]] = 0
            /\ wpc[v] = "kernel" => op[wkc[v]] \in {0, wreq[v].op} /\ wreq[v].arg \in Args
            /\ wpc[v] = "mark" => Answered(wkc[v])
        BY Zenon DEF UnionHolds
      <4>2. wpc'[v] = wpc[v] /\ wkc'[v] = wkc[v] /\ wreq'[v] = wreq[v]
        BY Zenon, <2>2, <2>3, <3>2
      <4> QED
        BY Zenon, <2>2, <4>1, <4>2 DEF Asked, Answered
    <3> QED
      BY Zenon, <3>1, <3>2
  <2>8. \A j \in KCalls : j \in Range(sq)' \/ Submitting(j)' => Asked(j)'
    BY Zenon, <2>1, <2>4, <2>5 DEF UnionHolds
  <2>9. \A j \in KCalls : ~Exposed(j)' /\ ~Submitting(j)' => Answered(j)'
    BY Zenon, <2>4, <2>5 DEF UnionHolds
  <2> QED
    BY Zenon, <2>7, <2>8, <2>9 DEF UnionHolds
<1>10. ASSUME NEW w \in Workers,
              WorkerSkip(w) \/ WorkerReset(w) \/ WorkerExec(w) \/ WorkerResult(w) \/ WorkerMark(w)
       PROVE  UnionHolds'
  <2> USE DEF WorkerSkip, WorkerReset, WorkerExec, WorkerResult, WorkerMark
  <2>1. wpc[w] \in Unmarked
    BY Zenon, <1>10 DEF Unmarked, Holding
  <2>2. PICK k \in KCalls : wkc[w] = k
    BY Zenon, <1>2, <2>1
  <2>3. UNCHANGED <<op, sq, cpc, ckc>> /\ \A j \in KCalls \ {k} : data'[j] = data[j]
    BY Zenon, <1>10, <2>2 DEF TypeOK
  <2>4. \A v \in Workers \ {w} : wpc'[v] = wpc[v] /\ wkc'[v] = wkc[v] /\ wreq'[v] = wreq[v]
    BY ZenonT(60), <1>10 DEF TypeOK
  <2>5. wpc'[w] \in Unmarked => wkc'[w] = k
    BY Zenon, <1>10, <2>2 DEF TypeOK, Unmarked, Holding
  <2>6. CASE WorkerSkip(w)
    <3>1. wpc'[w] = "reset" /\ op[k] = 0
      BY Zenon, <2>2, <2>6 DEF TypeOK
    <3> QED
      BY Zenon, <2>1, <2>2, <2>3, <2>4, <2>5, <3>1, OneWorkerStep DEF Unmarked, Holding
  <2>7. CASE WorkerReset(w)
    <3>1. wpc'[w] = "fetch" /\ op[k] = 0
      BY Zenon, <2>2, <2>7 DEF TypeOK, UnionHolds
    <3>2. Answered(k)'
      BY Zenon, <2>3, <3>1 DEF Answered
    <3> QED
      BY Zenon, <2>1, <2>2, <2>3, <2>4, <2>5, <3>1, <3>2, OneWorkerStep DEF Unmarked, Holding
  <2>8. CASE WorkerExec(w)
    <3>1. wpc[w] = "exec" /\ wpc'[w] = "kernel" /\ op[k] # 0
      BY Zenon, <2>2, <2>8 DEF TypeOK
    <3>2. PICK a \in Args : data[k] = Arguments(op[k], a)
      BY Zenon, <2>2, <3>1 DEF UnionHolds, Asked
    <3>3. data[k].arg = a
      BY Zenon, <3>2, ArgumentOfCall
    <3>4. wreq'[w] = [op |-> op[k], arg |-> a]
      BY ZenonT(60), <2>2, <2>8, <3>2, <3>3 DEF TypeOK
    <3>5. op[k] \in {0, wreq'[w].op} /\ wreq'[w].arg \in Args
      BY <3>4
    <3> QED
      BY Zenon, <2>1, <2>2, <2>3, <2>4, <2>5, <3>1, <3>5, OneWorkerStep DEF Unmarked, Holding
  <2>9. CASE WorkerResult(w)
    <3>1. wpc[w] = "kernel" /\ wpc'[w] = "mark"
      BY Zenon, <2>9 DEF TypeOK
    <3>2. op[k] \in {0, wreq[w].op} /\ wreq[w].arg \in Args
      BY Zenon, <2>2, <3>1 DEF UnionHolds
    <3>3. data'[k] = Result(wreq[w].op, wreq[w].arg)
      BY Zenon, <2>2, <2>9 DEF TypeOK
    <3>4. Answered(k)'
      BY Zenon, <2>3, <3>2, <3>3 DEF Answered
    <3> QED
      BY Zenon, <2>1, <2>2, <2>3, <2>4, <2>5, <3>1, <3>4, OneWorkerStep DEF Unmarked, Holding
  <2>10. CASE WorkerMark(w)
    <3>1. wpc[w] = "mark" /\ wpc'[w] = "add" /\ data' = data
      BY Zenon, <2>10 DEF TypeOK
    <3>2. Answered(k)'
      BY Zenon, <2>2, <2>3, <3>1 DEF UnionHolds, Answered
    <3> QED
      BY Zenon, <2>1, <2>2, <2>3, <2>4, <2>5, <3>1, <3>2, OneWorkerStep DEF Unmarked, Holding
  <2> QED
    BY Zenon, <1>10, <2>6, <2>7, <2>8, <2>9, <2>10
<1> QED
  BY Zenon, <1>1, <1>3, <1>4, <1>5, <1>6, <1>7, <1>8, <1>9, <1>10
     DEF Next, Threads, CallStep, WorkerStep


-----------------------------------------------------------------------------
(* The invariant                                                           *)

\* What a call returns is an error or the result of a kernel call.
LEMMA ReturnStep ==
  ASSUME TypeOK, Handles, UnionHolds, ReturnsResults, [Next]_vars
  PROVE  ReturnsResults'
<1> USE KCallAssumption
<1> USE DEF kcVars, postVars, loopVars, workerVars
<1> DEFINE Results == {Result(o, a) : o \in Ops, a \in Args}
<1>1. ASSUME ret' = ret
      PROVE  ReturnsResults'
  BY <1>1 DEF ReturnsResults
<1>2. ASSUME NEW k \in KCalls, NEW v \in Errors \cup Results, ret' = [ret EXCEPT ![Owner[k]] = v]
      PROVE  ReturnsResults'
  BY <1>2 DEF ReturnsResults, TypeOK
<1> HIDE DEF Results
<1>3. \A e \in {"EBUSY", "EAGAIN", "EINPROGRESS"} : Error(e) \in Errors
  BY Zenon DEF Errors
<1>4. ASSUME NEW k \in KCalls, NEW o \in Ops, NEW a \in Args, ~Exposed(k), AsyncCall(k, o, a)
      PROVE  ReturnsResults'
  <2>1. ASSUME NEW p \in Ops, NEW b \in Args PROVE Result(p, b) \in Results
    BY DEF Results
  <2>2. CASE CallSync(k, o, a)
    BY Zenon, <1>2, <2>2, <2>1 DEF CallSync
  <2>3. CASE CallBusy(k)
    BY Zenon, <1>2, <1>3, <2>3 DEF CallBusy
  <2>4. CASE CallCollect(k)
    <3>1. ~Submitting(k)
      BY Zenon, <1>4 DEF AsyncCall, InApp, Submitting, Handles
    <3>2. op[k] \in Ops /\ Answered(k) /\ op[k] # 0
      BY Zenon, <1>4, <2>4, <3>1 DEF CallCollect, UnionHolds, TypeOK
    <3>3. data[k] \in Results
      <4>1. PICK b \in Args : data[k] = Result(op[k], b)
        BY Zenon, <3>2 DEF Answered
      <4> QED
        BY Zenon, <2>1, <3>2, <4>1
    <3> QED
      BY Zenon, <1>2, <2>4, <3>3 DEF CallCollect
  <2>5. CASE CallSubmit(k, o, a)
    BY Zenon, <1>1, <2>5 DEF CallSubmit
  <2> QED
    BY Zenon, <1>4, <2>2, <2>3, <2>4, <2>5 DEF AsyncCall
<1>5. ASSUME NEW l \in Loops, CallAddFull(l) \/ CallSemPost(l)
      PROVE  ReturnsResults'
  <2>1. ckc[l] \in KCalls /\ Owner[ckc[l]] = l
    BY Zenon, <1>5 DEF Handles, CallAddFull, CallSemPost
  <2> QED
    BY Zenon, <1>2, <1>3, <1>5, <2>1 DEF CallAddFull, CallSemPost
<1>6. ASSUME \/ \E l \in Loops : \/ CallAdd(l) \/ ProcessStep(l) \/ LoopWait(l) \/ LoopWake(l)
                                  \/ LoopPoll(l) \/ LoopOther(l) \/ HandlerReturn(l)
             \/ \E w \in Workers : WorkerStep(w) \/ WorkerPoll(w)
             \/ \E k \in KCalls : Cancel(k)
             \/ UNCHANGED vars
      PROVE  ReturnsResults'
  <2>1. ret' = ret
    BY ZenonT(60), <1>6 DEF CallAdd, ProcessStep, LoopConsume, LoopFetch, LoopDrained, LoopWait, LoopWake,
                LoopPoll, LoopOther, HandlerReturn, WorkerStep, WorkerPoll, WorkerWait,
                WorkerFetch, WorkerDrained, WorkerSkip, WorkerReset, WorkerExec, WorkerResult,
                WorkerMark, WorkerAdd, WorkerDrop, WorkerPost, Cancel, vars
  <2> QED
    BY Zenon, <1>1, <2>1
<1> QED
  BY Zenon, <1>4, <1>5, <1>6 DEF Next, Threads, CallStep

\* KCallInv is inductive: the heart of the argument.  Places need states, states
\* need the protocol of the callers, contents need both.
THEOREM Invariant == Spec => []KCallInv
<1>1. Init => KCallInv
  <2> SUFFICES ASSUME Init PROVE KCallInv
    BY Zenon
  <2>1. TypeOK /\ Handles
    BY Zenon, TypeInit
  <2>2. Range(sq) = {} /\ \A l \in Loops : Range(cq[l]) = {}
    BY DEF Init, Range
  <2>3. IsInjective(sq) /\ \A l \in Loops : IsInjective(cq[l])
    BY DEF Init, IsInjective
  <2>4. \A w \in Workers : wpc[w] = "wait"
    BY Zenon DEF Init
  <2>5. \A k : ~Exposed(k) /\ ~Submitting(k)
    BY Zenon, <2>2, <2>4 DEF Init, Exposed, Submitting, Unmarked, Holding
  <2>6. OnePlace
    BY Zenon, <2>2, <2>3, <2>4 DEF OnePlace, Holding
  <2>7. StateTells
    BY Zenon, <2>2, <2>4, <2>5 DEF StateTells
  <2>8. UnionHolds
    BY Zenon, <2>2, <2>4, <2>5 DEF Init, UnionHolds, Answered
  <2>9. ReturnsResults
    BY DEF Init, ReturnsResults, Errors
  <2> QED
    BY Zenon, <2>1, <2>6, <2>7, <2>8, <2>9 DEF KCallInv
<1>2. KCallInv /\ [Next]_vars => KCallInv'
  <2> SUFFICES ASSUME KCallInv, [Next]_vars PROVE KCallInv'
    BY Zenon
  <2>1. [AnyTimeNext]_vars
    BY Zenon DEF Next, AnyTimeNext
  <2> QED
    BY Zenon, <2>1, TypeStep, PlaceStep, UnionStep, ReturnStep DEF KCallInv
<1> QED
  BY <1>1, <1>2, PTL DEF Spec

\* No object is ever in two places: no two workers execute one, no handler is
\* called twice for one submission, no queue holds one twice.
THEOREM EverywhereOnce == Spec => []OnePlace
<1>1. KCallInv => OnePlace
  BY Zenon DEF KCallInv
<1> QED
  BY <1>1, Invariant, PTL

\* A call that collects finds a result, and what it returns is the result of a
\* kernel call with arguments a caller passed.
THEOREM ResultsAreResults == Spec => [](ResultReady /\ ReturnsResults)
<1>1. KCallInv => ResultReady /\ ReturnsResults
  BY Zenon DEF KCallInv, UnionHolds, Answered, ResultReady
<1> QED
  BY <1>1, Invariant, PTL

\* With a CQ for each loop that is no smaller than the number of its objects,
\* `assert(0)` after ffrq_add(kc->q->cq) is unreachable: the objects in a CQ are
\* distinct, all of one loop, and the one to be added is another of them.
THEOREM RoomInCq ==
  ASSUME Sized
  PROVE  Spec => []CqHasRoom
<1>1. ASSUME KCallInv
      PROVE  CqHasRoom
  <2>1. SUFFICES ASSUME NEW w \in Workers, wpc[w] = "add"
                 PROVE  Len(cq[Owner[wkc[w]]]) < CQCap
    BY Zenon DEF CqHasRoom
  <2> DEFINE k == wkc[w]
             l == Owner[k]
             mine == {j \in KCalls : Owner[j] = l}
             s == cq[l]
  <2>2. k \in KCalls /\ l \in Loops
    BY ZenonT(60), <1>1, <2>1, KCallAssumption DEF KCallInv, Handles, Holding
  <2>3. s \in Seq(KCalls) /\ IsInjective(s) /\ Range(s) \subseteq mine \ {k}
    <3>1. s \in Seq(KCalls)
      BY Zenon, <1>1, <2>2 DEF KCallInv, TypeOK
    <3>2. Range(s) \subseteq KCalls
      BY Zenon, <3>1, RangeInSet
    <3> QED
      BY <1>1, <2>1, <2>2, <3>1, <3>2 DEF KCallInv, OnePlace, Holding
  <2>4. IsFiniteSet(mine) /\ Cardinality(mine) <= CQCap /\ k \in mine
    <3>1. IsFiniteSet(mine)
      BY Zenon, KCallAssumption, FS_Subset
    <3> QED
      BY Zenon, <1>1, <2>2, <3>1 DEF Sized
  <2> HIDE DEF k, l, mine
  <2>5. IsFiniteSet(mine \ {k}) /\ Cardinality(mine \ {k}) = Cardinality(mine) - 1
    BY Zenon, <2>4, FS_RemoveElement
  <2>6. Len(s) <= Cardinality(mine \ {k})
    <3>1. s \in [1..Len(s) -> mine \ {k}] /\ Len(s) \in Nat
      BY <2>3 DEF Range
    <3>2. IsFiniteSet(1..Len(s)) /\ Cardinality(1..Len(s)) = Len(s)
      <4> DEFINE n == Len(s)
      <4> HIDE DEF n
      <4>1. IsFiniteSet(1..n) /\ Cardinality(1..n) = IF 1 > n THEN 0 ELSE n - 1 + 1
        BY SMTT(30), <3>1, FS_Interval DEF n
      <4> QED
        BY <3>1, <4>1 DEF n
    <3>3. s \in Injection(1..Len(s), mine \ {k})
      BY Zenon, <2>3, <3>1 DEF Injection
    <3> QED
      BY <2>5, <3>2, <3>3, FS_Injection
  <2>7. Cardinality(mine) \in Nat /\ Len(s) \in Nat /\ CQCap \in Nat
    BY <2>3, <2>4, FS_CardinalityType, KCallAssumption
  <2>8. Len(s) < CQCap
    BY <2>4, <2>5, <2>6, <2>7
  <2> QED
    BY Zenon, <2>8 DEF l, k
<1>2. KCallInv => CqHasRoom
  BY Zenon, <1>1
<1> QED
  BY <1>2, Invariant, PTL

-----------------------------------------------------------------------------
(* The promise                                                             *)

\* Only a thread in a handler has an object to handle.
OnlyHandlers == \A l \in Loops : lpc[l] # "handler" => hkc[l] = NoKC

\* A synchronous object is never submitted.
NoneSync == \A l \in Loops : cpc[l] # "none" => ckc[l] \notin Sync

\* While the kernel executes a call that is not cancelled, the union still holds
\* the request.
RequestStays ==
  \A w \in Workers : wpc[w] = "kernel" /\ op[wkc[w]] # 0 =>
    data[wkc[w]] = Arguments(wreq[w].op, wreq[w].arg)

\* What the promise needs beside KCallInv.
PromiseInv == OnlyHandlers /\ NoneSync /\ RequestStays

\* The request of an object, as the promise sees it.
Request(k) == IF Phase(k) = "idle" THEN NoReq ELSE [op |-> data[k].op, arg |-> data[k].arg]

\* A step that the promise does not see in object k.
Unseen(k) == Phase(k)' = Phase(k) /\ Request(k)' = Request(k)

\* What a result is the result of.
LEMMA ResultFields ==
  ASSUME NEW o, NEW a
  PROVE  Result(o, a).op = o /\ Result(o, a).arg = a
  BY Zenon DEF Result

\* An object whose contents and whereabouts stay is as it was.
LEMMA UnseenIf ==
  ASSUME NEW k, op'[k] = op[k], state'[k] = state[k], data'[k] = data[k],
         Exposed(k)' <=> Exposed(k), Submitting(k)' <=> Submitting(k)
  PROVE  Unseen(k)
<1>1. Phase(k)' = Phase(k)
  BY Zenon DEF Phase
<1> QED
  BY Zenon, <1>1 DEF Unseen, Request

\* An object without an operation is idle.
LEMMA UnseenIdle ==
  ASSUME NEW k, op[k] = 0 \/ Submitting(k), op'[k] = 0 \/ Submitting(k)'
  PROVE  Unseen(k) /\ Phase(k) = "idle" /\ Phase(k)' = "idle"
BY Zenon DEF Unseen, Request, Phase

\* The promise's steps, from what becomes of phases and requests.
LEMMA PromiseStutter ==
  ASSUME \A k \in KCalls : Unseen(k), UNCHANGED <<ret, hkc>>
  PROVE  UNCHANGED Promise!vars
BY Zenon DEF Unseen, Request, Promise!vars

\* A call that returns and changes nothing else.
LEMMA PromiseReturns ==
  ASSUME \A k \in KCalls : Unseen(k), UNCHANGED hkc, NEW k \in KCalls, NEW v,
         ret' = [ret EXCEPT ![Owner[k]] = v]
  PROVE  /\ k \in Sync /\ (\E r \in Requests : v = Result(r.op, r.arg)) => Promise!Next
         /\ Phase(k) # "done" /\ v \in {Error("EBUSY"), Error("EAGAIN")} => Promise!Next
         /\ v = Error("EINPROGRESS") => Promise!Next
<1>1. /\ [j \in KCalls |-> Phase(j)]' = [j \in KCalls |-> Phase(j)]
      /\ [j \in KCalls |-> Request(j)]' = [j \in KCalls |-> Request(j)]
  BY Zenon DEF Unseen
<1>2. Promise!Returns(k, v)
  BY Zenon DEF Promise!Returns
<1>3. ASSUME k \in Sync, NEW r \in Requests, v = Result(r.op, r.arg) PROVE Promise!Next
  <2>1. Promise!Perform(k, r)
    BY Zenon, <1>1, <1>2, <1>3 DEF Promise!Perform, Promise!Returns, Request
  <2> QED
    BY Zenon, <1>3, <2>1 DEF Promise!Next
<1>4. ASSUME Phase(k) # "done", v \in {Error("EBUSY"), Error("EAGAIN")} PROVE Promise!Next
  <2>1. Promise!Refuse(k, v)
    BY Zenon, <1>1, <1>2, <1>4 DEF Promise!Refuse, Request
  <2> QED
    BY Zenon, <1>4, <2>1 DEF Promise!Next
<1>5. ASSUME v = Error("EINPROGRESS") PROVE Promise!Next
  <2>1. Promise!Accepted(k)
    BY Zenon, <1>1, <1>2, <1>5 DEF Promise!Accepted, Request
  <2> QED
    BY Zenon, <2>1 DEF Promise!Next
<1> QED
  BY Zenon, <1>3, <1>4, <1>5

\* Steps that change the phase or the request of one object.
LEMMA PromiseChanges ==
  ASSUME NEW k \in KCalls, \A j \in KCalls \ {k} : Unseen(j)
  PROVE  /\ [j \in KCalls |-> Phase(j)]' = [[j \in KCalls |-> Phase(j)] EXCEPT ![k] = Phase(k)']
         /\ [j \in KCalls |-> Request(j)]' = [[j \in KCalls |-> Request(j)] EXCEPT ![k] = Request(k)']
BY Zenon DEF Unseen

\* A step in which the kernel takes up no call and changes no request that it has.
LEMMA RequestKept ==
  ASSUME RequestStays,
         \A w \in Workers : wpc'[w] = "kernel" =>
           /\ wpc[w] = "kernel" /\ wkc'[w] = wkc[w] /\ wreq'[w] = wreq[w]
           /\ \/ op'[wkc[w]] = 0
              \/ op'[wkc[w]] = op[wkc[w]] /\ data'[wkc[w]] = data[wkc[w]]
  PROVE  RequestStays'
<1> SUFFICES ASSUME NEW w \in Workers, wpc'[w] = "kernel", op'[wkc'[w]] # 0
             PROVE  data'[wkc'[w]] = Arguments(wreq'[w].op, wreq'[w].arg)
  BY Zenon DEF RequestStays
<1>1. wpc[w] = "kernel" /\ wkc'[w] = wkc[w] /\ wreq'[w] = wreq[w]
      /\ op'[wkc[w]] = op[wkc[w]] /\ data'[wkc[w]] = data[wkc[w]] /\ op[wkc[w]] # 0
  BY Zenon
<1> QED
  BY Zenon, <1>1 DEF RequestStays

\* Every step keeps the request of a call that the kernel executes.
LEMMA RequestStep ==
  ASSUME KCallInv, RequestStays, [Next]_vars
  PROVE  RequestStays'
<1> USE KCallAssumption
<1> USE DEF kcVars, postVars, loopVars, workerVars
<1>0. TypeOK /\ Handles /\ OnePlace /\ UnionHolds
  BY Zenon DEF KCallInv
<1>1. \A w \in Workers : wpc[w] \in Holding => wkc[w] \in KCalls
  BY Zenon, <1>0 DEF Handles
<1>a. ASSUME UNCHANGED <<op, data, workerVars>> PROVE RequestStays'
  BY Zenon, <1>a DEF RequestStays
<1>b. ASSUME UNCHANGED <<data, workerVars>>, NEW k \in KCalls, op' = [op EXCEPT ![k] = 0]
      PROVE  RequestStays'
  <2>2. \A w \in Workers : wpc[w] = "kernel" => wkc[w] \in KCalls
    BY Zenon, <1>1 DEF Holding
  <2>3. \A j \in KCalls : op'[j] = op[j] \/ op'[j] = 0
    BY Zenon, <1>0, <1>b DEF TypeOK
  <2> QED
    BY Zenon, <1>b, <2>2, <2>3, RequestKept
<1>2. ASSUME NEW k \in KCalls, NEW o \in Ops, NEW a \in Args, ~Exposed(k), AsyncCall(k, o, a)
      PROVE  RequestStays'
  <2>1. UNCHANGED workerVars
    BY Zenon, <1>2 DEF AsyncCall
  <2>2. CASE CallSync(k, o, a) \/ CallBusy(k)
    BY Zenon, <1>a, <2>1, <2>2 DEF CallSync, CallBusy
  <2>3. CASE CallCollect(k)
    BY Zenon, <1>b, <2>1, <2>3 DEF CallCollect
  <2>4. CASE CallSubmit(k, o, a)
    <3>1. \A w \in Workers : wpc[w] = "kernel" => wkc[w] \in KCalls \ {k}
      BY Zenon, <1>1, <1>2 DEF Exposed, Unmarked, Holding
    <3>2. \A j \in KCalls \ {k} : op'[j] = op[j] /\ data'[j] = data[j]
      BY Zenon, <1>0, <2>4 DEF CallSubmit, TypeOK
    <3> QED
      BY Zenon, <2>1, <3>1, <3>2, RequestKept
  <2> QED
    BY Zenon, <1>2, <2>2, <2>3, <2>4 DEF AsyncCall
<1>3. ASSUME NEW k \in KCalls, Cancel(k) PROVE RequestStays'
  BY Zenon, <1>b, <1>3 DEF Cancel
<1>4. ASSUME NEW l \in Loops, CallStep(l) PROVE RequestStays'
  <2>1. CASE CallAddFull(l)
    <3>1. ckc[l] \in KCalls
      BY Zenon, <1>0, <2>1 DEF CallAddFull, Handles
    <3> QED
      BY Zenon, <1>b, <2>1, <3>1 DEF CallAddFull
  <2>2. CASE CallAdd(l) \/ CallSemPost(l)
    BY Zenon, <1>a, <2>2 DEF CallAdd, CallSemPost
  <2> QED
    BY Zenon, <1>4, <2>1, <2>2 DEF CallStep
<1>5. ASSUME NEW l \in Loops,
             ProcessStep(l) \/ LoopWait(l) \/ LoopWake(l) \/ LoopPoll(l) \/ LoopOther(l) \/ HandlerReturn(l)
      PROVE  RequestStays'
  BY Zenon, <1>a, <1>5 DEF ProcessStep, LoopConsume, LoopFetch, LoopDrained, LoopWait, LoopWake, LoopPoll,
     LoopOther, HandlerReturn
<1>6. ASSUME NEW w \in Workers, WorkerStep(w) \/ WorkerPoll(w) PROVE RequestStays'
  <2>1. ASSUME UNCHANGED <<op, data>>, wpc'[w] # "kernel",
               \A v \in Workers \ {w} : wpc'[v] = wpc[v] /\ wkc'[v] = wkc[v] /\ wreq'[v] = wreq[v]
        PROVE  RequestStays'
    BY Zenon, <2>1, RequestKept
  <2>2. \A v \in Workers \ {w} : wpc'[v] = wpc[v] /\ wkc'[v] = wkc[v] /\ wreq'[v] = wreq[v]
    BY ZenonT(60), <1>0, <1>6 DEF TypeOK, WorkerStep, WorkerPoll, WorkerWait, WorkerFetch, WorkerDrained, WorkerSkip,
       WorkerReset, WorkerExec, WorkerResult, WorkerMark, WorkerAdd, WorkerDrop, WorkerPost
  <2>3. CASE WorkerExec(w)
    <3>1. UNCHANGED <<op, data, wkc>> /\ wpc[w] = "exec" /\ op[wkc[w]] # 0
      BY Zenon, <2>3 DEF WorkerExec
    <3>2. PICK a \in Args : data[wkc[w]] = Arguments(op[wkc[w]], a)
      BY Zenon, <1>0, <3>1 DEF UnionHolds, Asked
    <3>3. data[wkc[w]].arg = a
      BY Zenon, <3>2, ArgumentOfCall
    <3>4. wreq'[w] = [op |-> op[wkc[w]], arg |-> a]
      BY ZenonT(60), <1>0, <2>3, <3>2, <3>3 DEF TypeOK, WorkerExec
    <3>5. wreq'[w].op = op[wkc[w]] /\ wreq'[w].arg = a
      BY <3>4
    <3>6. data'[wkc'[w]] = Arguments(wreq'[w].op, wreq'[w].arg)
      BY Zenon, <3>1, <3>2, <3>5
    <3> QED
      BY ZenonT(60), <2>2, <3>1, <3>6 DEF RequestStays
  <2>4. CASE WorkerResult(w)
    <3>1. op' = op /\ wpc[w] = "kernel" /\ wpc'[w] = "mark"
          /\ data' = [data EXCEPT ![wkc[w]] = Result(wreq[w].op, wreq[w].arg)]
      BY Zenon, <1>0, <2>4 DEF WorkerResult, TypeOK
    <3>2. \A v \in Workers \ {w} : wpc[v] = "kernel" => wkc[v] \in KCalls /\ wkc[v] # wkc[w]
      BY Zenon, <1>0, <1>1, <3>1 DEF OnePlace, Holding
    <3>3. \A j \in KCalls : j # wkc[w] => data'[j] = data[j]
      BY Zenon, <1>0, <3>1 DEF TypeOK
    <3> QED
      BY Zenon, <2>2, <3>1, <3>2, <3>3, RequestKept
  <2>5. CASE ~WorkerExec(w) /\ ~WorkerResult(w)
    <3>1. UNCHANGED <<op, data>>
      BY Zenon, <1>6, <2>5 DEF WorkerStep, WorkerPoll, WorkerWait, WorkerFetch, WorkerDrained, WorkerSkip,
         WorkerReset, WorkerMark, WorkerAdd, WorkerDrop, WorkerPost
    <3>2. wpc'[w] # "kernel"
      BY ZenonT(60), <1>0, <1>6, <2>5 DEF TypeOK, WorkerStep, WorkerPoll, WorkerWait, WorkerFetch, WorkerDrained, WorkerSkip,
         WorkerReset, WorkerMark, WorkerAdd, WorkerDrop, WorkerPost
    <3> QED
      BY Zenon, <2>1, <2>2, <3>1, <3>2
  <2> QED
    BY Zenon, <2>3, <2>4, <2>5
<1>7. CASE UNCHANGED vars
  BY Zenon, <1>a, <1>7 DEF vars
<1> QED
  BY Zenon, <1>2, <1>3, <1>4, <1>5, <1>6, <1>7 DEF Next, Threads

\* Handlers begin in ffkcallq_process_cq() only, and calls submit only what has a queue.
LEMMA HandlersStep ==
  ASSUME TypeOK, Handles, OnlyHandlers, NoneSync, [Next]_vars
  PROVE  OnlyHandlers' /\ NoneSync'
<1> USE KCallAssumption
<1> USE DEF kcVars, postVars, loopVars, workerVars
<1>a. ASSUME UNCHANGED <<lpc, hkc>> PROVE OnlyHandlers'
  BY Zenon, <1>a DEF OnlyHandlers
<1>b. ASSUME UNCHANGED <<cpc, ckc>> PROVE NoneSync'
  BY Zenon, <1>b DEF NoneSync
<1>1. ASSUME NEW k \in KCalls, NEW o \in Ops, NEW a \in Args, AsyncCall(k, o, a)
      PROVE  OnlyHandlers' /\ NoneSync'
  <2>1. OnlyHandlers'
    BY Zenon, <1>1, <1>a DEF AsyncCall
  <2>2. CASE CallSubmit(k, o, a)
    <3>1. k \notin Sync /\ Owner[k] \in Loops
          /\ cpc' = [cpc EXCEPT ![Owner[k]] = "add"] /\ ckc' = [ckc EXCEPT ![Owner[k]] = k]
      BY Zenon, <2>2 DEF CallSubmit
    <3>2. NoneSync'
      BY Zenon, <3>1 DEF NoneSync, TypeOK
    <3> QED
      BY Zenon, <2>1, <3>2
  <2> QED
    BY Zenon, <1>1, <1>b, <2>1, <2>2 DEF AsyncCall, CallSync, CallBusy, CallCollect
<1>2. ASSUME NEW l \in Loops, CallStep(l) PROVE OnlyHandlers' /\ NoneSync'
  <2>1. OnlyHandlers'
    BY Zenon, <1>2, <1>a DEF CallStep, CallAddFull, CallAdd, CallSemPost
  <2>2. NoneSync'
    BY ZenonT(60), <1>2 DEF NoneSync, TypeOK, CallStep, CallAddFull, CallAdd, CallSemPost
  <2> QED
    BY Zenon, <2>1, <2>2
<1>3. ASSUME NEW l \in Loops,
             ProcessStep(l) \/ LoopWait(l) \/ LoopWake(l) \/ LoopPoll(l) \/ LoopOther(l) \/ HandlerReturn(l)
      PROVE  OnlyHandlers' /\ NoneSync'
  <2>1. UNCHANGED <<cpc, ckc>>
    BY Zenon, <1>3 DEF ProcessStep, LoopConsume, LoopFetch, LoopDrained, LoopWait, LoopWake, LoopPoll,
       LoopOther, HandlerReturn
  <2>2. \A m \in Loops \ {l} : lpc'[m] = lpc[m] /\ hkc'[m] = hkc[m]
    BY ZenonT(60), <1>3 DEF TypeOK, ProcessStep, LoopConsume, LoopFetch, LoopDrained, LoopWait, LoopWake, LoopPoll,
       LoopOther, HandlerReturn
  <2>3. lpc'[l] # "handler" => hkc'[l] = NoKC
    <3>1. CASE LoopFetch(l) \/ HandlerReturn(l)
      BY Zenon, <3>1 DEF TypeOK, LoopFetch, HandlerReturn
    <3>2. CASE ~LoopFetch(l) /\ ~HandlerReturn(l)
      <4>1. hkc' = hkc /\ lpc[l] # "handler"
        BY Zenon, <1>3, <3>2 DEF ProcessStep, LoopConsume, LoopDrained, LoopWait, LoopWake, LoopPoll, LoopOther
      <4> QED
        BY Zenon, <4>1 DEF OnlyHandlers
    <3> QED
      BY Zenon, <3>1, <3>2
  <2> QED
    BY Zenon, <1>b, <2>1, <2>2, <2>3 DEF OnlyHandlers
<1>4. CASE UNCHANGED loopVars
  BY Zenon, <1>4, <1>a, <1>b
<1>5. ASSUME NEW w \in Workers, WorkerStep(w) \/ WorkerPoll(w) PROVE UNCHANGED loopVars
  BY Zenon, <1>5 DEF WorkerStep, WorkerPoll, WorkerWait, WorkerFetch, WorkerDrained, WorkerSkip,
     WorkerReset, WorkerExec, WorkerResult, WorkerMark, WorkerAdd, WorkerDrop, WorkerPost
<1>6. ASSUME NEW k \in KCalls, Cancel(k) PROVE UNCHANGED loopVars
  BY Zenon, <1>6 DEF Cancel
<1> QED
  BY Zenon, <1>1, <1>2, <1>3, <1>4, <1>5, <1>6 DEF Next, Threads, vars

\* Every step of the program is a step of the promise, or one that it does not see.
LEMMA PromiseStep ==
  ASSUME KCallInv, PromiseInv, [Next]_vars
  PROVE  [Promise!Next]_(Promise!vars)
<1> USE KCallAssumption
<1> USE DEF kcVars, postVars, loopVars, workerVars
<1>0. TypeOK /\ Handles /\ OnePlace /\ StateTells /\ UnionHolds /\ OnlyHandlers /\ NoneSync /\ RequestStays
  BY Zenon DEF KCallInv, PromiseInv
<1>a. ASSUME UNCHANGED <<op, state, data, sq, cpc, ckc, wpc, wkc>> PROVE \A k \in KCalls : Unseen(k)
  <2>1. \A k \in KCalls : (Exposed(k)' <=> Exposed(k)) /\ (Submitting(k)' <=> Submitting(k))
    BY Zenon, <1>a DEF Exposed, Submitting
  <2> QED
    BY Zenon, <1>a, <2>1, UnseenIf
<1>1. ASSUME NEW k \in KCalls, NEW o \in Ops, NEW a \in Args, ~Exposed(k), AsyncCall(k, o, a)
      PROVE  [Promise!Next]_(Promise!vars)
  <2>1. UNCHANGED <<sq, hkc, wpc, wkc>> /\ cpc[Owner[k]] = "none" /\ Owner[k] \in Loops
    BY Zenon, <1>1 DEF AsyncCall, InApp
  <2>2. ~Submitting(k)
    BY Zenon, <1>0, <2>1 DEF Submitting, Handles
  <2>3. \A j \in KCalls : Exposed(j)' <=> Exposed(j)
    BY Zenon, <2>1 DEF Exposed
  <2>4. CASE CallSync(k, o, a)
    <3>1. \A j \in KCalls : Unseen(j)
      BY Zenon, <1>a, <2>1, <2>4 DEF CallSync
    <3>2. [op |-> o, arg |-> a] \in Requests /\ [op |-> o, arg |-> a].op = o /\ [op |-> o, arg |-> a].arg = a
      BY Zenon DEF Requests
    <3>3. \E r \in Requests : Result(o, a) = Result(r.op, r.arg)
      BY Zenon, <3>2
    <3> QED
      BY Zenon, <2>1, <2>4, <3>1, <3>3, PromiseReturns DEF CallSync
  <2>5. CASE CallBusy(k)
    <3>1. \A j \in KCalls : Unseen(j)
      BY Zenon, <1>a, <2>1, <2>5 DEF CallBusy
    <3>2. Phase(k) # "done"
      BY Zenon, <2>5 DEF Phase, CallBusy
    <3> QED
      BY Zenon, <2>1, <2>5, <3>1, <3>2, PromiseReturns DEF CallBusy
  <2>6. CASE CallCollect(k)
    <3>1. /\ state[k] = 0 /\ op[k] # 0 /\ op'[k] = 0 /\ ret' = [ret EXCEPT ![Owner[k]] = data[k]]
          /\ UNCHANGED <<state, data, cpc, ckc>> /\ \A j \in KCalls \ {k} : op'[j] = op[j]
      BY Zenon, <1>0, <2>6 DEF CallCollect, TypeOK
    <3>2. \A j \in KCalls : Submitting(j)' <=> Submitting(j)
      BY Zenon, <3>1 DEF Submitting
    <3>3. \A j \in KCalls \ {k} : Unseen(j)
      BY Zenon, <2>3, <3>1, <3>2, UnseenIf
    <3>4. Phase(k) = "done" /\ Phase(k)' = "idle" /\ Request(k)' = NoReq
      BY Zenon, <1>1, <2>2, <3>1 DEF Phase, Request
    <3>5. PICK b \in Args : data[k] = Result(op[k], b)
      BY ZenonT(60), <1>0, <1>1, <2>2, <3>1 DEF UnionHolds, Answered
    <3>6. op[k] \in Ops /\ data[k].op = op[k] /\ data[k].arg = b
      <4>1. op[k] \in Ops \cup {0}
        BY Zenon, <1>0 DEF TypeOK
      <4>2. op[k] \in Ops
        BY Zenon, <3>1, <4>1
      <4>3. Result(op[k], b).op = op[k] /\ Result(op[k], b).arg = b
        BY Zenon, ResultFields
      <4> DEFINE r == Result(op[k], b)
      <4>4. data[k] = r /\ r.op = op[k] /\ r.arg = b
        BY Zenon, <3>5, <4>3
      <4> HIDE DEF r
      <4> QED
        BY Zenon, <4>2, <4>4
    <3>7. Request(k) = [op |-> op[k], arg |-> b]
      BY Zenon, <3>4, <3>6 DEF Request
    <3>8. Request(k) \in Requests /\ Result(Request(k).op, Request(k).arg) = data[k]
      BY <3>5, <3>6, <3>7 DEF Requests
    <3>9. /\ [j \in KCalls |-> Phase(j)]' = [[j \in KCalls |-> Phase(j)] EXCEPT ![k] = "idle"]
          /\ [j \in KCalls |-> Request(j)]' = [[j \in KCalls |-> Request(j)] EXCEPT ![k] = NoReq]
      BY Zenon, <3>3, <3>4, PromiseChanges
    <3>10. Promise!Collect(k)
      BY Zenon, <2>1, <3>1, <3>4, <3>8, <3>9 DEF Promise!Collect, Promise!Returns, Request
    <3> QED
      BY Zenon, <3>10 DEF Promise!Next
  <2>7. CASE CallSubmit(k, o, a)
    <3>1. /\ op[k] = 0 /\ UNCHANGED <<state, ret>>
          /\ \A j \in KCalls \ {k} : op'[j] = op[j] /\ data'[j] = data[j]
      BY Zenon, <1>0, <2>7 DEF CallSubmit, TypeOK
    <3>2. /\ cpc'[Owner[k]] = "add" /\ ckc'[Owner[k]] = k
          /\ \A l \in Loops \ {Owner[k]} : cpc'[l] = cpc[l] /\ ckc'[l] = ckc[l]
      BY Zenon, <1>0, <2>1, <2>7 DEF CallSubmit, TypeOK
    <3>3. Submitting(k)'
      BY Zenon, <2>1, <3>2 DEF Submitting
    <3>4. Unseen(k)
      BY Zenon, <3>1, <3>3, UnseenIdle
    <3>5. \A j \in KCalls \ {k} : Submitting(j)' <=> Submitting(j)
      BY Zenon, <2>1, <3>2 DEF Submitting
    <3>6. \A j \in KCalls \ {k} : Unseen(j)
      BY Zenon, <2>3, <3>1, <3>5, UnseenIf
    <3> QED
      BY Zenon, <2>1, <3>1, <3>4, <3>6, PromiseStutter
  <2> QED
    BY Zenon, <1>1, <2>4, <2>5, <2>6, <2>7 DEF AsyncCall
<1>2. ASSUME NEW k \in KCalls, Cancel(k) PROVE [Promise!Next]_(Promise!vars)
  <2>1. /\ op'[k] = 0 /\ \A j \in KCalls \ {k} : op'[j] = op[j]
        /\ UNCHANGED <<state, data, sq, cpc, ckc, wpc, wkc, ret, hkc>>
    BY Zenon, <1>0, <1>2 DEF Cancel, TypeOK
  <2>2. \A j \in KCalls : (Exposed(j)' <=> Exposed(j)) /\ (Submitting(j)' <=> Submitting(j))
    BY Zenon, <2>1 DEF Exposed, Submitting
  <2>3. \A j \in KCalls \ {k} : Unseen(j)
    BY Zenon, <2>1, <2>2, UnseenIf
  <2>4. Phase(k)' = "idle" /\ Request(k)' = NoReq
    BY Zenon, <2>1 DEF Phase, Request
  <2>5. /\ [j \in KCalls |-> Phase(j)]' = [[j \in KCalls |-> Phase(j)] EXCEPT ![k] = "idle"]
        /\ [j \in KCalls |-> Request(j)]' = [[j \in KCalls |-> Request(j)] EXCEPT ![k] = NoReq]
    BY Zenon, <2>3, <2>4, PromiseChanges
  <2>6. Promise!Cancel(k)
    BY Zenon, <2>1, <2>5 DEF Promise!Cancel, Request
  <2> QED
    BY Zenon, <2>6 DEF Promise!Next
<1>3. ASSUME NEW l \in Loops, CallStep(l) PROVE [Promise!Next]_(Promise!vars)
  <2>0. PICK k \in KCalls : k = ckc[l]
    BY Zenon, <1>0, <1>3 DEF CallStep, CallAddFull, CallAdd, CallSemPost, Handles
  <2>1. cpc[l] # "none" /\ k \in KCalls /\ Owner[k] = l /\ k \notin Sync
    BY Zenon, <1>0, <1>3, <2>0 DEF CallStep, CallAddFull, CallAdd, CallSemPost, Handles, NoneSync
  <2>2. UNCHANGED <<state, data, hkc, wpc, wkc>>
    BY Zenon, <1>3 DEF CallStep, CallAddFull, CallAdd, CallSemPost
  <2>3. \A m \in Loops \ {l} : cpc'[m] = cpc[m] /\ ckc'[m] = ckc[m] /\ (cpc[m] = "add" => ckc[m] # k)
    <3>1. \A m \in Loops \ {l} : cpc'[m] = cpc[m] /\ ckc'[m] = ckc[m]
      BY ZenonT(60), <1>0, <1>3 DEF CallStep, CallAddFull, CallAdd, CallSemPost, TypeOK
    <3>2. \A m \in Loops \ {l} : cpc[m] = "add" => ckc[m] # k
      BY Zenon, <1>0, <2>1 DEF Handles
    <3> QED
      BY Zenon, <3>1, <3>2
  <2>4. CASE CallAddFull(l)
    <3>1. /\ cpc[l] = "add" /\ cpc'[l] = "none" /\ op'[k] = 0 /\ ret' = [ret EXCEPT ![Owner[k]] = Error("EAGAIN")]
          /\ \A j \in KCalls \ {k} : op'[j] = op[j]
          /\ sq' = sq
      BY Zenon, <2>0, <1>0, <2>1, <2>4 DEF CallAddFull, TypeOK
    <3>2. Submitting(k)
      BY Zenon, <2>0, <3>1 DEF Submitting
    <3>3. Unseen(k) /\ Phase(k) = "idle"
      BY Zenon, <3>1, <3>2, UnseenIdle
    <3>4. \A j \in KCalls \ {k} : (Exposed(j)' <=> Exposed(j)) /\ (Submitting(j)' <=> Submitting(j))
      BY Zenon, <2>0, <2>2, <2>3, <3>1 DEF Exposed, Submitting
    <3>5. \A j \in KCalls : Unseen(j)
      BY Zenon, <2>2, <3>1, <3>3, <3>4, UnseenIf
    <3>6. Phase(k) # "done" /\ Error("EAGAIN") \in {Error("EBUSY"), Error("EAGAIN")}
      BY Zenon, <3>3
    <3> QED
      BY Zenon, <2>1, <2>2, <3>1, <3>5, <3>6, PromiseReturns
  <2>5. CASE CallSemPost(l)
    <3>1. /\ cpc[l] = "sempost" /\ cpc'[l] = "none" /\ UNCHANGED <<op, sq>>
          /\ ret' = [ret EXCEPT ![Owner[k]] = Error("EINPROGRESS")]
      BY Zenon, <1>0, <2>1, <2>5 DEF CallSemPost, TypeOK
    <3>2. \A j \in KCalls : (Exposed(j)' <=> Exposed(j)) /\ (Submitting(j)' <=> Submitting(j))
      BY Zenon, <2>2, <2>3, <3>1 DEF Exposed, Submitting
    <3>3. \A j \in KCalls : Unseen(j)
      BY Zenon, <2>2, <3>1, <3>2, UnseenIf
    <3> QED
      BY Zenon, <2>1, <2>2, <3>1, <3>3, PromiseReturns
  <2>6. CASE CallAdd(l)
    <3>1. /\ cpc[l] = "add" /\ cpc'[l] = "sempost" /\ UNCHANGED <<op, ret>> /\ sq' = Append(sq, k) /\ sq \in Seq(KCalls)
      BY ZenonT(60), <2>0, <1>0, <2>6 DEF CallAdd, TypeOK
    <3>2. Range(sq)' = Range(sq) \cup {k}
      BY <2>1, <3>1, RangeOfAppend
    <3>3. Submitting(k) /\ ~Submitting(k)' /\ Exposed(k)'
      BY Zenon, <2>0, <2>3, <3>1, <3>2 DEF Submitting, Exposed
    <3>4. \A j \in KCalls \ {k} : (Exposed(j)' <=> Exposed(j)) /\ (Submitting(j)' <=> Submitting(j))
      BY Zenon, <2>0, <2>2, <2>3, <3>1, <3>2 DEF Exposed, Submitting
    <3>5. \A j \in KCalls \ {k} : Unseen(j)
      BY Zenon, <2>2, <3>1, <3>4, UnseenIf
    <3>6. CASE op[k] = 0
      <4>1. Unseen(k)
        BY Zenon, <3>1, <3>6, UnseenIdle
      <4> QED
        BY Zenon, <2>2, <3>1, <3>5, <4>1, PromiseStutter
    <3>7. CASE op[k] # 0
      <4>1. PICK a \in Args : data[k] = Arguments(op[k], a)
        BY ZenonT(60), <1>0, <2>1, <3>3, <3>7 DEF UnionHolds, Asked
      <4>2. op[k] \in Ops /\ data[k].op = op[k] /\ data[k].arg = a
        BY SMTT(30), <1>0, <2>1, <3>7, <4>1 DEF TypeOK, Arguments
      <4>3. Phase(k) = "idle" /\ Phase(k)' = "pending"
        BY Zenon, <3>1, <3>3, <3>7 DEF Phase
      <4>4. Request(k)' = [op |-> op[k], arg |-> a]
        BY Zenon, <2>2, <4>2, <4>3 DEF Request
      <4>5. PICK r \in Requests : r = [op |-> op[k], arg |-> a]
        BY Zenon, <4>2 DEF Requests
      <4>6. /\ [j \in KCalls |-> Phase(j)]' = [[j \in KCalls |-> Phase(j)] EXCEPT ![k] = "pending"]
            /\ [j \in KCalls |-> Request(j)]' = [[j \in KCalls |-> Request(j)] EXCEPT ![k] = r]
        BY Zenon, <2>1, <3>5, <4>3, <4>4, <4>5, PromiseChanges
      <4>7. Promise!Submit(k, r)
        BY Zenon, <2>1, <2>2, <3>1, <4>3, <4>6 DEF Promise!Submit, Request
      <4> QED
        BY Zenon, <2>1, <4>7 DEF Promise!Next
    <3> QED
      BY Zenon, <3>6, <3>7
  <2> QED
    BY Zenon, <1>3, <2>4, <2>5, <2>6 DEF CallStep

<1>4. ASSUME NEW l \in Loops, LoopFetch(l) PROVE [Promise!Next]_(Promise!vars)
  <2>1. cq[l] \in Seq(KCalls) /\ cq[l] # << >> /\ lpc[l] = "fetch"
    BY Zenon, <1>0, <1>4 DEF LoopFetch, TypeOK
  <2>2. PICK k \in KCalls : k = Head(cq[l])
    <3>1. Head(cq[l]) \in KCalls
      BY <2>1
    <3> QED
      BY Zenon, <3>1
  <2>3. k \in Range(cq[l])
    BY <2>1, <2>2 DEF Range
  <2>4. Owner[k] = l /\ state[k] = 2 /\ hkc[l] = NoKC
    BY ZenonT(60), <1>0, <2>1, <2>3 DEF OnePlace, StateTells, OnlyHandlers
  <2>5. ~Exposed(k) /\ ~Submitting(k)
    BY <1>0, <2>4 DEF StateTells
  <2>6. /\ UNCHANGED <<op, data, sq, cpc, ckc, wpc, wkc, ret>> /\ state'[k] = 0
        /\ \A j \in KCalls \ {k} : state'[j] = state[j]
        /\ hkc' = [hkc EXCEPT ![l] = IF op[k] # 0 THEN k ELSE NoKC]
    BY Zenon, <1>0, <1>4, <2>2 DEF LoopFetch, TypeOK
  <2>7. \A j \in KCalls : (Exposed(j)' <=> Exposed(j)) /\ (Submitting(j)' <=> Submitting(j))
    BY Zenon, <2>6 DEF Exposed, Submitting
  <2>8. \A j \in KCalls \ {k} : Unseen(j)
    BY Zenon, <2>6, <2>7, UnseenIf
  <2>9. CASE op[k] = 0
    <3>1. Unseen(k)
      BY Zenon, <2>6, <2>9, UnseenIdle
    <3>2. hkc' = hkc
      BY Zenon, <1>0, <2>4, <2>6, <2>9 DEF TypeOK
    <3> QED
      BY Zenon, <2>6, <2>8, <3>1, <3>2, PromiseStutter
  <2>10. CASE op[k] # 0
    <3>0. op'[k] = op[k] /\ data'[k] = data[k] /\ ~Exposed(k)' /\ ~Submitting(k)'
      BY Zenon, <2>5, <2>6, <2>7
    <3>1. Phase(k) = "pending" /\ Phase(k)' = "done" /\ Request(k)' = Request(k)
      <4>1. Phase(k) = "pending"
        BY <2>4, <2>5, <2>10 DEF Phase
      <4>2. Phase(k)' = "done"
        BY Zenon, <2>6, <2>10, <3>0 DEF Phase
      <4>3. Phase(k) # "idle" /\ Phase(k)' # "idle"
        BY Zenon, <4>1, <4>2
      <4> QED
        BY ZenonT(60), <3>0, <4>1, <4>2, <4>3 DEF Request
    <3>2. [j \in KCalls |-> Phase(j)]' = [[j \in KCalls |-> Phase(j)] EXCEPT ![k] = "done"]
      BY Zenon, <2>8, <3>1, PromiseChanges
    <3>3. [j \in KCalls |-> Request(j)]' = [j \in KCalls |-> Request(j)]
      BY Zenon, <2>8, <3>1 DEF Unseen
    <3>4. Promise!Notify(k)
      BY Zenon, <2>4, <2>6, <2>10, <3>1, <3>2, <3>3 DEF Promise!Notify, Request
    <3> QED
      BY Zenon, <3>4 DEF Promise!Next
  <2> QED
    BY Zenon, <2>9, <2>10
<1>5. ASSUME NEW l \in Loops, HandlerReturn(l) PROVE [Promise!Next]_(Promise!vars)
  <2>1. UNCHANGED <<op, state, data, sq, cpc, ckc, wpc, wkc, ret>> /\ hkc' = [hkc EXCEPT ![l] = NoKC]
    BY Zenon, <1>5 DEF HandlerReturn
  <2>2. \A k \in KCalls : Unseen(k)
    BY Zenon, <1>a, <2>1
  <2>3. Promise!Handled(l)
    BY Zenon, <2>1, <2>2 DEF Promise!Handled, Unseen, Request
  <2> QED
    BY Zenon, <2>3 DEF Promise!Next
<1>6. ASSUME NEW l \in Loops,
             LoopConsume(l) \/ LoopDrained(l) \/ LoopWait(l) \/ LoopWake(l) \/ LoopPoll(l) \/ LoopOther(l)
      PROVE  [Promise!Next]_(Promise!vars)
  <2>1. UNCHANGED <<op, state, data, sq, cpc, ckc, wpc, wkc, ret, hkc>>
    BY Zenon, <1>6 DEF LoopConsume, LoopDrained, LoopWait, LoopWake, LoopPoll, LoopOther
  <2> QED
    BY Zenon, <1>a, <2>1, PromiseStutter
<1>7. ASSUME NEW w \in Workers, WorkerStep(w) \/ WorkerPoll(w) PROVE \A k \in KCalls : Unseen(k)
  <2>1. UNCHANGED <<op, cpc, ckc>>
    BY Zenon, <1>7 DEF WorkerStep, WorkerPoll, WorkerWait, WorkerFetch, WorkerDrained, WorkerSkip,
       WorkerReset, WorkerExec, WorkerResult, WorkerMark, WorkerAdd, WorkerDrop, WorkerPost
  <2>2. \A v \in Workers \ {w} : wpc'[v] = wpc[v] /\ wkc'[v] = wkc[v]
    BY ZenonT(60), <1>0, <1>7 DEF TypeOK, WorkerStep, WorkerPoll, WorkerWait, WorkerFetch, WorkerDrained, WorkerSkip,
       WorkerReset, WorkerExec, WorkerResult, WorkerMark, WorkerAdd, WorkerDrop, WorkerPost
  <2>3. \A k : Submitting(k)' <=> Submitting(k)
    BY Zenon, <2>1 DEF Submitting
  <2>4. ASSUME UNCHANGED <<state, data>>, \A k \in KCalls : Exposed(k)' <=> Exposed(k)
        PROVE  \A k \in KCalls : Unseen(k)
    BY Zenon, <2>1, <2>3, <2>4, UnseenIf
  <2>5. ASSUME UNCHANGED <<state, data, sq>>, wpc[w] \notin Unmarked, wpc'[w] \notin Unmarked
        PROVE  \A k \in KCalls : Unseen(k)
    <3>1. \A k \in KCalls : Exposed(k)' <=> Exposed(k)
      BY Zenon, <2>2, <2>5 DEF Exposed
    <3> QED
      BY Zenon, <2>4, <2>5, <3>1
  <2>6. ASSUME UNCHANGED sq, wpc[w] \in Unmarked, wpc'[w] \in Unmarked, wkc'[w] = wkc[w]
        PROVE  \A k \in KCalls : Exposed(k)' <=> Exposed(k)
    BY Zenon, <2>2, <2>6 DEF Exposed
  <2>7. ASSUME wpc[w] \in Unmarked, UNCHANGED sq
        PROVE  /\ wkc[w] \in KCalls /\ Exposed(wkc[w])
               /\ \A k \in KCalls \ {wkc[w]} : wkc'[w] = wkc[w] \/ wpc'[w] \notin Unmarked => (Exposed(k)' <=> Exposed(k))
    <3>1. wkc[w] \in KCalls /\ Exposed(wkc[w])
      BY Zenon, <1>0, <2>7 DEF Handles, Exposed, Unmarked
    <3>2. \A k \in KCalls \ {wkc[w]} : wkc'[w] = wkc[w] \/ wpc'[w] \notin Unmarked => (Exposed(k)' <=> Exposed(k))
      BY Zenon, <2>2, <2>7 DEF Exposed
    <3> QED
      BY Zenon, <3>1, <3>2
  <2>8. CASE WorkerWait(w) \/ WorkerPoll(w) \/ WorkerDrained(w) \/ WorkerAdd(w) \/ WorkerDrop(w) \/ WorkerPost(w)
    <3>1. UNCHANGED <<state, data, sq>>
      BY Zenon, <2>8 DEF WorkerWait, WorkerPoll, WorkerDrained, WorkerAdd, WorkerDrop, WorkerPost
    <3>2. wpc[w] \notin Unmarked /\ wpc'[w] \notin Unmarked
      BY ZenonT(60), <1>0, <2>8 DEF WorkerWait, WorkerPoll, WorkerDrained, WorkerAdd, WorkerDrop, WorkerPost, Unmarked,
         Holding, TypeOK
    <3> QED
      BY Zenon, <2>5, <3>1, <3>2
  <2>9. CASE WorkerFetch(w)
    <3>1. /\ wpc[w] = "fetch" /\ wpc'[w] = "exec" /\ wkc'[w] = Head(sq) /\ sq # << >> /\ sq' = Tail(sq)
          /\ sq \in Seq(KCalls) /\ UNCHANGED <<state, data>> /\ IsInjective(sq)
      BY Zenon, <1>0, <2>9 DEF WorkerFetch, TypeOK, OnePlace
    <3>2. Range(sq) = Range(sq)' \cup {Head(sq)}
      BY Zenon, <3>1, RangeOfTail
    <3>3. \A k \in KCalls : Exposed(k)' <=> Exposed(k)
      BY Zenon, <2>2, <3>1, <3>2 DEF Exposed, Unmarked, Holding
    <3> QED
      BY Zenon, <2>4, <3>1, <3>3
  <2>10. CASE WorkerSkip(w) \/ WorkerExec(w)
    <3>1. UNCHANGED <<state, data, sq, wkc>> /\ wpc[w] \in Unmarked /\ wpc'[w] \in Unmarked
      BY Zenon, <1>0, <2>10 DEF WorkerSkip, WorkerExec, TypeOK, Unmarked, Holding
    <3> QED
      BY Zenon, <2>4, <2>6, <3>1
  <2>11. CASE WorkerReset(w)
    <3>1. /\ wpc[w] = "reset" /\ wpc'[w] = "fetch" /\ UNCHANGED <<data, sq>>
          /\ \A j \in KCalls \ {wkc[w]} : state'[j] = state[j]
      BY Zenon, <1>0, <2>11 DEF WorkerReset, TypeOK
    <3>2. wpc[w] \in Unmarked /\ wpc'[w] \notin Unmarked
      BY Zenon, <3>1 DEF Unmarked, Holding
    <3>3. op[wkc[w]] = 0
      BY Zenon, <1>0, <3>1 DEF UnionHolds
    <3>4. Unseen(wkc[w])
      BY Zenon, <2>1, <3>3, UnseenIdle
    <3>5. \A j \in KCalls \ {wkc[w]} : Unseen(j)
      BY Zenon, <2>1, <2>3, <2>7, <3>1, <3>2, UnseenIf
    <3> QED
      BY Zenon, <3>4, <3>5
  <2>12. CASE WorkerResult(w)
    <3>1. /\ wpc[w] = "kernel" /\ wpc'[w] = "mark" /\ UNCHANGED <<state, sq, wkc>>
          /\ data' = [data EXCEPT ![wkc[w]] = Result(wreq[w].op, wreq[w].arg)]
      BY Zenon, <1>0, <2>12 DEF WorkerResult, TypeOK
    <3>2. wpc[w] \in Unmarked /\ wpc'[w] \in Unmarked
      BY Zenon, <3>1 DEF Unmarked, Holding
    <3>3. PICK k \in KCalls : k = wkc[w]
      BY Zenon, <2>7, <3>1, <3>2
    <3>4. data'[k] = Result(wreq[w].op, wreq[w].arg) /\ \A j \in KCalls \ {k} : data'[j] = data[j]
      BY Zenon, <1>0, <3>1, <3>3 DEF TypeOK
    <3>5. \A j \in KCalls : Exposed(j)' <=> Exposed(j)
      BY Zenon, <2>6, <3>1, <3>2
    <3>6. \A j \in KCalls \ {k} : Unseen(j)
      BY Zenon, <2>1, <2>3, <3>1, <3>4, <3>5, UnseenIf
    <3>7. Phase(k)' = Phase(k)
      BY Zenon, <2>1, <2>3, <3>1, <3>5 DEF Phase
    <3>8. CASE op[k] = 0
      BY Zenon, <2>1, <3>6, <3>8, UnseenIdle
    <3>9. CASE op[k] # 0
      <4>1. data[k] = Arguments(wreq[w].op, wreq[w].arg)
        BY ZenonT(60), <1>0, <3>1, <3>3, <3>9 DEF RequestStays
      <4>2. data'[k].op = data[k].op /\ data'[k].arg = data[k].arg
        BY <3>4, <4>1 DEF Result, Arguments
      <4>3. Unseen(k)
        BY Zenon, <3>7, <4>2 DEF Unseen, Request
      <4> QED
        BY Zenon, <3>6, <4>3
    <3> QED
      BY Zenon, <3>8, <3>9
  <2>13. CASE WorkerMark(w)
    <3>1. /\ wpc[w] = "mark" /\ wpc'[w] = "add" /\ UNCHANGED <<data, sq, wkc>> /\ state' = [state EXCEPT ![wkc[w]] = 2]
      BY Zenon, <1>0, <2>13 DEF WorkerMark, TypeOK
    <3>2. wpc[w] \in Unmarked /\ wpc'[w] \notin Unmarked
      BY Zenon, <3>1 DEF Unmarked, Holding
    <3>3. PICK k \in KCalls : k = wkc[w] /\ Exposed(k)
      BY Zenon, <2>7, <3>1, <3>2
    <3>4. state'[k] = 2 /\ \A j \in KCalls \ {k} : state'[j] = state[j]
      BY Zenon, <1>0, <3>1, <3>3 DEF TypeOK
    <3>5. \A j \in KCalls \ {k} : Unseen(j)
      BY ZenonT(60), <2>1, <2>3, <2>7, <3>1, <3>2, <3>3, <3>4, UnseenIf
    <3>6. Phase(k)' = Phase(k)
      <4>1. op'[k] = op[k] /\ state'[k] # 0
        BY <2>1, <2>3, <3>4
      <4> QED
        BY ZenonT(60), <2>1, <2>3, <3>3, <4>1 DEF Phase
    <3>7. Unseen(k)
      BY Zenon, <3>1, <3>6 DEF Unseen, Request
    <3> QED
      BY Zenon, <3>5, <3>7
  <2> QED
    BY Zenon, <1>7, <2>8, <2>9, <2>10, <2>11, <2>12, <2>13 DEF WorkerStep
<1>8. ASSUME NEW w \in Workers, WorkerStep(w) \/ WorkerPoll(w) PROVE [Promise!Next]_(Promise!vars)
  <2>1. UNCHANGED <<ret, hkc>>
    BY Zenon, <1>8 DEF WorkerStep, WorkerPoll, WorkerWait, WorkerFetch, WorkerDrained, WorkerSkip,
       WorkerReset, WorkerExec, WorkerResult, WorkerMark, WorkerAdd, WorkerDrop, WorkerPost
  <2> QED
    BY Zenon, <1>7, <1>8, <2>1, PromiseStutter
<1>9. CASE UNCHANGED vars
  BY Zenon, <1>9, <1>a, PromiseStutter DEF vars
<1> QED
  BY Zenon, <1>1, <1>2, <1>3, <1>4, <1>5, <1>6, <1>8, <1>9 DEF Next, Threads, ProcessStep

\* kcall.h keeps the promise of AsyncCalls, for any number of loops, workers and
\* objects, while callers leave objects alone that are in the SQ or being executed:
\* one handler call per submission and none after a cancel, every result collected
\* is that of the request submitted, a finished request is never refused.
THEOREM Implements == Spec => KeepsPromise
<1>1. Init => Promise!Init
  <2> SUFFICES ASSUME Init PROVE Promise!Init
    BY Zenon
  <2>1. \A k \in KCalls : Phase(k) = "idle"
    BY Zenon DEF Init, Phase
  <2> QED
    BY Zenon, <2>1 DEF Init, Promise!Init
<1>2. Init => PromiseInv
  BY ZenonT(60) DEF Init, PromiseInv, OnlyHandlers, NoneSync, RequestStays
<1>3. KCallInv /\ PromiseInv /\ [Next]_vars => PromiseInv'
  BY Zenon, RequestStep, HandlersStep DEF PromiseInv, KCallInv
<1>4. KCallInv /\ PromiseInv /\ [Next]_vars => [Promise!Next]_(Promise!vars)
  BY Zenon, PromiseStep
<1> QED
  BY <1>1, <1>2, <1>3, <1>4, Invariant, PTL DEF Spec, KeepsPromise, Promise!Spec

=============================================================================
