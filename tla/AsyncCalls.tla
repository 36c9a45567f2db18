----------------------------- MODULE AsyncCalls -----------------------------
(***************************************************************************)
(* What the kernel call queue promises to one event loop's thread, with no *)
(* queues, no workers and no wake-ups: a request is submitted, its handler *)
(* runs once unless the request is cancelled first, and the next call      *)
(* returns the result of that very request.                                *)
(***************************************************************************)
CONSTANTS
  KCalls,      \* call objects
  Threads,     \* threads that make calls
  Owner,       \* the thread an object belongs to
  Requests,    \* what can be asked of the kernel
  Immediate,   \* objects whose calls are synchronous
  NoRequest,
  NoObject,
  Nothing,     \* what a thread holds before its first call returns
  Refusals,    \* error codes of a call that is refused
  InProgress,  \* error code of a call that submits a request
  Answer       \* what a caller is handed for each request

VARIABLES
  phase,       \* idle, pending, done
  request,     \* the request of a pending or done object
  returned,    \* what the thread's last call returned
  handling     \* the object whose handler the thread is running

vars == <<phase, request, returned, handling>>

Init ==
  /\ phase    = [k \in KCalls |-> "idle"]
  /\ request  = [k \in KCalls |-> NoRequest]
  /\ returned = [t \in Threads |-> Nothing]
  /\ handling = [t \in Threads |-> NoObject]

Returns(k, value) == returned' = [returned EXCEPT ![Owner[k]] = value]

\* A synchronous object: the call is made on the spot.
Perform(k, r) ==
  /\ k \in Immediate
  /\ Returns(k, Answer[r])
  /\ UNCHANGED <<phase, request, handling>>

\* The object is still in use by an earlier request, or the queue is full.
\* A request that is done is never refused its result.
Refuse(k, error) ==
  /\ phase[k] # "done"
  /\ Returns(k, error)
  /\ UNCHANGED <<phase, request, handling>>

Submit(k, r) ==
  /\ k \notin Immediate
  /\ phase[k] = "idle"
  /\ phase' = [phase EXCEPT ![k] = "pending"]
  /\ request' = [request EXCEPT ![k] = r]
  /\ UNCHANGED <<returned, handling>>

\* The call that submitted reports that the request is in progress.
Accepted(k) == Returns(k, InProgress) /\ UNCHANGED <<phase, request, handling>>

\* The handler is called, once, for a request that is not cancelled.
Notify(k) ==
  /\ phase[k] = "pending"
  /\ handling[Owner[k]] = NoObject
  /\ phase' = [phase EXCEPT ![k] = "done"]
  /\ handling' = [handling EXCEPT ![Owner[k]] = k]
  /\ UNCHANGED <<request, returned>>

Collect(k) ==
  /\ phase[k] = "done"
  /\ Returns(k, Answer[request[k]])
  /\ phase' = [phase EXCEPT ![k] = "idle"]
  /\ request' = [request EXCEPT ![k] = NoRequest]
  /\ UNCHANGED handling

Cancel(k) ==
  /\ phase' = [phase EXCEPT ![k] = "idle"]
  /\ request' = [request EXCEPT ![k] = NoRequest]
  /\ UNCHANGED <<returned, handling>>

\* The handler returns.
Handled(t) ==
  /\ handling' = [handling EXCEPT ![t] = NoObject]
  /\ UNCHANGED <<phase, request, returned>>

Next ==
  \/ \E t \in Threads : Handled(t)
  \/ \E k \in KCalls :
       \/ \E r \in Requests : Perform(k, r) \/ Submit(k, r)
       \/ \E e \in Refusals : Refuse(k, e)
       \/ Accepted(k) \/ Notify(k) \/ Collect(k) \/ Cancel(k)

Spec == Init /\ [][Next]_vars

=============================================================================
