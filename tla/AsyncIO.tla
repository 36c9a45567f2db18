------------------------------- MODULE AsyncIO -------------------------------
(***************************************************************************)
(* Asynchronous input and output on one descriptor that is attached to the *)
(* kernel queue (FFOS/queue.h, kqtask.h, socket.h, pipe.h, filemon.h).     *)
(* Every operation has the same shape: a call that cannot complete returns *)
(* FFSOCK_EINPROGRESS, and the caller calls again after ffkq_wait() has    *)
(* reported the descriptor.  UNIX tries the system call each time; Windows *)
(* keeps an overlapped request in the task and asks for its outcome.       *)
(*                                                                         *)
(* External: epoll with EPOLLET puts a descriptor on its ready list when   *)
(* it becomes ready and examines it again in epoll_wait(); kqueue with     *)
(* EV_CLEAR does so for each filter; a completion port gets one packet for *)
(* each overlapped request, also for one that completed at once; a socket  *)
(* whose send() failed for want of room is reported when room appears.     *)
(***************************************************************************)
EXTENDS Integers, Sequences, FiniteSetsExt

CONSTANTS
  Systems,   \* the systems to examine: "linux", "bsd", "windows"
  Scenarios, \* sets of operations that run on the descriptor together
  MaxItems,  \* bound of what arrives: bytes, datagrams, clients or changes
  Vectors,   \* the ffiovec arrays to send: sequences of buffer lengths
  Room       \* bytes that the send buffer of the socket holds

\* A socket is read by one operation and written by one, and connected before.
ASSUME AsyncIOAssumption ==
  /\ Systems \subseteq {"linux", "bsd", "windows"}
  /\ \A s \in Scenarios :
       /\ s \subseteq {"recv", "udp", "recvfrom", "accept", "pipe", "filemon", "send", "sendv", "connect"}
       /\ "connect" \in s => s = {"connect"}
       /\ \A o, p \in s : o # p => {o, p} \cap {"send", "sendv"} # {} /\ {o, p} # {"send", "sendv"}
  /\ MaxItems \in Nat
  /\ Vectors \subseteq Seq(Nat)
  /\ Room \in Nat \ {0}

VARIABLES
  os, ops,   \* the system and the operations, chosen once
  attached,  \* ffkq_attach() was called
  arrived,   \* number of items that have arrived
  taken,     \* number of items that were read from the kernel
  conn,      \* state of the connection that "connect" establishes
  wire,      \* bytes put into the send buffer, all the time
  drained,   \* number of them that the peer has read
  nospace,   \* UNIX: the last send() found no room
  broken,    \* the connection was reset
  inst,      \* Windows: state of the named pipe's only instance
  edge,      \* UNIX: filters on the ready list
  port,      \* Windows: completion packets
  task,      \* each operation's ffkq_task
  kev,       \* UNIX: task->kev_flags tells of an error
  st,        \* where the caller stands with each operation
  got,       \* items returned to the caller
  iov,       \* what is left to send
  acked      \* number of bytes the calls have reported as sent

kernelVars == <<arrived, taken, conn, wire, drained, nospace, broken, inst>>
callerVars == <<st, got, iov, acked>>
vars == <<os, ops, attached, kernelVars, edge, port, task, kev, callerVars>>

Readers == {"recv", "udp", "recvfrom", "accept", "pipe", "filemon"}
Writers == {"send", "sendv", "connect"}
Ops     == Readers \cup Writers

FilterOf(op) == IF op \in Readers THEN "read" ELSE "write"
Idle         == [active |-> FALSE, over |-> "none", items |-> << >>]

\* The items m+1..n, and the number of bytes in a vector.
From(m, n) == [i \in 1 .. n - m |-> m + i]
Left(v)    == LET sum[i \in 0 .. Len(v)] == IF i = 0 THEN 0 ELSE sum[i - 1] + v[i] IN sum[Len(v)]

Init ==
  /\ os \in Systems /\ ops \in Scenarios
  /\ os = "bsd" => "filemon" \notin ops
  /\ attached = FALSE
  /\ arrived = 0 /\ taken = 0 /\ conn = "none" /\ inst = "listening"
  /\ wire = << >> /\ drained = 0 /\ nospace = FALSE /\ broken = FALSE
  /\ edge = {} /\ port = << >> /\ kev = FALSE
  /\ task = [op \in ops |-> Idle]
  /\ st = [op \in ops |-> "call"]
  /\ got = << >>
  /\ iov \in Vectors /\ acked = 0

-----------------------------------------------------------------------------
(* What the kernel and the peer do (external)                              *)

Readable == arrived > taken \/ broken
Writable == \/ "connect" \in ops /\ conn \in {"up", "refused"}
            \/ "connect" \in ops /\ conn = "none" /\ os = "linux"  \* EPOLLHUP
            \/ "connect" \notin ops /\ (Len(wire) - drained < Room \/ broken)
Ready == {f \in {"read", "write"} : IF f = "read" THEN Readable ELSE Writable}
Attachable == {FilterOf(op) : op \in ops}

\* The descriptor's state changed: UNIX puts the filters on the ready list.
Wake(fs) == edge' = IF os # "windows" /\ attached THEN edge \cup (fs \cap Attachable) ELSE edge

\* A byte, a datagram, a client or a change arrives.  A client can connect to
\* the only instance of a Windows pipe while that listens; Windows records
\* changes from the first _fffilemon_watch_read_async().
Arrive ==
  /\ arrived < MaxItems /\ ~broken /\ ops \cap Readers # {}
  /\ os = "windows" /\ "pipe" \in ops => inst = "listening"
  /\ os = "windows" /\ "filemon" \in ops => task["filemon"].over # "none"
  /\ arrived' = arrived + 1
  /\ inst' = IF os = "windows" /\ "pipe" \in ops THEN "connected" ELSE inst
  /\ Wake({"read"})
  /\ UNCHANGED <<os, ops, attached, taken, conn, wire, drained, nospace, broken, port, task, kev, callerVars>>

\* The peer reads a byte.
Drain ==
  /\ drained < Len(wire) /\ ~broken
  /\ drained' = drained + 1
  /\ nospace' = FALSE
  /\ IF nospace THEN Wake({"write"}) ELSE UNCHANGED edge
  /\ UNCHANGED <<os, ops, attached, arrived, taken, conn, wire, broken, inst, port, task, kev, callerVars>>

\* The peer accepts or refuses the connection.
Establish ==
  /\ conn = "progress"
  /\ conn' \in {"up", "refused"}
  /\ Wake({"write"})
  /\ UNCHANGED <<os, ops, attached, arrived, taken, wire, drained, nospace, broken, inst, port, task, kev, callerVars>>

\* The peer resets the connection.
Break ==
  /\ ~broken /\ ops \subseteq {"recv", "send", "sendv"} /\ attached
  /\ broken' = TRUE
  /\ Wake({"read", "write"})
  /\ UNCHANGED <<os, ops, attached, arrived, taken, conn, wire, drained, nospace, inst, port, task, kev, callerVars>>

\* Windows completes an overlapped request: a zero-byte read takes nothing,
\* a write has its byte in the task, the others store what they received.
Complete(op) ==
  LET items == IF op = "filemon" THEN From(taken, arrived) ELSE From(taken, taken + 1)
      takes == op \in Readers \ {"recv"} /\ ~broken
  IN
  /\ os = "windows" /\ task[op].over = "pending" /\ FilterOf(op) \in Ready
  /\ task' = [task EXCEPT ![op].over  = IF broken \/ conn = "refused" THEN "failed" ELSE "ok",
                          ![op].items = IF takes THEN items ELSE @]
  /\ taken' = IF takes THEN taken + Len(items) ELSE taken
  /\ wire'  = IF op \in {"send", "sendv"} /\ ~broken THEN wire \o task[op].items ELSE wire
  /\ port'  = Append(port, op)
  /\ UNCHANGED <<os, ops, attached, arrived, conn, drained, nospace, broken, inst, edge, kev, callerVars>>

-----------------------------------------------------------------------------
(* How a call ends for the caller                                          *)

InProgress(op)   == st' = [st EXCEPT ![op] = "wait"] /\ UNCHANGED <<got, iov, acked>>
Error(op)        == st' = [st EXCEPT ![op] = "failed"] /\ UNCHANGED <<got, iov, acked>>
Received(op, is) == got' = got \o is /\ UNCHANGED <<st, iov, acked>>
Done(op)         == st' = [st EXCEPT ![op] = "done"] /\ UNCHANGED <<got, iov, acked>>

\* ffiovec_array_shift() skips bytes buffer by buffer; `left` is what the loop has
\* still to skip after each.  Where the loop ends early, in the first buffer that
\* keeps something, nothing is left and the buffers after it stay as they are.
ffiovec_shift(len, n) == Min({n, len})
ffiovec_array_shift(v, skip) ==
  LET left[i \in 0 .. Len(v)] == IF i = 0 THEN skip ELSE left[i - 1] - ffiovec_shift(v[i], left[i - 1])
      w == [i \in 1 .. Len(v) |-> v[i] - ffiovec_shift(v[i], left[i - 1])]
  IN  [v |-> w, more |-> \E i \in 1 .. Len(v) : w[i] # 0]

Sent(op, n) ==
  LET s == ffiovec_array_shift(iov, n) IN
  /\ iov' = s.v /\ acked' = acked + n
  /\ st' = [st EXCEPT ![op] = IF s.more THEN "call" ELSE "done"]
  /\ UNCHANGED got

-----------------------------------------------------------------------------
(* The kernel queue                                                        *)

\* A descriptor that is ready already is reported by UNIX as well.
ffkq_attach_linux == edge' = Ready \cap Attachable
ffkq_attach_bsd   == edge' = Ready \cap Attachable
ffkq_attach_win   == UNCHANGED edge

Attach ==
  /\ ~attached
  /\ attached' = TRUE
  /\ \/ os = "linux"   /\ ffkq_attach_linux
     \/ os = "bsd"     /\ ffkq_attach_bsd
     \/ os = "windows" /\ ffkq_attach_win
  /\ UNCHANGED <<os, ops, kernelVars, port, task, kev, callerVars>>

\* The caller looks at the operations that wait for one of the flags.
Signal(flags) == st' = [op \in ops |-> IF st[op] = "wait" /\ FilterOf(op) \in flags THEN "call" ELSE st[op]]

\* An error makes Linux report both directions, whatever was asked for.
ffkq_event_flags_linux(events) == IF "error" \in events THEN {"read", "write"} ELSE events
ffkq_event_flags_bsd(filter)   == {filter}
ffkq_task_event_assign(events) == kev' = ("error" \in events)

Failure == IF broken \/ conn = "refused" THEN {"error"} ELSE {}

\* epoll_wait() reports everything that is ready now, or drops the descriptor.
ffkq_wait_linux ==
  LET events == (Ready \cap Attachable) \cup Failure IN
  /\ os = "linux" /\ edge # {}
  /\ edge' = {}
  /\ Signal(ffkq_event_flags_linux(events))
  /\ ffkq_task_event_assign(events)
  /\ UNCHANGED port

\* kevent() reports one filter.
ffkq_wait_bsd ==
  /\ os = "bsd"
  /\ \E f \in edge :
       /\ edge' = edge \ {f}
       /\ Signal(ffkq_event_flags_bsd(f) \cap Ready)
       /\ ffkq_task_event_assign({f} \cup Failure)
  /\ UNCHANGED port

\* A packet tells of the descriptor, not of the direction: the caller looks at
\* every operation in progress.
ffkq_wait_win ==
  /\ os = "windows" /\ port # << >>
  /\ port' = Tail(port)
  /\ Signal({"read", "write"})
  /\ UNCHANGED <<edge, kev>>

Wait ==
  /\ attached /\ \A op \in ops : st[op] # "arm"
  /\ ffkq_wait_linux \/ ffkq_wait_bsd \/ ffkq_wait_win
  /\ UNCHANGED <<os, ops, attached, kernelVars, task, got, iov, acked>>

\* Nothing is signalled in time.
WaitTimeout ==
  /\ attached /\ edge = {} /\ port = << >> /\ \A op \in ops : st[op] # "arm"
  /\ UNCHANGED vars

-----------------------------------------------------------------------------
(* Calls on UNIX                                                           *)

Active(op, b) == task' = [task EXCEPT ![op].active = b]

\* A system call takes up to `most` items, fails, or finds nothing.
TryRead(op, most, NothingYet) ==
  \/ /\ arrived > taken
     /\ \E n \in 1 .. Min({most, arrived - taken}) :
          taken' = taken + n /\ Received(op, From(taken, taken + n))
     /\ Active(op, FALSE)
  \/ arrived = taken /\ broken /\ Error(op) /\ Active(op, FALSE) /\ UNCHANGED taken
  \/ arrived = taken /\ ~broken /\ NothingYet /\ UNCHANGED taken

Again(op) == InProgress(op) /\ Active(op, TRUE)

\* A system call sends what there is room for, fails, or finds no room.
TrySend(op, NoRoom) ==
  LET free == Room - (Len(wire) - drained)
      n    == Min({Left(iov), free})
  IN
  \/ /\ ~broken /\ free > 0
     /\ wire' = wire \o From(acked, acked + n)
     /\ Sent(op, n) /\ Active(op, FALSE) /\ UNCHANGED nospace
  \/ broken /\ Error(op) /\ Active(op, FALSE) /\ UNCHANGED <<wire, nospace>>
  \/ ~broken /\ free = 0 /\ NoRoom /\ nospace' = TRUE /\ UNCHANGED wire

\* Faulty variants: EAGAIN is returned as it is; the event is not looked at.
sendv_async_again == TrySend("sendv", Error("sendv") /\ Active("sendv", FALSE))
connect_async_always ==
  \/ task["connect"].active /\ Done("connect") /\ Active("connect", FALSE) /\ UNCHANGED conn
  \/ ~task["connect"].active /\ conn' = "progress" /\ Again("connect")

ffsock_recv_async_unix == TryRead("recv", MaxItems, Again("recv"))
ffsock_recv_udp_async_unix == TryRead("udp", 1, Again("udp"))
ffsock_recvfrom_async_unix == TryRead("recvfrom", 1, Again("recvfrom"))
ffsock_accept_async_unix == TryRead("accept", 1, Again("accept"))
ffpipe_accept_async_unix == TryRead("pipe", 1, InProgress("pipe") /\ UNCHANGED task)
fffilemon_read_async == TryRead("filemon", MaxItems, InProgress("filemon") /\ UNCHANGED task)

ffsock_send_async_unix == TrySend("send", Again("send"))
ffsock_sendv_async_unix == TrySend("sendv", Again("sendv"))

\* The event, and not another connect(), tells how the connection ended.
ffsock_connect_async_unix ==
  \/ /\ task["connect"].active
     /\ IF kev /\ conn = "refused" THEN Error("connect") ELSE Done("connect")
     /\ Active("connect", FALSE) /\ UNCHANGED conn
  \/ /\ ~task["connect"].active
     /\ \/ conn' = "progress" /\ Again("connect")
        \/ conn' = "up" /\ Done("connect") /\ Active("connect", FALSE)
        \/ conn' = "refused" /\ Error("connect") /\ Active("connect", FALSE)

UnixCall(op) ==
  /\ os # "windows" /\ attached /\ op \in ops /\ st[op] = "call"
  /\ \/ /\ \/ op = "recv"     /\ ffsock_recv_async_unix
           \/ op = "udp"      /\ ffsock_recv_udp_async_unix
           \/ op = "recvfrom" /\ ffsock_recvfrom_async_unix
           \/ op = "accept"   /\ ffsock_accept_async_unix
           \/ op = "pipe"     /\ ffpipe_accept_async_unix
           \/ op = "filemon"  /\ fffilemon_read_async
        /\ UNCHANGED <<conn, wire, nospace>>
     \/ /\ \/ op = "send"  /\ ffsock_send_async_unix
           \/ op = "sendv" /\ ffsock_sendv_async_unix
        /\ UNCHANGED <<conn, taken>>
     \/ op = "connect" /\ ffsock_connect_async_unix /\ UNCHANGED <<taken, wire, nospace>>
  /\ UNCHANGED <<os, ops, attached, arrived, drained, broken, inst, edge, port, kev>>

-----------------------------------------------------------------------------
(* Calls on Windows                                                        *)

\* Faulty: a request that is not complete yet clears task->active, too.
PolledClears(op, Success) ==
  /\ task[op].active
  /\ \/ task[op].over = "pending" /\ InProgress(op) /\ Active(op, FALSE)
     \/ task[op].over = "failed" /\ Error(op) /\ Active(op, FALSE)
     \/ task[op].over = "ok" /\ Success /\ Active(op, FALSE)

\* GetOverlappedResult() on the request that a former call has left.
Polled(op, Success) ==
  /\ task[op].active
  /\ \/ task[op].over = "pending" /\ InProgress(op) /\ UNCHANGED task
     \/ task[op].over = "failed" /\ Error(op) /\ Active(op, FALSE)
     \/ task[op].over = "ok" /\ Success /\ Active(op, FALSE)

Overlapped(op, items) ==
  task' = [task EXCEPT ![op] = [active |-> TRUE, over |-> "pending", items |-> items]]

\* The call found nothing and goes on to start a request.
ToArm(op) == st' = [st EXCEPT ![op] = "arm"] /\ Active(op, FALSE) /\ UNCHANGED <<got, iov, acked>>

\* Faulty variant: a completed request is taken for readiness.
recv_udp_async_again ==
  \/ Polled("udp", FALSE) /\ UNCHANGED taken
  \/ (task["udp"].active => task["udp"].over = "ok") /\ TryRead("udp", 1, ToArm("udp"))

\* A zero-byte read tells that there is something to receive; the call then
\* receives, and may have to ask again.
ffsock_recv_async_win ==
  \/ Polled("recv", FALSE) /\ UNCHANGED taken
  \/ /\ task["recv"].active => task["recv"].over = "ok"
     /\ TryRead("recv", MaxItems, ToArm("recv"))

ffsock_recv_udp_async_win ==
  \/ Polled("udp", Received("udp", task["udp"].items)) /\ UNCHANGED taken
  \/ ~task["udp"].active /\ TryRead("udp", 1, ToArm("udp"))

ffsock_recvfrom_async_win ==
  \/ Polled("recvfrom", Received("recvfrom", task["recvfrom"].items)) /\ UNCHANGED taken
  \/ ~task["recvfrom"].active /\ TryRead("recvfrom", 1, ToArm("recvfrom"))

ffsock_accept_async_win ==
  \/ Polled("accept", Received("accept", task["accept"].items)) /\ UNCHANGED taken
  \/ ~task["accept"].active /\ TryRead("accept", 1, ToArm("accept"))

\* The request cannot be started.
NotStarted(op) == ~task[op].active /\ Error(op) /\ UNCHANGED task

_fffilemon_watch_read_async ==
  /\ UNCHANGED taken
  /\ \/ Polled("filemon", Received("filemon", task["filemon"].items))
     \/ ~task["filemon"].active /\ Overlapped("filemon", << >>) /\ InProgress("filemon")
     \/ NotStarted("filemon")

\* The first byte goes into the task; a later call returns 1 for it.
ffsock_send_async_win ==
  \/ Polled("send", Sent("send", 1)) /\ UNCHANGED <<wire, nospace>>
  \/ ~task["send"].active /\ TrySend("send", ToArm("send"))

ffsock_sendv_async_win ==
  \/ Polled("sendv", Sent("sendv", 1)) /\ UNCHANGED <<wire, nospace>>
  \/ ~task["sendv"].active /\ TrySend("sendv", ToArm("sendv"))

ffsock_connect_async_win ==
  \/ Polled("connect", Done("connect")) /\ UNCHANGED conn
  \/ /\ ~task["connect"].active
     /\ \/ Error("connect") /\ UNCHANGED <<conn, task>>
        \/ conn' = "progress" /\ Overlapped("connect", << >>) /\ InProgress("connect")

\* ConnectNamedPipe() fails with ERROR_PIPE_CONNECTED when the client was first.
ffpipe_accept_async_win ==
  \/ Polled("pipe", Received("pipe", task["pipe"].items)) /\ UNCHANGED <<taken, inst>>
  \/ /\ ~task["pipe"].active /\ inst = "connected" /\ arrived > taken
     /\ taken' = taken + 1 /\ Received("pipe", From(taken, taken + 1))
     /\ Active("pipe", FALSE) /\ UNCHANGED inst
  \/ /\ ~task["pipe"].active /\ inst # "connected"
     /\ inst' = "listening" /\ Overlapped("pipe", << >>) /\ InProgress("pipe")
     /\ UNCHANGED taken
  \/ NotStarted("pipe") /\ UNCHANGED <<taken, inst>>

WinCall(op) ==
  /\ os = "windows" /\ attached /\ op \in ops /\ st[op] = "call"
  /\ \/ /\ \/ op = "recv"     /\ ffsock_recv_async_win
           \/ op = "udp"      /\ ffsock_recv_udp_async_win
           \/ op = "recvfrom" /\ ffsock_recvfrom_async_win
           \/ op = "accept"   /\ ffsock_accept_async_win
           \/ op = "filemon"  /\ _fffilemon_watch_read_async
        /\ UNCHANGED <<conn, wire, nospace, inst>>
     \/ /\ \/ op = "send"  /\ ffsock_send_async_win
           \/ op = "sendv" /\ ffsock_sendv_async_win
        /\ UNCHANGED <<conn, taken, inst>>
     \/ op = "connect" /\ ffsock_connect_async_win /\ UNCHANGED <<taken, wire, nospace, inst>>
     \/ op = "pipe" /\ ffpipe_accept_async_win /\ UNCHANGED <<conn, wire, nospace>>
  /\ UNCHANGED <<os, ops, attached, arrived, drained, broken, edge, port, kev>>

\* The call starts a request; data may have arrived since it found none.
Arm(op) ==
  /\ op \in ops /\ st[op] = "arm"
  /\ \/ /\ Overlapped(op, IF op \in Writers THEN From(acked, acked + 1) ELSE << >>)
        /\ InProgress(op)
     \/ broken /\ Error(op) /\ UNCHANGED task
  /\ UNCHANGED <<os, ops, attached, kernelVars, edge, port, kev>>

\* The caller is through with its client before it accepts another one.
ffpipe_peer_close ==
  /\ os = "windows" /\ "pipe" \in ops /\ inst = "connected" /\ arrived = taken
  /\ ~task["pipe"].active /\ st["pipe"] = "call"
  /\ inst' = "disconnected"
  /\ UNCHANGED <<os, ops, attached, arrived, taken, conn, wire, drained, nospace, broken,
                 edge, port, task, kev, callerVars>>

-----------------------------------------------------------------------------
Kernel == Arrive \/ Drain \/ Establish \/ Break \/ \E op \in ops : Complete(op)

Next ==
  \/ Kernel
  \/ Attach \/ Wait \/ WaitTimeout \/ ffpipe_peer_close
  \/ \E op \in ops : UnixCall(op) \/ WinCall(op) \/ Arm(op)

Spec == Init /\ [][Next]_vars

\* The loop waits for events and handles them, the kernel completes what it can
\* complete, and the peer reads what it was sent.
FairSpec ==
  /\ Spec
  /\ WF_vars(Attach) /\ WF_vars(Wait) /\ WF_vars(ffpipe_peer_close) /\ WF_vars(Drain)
  /\ WF_vars(\E op \in ops : Complete(op))
  /\ WF_vars(\E op \in ops : UnixCall(op) \/ WinCall(op) \/ Arm(op))

-----------------------------------------------------------------------------
(* Properties                                                              *)

\* No wakeup is lost: when an operation that returned FFSOCK_EINPROGRESS could
\* complete, the kernel queue holds an event that makes the caller call again
\* (UNIX), or the task has a request that is still to complete or has its packet
\* in the port (Windows).
NoLostWakeup ==
  \A op \in ops :
    st[op] = "wait" =>
      IF os = "windows"
      THEN task[op].active /\ (task[op].over = "pending" \/ \E i \in 1 .. Len(port) : port[i] = op)
      ELSE FilterOf(op) \in Ready => FilterOf(op) \in edge

\* What was read from the kernel is what the caller got, in order and once, but
\* for what a completed request still holds for the next call.
ReadOnce ==
  \A op \in ops \cap Readers :
    got \o (IF task[op].active /\ task[op].over = "ok" THEN task[op].items ELSE << >>) = From(0, taken)

\* The peer gets the stream, each byte once and in order; what the calls have
\* reported as sent is what is in the send buffer, but for the byte of a completed
\* request that the next call is to report.
WrittenOnce ==
  \A op \in ops \cap {"send", "sendv"} :
    /\ wire = From(0, acked + (IF task[op].active /\ task[op].over = "ok" THEN 1 ELSE 0))
    /\ \E v \in Vectors : Left(v) = acked + Left(iov)

\* Nothing is lost, repeated or reordered in either direction, however requests
\* complete between the calls that start them and those that take their outcome.
Intact == ReadOnce /\ WrittenOnce

\* ffsock_connect_async() reports a connection exactly if there is one.
ConnectTruth ==
  "connect" \in ops => /\ st["connect"] = "done" => conn = "up"
                       /\ st["connect"] = "failed" => conn # "up"

\* What arrives is received in the end, and what is to be sent is sent, unless
\* the connection is reset or Windows cannot start the request for a client of
\* the pipe (pipe.h:123) or for the changes (filemon.h:156).
EventuallyDone ==
  /\ \A n \in 1 .. MaxItems :
       arrived >= n ~> \/ Len(got) >= n \/ broken
                       \/ os = "windows" /\ \E op \in ops \cap {"pipe", "filemon"} : st[op] = "failed"
  /\ ops \cap {"send", "sendv"} # {} ~> (Left(iov) = 0 \/ broken)
  /\ conn \in {"up", "refused"} ~> \A op \in ops : st[op] \in {"done", "failed"}

=============================================================================
