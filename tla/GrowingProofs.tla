---------------------------- MODULE GrowingProofs ----------------------------
(***************************************************************************)
(* Proofs about Growing: for every set of values and sizes of buffers,     *)
(* success means a complete value where the function relies on nothing     *)
(* else, and no function fails only because the data is large.             *)
(***************************************************************************)
EXTENDS Growing, TLAPS

\* The values have one type, as ffwinreg_read() with a caller's buffer needs it.
Steady == \A v, w \in case : v.type = w.type

\* The answers go to a buffer; a second attempt has room for the value that the
\* first one was told of; and a caller's buffer is left only for text.
Asking ==
  /\ kind = "curdir" /\ at = "ask" /\ where = "heap" /\ same => val.size + 1 <= cap
  /\ kind = "expand" /\ at = "ask" /\ where = "heap" /\ same /\ ~error => val.size + 1 <= cap
  /\ kind \in {"netconf", "processes"} /\ at = "ask" /\ where = "heap" /\ same => val.size <= cap
  /\ kind = "read" /\ at = "ask" /\ ucap # 0 /\ Steady /\ val.type # "text" => where = "user"

GrowingInv ==
  /\ case \in Cases /\ val \in case /\ where \in Buffers /\ DOMAIN buf = Buffers
  /\ at \in {"ask", "info"} => ret = 2
  /\ Asking /\ Complete

\* What an answer leaves in the buffer.
LEMMA AnswerProperties ==
  ASSUME NEW need, GrowingInv, Answered(need)
  PROVE  DOMAIN buf' = Buffers /\ (Fits(need) => buf'[where] = val)
BY DEF GrowingInv, Answered

\* Values as they are.
LEMMA ValueProperties ==
  ASSUME GrowingInv
  PROVE  /\ val.size \in Nat /\ val.out \in Nat
         /\ (val.type # "text" => val.out = val.size)
BY GrowingAssumption DEF GrowingInv

\* Replacing the value disturbs no result: what was returned is one of the values.
LEMMA ChangeKeeps == GrowingInv /\ Change => GrowingInv'
<1> SUFFICES ASSUME GrowingInv, Change PROVE GrowingInv'
  OBVIOUS
<1>1. val' \in case' /\ same' = FALSE /\ UNCHANGED <<kind, case, at, where, cap, buf, ucap, got, len, ret, error>>
  BY DEF Change, call
<1>2. Asking'
  BY <1>1 DEF Asking, Steady, GrowingInv
<1>3. Complete'
  BY <1>1 DEF Complete, Relies, GrowingInv
<1> QED
  BY <1>1, <1>2, <1>3 DEF GrowingInv

\* A return keeps the invariant if the result is right.
LEMMA ReturnKeeps ==
  ASSUME GrowingInv, NEW r, NEW g, NEW n, Return(r, g, n), DOMAIN buf' = Buffers,
         UNCHANGED <<kind, case, val, writes, same>>,
         r = 1 /\ Relies(error') => g \in case /\ n = g.out,
         r = -1 /\ ~error' => ~same \/ (kind = "curdir" /\ ~Room)
  PROVE  GrowingInv'
<1>1. Asking'
  BY DEF Return, Asking
<1>2. Complete'
  BY DEF Return, Complete, Relies, Room
<1> QED
  BY <1>1, <1>2 DEF Return, GrowingInv

\* A second attempt keeps it if it has room for the value.
LEMMA AskAgainKeeps ==
  ASSUME GrowingInv, NEW n, AskAgain(n), DOMAIN buf' = Buffers, at \in {"ask", "info"},
         UNCHANGED <<kind, case, val, writes, same>>,
         kind = "curdir" => val.size + 1 <= n,
         kind = "expand" /\ ~error' => val.size + 1 <= n,
         kind \in {"netconf", "processes"} => val.size <= n,
         kind = "read" /\ ucap # 0 /\ Steady => val.type = "text"
  PROVE  GrowingInv'
<1>1. Asking'
  BY DEF AskAgain, Asking, Steady
<1>2. Complete'
  BY DEF AskAgain, Complete, GrowingInv
<1> QED
  BY <1>1, <1>2 DEF AskAgain, GrowingInv, Buffers

\* A failure that is told keeps it.
LEMMA FailKeeps ==
  ASSUME GrowingInv, Fail, UNCHANGED <<kind, case, val, writes, same>>
  PROVE  GrowingInv'
<1>1. Return(-1, Junk, 0) /\ DOMAIN buf' = Buffers
  BY DEF Fail, GrowingInv
<1>2. error'
  BY DEF Fail
<1>3. -1 = 1 /\ Relies(error') => Junk \in case /\ 0 = Junk.out
  OBVIOUS
<1>4. -1 = -1 /\ ~error' => ~same \/ (kind = "curdir" /\ ~Room)
  BY <1>2, Zenon
<1> QED
  BY <1>1, <1>3, <1>4, ReturnKeeps, Zenon

\* No answer, whatever it is, makes a function return what is not a complete value.
LEMMA QueryKeeps ==
  ASSUME GrowingInv, Query
  PROVE  GrowingInv'
<1> DEFINE Same == UNCHANGED <<kind, case, val, writes, same>>
<1>0. /\ val.size \in Nat /\ val.out \in Nat /\ val \in case
      /\ val.type # "text" => val.out = val.size
  BY ValueProperties DEF GrowingInv
<1>1. ASSUME kind = "read", at = "ask", Answered(val.size), IF val.type = "text" THEN ReadText ELSE ReadBinary, Same
      PROVE  GrowingInv'
  <2>0. kind = "read" /\ at = "ask" /\ DOMAIN buf' = Buffers /\ (Fits(val.size) => buf'[where] = val)
    BY <1>1, AnswerProperties
  <2>1. CASE val.type = "text"
    <3>0. ReadText
      BY <1>1, <2>1
    <3>1. CASE Fits(val.size) /\ Return(1, buf'[where], val.out)
      BY <1>0, <1>1, <2>0, <3>1, ReturnKeeps
    <3>2. CASE \E n : Return(0, Junk, n)
      BY <1>1, <2>0, <3>2, ReturnKeeps
    <3>3. CASE AskAgain(val.size)
      BY <1>0, <1>1, <2>0, <2>1, <3>3, AskAgainKeeps
    <3> QED
      BY <3>0, <3>1, <3>2, <3>3 DEF ReadText
  <2>2. CASE val.type # "text"
    <3>0. ReadBinary
      BY <1>1, <2>2
    <3>1. CASE Fits(val.size) /\ Return(1, IF ucap = 0 THEN buf'[where] ELSE buf'["user"], val.size)
      <4>1. ucap # 0 /\ Steady => where = "user"
        BY <2>0, <2>2 DEF GrowingInv, Asking
      <4> DEFINE g == IF ucap = 0 THEN buf'[where] ELSE buf'["user"]
      <4>2. (ucap # 0 => Steady) => g = val
        BY <2>0, <3>1, <4>1
      <4> HIDE DEF g
      <4>3. Return(1, g, val.size)
        BY <3>1 DEF g
      <4> QED
        BY <1>0, <1>1, <2>0, <2>2, <4>2, <4>3, ReturnKeeps DEF Relies, Steady
    <3>2. CASE Return(0, Junk, val.size)
      BY <1>1, <2>0, <3>2, ReturnKeeps
    <3>3. CASE ucap = 0 /\ AskAgain(val.size)
      BY <1>0, <1>1, <2>0, <3>3, AskAgainKeeps
    <3> QED
      BY <3>0, <3>1, <3>2, <3>3 DEF ReadBinary
  <2> QED
    BY <2>1, <2>2
<1>2. ASSUME ffwinreg_read, Same PROVE GrowingInv'
  <2>1. CASE BadName
    <3>1. Return(0, Junk, ucap) /\ DOMAIN buf' = Buffers
      BY <2>1 DEF BadName, GrowingInv
    <3> QED
      BY <1>2, <3>1, ReturnKeeps
  <2> QED
    BY <1>1, <1>2, <2>1, FailKeeps DEF ffwinreg_read
<1>3. ASSUME kind \in {"nextkey", "nextval"}, NEW n, Entry(n) \/ Info(n), Same, UNCHANGED error PROVE GrowingInv'
  <2>1. CASE Entry(n)
    <3>0. at = "ask" /\ DOMAIN buf' = Buffers /\ (Fits(n) => buf'[where] = val)
      BY <2>1, AnswerProperties DEF Entry
    <3>1. CASE Fits(n) /\ Return(1, buf'[where], val.out)
      BY <1>0, <1>3, <3>0, <3>1, ReturnKeeps
    <3>2. CASE Return(3, Junk, 0)
      BY <1>3, <3>0, <3>2, ReturnKeeps
    <3>3. CASE at' = "info" /\ UNCHANGED <<where, cap, ucap, got, len, ret>>
      <4>1. Asking' /\ Complete'
        BY <1>3, <3>0, <3>3 DEF GrowingInv, Asking, Complete
      <4> QED
        BY <1>3, <3>0, <3>3, <4>1 DEF GrowingInv
    <3> QED
      BY <2>1, <3>1, <3>2, <3>3 DEF Entry
  <2>2. CASE Info(n)
    <3>1. at = "info" /\ AskAgain(n) /\ DOMAIN buf' = Buffers
      BY <2>2 DEF Info, GrowingInv
    <3> QED
      BY <1>3, <3>1, AskAgainKeeps
  <2> QED
    BY <1>3, <2>1, <2>2
<1>4. ASSUME ffwinreg_enum_nextkey \/ ffwinreg_enum_nextval, Same PROVE GrowingInv'
  <2>1. CASE Fail
    BY <1>4, <2>1, FailKeeps
  <2>2. CASE ~Fail
    <3>1. PICK n \in {val.size, val.size + 1} : Entry(n) \/ Info(n)
      BY <1>4, <2>2 DEF ffwinreg_enum_nextkey, ffwinreg_enum_nextval
    <3> QED
      BY <1>3, <1>4, <2>2, <3>1 DEF ffwinreg_enum_nextkey, ffwinreg_enum_nextval
  <2> QED
    BY <2>1, <2>2
<1>5. ASSUME ffvol_info, Same PROVE GrowingInv'
  <2>1. CASE Fail
    BY <1>5, <2>1, FailKeeps
  <2>2. CASE ~Fail
    <3>0. kind = "volume" /\ at = "ask" /\ DOMAIN buf' = Buffers /\ (Fits(val.size) => buf'[where] = val)
      BY <1>5, <2>2, AnswerProperties DEF ffvol_info
    <3>1. CASE Fits(val.size) /\ Return(1, buf'[where], val.out)
      BY <1>0, <1>5, <3>0, <3>1, ReturnKeeps
    <3>2. CASE \E n \in {val.size, 0} : AskAgain(n)
      BY <1>5, <3>0, <3>2, AskAgainKeeps
    <3> QED
      BY <1>5, <2>2, <3>1, <3>2 DEF ffvol_info
  <2> QED
    BY <2>1, <2>2
<1>6. ASSUME NEW more, val.size <= more, kind \in {"netconf", "processes"},
             Twice(val.size, more), Same, UNCHANGED error
      PROVE  GrowingInv'
  <2>0. at = "ask" /\ DOMAIN buf' = Buffers /\ (Fits(val.size) => buf'[where] = val)
    BY <1>6, AnswerProperties DEF Twice
  <2>1. CASE Fits(val.size) /\ Return(1, buf'[where], val.out)
    BY <1>0, <1>6, <2>0, <2>1, ReturnKeeps
  <2>2. CASE AskAgain(more)
    BY <1>6, <2>0, <2>2, AskAgainKeeps
  <2>3. CASE ~Fits(val.size) /\ where = "heap" /\ Return(-1, Junk, 0)
    <3>1. ~same
      BY <1>0, <1>6, <2>0, <2>3 DEF GrowingInv, Asking, Fits
    <3> QED
      BY <1>6, <2>0, <2>3, <3>1, ReturnKeeps
  <2> QED
    BY <1>6, <2>1, <2>2, <2>3 DEF Twice
<1>7. ASSUME _ffnetconf_info, Same PROVE GrowingInv'
  <2>1. val.size <= val.size
    BY <1>0
  <2> QED
    BY <1>6, <1>7, <2>1, FailKeeps DEF _ffnetconf_info
<1>8. ASSUME _ffps_info_get, Same PROVE GrowingInv'
  <2>1. val.size <= ((val.size + 1) \div 2) * 2
    BY <1>0
  <2> QED
    BY <1>6, <1>8, <2>1, FailKeeps DEF _ffps_info_get
<1>9. ASSUME kind = "curdir", Directory(val.size + 1), Same, UNCHANGED error PROVE GrowingInv'
  <2> DEFINE need == val.size + 1
  <2>0. at = "ask" /\ DOMAIN buf' = Buffers /\ (Fits(need) => buf'[where] = val)
    BY <1>9, AnswerProperties DEF Directory
  <2>1. CASE Fits(need) /\ Return(1, buf'[where], val.out)
    BY <1>0, <1>9, <2>0, <2>1, ReturnKeeps
  <2>2. CASE ~Room /\ Return(-1, Junk, 0)
    BY <1>9, <2>0, <2>2, ReturnKeeps
  <2>3. CASE AskAgain(need)
    BY <1>0, <1>9, <2>0, <2>3, AskAgainKeeps
  <2>4. CASE ~Fits(need) /\ where = "heap" /\ (Return(1, buf'[where], val.out) \/ Return(-1, Junk, 0))
    <3>1. ~same
      BY <1>0, <1>9, <2>0, <2>4 DEF GrowingInv, Asking, Fits
    <3>2. CASE Return(1, buf'[where], val.out)
      BY <1>9, <2>0, <3>1, <3>2, ReturnKeeps DEF Relies
    <3>3. CASE Return(-1, Junk, 0)
      BY <1>9, <2>0, <3>1, <3>3, ReturnKeeps
    <3> QED
      BY <2>4, <3>2, <3>3
  <2> QED
    BY <1>9, <2>1, <2>2, <2>3, <2>4 DEF Directory
<1>10. ASSUME ffps_curdir, Same PROVE GrowingInv'
  BY <1>9, <1>10, FailKeeps DEF ffps_curdir
<1>11. ASSUME ffenv_expand, Same PROVE GrowingInv'
  <2> DEFINE need == val.size + 1
  <2>0. kind = "expand" /\ at = "ask" /\ DOMAIN buf = Buffers
    BY <1>11 DEF ffenv_expand, GrowingInv
  <2>1. CASE Measure(need)
    <3>1. UNCHANGED buf /\ (AskAgain(need) \/ (AskAgain(0) /\ error' = TRUE))
      BY <2>1 DEF Measure
    <3>2. need <= need
      BY <1>0
    <3> QED
      BY <1>11, <2>0, <3>1, <3>2, AskAgainKeeps
  <2>2. CASE Expand(need)
    <3> DEFINE g == IF Room THEN buf'["heap"] ELSE Junk
    <3>1. Return(1, g, val.out) /\ DOMAIN buf' = Buffers
      BY <2>0, <2>2 DEF Expand, Answered
    <3>2. Relies(error') => g = val
      <4> SUFFICES ASSUME Relies(error') PROVE g = val
        OBVIOUS
      <4>1. same /\ ~error' /\ Room
        BY <2>0 DEF Relies
      <4>2. where = "heap" /\ Answered(need) /\ UNCHANGED error
        BY <2>2, <4>1 DEF Expand
      <4>3. Fits(need)
        BY <2>0, <4>1, <4>2 DEF GrowingInv, Asking, Fits
      <4> QED
        BY <4>1, <4>2, <4>3, AnswerProperties
    <3> HIDE DEF g
    <3> QED
      BY <1>0, <1>11, <2>0, <3>1, <3>2, ReturnKeeps
  <2> QED
    BY <1>11, <2>1, <2>2, FailKeeps DEF ffenv_expand
<1> QED
  BY <1>2, <1>4, <1>5, <1>7, <1>8, <1>10, <1>11 DEF Query

\* The caller of ffwinreg_read() comes with the size that it was told.
LEMMA ReadAgainKeeps ==
  ASSUME GrowingInv, ReadAgain
  PROVE  GrowingInv'
<1>1. /\ kind = "read" /\ at' = "ask" /\ where' \in {"stack", "user"} /\ (ucap' # 0 => where' = "user") /\ ret' = 2
      /\ DOMAIN buf' = Buffers /\ UNCHANGED <<kind, case, val>>
  BY DEF ReadAgain, First
<1>2. Asking' /\ Complete'
  BY <1>1 DEF Asking, Complete
<1> QED
  BY <1>1, <1>2 DEF GrowingInv, Buffers

\* The inductive invariant: between the questions of one call, `cap` is enough for
\* the value that was there when the call began, unless it has changed or the
\* question for its size failed unnoticed.
THEOREM Invariant == Spec => []GrowingInv
<1>1. Init => GrowingInv
  <2> SUFFICES ASSUME Init PROVE GrowingInv
    OBVIOUS
  <2>1. case \in Cases /\ val \in case /\ where \in Buffers /\ DOMAIN buf = Buffers
    BY DEF Init, First, Buffers
  <2>2. Asking
    BY DEF Init, First, Asking
  <2>3. ret = 2 /\ Complete
    BY DEF Init, Complete
  <2> QED
    BY <2>1, <2>2, <2>3 DEF GrowingInv
<1>2. GrowingInv /\ [Next]_vars => GrowingInv'
  <2> SUFFICES ASSUME GrowingInv, [Next]_vars PROVE GrowingInv'
    OBVIOUS
  <2>1. CASE UNCHANGED vars
    <3>1. Asking' /\ Complete'
      BY <2>1 DEF GrowingInv, vars, call, Asking, Steady, Complete, Relies, Room
    <3> QED
      BY <2>1, <3>1 DEF GrowingInv, vars, call
  <2> QED
    BY <2>1, ChangeKeeps, QueryKeeps, ReadAgainKeeps DEF Next, Finished
<1> QED
  BY <1>1, <1>2, PTL DEF Spec

\* However the data changes between the questions, and whatever the sizes of values
\* and buffers are: success means a complete value with its own length, except
\* where Relies says what the function needs and does not check, and an error
\* without a failing call means that the data changed during the call or that the
\* buffer given to ffps_curdir() was too small.
THEOREM AlwaysComplete == Spec => []Complete
<1>1. GrowingInv => Complete
  BY DEF GrowingInv
<1> QED
  BY <1>1, Invariant, PTL

=============================================================================
