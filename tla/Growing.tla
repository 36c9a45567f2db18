------------------------------- MODULE Growing -------------------------------
(***************************************************************************)
(* Functions that ask the system for data of unknown size while others     *)
(* change it: ask, allocate what the answer says, ask again.  The data is  *)
(* a value with a type, its size as the system stores it and its size as   *)
(* the caller gets it (text is converted from UTF-16 to UTF-8).  Between   *)
(* any two questions the value may be replaced by another one.             *)
(*                                                                         *)
(* A buffer holds a complete value or nothing useful; a question that is   *)
(* answered with "more data" leaves nothing useful in it.                  *)
(***************************************************************************)
EXTENDS Integers

CONSTANTS
  Kinds,      \* the functions that are called
  Cases,      \* sets of values that the data takes in a behaviour
  UserCaps,   \* sizes of the caller's buffer; 0: none
  StackCap,   \* size of the buffers on the stack, and of the first attempt
  MaxWrites,  \* bound: changes of the value
  ErrorPaths  \* whether calls may also fail for other reasons

\* Only text is converted.
ASSUME GrowingAssumption ==
  /\ \A c \in Cases : \A v \in c :
       v.size \in Nat /\ v.out \in Nat /\ (v.type # "text" => v.out = v.size)
  /\ UserCaps \subseteq Nat /\ StackCap \in Nat

VARIABLES
  kind, case, \* the function and the values
  val,        \* the value
  writes,     \* changes still to be made
  same,       \* nothing has changed since the call began
  error,      \* a system call, an allocation or a conversion failed
  at,         \* the next question, "idle" after the return
  where,      \* the buffer that the next answer goes to
  cap,        \* its size
  buf,        \* buffer -> what it holds
  ucap,       \* size of the caller's buffer
  got,        \* what the caller gets
  len,        \* the length or the size the caller is told
  ret         \* 1: success, 0: more data is needed, -1: error, 2: none yet, 3: no entry

call == <<at, where, cap, buf, ucap, got, len, ret, error>>
vars == <<kind, case, val, writes, same, call>>

Junk    == [type |-> "none", size |-> 0, out |-> 0]
Buffers == {"stack", "user", "heap"}

\* The buffer of the first question: only ffwinreg_read() uses the caller's.
First(u) == IF kind = "read" /\ u # 0 THEN "user" ELSE "stack"

\* ffvol_info() does not check the allocation for its first question.
Init ==
  /\ kind \in Kinds /\ case \in Cases /\ val \in case
  /\ writes = MaxWrites /\ same = TRUE /\ error = FALSE
  /\ ucap \in (IF kind \in {"read", "expand"} THEN UserCaps
              ELSE IF kind = "curdir" THEN UserCaps \ {0} ELSE {0})
  /\ at = "ask" /\ where = First(ucap)
  /\ cap \in {IF where = "user" THEN ucap ELSE StackCap}
             \cup (IF kind = "volume" /\ ErrorPaths THEN {0} ELSE {})
  /\ buf = [b \in Buffers |-> Junk]
  /\ got = Junk /\ len = 0 /\ ret = 2

\* Another thread or process replaces the value.
Change ==
  /\ writes > 0 /\ writes' = writes - 1
  /\ \E v \in case \ {val} : val' = v
  /\ same' = FALSE
  /\ UNCHANGED <<kind, case, call>>

Return(r, g, n) ==
  /\ at' = "idle" /\ ret' = r /\ got' = g /\ len' = n
  /\ UNCHANGED <<where, cap, ucap>>

\* A buffer of n on the heap for the next attempt.
AskAgain(n) ==
  /\ at' = "ask" /\ where' = "heap" /\ cap' = n
  /\ UNCHANGED <<ucap, got, len, ret>>

\* A call fails and the function tells.
Fail ==
  /\ ErrorPaths /\ at \in {"ask", "info"}
  /\ Return(-1, Junk, 0) /\ error' = TRUE /\ UNCHANGED buf

\* The answer: the value, if it fits, or its size.
Fits(need) == need <= cap
Answered(need) == buf' = [buf EXCEPT ![where] = IF Fits(need) THEN val ELSE Junk]

-----------------------------------------------------------------------------
(* ffwinreg_read()                                                         *)

\* Text is converted into the caller's buffer or a new one of its length.
ReadText_tight ==
  \/ Fits(val.size) /\ (ucap = 0 \/ val.out <= ucap) /\ Return(1, buf'[where], val.out)
  \/ Fits(val.size) /\ ucap # 0 /\ val.out > ucap /\ Return(0, Junk, val.size \div 2)
  \/ ~Fits(val.size) /\ where = "heap" /\ Return(0, Junk, val.size \div 2)
  \/ ~Fits(val.size) /\ where # "heap" /\ AskAgain(val.size)
ReadText ==
  \/ Fits(val.size) /\ (ucap = 0 \/ val.out <= ucap) /\ Return(1, buf'[where], val.out)
  \/ /\ Fits(val.size) /\ ucap # 0 /\ val.out > ucap
     /\ Return(0, Junk, (val.size \div 2) * 4)
  \/ ~Fits(val.size) /\ where = "heap" /\ Return(0, Junk, (val.size \div 2) * 4)
  \/ ~Fits(val.size) /\ where # "heap" /\ AskAgain(val.size)

\* Other data stays where it was read; a caller that gave no buffer gets the
\* one on the heap or a copy of the one on the stack.
ReadBinary_user ==
  \/ Fits(val.size) /\ Return(1, buf'["user"], val.size)
  \/ ~Fits(val.size) /\ (ucap # 0 \/ where = "heap") /\ Return(0, Junk, val.size)
  \/ ~Fits(val.size) /\ ucap = 0 /\ where # "heap" /\ AskAgain(val.size)
ReadBinary ==
  \/ /\ Fits(val.size)
     /\ Return(1, IF ucap = 0 THEN buf'[where] ELSE buf'["user"], val.size)
  \/ ~Fits(val.size) /\ (ucap # 0 \/ where = "heap") /\ Return(0, Junk, val.size)
  \/ ~Fits(val.size) /\ ucap = 0 /\ where # "heap" /\ AskAgain(val.size)

\* A name that cannot be converted: "more data is needed", and the length is
\* what the caller has passed.
BadName == ErrorPaths /\ where # "heap" /\ Return(0, Junk, ucap) /\ error' = TRUE /\ UNCHANGED buf

ffwinreg_read ==
  /\ kind = "read" /\ at = "ask"
  /\ \/ Answered(val.size) /\ (IF val.type = "text" THEN ReadText ELSE ReadBinary) /\ UNCHANGED error
     \/ BadName
     \/ Fail

\* A caller told to come with more memory does so.
ReadAgain ==
  /\ kind = "read" /\ at = "idle" /\ ret = 0
  /\ at' = "ask" /\ ucap' = len /\ where' = First(len) /\ cap' = (IF len = 0 THEN StackCap ELSE len)
  /\ same' = TRUE /\ ret' = 2 /\ error' = FALSE
  /\ buf' = [b \in Buffers |-> Junk]
  /\ UNCHANGED <<kind, case, val, writes, got, len>>

-----------------------------------------------------------------------------
(* Enumerations: the buffers of the object grow to the largest entry       *)

\* The entry, or none with this number, or the size of the largest one.
Entry(need) ==
  /\ at = "ask" /\ Answered(need)
  /\ \/ Fits(need) /\ Return(1, buf'[where], val.out)
     \/ Return(3, Junk, 0)
     \/ ~Fits(need) /\ at' = "info" /\ UNCHANGED <<where, cap, ucap, got, len, ret>>
Info(n) == at = "info" /\ AskAgain(n) /\ UNCHANGED buf

\* A name needs a place for its end too.
ffwinreg_enum_nextkey ==
  /\ kind = "nextkey"
  /\ \/ (Entry(val.size + 1) \/ Info(val.size + 1)) /\ UNCHANGED error
     \/ Fail
ffwinreg_enum_nextval ==
  /\ kind = "nextval"
  /\ \/ (Entry(val.size) \/ Info(val.size)) /\ UNCHANGED error
     \/ Fail

-----------------------------------------------------------------------------
(* Loops and second attempts                                               *)

\* As long as it takes.  An allocation that fails is not noticed: the question
\* is asked without a buffer, and once more.
ffvol_info ==
  /\ kind = "volume" /\ at = "ask"
  /\ \/ /\ Answered(val.size)
        /\ \/ Fits(val.size) /\ Return(1, buf'[where], val.out) /\ error' = FALSE
           \/ ~Fits(val.size) /\ AskAgain(val.size) /\ error' = FALSE
           \/ ~Fits(val.size) /\ ErrorPaths /\ AskAgain(0) /\ error' = TRUE
     \/ Fail

\* Two attempts, the second with the size that the first one told.
Twice(need, more) ==
  /\ at = "ask" /\ Answered(need)
  /\ \/ Fits(need) /\ Return(1, buf'[where], val.out)
     \/ ~Fits(need) /\ where = "stack" /\ AskAgain(more)
     \/ ~Fits(need) /\ where = "heap" /\ Return(-1, Junk, 0)
_ffnetconf_info ==
  /\ kind = "netconf"
  /\ \/ Twice(val.size, val.size) /\ UNCHANGED error
     \/ Fail
\* The second attempt leaves room for what is added meanwhile.
_ffps_info_get ==
  /\ kind = "processes"
  /\ \/ Twice(val.size, ((val.size + 1) \div 2) * 2) /\ UNCHANGED error
     \/ Fail

\* The caller's buffer has room for the text and its end.
Room == ucap = 0 \/ val.out + 1 <= ucap

\* The result of the second question is not compared with the buffer; what
\* was not written is converted nevertheless.
Directory(need) ==
  /\ at = "ask" /\ Answered(need)
  /\ \/ Fits(need) /\ Room /\ Return(1, buf'[where], val.out)
     \/ Fits(need) /\ ~Room /\ Return(-1, Junk, 0)
     \/ ~Fits(need) /\ where = "stack" /\ AskAgain(need)
     \/ ~Fits(need) /\ where = "heap" /\ (Return(1, buf'[where], val.out) \/ Return(-1, Junk, 0))
ffps_curdir ==
  /\ kind = "curdir"
  /\ \/ Directory(val.size + 1) /\ UNCHANGED error
     \/ Fail

\* The first question only asks for the length: 0 if it fails.
Measure(need) ==
  /\ where = "stack" /\ UNCHANGED buf
  /\ \/ AskAgain(need) /\ UNCHANGED error
     \/ ErrorPaths /\ AskAgain(0) /\ error' = TRUE
\* Neither a failure of the second one nor of the conversion into the
\* caller's buffer is noticed.
Expand(need) ==
  /\ where = "heap"
  /\ \/ Answered(need) /\ UNCHANGED error
     \/ ErrorPaths /\ buf' = [buf EXCEPT !["heap"] = Junk] /\ error' = TRUE
  /\ Return(1, IF Room THEN buf'["heap"] ELSE Junk, val.out)
ffenv_expand ==
  kind = "expand" /\ at = "ask" /\ (Measure(val.size + 1) \/ Expand(val.size + 1) \/ Fail)

Query ==
  /\ \/ ffwinreg_read \/ ffwinreg_enum_nextkey \/ ffwinreg_enum_nextval \/ ffvol_info
     \/ _ffnetconf_info \/ _ffps_info_get \/ ffps_curdir \/ ffenv_expand
  /\ UNCHANGED <<kind, case, val, writes, same>>

Finished == at = "idle" /\ ret # 0 /\ UNCHANGED vars

Next == Change \/ Query \/ ReadAgain \/ Finished

Spec == Init /\ [][Next]_vars

\* The calling thread runs; nobody has to change anything.
FairSpec == Spec /\ WF_vars(Query) /\ WF_vars(ReadAgain)

-----------------------------------------------------------------------------
(* Properties                                                              *)

\* What the functions leave to the caller and to luck: ffps_curdir() and
\* ffenv_expand() need the data to be left alone (process.h:244, environ.h:49),
\* ffenv_expand() needs its calls to succeed and the caller's buffer to be
\* large enough (environ.h:44-56), and ffwinreg_read() with a buffer of the
\* caller needs the type to stay (winreg.h:226).
Relies(e) ==
  /\ kind = "curdir" => same
  /\ kind = "expand" => same /\ ~e /\ Room
  /\ kind = "read" /\ ucap # 0 => \A v, w \in case : v.type = w.type

\* Success means a complete value with its own length, however often it
\* changed between the questions, where the function does not rely on
\* anything else.  And nothing fails only because the data is large: if no
\* call failed, an error means that the data changed during the call
\* (netconf.h:27-52) or that ffps_curdir() was given too little room.
Complete ==
  /\ ret = 1 /\ Relies(error) => got \in case /\ len = got.out
  /\ ret = -1 /\ ~error => ~same \/ (kind = "curdir" /\ ~Room)

\* A failure that the caller is not told of: a name that ffwinreg_read() could
\* not convert (winreg.h:151-152), memory that ffvol_info() did not get
\* (volume.h:75), a failing question of ffenv_expand().
Missed == error /\ ret \in {0, 2}

\* Unless a call goes on failing unnoticed, every function returns, and a
\* caller of ffwinreg_read() that follows the size it is told
\* ("val->datalen contains value's size", winreg.h:128) gets its value, once
\* the data is left alone.
GetsValue == <>[]~Missed => <>(ret \in {1, -1, 3})

\* "0 if more data is needed (val->datalen contains value's size)"
\* (winreg.h:128).  It does not hold if the name cannot be converted.
TellsSize == kind = "read" /\ ret = 0 /\ same => len >= val.out

\* ffenv_expand(): "dst: receives expanded string", "NULL on error"
\* (environ.h:237-240).  It does not hold with too small a buffer.
ExpandsAll == kind = "expand" /\ ret = 1 => got \in case
=============================================================================
