-------------------------------- MODULE Files --------------------------------
(***************************************************************************)
(* Processes that use the same file name and the same directories through  *)
(* file.h and dir.h: whole files written and read, temporary files, paths  *)
(* of directories made and removed.  A function of the library is several  *)
(* system calls, each of them atomic, and the calls of the processes       *)
(* interleave.  A file keeps its contents as long as a descriptor has it,  *)
(* with or without a name.  On Windows a deleted file keeps its name until *)
(* its last handle is closed, and can not be opened meanwhile.             *)
(*                                                                         *)
(* Contents are sequences of the processes that wrote them.  Directory i   *)
(* is inside directory i - 1.                                              *)
(***************************************************************************)
EXTENDS Naturals, Sequences, FiniteSets

CONSTANTS
  Procs,     \* processes
  Systems,   \* {"linux", "bsd", "windows"} or fewer
  Scenarios, \* sets of calls [op, flags] that the processes choose from
  MaxCalls,  \* bound: calls in a behaviour
  Depth,     \* directories in the path
  Old,       \* contents of the file that is there at first
  Limit      \* the largest file that fffile_readwhole() is to read

\* fffile_readwhole() and fffile_createtemp() choose their flags themselves; a path
\* for ffdir_make_path() has a directory; what is there at first has one author.
ASSUME FilesAssumption ==
  /\ \A s \in Scenarios : \A c \in s :
       /\ c.op \in {"writewhole", "readwhole", "createtemp", "make_all", "make_path", "remove_dir"}
       /\ c.flags \subseteq {"create", "new", "trunc", "noatime"}
       /\ c.op = "readwhole" => c.flags \subseteq {"noatime"}
       /\ c.op = "createtemp" => c.flags = {"create", "new"}
       /\ c.op = "make_path" => Depth > 1
  /\ Depth \in Nat \ {0} /\ Limit \in Nat /\ MaxCalls \in Nat
  /\ Old \in Seq({"none"})

VARIABLES
  os, calls, \* the system and the scenario
  name,      \* the file that has the name, 0 if none
  file,      \* sequence of files: who created it and its contents
  pend,      \* Windows: files to be deleted when the last handle is closed
  dirs,      \* the directories that exist
  left,      \* calls still to be made
  proc,      \* process -> what it does
  alone,     \* processes that nobody disturbed since their call began
  hurt       \* a writer failed after it had opened the file

vars == <<os, calls, name, file, pend, dirs, left, proc, alone, hurt>>
fileVars == <<name, file, pend, hurt>>

Idle == [op |-> "none", flags |-> {}, at |-> "idle", fd |-> 0, size |-> 0,
         got |-> << >>, level |-> 0, ret |-> "none"]
Whole(p) == <<p, p>>

Init ==
  /\ os \in Systems /\ calls \in Scenarios
  /\ \/ name = 0 /\ file = << >>
     \/ name = 1 /\ file = <<[by |-> "none", data |-> Old]>>
  /\ pend = {} /\ dirs = {} /\ left = MaxCalls
  /\ proc = [p \in Procs |-> Idle]
  /\ alone = {} /\ hurt = FALSE

Go(p, at)    == proc' = [proc EXCEPT ![p].at = at]
Return(p, r) == proc' = [proc EXCEPT ![p].at = "idle", ![p].ret = r, ![p].fd = 0]

\* The flags that the function opens with: without any, a whole file is
\* created or overwritten.
OpenFlags(c) ==
  IF c.op = "writewhole" /\ c.flags = {} THEN {"create", "trunc"} ELSE c.flags

\* A process calls a function; whatever runs already is disturbed by it.
Call(p) ==
  /\ proc[p].at = "idle" /\ left > 0
  /\ \E c \in calls :
       proc' = [proc EXCEPT ![p] = [Idle EXCEPT !.op = c.op, !.flags = OpenFlags(c),
                  !.at = IF c.op \in {"make_all", "make_path", "remove_dir"} THEN c.op ELSE "open",
                  !.level = 1]]
  /\ alone' = IF \A q \in Procs : proc[q].at = "idle" THEN {p} ELSE {}
  /\ left' = left - 1
  /\ UNCHANGED <<os, calls, fileVars, dirs>>

-----------------------------------------------------------------------------
(* Opening                                                                 *)

\* The file is opened by p as it is, emptied, or created.
Opened(p, i, at) ==
  proc' = [proc EXCEPT ![p].fd = i, ![p].at = at]
OpenExisting(p, at) == name # 0 /\ Opened(p, name, at) /\ UNCHANGED <<name, file>>
OpenEmptied(p, at) ==
  /\ name # 0
  /\ file' = [file EXCEPT ![name].data = << >>]
  /\ Opened(p, name, at) /\ UNCHANGED name
OpenCreated(p, at) ==
  /\ name = 0
  /\ file' = Append(file, [by |-> p, data |-> << >>])
  /\ name' = Len(file')
  /\ Opened(p, name', at)
Refused(p) == Return(p, "fail") /\ UNCHANGED <<name, file>>

\* open(): O_CREAT | O_EXCL of an existing name fails.
open(p, flags, at) ==
  \/ "create" \in flags /\ OpenCreated(p, at)
  \/ /\ name # 0 /\ "new" \notin flags
     /\ IF "trunc" \in flags THEN OpenEmptied(p, at) ELSE OpenExisting(p, at)
  \/ /\ IF name = 0 THEN "create" \notin flags ELSE "new" \in flags
     /\ Refused(p)

open_unix_keeps(p, at) == open(p, proc[p].flags \ {"trunc"}, at)

\* O_NOATIME on a file of another owner: EPERM, once more without it.
fffile_open_unix(p, at) ==
  \/ open(p, proc[p].flags, at)
  \/ /\ os = "linux" /\ "noatime" \in proc[p].flags /\ name # 0
     /\ proc' = [proc EXCEPT ![p].flags = @ \ {"noatime"}]
     /\ UNCHANGED <<name, file>>

\* CreateFileW() with a disposition; a file that is being deleted can not be
\* opened.
CreateFileW(p, creation, at, NotFound) ==
  \/ name \in pend /\ Refused(p)
  \/ name \notin pend /\ creation \in {"OPEN_EXISTING", "OPEN_ALWAYS"} /\ OpenExisting(p, at)
  \/ name \notin pend /\ creation = "TRUNCATE_EXISTING" /\ OpenEmptied(p, at)
  \/ creation \in {"OPEN_ALWAYS", "CREATE_NEW"} /\ OpenCreated(p, at)
  \/ name # 0 /\ name \notin pend /\ creation = "CREATE_NEW" /\ Refused(p)
  \/ name = 0 /\ creation \in {"OPEN_EXISTING", "TRUNCATE_EXISTING"} /\ NotFound

creation_always(flags) ==
  IF "trunc" \in flags THEN "TRUNCATE_EXISTING" ELSE "OPEN_ALWAYS"

\* The creation flags are compared before they are shifted back, so
\* FFFILE_TRUNCATE always means TRUNCATE_EXISTING.
creation(flags) ==
  IF "trunc" \in flags THEN "TRUNCATE_EXISTING"
  ELSE IF "new" \in flags THEN "CREATE_NEW"
  ELSE IF "create" \in flags THEN "OPEN_ALWAYS"
  ELSE "OPEN_EXISTING"

\* Nothing to truncate: create it in a second call.
fffile_open_win(p, at) ==
  LET flags == proc[p].flags IN
  CreateFileW(p, creation(flags), at,
    IF {"trunc", "create"} \subseteq flags /\ "new" \notin flags
    THEN Go(p, "open2") /\ UNCHANGED <<name, file>>
    ELSE Refused(p))
fffile_open_win_second(p, at) == CreateFileW(p, "CREATE_NEW", at, FALSE)

\* What each function does with the descriptor.
AfterOpen(p) ==
  CASE proc[p].op = "writewhole" -> "write"
    [] proc[p].op = "readwhole"  -> "size"
    [] proc[p].op = "createtemp" -> IF os = "windows" THEN "close" ELSE "unlink"

Open(p) ==
  /\ \/ proc[p].at = "open" /\ os # "windows" /\ fffile_open_unix(p, AfterOpen(p))
     \/ proc[p].at = "open" /\ os = "windows" /\ fffile_open_win(p, AfterOpen(p))
     \/ proc[p].at = "open2" /\ fffile_open_win_second(p, AfterOpen(p))
  /\ UNCHANGED <<os, calls, pend, dirs, left, alone, hurt>>

-----------------------------------------------------------------------------
(* Writing, reading, temporary files                                       *)

\* The name goes at once, or when no handle is left.  No file is read-only,
\* so the second DeleteFileW() is not needed.
InUse(i, p) == \E q \in Procs \ {p} : proc[q].fd = i
Unnamed(i, p) == IF i = name /\ ~InUse(i, p) THEN 0 ELSE name
fffile_remove(p) ==
  \/ name = 0 /\ UNCHANGED <<name, pend>>
  \/ name # 0 /\ os # "windows" /\ name' = 0 /\ UNCHANGED pend
  \/ name # 0 /\ os = "windows" /\ name' = Unnamed(name, p) /\ pend' = pend \cup {name}

\* One call writes everything, a part, or nothing.
write(p) ==
  /\ proc[p].at = "write"
  /\ \E n \in 0 .. Len(Whole(p)) :
       LET old == file[proc[p].fd].data
           new == [i \in 1 .. (IF Len(old) > n THEN Len(old) ELSE n) |->
                     IF i <= n THEN Whole(p)[i] ELSE old[i]]
       IN  /\ file' = [file EXCEPT ![proc[p].fd].data = new]
           /\ proc' = [proc EXCEPT ![p].at = "close",
                         ![p].ret = IF n = Len(Whole(p)) THEN "ok" ELSE "fail"]
           /\ hurt' = (hurt \/ n < Len(Whole(p)))
  /\ UNCHANGED <<os, calls, name, pend, dirs, left, alone>>

\* The size decides how much memory and how many bytes are asked for.
size(p) ==
  /\ proc[p].at = "size"
  /\ LET n == Len(file[proc[p].fd].data) IN
     proc' = [proc EXCEPT ![p].size = n, ![p].at = IF n > Limit THEN "close" ELSE "read",
                ![p].ret = "fail"]
  /\ UNCHANGED <<os, calls, fileVars, dirs, left, alone>>

\* One call reads; fewer bytes than the size are an error.
read_any(p) ==
  /\ proc[p].at = "read"
  /\ LET d == file[proc[p].fd].data IN
     \E n \in 0 .. (IF Len(d) < proc[p].size THEN Len(d) ELSE proc[p].size) :
       proc' = [proc EXCEPT ![p].at = "close", ![p].got = SubSeq(d, 1, n), ![p].ret = "ok"]
  /\ UNCHANGED <<os, calls, fileVars, dirs, left, alone>>
read(p) ==
  /\ proc[p].at = "read"
  /\ LET d == file[proc[p].fd].data IN
     \E n \in 0 .. (IF Len(d) < proc[p].size THEN Len(d) ELSE proc[p].size) :
       proc' = [proc EXCEPT ![p].at = "close", ![p].got = SubSeq(d, 1, n),
                  ![p].ret = IF n = proc[p].size THEN "ok" ELSE "fail"]
  /\ UNCHANGED <<os, calls, fileVars, dirs, left, alone>>

\* Close; on Windows the last handle takes a deleted file with it, and a
\* temporary file is deleted by its own handle.
fffile_close(p) ==
  LET i == proc[p].fd
      gone == i \in pend \/ (os = "windows" /\ proc[p].op = "createtemp")
  IN  /\ name' = IF gone THEN Unnamed(i, p) ELSE name
      /\ pend' = IF gone THEN pend \cup {i} ELSE pend

\* A failed write or close is followed by the removal of the name.
Close(p) ==
  /\ proc[p].at = "close" /\ fffile_close(p)
  /\ \/ proc[p].op # "writewhole" /\ Return(p, IF proc[p].op = "readwhole" THEN proc[p].ret ELSE "ok")
     \/ proc[p].op = "writewhole" /\ proc[p].ret = "ok" /\ Return(p, "ok")
     \/ proc[p].op = "writewhole" /\ proc' = [proc EXCEPT ![p].at = "remove", ![p].fd = 0]
  /\ hurt' = (hurt \/ proc'[p].at = "remove")
  /\ UNCHANGED <<os, calls, file, dirs, left, alone>>
Remove(p) ==
  /\ proc[p].at = "remove" /\ fffile_remove(p) /\ Return(p, "fail")
  /\ UNCHANGED <<os, calls, file, dirs, left, alone, hurt>>

fffile_writewhole_end(p) ==
  \/ proc[p].op = "writewhole" /\ proc[p].at = "open" /\ name # 0 /\ "new" \in proc[p].flags
     /\ Go(p, "remove") /\ UNCHANGED <<os, calls, fileVars, dirs, left, alone>>
  \/ write(p) \/ (proc[p].op = "writewhole" /\ (Close(p) \/ Remove(p)))
fffile_writewhole(p) == write(p) \/ (proc[p].op = "writewhole" /\ (Close(p) \/ Remove(p)))
fffile_readwhole(p)  == size(p) \/ read(p) \/ (proc[p].op = "readwhole" /\ Close(p))

\* The new file loses its name at once, by name; the descriptor is used and
\* closed by the caller.
fffile_createtemp_unix(p) ==
  /\ proc[p].at = "unlink" /\ fffile_remove(p) /\ Go(p, "close")
  /\ UNCHANGED <<os, calls, file, dirs, left, alone, hurt>>
fffile_createtemp_win(p) == proc[p].op = "createtemp" /\ Close(p)

-----------------------------------------------------------------------------
(* Directories                                                             *)

ffdir_make(i) ==
  IF i \in dirs THEN "exists"
  ELSE IF i > 1 /\ i - 1 \notin dirs THEN "not found"
  ELSE "ok"

\* One directory per step; the last result is returned on Windows.
MakeNext(p, target) ==
  LET i == proc[p].level
      r == ffdir_make(i)
  IN  /\ dirs' = IF r = "ok" THEN dirs \cup {i} ELSE dirs
      /\ \/ r = "not found" /\ Return(p, "fail")
         \/ r # "not found" /\ i < target /\ proc' = [proc EXCEPT ![p].level = i + 1]
         \/ /\ r # "not found" /\ i = target
            /\ Return(p, IF os = "windows" /\ r = "exists" THEN "fail" ELSE "ok")
      /\ UNCHANGED <<os, calls, fileVars, left, alone>>
make_all_strict(p) ==
  /\ proc[p].at = "make_all"
  /\ \/ proc[p].level \in dirs /\ Return(p, "fail") /\ UNCHANGED <<os, calls, fileVars, dirs, left, alone>>
     \/ proc[p].level \notin dirs /\ MakeNext(p, Depth)
ffdir_make_all(p)  == proc[p].at = "make_all" /\ MakeNext(p, Depth)
\* The last name of the path is the file's.
ffdir_make_path(p) == proc[p].at = "make_path" /\ MakeNext(p, Depth - 1)

\* Only an empty directory can be removed.
ffdir_remove(p) ==
  /\ proc[p].at = "remove_dir"
  /\ \E i \in 1 .. Depth :
       IF i \in dirs /\ i + 1 \notin dirs
       THEN dirs' = dirs \ {i} /\ Return(p, "ok")
       ELSE Return(p, "fail") /\ UNCHANGED dirs
  /\ UNCHANGED <<os, calls, fileVars, left, alone>>

-----------------------------------------------------------------------------
Finished == left = 0 /\ (\A p \in Procs : proc[p].at = "idle") /\ UNCHANGED vars

Next ==
  \/ \E p \in Procs :
       \/ Call(p) \/ Open(p)
       \/ fffile_writewhole(p) \/ fffile_readwhole(p)
       \/ fffile_createtemp_unix(p) \/ fffile_createtemp_win(p)
       \/ ffdir_make_all(p) \/ ffdir_make_path(p) \/ ffdir_remove(p)
  \/ Finished

Spec == Init /\ [][Next]_vars

-----------------------------------------------------------------------------
(* Properties                                                              *)

Ops(c) == {x.op : x \in c}
Quiet == \A p \in Procs : proc[p].at = "idle"

\* FFFILE_CREATENEW: whoever gets a descriptor with it has created the file
\* itself, however the calls interleave (file.h:834; the lock-like use).
CreatedByOpener ==
  \A p \in Procs : proc[p].fd # 0 /\ "new" \in proc[p].flags => file[proc[p].fd].by = p

\* As long as everyone creates with FFFILE_CREATENEW, a whole file that was
\* written successfully stays, complete: a writer that can not create the
\* file leaves it alone, one that fails removes only what it created, and a
\* temporary file never takes another's name away (file.h:953-973, 632-638).
NewFileKept ==
  (\A c \in calls : c.op \in {"writewhole", "createtemp"} => "new" \in OpenFlags(c)) =>
    \A p \in Procs :
      proc[p].op = "writewhole" /\ proc[p].at = "idle" /\ proc[p].ret = "ok" =>
        /\ name # 0 /\ file[name].by = p /\ file[name].data = Whole(p)

\* Writers of the same length that overwrite the file: once all have
\* returned and none of them failed, the file has the data of one of them,
\* and nothing of what was there before or of another one.
OneWriterWins ==
  (\A c \in calls : c.op = "writewhole" /\ "trunc" \in OpenFlags(c)) =>
    (Quiet /\ ~hurt /\ (\E p \in Procs : proc[p].ret = "ok") =>
       name # 0 /\ \E p \in Procs : file[name].data = Whole(p))

\* What fffile_readwhole() returns with success was written by one process
\* only, if the writers truncate or create the file and none has failed; if
\* nobody else was active meanwhile, it is the whole file.
ReadsOneVersion ==
  \A p \in Procs :
    proc[p].op = "readwhole" /\ proc[p].at = "idle" /\ proc[p].ret = "ok" =>
      /\ ~hurt /\ (\A c \in calls : c.op = "writewhole" => OpenFlags(c) \cap {"trunc", "new"} # {}) =>
           \A i, j \in DOMAIN proc[p].got : proc[p].got[i] = proc[p].got[j]
      /\ (Quiet /\ p \in alone) => name # 0 /\ proc[p].got = file[name].data

\* A path of directories is made by several processes at once: if nothing is
\* removed, everyone who returns finds all of them, and only Windows reports
\* an error, when the last one existed already (dir.h:181-209, 35-72).
PathMade ==
  "remove_dir" \notin Ops(calls) =>
    \A p \in Procs :
      proc[p].op \in {"make_all", "make_path"} /\ proc[p].at = "idle" =>
        /\ 1 .. (IF proc[p].op = "make_all" THEN Depth ELSE Depth - 1) \subseteq dirs
        /\ proc[p].ret = "ok" \/ os = "windows"
=============================================================================
