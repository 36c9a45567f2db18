---------------------------- MODULE FilesProofs ----------------------------
(***************************************************************************)
(* Proofs about Files: for any number of processes and calls, and any      *)
(* depth of directories.  Shape says what descriptors, names and calls are *)
(* like at any time; each property has an invariant of its own on top.     *)
(***************************************************************************)
EXTENDS Files, SequenceTheorems, TLAPS

Authors == Procs \cup {"none"}
File    == [by : Authors, data : Seq(Authors)]
FileOps == {"writewhole", "readwhole", "createtemp"}
DirOps  == {"make_all", "make_path", "remove_dir"}
Holding == {"write", "size", "read", "close", "unlink"}

State ==
  [op : FileOps \cup DirOps \cup {"none"}, flags : SUBSET {"create", "new", "trunc", "noatime"},
   at : {"idle", "open", "open2", "remove"} \cup Holding \cup DirOps,
   fd : Nat, size : Nat, got : Seq(Authors), level : Nat, ret : {"none", "ok", "fail"}]

\* What a process does belongs to the function it called.
Belongs(s) ==
  /\ s.at \in {"write", "remove"} => s.op = "writewhole"
  /\ s.at \in {"size", "read"} => s.op = "readwhole"
  /\ s.at = "unlink" => s.op = "createtemp" /\ os # "windows"
  /\ s.at \in {"open", "open2", "close"} => s.op \in FileOps
  /\ s.at \in DirOps => s.op = s.at
  /\ s.at # "idle" /\ s.op \in DirOps => s.at = s.op
  /\ s.at = "open2" => "new" \notin s.flags
  /\ s.fd # 0 <=> s.at \in Holding
  /\ s.op # "none" =>
       \E c \in calls : c.op = s.op /\ OpenFlags(c) \ {"noatime"} = s.flags \ {"noatime"}

Shape ==
  /\ os \in Systems /\ calls \in Scenarios
  /\ file \in Seq(File) /\ name \in 0..Len(file) /\ pend \subseteq 1..Len(file)
  /\ os # "windows" => pend = {}
  /\ hurt \in BOOLEAN /\ alone \subseteq Procs
  /\ proc \in [Procs -> State]
  /\ \A p \in Procs : Belongs(proc[p]) /\ proc[p].fd \in 0..Len(file)

\* The flags FFFILE_CREATENEW and FFFILE_TRUNCATE are not used together on Windows,
\* where they mean FFFILE_TRUNCATE.
NewIsNew ==
  "windows" \in Systems => \A s \in Scenarios : \A c \in s : ~({"new", "trunc"} \subseteq OpenFlags(c))

\* The directories before the next one exist.
PathInv ==
  /\ "remove_dir" \notin Ops(calls) =>
       \A p \in Procs : proc[p].at \in {"make_all", "make_path"} =>
         /\ 1 <= proc[p].level
         /\ proc[p].level <= (IF proc[p].at = "make_all" THEN Depth ELSE Depth - 1)
         /\ 1 .. (proc[p].level - 1) \subseteq dirs
  /\ PathMade

\* Everyone creates the file exclusively.  A process that has created it and not
\* given it up owns the name.
Exclusive == \A c \in calls : c.op \in {"writewhole", "createtemp"} => "new" \in OpenFlags(c)
Owner(s) ==
  \/ s.op = "writewhole" /\ s.at \in {"write", "close", "remove"}
  \/ s.op = "writewhole" /\ s.at = "idle" /\ s.ret = "ok"
  \/ s.op = "createtemp" /\ s.at = "unlink"
  \/ s.op = "createtemp" /\ s.at = "close" /\ os = "windows"
Owns(p) ==
  /\ name # 0 /\ name \notin pend /\ file[name].by = p
  /\ proc[p].fd # 0 => proc[p].fd = name
  /\ proc[p].at = "write" => file[name].data = << >>
  /\ proc[p].op = "writewhole" /\ proc[p].at \in {"close", "idle"} /\ proc[p].ret = "ok" =>
       file[name].data = Whole(p)
KeptInv == Exclusive => \A p \in Procs : Owner(proc[p]) => Owns(p)

\* Everyone overwrites the file and nobody failed: there is one file, and it has the
\* data of the last writer, or a writer is about to write.
Overwriting == \A c \in calls : c.op = "writewhole" /\ "trunc" \in OpenFlags(c)
Written == name # 0 /\ \/ \E p \in Procs : file[name].data = Whole(p)
                       \/ \E p \in Procs : proc[p].at = "write"
WinsInv ==
  Overwriting /\ ~hurt =>
    /\ pend = {}
    /\ \A p \in Procs :
         /\ proc[p].at # "remove"
         /\ proc[p].fd # 0 => proc[p].fd = name
         /\ proc[p].at = "write" => Len(file[name].data) <= 2
    /\ (\E p \in Procs : proc[p].ret = "ok") => Written

\* Nobody writes over the old data and nobody failed: each file has one author.
Uniform(s) == \A i, j \in DOMAIN s : s[i] = s[j]
Replacing == \A c \in calls : c.op = "writewhole" => OpenFlags(c) \cap {"trunc", "new"} # {}
VersionInv ==
  Replacing /\ ~hurt =>
    /\ \A i \in 1..Len(file) : Uniform(file[i].data)
    /\ \A p \in Procs : /\ Uniform(proc[p].got)
                        /\ proc[p].at = "write" => Len(file[proc[p].fd].data) <= 2

\* A process that is alone has what it read.
Undisturbed(p) ==
  /\ \A q \in Procs \ {p} : proc[q].at = "idle"
  /\ proc[p].op = "readwhole" =>
       /\ proc[p].at \in {"size", "read", "close"} => proc[p].fd = name /\ name \notin pend
       /\ proc[p].at = "read" => proc[p].size = Len(file[name].data)
       /\ proc[p].at \in {"close", "idle"} /\ proc[p].ret = "ok" =>
            name # 0 /\ proc[p].got = file[name].data
AloneInv == \A p \in alone : Undisturbed(p)

-----------------------------------------------------------------------------
(* What each operation does to the process and to the files                *)

\* Only p does something.
OnlyOf(p) == proc' \in [Procs -> State] /\ \A q \in Procs : q # p => proc'[q] = proc[q]

\* A step that stores one process's record leaves the others' alone.
LEMMA Updated ==
  ASSUME Shape, NEW p \in Procs, NEW r \in State, proc' = [proc EXCEPT ![p] = r]
  PROVE  OnlyOf(p) /\ proc'[p] = r
BY Zenon DEF Shape, OnlyOf

\* The contents at first, and what a process writes.
LEMMA Contents ==
  /\ Old \in Seq(Authors) /\ Uniform(Old)
  /\ << >> \in Seq(Authors) /\ Uniform(<< >>)
  /\ \A p \in Procs : Whole(p) \in Seq(Authors) /\ Len(Whole(p)) = 2 /\ Uniform(Whole(p))
                      /\ Whole(p)[1] = p /\ Whole(p)[2] = p
<1>1. Old \in Seq({"none"})
  BY Zenon, FilesAssumption
<1>2. Uniform(Old)
  <2>1. \A i \in DOMAIN Old : Old[i] = "none"
    BY <1>1
  <2> QED
    BY Zenon, <2>1 DEF Uniform
<1>3. Old \in Seq(Authors)
  <2>1. {"none"} \subseteq Authors
    BY Zenon DEF Authors
  <2>2. \A i \in 1..Len(Old) : Old[i] \in Authors
    BY <1>1, <2>1
  <2> QED
    BY <1>1, <2>2
<1> QED
  BY <1>2, <1>3 DEF Authors, Uniform, Whole

\* A call: what the function is to do, and with which flags.
LEMMA CallEffect ==
  ASSUME Shape, NEW p \in Procs, Call(p)
  PROVE  /\ OnlyOf(p) /\ proc[p].at = "idle" /\ UNCHANGED <<os, calls, fileVars, dirs>>
         /\ \E c \in calls :
              /\ proc'[p].op = c.op /\ proc'[p].flags = OpenFlags(c)
              /\ proc'[p].at = IF c.op \in DirOps THEN c.op ELSE "open"
         /\ proc'[p].fd = 0 /\ proc'[p].got = << >> /\ proc'[p].level = 1 /\ proc'[p].ret = "none"
         /\ alone' = IF \A q \in Procs : proc[q].at = "idle" THEN {p} ELSE {}
<1>1. PICK c \in calls :
        proc' = [proc EXCEPT ![p] = [Idle EXCEPT !.op = c.op, !.flags = OpenFlags(c),
                  !.at = IF c.op \in {"make_all", "make_path", "remove_dir"} THEN c.op ELSE "open",
                  !.level = 1]]
  BY Zenon DEF Call
<1> DEFINE r == [Idle EXCEPT !.op = c.op, !.flags = OpenFlags(c),
                  !.at = IF c.op \in {"make_all", "make_path", "remove_dir"} THEN c.op ELSE "open",
                  !.level = 1]
<1>2. c.op \in FileOps \cup DirOps /\ OpenFlags(c) \subseteq {"create", "new", "trunc", "noatime"}
  <2>1. calls \in Scenarios
    BY Zenon DEF Shape
  <2>2. c.op \in FileOps \cup DirOps /\ c.flags \subseteq {"create", "new", "trunc", "noatime"}
    BY Zenon, <2>1, FilesAssumption DEF FileOps, DirOps
  <2> QED
    BY Zenon, <2>2 DEF OpenFlags
<1>3. /\ r.op = c.op /\ r.flags = OpenFlags(c) /\ r.at = IF c.op \in DirOps THEN c.op ELSE "open"
      /\ r.fd = 0 /\ r.size = 0 /\ r.got = << >> /\ r.level = 1 /\ r.ret = "none"
  BY Zenon DEF Idle, DirOps
<1>4. r \in State
  <2>1. Idle \in State
    BY Zenon, Contents DEF Idle, State
  <2> DEFINE a == IF c.op \in {"make_all", "make_path", "remove_dir"} THEN c.op ELSE "open"
  <2>2. a \in {"idle", "open", "open2", "remove"} \cup Holding \cup DirOps
    BY Zenon DEF DirOps
  <2> HIDE DEF a
  <2>3. [Idle EXCEPT !.op = c.op, !.flags = OpenFlags(c), !.at = a, !.level = 1] \in State
    BY Zenon, <1>2, <2>1, <2>2 DEF State
  <2> QED
    BY Zenon, <2>3 DEF a
<1>5. proc' = [proc EXCEPT ![p] = r]
  BY Zenon, <1>1
<1> HIDE DEF r
<1>6. OnlyOf(p) /\ proc'[p] = r
  BY Zenon, <1>4, <1>5, Updated
<1> QED
  BY Zenon, <1>3, <1>6 DEF Call

\* Results of opening.
Held(p) ==
  /\ name' # 0 /\ name' \notin pend /\ proc'[p].fd = name'
  /\ proc'[p].ret = proc[p].ret /\ proc'[p].flags = proc[p].flags
  /\ proc'[p].at = AfterOpen(p)
Created(p) ==
  /\ name = 0 /\ name' = Len(file) + 1 /\ file' = Append(file, [by |-> p, data |-> << >>])
  /\ Held(p)
Existing(p) ==
  /\ name # 0 /\ name' = name /\ file' = file
  /\ "new" \notin proc[p].flags /\ "trunc" \notin proc[p].flags
  /\ Held(p)
Emptied(p) ==
  /\ name # 0 /\ name' = name /\ file' = [file EXCEPT ![name].data = << >>]
  /\ "trunc" \in proc[p].flags /\ (os # "windows" => "new" \notin proc[p].flags)
  /\ Held(p)
NotOpened(p) ==
  /\ name' = name /\ file' = file
  /\ proc'[p].fd = 0 /\ proc'[p].at = "idle" /\ proc'[p].ret = "fail" /\ proc'[p].flags = proc[p].flags
OpenAgain(p) ==
  /\ name' = name /\ file' = file
  /\ proc'[p].fd = 0 /\ proc'[p].at \in {"open", "open2"} /\ proc'[p].ret = proc[p].ret
  /\ proc'[p].at = "open2" => "new" \notin proc[p].flags
  /\ proc'[p].flags \ {"noatime"} = proc[p].flags \ {"noatime"}

\* A descriptor in the record of the process.
LEMMA OpenedEffect ==
  ASSUME Shape, NEW p \in Procs, proc[p].op \in FileOps, NEW i \in Nat \ {0}, Opened(p, i, AfterOpen(p))
  PROVE  /\ OnlyOf(p) /\ proc'[p].fd = i /\ proc'[p].at = AfterOpen(p)
         /\ proc'[p].op = proc[p].op /\ proc'[p].flags = proc[p].flags /\ proc'[p].ret = proc[p].ret
         /\ proc'[p].got = proc[p].got
<1> DEFINE r == [proc[p] EXCEPT !.fd = i, !.at = AfterOpen(p)]
<1>1. proc[p] \in State
  BY Zenon DEF Shape
<1>2. AfterOpen(p) \in Holding
  BY Zenon DEF AfterOpen, FileOps, Holding
<1>3. r \in State
  BY Zenon, <1>1, <1>2 DEF State
<1>4. proc' = [proc EXCEPT ![p] = r]
  BY Zenon DEF Opened, Shape
<1>5. OnlyOf(p) /\ proc'[p] = r
  BY Zenon, <1>3, <1>4, Updated
<1> QED
  BY Zenon, <1>1, <1>5 DEF State

\* A return.
LEMMA ReturnEffect ==
  ASSUME Shape, NEW p \in Procs, NEW x \in {"none", "ok", "fail"}, Return(p, x)
  PROVE  /\ OnlyOf(p) /\ proc'[p].fd = 0 /\ proc'[p].at = "idle" /\ proc'[p].ret = x
         /\ proc'[p].op = proc[p].op /\ proc'[p].flags = proc[p].flags /\ proc'[p].got = proc[p].got
<1> DEFINE r == [proc[p] EXCEPT !.at = "idle", !.ret = x, !.fd = 0]
<1>1. proc[p] \in State
  BY Zenon DEF Shape
<1>2. r \in State
  BY Zenon, <1>1 DEF State
<1>3. proc' = [proc EXCEPT ![p] = r]
  BY Zenon DEF Return, Shape
<1>4. OnlyOf(p) /\ proc'[p] = r
  BY Zenon, <1>2, <1>3, Updated
<1> QED
  BY Zenon, <1>1, <1>4 DEF State

\* Another step of the same function.
LEMMA GoEffect ==
  ASSUME Shape, NEW p \in Procs, NEW x \in {"idle", "open", "open2", "remove"} \cup Holding \cup DirOps, Go(p, x)
  PROVE  /\ OnlyOf(p) /\ proc'[p].at = x /\ proc'[p].fd = proc[p].fd /\ proc'[p].ret = proc[p].ret
         /\ proc'[p].op = proc[p].op /\ proc'[p].flags = proc[p].flags /\ proc'[p].got = proc[p].got
<1> DEFINE r == [proc[p] EXCEPT !.at = x]
<1>1. proc[p] \in State
  BY Zenon DEF Shape
<1>2. r \in State
  BY Zenon, <1>1 DEF State
<1>3. proc' = [proc EXCEPT ![p] = r]
  BY Zenon DEF Go, Shape
<1>4. OnlyOf(p) /\ proc'[p] = r
  BY Zenon, <1>2, <1>3, Updated
<1> QED
  BY Zenon, <1>1, <1>4 DEF State

\* Opening, on any system and with any flags, in one of five ways.
LEMMA OpenEffect ==
  ASSUME Shape, NEW p \in Procs, Open(p)
  PROVE  /\ OnlyOf(p) /\ proc[p].at \in {"open", "open2"} /\ proc[p].op \in FileOps
         /\ UNCHANGED <<os, calls, pend, dirs, left, alone, hurt>>
         /\ proc'[p].op = proc[p].op /\ proc'[p].got = proc[p].got
         /\ Created(p) \/ Existing(p) \/ Emptied(p) \/ NotOpened(p) \/ OpenAgain(p)
<1> DEFINE at == AfterOpen(p)
           Result == /\ OnlyOf(p) /\ proc'[p].op = proc[p].op /\ proc'[p].got = proc[p].got
                     /\ Created(p) \/ Existing(p) \/ Emptied(p) \/ NotOpened(p) \/ OpenAgain(p)
           flags == proc[p].flags
<1>1. /\ proc[p].at \in {"open", "open2"} /\ proc[p].op \in FileOps /\ proc[p] \in State
      /\ proc[p].fd = 0 /\ (proc[p].at = "open2" => "new" \notin flags)
      /\ UNCHANGED <<os, calls, pend, dirs, left, alone, hurt>>
  BY Zenon DEF Open, Shape, Belongs, Holding
<1>2. name \in Nat /\ Len(file) \in Nat /\ (os # "windows" => pend = {}) /\ pend \subseteq 1..Len(file) /\ file \in Seq(File)
  BY DEF Shape
<1>3. ASSUME OpenExisting(p, at), name \notin pend, "new" \notin flags, "trunc" \notin flags PROVE Result
  <2>1. name # 0 /\ name' = name /\ file' = file /\ Opened(p, name, AfterOpen(p))
    BY Zenon, <1>3 DEF OpenExisting
  <2> QED
    BY Zenon, <1>1, <1>2, <1>3, <2>1, OpenedEffect DEF Existing, Held
<1>4. ASSUME OpenEmptied(p, at), name \notin pend, "trunc" \in flags, os # "windows" => "new" \notin flags PROVE Result
  <2>1. name # 0 /\ name' = name /\ file' = [file EXCEPT ![name].data = << >>] /\ Opened(p, name, AfterOpen(p))
    BY Zenon, <1>4 DEF OpenEmptied
  <2> QED
    BY <1>1, <1>2, <1>4, <2>1, OpenedEffect DEF Emptied, Held
<1>5. ASSUME OpenCreated(p, at) PROVE Result
  <2>1. name = 0 /\ file' = Append(file, [by |-> p, data |-> << >>]) /\ name' = Len(file')
        /\ Opened(p, name', AfterOpen(p))
    BY Zenon, <1>5 DEF OpenCreated
  <2>2. name' = Len(file) + 1
    BY <1>2, <2>1, AppendProperties
  <2>3. name' \in Nat \ {0} /\ name' \notin pend
    BY <1>2, <2>2
  <2> QED
    BY Zenon, <1>1, <2>1, <2>2, <2>3, OpenedEffect DEF Created, Held
<1>6. ASSUME Refused(p) PROVE Result
  BY Zenon, <1>6, ReturnEffect DEF Refused, NotOpened
<1> HIDE DEF Result, at
<1>7. ASSUME proc[p].at = "open" /\ os # "windows" /\ fffile_open_unix(p, at) PROVE Result
  <2>1. CASE open(p, flags, at)
    BY Zenon, <1>2, <1>3, <1>4, <1>5, <1>6, <1>7, <2>1 DEF open
  <2>2. CASE /\ proc' = [proc EXCEPT ![p].flags = @ \ {"noatime"}]
             /\ UNCHANGED <<name, file>>
    <3> DEFINE r == [proc[p] EXCEPT !.flags = @ \ {"noatime"}]
    <3>1. r \in State
      BY Zenon, <1>1 DEF State
    <3>2. proc' = [proc EXCEPT ![p] = r]
      BY Zenon, <2>2 DEF Shape
    <3>3. OnlyOf(p) /\ proc'[p] = r
      BY Zenon, <3>1, <3>2, Updated
    <3>4. /\ r.op = proc[p].op /\ r.got = proc[p].got /\ r.fd = 0 /\ r.at = "open" /\ r.ret = proc[p].ret
          /\ r.flags \ {"noatime"} = proc[p].flags \ {"noatime"}
      BY Zenon, <1>1, <1>7 DEF State
    <3> HIDE DEF r
    <3> QED
      BY Zenon, <2>2, <3>3, <3>4 DEF Result, OpenAgain
  <2> QED
    BY Zenon, <1>7, <2>1, <2>2 DEF fffile_open_unix
<1>8. ASSUME proc[p].at = "open" /\ os = "windows" /\ fffile_open_win(p, at) PROVE Result
  <2>1. creation(flags) \in {"OPEN_EXISTING", "OPEN_ALWAYS"} => "new" \notin flags /\ "trunc" \notin flags
    BY Zenon DEF creation
  <2>2. creation(flags) = "TRUNCATE_EXISTING" => "trunc" \in flags
    BY Zenon DEF creation
  <2>3. ASSUME IF {"trunc", "create"} \subseteq flags /\ "new" \notin flags
               THEN Go(p, "open2") /\ UNCHANGED <<name, file>>
               ELSE Refused(p)
        PROVE  Result
    <3>1. CASE "new" \notin flags /\ Go(p, "open2") /\ UNCHANGED <<name, file>>
      BY Zenon, <1>1, <3>1, GoEffect DEF Result, OpenAgain
    <3> QED
      BY Zenon, <1>6, <2>3, <3>1
  <2> QED
    BY Zenon, <1>3, <1>4, <1>5, <1>6, <1>8, <2>1, <2>2, <2>3 DEF fffile_open_win, CreateFileW
<1>9. ASSUME proc[p].at = "open2" /\ fffile_open_win_second(p, at) PROVE Result
  BY Zenon, <1>5, <1>6, <1>9 DEF fffile_open_win_second, CreateFileW
<1>10. Result
  BY Zenon, <1>7, <1>8, <1>9 DEF Open, at
<1> QED
  BY Zenon, <1>1, <1>10 DEF Result

\* Writing: everything, or less and the writer failed.
LEMMA WriteEffect ==
  ASSUME Shape, NEW p \in Procs, write(p)
  PROVE  /\ OnlyOf(p) /\ proc[p].at = "write" /\ proc[p].op = "writewhole" /\ proc[p].fd \in 1..Len(file)
         /\ UNCHANGED <<os, calls, name, pend, dirs, left, alone>>
         /\ proc'[p].op = proc[p].op /\ proc'[p].flags = proc[p].flags /\ proc'[p].got = proc[p].got
         /\ proc'[p].fd = proc[p].fd /\ proc'[p].at = "close" /\ proc'[p].ret \in {"ok", "fail"}
         /\ file' \in Seq(File) /\ Len(file') = Len(file)
         /\ \A i \in 1..Len(file) : file'[i].by = file[i].by /\ (i # proc[p].fd => file'[i] = file[i])
         /\ hurt' \in BOOLEAN /\ (hurt => hurt')
         /\ (proc'[p].ret = "ok" \/ ~hurt') /\ Len(file[proc[p].fd].data) <= 2 =>
              file'[proc[p].fd].data = Whole(p)
<1> DEFINE i == proc[p].fd
           old == file[i].data
           w == Whole(p)
<1>1. /\ proc[p].at = "write" /\ proc[p].op = "writewhole" /\ i \in 1..Len(file) /\ proc[p] \in State
      /\ UNCHANGED <<os, calls, name, pend, dirs, left, alone>>
  BY DEF write, Shape, Belongs, Holding
<1>2. file \in Seq(File) /\ Len(file) \in Nat /\ file[i] \in File /\ hurt \in BOOLEAN
  BY <1>1 DEF Shape
<1>3. old \in Seq(Authors) /\ Len(old) \in Nat
  BY <1>2 DEF File
<1>4. w \in Seq(Authors) /\ Len(w) = 2 /\ DOMAIN w = 1..2 /\ w[1] = p /\ w[2] = p
  BY Contents
<1>5. PICK n \in 0 .. Len(w) :
        /\ file' = [file EXCEPT ![i].data =
             [j \in 1 .. (IF Len(old) > n THEN Len(old) ELSE n) |-> IF j <= n THEN w[j] ELSE old[j]]]
        /\ proc' = [proc EXCEPT ![p].at = "close", ![p].ret = IF n = Len(w) THEN "ok" ELSE "fail"]
        /\ hurt' = (hurt \/ n < Len(w))
  BY Zenon DEF write
<1> DEFINE m == IF Len(old) > n THEN Len(old) ELSE n
           new == [j \in 1 .. m |-> IF j <= n THEN w[j] ELSE old[j]]
           r == [proc[p] EXCEPT !.at = "close", !.ret = IF n = Len(w) THEN "ok" ELSE "fail"]
<1> HIDE DEF w
<1>6. n \in 0..2 /\ m \in Nat /\ n <= m /\ Len(old) <= m /\ (Len(old) <= 2 /\ n = 2 => m = 2) /\ (m > n => m = Len(old))
  BY <1>3, <1>4
<1>7. new \in Seq(Authors)
  <2>1. \A j \in 1..m : (IF j <= n THEN w[j] ELSE old[j]) \in Authors
    <3> TAKE j \in 1..m
    <3>1. CASE j <= n
      <4>1. j \in 1..Len(w)
        BY <1>4, <1>6, <3>1
      <4> QED
        BY <1>4, <3>1, <4>1
    <3>2. CASE ~(j <= n)
      <4>1. j \in 1..Len(old)
        BY <1>3, <1>6, <3>2
      <4> QED
        BY <1>3, <3>2, <4>1
    <3> QED
      BY Zenon, <3>1, <3>2
  <2> HIDE DEF m, old
  <2> QED
    BY <1>6, <2>1
<1>8. n = 2 /\ Len(old) <= 2 => new = w
  <2> SUFFICES ASSUME n = 2, Len(old) <= 2 PROVE new = w
    BY Zenon
  <2>1. m = 2
    BY Zenon, <1>6
  <2> HIDE DEF m, old
  <2>2. DOMAIN new = 1..2 /\ new[1] = w[1] /\ new[2] = w[2]
    BY <2>1
  <2>3. Len(new) = 2 /\ new \in Seq(Authors)
    BY <1>6, <1>7, <2>1, <2>2
  <2> HIDE DEF new
  <2> QED
    BY <1>4, <2>2, <2>3
<1>9. /\ file' \in Seq(File) /\ Len(file') = Len(file) /\ file'[i].data = new
      /\ \A k \in 1..Len(file) : file'[k].by = file[k].by /\ (k # i => file'[k] = file[k])
  <2>1. file' = [file EXCEPT ![i] = [file[i] EXCEPT !.data = new]]
    BY Zenon, <1>5
  <2> HIDE DEF new, i
  <2>2. [file[i] EXCEPT !.data = new] \in File /\ [file[i] EXCEPT !.data = new].by = file[i].by
        /\ [file[i] EXCEPT !.data = new].data = new
    BY Zenon, <1>2, <1>7 DEF File
  <2> QED
    BY <1>1, <1>2, <2>1, <2>2, ExceptSeq
<1>10. OnlyOf(p) /\ proc'[p] = r
  <2>1. r \in State
    BY Zenon, <1>1 DEF State, Holding
  <2>2. proc' = [proc EXCEPT ![p] = r]
    BY Zenon, <1>5 DEF Shape
  <2> HIDE DEF r
  <2> QED
    BY Zenon, <2>1, <2>2, Updated
<1>11. /\ r.op = proc[p].op /\ r.flags = proc[p].flags /\ r.got = proc[p].got /\ r.fd = i /\ r.at = "close"
       /\ r.ret \in {"ok", "fail"} /\ (r.ret = "ok" => n = 2)
  BY Zenon, <1>1, <1>4 DEF State
<1>12. hurt' \in BOOLEAN /\ (hurt => hurt') /\ (~hurt' => n = 2)
  <2> DEFINE less == n < Len(w)
  <2>1. less \in BOOLEAN /\ (~less => n = 2)
    BY <1>4, <1>6
  <2>2. hurt' = (hurt \/ less)
    BY Zenon, <1>5
  <2> HIDE DEF less
  <2> QED
    BY Zenon, <1>2, <2>1, <2>2
<1> QED
  <2> HIDE DEF r, new, i, old
  <2>1. (proc'[p].ret = "ok" \/ ~hurt') /\ Len(old) <= 2 => file'[i].data = w
    BY Zenon, <1>8, <1>9, <1>10, <1>11, <1>12
  <2> QED
    BY Zenon, <1>1, <1>9, <1>10, <1>11, <1>12, <2>1 DEF w, old, i

\* fffile_size() of the file that is open.
LEMMA SizeEffect ==
  ASSUME Shape, NEW p \in Procs, size(p)
  PROVE  /\ OnlyOf(p) /\ proc[p].at = "size" /\ proc[p].op = "readwhole" /\ proc[p].fd \in 1..Len(file)
         /\ UNCHANGED <<os, calls, fileVars, dirs, left, alone>>
         /\ proc'[p].op = proc[p].op /\ proc'[p].flags = proc[p].flags /\ proc'[p].got = proc[p].got
         /\ proc'[p].fd = proc[p].fd /\ proc'[p].at \in {"read", "close"} /\ proc'[p].ret = "fail"
         /\ proc'[p].size = Len(file[proc[p].fd].data)
<1> DEFINE n == Len(file[proc[p].fd].data)
           r == [proc[p] EXCEPT !.size = n, !.at = IF n > Limit THEN "close" ELSE "read", !.ret = "fail"]
<1>1. /\ proc[p].at = "size" /\ proc[p].op = "readwhole" /\ proc[p].fd \in 1..Len(file) /\ proc[p] \in State
      /\ UNCHANGED <<os, calls, fileVars, dirs, left, alone>>
  BY DEF size, Shape, Belongs, Holding
<1>2. file[proc[p].fd] \in File
  BY <1>1 DEF Shape
<1>3. n \in Nat
  BY <1>2 DEF File
<1>4. proc' = [proc EXCEPT ![p] = r]
  BY Zenon DEF size, Shape
<1> HIDE DEF n
<1>5. r \in State
  BY Zenon, <1>1, <1>3 DEF State, Holding
<1>6. OnlyOf(p) /\ proc'[p] = r
  BY Zenon, <1>4, <1>5, Updated
<1> QED
  BY Zenon, <1>1, <1>6 DEF n, State

\* Reading: a beginning of the file; all that fffile_size() told, for success.
LEMMA ReadEffect ==
  ASSUME Shape, NEW p \in Procs, read(p)
  PROVE  /\ OnlyOf(p) /\ proc[p].at = "read" /\ proc[p].op = "readwhole" /\ proc[p].fd \in 1..Len(file)
         /\ UNCHANGED <<os, calls, fileVars, dirs, left, alone>>
         /\ proc'[p].op = proc[p].op /\ proc'[p].flags = proc[p].flags
         /\ proc'[p].fd = proc[p].fd /\ proc'[p].at = "close" /\ proc'[p].ret \in {"ok", "fail"}
         /\ Uniform(file[proc[p].fd].data) => Uniform(proc'[p].got)
         /\ proc'[p].ret = "ok" /\ proc[p].size = Len(file[proc[p].fd].data) =>
              proc'[p].got = file[proc[p].fd].data
<1> DEFINE d == file[proc[p].fd].data
<1>1. /\ proc[p].at = "read" /\ proc[p].op = "readwhole" /\ proc[p].fd \in 1..Len(file) /\ proc[p] \in State
      /\ UNCHANGED <<os, calls, fileVars, dirs, left, alone>>
  BY DEF read, Shape, Belongs, Holding
<1>2. file[proc[p].fd] \in File /\ proc[p].size \in Nat
  BY <1>1 DEF Shape, State
<1>3. d \in Seq(Authors) /\ Len(d) \in Nat
  BY <1>2 DEF File
<1>4. PICK n \in 0 .. (IF Len(d) < proc[p].size THEN Len(d) ELSE proc[p].size) :
        proc' = [proc EXCEPT ![p].at = "close", ![p].got = SubSeq(d, 1, n),
                   ![p].ret = IF n = proc[p].size THEN "ok" ELSE "fail"]
  BY Zenon DEF read
<1> DEFINE g == SubSeq(d, 1, n)
           r == [proc[p] EXCEPT !.at = "close", !.got = g, !.ret = IF n = proc[p].size THEN "ok" ELSE "fail"]
<1>5. n \in 0..Len(d)
  BY <1>2, <1>3
<1> HIDE DEF d
<1>6. g \in Seq(Authors) /\ Len(g) = n /\ DOMAIN g = 1..n /\ \A j \in 1..n : g[j] = d[j] /\ j \in DOMAIN d
  BY <1>3, <1>5
<1>7. proc' = [proc EXCEPT ![p] = r]
  BY Zenon, <1>4 DEF Shape
<1> HIDE DEF g
<1>8. r \in State
  BY Zenon, <1>1, <1>6 DEF State, Holding
<1>9. OnlyOf(p) /\ proc'[p] = r
  BY Zenon, <1>7, <1>8, Updated
<1>10. Uniform(d) => Uniform(g)
  BY Zenon, <1>6 DEF Uniform
<1>11. n = Len(d) => g = d
  BY <1>3, <1>6
<1>12. /\ r.op = proc[p].op /\ r.flags = proc[p].flags /\ r.fd = proc[p].fd /\ r.at = "close" /\ r.got = g
       /\ r.ret \in {"ok", "fail"} /\ (r.ret = "ok" => n = proc[p].size)
  BY Zenon, <1>1 DEF State
<1> QED
  <2> HIDE DEF r
  <2> QED
    BY Zenon, <1>1, <1>9, <1>10, <1>11, <1>12 DEF d

\* Closing: the name goes with it only if it is the name of this very file, and the
\* file was deleted before or is a temporary one on Windows.
LEMMA CloseEffect ==
  ASSUME Shape, NEW p \in Procs, Close(p)
  PROVE  /\ OnlyOf(p) /\ proc[p].at = "close" /\ proc[p].op \in FileOps /\ proc[p].fd \in 1..Len(file)
         /\ UNCHANGED <<os, calls, file, dirs, left, alone>>
         /\ proc'[p].op = proc[p].op /\ proc'[p].flags = proc[p].flags /\ proc'[p].got = proc[p].got
         /\ proc'[p].fd = 0
         /\ \/ proc'[p].at = "idle" /\ proc[p].op = "readwhole" /\ proc'[p].ret = proc[p].ret
            \/ proc'[p].at = "idle" /\ proc[p].op = "createtemp"
            \/ proc'[p].at = "idle" /\ proc[p].op = "writewhole" /\ proc[p].ret = "ok" /\ proc'[p].ret = "ok"
            \/ proc'[p].at = "remove" /\ proc[p].op = "writewhole" /\ hurt'
         /\ hurt' \in BOOLEAN /\ (hurt => hurt')
         /\ name' \in {0, name} /\ (proc[p].fd # name => name' = name)
         /\ pend' \subseteq 1..Len(file) /\ (os # "windows" => pend' = {})
         /\ proc[p].fd \notin pend /\ (os # "windows" \/ proc[p].op # "createtemp") =>
              name' = name /\ pend' = pend
         /\ proc[p].fd \in pend => pend' = pend
<1>1. /\ proc[p].at = "close" /\ proc[p].op \in FileOps /\ proc[p].fd \in 1..Len(file) /\ proc[p] \in State
      /\ UNCHANGED <<os, calls, file, dirs, left, alone>> /\ pend \subseteq 1..Len(file)
      /\ (os # "windows" => pend = {}) /\ hurt \in BOOLEAN
  BY DEF Close, Shape, Belongs, Holding
<1>2. /\ name' \in {0, name} /\ (proc[p].fd # name => name' = name)
      /\ pend' \subseteq 1..Len(file) /\ (os # "windows" => pend' = {})
      /\ proc[p].fd \notin pend /\ (os # "windows" \/ proc[p].op # "createtemp") => name' = name /\ pend' = pend
      /\ proc[p].fd \in pend => pend' = pend
  BY Zenon, <1>1 DEF Close, fffile_close, Unnamed
<1>3. hurt' = (hurt \/ proc'[p].at = "remove")
  BY Zenon DEF Close
<1>4. CASE proc[p].op # "writewhole" /\ Return(p, IF proc[p].op = "readwhole" THEN proc[p].ret ELSE "ok")
  <2> DEFINE x == IF proc[p].op = "readwhole" THEN proc[p].ret ELSE "ok"
  <2>1. x \in {"none", "ok", "fail"} /\ (proc[p].op = "readwhole" => x = proc[p].ret)
    BY Zenon, <1>1 DEF State
  <2>2. Return(p, x)
    BY Zenon, <1>4
  <2> HIDE DEF x
  <2>3. /\ OnlyOf(p) /\ proc'[p].fd = 0 /\ proc'[p].at = "idle" /\ proc'[p].ret = x
        /\ proc'[p].op = proc[p].op /\ proc'[p].flags = proc[p].flags /\ proc'[p].got = proc[p].got
    BY Zenon, <2>1, <2>2, ReturnEffect
  <2> QED
    BY Zenon, <1>1, <1>2, <1>3, <1>4, <2>1, <2>3 DEF FileOps
<1>5. CASE proc[p].op = "writewhole" /\ proc[p].ret = "ok" /\ Return(p, "ok")
  <2>1. /\ OnlyOf(p) /\ proc'[p].fd = 0 /\ proc'[p].at = "idle" /\ proc'[p].ret = "ok"
        /\ proc'[p].op = proc[p].op /\ proc'[p].flags = proc[p].flags /\ proc'[p].got = proc[p].got
    BY Zenon, <1>5, ReturnEffect
  <2> QED
    BY Zenon, <1>1, <1>2, <1>3, <1>5, <2>1
<1>6. CASE proc[p].op = "writewhole" /\ proc' = [proc EXCEPT ![p].at = "remove", ![p].fd = 0]
  <2> DEFINE r == [proc[p] EXCEPT !.at = "remove", !.fd = 0]
  <2>1. r \in State
    BY Zenon, <1>1 DEF State
  <2>2. proc' = [proc EXCEPT ![p] = r]
    BY Zenon, <1>6 DEF Shape
  <2>3. OnlyOf(p) /\ proc'[p] = r
    BY Zenon, <2>1, <2>2, Updated
  <2>4. r.op = proc[p].op /\ r.flags = proc[p].flags /\ r.got = proc[p].got /\ r.fd = 0 /\ r.at = "remove"
    BY Zenon, <1>1 DEF State
  <2> HIDE DEF r
  <2> QED
    BY Zenon, <1>1, <1>2, <1>3, <1>6, <2>3, <2>4
<1> QED
  BY Zenon, <1>4, <1>5, <1>6 DEF Close

\* Removal of the name by a writer that failed.
LEMMA RemoveEffect ==
  ASSUME Shape, NEW p \in Procs, Remove(p)
  PROVE  /\ OnlyOf(p) /\ proc[p].at = "remove" /\ proc[p].op = "writewhole"
         /\ UNCHANGED <<os, calls, file, dirs, left, alone, hurt>>
         /\ proc'[p].op = proc[p].op /\ proc'[p].flags = proc[p].flags /\ proc'[p].got = proc[p].got
         /\ proc'[p].fd = 0 /\ proc'[p].at = "idle" /\ proc'[p].ret = "fail"
         /\ name' \in {0, name} /\ pend' \subseteq 1..Len(file) /\ (os # "windows" => pend' = {})
<1>1. /\ proc[p].at = "remove" /\ proc[p].op = "writewhole" /\ Return(p, "fail")
      /\ UNCHANGED <<os, calls, file, dirs, left, alone, hurt>>
  BY Zenon DEF Remove, Shape, Belongs
<1>2. name' \in {0, name} /\ pend' \subseteq 1..Len(file) /\ (os # "windows" => pend' = {})
  <2>1. pend \subseteq 1..Len(file) /\ (os # "windows" => pend = {}) /\ (name # 0 => name \in 1..Len(file))
    BY DEF Shape
  <2>2. fffile_remove(p)
    BY Zenon DEF Remove
  <2> QED
    BY Zenon, <2>1, <2>2 DEF fffile_remove, Unnamed
<1> QED
  BY Zenon, <1>1, <1>2, ReturnEffect

\* A temporary file loses its name as soon as it is created.
LEMMA UnlinkEffect ==
  ASSUME Shape, NEW p \in Procs, fffile_createtemp_unix(p)
  PROVE  /\ OnlyOf(p) /\ proc[p].at = "unlink" /\ proc[p].op = "createtemp" /\ os # "windows"
         /\ UNCHANGED <<os, calls, file, pend, dirs, left, alone, hurt>>
         /\ proc'[p].op = proc[p].op /\ proc'[p].flags = proc[p].flags /\ proc'[p].got = proc[p].got
         /\ proc'[p].fd = proc[p].fd /\ proc'[p].at = "close" /\ proc'[p].ret = proc[p].ret
         /\ name' = 0
<1>1. /\ proc[p].at = "unlink" /\ proc[p].op = "createtemp" /\ os # "windows" /\ Go(p, "close")
      /\ UNCHANGED <<os, calls, file, dirs, left, alone, hurt>>
  BY Zenon DEF fffile_createtemp_unix, Shape, Belongs
<1>2. name' = 0 /\ pend' = pend
  BY Zenon, <1>1 DEF fffile_createtemp_unix, fffile_remove
<1> QED
  BY Zenon, <1>1, <1>2, GoEffect DEF Holding

\* Directories are made and removed without touching a file.
LEMMA DirEffect ==
  ASSUME Shape, NEW p \in Procs, ffdir_make_all(p) \/ ffdir_make_path(p) \/ ffdir_remove(p)
  PROVE  /\ OnlyOf(p) /\ proc[p].at \in DirOps /\ proc[p].op = proc[p].at
         /\ UNCHANGED <<os, calls, fileVars, left, alone>>
         /\ proc'[p].op = proc[p].op /\ proc'[p].flags = proc[p].flags /\ proc'[p].got = proc[p].got
         /\ proc'[p].fd = 0 /\ proc'[p].at \in {"idle", proc[p].at}
         /\ proc'[p].at = "idle" \/ proc'[p].ret = proc[p].ret
<1>1. proc[p].at \in DirOps /\ proc[p].op = proc[p].at /\ proc[p] \in State /\ proc[p].fd = 0
  BY Zenon DEF ffdir_make_all, ffdir_make_path, ffdir_remove, DirOps, Holding, Shape, Belongs
<1>2. UNCHANGED <<os, calls, fileVars, left, alone>>
  BY Zenon DEF ffdir_make_all, ffdir_make_path, ffdir_remove, MakeNext
<1>3. ASSUME NEW x \in {"none", "ok", "fail"}, Return(p, x)
      PROVE  /\ OnlyOf(p) /\ proc'[p].op = proc[p].op /\ proc'[p].flags = proc[p].flags /\ proc'[p].got = proc[p].got
             /\ proc'[p].fd = 0 /\ proc'[p].at = "idle"
  BY Zenon, <1>3, ReturnEffect
<1>4. ASSUME NEW x \in Nat, proc' = [proc EXCEPT ![p].level = x]
      PROVE  /\ OnlyOf(p) /\ proc'[p].op = proc[p].op /\ proc'[p].flags = proc[p].flags /\ proc'[p].got = proc[p].got
             /\ proc'[p].fd = 0 /\ proc'[p].at = proc[p].at /\ proc'[p].ret = proc[p].ret
  <2> DEFINE r == [proc[p] EXCEPT !.level = x]
  <2>1. r \in State
    BY Zenon, <1>1 DEF State
  <2>2. proc' = [proc EXCEPT ![p] = r]
    BY Zenon, <1>4 DEF Shape
  <2>3. OnlyOf(p) /\ proc'[p] = r
    BY Zenon, <2>1, <2>2, Updated
  <2> QED
    BY Zenon, <1>1, <2>3 DEF State
<1>5. \/ \E x \in {"none", "ok", "fail"} : Return(p, x)
      \/ \E x \in Nat : proc' = [proc EXCEPT ![p].level = x]
  <2>1. proc[p].level + 1 \in Nat
    BY <1>1 DEF State
  <2> QED
    BY Zenon, <2>1 DEF ffdir_make_all, ffdir_make_path, ffdir_remove, MakeNext
<1> QED
  BY Zenon, <1>1, <1>2, <1>3, <1>4, <1>5

\* Every step is one of these.
LEMMA Steps ==
  ASSUME [Next]_vars
  PROVE  \/ UNCHANGED vars
         \/ \E p \in Procs :
              \/ Call(p) \/ Open(p) \/ write(p) \/ Close(p) \/ Remove(p) \/ size(p) \/ read(p)
              \/ fffile_createtemp_unix(p)
              \/ ffdir_make_all(p) \/ ffdir_make_path(p) \/ ffdir_remove(p)
BY Zenon DEF Next, Finished, fffile_writewhole, fffile_readwhole, fffile_createtemp_win

-----------------------------------------------------------------------------
(* Shape                                                                   *)

\* What a step of p must leave behind.
LEMMA ShapeFrom ==
  ASSUME Shape, NEW p \in Procs, OnlyOf(p), UNCHANGED <<os, calls>>,
         file' \in Seq(File), Len(file) <= Len(file'), name' \in 0..Len(file'),
         pend' \subseteq 1..Len(file'), os # "windows" => pend' = {},
         hurt' \in BOOLEAN, alone' \subseteq Procs,
         Belongs(proc[p])', proc'[p].fd \in 0..Len(file')
  PROVE  Shape'
<1>1. \A q \in Procs : q # p => Belongs(proc[q])' /\ proc'[q].fd \in 0..Len(file')
  <2> TAKE q \in Procs
  <2> SUFFICES ASSUME q # p PROVE Belongs(proc[q])' /\ proc'[q].fd \in 0..Len(file')
    BY Zenon
  <2>1. proc'[q] = proc[q] /\ Belongs(proc[q]) /\ proc[q].fd \in 0..Len(file) /\ Len(file) \in Nat /\ Len(file') \in Nat
    BY DEF OnlyOf, Shape
  <2>2. Belongs(proc[q])'
    BY Zenon, <2>1 DEF Belongs
  <2> QED
    BY <2>1, <2>2
<1>2. proc' \in [Procs -> State]
  BY Zenon DEF OnlyOf
<1> QED
  BY Zenon, <1>1, <1>2 DEF Shape

\* The call that a process makes stays the same until it returns.
AsCalled(s) ==
  \E c \in calls : c.op = s.op /\ OpenFlags(c) \ {"noatime"} = s.flags \ {"noatime"}

\* A process whose operation and flags stay is still doing what it was called for.
LEMMA StillAsCalled ==
  ASSUME Shape, NEW p \in Procs, UNCHANGED calls, proc'[p].op = proc[p].op,
         proc'[p].flags \ {"noatime"} = proc[p].flags \ {"noatime"}
  PROVE  proc'[p].op # "none" => AsCalled(proc[p])'
BY Zenon DEF Shape, Belongs, AsCalled

\* No operation leaves a descriptor, a name or a process in a shape it can not have.
LEMMA ShapeStep ==
  ASSUME Shape, [Next]_vars
  PROVE  Shape'
<1>0. /\ calls \in Scenarios /\ file \in Seq(File) /\ Len(file) \in Nat /\ name \in 0..Len(file)
      /\ pend \subseteq 1..Len(file) /\ (os # "windows" => pend = {}) /\ hurt \in BOOLEAN /\ alone \subseteq Procs
      /\ \A p \in Procs : Belongs(proc[p]) /\ proc[p].fd \in 0..Len(file)
  BY DEF Shape
<1>1. ASSUME NEW p \in Procs, Call(p) PROVE Shape'
  <2>1. /\ OnlyOf(p) /\ UNCHANGED <<os, calls, name, file, pend, hurt>> /\ proc'[p].fd = 0
        /\ alone' = IF \A q \in Procs : proc[q].at = "idle" THEN {p} ELSE {}
    BY Zenon, <1>1, CallEffect DEF fileVars
  <2>2. PICK c \in calls : /\ proc'[p].op = c.op /\ proc'[p].flags = OpenFlags(c)
                           /\ proc'[p].at = IF c.op \in DirOps THEN c.op ELSE "open"
    BY Zenon, <1>1, CallEffect
  <2>3. c.op \in FileOps \cup DirOps
    BY Zenon, <1>0, FilesAssumption DEF FileOps, DirOps
  <2>4. Belongs(proc[p])'
    BY Zenon, <2>1, <2>2, <2>3 DEF Belongs, FileOps, DirOps, Holding
  <2>5. alone' \subseteq Procs
    BY Zenon, <2>1
  <2> QED
    BY <1>0, <2>1, <2>4, <2>5, ShapeFrom
<1>2. ASSUME NEW p \in Procs, Open(p) PROVE Shape'
  <2>1. /\ OnlyOf(p) /\ proc[p].at \in {"open", "open2"} /\ proc[p].op \in FileOps
        /\ UNCHANGED <<os, calls, pend, dirs, left, alone, hurt>> /\ proc'[p].op = proc[p].op
        /\ Created(p) \/ Existing(p) \/ Emptied(p) \/ NotOpened(p) \/ OpenAgain(p)
    BY Zenon, <1>2, OpenEffect
  <2>2. proc'[p].flags \ {"noatime"} = proc[p].flags \ {"noatime"}
    BY Zenon, <2>1 DEF Created, Existing, Emptied, NotOpened, OpenAgain, Held
  <2>3. AsCalled(proc[p])' /\ proc'[p].op \in FileOps
    BY Zenon, <2>1, <2>2, StillAsCalled DEF FileOps
  <2>4. ASSUME Held(p) PROVE Belongs(proc[p])'
    <3>1. proc'[p].at = AfterOpen(p) /\ proc'[p].fd # 0
      BY Zenon, <2>4 DEF Held
    <3>2. \/ proc'[p].op = "writewhole" /\ proc'[p].at = "write"
          \/ proc'[p].op = "readwhole" /\ proc'[p].at = "size"
          \/ proc'[p].op = "createtemp" /\ proc'[p].at = "close"
          \/ proc'[p].op = "createtemp" /\ proc'[p].at = "unlink" /\ os' # "windows"
      BY Zenon, <2>1, <3>1 DEF AfterOpen, FileOps
    <3> QED
      BY Zenon, <2>3, <3>1, <3>2 DEF Belongs, AsCalled, FileOps, DirOps, Holding
  <2>5. CASE Created(p)
    <3>1. Held(p) /\ name' = Len(file) + 1 /\ file' = Append(file, [by |-> p, data |-> << >>]) /\ proc'[p].fd = name'
      BY Zenon, <2>5 DEF Created, Held
    <3>2. [by |-> p, data |-> << >>] \in File
      BY Zenon, Contents DEF File, Authors
    <3>3. file' \in Seq(File) /\ Len(file') = Len(file) + 1
      BY <1>0, <3>1, <3>2, AppendProperties
    <3> QED
      BY <1>0, <2>1, <2>4, <3>1, <3>3, ShapeFrom
  <2>6. CASE Existing(p)
    <3>1. Held(p) /\ name' = name /\ file' = file /\ proc'[p].fd = name
      BY Zenon, <2>6 DEF Existing, Held
    <3> QED
      BY <1>0, <2>1, <2>4, <3>1, ShapeFrom
  <2>7. CASE Emptied(p)
    <3>1. Held(p) /\ name' = name /\ name # 0 /\ file' = [file EXCEPT ![name].data = << >>] /\ proc'[p].fd = name
      BY Zenon, <2>7 DEF Emptied, Held
    <3>2. name \in 1..Len(file) /\ file[name] \in File
      BY <1>0, <3>1
    <3>3. [file[name] EXCEPT !.data = << >>] \in File
      BY Zenon, <3>2, Contents DEF File
    <3>4. file' \in Seq(File) /\ Len(file') = Len(file)
      BY <1>0, <3>1, <3>2, <3>3, ExceptSeq
    <3> QED
      BY <1>0, <2>1, <2>4, <3>1, <3>4, ShapeFrom
  <2>8. CASE NotOpened(p) \/ OpenAgain(p)
    <3>1. /\ name' = name /\ file' = file /\ proc'[p].fd = 0 /\ proc'[p].at \in {"idle", "open", "open2"}
          /\ (proc'[p].at = "open2" => "new" \notin proc'[p].flags)
      BY Zenon, <2>2, <2>8 DEF NotOpened, OpenAgain
    <3>2. Belongs(proc[p])'
      BY Zenon, <2>3, <3>1 DEF Belongs, AsCalled, FileOps, DirOps, Holding
    <3> QED
      BY <1>0, <2>1, <3>1, <3>2, ShapeFrom
  <2> QED
    BY Zenon, <2>1, <2>5, <2>6, <2>7, <2>8
<1>a. ASSUME NEW p \in Procs, OnlyOf(p), UNCHANGED <<os, calls, name, pend, alone>>,
             file' \in Seq(File), Len(file') = Len(file), hurt' \in BOOLEAN,
             proc[p].op \in FileOps, proc'[p].op = proc[p].op, proc'[p].flags = proc[p].flags,
             proc'[p].fd = proc[p].fd, proc[p].fd # 0,
             proc'[p].at = "close" \/ (proc[p].op = "readwhole" /\ proc'[p].at = "read")
      PROVE  Shape'
  <2>1. proc'[p].op # "none" => AsCalled(proc[p])'
    BY Zenon, <1>a, StillAsCalled
  <2>2. Belongs(proc[p])'
    BY Zenon, <1>a, <2>1 DEF Belongs, AsCalled, FileOps, DirOps, Holding
  <2> QED
    BY <1>0, <1>a, <2>2, ShapeFrom
<1>3. ASSUME NEW p \in Procs, write(p) PROVE Shape'
  <2>1. /\ OnlyOf(p) /\ UNCHANGED <<os, calls, name, pend, alone>>
        /\ file' \in Seq(File) /\ Len(file') = Len(file) /\ hurt' \in BOOLEAN
        /\ proc[p].op = "writewhole" /\ proc'[p].op = proc[p].op /\ proc'[p].flags = proc[p].flags
        /\ proc'[p].fd = proc[p].fd /\ proc[p].fd \in 1..Len(file) /\ proc'[p].at = "close"
    BY Zenon, <1>3, WriteEffect
  <2>2. proc[p].fd # 0 /\ proc[p].op \in FileOps
    BY <2>1 DEF FileOps
  <2> QED
    BY Zenon, <1>a, <2>1, <2>2
<1>4. ASSUME NEW p \in Procs, size(p) PROVE Shape'
  <2>1. /\ OnlyOf(p) /\ UNCHANGED <<os, calls, name, pend, alone, file, hurt>>
        /\ proc[p].op = "readwhole" /\ proc'[p].op = proc[p].op /\ proc'[p].flags = proc[p].flags
        /\ proc'[p].fd = proc[p].fd /\ proc[p].fd \in 1..Len(file) /\ proc'[p].at \in {"read", "close"}
    BY Zenon, <1>4, SizeEffect DEF fileVars
  <2>2. proc[p].fd # 0 /\ proc[p].op \in FileOps
    BY <2>1 DEF FileOps
  <2> QED
    BY Zenon, <1>0, <1>a, <2>1, <2>2
<1>5. ASSUME NEW p \in Procs, read(p) PROVE Shape'
  <2>1. /\ OnlyOf(p) /\ UNCHANGED <<os, calls, name, pend, alone, file, hurt>>
        /\ proc[p].op = "readwhole" /\ proc'[p].op = proc[p].op /\ proc'[p].flags = proc[p].flags
        /\ proc'[p].fd = proc[p].fd /\ proc[p].fd \in 1..Len(file) /\ proc'[p].at = "close"
    BY Zenon, <1>5, ReadEffect DEF fileVars
  <2>2. proc[p].fd # 0 /\ proc[p].op \in FileOps
    BY <2>1 DEF FileOps
  <2> QED
    BY Zenon, <1>0, <1>a, <2>1, <2>2
<1>6. ASSUME NEW p \in Procs, Close(p) PROVE Shape'
  <2>1. /\ OnlyOf(p) /\ proc[p].op \in FileOps /\ UNCHANGED <<os, calls, file, alone>> /\ hurt' \in BOOLEAN
        /\ proc'[p].op = proc[p].op /\ proc'[p].flags = proc[p].flags /\ proc'[p].fd = 0
        /\ proc'[p].at = "idle" \/ (proc'[p].at = "remove" /\ proc[p].op = "writewhole")
        /\ name' \in {0, name} /\ pend' \subseteq 1..Len(file) /\ (os # "windows" => pend' = {})
    BY Zenon, <1>6, CloseEffect
  <2>2. proc'[p].op # "none" => AsCalled(proc[p])'
    BY Zenon, <2>1, StillAsCalled
  <2>3. Belongs(proc[p])'
    BY Zenon, <2>1, <2>2 DEF Belongs, AsCalled, FileOps, DirOps, Holding
  <2> QED
    BY <1>0, <2>1, <2>3, ShapeFrom
<1>7. ASSUME NEW p \in Procs, Remove(p) PROVE Shape'
  <2>1. /\ OnlyOf(p) /\ UNCHANGED <<os, calls, file, alone, hurt>>
        /\ proc'[p].op = proc[p].op /\ proc'[p].flags = proc[p].flags /\ proc'[p].fd = 0 /\ proc'[p].at = "idle"
        /\ name' \in {0, name} /\ pend' \subseteq 1..Len(file) /\ (os # "windows" => pend' = {})
    BY Zenon, <1>7, RemoveEffect
  <2>2. proc'[p].op # "none" => AsCalled(proc[p])'
    BY Zenon, <2>1, StillAsCalled
  <2>3. Belongs(proc[p])'
    BY Zenon, <2>1, <2>2 DEF Belongs, AsCalled, FileOps, DirOps, Holding
  <2> QED
    BY <1>0, <2>1, <2>3, ShapeFrom
<1>8. ASSUME NEW p \in Procs, fffile_createtemp_unix(p) PROVE Shape'
  <2>1. /\ OnlyOf(p) /\ UNCHANGED <<os, calls, file, pend, alone, hurt>> /\ name' = 0 /\ proc[p].at = "unlink"
        /\ proc[p].op = "createtemp" /\ proc'[p].op = proc[p].op /\ proc'[p].flags = proc[p].flags
        /\ proc'[p].fd = proc[p].fd /\ proc'[p].at = "close"
    BY Zenon, <1>8, UnlinkEffect
  <2>2. proc'[p].op # "none" => AsCalled(proc[p])'
    BY Zenon, <2>1, StillAsCalled
  <2>3. proc[p].fd # 0
    BY Zenon, <1>0, <2>1 DEF Belongs, Holding
  <2>4. Belongs(proc[p])'
    BY Zenon, <2>1, <2>2, <2>3 DEF Belongs, AsCalled, FileOps, DirOps, Holding
  <2> QED
    BY <1>0, <2>1, <2>4, ShapeFrom
<1>9. ASSUME NEW p \in Procs, ffdir_make_all(p) \/ ffdir_make_path(p) \/ ffdir_remove(p) PROVE Shape'
  <2>1. /\ OnlyOf(p) /\ UNCHANGED <<os, calls, name, file, pend, alone, hurt>> /\ proc[p].at \in DirOps
        /\ proc[p].op = proc[p].at /\ proc'[p].op = proc[p].op /\ proc'[p].flags = proc[p].flags
        /\ proc'[p].fd = 0 /\ proc'[p].at \in {"idle", proc[p].at}
    BY Zenon, <1>9, DirEffect DEF fileVars
  <2>2. proc'[p].op # "none" => AsCalled(proc[p])'
    BY Zenon, <2>1, StillAsCalled
  <2>3. Belongs(proc[p])'
    BY Zenon, <2>1, <2>2 DEF Belongs, AsCalled, FileOps, DirOps, Holding
  <2> QED
    BY <1>0, <2>1, <2>3, ShapeFrom
<1>10. CASE UNCHANGED vars
  <2>1. \A p \in Procs : Belongs(proc[p])'
    BY Zenon, <1>0, <1>10 DEF Belongs, vars
  <2> QED
    BY Zenon, <1>0, <1>10, <2>1 DEF Shape, vars
<1> QED
  BY Zenon, <1>1, <1>2, <1>3, <1>4, <1>5, <1>6, <1>7, <1>8, <1>9, <1>10, Steps

\* No operation changes the scenario.
LEMMA SameCalls ==
  ASSUME Shape, [Next]_vars
  PROVE  UNCHANGED calls
BY Zenon, Steps, CallEffect, OpenEffect, WriteEffect, CloseEffect, RemoveEffect, SizeEffect, ReadEffect,
   UnlinkEffect, DirEffect DEF vars

\* At first every process is idle and holds no descriptor.
LEMMA ShapeInit == Init => Shape
<1> SUFFICES ASSUME Init PROVE Shape
  BY Zenon
<1>1. os \in Systems /\ calls \in Scenarios /\ pend = {} /\ hurt = FALSE /\ alone = {} /\ proc = [p \in Procs |-> Idle]
  BY Zenon DEF Init
<1>2. file \in Seq(File) /\ name \in 0..Len(file)
  <2>1. CASE name = 0 /\ file = << >>
    BY <2>1
  <2>2. CASE name = 1 /\ file = <<[by |-> "none", data |-> Old]>>
    <3>1. [by |-> "none", data |-> Old] \in File
      BY Zenon, Contents DEF File, Authors
    <3> QED
      BY <2>2, <3>1
  <2> QED
    BY Zenon, <2>1, <2>2 DEF Init
<1>3. Idle \in State /\ Idle.at = "idle" /\ Idle.op = "none" /\ Idle.fd = 0
  BY Zenon, Contents DEF Idle, State
<1>4. \A p \in Procs : proc[p] = Idle
  BY Zenon, <1>1
<1>5. Belongs(Idle)
  BY Zenon, <1>3 DEF Belongs, FileOps, DirOps, Holding
<1>6. \A p \in Procs : Belongs(proc[p]) /\ proc[p].fd \in 0..Len(file)
  BY <1>2, <1>3, <1>4, <1>5
<1> QED
  BY Zenon, <1>1, <1>2, <1>3, <1>6 DEF Shape

-----------------------------------------------------------------------------
(* Exclusive creation                                                      *)

\* On Windows no process has opened with both flags.
LEMMA NotBoth ==
  ASSUME NewIsNew, Shape, NEW p \in Procs, proc[p].op # "none", os = "windows"
  PROVE  ~("new" \in proc[p].flags /\ "trunc" \in proc[p].flags)
<1>1. PICK c \in calls : OpenFlags(c) \ {"noatime"} = proc[p].flags \ {"noatime"}
  BY Zenon DEF Shape, Belongs
<1>2. ~({"new", "trunc"} \subseteq OpenFlags(c))
  BY Zenon DEF NewIsNew, Shape
<1> QED
  BY Zenon, <1>1, <1>2

\* A step of one process that keeps the creators of files, and opens with `new` only its own.
LEMMA CreatedFrom ==
  ASSUME Shape, CreatedByOpener, NEW p \in Procs, OnlyOf(p),
         \A i \in 1..Len(file) : file'[i].by = file[i].by,
         proc'[p].fd # 0 /\ "new" \in proc'[p].flags => file'[proc'[p].fd].by = p
  PROVE  CreatedByOpener'
<1> SUFFICES ASSUME NEW q \in Procs, proc'[q].fd # 0, "new" \in proc'[q].flags, q # p
             PROVE  file'[proc'[q].fd].by = q
  BY Zenon DEF CreatedByOpener
<1>1. proc'[q] = proc[q] /\ proc[q].fd \in 0..Len(file) /\ Len(file) \in Nat
  BY DEF OnlyOf, Shape
<1>2. proc[q].fd \in 1..Len(file) /\ file[proc[q].fd].by = q
  BY <1>1 DEF CreatedByOpener
<1> QED
  BY Zenon, <1>1, <1>2

\* Between the system calls of one process no other one makes its descriptor that
\* of somebody else's file.
LEMMA CreatedStep ==
  ASSUME NewIsNew, Shape, CreatedByOpener, [Next]_vars
  PROVE  CreatedByOpener'
<1>0. file \in Seq(File) /\ Len(file) \in Nat /\ name \in 0..Len(file)
  BY DEF Shape
<1>a. ASSUME NEW p \in Procs, OnlyOf(p), \A i \in 1..Len(file) : file'[i].by = file[i].by,
             proc'[p].fd = 0 \/ (proc'[p].fd = proc[p].fd /\ proc'[p].flags = proc[p].flags)
      PROVE  CreatedByOpener'
  <2>1. proc'[p].fd # 0 /\ "new" \in proc'[p].flags => file'[proc'[p].fd].by = p
    <3>1. proc[p].fd \in 0..Len(file)
      BY Zenon DEF Shape
    <3> QED
      BY <1>0, <1>a, <3>1 DEF CreatedByOpener
  <2> QED
    BY Zenon, <1>a, <2>1, CreatedFrom
<1>1. ASSUME NEW p \in Procs, Open(p) PROVE CreatedByOpener'
  <2>1. /\ OnlyOf(p) /\ proc[p].op \in FileOps
        /\ Created(p) \/ Existing(p) \/ Emptied(p) \/ NotOpened(p) \/ OpenAgain(p)
    BY Zenon, <1>1, OpenEffect
  <2>2. CASE Created(p)
    <3>1. name' = Len(file) + 1 /\ file' = Append(file, [by |-> p, data |-> << >>]) /\ proc'[p].fd = name'
      BY Zenon, <2>2 DEF Created, Held
    <3>2. [by |-> p, data |-> << >>] \in File
      BY Zenon, Contents DEF File, Authors
    <3>3. file'[Len(file) + 1] = [by |-> p, data |-> << >>] /\ \A i \in 1..Len(file) : file'[i] = file[i]
      BY <1>0, <3>1, <3>2, AppendProperties
    <3> QED
      BY <2>1, <3>1, <3>3, CreatedFrom
  <2>3. CASE Existing(p)
    <3>1. file' = file /\ "new" \notin proc'[p].flags
      BY Zenon, <2>3 DEF Existing, Held
    <3> QED
      BY Zenon, <2>1, <3>1, CreatedFrom
  <2>4. CASE Emptied(p)
    <3>1. name # 0 /\ file' = [file EXCEPT ![name].data = << >>] /\ proc'[p].flags = proc[p].flags
          /\ "trunc" \in proc[p].flags /\ (os # "windows" => "new" \notin proc[p].flags)
      BY Zenon, <2>4 DEF Emptied, Held
    <3>2. "new" \notin proc'[p].flags
      BY Zenon, <2>1, <3>1, NotBoth DEF FileOps
    <3>3. \A i \in 1..Len(file) : file'[i].by = file[i].by
      <4>1. name \in 1..Len(file) /\ file[name] \in File
        BY <1>0, <3>1
      <4>2. [file[name] EXCEPT !.data = << >>].by = file[name].by
        BY Zenon, <4>1 DEF File
      <4>3. file' = [file EXCEPT ![name] = [file[name] EXCEPT !.data = << >>]]
        BY Zenon, <3>1
      <4> QED
        BY <1>0, <4>1, <4>2, <4>3
    <3> QED
      BY Zenon, <2>1, <3>2, <3>3, CreatedFrom
  <2>5. CASE NotOpened(p) \/ OpenAgain(p)
    BY Zenon, <1>a, <2>1, <2>5 DEF NotOpened, OpenAgain
  <2> QED
    BY Zenon, <2>1, <2>2, <2>3, <2>4, <2>5
<1>2. ASSUME NEW p \in Procs, Call(p) PROVE CreatedByOpener'
  BY Zenon, <1>2, <1>a, CallEffect DEF fileVars
<1>3. ASSUME NEW p \in Procs, write(p) PROVE CreatedByOpener'
  BY Zenon, <1>3, <1>a, WriteEffect
<1>4. ASSUME NEW p \in Procs, size(p) PROVE CreatedByOpener'
  BY Zenon, <1>4, <1>a, SizeEffect DEF fileVars
<1>5. ASSUME NEW p \in Procs, read(p) PROVE CreatedByOpener'
  BY Zenon, <1>5, <1>a, ReadEffect DEF fileVars
<1>6. ASSUME NEW p \in Procs, Close(p) PROVE CreatedByOpener'
  BY Zenon, <1>6, <1>a, CloseEffect
<1>7. ASSUME NEW p \in Procs, Remove(p) PROVE CreatedByOpener'
  BY Zenon, <1>7, <1>a, RemoveEffect
<1>8. ASSUME NEW p \in Procs, fffile_createtemp_unix(p) PROVE CreatedByOpener'
  BY Zenon, <1>8, <1>a, UnlinkEffect
<1>9. ASSUME NEW p \in Procs, ffdir_make_all(p) \/ ffdir_make_path(p) \/ ffdir_remove(p) PROVE CreatedByOpener'
  BY Zenon, <1>9, <1>a, DirEffect DEF fileVars
<1>10. CASE UNCHANGED vars
  BY Zenon, <1>10 DEF CreatedByOpener, vars
<1> QED
  BY Zenon, <1>1, <1>2, <1>3, <1>4, <1>5, <1>6, <1>7, <1>8, <1>9, <1>10, Steps

\* FFFILE_CREATENEW: whoever gets a descriptor with it has created the file itself,
\* for any processes and calls, unless it is combined with FFFILE_TRUNCATE on
\* Windows.
THEOREM ExclusiveCreation == NewIsNew => (Spec => []CreatedByOpener)
<1> SUFFICES ASSUME NewIsNew
             PROVE  Spec => []CreatedByOpener
  BY Zenon
<1>1. Init => CreatedByOpener
  BY DEF Init, CreatedByOpener, Idle
<1>2. Shape /\ CreatedByOpener /\ [Next]_vars => Shape' /\ CreatedByOpener'
  BY Zenon, ShapeStep, CreatedStep
<1> QED
  BY <1>1, <1>2, ShapeInit, PTL DEF Spec

-----------------------------------------------------------------------------
(* Paths of directories                                                    *)

Target(s) == IF s.op = "make_all" THEN Depth ELSE Depth - 1

\* A process that makes directories has made those before the next one.
OnTheWay(s) ==
  /\ s.at \in {"make_all", "make_path"} =>
       1 <= s.level /\ s.level <= Target(s) /\ 1 .. (s.level - 1) \subseteq dirs
  /\ s.op \in {"make_all", "make_path"} /\ s.at = "idle" =>
       1 .. Target(s) \subseteq dirs /\ (s.ret = "ok" \/ os = "windows")

\* PathInv process by process: every directory up to where it is has been made.
LEMMA PathInvIff ==
  ASSUME Shape
  PROVE  PathInv <=> ("remove_dir" \notin Ops(calls) => \A p \in Procs : OnTheWay(proc[p]))
<1>1. \A p \in Procs : proc[p].at \in {"make_all", "make_path"} => proc[p].op = proc[p].at
  BY Zenon DEF Shape, Belongs, DirOps
<1> QED
  BY Zenon, <1>1 DEF PathInv, PathMade, OnTheWay, Target

\* A step of one process that removes no directory leaves the others on their way.
LEMMA PathFrom ==
  ASSUME Shape, Shape', PathInv, NEW p \in Procs, OnlyOf(p), UNCHANGED <<os, calls>>,
         "remove_dir" \notin Ops(calls) => dirs \subseteq dirs' /\ OnTheWay(proc[p])'
  PROVE  PathInv'
<1>1. PathInv' <=> ("remove_dir" \notin Ops(calls') => \A q \in Procs : OnTheWay(proc[q])')
  <2>1. \A q \in Procs : proc'[q].at \in {"make_all", "make_path"} => proc'[q].op = proc'[q].at
    BY Zenon DEF Shape, Belongs, DirOps
  <2> QED
    BY Zenon, <2>1 DEF PathInv, PathMade, OnTheWay, Target
<1> SUFFICES ASSUME "remove_dir" \notin Ops(calls), NEW q \in Procs, q # p
             PROVE  OnTheWay(proc[q])'
  BY Zenon, <1>1
<1>2. OnTheWay(proc[q]) /\ proc'[q] = proc[q]
  BY Zenon, PathInvIff DEF OnlyOf
<1> QED
  BY Zenon, <1>2 DEF OnTheWay, Target

\* One step of ffdir_make_all() or ffdir_make_path() finds the directory before.
LEMMA MakeNextKeeps ==
  ASSUME Shape, NEW p \in Procs, OnTheWay(proc[p]), proc[p].at \in {"make_all", "make_path"},
         proc[p].op = proc[p].at, MakeNext(p, Target(proc[p]))
  PROVE  dirs \subseteq dirs' /\ OnTheWay(proc[p])'
<1> DEFINE i == proc[p].level
           t == Target(proc[p])
           r == ffdir_make(i)
<1>1. i \in Nat /\ 1 <= i /\ i <= t /\ 1 .. (i - 1) \subseteq dirs /\ proc[p] \in State /\ t \in Nat
  BY FilesAssumption DEF OnTheWay, Shape, State, Target
<1>2. r # "not found"
  <2>1. i > 1 => i - 1 \in dirs
    BY <1>1
  <2> QED
    BY Zenon, <2>1 DEF ffdir_make
<1>3. dirs \subseteq dirs' /\ 1 .. i \subseteq dirs'
  <2>1. dirs \cup {i} \subseteq dirs'
    BY Zenon, <1>2 DEF MakeNext, ffdir_make
  <2>2. 1 .. i = (1 .. (i - 1)) \cup {i}
    BY <1>1
  <2> QED
    BY Zenon, <1>1, <2>1, <2>2
<1>4. UNCHANGED os
  BY Zenon DEF MakeNext
<1> HIDE DEF t, r
<1>5. CASE i < t /\ proc' = [proc EXCEPT ![p].level = i + 1]
  <2>1. proc'[p] = [proc[p] EXCEPT !.level = i + 1]
    BY Zenon, <1>5 DEF Shape
  <2>2. proc'[p].level = i + 1 /\ proc'[p].at = proc[p].at /\ proc'[p].op = proc[p].op
    BY Zenon, <1>1, <2>1 DEF State
  <2>3. Target(proc[p])' = t
    BY Zenon, <2>2 DEF t, Target
  <2>4. 1 <= i + 1 /\ i + 1 <= t /\ (i + 1) - 1 = i
    BY <1>1, <1>5
  <2> QED
    BY Zenon, <1>3, <2>2, <2>3, <2>4 DEF OnTheWay
<1>6. CASE i = t /\ Return(p, IF os = "windows" /\ r = "exists" THEN "fail" ELSE "ok")
  <2> DEFINE x == IF os = "windows" /\ r = "exists" THEN "fail" ELSE "ok"
  <2>1. x \in {"none", "ok", "fail"} /\ (x = "ok" \/ os = "windows") /\ Return(p, x)
    BY Zenon, <1>6
  <2> HIDE DEF x
  <2>2. proc'[p].at = "idle" /\ proc'[p].ret = x /\ proc'[p].op = proc[p].op
    BY Zenon, <2>1, ReturnEffect
  <2>3. Target(proc[p])' = t
    BY Zenon, <2>2 DEF t, Target
  <2> QED
    BY Zenon, <1>3, <1>4, <1>6, <2>1, <2>2, <2>3 DEF OnTheWay
<1> QED
  BY Zenon, <1>2, <1>5, <1>6 DEF MakeNext, t, r

\* Nobody takes away what another has made, unless directories are removed.
LEMMA PathStep ==
  ASSUME Shape, Shape', PathInv, [Next]_vars
  PROVE  PathInv'
<1>a. ASSUME NEW p \in Procs, OnlyOf(p), UNCHANGED <<os, calls, dirs>>, proc'[p].op \in FileOps PROVE PathInv'
  <2>1. proc'[p].at \notin {"make_all", "make_path"}
    BY Zenon, <1>a DEF Shape, Belongs, FileOps, DirOps
  <2>2. OnTheWay(proc[p])'
    BY Zenon, <1>a, <2>1 DEF OnTheWay, FileOps
  <2> QED
    BY Zenon, <1>a, <2>2, PathFrom
<1>1. ASSUME NEW p \in Procs, Call(p) PROVE PathInv'
  <2>1. /\ OnlyOf(p) /\ UNCHANGED <<os, calls, dirs>> /\ proc'[p].level = 1
    BY Zenon, <1>1, CallEffect
  <2>2. PICK c \in calls : /\ proc'[p].op = c.op
                           /\ proc'[p].at = IF c.op \in DirOps THEN c.op ELSE "open"
    BY Zenon, <1>1, CallEffect
  <2>3. Depth \in Nat \ {0} /\ (c.op = "make_path" => Depth > 1)
    BY Zenon, FilesAssumption DEF Shape
  <2>4. proc'[p].at \in {"make_all", "make_path"} => 1 <= Target(proc[p])'
    BY <2>2, <2>3 DEF Target, DirOps
  <2>5. 1 .. (1 - 1) = {} /\ 1 <= 1
    OBVIOUS
  <2>6. proc'[p].at # "idle"
    BY Zenon, <2>2 DEF DirOps
  <2>7. OnTheWay(proc[p])'
    BY Zenon, <2>1, <2>4, <2>5, <2>6 DEF OnTheWay
  <2> QED
    BY Zenon, <2>1, <2>7, PathFrom
<1>2. ASSUME NEW p \in Procs, Open(p) PROVE PathInv'
  BY Zenon, <1>2, <1>a, OpenEffect
<1>3. ASSUME NEW p \in Procs, write(p) PROVE PathInv'
  BY <1>3, <1>a, WriteEffect DEF FileOps
<1>4. ASSUME NEW p \in Procs, size(p) PROVE PathInv'
  BY Zenon, <1>4, <1>a, SizeEffect DEF FileOps
<1>5. ASSUME NEW p \in Procs, read(p) PROVE PathInv'
  BY Zenon, <1>5, <1>a, ReadEffect DEF FileOps
<1>6. ASSUME NEW p \in Procs, Close(p) PROVE PathInv'
  BY Zenon, <1>6, <1>a, CloseEffect
<1>7. ASSUME NEW p \in Procs, Remove(p) PROVE PathInv'
  BY Zenon, <1>7, <1>a, RemoveEffect DEF FileOps
<1>8. ASSUME NEW p \in Procs, fffile_createtemp_unix(p) PROVE PathInv'
  BY Zenon, <1>8, <1>a, UnlinkEffect DEF FileOps
<1>9. ASSUME NEW p \in Procs, ffdir_make_all(p) \/ ffdir_make_path(p) PROVE PathInv'
  <2>1. OnlyOf(p) /\ UNCHANGED <<os, calls>> /\ proc[p].op = proc[p].at
    BY Zenon, <1>9, DirEffect
  <2>2. proc[p].at \in {"make_all", "make_path"} /\ MakeNext(p, Target(proc[p]))
    BY Zenon, <1>9, <2>1 DEF ffdir_make_all, ffdir_make_path, Target
  <2>3. "remove_dir" \notin Ops(calls) => OnTheWay(proc[p])
    BY Zenon, PathInvIff
  <2> QED
    BY Zenon, <2>1, <2>2, <2>3, MakeNextKeeps, PathFrom
<1>10. ASSUME NEW p \in Procs, ffdir_remove(p) PROVE PathInv'
  <2>1. OnlyOf(p) /\ UNCHANGED <<os, calls>> /\ proc[p].op = "remove_dir"
    BY Zenon, <1>10, DirEffect DEF ffdir_remove
  <2>2. "remove_dir" \in Ops(calls)
    BY ZenonT(60), <2>1 DEF Shape, Belongs, Ops
  <2> QED
    BY Zenon, <2>1, <2>2, PathFrom
<1>11. CASE UNCHANGED vars
  BY Zenon, <1>11 DEF PathInv, PathMade, vars
<1> QED
  BY Zenon, <1>1, <1>2, <1>3, <1>4, <1>5, <1>6, <1>7, <1>8, <1>9, <1>10, <1>11, Steps

\* Any number of processes make paths of any depth at once: as long as nothing is
\* removed, everyone who returns finds all the directories, and only Windows
\* reports an error.
THEOREM PathsAreMade == Spec => []PathMade
<1>1. Init => PathInv
  BY DEF Init, Idle, PathInv, PathMade
<1>2. Shape /\ PathInv /\ [Next]_vars => Shape' /\ PathInv'
  BY Zenon, ShapeStep, PathStep
<1>3. PathInv => PathMade
  BY Zenon DEF PathInv
<1> QED
  BY <1>1, <1>2, <1>3, ShapeInit, PTL DEF Spec

-----------------------------------------------------------------------------
(* Files that are created exclusively                                      *)

\* With FFFILE_CREATENEW everywhere, writers have the flag and readers truncate nothing.
LEMMA ExclusiveFlags ==
  ASSUME Shape, Exclusive, NEW p \in Procs, proc[p].op \in FileOps
  PROVE  /\ proc[p].op # "readwhole" => "new" \in proc[p].flags
         /\ proc[p].op = "readwhole" => "trunc" \notin proc[p].flags
<1>1. PICK c \in calls : c.op = proc[p].op /\ OpenFlags(c) \ {"noatime"} = proc[p].flags \ {"noatime"}
  BY Zenon DEF Shape, Belongs, FileOps
<1>2. c.op = "readwhole" => OpenFlags(c) \subseteq {"noatime"}
  BY Zenon, FilesAssumption DEF Shape, OpenFlags
<1>3. c.op # "readwhole" => "new" \in OpenFlags(c)
  BY Zenon, <1>1 DEF Exclusive, FileOps
<1> QED
  BY <1>1, <1>2, <1>3

\* The name has one owner.
LEMMA OneOwner ==
  ASSUME KeptInv, Exclusive, NEW p \in Procs, NEW q \in Procs, Owner(proc[p]), Owner(proc[q])
  PROVE  p = q
BY Zenon DEF KeptInv, Owns

\* A step of p that spares the owner's file.
LEMMA KeptFrom ==
  ASSUME Shape, Exclusive, KeptInv, NEW p \in Procs, OnlyOf(p), UNCHANGED <<os, calls>>,
         Owner(proc[p])' => Owns(p)',
         \A q \in Procs : q # p /\ Owner(proc[q]) =>
           name' = name /\ name \notin pend' /\ file'[name] = file[name]
  PROVE  KeptInv'
<1> SUFFICES ASSUME NEW q \in Procs, q # p, Owner(proc[q])'
             PROVE  Owns(q)'
  BY Zenon DEF KeptInv
<1>1. proc'[q] = proc[q]
  BY Zenon DEF OnlyOf
<1>2. Owner(proc[q])
  BY Zenon, <1>1 DEF Owner
<1>3. Owns(q)
  BY Zenon, <1>2 DEF KeptInv
<1>4. name' = name /\ name \notin pend' /\ file'[name] = file[name]
  BY Zenon, <1>2
<1> QED
  BY Zenon, <1>1, <1>3, <1>4 DEF Owns

\* Nobody but its owner empties, writes or removes the file that has the name.
LEMMA KeptStep ==
  ASSUME NewIsNew, Shape, KeptInv, [Next]_vars
  PROVE  KeptInv'
<1>0. /\ file \in Seq(File) /\ Len(file) \in Nat /\ name \in 0..Len(file) /\ (os # "windows" => pend = {})
      /\ \A p \in Procs : Belongs(proc[p])
  BY DEF Shape
<1> SUFFICES ASSUME Exclusive PROVE KeptInv'
  <2>1. UNCHANGED calls
    BY Zenon, SameCalls
  <2> QED
    BY Zenon, <2>1 DEF KeptInv, Exclusive
<1>a. \A q \in Procs : Owner(proc[q]) => name # 0 /\ name \notin pend /\ name \in 1..Len(file)
  BY <1>0 DEF KeptInv, Owns
<1>b. ASSUME NEW p \in Procs, OnlyOf(p), UNCHANGED <<os, calls, name, file, pend>>, ~Owner(proc[p])'
      PROVE  KeptInv'
  BY Zenon, <1>a, <1>b, KeptFrom
<1>c. ASSUME NEW p \in Procs, OnlyOf(p), UNCHANGED <<os, calls>>, Owner(proc[p]), Owner(proc[p])' => Owns(p)'
      PROVE  KeptInv'
  BY Zenon, <1>c, OneOwner, KeptFrom
<1>1. ASSUME NEW p \in Procs, Call(p) PROVE KeptInv'
  <2>1. /\ OnlyOf(p) /\ UNCHANGED <<os, calls, name, file, pend>>
        /\ \E c \in calls : proc'[p].at = IF c.op \in DirOps THEN c.op ELSE "open"
    BY Zenon, <1>1, CallEffect DEF fileVars
  <2>2. ~Owner(proc[p])'
    BY Zenon, <2>1 DEF Owner, DirOps
  <2> QED
    BY Zenon, <1>b, <2>1, <2>2
<1>2. ASSUME NEW p \in Procs, Open(p) PROVE KeptInv'
  <2>1. /\ OnlyOf(p) /\ proc[p].op \in FileOps /\ UNCHANGED <<os, calls, pend>> /\ proc'[p].op = proc[p].op
        /\ Created(p) \/ Existing(p) \/ Emptied(p) \/ NotOpened(p) \/ OpenAgain(p)
    BY Zenon, <1>2, OpenEffect
  <2>2. CASE Created(p)
    <3>1. /\ name = 0 /\ name' = Len(file) + 1 /\ file' = Append(file, [by |-> p, data |-> << >>])
          /\ proc'[p].fd = name' /\ name' # 0 /\ name' \notin pend' /\ proc'[p].at = AfterOpen(p)
      BY Zenon, <2>1, <2>2 DEF Created, Held
    <3>2. [by |-> p, data |-> << >>] \in File
      BY Zenon, Contents DEF File, Authors
    <3>3. file'[name'] = [by |-> p, data |-> << >>]
      BY <1>0, <3>1, <3>2, AppendProperties
    <3>4. file'[name'].by = p /\ file'[name'].data = << >>
      BY <3>3
    <3>5. proc'[p].op = "writewhole" => proc'[p].at = "write"
      BY Zenon, <2>1, <3>1 DEF AfterOpen
    <3>6. Owns(p)'
      BY Zenon, <3>1, <3>4, <3>5 DEF Owns
    <3> QED
      BY Zenon, <1>a, <2>1, <3>1, <3>6, KeptFrom
  <2>3. CASE Existing(p)
    <3>1. name' = name /\ file' = file /\ "new" \notin proc[p].flags
      BY Zenon, <2>3 DEF Existing
    <3>2. proc'[p].op = "readwhole"
      BY Zenon, <2>1, <3>1, ExclusiveFlags
    <3> QED
      BY Zenon, <1>b, <2>1, <3>1, <3>2 DEF Owner
  <2>4. CASE Emptied(p)
    <3>1. "trunc" \in proc[p].flags /\ (os # "windows" => "new" \notin proc[p].flags)
      BY Zenon, <2>4 DEF Emptied
    <3>2. "new" \in proc[p].flags
      BY Zenon, <2>1, <3>1, ExclusiveFlags
    <3> QED
      BY Zenon, <2>1, <3>1, <3>2, NotBoth DEF FileOps
  <2>5. CASE NotOpened(p) \/ OpenAgain(p)
    <3>1. name' = name /\ file' = file /\ ~Owner(proc[p])'
      BY Zenon, <2>5 DEF NotOpened, OpenAgain, Owner
    <3> QED
      BY Zenon, <1>b, <2>1, <3>1
  <2> QED
    BY Zenon, <2>1, <2>2, <2>3, <2>4, <2>5
<1>3. ASSUME NEW p \in Procs, write(p) PROVE KeptInv'
  <2>1. /\ OnlyOf(p) /\ proc[p].at = "write" /\ proc[p].op = "writewhole" /\ UNCHANGED <<os, calls, name, pend>>
        /\ proc[p].fd \in 1..Len(file) /\ proc'[p].fd = proc[p].fd /\ proc'[p].at = "close"
        /\ \A i \in 1..Len(file) : file'[i].by = file[i].by
        /\ (proc'[p].ret = "ok" \/ ~hurt') /\ Len(file[proc[p].fd].data) <= 2 =>
             file'[proc[p].fd].data = Whole(p)
    BY Zenon, <1>3, WriteEffect
  <2>2. Owner(proc[p]) /\ Owns(p)
    BY Zenon, <2>1 DEF Owner, KeptInv
  <2>3. /\ name # 0 /\ name \notin pend /\ file[name].by = p /\ proc[p].fd = name /\ name \in 1..Len(file)
        /\ Len(file[name].data) <= 2
    <3>1. name # 0 /\ name \notin pend /\ file[name].by = p /\ proc[p].fd = name /\ file[name].data = << >>
      BY <1>0, <2>1, <2>2 DEF Owns
    <3>2. Len(<< >>) <= 2
      OBVIOUS
    <3> QED
      BY Zenon, <2>1, <3>1, <3>2
  <2>4. Owns(p)'
    BY Zenon, <2>1, <2>3 DEF Owns
  <2> QED
    BY Zenon, <1>c, <2>1, <2>2, <2>4
<1>4. ASSUME NEW p \in Procs, size(p) \/ read(p) PROVE KeptInv'
  <2>1. OnlyOf(p) /\ UNCHANGED <<os, calls, name, file, pend>> /\ proc'[p].op = "readwhole"
    BY Zenon, <1>4, SizeEffect, ReadEffect DEF fileVars
  <2> QED
    BY Zenon, <1>b, <2>1 DEF Owner
<1>5. ASSUME NEW p \in Procs, Close(p) PROVE KeptInv'
  <2>1. /\ OnlyOf(p) /\ proc[p].at = "close" /\ proc[p].op \in FileOps /\ proc[p].fd \in 1..Len(file)
        /\ UNCHANGED <<os, calls, file>> /\ proc'[p].op = proc[p].op /\ proc'[p].fd = 0
        /\ name' \in {0, name} /\ (proc[p].fd # name => name' = name)
        /\ proc[p].fd \notin pend /\ (os # "windows" \/ proc[p].op # "createtemp") => name' = name /\ pend' = pend
        /\ proc[p].fd \in pend => pend' = pend
    BY Zenon, <1>5, CloseEffect
  <2>2. \/ proc'[p].at = "idle" /\ proc[p].op = "readwhole" /\ proc'[p].ret = proc[p].ret
        \/ proc'[p].at = "idle" /\ proc[p].op = "createtemp"
        \/ proc'[p].at = "idle" /\ proc[p].op = "writewhole" /\ proc[p].ret = "ok" /\ proc'[p].ret = "ok"
        \/ proc'[p].at = "remove" /\ proc[p].op = "writewhole" /\ hurt'
    BY Zenon, <1>5, CloseEffect
  <2>3. CASE proc[p].op = "writewhole"
    <3>1. Owner(proc[p]) /\ Owns(p)
      BY Zenon, <2>1, <2>3 DEF Owner, KeptInv
    <3>2. name # 0 /\ name \notin pend /\ proc[p].fd = name
      <4>1. proc[p].fd # 0
        BY <2>1
      <4> QED
        BY Zenon, <3>1, <4>1 DEF Owns
    <3>3. name' = name /\ pend' = pend
      BY Zenon, <2>1, <2>3, <3>2
    <3>4. Owns(p)'
      BY Zenon, <2>1, <2>2, <2>3, <3>1, <3>2, <3>3 DEF Owns
    <3> QED
      BY Zenon, <1>c, <2>1, <3>1, <3>4
  <2>4. CASE proc[p].op = "readwhole"
    <3>1. ~Owner(proc[p])'
      BY Zenon, <2>1, <2>4 DEF Owner
    <3>2. \A q \in Procs : Owner(proc[q]) => name' = name /\ name \notin pend' /\ file'[name] = file[name]
      BY Zenon, <1>a, <2>1, <2>4
    <3> QED
      BY Zenon, <2>1, <3>1, <3>2, KeptFrom
  <2>5. CASE proc[p].op = "createtemp"
    <3>1. ~Owner(proc[p])'
      BY Zenon, <2>1, <2>2, <2>5 DEF Owner
    <3>2. CASE os = "windows"
      BY Zenon, <1>c, <2>1, <2>5, <3>1, <3>2 DEF Owner
    <3>3. CASE os # "windows"
      BY Zenon, <1>0, <1>b, <2>1, <3>1, <3>3
    <3> QED
      BY Zenon, <3>2, <3>3
  <2> QED
    BY Zenon, <2>1, <2>3, <2>4, <2>5 DEF FileOps
<1>6. ASSUME NEW p \in Procs, Remove(p) PROVE KeptInv'
  <2>1. /\ OnlyOf(p) /\ UNCHANGED <<os, calls>> /\ proc[p].at = "remove" /\ proc[p].op = "writewhole"
        /\ proc'[p].op = proc[p].op /\ proc'[p].at = "idle" /\ proc'[p].ret = "fail"
    BY Zenon, <1>6, RemoveEffect
  <2> QED
    BY Zenon, <1>c, <2>1 DEF Owner
<1>7. ASSUME NEW p \in Procs, fffile_createtemp_unix(p) PROVE KeptInv'
  <2>1. /\ OnlyOf(p) /\ UNCHANGED <<os, calls>> /\ proc[p].at = "unlink" /\ proc[p].op = "createtemp"
        /\ proc'[p].op = proc[p].op /\ proc'[p].at = "close" /\ os # "windows"
    BY Zenon, <1>7, UnlinkEffect
  <2> QED
    BY Zenon, <1>c, <2>1 DEF Owner
<1>8. ASSUME NEW p \in Procs, ffdir_make_all(p) \/ ffdir_make_path(p) \/ ffdir_remove(p) PROVE KeptInv'
  <2>1. OnlyOf(p) /\ UNCHANGED <<os, calls, name, file, pend>> /\ proc'[p].op \in DirOps
    BY Zenon, <1>8, DirEffect DEF fileVars
  <2> QED
    BY Zenon, <1>b, <2>1 DEF Owner, DirOps
<1>9. CASE UNCHANGED vars
  BY Zenon, <1>9 DEF KeptInv, Exclusive, Owner, Owns, vars
<1> QED
  BY Zenon, <1>1, <1>2, <1>3, <1>4, <1>5, <1>6, <1>7, <1>8, <1>9, Steps

\* As long as everyone creates with FFFILE_CREATENEW, a whole file that was written
\* successfully stays, complete, whatever other writers, readers and temporary
\* files do, on every system.
THEOREM NewFilesStay == NewIsNew => (Spec => []NewFileKept)
<1> SUFFICES ASSUME NewIsNew
             PROVE  Spec => []NewFileKept
  BY Zenon
<1>1. Init => KeptInv
  BY DEF Init, Idle, KeptInv, Owner
<1>2. Shape /\ KeptInv /\ [Next]_vars => Shape' /\ KeptInv'
  BY Zenon, ShapeStep, KeptStep
<1>3. KeptInv => NewFileKept
  BY Zenon DEF KeptInv, NewFileKept, Exclusive, Owner, Owns
<1> QED
  BY <1>1, <1>2, <1>3, ShapeInit, PTL DEF Spec

-----------------------------------------------------------------------------
(* Files that are overwritten                                              *)

\* Every process only writes, and truncates.
LEMMA OverwritingOps ==
  ASSUME Shape, Overwriting, NEW p \in Procs, proc[p].op # "none"
  PROVE  proc[p].op = "writewhole" /\ "trunc" \in proc[p].flags
BY Zenon DEF Shape, Belongs, Overwriting

\* A step of p, and what it must leave for the others.
LEMMA WinsFrom ==
  ASSUME Shape, NEW p \in Procs, OnlyOf(p), pend' = {}, proc'[p].at # "remove",
         proc'[p].fd # 0 => proc'[p].fd = name',
         proc'[p].at = "write" => Len(file'[name'].data) <= 2,
         \A q \in Procs : q # p =>
           /\ proc[q].at # "remove"
           /\ proc[q].fd # 0 => proc[q].fd = name'
           /\ proc[q].at = "write" => Len(file'[name'].data) <= 2,
         (\E q \in Procs : proc'[q].ret = "ok") => Written'
  PROVE  WinsInv'
BY Zenon DEF WinsInv, OnlyOf

\* Whoever writes last writes everything, and whoever truncates writes after that.
LEMMA WinsStep ==
  ASSUME Shape, WinsInv, [Next]_vars
  PROVE  WinsInv'
<1>0. /\ file \in Seq(File) /\ Len(file) \in Nat /\ name \in 0..Len(file) /\ hurt \in BOOLEAN
      /\ \A p \in Procs : Belongs(proc[p]) /\ proc[p].fd \in 0..Len(file)
  BY DEF Shape
<1>1. UNCHANGED calls
  BY Zenon, SameCalls
<1> SUFFICES ASSUME Overwriting, ~hurt' PROVE WinsInv'
  BY Zenon, <1>1 DEF WinsInv, Overwriting
<1>2. ~hurt
  BY ZenonT(60), <1>0, Steps, CallEffect, OpenEffect, WriteEffect, CloseEffect, RemoveEffect, SizeEffect, ReadEffect,
     UnlinkEffect, DirEffect DEF vars, fileVars
<1>3. /\ pend = {}
      /\ \A p \in Procs : /\ proc[p].at # "remove" /\ (proc[p].fd # 0 => proc[p].fd = name)
                          /\ (proc[p].at = "write" => Len(file[name].data) <= 2)
      /\ (\E p \in Procs : proc[p].ret = "ok") => Written
  BY Zenon, <1>2 DEF WinsInv
<1>a. ASSUME NEW p \in Procs, OnlyOf(p), UNCHANGED <<name, file, pend>>, proc[p].at # "write",
             proc'[p].at \notin {"remove", "write"}, proc'[p].fd # 0 => proc'[p].fd = name,
             proc'[p].ret = "ok" => proc[p].ret = "ok"
      PROVE  WinsInv'
  <2>1. ASSUME NEW q \in Procs, proc'[q].ret = "ok" PROVE Written'
    <3>1. proc[q].ret = "ok"
      BY Zenon, <1>a, <2>1 DEF OnlyOf
    <3>2. Written
      BY Zenon, <1>3, <3>1
    <3>3. \A r \in Procs : proc[r].at = "write" => proc'[r].at = "write"
      BY Zenon, <1>a DEF OnlyOf
    <3> QED
      BY Zenon, <1>a, <3>2, <3>3 DEF Written
  <2> QED
    BY Zenon, <1>3, <1>a, <2>1, WinsFrom
<1>4. ASSUME NEW p \in Procs, Call(p) PROVE WinsInv'
  <2>1. /\ OnlyOf(p) /\ UNCHANGED <<name, file, pend>> /\ proc[p].at = "idle" /\ proc'[p].fd = 0
        /\ proc'[p].ret = "none" /\ \E c \in calls : proc'[p].at = IF c.op \in DirOps THEN c.op ELSE "open"
    BY Zenon, <1>4, CallEffect DEF fileVars
  <2>2. proc'[p].at \notin {"remove", "write"}
    BY Zenon, <2>1 DEF DirOps
  <2> QED
    BY Zenon, <1>a, <2>1, <2>2
<1>5. ASSUME NEW p \in Procs, Open(p) PROVE WinsInv'
  <2>1. /\ OnlyOf(p) /\ proc[p].at \in {"open", "open2"} /\ proc[p].op \in FileOps /\ UNCHANGED pend
        /\ Created(p) \/ Existing(p) \/ Emptied(p) \/ NotOpened(p) \/ OpenAgain(p)
    BY Zenon, <1>5, OpenEffect
  <2>2. proc[p].op = "writewhole" /\ "trunc" \in proc[p].flags
    BY Zenon, <2>1, OverwritingOps DEF FileOps
  <2>3. ASSUME Held(p), name' \in Nat, file'[name'].data = << >>,
               \A q \in Procs : q # p => (proc[q].fd # 0 => proc[q].fd = name')
        PROVE  WinsInv'
    <3>1. proc'[p].at = "write" /\ proc'[p].fd = name' /\ name' # 0
      BY Zenon, <2>2, <2>3 DEF Held, AfterOpen
    <3>2. Len(file'[name'].data) <= 2
      BY <2>3
    <3>3. Written'
      BY Zenon, <3>1 DEF Written
    <3> QED
      BY Zenon, <1>3, <2>1, <2>3, <3>1, <3>2, <3>3, WinsFrom
  <2>4. CASE Created(p)
    <3>1. /\ name = 0 /\ name' = Len(file) + 1 /\ file' = Append(file, [by |-> p, data |-> << >>]) /\ Held(p)
      BY Zenon, <2>4 DEF Created
    <3>2. [by |-> p, data |-> << >>] \in File
      BY Zenon, Contents DEF File, Authors
    <3>3. file'[name'] = [by |-> p, data |-> << >>]
      BY <1>0, <3>1, <3>2, AppendProperties
    <3>4. file'[name'].data = << >>
      BY <3>3
    <3>5. \A q \in Procs : proc[q].fd = 0
      BY Zenon, <1>3, <3>1
    <3> QED
      BY <1>0, <2>3, <3>1, <3>4, <3>5
  <2>5. CASE Emptied(p)
    <3>1. name # 0 /\ name' = name /\ file' = [file EXCEPT ![name].data = << >>] /\ Held(p)
      BY Zenon, <2>5 DEF Emptied
    <3>2. name \in 1..Len(file) /\ file[name] \in File
      BY <1>0, <3>1
    <3>3. file'[name].data = << >>
      BY <1>0, <3>1, <3>2 DEF File
    <3> QED
      BY <1>0, <1>3, <2>3, <3>1, <3>3
  <2>6. CASE NotOpened(p) \/ OpenAgain(p)
    <3>1. /\ name' = name /\ file' = file /\ proc'[p].fd = 0 /\ proc'[p].at \notin {"remove", "write"}
          /\ proc'[p].ret = "ok" => proc[p].ret = "ok"
      BY Zenon, <2>6 DEF NotOpened, OpenAgain
    <3> QED
      BY Zenon, <1>a, <2>1, <3>1
  <2> QED
    BY Zenon, <2>1, <2>2, <2>4, <2>5, <2>6 DEF Existing
<1>6. ASSUME NEW p \in Procs, write(p) PROVE WinsInv'
  <2>1. /\ OnlyOf(p) /\ proc[p].at = "write" /\ UNCHANGED <<name, pend>> /\ proc[p].fd \in 1..Len(file)
        /\ proc'[p].fd = proc[p].fd /\ proc'[p].at = "close"
        /\ (proc'[p].ret = "ok" \/ ~hurt') /\ Len(file[proc[p].fd].data) <= 2 =>
             file'[proc[p].fd].data = Whole(p)
    BY Zenon, <1>6, WriteEffect
  <2>2. proc[p].fd = name /\ name # 0 /\ Len(file[name].data) <= 2
    <3>1. proc[p].fd # 0
      BY <1>0, <2>1
    <3> QED
      BY Zenon, <1>0, <1>3, <2>1, <3>1
  <2>3. file'[name'].data = Whole(p)
    BY Zenon, <2>1, <2>2
  <2>4. Len(file'[name'].data) <= 2
    <3>1. Len(Whole(p)) = 2
      BY Zenon, Contents
    <3> QED
      BY <2>3, <3>1
  <2>5. Written'
    BY Zenon, <2>1, <2>2, <2>3 DEF Written, Whole
  <2> QED
    BY Zenon, <1>3, <2>1, <2>2, <2>4, <2>5, WinsFrom
<1>7. ASSUME NEW p \in Procs, Close(p) PROVE WinsInv'
  <2>1. /\ OnlyOf(p) /\ proc[p].at = "close" /\ proc[p].op \in FileOps
        /\ UNCHANGED file /\ proc'[p].fd = 0
        /\ proc[p].fd \notin pend /\ (os # "windows" \/ proc[p].op # "createtemp") => name' = name /\ pend' = pend
    BY Zenon, <1>7, CloseEffect
  <2>2. \/ proc'[p].at = "idle" /\ proc[p].op = "readwhole" /\ proc'[p].ret = proc[p].ret
        \/ proc'[p].at = "idle" /\ proc[p].op = "createtemp"
        \/ proc'[p].at = "idle" /\ proc[p].op = "writewhole" /\ proc[p].ret = "ok" /\ proc'[p].ret = "ok"
        \/ proc'[p].at = "remove" /\ proc[p].op = "writewhole" /\ hurt'
    BY Zenon, <1>7, CloseEffect
  <2>3. proc[p].op = "writewhole"
    BY Zenon, <2>1, OverwritingOps DEF FileOps
  <2>4. proc'[p].at = "idle" /\ (proc'[p].ret = "ok" => proc[p].ret = "ok")
    BY Zenon, <2>2, <2>3
  <2>5. name' = name /\ pend' = pend
    BY Zenon, <1>3, <2>1, <2>3
  <2> QED
    BY Zenon, <1>a, <2>1, <2>4, <2>5
<1>8. ASSUME NEW p \in Procs, Remove(p) PROVE WinsInv'
  BY Zenon, <1>3, <1>8, RemoveEffect
<1>9. ASSUME NEW p \in Procs, size(p) \/ read(p) PROVE WinsInv'
  <2>1. proc[p].op = "readwhole"
    BY Zenon, <1>9, SizeEffect, ReadEffect
  <2> QED
    BY Zenon, <2>1, OverwritingOps
<1>10. ASSUME NEW p \in Procs, fffile_createtemp_unix(p) PROVE WinsInv'
  BY Zenon, <1>10, UnlinkEffect, OverwritingOps
<1>11. ASSUME NEW p \in Procs, ffdir_make_all(p) \/ ffdir_make_path(p) \/ ffdir_remove(p) PROVE WinsInv'
  <2>1. proc[p].op \in DirOps
    BY Zenon, <1>11, DirEffect
  <2> QED
    BY Zenon, <2>1, OverwritingOps DEF DirOps
<1>12. CASE UNCHANGED vars
  <2>1. Written' <=> Written
    BY Zenon, <1>12 DEF Written, vars
  <2> QED
    BY Zenon, <1>3, <1>12, <2>1 DEF WinsInv, vars
<1> QED
  BY ZenonT(60), <1>4, <1>5, <1>6, <1>7, <1>8, <1>9, <1>10, <1>11, <1>12, Steps

\* Writers of the same length that overwrite the file, any number of them: once all
\* have returned and none failed, the file has the data of one of them.
THEOREM LastWriterWins == Spec => []OneWriterWins
<1>1. Init => WinsInv
  <2> SUFFICES ASSUME Init PROVE WinsInv
    BY Zenon
  <2>1. \A p \in Procs : proc[p].at = "idle" /\ proc[p].fd = 0 /\ proc[p].ret = "none"
    BY Zenon DEF Init, Idle
  <2> QED
    BY Zenon, <2>1 DEF Init, WinsInv
<1>2. Shape /\ WinsInv /\ [Next]_vars => Shape' /\ WinsInv'
  BY Zenon, ShapeStep, WinsStep
<1>3. WinsInv => OneWriterWins
  <2> SUFFICES ASSUME WinsInv, Overwriting, Quiet, ~hurt, \E p \in Procs : proc[p].ret = "ok"
               PROVE  name # 0 /\ \E p \in Procs : file[name].data = Whole(p)
    BY Zenon DEF OneWriterWins, Overwriting
  <2>1. Written
    BY Zenon DEF WinsInv
  <2> QED
    BY Zenon, <2>1 DEF Written, Quiet
<1> QED
  BY <1>1, <1>2, <1>3, ShapeInit, PTL DEF Spec

-----------------------------------------------------------------------------
(* What readers get                                                        *)

\* Contents that may be replaced, of one author each.
LEMMA VersionFrom ==
  ASSUME Shape, NEW p \in Procs, OnlyOf(p),
         \A i \in 1..Len(file') : Uniform(file'[i].data),
         Uniform(proc'[p].got), proc'[p].at = "write" => Len(file'[proc'[p].fd].data) <= 2,
         \A q \in Procs : q # p => /\ Uniform(proc[q].got)
                                   /\ proc[q].at = "write" => Len(file'[proc[q].fd].data) <= 2
  PROVE  VersionInv'
BY Zenon DEF VersionInv, OnlyOf

\* Writers truncate, create or write everything: no file gets a second author.
LEMMA VersionStep ==
  ASSUME Shape, VersionInv, [Next]_vars
  PROVE  VersionInv'
<1>0. /\ file \in Seq(File) /\ Len(file) \in Nat /\ name \in 0..Len(file) /\ hurt \in BOOLEAN
      /\ \A p \in Procs : Belongs(proc[p]) /\ proc[p].fd \in 0..Len(file)
  BY DEF Shape
<1>1. UNCHANGED calls
  BY Zenon, SameCalls
<1> SUFFICES ASSUME Replacing, ~hurt' PROVE VersionInv'
  BY Zenon, <1>1 DEF VersionInv, Replacing
<1>2. ~hurt
  BY ZenonT(60), <1>0, Steps, CallEffect, OpenEffect, WriteEffect, CloseEffect, RemoveEffect, SizeEffect, ReadEffect,
     UnlinkEffect, DirEffect DEF vars, fileVars
<1>3. /\ \A i \in 1..Len(file) : Uniform(file[i].data)
      /\ \A p \in Procs : /\ Uniform(proc[p].got)
                          /\ proc[p].at = "write" => Len(file[proc[p].fd].data) <= 2
  BY Zenon, <1>2 DEF VersionInv
<1>a. ASSUME NEW p \in Procs, OnlyOf(p), UNCHANGED file, Uniform(proc'[p].got), proc'[p].at # "write"
      PROVE  VersionInv'
  BY Zenon, <1>3, <1>a, VersionFrom
<1>4. ASSUME NEW p \in Procs, Call(p) PROVE VersionInv'
  <2>1. /\ OnlyOf(p) /\ UNCHANGED file /\ proc'[p].got = << >>
        /\ \E c \in calls : proc'[p].at = IF c.op \in DirOps THEN c.op ELSE "open"
    BY Zenon, <1>4, CallEffect DEF fileVars
  <2>2. proc'[p].at # "write" /\ Uniform(proc'[p].got)
    BY Zenon, <2>1, Contents DEF DirOps
  <2> QED
    BY Zenon, <1>a, <2>1, <2>2
<1>5. ASSUME NEW p \in Procs, Open(p) PROVE VersionInv'
  <2>1. /\ OnlyOf(p) /\ proc[p].op \in FileOps /\ proc'[p].got = proc[p].got
        /\ Created(p) \/ Existing(p) \/ Emptied(p) \/ NotOpened(p) \/ OpenAgain(p)
    BY Zenon, <1>5, OpenEffect
  <2>2. Uniform(proc'[p].got)
    BY Zenon, <1>3, <2>1
  <2>3. Uniform(<< >>) /\ Len(<< >>) <= 2
    BY Contents
  <2>4. CASE Created(p)
    <3>1. /\ name' = Len(file) + 1 /\ file' = Append(file, [by |-> p, data |-> << >>]) /\ proc'[p].fd = name'
      BY Zenon, <2>4 DEF Created, Held
    <3>2. [by |-> p, data |-> << >>] \in File
      BY Zenon, Contents DEF File, Authors
    <3>3. /\ Len(file') = Len(file) + 1 /\ file'[Len(file) + 1] = [by |-> p, data |-> << >>]
          /\ \A i \in 1..Len(file) : file'[i] = file[i]
      BY SMTT(30), <1>0, <3>1, <3>2, AppendProperties
    <3>4. file'[name'].data = << >>
      BY SMTT(30), <3>1, <3>3
    <3>5. \A i \in 1..Len(file') : Uniform(file'[i].data)
      <4> TAKE i \in 1..Len(file')
      <4>1. CASE i \in 1..Len(file)
        BY Zenon, <1>3, <3>3, <4>1
      <4>2. CASE i = Len(file) + 1
        BY Zenon, <2>3, <3>1, <3>4, <4>2
      <4> QED
        BY <1>0, <3>3, <4>1, <4>2
    <3>6. \A q \in Procs : proc[q].at = "write" => Len(file'[proc[q].fd].data) <= 2
      <4>1. \A q \in Procs : proc[q].at = "write" => proc[q].fd \in 1..Len(file)
        BY <1>0 DEF Belongs, Holding
      <4> QED
        BY Zenon, <1>3, <3>3, <4>1
    <3> QED
      BY Zenon, <1>3, <2>1, <2>2, <2>3, <3>1, <3>4, <3>5, <3>6, VersionFrom
  <2>5. CASE Existing(p)
    <3>1. /\ file' = file /\ "new" \notin proc[p].flags /\ "trunc" \notin proc[p].flags
          /\ proc'[p].at = AfterOpen(p)
      BY Zenon, <2>5 DEF Existing, Held
    <3>2. proc[p].op # "writewhole"
      <4>1. PICK c \in calls : c.op = proc[p].op /\ OpenFlags(c) \ {"noatime"} = proc[p].flags \ {"noatime"}
        BY Zenon, <1>0, <2>1 DEF Belongs, FileOps
      <4> QED
        BY Zenon, <3>1, <4>1 DEF Replacing
    <3>3. proc'[p].at # "write"
      BY Zenon, <2>1, <3>1, <3>2 DEF AfterOpen, FileOps
    <3> QED
      BY Zenon, <1>a, <2>1, <2>2, <3>1, <3>3
  <2>6. CASE Emptied(p)
    <3>1. name # 0 /\ name' = name /\ file' = [file EXCEPT ![name].data = << >>] /\ proc'[p].fd = name
      BY Zenon, <2>6 DEF Emptied, Held
    <3>2. name \in 1..Len(file) /\ file[name] \in File
      BY <1>0, <3>1
    <3>3. [file[name] EXCEPT !.data = << >>] \in File /\ [file[name] EXCEPT !.data = << >>].data = << >>
      BY Zenon, <3>2, Contents DEF File
    <3>4. /\ Len(file') = Len(file) /\ file'[name].data = << >>
          /\ \A i \in 1..Len(file) : i # name => file'[i] = file[i]
      BY <1>0, <3>1, <3>2, <3>3, ExceptSeq
    <3>5. \A i \in 1..Len(file') : Uniform(file'[i].data)
      BY Zenon, <1>3, <2>3, <3>4
    <3>6. \A q \in Procs : proc[q].at = "write" => Len(file'[proc[q].fd].data) <= 2
      <4>1. \A q \in Procs : proc[q].at = "write" => proc[q].fd \in 1..Len(file)
        BY <1>0 DEF Belongs, Holding
      <4> QED
        BY Zenon, <1>3, <2>3, <3>4, <4>1
    <3> QED
      BY Zenon, <1>3, <2>1, <2>2, <2>3, <3>1, <3>4, <3>5, <3>6, VersionFrom
  <2>7. CASE NotOpened(p) \/ OpenAgain(p)
    <3>1. file' = file /\ proc'[p].at # "write"
      BY Zenon, <2>7 DEF NotOpened, OpenAgain
    <3> QED
      BY Zenon, <1>a, <2>1, <2>2, <3>1
  <2> QED
    BY Zenon, <2>1, <2>4, <2>5, <2>6, <2>7
<1>6. ASSUME NEW p \in Procs, write(p) PROVE VersionInv'
  <2> DEFINE i == proc[p].fd
  <2>1. /\ OnlyOf(p) /\ proc[p].at = "write" /\ i \in 1..Len(file) /\ proc'[p].got = proc[p].got
        /\ proc'[p].at = "close" /\ Len(file') = Len(file)
        /\ \A k \in 1..Len(file) : k # i => file'[k] = file[k]
        /\ (proc'[p].ret = "ok" \/ ~hurt') /\ Len(file[i].data) <= 2 => file'[i].data = Whole(p)
    BY Zenon, <1>6, WriteEffect
  <2>2. file'[i].data = Whole(p)
    BY Zenon, <1>3, <2>1
  <2>3. Uniform(Whole(p)) /\ Len(Whole(p)) = 2
    BY Zenon, Contents
  <2> HIDE DEF i
  <2>4. \A k \in 1..Len(file') : Uniform(file'[k].data)
    BY Zenon, <1>3, <2>1, <2>2, <2>3
  <2>5. \A q \in Procs : proc[q].at = "write" => Len(file'[proc[q].fd].data) <= 2
    <3>1. \A q \in Procs : proc[q].at = "write" => proc[q].fd \in 1..Len(file)
      BY <1>0 DEF Belongs, Holding
    <3>2. Len(file'[i].data) = 2
      BY Zenon, <2>2, <2>3
    <3> TAKE q \in Procs
    <3> HAVE proc[q].at = "write"
    <3>3. CASE proc[q].fd = i
      <4>1. Len(file'[proc[q].fd].data) = 2
        BY Zenon, <3>2, <3>3
      <4> QED
        BY <4>1
    <3>4. CASE proc[q].fd # i
      <4>1. file'[proc[q].fd] = file[proc[q].fd]
        BY Zenon, <2>1, <3>1, <3>4
      <4> QED
        BY Zenon, <1>3, <4>1
    <3> QED
      BY Zenon, <3>3, <3>4
  <2> QED
    BY Zenon, <1>3, <2>1, <2>4, <2>5, VersionFrom
<1>7. ASSUME NEW p \in Procs, size(p) PROVE VersionInv'
  BY Zenon, <1>3, <1>7, <1>a, SizeEffect DEF fileVars
<1>8. ASSUME NEW p \in Procs, read(p) PROVE VersionInv'
  BY Zenon, <1>3, <1>8, <1>a, ReadEffect DEF fileVars
<1>9. ASSUME NEW p \in Procs, Close(p) PROVE VersionInv'
  <2>1. OnlyOf(p) /\ UNCHANGED file /\ proc'[p].got = proc[p].got /\ proc'[p].at \in {"idle", "remove"}
    BY Zenon, <1>9, CloseEffect
  <2> QED
    BY Zenon, <1>3, <1>a, <2>1
<1>10. ASSUME NEW p \in Procs, Remove(p) PROVE VersionInv'
  BY Zenon, <1>3, <1>10, <1>a, RemoveEffect
<1>11. ASSUME NEW p \in Procs, fffile_createtemp_unix(p) PROVE VersionInv'
  BY Zenon, <1>3, <1>11, <1>a, UnlinkEffect
<1>12. ASSUME NEW p \in Procs, ffdir_make_all(p) \/ ffdir_make_path(p) \/ ffdir_remove(p) PROVE VersionInv'
  <2>1. OnlyOf(p) /\ UNCHANGED file /\ proc'[p].got = proc[p].got /\ proc'[p].at \in {"idle"} \cup DirOps
    BY Zenon, <1>12, DirEffect DEF fileVars
  <2> QED
    BY Zenon, <1>3, <1>a, <2>1 DEF DirOps
<1>13. CASE UNCHANGED vars
  BY Zenon, <1>3, <1>13 DEF VersionInv, vars
<1> QED
  BY ZenonT(60), <1>4, <1>5, <1>6, <1>7, <1>8, <1>9, <1>10, <1>11, <1>12, <1>13, Steps

\* Nobody but a process that is alone makes a step without disturbing it.
LEMMA AloneFrom ==
  ASSUME Shape, AloneInv, NEW p \in Procs, OnlyOf(p), UNCHANGED alone, proc[p].at # "idle",
         p \in alone /\ Undisturbed(p) =>
           (proc'[p].op = "readwhole" =>
             /\ proc'[p].at \in {"size", "read", "close"} => proc'[p].fd = name' /\ name' \notin pend'
             /\ proc'[p].at = "read" => proc'[p].size = Len(file'[name'].data)
             /\ proc'[p].at \in {"close", "idle"} /\ proc'[p].ret = "ok" =>
                  name' # 0 /\ proc'[p].got = file'[name'].data)
  PROVE  AloneInv'
<1>1. alone \subseteq {p}
  BY Zenon DEF AloneInv, Undisturbed, Shape
<1>2. p \in alone => Undisturbed(p)
  BY Zenon DEF AloneInv
<1>3. p \in alone => Undisturbed(p)'
  BY Zenon, <1>2 DEF Undisturbed, OnlyOf
<1> QED
  BY Zenon, <1>1, <1>3 DEF AloneInv

\* What a process that is alone reads is the file.
LEMMA AloneStep ==
  ASSUME Shape, AloneInv, [Next]_vars
  PROVE  AloneInv'
<1>0. /\ file \in Seq(File) /\ Len(file) \in Nat /\ name \in 0..Len(file) /\ alone \subseteq Procs
      /\ \A p \in Procs : Belongs(proc[p]) /\ proc[p].fd \in 0..Len(file)
  BY DEF Shape
<1>1. ASSUME NEW p \in Procs, Call(p) PROVE AloneInv'
  <2>1. /\ OnlyOf(p) /\ proc'[p].ret = "none"
        /\ alone' = IF \A q \in Procs : proc[q].at = "idle" THEN {p} ELSE {}
        /\ \E c \in calls : proc'[p].at = IF c.op \in DirOps THEN c.op ELSE "open"
    BY Zenon, <1>1, CallEffect
  <2>2. proc'[p].at \notin {"size", "read", "close"}
    BY Zenon, <2>1 DEF DirOps
  <2>3. CASE \A q \in Procs : proc[q].at = "idle"
    <3>1. Undisturbed(p)'
      BY Zenon, <2>1, <2>2, <2>3 DEF Undisturbed, OnlyOf
    <3> QED
      BY Zenon, <2>1, <2>3, <3>1 DEF AloneInv
  <2>4. CASE ~\A q \in Procs : proc[q].at = "idle"
    BY Zenon, <2>1, <2>4 DEF AloneInv
  <2> QED
    BY Zenon, <2>3, <2>4
<1>2. ASSUME NEW p \in Procs, Open(p) PROVE AloneInv'
  <2>1. /\ OnlyOf(p) /\ proc[p].at \in {"open", "open2"} /\ proc[p].op \in FileOps
        /\ UNCHANGED <<alone, pend>> /\ proc'[p].op = proc[p].op
        /\ Created(p) \/ Existing(p) \/ Emptied(p) \/ NotOpened(p) \/ OpenAgain(p)
    BY Zenon, <1>2, OpenEffect
  <2>2. ASSUME Held(p) PROVE AloneInv'
    <3>1. proc'[p].op = "readwhole" => proc'[p].at = "size"
      BY Zenon, <2>1, <2>2 DEF Held, AfterOpen
    <3>2. proc'[p].fd = name' /\ name' \notin pend'
      BY Zenon, <2>1, <2>2 DEF Held
    <3> QED
      BY Zenon, <2>1, <3>1, <3>2, AloneFrom
  <2>3. CASE NotOpened(p) \/ OpenAgain(p)
    <3>1. /\ proc'[p].at \notin {"size", "read", "close"}
          /\ proc'[p].at = "idle" => proc'[p].ret = "fail"
      BY Zenon, <2>3 DEF NotOpened, OpenAgain
    <3> QED
      BY Zenon, <2>1, <3>1, AloneFrom
  <2> QED
    BY Zenon, <2>1, <2>2, <2>3 DEF Created, Existing, Emptied
<1>3. ASSUME NEW p \in Procs, write(p) PROVE AloneInv'
  BY Zenon, <1>3, WriteEffect, AloneFrom
<1>4. ASSUME NEW p \in Procs, size(p) PROVE AloneInv'
  <2>1. /\ OnlyOf(p) /\ proc[p].at = "size" /\ proc[p].op = "readwhole" /\ UNCHANGED <<alone, name, file, pend>>
        /\ proc'[p].fd = proc[p].fd /\ proc'[p].at \in {"read", "close"} /\ proc'[p].ret = "fail"
        /\ proc'[p].size = Len(file[proc[p].fd].data)
    BY Zenon, <1>4, SizeEffect DEF fileVars
  <2>2. Undisturbed(p) => proc[p].fd = name /\ name \notin pend
    BY Zenon, <2>1 DEF Undisturbed
  <2> QED
    BY Zenon, <2>1, <2>2, AloneFrom
<1>5. ASSUME NEW p \in Procs, read(p) PROVE AloneInv'
  <2>1. /\ OnlyOf(p) /\ proc[p].at = "read" /\ proc[p].op = "readwhole" /\ UNCHANGED <<alone, name, file, pend>>
        /\ proc'[p].fd = proc[p].fd /\ proc[p].fd \in 1..Len(file) /\ proc'[p].at = "close"
        /\ proc'[p].ret = "ok" /\ proc[p].size = Len(file[proc[p].fd].data) =>
             proc'[p].got = file[proc[p].fd].data
    BY Zenon, <1>5, ReadEffect DEF fileVars
  <2>2. Undisturbed(p) => proc[p].fd = name /\ name \notin pend /\ proc[p].size = Len(file[name].data)
    BY Zenon, <2>1 DEF Undisturbed
  <2>3. proc[p].fd # 0
    BY <2>1
  <2> QED
    BY Zenon, <2>1, <2>2, <2>3, AloneFrom
<1>6. ASSUME NEW p \in Procs, Close(p) PROVE AloneInv'
  <2>1. /\ OnlyOf(p) /\ proc[p].at = "close" /\ UNCHANGED <<alone, file>> /\ proc'[p].op = proc[p].op
        /\ proc'[p].got = proc[p].got
        /\ proc[p].fd \notin pend /\ (os # "windows" \/ proc[p].op # "createtemp") => name' = name /\ pend' = pend
    BY Zenon, <1>6, CloseEffect
  <2>2. proc[p].op = "readwhole" => proc'[p].at = "idle" /\ proc'[p].ret = proc[p].ret
    BY Zenon, <1>6, CloseEffect
  <2>3. Undisturbed(p) /\ proc[p].op = "readwhole" =>
          /\ proc[p].fd = name /\ name \notin pend
          /\ proc[p].ret = "ok" => name # 0 /\ proc[p].got = file[name].data
    BY Zenon, <2>1 DEF Undisturbed
  <2> QED
    BY Zenon, <2>1, <2>2, <2>3, AloneFrom
<1>7. ASSUME NEW p \in Procs, Remove(p) PROVE AloneInv'
  BY Zenon, <1>7, RemoveEffect, AloneFrom
<1>8. ASSUME NEW p \in Procs, fffile_createtemp_unix(p) PROVE AloneInv'
  BY Zenon, <1>8, UnlinkEffect, AloneFrom
<1>9. ASSUME NEW p \in Procs, ffdir_make_all(p) \/ ffdir_make_path(p) \/ ffdir_remove(p) PROVE AloneInv'
  <2>1. OnlyOf(p) /\ UNCHANGED alone /\ proc[p].at \in DirOps /\ proc'[p].op \in DirOps
    BY Zenon, <1>9, DirEffect
  <2> QED
    BY Zenon, <2>1, AloneFrom DEF DirOps
<1>10. CASE UNCHANGED vars
  BY Zenon, <1>10 DEF AloneInv, Undisturbed, vars
<1> QED
  BY ZenonT(60), <1>1, <1>2, <1>3, <1>4, <1>5, <1>6, <1>7, <1>8, <1>9, <1>10, Steps

\* What fffile_readwhole() returns with success was written by one process only, if
\* writers truncate or create the file and none has failed, for any number of
\* writers and readers; and it is the whole file, if nobody else was active.
THEOREM ReadsAreOneVersion == Spec => []ReadsOneVersion
<1>1. Init => VersionInv /\ AloneInv
  <2> SUFFICES ASSUME Init PROVE VersionInv /\ AloneInv
    BY Zenon
  <2>1. \A p \in Procs : proc[p].at = "idle" /\ proc[p].got = << >>
    BY Zenon DEF Init, Idle
  <2>2. \A i \in 1..Len(file) : file[i].data = Old
    BY DEF Init
  <2>3. VersionInv
    BY Zenon, <2>1, <2>2, Contents DEF VersionInv
  <2>4. AloneInv
    BY Zenon DEF Init, AloneInv
  <2> QED
    BY Zenon, <2>3, <2>4
<1>2. Shape /\ VersionInv /\ AloneInv /\ [Next]_vars => Shape' /\ VersionInv' /\ AloneInv'
  BY Zenon, ShapeStep, VersionStep, AloneStep
<1>3. VersionInv /\ AloneInv => ReadsOneVersion
  <2> SUFFICES ASSUME VersionInv, AloneInv, NEW p \in Procs,
                      proc[p].op = "readwhole", proc[p].at = "idle", proc[p].ret = "ok"
               PROVE  /\ ~hurt /\ Replacing => Uniform(proc[p].got)
                      /\ (Quiet /\ p \in alone) => name # 0 /\ proc[p].got = file[name].data
    BY Zenon DEF ReadsOneVersion, Replacing, Uniform
  <2> QED
    BY Zenon DEF VersionInv, AloneInv, Undisturbed
<1> QED
  BY <1>1, <1>2, <1>3, ShapeInit, PTL DEF Spec

=============================================================================
