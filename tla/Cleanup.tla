------------------------------- MODULE Cleanup -------------------------------
(***************************************************************************)
(* The functions of ffos that acquire several things one after another     *)
(* (converted names, buffers, handles, descriptors) and must give back the *)
(* right ones on every path out of them.  Each function is a program: a    *)
(* sequence of steps, each step the set of outcomes that the calls in it   *)
(* can have.  An outcome acquires (get), releases (put) and forgets (clr)  *)
(* pointers and goes on: to the step pc + to, or out of the function.      *)
(* Any call may fail, and a flag or a length the caller chose is a choice  *)
(* between outcomes, so a run takes every path with every failure on it.   *)
(*                                                                         *)
(* A converted name is acquired only if it does not fit into the buffer on *)
(* the stack; releasing a null pointer or a static buffer does nothing.    *)
(***************************************************************************)
EXTENDS Integers, Sequences

CONSTANT Functions \* names of the functions that are called

VARIABLES
  fn,  \* the function that runs
  pc,  \* its next step
  ptr, \* what each of its pointers holds: null (or static), live, stale, twice released, lost
  ret  \* "none" while it runs, then how it returned

vars == <<fn, pc, ptr, ret>>

Success == 100 \* values of "to" that leave the function
Failure == 101

Out(get, put, to) == [get |-> get, put |-> put, clr |-> {}, to |-> to]
Go         == Out({}, {}, 1)
Skip(n)    == Out({}, {}, n + 1)
Take(r)    == Out({r}, {}, 1)
Grow(r)    == Out({r}, {r}, 1)       \* a vector is reallocated
Drop(r)    == [Out({}, {r}, 1) EXCEPT !.clr = {r}]
Ok(rs)     == Out({}, rs, Success)   \* return success having released rs
Fail(rs)   == Out({}, rs, Failure)

\* Steps: acquire r or fail; a call that may fail; the call whose result is
\* returned after the release of rs.
Alloc(r, rs) == {Take(r), Fail(rs)}
Try(rs)      == {Go, Fail(rs)}
Final(rs)    == {Ok(rs), Fail(rs)}
Open(r, rs)  == {Out({r}, rs, Success), Fail(rs)}

\* ffsz_alloc_buf_utow() called with a buffer on the stack.
Convert(w, rs) == {Go, Take(w), Fail(rs)}

\* A program, what it is given to dispose of, and what its caller may own
\* after success.
Program(given, code, owns) == [given |-> given, code |-> code, owns |-> owns]
Plain(code)     == Program({}, code, {{}})
Opens(r, code)  == Program({}, code, {{r}})

-----------------------------------------------------------------------------
(* Strings, files, directories                                             *)

ffs_utow ==
  Program({}, <<{Ok({}), Go}, Alloc("dst", {}), {Ok({}), Fail({"dst"})}>>, {{}, {"dst"}})
ffs_alloc_utow_addcap == Opens("w", <<Try({}), Open("w", {})>>)
ffs_alloc_buf_utow ==
  Program({}, <<{Ok({}), Go}, Alloc("w", {}), {Ok({}), Fail({"w"})}>>, {{}, {"w"}})

fffile_info_path     == Plain(<<Convert("w", {}), Final({"w"})>>)
fffile_set_attr_path == Plain(<<Convert("w", {}), Final({"w"})>>)
fffile_rename == Plain(<<Convert("w_old", {}), Convert("w_new", {}), Final({"w_old", "w_new"})>>)
fffile_hardlink == Plain(<<Convert("w_old", {}), Convert("w_new", {}), Final({"w_old", "w_new"})>>)
\* Access denied: look at the attributes, clear "read-only", delete again.
fffile_remove ==
  Plain(<<Convert("w", {}), {Ok({"w"}), Fail({"w"}), Go}, Try({"w"}), Final({"w"})>>)
\* FFFILE_NODOSNAME gets and compares the long name; a second CreateFileW()
\* follows if there was nothing to truncate.
fffile_open ==
  LET w == {"w", "wlong"} IN
  Opens("fd", <<Convert("w", {}),
                {Go, Skip(2)}, {Go, Take("wlong")}, Try(w),
                {Go} \cup Open("fd", w), Open("fd", w)>>)
fffile_set_mtime_path == Plain(<<Alloc("fd", {}), Final({"fd"})>>)

ffdir_make     == Plain(<<Convert("w", {}), Final({"w"})>>)
ffdir_make_all == Plain(<<Convert("w", {}), {Skip(-1), Ok({"w"}), Fail({"w"})}>>)
ffdir_remove   == Plain(<<Convert("w", {}), Final({"w"})>>)
ffdir_open     == Opens("dir", <<Try({}), Convert("w", {}), Open("dir", {"w"})>>)
ffpath_infoinit == Plain(<<Convert("w", {}), Final({"w"})>>)

\* The loop over the entries (end, skip, add the offset, add the name), then
\* the offsets are added to the names, which the object keeps.
ScanEntries(end) ==
  <<Alloc("buf", end), {Skip(2), Skip(-1), Go, Fail(end)}, {Grow("offsets"), Fail(end)},
    {Skip(-3), Fail(end)}, {Ok(end \ {"buf"}), Fail(end)}>>
ffdirscan_open_win_twice ==
  LET end == {"dir", "wpath", "namebuf", "offsets", "buf"} IN
  Opens("buf", <<Try({}), Alloc("wpath", end), {Take("dir"), Go, Fail(end)},
                 {Out({}, {"wpath"}, 1)}, Alloc("namebuf", end)>> \o ScanEntries(end))
ffdirscan_open_win ==
  LET end == {"dir", "wpath", "namebuf", "offsets", "buf"} IN
  Opens("buf", <<Try({}), Alloc("wpath", end), {Take("dir"), Go, Fail(end)},
                 {Drop("wpath")}, Alloc("namebuf", end)>> \o ScanEntries(end))
\* FFDIRSCAN_USEFD: fdopendir() takes over the caller's descriptor.
ffdirscan_open_unix ==
  LET end == {"dir", "offsets", "buf"} IN
  Opens("buf", <<Alloc("dir", end)>> \o ScanEntries(end))
ffdirscan_open_fd ==
  LET end == {"dir", "offsets", "buf"} IN
  Program({"fd"}, <<{Out({"dir"}, {"fd"}, 1), Fail({"fd"})}>> \o ScanEntries(end), {{"buf"}})
ffdirscan_close == Program({"names"}, <<{Ok({"names"})}>>, {{}})

-----------------------------------------------------------------------------
(* Processes, threads, semaphores                                          *)

_ffargv_to_cmdln == Opens("args", <<Try({}), Alloc("args", {}), {Ok({}), Fail({"args"})}>>)
\* CreateProcessW() also returns a handle of the new process' thread.
ffps_exec_info ==
  Opens("ps", <<Convert("wfn", {}), Alloc("args", {"wfn", "args"}),
                {Out({"ps", "thread"}, {}, 1), Fail({"wfn", "args"})},
                {Ok({"thread", "wfn", "args"})}>>)
\* The name fits into the buffer on the stack or a larger one is allocated.
ffps_filename == Plain(<<{Fail({}), Go, Skip(2)}, Alloc("w", {}), Try({"w"}), Final({"w"})>>)
ffps_curdir   == Plain(<<{Fail({}), Go, Skip(2)}, Alloc("w", {}), Try({"w"}), Final({"w"})>>)

ffthread_create ==
  Opens("t", <<{Go, Skip(2)}, Alloc("attr", {}), Try({"attr"}), Open("t", {"attr"})>>)

\* Unnamed; by name; FFSEM_CREATENEW opens first, to see whether it exists.
ffsem_open_win ==
  Opens("s", <<Open("s", {}) \cup {Go}, Convert("wname", {}),
               Open("s", {"wname"}) \cup {Take("s"), Skip(1)},
               {Fail({"s", "wname"})}, Open("s", {"wname"})>>)
\* An unnamed semaphore gets a name, which is removed at once.
ffsem_open_apple ==
  Opens("sem", <<{Skip(1), Go, Fail({})}, Open("sem", {}), Alloc("aname", {}),
                 {Out({"sem", "name"}, {}, 1), Fail({"aname"})}, {Ok({"name", "aname"})}>>)
ffsem_open_linux ==
  Program({}, <<Alloc("mem", {}), {Ok({}), Out({"sem"}, {}, Success), Fail({"mem"})}>>,
          {{"mem"}, {"mem", "sem"}})
ffsem_close_linux == Program({"mem", "sem"}, <<{Ok({"sem", "mem"})}>>, {{}})

-----------------------------------------------------------------------------
(* Pipes, sockets, kernel queue, signals, file monitor                     *)

ffpipe_create2 ==
  Program({}, <<{Out({"rd", "wr"}, {}, 1), Fail({})}, {Ok({}), Go},
                Try({"rd", "wr"}), {Ok({}), Fail({"rd", "wr"})}>>, {{"rd", "wr"}})
ffpipe_create_named_win  == Opens("p", <<Try({}), Convert("w", {}), Open("p", {"w"})>>)
ffpipe_create_named_unix ==
  Opens("p", <<Try({}), Alloc("p", {}), Try({"p"}), Try({"p"}), {Ok({}), Fail({"p"})}>>)
ffpipe_connect_win  == Opens("p", <<Convert("w", {}), Open("p", {"w"})>>)
ffpipe_connect_unix == Opens("p", <<Try({}), Alloc("p", {}), {Ok({}), Fail({"p"})}>>)

ffsock_create_win   == Opens("sk", <<Alloc("sk", {}), {Ok({}), Fail({"sk"})}>>)
ffsock_create_unix  == Opens("sk", <<Alloc("sk", {}), {Ok({}), Fail({"sk"})}>>)
ffsock_accept_win   == Opens("sk", <<Alloc("sk", {}), {Ok({}), Fail({"sk"})}>>)
ffsock_accept_unix  == Opens("sk", <<Alloc("sk", {}), {Ok({}), Fail({"sk"})}>>)
_ff_wsa_getfuncs    == Plain(<<Alloc("sk", {}), {Skip(-1), Ok({"sk"}), Fail({"sk"})}>>)
ffnetlink_create    == Opens("nl", <<Alloc("nl", {}), {Ok({}), Fail({"nl"})}>>)

ffkq_post_attach    == Opens("post", <<Alloc("post", {}), {Ok({}), Fail({"post"})}>>)
ffkqsig_attach_linux == Opens("sig", <<Alloc("sig", {}), {Ok({}), Fail({"sig"})}>>)
ffkqsig_attach_bsd  == Plain(<<Alloc("evs", {}), Final({"evs"})>>)
ffkqsig_detach_bsd  == Plain(<<{Ok({}), Go}, Alloc("evs", {}), Final({"evs"})>>)
\* The alternative stack stays in use after success.
ffsig_subscribe ==
  Program({}, <<{Go, Skip(3)}, Alloc("stack", {}), Try({}), Try({}), {Skip(-1), Ok({}), Fail({})}>>,
          {{}, {"stack"}})

\* The watch and its handle belong to the monitor after success.
fffilemon_add_dir ==
  Program({}, <<Alloc("d", {}), Alloc("w", {"d", "w"}), {Ok({}), Fail({"d", "w"})}>>, {{"d", "w"}})
fffilemon_add_file ==
  Program({}, <<Alloc("dirz", {}), Alloc("d", {"dirz"}), Alloc("w", {"d", "w", "dirz"}),
                {Ok({"dirz"}), Fail({"d", "w", "dirz"})}>>, {{"d", "w"}})
fffilemon_close ==
  Program({"d", "w", "wl", "fm"}, <<{Out({}, {"d", "w"}, 1)}, {Ok({"wl", "fm"})}>>, {{}})

-----------------------------------------------------------------------------
(* Registry, environment, network configuration, volumes, console, others  *)

ffwinreg_open == Opens("kk", <<Convert("w", {}), Alloc("kk", {"w"}), {Ok({"w"}), Fail({"w"})}>>)
ffwinreg_write ==
  LET end == {"wname", "wval"} IN
  Plain(<<Convert("wname", end), {Go, Take("wval"), Fail(end)}, Final(end)>>)
ffwinreg_del ==
  LET end == {"wname", "wsubkey"} IN
  Plain(<<Convert("wsubkey", end), {Go, Skip(1)}, Convert("wname", end), Final(end)>>)
ffwinreg_enum_destroy == {"name", "value", "wname", "wval"}
ffwinreg_enum_init ==
  LET end == ffwinreg_enum_destroy IN
  Program({}, <<Alloc("name", end), Alloc("value", end), Alloc("wname", end),
                Alloc("wval", end), {Ok({})}>>, {end})

ffenv_expand_win ==
  LET end == {"wsrc", "wdst"} IN
  Program({}, <<Convert("wsrc", {}), Alloc("wdst", end), {Ok(end)} \cup Open("dst", end)>>, {{}, {"dst"}})
\* A buffer of its own grows with every piece of text.
ffenv_expand_unix ==
  Program({}, <<{Ok({}), Go}, {Out({"out"}, {"out"}, 0), Grow("out"), Fail({})}, {Ok({})}>>,
          {{}, {"out"}})

\* Allocate, ask, and once more if the answer was larger.
_ffnetconf_info ==
  Opens("info", <<Alloc("info", {}), {Ok({}), Fail({"info"}), Drop("info")},
                  Alloc("info", {}), {Ok({}), Fail({"info"})}>>)
_ffps_info_get ==
  Opens("data", <<Try({}), Alloc("data", {}), {Ok({}), Fail({"data"}), Drop("data")},
                  Alloc("data", {}), {Ok({}), Fail({"data"})}>>)
ffnetconf_get_win == Opens("addrs", <<Alloc("info", {}), Open("addrs", {"info"})>>)
_ffnetconf_dns ==
  LET end == {"fd", "servers", "fdata"} IN
  Opens("addrs", <<Alloc("fdata", end), Alloc("fd", end), Try(end),
                   {Out({"servers"}, {"servers"}, 0), Go, Fail(end)}, Open("addrs", end)>>)
ffnetconf_destroy == Program({"addrs"}, <<{Ok({"addrs"})}>>, {{}})

ffvol_mount ==
  LET end == {"wdisk", "wmount"} IN
  Plain(<<Alloc("wmount", end), {Go, Skip(1)}, Alloc("wdisk", end), Final(end)>>)

\* A console gets wide characters through a buffer, a file the bytes.
ffstdin_read == Plain(<<{Go, Skip(2)}, {Go} \cup Alloc("w", {}), Final({"w"}), Final({})>>)
_ffstd_write == Plain(<<{Go, Skip(2)}, {Go, Take("w")}, Final({"w"}), Final({})>>)
ffstdout_fmt == Plain(<<{Take("s"), Go}, Final({"s"})>>)
ffstderr_fmt == Plain(<<{Take("s"), Go}, Final({"s"})>>)

_ffdl_init_flags == Plain(<<Alloc("dl", {}), Final({"dl"})>>)
ffdl_open        == Opens("dl", <<Convert("w", {}), Open("dl", {"w"})>>)

-----------------------------------------------------------------------------
(* A thread that calls the functions                                       *)

Programs == [
  ffs_utow |-> ffs_utow, ffs_alloc_utow_addcap |-> ffs_alloc_utow_addcap,
  ffs_alloc_buf_utow |-> ffs_alloc_buf_utow, fffile_info_path |-> fffile_info_path,
  fffile_set_attr_path |-> fffile_set_attr_path, fffile_rename |-> fffile_rename,
  fffile_hardlink |-> fffile_hardlink, fffile_remove |-> fffile_remove,
  fffile_open |-> fffile_open, fffile_set_mtime_path |-> fffile_set_mtime_path,
  ffdir_make |-> ffdir_make, ffdir_make_all |-> ffdir_make_all, ffdir_remove |-> ffdir_remove,
  ffdir_open |-> ffdir_open, ffpath_infoinit |-> ffpath_infoinit,
  ffdirscan_open_win |-> ffdirscan_open_win, ffdirscan_open_unix |-> ffdirscan_open_unix,
  ffdirscan_open_fd |-> ffdirscan_open_fd, ffdirscan_close |-> ffdirscan_close,
  _ffargv_to_cmdln |-> _ffargv_to_cmdln, ffps_exec_info |-> ffps_exec_info,
  ffps_filename |-> ffps_filename, ffps_curdir |-> ffps_curdir,
  ffthread_create |-> ffthread_create, ffsem_open_win |-> ffsem_open_win,
  ffsem_open_apple |-> ffsem_open_apple, ffsem_open_linux |-> ffsem_open_linux,
  ffsem_close_linux |-> ffsem_close_linux, ffpipe_create2 |-> ffpipe_create2,
  ffpipe_create_named_win |-> ffpipe_create_named_win,
  ffpipe_create_named_unix |-> ffpipe_create_named_unix,
  ffpipe_connect_win |-> ffpipe_connect_win, ffpipe_connect_unix |-> ffpipe_connect_unix,
  ffsock_create_win |-> ffsock_create_win, ffsock_create_unix |-> ffsock_create_unix,
  ffsock_accept_win |-> ffsock_accept_win, ffsock_accept_unix |-> ffsock_accept_unix,
  _ff_wsa_getfuncs |-> _ff_wsa_getfuncs, ffnetlink_create |-> ffnetlink_create,
  ffkq_post_attach |-> ffkq_post_attach, ffkqsig_attach_linux |-> ffkqsig_attach_linux,
  ffkqsig_attach_bsd |-> ffkqsig_attach_bsd, ffkqsig_detach_bsd |-> ffkqsig_detach_bsd,
  ffsig_subscribe |-> ffsig_subscribe, fffilemon_add_dir |-> fffilemon_add_dir,
  fffilemon_add_file |-> fffilemon_add_file, fffilemon_close |-> fffilemon_close,
  ffwinreg_open |-> ffwinreg_open, ffwinreg_write |-> ffwinreg_write, ffwinreg_del |-> ffwinreg_del,
  ffwinreg_enum_init |-> ffwinreg_enum_init, ffenv_expand_win |-> ffenv_expand_win,
  ffenv_expand_unix |-> ffenv_expand_unix, _ffnetconf_info |-> _ffnetconf_info,
  _ffps_info_get |-> _ffps_info_get, ffnetconf_get_win |-> ffnetconf_get_win,
  _ffnetconf_dns |-> _ffnetconf_dns, ffnetconf_destroy |-> ffnetconf_destroy,
  ffvol_mount |-> ffvol_mount, ffstdin_read |-> ffstdin_read, _ffstd_write |-> _ffstd_write,
  ffstdout_fmt |-> ffstdout_fmt, ffstderr_fmt |-> ffstderr_fmt,
  _ffdl_init_flags |-> _ffdl_init_flags, ffdl_open |-> ffdl_open]

ASSUME FunctionsAssumption == Functions \subseteq DOMAIN Programs

\* The pointers of a function, null unless it is given them.
Pointers(f) ==
  Programs[f].given \cup
  UNION {UNION {o.get \cup o.put : o \in Programs[f].code[i]} : i \in DOMAIN Programs[f].code}
Fresh(f) == [r \in Pointers(f) |-> IF r \in Programs[f].given THEN "live" ELSE "null"]

Init ==
  /\ fn \in Functions
  /\ pc = 1
  /\ ptr = Fresh(fn)
  /\ ret = "none"

\* What outcome o does to the pointer r: release, then forget, then acquire.
Released(v)    == CASE v = "live" -> "stale" [] v = "stale" -> "twice" [] OTHER -> v
Acquired(v)    == CASE v = "live" -> "lost" [] v \in {"null", "stale"} -> "live" [] OTHER -> v
After(o, r) ==
  LET a == IF r \in o.put THEN Released(ptr[r]) ELSE ptr[r]
      b == IF r \in o.clr /\ a = "stale" THEN "null" ELSE a
  IN  IF r \in o.get THEN Acquired(b) ELSE b

Step ==
  /\ ret = "none"
  /\ \E o \in Programs[fn].code[pc] :
       /\ ptr' = [r \in DOMAIN ptr |-> After(o, r)]
       /\ \/ o.to = Success /\ ret' = "ok" /\ UNCHANGED pc
          \/ o.to = Failure /\ ret' = "fail" /\ UNCHANGED pc
          \/ o.to < Success /\ pc' = pc + o.to /\ UNCHANGED ret
  /\ UNCHANGED fn

\* The next function is called.
Call ==
  /\ ret # "none"
  /\ fn' \in Functions
  /\ pc' = 1 /\ ptr' = Fresh(fn') /\ ret' = "none"

Next == Step \/ Call

Spec == Init /\ [][Next]_vars

-----------------------------------------------------------------------------
(* Properties                                                              *)

Live == {r \in DOMAIN ptr : ptr[r] = "live"}

\* Whatever call fails on the way, a function that returns an error owns
\* nothing any more, and one that succeeds leaves its caller exactly what it
\* promises; no live pointer is overwritten, and no path releases the same
\* thing twice, although the shared "end:" label is reached with pointers
\* that were released before or handed to the caller, and rely on having
\* been reset (dirscan.h:128, 221; filemon.h:79; netconf.h:41).
Ownership ==
  /\ \A r \in DOMAIN ptr : ptr[r] \notin {"lost", "twice"}
  /\ ret = "fail" => Live = {}
  /\ ret = "ok" => Live \in Programs[fn].owns
=============================================================================
