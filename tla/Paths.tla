-------------------------------- MODULE Paths --------------------------------
(***************************************************************************)
(* ffpath_normalize() (path.h), one step for each part of the path that it *)
(* reads.  A path is a sequence of parts with the slash that follows each; *)
(* a part is a name, a drive ("c:"), ".", ".." or nothing.  The source is  *)
(* not kept: the next part is any part, and "place" follows where the      *)
(* parts read so far lead.  A drive is the root of a path that begins with *)
(* it; anywhere else it is a name like any other.                          *)
(***************************************************************************)
EXTENDS Integers, Sequences, FiniteSetsExt

CONSTANTS
  Modes,   \* [os, flags] the function is called with
  Names,   \* names of files
  Caps,    \* sizes of the destination buffer
  MaxUsed  \* bound: characters of the source

ASSUME PathsAssumption == Caps \subseteq Nat

VARIABLES
  mode, cap, \* the arguments
  dst,       \* parts written
  simplify, skip_disk,
  used,      \* characters read
  place,     \* where the source leads
  first,     \* the part that may be the root has not been read yet
  late,      \* a drive was read after it
  ret        \* "run", "done" or "error"

vars == <<mode, cap, dst, simplify, skip_disk, used, place, first, late, ret>>

Flags == {"SLASH_ONLY", "SLASH_BACKSLASH", "FORCE_SLASH", "FORCE_BACKSLASH", "SIMPLE",
          "DISK_LETTER", "NO_DISK_LETTER"}

Has(m, f) == f \in m.flags
\* The flags that are the default on Windows.
slashes(m) ==
  IF Has(m, "SLASH_BACKSLASH") \/ (m.os = "windows" /\ ~Has(m, "SLASH_ONLY")) THEN {"/", "\\"} ELSE {"/"}
DiskLetter(m) == Has(m, "DISK_LETTER") \/ (m.os = "windows" /\ ~Has(m, "NO_DISK_LETTER"))
\* Slashes are not converted to a slash that the path is not split by.
SplitsAsForced(m) == Has(m, "FORCE_BACKSLASH") /\ ~Has(m, "FORCE_SLASH") => "\\" \in slashes(m)

Length(name) == CASE name = "" -> 0 [] name \in {"..", "c:"} -> 2 [] OTHER -> 1
LengthOf(part) == Length(part.name) + (IF part.sep = "" THEN 0 ELSE 1)
Written(d) == LET sum[i \in 0 .. Len(d)] == IF i = 0 THEN 0 ELSE sum[i - 1] + LengthOf(d[i]) IN sum[Len(d)]
k == Written(dst)

-----------------------------------------------------------------------------
(* Where a path leads: a root, or the current directory and some           *)
(* directories up from it, and the names down from there.                  *)

Here == [root |-> "", ups |-> 0, names |-> <<>>]

Go(p, name) ==
  CASE name \in {"", "."} -> p
    [] name = ".." /\ p.names # <<>> -> [p EXCEPT !.names = SubSeq(@, 1, Len(@) - 1)]
    [] name = ".." /\ p.names = <<>> -> IF p.root = "" THEN [p EXCEPT !.ups = @ + 1] ELSE p
    [] OTHER -> [p EXCEPT !.names = Append(@, name)]
\* The first part may be the root; a simple path has a root of its own.
GoFirst(m, name) ==
  CASE Has(m, "SIMPLE") /\ DiskLetter(m) /\ name = "c:" -> [Here EXCEPT !.root = "simple"]
    [] Has(m, "SIMPLE") /\ ~(DiskLetter(m) /\ name = "c:") -> Go([Here EXCEPT !.root = "simple"], name)
    [] ~Has(m, "SIMPLE") /\ name = "" -> [Here EXCEPT !.root = "/"]
    [] ~Has(m, "SIMPLE") /\ DiskLetter(m) /\ name = "c:" -> [Here EXCEPT !.root = "c:"]
    [] OTHER -> Go(Here, name)
Start(m) == IF Has(m, "SIMPLE") THEN [Here EXCEPT !.root = "simple"] ELSE Here
Walk(m, parts) ==
  LET at[i \in 0 .. Len(parts)] ==
        IF i = 0 THEN Start(m) ELSE IF i = 1 THEN GoFirst(m, parts[1].name) ELSE Go(at[i - 1], parts[i].name)
  IN  at[Len(parts)]

-----------------------------------------------------------------------------
(* The function                                                            *)

Init ==
  /\ mode \in Modes /\ cap \in Caps
  /\ dst = <<>> /\ used = 0 /\ ret = "run"
  /\ simplify = Has(mode, "SIMPLE") /\ skip_disk = (DiskLetter(mode) /\ Has(mode, "SIMPLE"))
  /\ place = Start(mode) /\ first = TRUE /\ late = FALSE

dotdot_always(d) ==
  IF d = <<>> THEN [dst |-> d, add |-> ~Has(mode, "SIMPLE")]
  ELSE [dst |-> SubSeq(d, 1, Len(d) - 1), add |-> FALSE]
\* What ".." makes of the parts written, and whether it is written itself.
\* The last slash before the last part is looked for among the slashes that
\* the source is split by.
Dotdot(d) ==
  LET n == Len(d)
      slash == Max({0} \cup {i \in 1 .. n - 1 : d[i].sep \in slashes(mode)})
      prev == SubSeq(d, slash + 1, n)
      Is(name) == Len(prev) = 1 /\ prev[1].name = name
  IN CASE n = 0                     -> [dst |-> d, add |-> ~Has(mode, "SIMPLE")]
       [] n > 0 /\ Is("..")         -> [dst |-> d, add |-> TRUE]
       [] n > 0 /\ slash > 0 /\ ~Is("..") -> [dst |-> SubSeq(d, 1, slash), add |-> FALSE]
       [] n > 0 /\ slash = 0 /\ Is(".")   -> [dst |-> <<>>, add |-> TRUE]
       [] n > 0 /\ slash = 0 /\ (Is("") \/ (DiskLetter(mode) /\ d[n].name = "c:")) ->
                                       [dst |-> d, add |-> FALSE]
       [] OTHER                     -> [dst |-> <<>>, add |-> FALSE]

Sep(sep) ==
  CASE sep # "" /\ Has(mode, "FORCE_SLASH") -> "/"
    [] sep # "" /\ ~Has(mode, "FORCE_SLASH") /\ Has(mode, "FORCE_BACKSLASH") -> "\\"
    [] OTHER -> sep

write_tight(d, name, sep) ==
  LET part == [name |-> name, sep |-> Sep(sep)]
  IN IF Written(d) + LengthOf(part) >= cap
     THEN dst' = d /\ ret' = "error"
     ELSE dst' = Append(d, part) /\ ret' = IF sep = "" THEN "done" ELSE "run"
\* A part that does not fit ends the function.
Write(d, name, sep) ==
  LET part == [name |-> name, sep |-> Sep(sep)]
  IN IF Written(d) + LengthOf(part) > cap
     THEN dst' = d /\ ret' = "error"
     ELSE dst' = Append(d, part) /\ ret' = IF sep = "" THEN "done" ELSE "run"
Skip(d, sep) == dst' = d /\ ret' = IF sep = "" THEN "done" ELSE "run"

\* Leading parts are kept unless the path is to be simple.
dropped_empty(name) == simplify /\ (name = "" \/ (skip_disk /\ name = "c:"))
Dropped(name) == simplify /\ (name \in {"", "."} \/ (skip_disk /\ name = "c:"))

\* One iteration of the loop.  What comes before a drive in the source of a
\* simple path does not count if it is empty or ".".
ffpath_normalize ==
  /\ ret = "run" /\ used < MaxUsed
  /\ \E name \in {"", ".", "..", "c:"} \cup Names, sep \in slashes(mode) \cup {""} :
       /\ LengthOf([name |-> name, sep |-> sep]) > 0
       /\ used' = used + LengthOf([name |-> name, sep |-> sep])
       /\ place' = IF first THEN GoFirst(mode, name) ELSE Go(place, name)
       /\ first' = (first /\ Has(mode, "SIMPLE") /\ name \in {"", "."})
       /\ late' = (late \/ (~first /\ name = "c:"))
       /\ simplify' = TRUE
       /\ skip_disk' = (skip_disk /\ name \in {"", "."})
       /\ LET up == IF name = ".." THEN Dotdot(dst) ELSE [dst |-> dst, add |-> ~Dropped(name)]
          IN IF up.add THEN Write(up.dst, name, sep) ELSE Skip(up.dst, sep)
  /\ UNCHANGED <<mode, cap>>

\* The source ends after a slash, or is empty.
End ==
  /\ ret = "run" /\ ret' = "done"
  /\ UNCHANGED <<mode, cap, dst, simplify, skip_disk, used, place, first, late>>
Finished == ret # "run" /\ UNCHANGED vars

Next == ffpath_normalize \/ End \/ Finished
Spec == Init /\ [][Next]_vars

-----------------------------------------------------------------------------
(* Properties                                                              *)

\* The result begins with a drive that was not at the beginning of the source:
\* what came before it is gone, or skip_disk was spent on it (path.h:277-281,
\* 298-307), and from now on it is taken for the root.
Fronted ==
  DiskLetter(mode) /\ late /\ place.root # "c:" /\ dst # <<>> /\ dst[1].name = "c:"

\* After every iteration the parts written lead where the parts read lead
\* ("handle .. components", path.h:243), unless a later part has become the
\* drive: no directory is lost, and the path does not leave its root, its
\* drive or, if it is to be simple, the directory it is used in.
SamePlace == ret # "error" => Walk(mode, dst) = place \/ Fronted

\* No later part becomes the drive of the path.  It does not hold:
\* "a/../c:/../b" becomes "c:/b" with DISK_LETTER, "../c:/x" becomes "c:/x"
\* with SIMPLE and DISK_LETTER (path.h:277-281).
NoOtherDrive == ~Fronted

\* The result is in normal form (path.h:240-247): nothing empty and no "."
\* but a leading one; ".." only at the beginning and never after a root; none
\* of these in a simple path, and no drive before its names but one that the
\* source did not begin with.
Normal ==
  \A i \in DOMAIN dst :
    /\ dst[i].name \in {"", "."} => i = 1 /\ ~Has(mode, "SIMPLE")
    /\ dst[i].name = ".." => ~Has(mode, "SIMPLE") /\ \A j \in 1 .. i : dst[j].name = ".."
    /\ i = 1 /\ dst[i].name = "c:" => ~(Has(mode, "SIMPLE") /\ DiskLetter(mode)) \/ late

\* The result is never longer than what was read: a buffer of the length of
\* the source is always enough (path.h:324-325).
Fits == k <= used /\ (ret = "error" => cap < used)
=============================================================================
