------------------------------- MODULE MCFiles -------------------------------
(* Instances of Files for TLC.                                             *)
EXTENDS Files

Write(flags) == [op |-> "writewhole", flags |-> flags]
Read(flags)  == [op |-> "readwhole", flags |-> flags]
Temp         == [op |-> "createtemp", flags |-> {"create", "new"}]
Dir(op)      == [op |-> op, flags |-> {}]

New == {"create", "new"}

\* Exclusive creation with temporary files; overwriting with readers; both;
\* directories, and directories that are removed meanwhile.
AllScenarios == {
  {Write(New), Temp, Read({})},
  {Write({})},
  {Write({}), Read({"noatime"})},
  {Write({}), Write(New), Temp},
  {Write({"create"}), Read({})},
  {Dir("make_all"), Dir("make_path")},
  {Dir("make_all"), Dir("remove_dir")}}

OldContents == <<"none", "none", "none">>

\* FFFILE_CREATENEW | FFFILE_TRUNCATE.
NewEmptied == {{Write({"create", "new", "trunc"})}}
=============================================================================
