----------------------------- MODULE MCProcesses -----------------------------
(* Instances of Processes for TLC.                                         *)
EXTENDS Processes

\* UNIX: files, nothing, and the program's own descriptors where they are
\* not overwritten, and where they are (<<3, 0, -1>>).
Unix    == [t \in Threads |-> IF t = "a" THEN {<<3, 4, 4>>, <<-1, 1, 1>>} ELSE {<<3, 0, -1>>, <<-1, 2, 1>>}]
\* Windows: nothing, and handles of which both threads pass one (4).
Windows == [t \in Threads |-> IF t = "a" THEN {<<-1, -1, -1>>, <<3, 4, 4>>} ELSE {<<4, -1, 6>>}]
Descriptors == [linux |-> Unix, apple |-> Unix, windows |-> Windows]

Times        == {-1, 0, 1}
WholeSeconds == {-1, 0, Part}
AnyTime      == {-1, 0, 1}
=============================================================================
