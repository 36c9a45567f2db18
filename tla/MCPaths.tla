------------------------------- MODULE MCPaths -------------------------------
(* Instances of Paths for TLC.                                             *)
EXTENDS Paths

AllModes == [os : {"unix", "windows"}, flags : SUBSET Flags]
SplitModes == {m \in AllModes : SplitsAsForced(m)}
=============================================================================
