----------------------------- MODULE MCAsyncIO -----------------------------
(* An instance of AsyncIO for TLC. *)
EXTENDS AsyncIO

AllSystems == {"linux", "bsd", "windows"}

\* A socket that is read and written at once, and every other operation alone.
Together ==
  {{"recv", "send"}, {"recv", "sendv"}} \cup {{op} : op \in Ops \ {"recv", "send", "sendv"}}

\* Three bytes in one buffer, and in two among empty ones.
Buffers == {<<3>>, <<0, 2, 0, 1>>}
=============================================================================
