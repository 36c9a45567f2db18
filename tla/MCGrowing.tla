------------------------------ MODULE MCGrowing ------------------------------
(* Instances of Growing for TLC.                                           *)
EXTENDS Growing

Text(size, out)  == [type |-> "text", size |-> size, out |-> out]
Binary(size)     == [type |-> "binary", size |-> size, out |-> size]

\* Texts of ASCII and of other characters, data of several sizes around the
\* size of the buffers, and data that changes its type.
AllCases == {
  {Text(2, 1), Text(4, 2), Text(4, 6), Text(6, 9)},
  {Binary(2), Binary(3), Binary(5), Binary(8)},
  {Text(2, 3), Binary(3), Text(6, 3), Binary(6)}}
=============================================================================
