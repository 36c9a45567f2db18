------------------------------ MODULE MCKCall ------------------------------
(* Instances of KCall for TLC.                                             *)
EXTENDS KCall, TLC

CONSTANTS l1, l2, k1, k2, k3, a1, a2, w1, w2

\* One event loop and every object its own.
OneLoop == [k \in KCalls |-> l1]

=============================================================================
