---------------------------- MODULE MCTimerQueue ----------------------------
(* Instances of TimerQueue for TLC.                                        *)
EXTENDS TimerQueue

CONSTANTS n1, n2, n3

\* One-shot timers, one of them due at once.
OneShots == {-3, -1, 0}

\* Periodic and one-shot timers.
Mixed == {-2, 1, 3}

\* At the beginning of the 49 days, and over their end.
Young == [start |-> 1, end |-> 7, intervals |-> Mixed]
Old   == [start |-> 13, end |-> 19, intervals |-> OneShots]
Lifes == {Young, Old}
\* Periodic timers over the end.
Aged  == {[start |-> 10, end |-> 18, intervals |-> Mixed]}

Symmetry == Permutations({n1, n2, n3})

=============================================================================
