----------------------------- MODULE MCWinTimer -----------------------------
(* Instances of WinTimer for TLC. *)
EXTENDS WinTimer

\* One-shot timers have a negative period.
Periodic == {1, 2}
OneShot  == {-2}
=============================================================================
