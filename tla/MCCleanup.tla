------------------------------ MODULE MCCleanup ------------------------------
(* Instances of Cleanup for TLC.                                           *)
EXTENDS Cleanup

\* fffile_rename() and fffile_hardlink() return without releasing the first
\* name if the second cannot be converted (file.h:175, 218).
TwoNames == {"fffile_rename", "fffile_hardlink"}

\* ffwinreg_open() keeps the key it opened if FFWINREG_CREATENEW finds it
\* existing (winreg.h:67), ffsig_subscribe() the stack it could not install
\* (signal.h:277), ffenv_expand() the text so far if it cannot grow
\* (environ.h:191).
Keeping == {"ffwinreg_open", "ffsig_subscribe", "ffenv_expand_unix"}

Clean == DOMAIN Programs \ (TwoNames \cup Keeping)
=============================================================================
