----------------------------- MODULE MCWatchdog -----------------------------
(* Instances of Watchdog for TLC.                                          *)
EXTENDS Watchdog

CONSTANTS poll, refresh

Nothing == {}
Poll == {poll}
Refresh == {refresh}
=============================================================================
