---------------------------- MODULE MCLeaguePoll ----------------------------
(* Instances of LeaguePoll for TLC. *)
EXTENDS LeaguePoll
=============================================================================
