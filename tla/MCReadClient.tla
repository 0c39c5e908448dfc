---------------------------- MODULE MCReadClient ----------------------------
(* Instances of ReadClient for TLC: the threads are interchangeable. *)
EXTENDS ReadClient, TLC

Perms == Permutations(Threads)
=============================================================================
