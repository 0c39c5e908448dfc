----------------------------- MODULE MCJobPage ------------------------------
(* The instance of JobPage for TLC: see README, Runs, for its bounds.      *)
EXTENDS JobPage
=============================================================================
