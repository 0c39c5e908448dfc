--------------------------- MODULE MCApprovalFlow ---------------------------
(* Instances of ApprovalFlow for TLC.                                      *)
EXTENDS ApprovalFlow

CONSTANTS r1, f1, f2, a, b, s1, s2

OneRec == {r1}
OneField == {f1}
TwoFields == {f1, f2}
TwoValues == {a, b}
OneSubmitter == {s1}
TwoSubmitters == {s1, s2}
=============================================================================
