------------------------------ MODULE Rankings ------------------------------
(***************************************************************************)
(* Sorting, as the analyses use it.                                        *)
(***************************************************************************)
EXTENDS Integers, FiniteSets

\* The elements of S one after another.
InOrder(S, before(_, _)) ==
  CHOOSE s \in [1..Cardinality(S) -> S] : \A k, l \in DOMAIN s : k < l => before(s[k], s[l])
=============================================================================
