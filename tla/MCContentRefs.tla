---------------------------- MODULE MCContentRefs ----------------------------
(* Small instances of ContentRefs; which path or content is which is irrelevant. *)
EXTENDS ContentRefs, TLC

\* An owner whose policy allows two files, in an installation that does too or allows
\* one only.
MCLimits == {[policy |-> 2, total |-> t] : t \in {1, 2}}

Symmetric == Permutations(Path) \cup Permutations(Content) \cup Permutations(Caller \ Gc)
=============================================================================
