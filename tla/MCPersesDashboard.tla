-------------------------- MODULE MCPersesDashboard --------------------------
(* Values of PersesDashboard's constants for TLC. *)
EXTENDS PersesDashboard, TLC

CONSTANTS d1, d2, b1, b2, pA

\* Every dashboard has an AppBinding of its own; the second one's is missing first.
OwnRef == (d1 :> b1) @@ (d2 :> b2)
HalfBound == {(b1 :> pA) @@ (b2 :> NoServer)}
=============================================================================
