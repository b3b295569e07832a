-------------------------- MODULE MCGrafanaDashboard --------------------------
(* Values of GrafanaDashboard's constants for TLC. *)
EXTENDS GrafanaDashboard, TLC

CONSTANTS d1, d2, b1, b2, gA

\* Every dashboard has an AppBinding of its own, or all share one.
OwnRef == (d1 :> b1) @@ (d2 :> b2)
SharedRef == [d \in Dashboards |-> b1]

\* AppBindings point anywhere at first; or only the first one exists.
AnyBinding == [Bindings -> Targets]
HalfBound == {(b1 :> gA) @@ (b2 :> NoGrafana)}
=============================================================================
