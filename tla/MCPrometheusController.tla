------------------------ MODULE MCPrometheusController ------------------------
(* Values of PrometheusController's constants for TLC. *)
EXTENDS PrometheusController, TLC

CONSTANTS p1, p2, n1, n2, r2

\* A namespace for every Prometheus.
OwnNs == (p1 :> n1) @@ (p2 :> n2)

\* The second Prometheus belongs to a Rancher project; or none does.
SecondInProject == (p1 :> None) @@ (p2 :> r2)
NoProject == [p \in Proms |-> None]
=============================================================================
