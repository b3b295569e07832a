-------------------------- MODULE MCServiceMonitors --------------------------
(* Values of ServiceMonitors' constants for TLC. *)
EXTENDS ServiceMonitors, TLC

CONSTANTS dflt, pA, m1

\* The system Prometheus sorts first; the monitor lives in an application's
\* namespace or with the project Prometheus.
Sorting == (dflt :> 1) @@ (pA :> 2)
AnyInside == [Monitors -> {NoProm, pA}]
=============================================================================
