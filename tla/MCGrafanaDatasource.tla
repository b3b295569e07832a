-------------------------- MODULE MCGrafanaDatasource --------------------------
(* Values of GrafanaDatasource's constants for TLC. *)
EXTENDS GrafanaDatasource

\* References lead anywhere at first.
AnyBinding == [Datasources -> Grafanas \cup {NoGrafana}]
=============================================================================
