-------------------------- MODULE FinalizerContract --------------------------
(***************************************************************************)
(* What every finalizer in this repository promises.  A custom resource    *)
(* owns something outside the cluster (a dashboard in Grafana, a           *)
(* datasource, a registration at the hub).  The controller takes a         *)
(* finalizer on the resource before it creates the outside object and      *)
(* gives the finalizer up only when the outside object is gone, so that    *)
(* deleting the resource can never leave the outside object behind.        *)
(*                                                                         *)
(* This module says only that; the controllers' modules are shown to       *)
(* implement it through INSTANCE ... WITH.                                 *)
(***************************************************************************)

CONSTANT Owners            \* the resources that carry the finalizer

VARIABLES
    held,                  \* held[o]: the resource exists and carries the finalizer
    outside                \* outside[o]: the outside object of o exists

contractVars == <<held, outside>>

\* What an earlier release has provisioned is under the finalizer, too.
ContractInit ==
    /\ held \in [Owners -> BOOLEAN]
    /\ outside \in [Owners -> BOOLEAN]
    /\ \A o \in Owners : outside[o] => held[o]

\* The finalizer is added; nothing exists outside yet.
Acquire(o) ==
    /\ ~held[o]
    /\ held' = [held EXCEPT ![o] = TRUE]
    /\ UNCHANGED outside

\* The outside object is created or overwritten under the finalizer.
Provision(o) ==
    /\ held[o]
    /\ outside' = [outside EXCEPT ![o] = TRUE]
    /\ UNCHANGED held

\* The outside object is removed under the finalizer.
Withdraw(o) ==
    /\ held[o]
    /\ outside' = [outside EXCEPT ![o] = FALSE]
    /\ UNCHANGED held

\* The finalizer is given up once nothing is left outside.
Release(o) ==
    /\ held[o]
    /\ ~outside[o]
    /\ held' = [held EXCEPT ![o] = FALSE]
    /\ UNCHANGED outside

ContractNext ==
    \E o \in Owners : Acquire(o) \/ Provision(o) \/ Withdraw(o) \/ Release(o)

ContractSpec == ContractInit /\ [][ContractNext]_contractVars

\* The promise itself: whatever exists outside is claimed by a finalizer.
NothingLeftBehind == \A o \in Owners : outside[o] => held[o]

=============================================================================
