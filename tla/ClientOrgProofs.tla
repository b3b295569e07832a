---------------------------- MODULE ClientOrgProofs ----------------------------
(***************************************************************************)
(* Theorems about ClientOrg, for every bound: type correctness; that the   *)
(* registration marker of a monitoring namespace is stamped only when both *)
(* backends are registered with the cluster state it names; and that the   *)
(* reconciler implements FinalizerContract until a call to the hub fails   *)
(* or the label of the namespace is changed back.                          *)
(***************************************************************************)
EXTENDS ClientOrg, TLAPS

\* The initial records have their types.
LEMMA ConstantTypes ==
  /\ 0 \in States /\ 1 \in States
  /\ NoNamespace \in Namespace /\ NewNamespace \in Namespace
  /\ NoMonitoring \in Monitoring
<1>1. 0 \in States /\ 1 \in States
  BY ClientOrgAssumption DEF States
<1>2. NoNamespace \in Namespace
  BY DEF NoNamespace, Namespace, Labels
<1>3. NewNamespace \in Namespace
  BY <1>2 DEF NewNamespace, Namespace, Labels
<1>4. [b \in Backends |-> FALSE] \in [Backends -> BOOLEAN]
  BY Zenon
<1>5. NoMonitoring \in Monitoring
  BY <1>1, <1>4 DEF NoMonitoring, Monitoring
<1>6. QED
  BY <1>1, <1>2, <1>3, <1>5

LEMMA ReturnType ==
  ASSUME NEW r \in BOOLEAN, queued \in BOOLEAN, Return(r)
  PROVE  /\ queued' \in BOOLEAN /\ pc' = "idle" /\ local' \in Namespace
         /\ marker' \in States /\ chosen' \in States
         /\ backend' \in Backends /\ failed' \in BOOLEAN
<1>1. queued' \in BOOLEAN
  BY DEF Return
<1>2. QED
  BY <1>1, ConstantTypes DEF Return, Backends

LEMMA InitType == Init => TypeOK
<1> SUFFICES ASSUME Init PROVE TypeOK
  OBVIOUS
<1>1. hub \in [Backends -> States]
  BY ConstantTypes DEF Init
<1>2. QED
  BY <1>1, ConstantTypes DEF Init, TypeOK, Backends

\* registerBackends goes on.
LEMMA NextBackendType ==
  ASSUME TypeOK, NEW e \in BOOLEAN, NextBackend(e)
  PROVE  /\ failed' \in BOOLEAN /\ backend' \in Backends /\ pc' \in Activating
         /\ queued' \in BOOLEAN /\ local' \in Namespace
         /\ marker' \in States /\ chosen' \in States
<1>1. failed' \in BOOLEAN
  BY DEF NextBackend, TypeOK
<1>2. QED
  BY <1>1 DEF NextBackend, TypeOK, Activating, Registering, Backends

\* The types the properties need of the worker and of what it writes.
LEMMA StepType == TypeOK /\ Step => TypeOK'
<1> SUFFICES ASSUME TypeOK, Step PROVE TypeOK'
  OBVIOUS
<1> USE DEF envVars, bounds
<1>1. CASE FreshRead
  BY <1>1, ReturnType DEF TypeOK, FreshRead, Goto, Activating
<1>2. CASE EnsureFinalizer
  <2>1. ns' \in Namespace
    BY <1>2 DEF TypeOK, EnsureFinalizer, Namespace
  <2>2. QED
    BY <1>2, <2>1, ReturnType DEF TypeOK, EnsureFinalizer, Goto, Activating
<1>3. CASE EnsureMonitoring
  <2>1. mon' \in Monitoring
    BY <1>3 DEF TypeOK, EnsureMonitoring, Monitoring
  <2>2. mon.marker \in States
    BY DEF TypeOK, Monitoring
  <2>3. QED
    BY <1>3, <2>1, <2>2, ReturnType DEF TypeOK, EnsureMonitoring, Activating
<1>4. CASE Configure
  BY <1>4, ReturnType DEF TypeOK, Configure, Activating, Registering
<1>5. CASE Register
  BY <1>5 DEF TypeOK, Register, Registered, NextBackend, Goto, Activating, Registering, Backends
<1>6. CASE Bind
  <2>1. mon' \in Monitoring
    <3>1. [mon.binding EXCEPT ![backend] = TRUE] \in [Backends -> BOOLEAN]
      BY DEF TypeOK, Monitoring
    <3>2. QED
      BY <1>6, <3>1 DEF TypeOK, Bind, Monitoring
  <2>2. QED
    BY <1>6, <2>1, NextBackendType DEF TypeOK, Bind, Goto, Activating, Registering
<1>7. CASE Authorize
  <2>1. mon' \in Monitoring
    BY <1>7 DEF TypeOK, Authorize, Monitoring
  <2>2. QED
    BY <1>7, <2>1 DEF TypeOK, Authorize, NextBackend, Activating, Registering, Backends
<1>8. CASE Stamp
  <2>1. mon' \in Monitoring
    BY <1>8 DEF TypeOK, Stamp, Monitoring
  <2>2. QED
    BY <1>8, <2>1, ReturnType DEF TypeOK, Stamp, Goto, Activating
<1>9. CASE CopyDashboards
  <2>1. mon' \in Monitoring
    BY <1>9 DEF TypeOK, CopyDashboards, Monitoring
  <2>2. QED
    BY <1>9, <2>1, ReturnType DEF TypeOK, CopyDashboards
<1>10. CASE Unregister
  BY <1>10, ClientOrgAssumption DEF TypeOK, Unregister, Unregistered, NextUnregister, TearingDown, Backends, States
<1>11. CASE Sweep
  <2>1. mon' \in Monitoring
    BY <1>11 DEF TypeOK, Sweep, Swept, Monitoring
  <2>2. QED
    BY <1>11, <2>1 DEF TypeOK, Sweep, Goto, TearingDown
<1>12. CASE RemoveFinalizer
  <2>1. ns' \in Namespace
    BY <1>12 DEF TypeOK, RemoveFinalizer, Namespace
  <2>2. QED
    BY <1>12, <2>1, ReturnType DEF TypeOK, RemoveFinalizer, Goto, TearingDown
<1>13. CASE MarkCleanedUp
  <2>1. ns' \in Namespace
    BY <1>13 DEF TypeOK, MarkCleanedUp, Namespace
  <2>2. (~ns.exists) \in BOOLEAN
    OBVIOUS
  <2>3. QED
    BY <1>13, <2>1, <2>2, ReturnType DEF TypeOK, MarkCleanedUp
<1>14. QED
  BY <1>1, <1>2, <1>3, <1>4, <1>5, <1>6, <1>7, <1>8, <1>9, <1>10, <1>11, <1>12, <1>13 DEF Step

\* The types what happens around the worker leaves.
LEMMA EnvironmentType ==
  ASSUME TypeOK, User \/ Cluster \/ Deliver \/ TricksterEvent \/ Resync \/ Restart
  PROVE  TypeOK'
<1> USE DEF envVars, workerVars, bounds
<1>0. NoNamespace \in Namespace /\ NewNamespace \in Namespace /\ NoMonitoring \in Monitoring
  BY ConstantTypes
<1>1. ASSUME NEW l \in Labels, SetLabel(l) PROVE TypeOK'
  <2>1. ns' \in Namespace
    BY <1>1 DEF TypeOK, SetLabel, Namespace
  <2>2. QED
    BY <1>1, <2>1 DEF TypeOK, SetLabel
<1>2. CASE DeleteNamespace
  <2>1. ns' \in Namespace
    BY <1>2 DEF TypeOK, DeleteNamespace, Namespace
  <2>2. QED
    BY <1>2, <2>1 DEF TypeOK, DeleteNamespace
<1>3. CASE CreateNamespace
  BY <1>0, <1>3 DEF TypeOK, CreateNamespace
<1>4. ASSUME NEW b \in Backends, DropBinding(b) PROVE TypeOK'
  <2>1. mon' \in Monitoring
    BY <1>4 DEF TypeOK, DropBinding, Monitoring
  <2>2. QED
    BY <1>4, <2>1 DEF TypeOK, DropBinding
<1>5. CASE DropMonitoring
  <2>1. mon' \in Monitoring
    BY <1>5 DEF TypeOK, DropMonitoring, Monitoring
  <2>2. QED
    BY <1>5, <2>1 DEF TypeOK, DropMonitoring
<1>6. CASE RemovePrometheus
  <2>1. prometheus' = FALSE /\ trickster' = FALSE /\ drops' \in Nat
    BY <1>6 DEF TypeOK, RemovePrometheus
  <2>2. QED
    BY <1>6, <2>1 DEF TypeOK, RemovePrometheus
<1>7. CASE Cluster
  <2>1. CASE NamespaceGone
    BY <1>0, <2>1 DEF TypeOK, NamespaceGone
  <2>2. CASE MonitoringGone
    BY <1>0, <2>2 DEF TypeOK, MonitoringGone
  <2>3. CASE CopiesGone
    <3>1. mon' \in Monitoring
      BY <2>3 DEF TypeOK, CopiesGone, Monitoring
    <3>2. QED
      BY <2>3, <3>1 DEF TypeOK, CopiesGone
  <2>4. CASE ChangeState
    BY <2>4, ClientOrgAssumption DEF TypeOK, ChangeState, States
  <2>5. CASE TricksterRegistered
    BY <2>5 DEF TypeOK, TricksterRegistered
  <2>6. QED
    BY <1>7, <2>1, <2>2, <2>3, <2>4, <2>5 DEF Cluster
<1>8. CASE Deliver
  <2>1. Filter(IF ns.exists THEN ns ELSE cached) \in BOOLEAN
    BY DEF Filter
  <2>2. QED
    BY <1>8, <2>1 DEF TypeOK, Deliver
<1>9. CASE TricksterEvent \/ Resync
  BY <1>9 DEF TypeOK, TricksterEvent, Resync
<1>10. CASE Restart
  <2>1. queued' \in BOOLEAN
    BY <1>10, Zenon DEF Restart
  <2>2. crashes' \in Nat
    BY <1>10 DEF TypeOK, Restart
  <2>3. QED
    BY <1>10, <2>1, <2>2, ConstantTypes DEF TypeOK, Restart, Backends
<1>11. QED
  BY <1>1, <1>2, <1>3, <1>4, <1>5, <1>6, <1>7, <1>8, <1>9, <1>10 DEF User

LEMMA NextType == TypeOK /\ [Next]_vars => TypeOK'
<1> SUFFICES ASSUME TypeOK, [Next]_vars PROVE TypeOK'
  OBVIOUS
<1>1. CASE Start
  <2>1. FirstStep(cached) \in {"idle", "unregister", "fresh"}
    BY DEF FirstStep
  <2>2. QED
    BY <1>1, <2>1 DEF TypeOK, Start, workerVars, envVars, bounds, Activating, TearingDown
<1>2. CASE HubFault
  <2>1. hubFaults' \in Nat
    BY <1>2 DEF TypeOK, HubFault
  <2>2. Registered \in [Backends -> States] /\ Unregistered \in [Backends -> States]
    BY ConstantTypes DEF TypeOK, Registered, Unregistered
  <2>3. CASE pc = "register" /\ NextBackend(TRUE)
    BY <1>2, <2>1, <2>2, <2>3, NextBackendType DEF TypeOK, HubFault, envVars
  <2>4. CASE pc = "unregister"
    BY <1>2, <2>1, <2>2, <2>4
       DEF TypeOK, HubFault, NextUnregister, envVars, TearingDown, Backends
  <2>5. QED
    BY <1>2, <2>3, <2>4 DEF HubFault
<1>3. CASE ApiFault
  <2>1. apiFaults' \in Nat
    BY <1>3 DEF TypeOK, ApiFault
  <2>2. ASSUME NEW e \in BOOLEAN, NextBackend(e) PROVE TypeOK'
    BY <1>3, <2>1, <2>2, NextBackendType DEF TypeOK, ApiFault, envVars
  <2>3. CASE Return(TRUE)
    BY <1>3, <2>1, <2>3, ReturnType DEF TypeOK, ApiFault, envVars
  <2>4. QED
    BY <1>3, <2>2, <2>3 DEF ApiFault
<1>4. CASE UNCHANGED vars
  BY <1>4 DEF TypeOK, vars
<1>5. QED
  BY <1>1, <1>2, <1>3, <1>4, StepType, EnvironmentType DEF Next

\* Every variable keeps its type; what cached, local and mon hold are always
\* states of a namespace the code handles.
THEOREM ClientOrgTypeCorrect == Spec => []TypeOK
<1>1. QED
  BY InitType, NextType, PTL DEF Spec

-----------------------------------------------------------------------------

LEMMA InitMarker == Init => MarkerInv
BY DEF Init, MarkerInv, BeforeBackends, Registering

\* Whatever leaves the worker and the hub alone and does not put another
\* marker on a monitoring namespace preserves the invariant.
LEMMA AsideMarker ==
  ASSUME MarkerInv,
         UNCHANGED <<pc, backend, failed, marker, chosen, hub>>,
         mon'.exists => mon.exists /\ mon'.marker = mon.marker
  PROVE  MarkerInv'
BY DEF MarkerInv, Behind, BeforeBackends, Registering

\* A worker outside registerBackends has no obligation but its backend.
LEMMA OutsideMarker ==
  ASSUME pc' \notin Registering \cup {"config"},
         pc' \in BeforeBackends => backend' = "grafana"
  PROVE  MarkerInv'
BY DEF MarkerInv, Registering

LEMMA ReturnMarker ==
  ASSUME NEW r, Return(r)
  PROVE  MarkerInv'
BY OutsideMarker DEF Return, Registering

\* registerBackends goes on, past a backend that failed or is registered.
LEMMA NextBackendMarker ==
  ASSUME TypeOK, MarkerInv, pc \in {"register", "bind", "auth"},
         NEW e \in BOOLEAN, NextBackend(e), e \/ (Behind(backend) /\ UNCHANGED hub),
         mon'.exists => mon.exists /\ mon'.marker = mon.marker
  PROVE  MarkerInv'
<1>1. CASE backend = "grafana"
  BY <1>1 DEF TypeOK, NextBackend, MarkerInv, Behind, BeforeBackends, Registering
<1>2. CASE backend = "perses"
  BY <1>2 DEF TypeOK, NextBackend, MarkerInv, Behind, BeforeBackends, Registering
<1>3. QED
  BY <1>1, <1>2 DEF TypeOK, Backends

LEMMA StepMarker == TypeOK /\ MarkerInv /\ Step => MarkerInv'
<1> SUFFICES ASSUME TypeOK, MarkerInv, Step PROVE MarkerInv'
  OBVIOUS
<1>1. CASE FreshRead
  BY <1>1, ReturnMarker, OutsideMarker
     DEF FreshRead, Goto, MarkerInv, BeforeBackends, Registering
<1>2. CASE EnsureFinalizer
  BY <1>2, ReturnMarker, OutsideMarker
     DEF EnsureFinalizer, Goto, MarkerInv, BeforeBackends, Registering
<1>3. CASE EnsureMonitoring
  <2>1. CASE mon.exists /\ mon.deleting
    BY <1>3, <2>1, ReturnMarker DEF EnsureMonitoring
  <2>2. CASE ~(mon.exists /\ mon.deleting)
    <3>1. mon'.marker = marker'
      BY <1>3, <2>2 DEF EnsureMonitoring, TypeOK, Monitoring
    <3>2. QED
      BY <1>3, <2>2, <3>1 DEF EnsureMonitoring, MarkerInv, BeforeBackends, Registering
  <2>3. QED
    BY <2>1, <2>2
<1>4. CASE Configure
  <2>1. CASE Return(TRUE)
    BY <2>1, ReturnMarker
  <2>2. CASE ~Return(TRUE)
    BY <1>4, <2>2 DEF Configure, MarkerInv, BeforeBackends, Registering
  <2>3. QED
    BY <2>1, <2>2
<1>5. CASE Register
  <2>1. CASE NeedsRegistration(backend)
    <3>1. hub'[backend] = chosen
      BY <1>5, <2>1 DEF Register, Registered, TypeOK
    <3>2. hub'["grafana"] \in {chosen, hub["grafana"]}
      BY <1>5, <2>1 DEF Register, Registered, TypeOK, Backends
    <3>3. QED
      BY <1>5, <2>1, <3>1, <3>2
         DEF Register, Goto, MarkerInv, Behind, BeforeBackends, Registering
  <2>2. CASE ~NeedsRegistration(backend)
    BY <1>5, <2>2, NextBackendMarker DEF Register, NeedsRegistration, Behind
  <2>3. QED
    BY <2>1, <2>2
<1>6. CASE Bind
  <2>1. mon'.exists => mon.exists /\ mon'.marker = mon.marker
    BY <1>6 DEF Bind, TypeOK, Monitoring
  <2>2. CASE NextBackend(TRUE)
    BY <1>6, <2>1, <2>2, NextBackendMarker DEF Bind
  <2>3. CASE Goto("auth")
    BY <1>6, <2>1, <2>3 DEF Bind, Goto, MarkerInv, Behind, BeforeBackends, Registering
  <2>4. QED
    BY <1>6, <2>2, <2>3 DEF Bind
<1>7. CASE Authorize
  <2>1. mon'.exists => mon.exists /\ mon'.marker = mon.marker
    BY <1>7 DEF Authorize, TypeOK, Monitoring
  <2>2. Behind(backend)
    BY <1>7 DEF Authorize, MarkerInv, Behind
  <2>3. QED
    BY <1>7, <2>1, <2>2, NextBackendMarker DEF Authorize
<1>8. CASE Stamp
  BY <1>8, ReturnMarker, OutsideMarker DEF Stamp, Goto, BeforeBackends, Registering
<1>9. CASE CopyDashboards
  BY <1>9, ReturnMarker DEF CopyDashboards
<1>10. CASE Unregister
  BY <1>10, OutsideMarker DEF Unregister, NextUnregister, BeforeBackends, Registering
<1>11. CASE Sweep
  BY <1>11, OutsideMarker DEF Sweep, Goto, BeforeBackends, Registering
<1>12. CASE RemoveFinalizer
  BY <1>12, ReturnMarker, OutsideMarker
     DEF RemoveFinalizer, Goto, BeforeBackends, Registering
<1>13. CASE MarkCleanedUp
  BY <1>13, ReturnMarker DEF MarkCleanedUp
<1>14. QED
  BY <1>1, <1>2, <1>3, <1>4, <1>5, <1>6, <1>7, <1>8, <1>9, <1>10, <1>11, <1>12, <1>13 DEF Step

LEMMA EnvironmentMarker ==
  ASSUME TypeOK, MarkerInv, User \/ Cluster \/ Deliver \/ TricksterEvent \/ Resync
  PROVE  MarkerInv'
<1>1. UNCHANGED <<pc, backend, failed, marker, chosen, hub>>
  BY DEF User, Cluster, SetLabel, DeleteNamespace, CreateNamespace, DropBinding, DropMonitoring,
         RemovePrometheus, NamespaceGone, MonitoringGone, CopiesGone, ChangeState,
         TricksterRegistered, Deliver, TricksterEvent, Resync, workerVars
<1>2. mon'.exists => mon.exists /\ mon'.marker = mon.marker
  <2>1. ASSUME NEW b \in Backends, DropBinding(b) PROVE mon'.exists = mon.exists /\ mon'.marker = mon.marker
    BY <2>1 DEF DropBinding, TypeOK, Monitoring
  <2>2. CASE DropMonitoring \/ CopiesGone
    BY <2>2 DEF DropMonitoring, CopiesGone, TypeOK, Monitoring
  <2>3. CASE MonitoringGone
    BY <2>3 DEF MonitoringGone, NoMonitoring
  <2>4. CASE UNCHANGED mon
    BY <2>4
  <2>5. QED
    BY <2>1, <2>2, <2>3, <2>4
       DEF User, Cluster, SetLabel, DeleteNamespace, CreateNamespace, RemovePrometheus,
           NamespaceGone, ChangeState, TricksterRegistered, Deliver, TricksterEvent, Resync
<1>3. QED
  BY <1>1, <1>2, AsideMarker

LEMMA NextMarker == TypeOK /\ MarkerInv /\ [Next]_vars => MarkerInv'
<1> SUFFICES ASSUME TypeOK, MarkerInv, [Next]_vars PROVE MarkerInv'
  OBVIOUS
<1>1. CASE Start
  <2>1. FirstStep(cached) \in {"idle", "unregister", "fresh"}
    BY DEF FirstStep
  <2>2. QED
    BY <1>1, <2>1, OutsideMarker
       DEF Start, workerVars, MarkerInv, BeforeBackends, Registering
<1>2. CASE HubFault
  <2>1. CASE pc = "register" /\ NextBackend(TRUE)
    BY <1>2, <2>1, NextBackendMarker DEF HubFault
  <2>2. CASE pc = "unregister"
    BY <1>2, <2>2, OutsideMarker DEF HubFault, NextUnregister, BeforeBackends, Registering
  <2>3. QED
    BY <1>2, <2>1, <2>2 DEF HubFault
<1>3. CASE ApiFault
  <2>1. CASE pc = "bind" /\ NextBackend(TRUE)
    BY <1>3, <2>1, NextBackendMarker DEF ApiFault
  <2>2. CASE pc = "auth" /\ NextBackend(FALSE)
    <3>1. Behind(backend)
      BY <2>2 DEF MarkerInv, Behind
    <3>2. QED
      BY <1>3, <2>2, <3>1, NextBackendMarker DEF ApiFault
  <2>3. CASE Return(TRUE)
    BY <2>3, ReturnMarker
  <2>4. QED
    BY <1>3, <2>1, <2>2, <2>3 DEF ApiFault
<1>4. CASE Restart
  BY <1>4, OutsideMarker DEF Restart, Registering
<1>5. CASE UNCHANGED vars
  BY <1>5, AsideMarker DEF vars
<1>6. QED
  BY <1>1, <1>2, <1>3, <1>4, <1>5, StepMarker, EnvironmentMarker DEF Next

\* The invariant of registerBackends: the marker the worker read is still the
\* one on the monitoring namespace, and every backend behind it is registered
\* unless its failure is on record.
THEOREM MarkerInvariant == Spec => []MarkerInv
<1>1. QED
  BY InitType, NextType, InitMarker, NextMarker, PTL DEF Spec

LEMMA OnlyStampMarks ==
  ASSUME TypeOK, [Next]_vars, mon'.marker # mon.marker, mon'.marker # 0
  PROVE  Stamp
<1>1. ASSUME NEW b \in Backends, DropBinding(b) PROVE FALSE
  BY <1>1 DEF DropBinding, TypeOK, Monitoring
<1>2. CASE DropMonitoring \/ CopiesGone \/ EnsureMonitoring \/ Bind \/ Authorize
  BY <1>2 DEF DropMonitoring, CopiesGone, EnsureMonitoring, Bind, Authorize, TypeOK, Monitoring
<1>3. CASE MonitoringGone
  BY <1>3 DEF MonitoringGone, NoMonitoring
<1>4. CASE CopyDashboards \/ Sweep
  BY <1>4 DEF CopyDashboards, Sweep, TypeOK, Monitoring
<1>5. CASE UNCHANGED mon
  BY <1>5
<1>6. QED
  BY <1>1, <1>2, <1>3, <1>4, <1>5
     DEF Next, User, Cluster, Step, SetLabel, DeleteNamespace, CreateNamespace, RemovePrometheus,
         NamespaceGone, ChangeState, TricksterRegistered, Deliver, TricksterEvent, Resync, Restart, Start,
         FreshRead, EnsureFinalizer, Configure, Register, Unregister, RemoveFinalizer,
         MarkCleanedUp, HubFault, ApiFault, envVars, vars

\* The marker of a monitoring namespace is stamped only when both backends are
\* registered with the cluster state it names: a failed backend, a restart, a
\* monitoring namespace that was deleted and made again or a cluster whose
\* state changes meanwhile never leave a marker that promises too much.
THEOREM MarkerIsHonest == Spec => StampedMeansRegistered
<1>1. TypeOK /\ MarkerInv /\ [Next]_vars
        => [mon'.marker # mon.marker /\ mon'.marker # 0
              => \A b \in Backends : hub[b] = mon'.marker]_vars
  <2> SUFFICES ASSUME TypeOK, MarkerInv, [Next]_vars, mon'.marker # mon.marker, mon'.marker # 0,
                      NEW b \in Backends
               PROVE  hub[b] = mon'.marker
    OBVIOUS
  <2>1. Stamp
    BY OnlyStampMarks
  <2>2. ~failed /\ mon.exists /\ pc = "stamp" /\ mon'.marker = chosen
    BY <2>1 DEF Stamp, MayStamp, TypeOK, Monitoring
  <2>3. marker # chosen
    BY <2>2 DEF MarkerInv, Registering
  <2>4. QED
    BY <2>2, <2>3 DEF MarkerInv, Behind, Registering, Backends
<1>2. QED
  BY <1>1, InitType, NextType, InitMarker, NextMarker, PTL DEF Spec, StampedMeansRegistered

-----------------------------------------------------------------------------

\* A namespace that is not there, or was just created, has no finalizer and is
\* not terminating.
LEMMA BlankNamespaces ==
  /\ ~NoNamespace.finalizer /\ NoNamespace.label # "terminating"
  /\ ~NewNamespace.finalizer /\ NewNamespace.label # "terminating"
<1>1. NoNamespace.finalizer = FALSE /\ NoNamespace.label = ""
  BY Zenon DEF NoNamespace
<1>2. "" # "terminating"
  BY Zenon
<1>3. NewNamespace.finalizer = NoNamespace.finalizer /\ NewNamespace.label = "true"
  BY ConstantTypes DEF NewNamespace, Namespace
<1>4. QED
  BY <1>1, <1>2, <1>3, Zenon

LEMMA InitGuard == Init => GuardInv
<1> SUFFICES ASSUME Init PROVE GuardInv
  OBVIOUS
<1>1. ~ns.finalizer /\ ns.label # "terminating" /\ ~cached.finalizer
  BY BlankNamespaces DEF Init
<1>2. (\A b \in Backends : hub[b] = 0) /\ mon.copies = "none" /\ pc = "idle"
  BY DEF Init, NoMonitoring
<1>3. QED
  BY <1>1, <1>2 DEF GuardInv, Provided, Registering, TearingDown

\* The faults of the hub and the changes of the label are only counted up.
LEMMA UndisturbedBefore ==
  ASSUME TypeOK, [Next]_vars, Undisturbed'
  PROVE  /\ Undisturbed /\ ~HubFault
         /\ labels' = labels \/ (labels = 0 /\ \E l \in Labels : SetLabel(l))
<1>1. ASSUME NEW l \in Labels, SetLabel(l) PROVE labels = 0 /\ UNCHANGED hubFaults
  BY <1>1 DEF SetLabel, Undisturbed, TypeOK
<1>2. ~HubFault
  <2>1. hubFaults \in Nat /\ hubFaults' = 0
    BY DEF TypeOK, Undisturbed
  <2>2. HubFault => hubFaults' = hubFaults + 1
    BY DEF HubFault
  <2>3. QED
    BY <2>1, <2>2
<1>3. CASE ~\E l \in Labels : SetLabel(l)
  <2>1. UNCHANGED <<labels, hubFaults>>
    BY <1>2, <1>3
       DEF Next, User, Cluster, Step, DeleteNamespace, CreateNamespace, DropBinding, DropMonitoring,
           RemovePrometheus, NamespaceGone, MonitoringGone, CopiesGone, ChangeState,
           TricksterRegistered, Deliver, TricksterEvent, Resync, Restart, Start, FreshRead,
           EnsureFinalizer, EnsureMonitoring, Configure, Register, Bind, Authorize, Stamp,
           CopyDashboards, Unregister, Sweep, RemoveFinalizer, MarkCleanedUp, ApiFault, bounds, vars
  <2>2. QED
    BY <1>2, <2>1 DEF Undisturbed
<1>4. QED
  BY <1>1, <1>2, <1>3 DEF Undisturbed

\* What users, the cluster and the informer do preserves the invariant.
LEMMA EnvironmentGuard ==
  ASSUME TypeOK, GuardInv, [Next]_vars, Undisturbed',
         User \/ Cluster \/ Deliver \/ TricksterEvent \/ Resync \/ Restart
  PROVE  GuardInv'
<1> USE DEF bounds, workerVars, envVars, Provided, Going, Undisturbed
<1>0. Undisturbed
  BY UndisturbedBefore
<1>1. ASSUME NEW l \in Labels, SetLabel(l) PROVE GuardInv'
  <2>1. labels = 0 /\ labels' = 1
    BY <1>0, <1>1 DEF SetLabel, TypeOK
  <2>2. /\ ns'.exists = ns.exists /\ ns'.finalizer = ns.finalizer /\ ns'.deleting = ns.deleting
        /\ ns.label # "terminating"
    BY <1>0, <1>1, <2>1 DEF SetLabel, TypeOK, Namespace, GuardInv
  <2>3. UNCHANGED <<cached, mon, hub, pc, local, backend>>
    BY <1>1 DEF SetLabel
  <2>4. QED
    BY <1>0, <2>1, <2>2, <2>3 DEF GuardInv
<1>2. CASE DeleteNamespace
  <2>1. /\ ns'.exists = ns.exists /\ ns'.finalizer = ns.finalizer /\ ns'.deleting
        /\ ns'.label = ns.label
    BY <1>2 DEF DeleteNamespace, TypeOK, Namespace
  <2>2. UNCHANGED <<cached, mon, hub, pc, local, backend, labels, hubFaults>>
    BY <1>2 DEF DeleteNamespace
  <2>3. QED
    BY <1>0, <2>1, <2>2 DEF GuardInv
<1>3. CASE CreateNamespace \/ NamespaceGone
  <2>1. ~ns.finalizer /\ ~ns'.finalizer /\ ns'.label # "terminating"
    BY <1>3, BlankNamespaces DEF CreateNamespace, NamespaceGone, GuardInv
  <2>2. UNCHANGED <<cached, mon, hub, pc, local, backend, labels, hubFaults>>
    BY <1>3 DEF CreateNamespace, NamespaceGone
  <2>3. QED
    BY <1>0, <2>1, <2>2 DEF GuardInv
<1>4. CASE (\E b \in Backends : DropBinding(b)) \/ DropMonitoring \/ MonitoringGone \/ CopiesGone
  <2>1. mon'.copies = mon.copies \/ mon'.copies # "live"
    <3>1. ASSUME NEW b \in Backends, DropBinding(b) PROVE mon'.copies = mon.copies
      BY <3>1 DEF DropBinding, TypeOK, Monitoring
    <3>2. CASE DropMonitoring \/ CopiesGone
      BY <3>2 DEF DropMonitoring, CopiesGone, TypeOK, Monitoring
    <3>3. CASE MonitoringGone
      BY <3>3 DEF MonitoringGone, NoMonitoring
    <3>4. QED
      BY <1>4, <3>1, <3>2, <3>3
  <2>2. UNCHANGED <<ns, cached, hub, pc, local, backend, labels, hubFaults>>
    BY <1>4 DEF DropBinding, DropMonitoring, MonitoringGone, CopiesGone
  <2>3. QED
    BY <1>0, <2>1, <2>2 DEF GuardInv
<1>5. CASE RemovePrometheus \/ ChangeState \/ TricksterRegistered \/ TricksterEvent \/ Resync
  <2>1. UNCHANGED <<ns, cached, mon, hub, pc, local, backend, labels, hubFaults>>
    BY <1>5 DEF RemovePrometheus, ChangeState, TricksterRegistered, TricksterEvent, Resync
  <2>2. QED
    BY <1>0, <2>1 DEF GuardInv
<1>6. CASE Deliver
  <2>1. cached' = ns /\ UNCHANGED <<ns, mon, hub, pc, local, backend, labels, hubFaults>>
    BY <1>6 DEF Deliver
  <2>2. QED
    BY <1>0, <2>1 DEF GuardInv
<1>7. CASE Restart
  <2>1. /\ cached' = ns /\ pc' = "idle"
        /\ UNCHANGED <<ns, mon, hub, labels, hubFaults>>
    BY <1>7 DEF Restart
  <2>2. QED
    BY <1>0, <2>1 DEF GuardInv, Registering, TearingDown
<1>8. QED
  BY <1>1, <1>2, <1>3, <1>4, <1>5, <1>6, <1>7 DEF User, Cluster

\* A Reconcile that is over, or that has gone on without a call that mattered.
LEMMA IdleGuard ==
  ASSUME GuardInv, Undisturbed, Undisturbed', pc' = "idle",
         UNCHANGED <<ns, cached, mon, hub, labels>>
  PROVE  GuardInv'
BY DEF GuardInv, Provided, Registering, TearingDown

LEMMA ReturnGuard ==
  ASSUME GuardInv, Undisturbed, Undisturbed', NEW r, Return(r),
         UNCHANGED <<ns, cached, mon, hub, labels>>
  PROVE  GuardInv'
BY IdleGuard DEF Return

\* While the worker is past the finalizer it may write what it likes.
LEMMA WorkingGuard ==
  ASSUME GuardInv, Undisturbed, Undisturbed', UNCHANGED <<ns, cached, labels>>,
         ns.finalizer,
         pc' \in {"idle", "monitoring", "config", "copy"} \cup Registering
  PROVE  GuardInv'
BY DEF GuardInv, Registering, TearingDown

LEMMA NextBackendStep ==
  ASSUME NEW e, NextBackend(e)
  PROVE  pc' \in Registering
BY DEF NextBackend, Registering

\* The steps that provision.
LEMMA ActivatingGuard ==
  ASSUME TypeOK, GuardInv, [Next]_vars, Undisturbed',
         \/ FreshRead \/ EnsureFinalizer \/ EnsureMonitoring \/ Configure
         \/ Register \/ Bind \/ Authorize \/ Stamp \/ CopyDashboards
  PROVE  GuardInv'
<1>0. Undisturbed
  BY UndisturbedBefore
<1> USE DEF bounds, envVars
<1>1. CASE FreshRead
  <2>1. UNCHANGED <<ns, cached, mon, hub, labels>>
    BY <1>1 DEF FreshRead
  <2>2. CASE Goto("finalizer")
    <3>1. pc = "fresh" /\ pc' = "finalizer" /\ local' = local
      BY <1>1, <2>2 DEF FreshRead, Goto
    <3>2. QED
      BY <1>0, <2>1, <3>1 DEF GuardInv, Provided, Registering, TearingDown
  <2>3. QED
    BY <1>0, <1>1, <2>1, <2>2, ReturnGuard DEF FreshRead
<1>2. CASE EnsureFinalizer
  <2>1. UNCHANGED <<cached, mon, hub, labels>> /\ pc = "finalizer"
    BY <1>2 DEF EnsureFinalizer
  <2>2. CASE local.finalizer
    <3>1. pc' = "monitoring" /\ UNCHANGED ns
      BY <1>2, <2>2 DEF EnsureFinalizer, AddsFinalizer, Goto
    <3>2. ns.finalizer
      BY <1>0, <2>1, <2>2 DEF GuardInv
    <3>3. QED
      BY <1>0, <2>1, <3>1, <3>2, WorkingGuard
  <2>3. CASE ~local.finalizer /\ ns.exists /\ ~ns.deleting
    <3>1. pc' = "monitoring" /\ ns' = [ns EXCEPT !.finalizer = TRUE]
      BY <1>2, <2>3 DEF EnsureFinalizer, AddsFinalizer, Goto
    <3>2. /\ ns'.finalizer /\ ns'.exists /\ ns'.label = ns.label
          /\ ns'.deleting = ns.deleting
      BY <2>3, <3>1 DEF TypeOK, Namespace
    <3>3. cached.finalizer => ns.finalizer
      BY <1>0, <2>1 DEF GuardInv
    <3>4. QED
      BY <1>0, <2>1, <3>1, <3>2, <3>3 DEF GuardInv, Provided, Going, Registering, TearingDown
  <2>4. CASE ~local.finalizer /\ ~(ns.exists /\ ~ns.deleting)
    BY <1>0, <1>2, <2>1, <2>4, ReturnGuard DEF EnsureFinalizer, AddsFinalizer
  <2>5. QED
    BY <2>2, <2>3, <2>4
<1>3. CASE \/ EnsureMonitoring \/ Configure \/ Register \/ Bind \/ Authorize \/ Stamp
           \/ CopyDashboards
  <2>1. pc \in {"monitoring", "config", "copy"} \cup Registering
    BY <1>3 DEF EnsureMonitoring, Configure, Register, Bind, Authorize, Stamp, CopyDashboards,
                Registering
  <2>2. UNCHANGED <<ns, cached, labels>>
    BY <1>3 DEF EnsureMonitoring, Configure, Register, Bind, Authorize, Stamp, CopyDashboards
  <2>3. pc' \in {"idle", "monitoring", "config", "copy"} \cup Registering
    BY <1>3, NextBackendStep
       DEF EnsureMonitoring, Configure, Register, Bind, Authorize, Stamp, CopyDashboards,
           Goto, Return, Registering
  <2>4. QED
    BY <1>0, <2>1, <2>2, <2>3, WorkingGuard DEF GuardInv
<1>4. QED
  BY <1>1, <1>2, <1>3

\* The steps that take down.
LEMMA EndingGuard ==
  ASSUME TypeOK, MarkerInv, GuardInv, [Next]_vars, Undisturbed',
         Unregister \/ Sweep \/ RemoveFinalizer \/ MarkCleanedUp
  PROVE  GuardInv'
<1>0. Undisturbed
  BY UndisturbedBefore
<1> USE DEF bounds, envVars
<1>1. CASE Unregister
  <2>1. UNCHANGED <<ns, cached, mon, local, labels>> /\ pc = "unregister"
    BY <1>1 DEF Unregister, NextUnregister
  <2>2. hub' = [hub EXCEPT ![backend] = 0]
    BY <1>1 DEF Unregister, Unregistered
  <2>3. Provided' => Provided
    BY <2>1, <2>2 DEF Provided, TypeOK, Backends
  <2>4. CASE backend = "grafana"
    <3>1. pc' = "unregister" /\ backend' = "perses" /\ hub'["grafana"] = 0
      BY <1>1, <2>1, <2>2, <2>4 DEF Unregister, NextUnregister, TypeOK, Backends
    <3>2. QED
      BY <1>0, <2>1, <2>3, <3>1 DEF GuardInv, Registering, TearingDown
  <2>5. CASE backend = "perses"
    <3>1. pc' = "sweep" /\ hub["grafana"] = 0
      BY <1>0, <1>1, <2>1, <2>5 DEF Unregister, NextUnregister, GuardInv
    <3>2. \A b \in Backends : hub'[b] = 0
      BY <2>2, <2>5, <3>1 DEF TypeOK, Backends
    <3>3. QED
      BY <1>0, <2>1, <2>3, <3>1, <3>2 DEF GuardInv, Registering, TearingDown
  <2>6. QED
    BY <2>4, <2>5 DEF TypeOK, Backends
<1>2. CASE Sweep
  <2>1. UNCHANGED <<ns, cached, hub, local, labels>> /\ pc = "sweep" /\ pc' = "release"
    BY <1>2 DEF Sweep, Goto
  <2>2. mon'.copies # "live"
    BY <1>2 DEF Sweep, Swept, TypeOK, Monitoring
  <2>3. QED
    BY <1>0, <2>1, <2>2 DEF GuardInv, Provided, Registering, TearingDown
<1>3. CASE RemoveFinalizer
  <2>1. UNCHANGED <<cached, mon, hub, labels>> /\ pc = "release"
    BY <1>3 DEF RemoveFinalizer
  <2>2. ~Provided /\ ~Provided'
    BY <1>0, <2>1 DEF GuardInv, Provided
  <2>3. pc' = "idle" \/ (pc' = "cleaned" /\ local' = local)
    BY <1>3 DEF RemoveFinalizer, Return, Goto
  <2>4. /\ ns'.finalizer = (ns.finalizer /\ ~local.finalizer)
        /\ ns'.exists = ns.exists /\ ns'.label = ns.label /\ ns'.deleting = ns.deleting
    BY <1>3 DEF RemoveFinalizer, TypeOK, Namespace, GuardInv
  <2>5. cached.finalizer /\ local.finalizer => Going(cached)
    BY <1>0, <2>1 DEF GuardInv, TearingDown
  <2>6. \A b \in Backends : hub'[b] = 0
    BY <1>0, <2>1 DEF GuardInv
  <2>7. mon'.copies # "live"
    BY <1>0, <2>1 DEF GuardInv
  <2>8. (ns'.finalizer => ns'.exists) /\ (labels' = 0 => ns'.label # "terminating")
    BY <1>0, <2>1, <2>4 DEF GuardInv
  <2>9. /\ cached'.finalizer /\ ~Going(cached') => ns'.finalizer
        /\ cached'.finalizer /\ ns'.finalizer /\ Going(cached') => Going(ns')
    BY <1>0, <2>1, <2>4, <2>5 DEF GuardInv, Going
  <2>10. pc' = "cleaned" /\ local'.finalizer =>
           /\ ns'.finalizer => Going(ns')
           /\ cached'.finalizer => Going(cached')
    BY <2>1, <2>3, <2>4, <2>5
  <2>11. QED
    BY <2>2, <2>3, <2>6, <2>7, <2>8, <2>9, <2>10 DEF GuardInv, Registering, TearingDown
<1>4. CASE MarkCleanedUp
  <2>1. UNCHANGED <<cached, mon, hub, labels>> /\ pc' = "idle"
    BY <1>4 DEF MarkCleanedUp, Return
  <2>2. /\ ns'.exists = ns.exists /\ ns'.finalizer = ns.finalizer
        /\ ns'.label = ns.label /\ ns'.deleting = ns.deleting
    BY <1>4 DEF MarkCleanedUp, TypeOK, Namespace
  <2>3. QED
    BY <1>0, <2>1, <2>2 DEF GuardInv, Provided, Going, Registering, TearingDown
<1>5. QED
  BY <1>1, <1>2, <1>3, <1>4

LEMMA StartGuard ==
  ASSUME TypeOK, MarkerInv, GuardInv, Start, Undisturbed, Undisturbed'
  PROVE  GuardInv'
<1>1. UNCHANGED <<ns, cached, mon, hub, labels>> /\ pc = "idle"
  BY DEF Start, bounds
<1>2. CASE pc' = "idle"
  BY <1>1, <1>2, IdleGuard
<1>3. CASE pc' # "idle"
  <2>1. /\ pc' = FirstStep(cached) /\ local' = cached /\ backend' = "grafana"
    BY <1>1, <1>3 DEF Start, workerVars, MarkerInv, BeforeBackends
  <2>2. CASE Going(cached)
    <3>1. pc' = "unregister"
      BY <1>3, <2>1, <2>2 DEF FirstStep, Going
    <3>2. QED
      BY <1>1, <2>1, <2>2, <3>1 DEF GuardInv, Provided, Registering, TearingDown
  <2>3. CASE ~Going(cached)
    <3>1. pc' = "fresh"
      BY <2>1, <2>3 DEF FirstStep, Going
    <3>2. QED
      BY <1>1, <2>1, <2>3, <3>1 DEF GuardInv, Provided, Registering, TearingDown
  <2>4. QED
    BY <2>2, <2>3
<1>4. QED
  BY <1>2, <1>3

LEMMA NextGuard == TypeOK /\ MarkerInv /\ GuardInv /\ [Next]_vars => GuardInv'
<1> SUFFICES ASSUME TypeOK, MarkerInv, GuardInv, [Next]_vars PROVE GuardInv'
  OBVIOUS
<1>1. CASE Undisturbed'
  <2>1. Undisturbed /\ ~HubFault
    BY <1>1, UndisturbedBefore
  <2>2. CASE Step
    BY <1>1, <2>2, ActivatingGuard, EndingGuard DEF Step
  <2>3. CASE Start
    BY <1>1, <2>1, <2>3, StartGuard
  <2>4. CASE User \/ Cluster \/ Deliver \/ TricksterEvent \/ Resync \/ Restart
    BY <1>1, <2>4, EnvironmentGuard
  <2>5. CASE ApiFault
    <3>1. UNCHANGED <<ns, cached, mon, hub, labels>>
      BY <2>5 DEF ApiFault
    <3>2. CASE Return(TRUE)
      BY <1>1, <2>1, <3>1, <3>2, ReturnGuard
    <3>3. CASE \/ pc = "bind" /\ NextBackend(TRUE)
               \/ pc = "auth" /\ NextBackend(FALSE)
      <4>1. pc' \in Registering /\ ns.finalizer
        BY <2>1, <3>3, NextBackendStep DEF GuardInv, Registering
      <4>2. QED
        BY <1>1, <2>1, <3>1, <4>1, WorkingGuard
    <3>4. QED
      BY <2>5, <3>2, <3>3 DEF ApiFault
  <2>6. CASE UNCHANGED vars
    BY <2>6 DEF vars, GuardInv, Undisturbed, Provided
  <2>7. QED
    BY <2>1, <2>2, <2>3, <2>4, <2>5, <2>6 DEF Next
<1>2. CASE ~Undisturbed'
  <2>1. ns'.finalizer => ns'.exists
    <3>1. CASE UNCHANGED ns
      BY <3>1 DEF GuardInv
    <3>2. CASE CreateNamespace \/ NamespaceGone
      BY <3>2, BlankNamespaces DEF CreateNamespace, NamespaceGone
    <3>3. CASE \/ DeleteNamespace \/ EnsureFinalizer \/ RemoveFinalizer \/ MarkCleanedUp
               \/ \E l \in Labels : SetLabel(l)
      BY <3>3 DEF DeleteNamespace, EnsureFinalizer, RemoveFinalizer, MarkCleanedUp, SetLabel,
                  TypeOK, Namespace, GuardInv
    <3>4. QED
      BY <3>1, <3>2, <3>3
         DEF Next, User, Cluster, Step, DropBinding, DropMonitoring, RemovePrometheus,
             MonitoringGone, CopiesGone, ChangeState, TricksterRegistered, Deliver,
             TricksterEvent, Resync, Restart, Start, FreshRead, EnsureMonitoring, Configure,
             Register, Bind, Authorize, Stamp, CopyDashboards, Unregister, Sweep, HubFault,
             ApiFault, vars
  <2>2. QED
    BY <1>2, <2>1 DEF GuardInv
<1>3. QED
  BY <1>1, <1>2

\* In every reachable state of an undisturbed reconciler the registrations and
\* the copies of an organisation are under the finalizer of its namespace.
THEOREM GuardInvariant == Spec => []GuardInv
<1>1. QED
  BY InitType, NextType, InitMarker, NextMarker, InitGuard, NextGuard, PTL DEF Spec

\* What registerBackends has read and done so far agrees with the hub and the
\* monitoring namespace in every reachable state.
THEOREM ClientOrgInvariant == Spec => []Inv
BY ClientOrgTypeCorrect, MarkerInvariant, GuardInvariant, PTL DEF Inv
-----------------------------------------------------------------------------

LEMMA InitContract == Init => Contract!ContractInit
<1> SUFFICES ASSUME Init PROVE Contract!ContractInit
  OBVIOUS
<1>1. (\A b \in Backends : hub[b] = 0) /\ mon.copies = "none"
  BY DEF Init, NoMonitoring
<1>2. ~Provided
  BY <1>1 DEF Provided
<1>3. (ns.exists /\ ns.finalizer) \in BOOLEAN /\ Provided \in BOOLEAN
  BY DEF Provided
<1>4. Holding \in [{"org"} -> BOOLEAN] /\ Outside \in [{"org"} -> BOOLEAN]
  BY <1>3 DEF Holding, Outside
<1>5. QED
  BY <1>2, <1>4 DEF Contract!ContractInit, Outside

\* No step changes the namespace and what is provided together.
LEMMA OneAtATime ==
  ASSUME [Next]_vars
  PROVE  UNCHANGED ns \/ UNCHANGED <<hub, mon>>
BY DEF Next, User, Cluster, Step, SetLabel, DeleteNamespace, CreateNamespace, DropBinding,
       DropMonitoring, RemovePrometheus, NamespaceGone, MonitoringGone, CopiesGone, ChangeState,
       TricksterRegistered, Deliver, TricksterEvent, Resync, Restart, Start, FreshRead,
       EnsureFinalizer, EnsureMonitoring, Configure, Register, Bind, Authorize, Stamp,
       CopyDashboards, Unregister, Sweep, RemoveFinalizer, MarkCleanedUp, HubFault, ApiFault, vars

\* Every step of an undisturbed reconciler is a step of the contract: taking the
\* finalizer before anything is provided, providing and withdrawing under it,
\* and giving it up when nothing is left.
LEMMA StepContract ==
  ASSUME GuardInv, GuardInv', [Next]_vars, Undisturbed, Undisturbed'
  PROVE  Contract!ContractNext \/ UNCHANGED <<Holding, Outside>>
<1> DEFINE o == "org"
<1>1. /\ Holding = [x \in {o} |-> ns.exists /\ ns.finalizer]
      /\ Holding' = [x \in {o} |-> ns'.exists /\ ns'.finalizer]
      /\ Outside = [x \in {o} |-> Provided]
      /\ Outside' = [x \in {o} |-> Provided']
  BY DEF Holding, Outside
<1>2. /\ (ns.exists /\ ns.finalizer) <=> ns.finalizer
      /\ (ns'.exists /\ ns'.finalizer) <=> ns'.finalizer
      /\ Provided => ns.finalizer
      /\ Provided' => ns'.finalizer
  BY DEF GuardInv
<1>3. UNCHANGED <<hub, mon>> => (Provided' <=> Provided)
  BY DEF Provided
<1> DEFINE h == ns.exists /\ ns.finalizer
<1>0. h \in BOOLEAN /\ h' \in BOOLEAN /\ Provided \in BOOLEAN /\ Provided' \in BOOLEAN
  BY DEF Provided
<1>4. CASE (ns'.finalizer <=> ns.finalizer) /\ (Provided' <=> Provided)
  <2>1. h' = h /\ Provided' = Provided
    BY <1>0, <1>2, <1>4
  <2>2. Holding' = Holding /\ Outside' = Outside
    BY <1>1, <2>1
  <2>3. QED
    BY <2>2
<1>5. CASE ~(ns'.finalizer <=> ns.finalizer)
  <2>0. (Provided' <=> Provided) /\ ~Provided
    BY <1>2, <1>3, <1>5, OneAtATime
  <2>1. Outside' = Outside /\ ~Provided
    <3>1. Provided' = Provided
      BY <1>0, <2>0
    <3>2. QED
      BY <1>1, <2>0, <3>1
  <2>2. CASE ns'.finalizer
    <3>1. ~Holding[o] /\ Holding' = [Holding EXCEPT ![o] = TRUE]
      BY <1>1, <1>2, <1>5, <2>2
    <3>2. Contract!Acquire(o)
      BY <2>1, <3>1 DEF Contract!Acquire
    <3>3. QED
      BY <3>2 DEF Contract!ContractNext
  <2>3. CASE ~ns'.finalizer
    <3>1. Holding[o] /\ Holding' = [Holding EXCEPT ![o] = FALSE] /\ ~Outside[o]
      BY <1>1, <1>2, <1>5, <2>1, <2>3
    <3>2. Contract!Release(o)
      BY <2>1, <3>1 DEF Contract!Release
    <3>3. QED
      BY <3>2 DEF Contract!ContractNext
  <2>4. QED
    BY <2>2, <2>3
<1>6. CASE (ns'.finalizer <=> ns.finalizer) /\ ~(Provided' <=> Provided)
  <2>1. Holding[o] /\ Holding' = Holding
    BY <1>1, <1>2, <1>6
  <2>2. CASE Provided'
    <3>1. Outside' = [Outside EXCEPT ![o] = TRUE]
      BY <1>1, <2>2
    <3>2. Contract!Provision(o)
      BY <2>1, <3>1 DEF Contract!Provision
    <3>3. QED
      BY <3>2 DEF Contract!ContractNext
  <2>3. CASE ~Provided'
    <3>0. Provided' = FALSE
      BY <1>0, <2>3
    <3>1. Outside' = [Outside EXCEPT ![o] = FALSE]
      BY <1>1, <3>0
    <3>2. Contract!Withdraw(o)
      BY <2>1, <3>1 DEF Contract!Withdraw
    <3>3. QED
      BY <3>2 DEF Contract!ContractNext
  <2>4. QED
    BY <2>2, <2>3
<1>7. QED
  BY <1>4, <1>5, <1>6

\* Until a call to the hub fails or the label is changed a second time, the
\* reconciler implements the finalizer contract, whatever users, caches,
\* restarts and the API server do.
THEOREM UndisturbedImplementsContract == Spec => ImplementsContractUndisturbed
<1>1. TypeOK /\ GuardInv /\ GuardInv' /\ [Next]_vars
        => [Undisturbed' => Contract!ContractNext]_<<Holding, Outside>>
  BY StepContract, UndisturbedBefore
<1>2. QED
  BY <1>1, InitContract, ClientOrgTypeCorrect, GuardInvariant, PTL
     DEF Spec, ImplementsContractUndisturbed

\* Where the hub never fails and the label is changed once at most, no step is
\* disturbed.
LEMMA NeverDisturbed ==
  ASSUME MaxHubFaults = 0, MaxLabels <= 1, TypeOK, Undisturbed, [Next]_vars
  PROVE  Undisturbed'
<1>1. CASE \E l \in Labels : SetLabel(l)
  <2>1. labels < MaxLabels /\ labels' = labels + 1 /\ UNCHANGED hubFaults
    BY <1>1 DEF SetLabel
  <2>2. QED
    BY <2>1, ClientOrgAssumption DEF Undisturbed, TypeOK
<1>2. CASE ~\E l \in Labels : SetLabel(l)
  <2>1. ~HubFault
    <3>1. HubFault => hubFaults < MaxHubFaults
      BY DEF HubFault
    <3>2. QED
      BY <3>1 DEF Undisturbed
  <2>2. UNCHANGED <<labels, hubFaults>>
    BY <1>2, <2>1
       DEF Next, User, Cluster, Step, DeleteNamespace, CreateNamespace, DropBinding, DropMonitoring,
           RemovePrometheus, NamespaceGone, MonitoringGone, CopiesGone, ChangeState,
           TricksterRegistered, Deliver, TricksterEvent, Resync, Restart, Start, FreshRead,
           EnsureFinalizer, EnsureMonitoring, Configure, Register, Bind, Authorize, Stamp,
           CopyDashboards, Unregister, Sweep, RemoveFinalizer, MarkCleanedUp, ApiFault, bounds, vars
  <2>3. QED
    BY <2>2 DEF Undisturbed
<1>3. QED
  BY <1>1, <1>2

\* With a hub that answers and a label that goes one way, the detailed
\* specification implements the finalizer contract.
THEOREM OrgImplementsContract ==
  MaxHubFaults = 0 /\ MaxLabels <= 1 => (Spec => ImplementsFinalizerContract)
<1> SUFFICES ASSUME MaxHubFaults = 0, MaxLabels <= 1
             PROVE  Spec => ImplementsFinalizerContract
  OBVIOUS
<1>1. Init => Undisturbed
  BY DEF Init, Undisturbed
<1>2. TypeOK /\ Undisturbed /\ [Next]_vars => Undisturbed'
  BY NeverDisturbed
<1>3. TypeOK /\ GuardInv /\ GuardInv' /\ Undisturbed /\ [Next]_vars
        => [Contract!ContractNext]_<<Holding, Outside>>
  BY <1>2, StepContract
<1>4. QED
  BY <1>1, <1>2, <1>3, InitContract, ClientOrgTypeCorrect, GuardInvariant, PTL
     DEF Spec, ImplementsFinalizerContract, Contract!ContractSpec, Contract!contractVars
=============================================================================
