------------------------------- MODULE ClientOrg -------------------------------
(***************************************************************************)
(* ClientOrgReconciler (src/pkg/controllers/namespace): a namespace that   *)
(* is labelled as a client organisation gets a monitoring namespace, a     *)
(* registration of each backend (Grafana and Perses) at the hub with an    *)
(* AppBinding and its auth secret, and copies of the dashboards; deleting  *)
(* the namespace or relabelling it "terminating" takes that down again.    *)
(*                                                                         *)
(* One client organisation: the reconciler's workers never hold the same   *)
(* namespace and write nothing two namespaces share.  The namespace is     *)
(* read from an informer cache that lags (cached), except for the one read *)
(* that goes to the API server (FreshRead).  The hub client is configured. *)
(* The copies are one object: all of them are written and deleted together.*)
(***************************************************************************)
EXTENDS Naturals

CONSTANTS
    MaxStates,       \* bound: values of the cluster state hash
    MaxLabels,       \* bound: changes of the client-org label
    MaxLives,        \* bound: how often the namespace is created
    MaxDrops,        \* bound: AppBindings, the monitoring namespace or the
                     \*        Prometheus objects deleted by others
    MaxHubFaults,    \* bound: failed calls to the hub
    MaxApiFaults,    \* bound: failed calls to the API server
    MaxCrashes       \* bound: operator restarts

ASSUME ClientOrgAssumption ==
    /\ MaxStates \in Nat \ {0} /\ MaxLabels \in Nat /\ MaxLives \in Nat
    /\ MaxDrops \in Nat /\ MaxHubFaults \in Nat /\ MaxApiFaults \in Nat
    /\ MaxCrashes \in Nat

VARIABLES
    ns,          \* the client-org namespace at the API server
    cached,      \* the informer's copy of it
    mon,         \* the namespace <ns>-monitoring and what is in it
    hub,         \* hub[b]: the cluster state backend b is registered with, or 0
    state,       \* the cluster's state hash
    prometheus,  \* Prometheus objects exist
    trickster,   \* the default Prometheus is registered (rolebinding marker)
    ready,       \* the detector has decided; it forgets only on restart
    queued,      \* the namespace is in the work queue
    pc, local,   \* next step of Reconcile, its copy of the namespace
    marker,      \* the marker it read from the monitoring namespace
    chosen,      \* the cluster state it read
    backend,     \* the backend it is registering
    failed,      \* registerBackends has collected an error
    labels, lives, drops, hubFaults, apiFaults, crashes   \* used of the bounds

workerVars == <<pc, local, marker, chosen, backend, failed>>
envVars    == <<state, prometheus, trickster>>
bounds     == <<labels, lives, drops, hubFaults, apiFaults, crashes>>
vars == <<ns, cached, mon, hub, state, prometheus, trickster, ready, queued,
          pc, local, marker, chosen, backend, failed,
          labels, lives, drops, hubFaults, apiFaults, crashes>>

Backends == {"grafana", "perses"}
Labels == {"", "true", "terminating"}
States == 0 .. MaxStates              \* 0: none

Namespace == [exists : BOOLEAN, label : Labels, deleting : BOOLEAN,
              finalizer : BOOLEAN, cleaned : BOOLEAN]

NoNamespace == [exists |-> FALSE, label |-> "", deleting |-> FALSE,
                finalizer |-> FALSE, cleaned |-> FALSE]

NewNamespace == [NoNamespace EXCEPT !.exists = TRUE, !.label = "true"]

Monitoring == [exists : BOOLEAN, deleting : BOOLEAN, marker : States,
               binding : [Backends -> BOOLEAN], auth : [Backends -> BOOLEAN],
               copies : {"none", "live", "deleting"}]

NoMonitoring == [exists |-> FALSE, deleting |-> FALSE, marker |-> 0,
                 binding |-> [b \in Backends |-> FALSE],
                 auth |-> [b \in Backends |-> FALSE], copies |-> "none"]

Registering == {"register", "bind", "auth", "stamp"}
Activating == {"fresh", "finalizer", "monitoring", "config", "copy"} \cup Registering
TearingDown == {"unregister", "sweep", "release", "cleaned"}

TypeOK ==
    /\ ns \in Namespace /\ cached \in Namespace /\ local \in Namespace
    /\ mon \in Monitoring
    /\ hub \in [Backends -> States]
    /\ state \in States /\ marker \in States /\ chosen \in States
    /\ prometheus \in BOOLEAN /\ trickster \in BOOLEAN /\ ready \in BOOLEAN
    /\ queued \in BOOLEAN /\ failed \in BOOLEAN
    /\ pc \in {"idle"} \cup Activating \cup TearingDown
    /\ backend \in Backends
    /\ labels \in Nat /\ lives \in Nat /\ drops \in Nat
    /\ hubFaults \in Nat /\ apiFaults \in Nat /\ crashes \in Nat

Init ==
    /\ ns = NewNamespace /\ cached = NoNamespace /\ mon = NoMonitoring
    /\ hub = [b \in Backends |-> 0]
    /\ state = 1 /\ prometheus = TRUE /\ trickster = FALSE
    /\ ready = FALSE /\ queued = FALSE
    /\ pc = "idle" /\ local = NoNamespace /\ marker = 0 /\ chosen = 0
    /\ backend = "grafana" /\ failed = FALSE
    /\ labels = 0 /\ lives = 1 /\ drops = 0
    /\ hubFaults = 0 /\ apiFaults = 0 /\ crashes = 0

-----------------------------------------------------------------------------
(* Users, the owner of the monitoring namespace, and the API server. *)

SetLabel(l) ==
    /\ ns.exists /\ ns.label # l
    /\ labels < MaxLabels /\ labels' = labels + 1
    /\ ns' = [ns EXCEPT !.label = l]
    /\ UNCHANGED <<cached, mon, hub, ready, queued, lives, drops, hubFaults, apiFaults, crashes>>
    /\ UNCHANGED <<envVars, workerVars>>

DeleteNamespace ==
    /\ ns.exists /\ ~ns.deleting
    /\ ns' = [ns EXCEPT !.deleting = TRUE]
    /\ UNCHANGED <<cached, mon, hub, ready, queued, envVars, workerVars, bounds>>

\* The namespace controller removes a deleting namespace without finalizers.
NamespaceGone ==
    /\ ns.exists /\ ns.deleting /\ ~ns.finalizer
    /\ ns' = NoNamespace
    /\ UNCHANGED <<cached, mon, hub, ready, queued, envVars, workerVars, bounds>>

CreateNamespace ==
    /\ ~ns.exists
    /\ lives < MaxLives /\ lives' = lives + 1
    /\ ns' = NewNamespace
    /\ UNCHANGED <<cached, mon, hub, ready, queued, labels, drops, hubFaults, apiFaults, crashes>>
    /\ UNCHANGED <<envVars, workerVars>>

\* Somebody deletes an AppBinding (its auth secret goes with it) or the
\* monitoring namespace.
DropBinding(b) ==
    /\ mon.exists /\ mon.binding[b]
    /\ drops < MaxDrops /\ drops' = drops + 1
    /\ mon' = [mon EXCEPT !.binding[b] = FALSE, !.auth[b] = FALSE]
    /\ UNCHANGED <<ns, cached, hub, ready, queued, labels, lives, hubFaults, apiFaults, crashes>>
    /\ UNCHANGED <<envVars, workerVars>>

DropMonitoring ==
    /\ mon.exists /\ ~mon.deleting
    /\ drops < MaxDrops /\ drops' = drops + 1
    /\ mon' = [mon EXCEPT !.deleting = TRUE,
                          !.copies = IF @ = "live" THEN "deleting" ELSE @]
    /\ UNCHANGED <<ns, cached, hub, ready, queued, labels, lives, hubFaults, apiFaults, crashes>>
    /\ UNCHANGED <<envVars, workerVars>>

MonitoringGone ==
    /\ mon.exists /\ mon.deleting
    /\ mon' = NoMonitoring
    /\ UNCHANGED <<ns, cached, hub, ready, queued, envVars, workerVars, bounds>>

\* The dashboard controllers finish the deletion of the copies.
CopiesGone ==
    /\ mon.copies = "deleting"
    /\ mon' = [mon EXCEPT !.copies = "none"]
    /\ UNCHANGED <<ns, cached, hub, ready, queued, envVars, workerVars, bounds>>

\* The API endpoint or manager of the cluster changes.
ChangeState ==
    /\ state < MaxStates /\ state' = state + 1
    /\ UNCHANGED <<ns, cached, mon, hub, prometheus, trickster, ready, queued, workerVars, bounds>>

\* The Prometheus objects are removed.
RemovePrometheus ==
    /\ prometheus
    /\ drops < MaxDrops /\ drops' = drops + 1
    /\ prometheus' = FALSE /\ trickster' = FALSE
    /\ UNCHANGED <<ns, cached, mon, hub, state, ready, queued, labels, lives, hubFaults, apiFaults, crashes>>
    /\ UNCHANGED workerVars

\* The Prometheus reconciler has registered the default Prometheus.
TricksterRegistered ==
    /\ prometheus /\ ~trickster /\ trickster' = TRUE
    /\ UNCHANGED <<ns, cached, mon, hub, state, prometheus, ready, queued, workerVars, bounds>>

-----------------------------------------------------------------------------
(* Watches. *)

\* Faulty: the watch lets only active namespaces through.
FilterActiveOnly(n) == n.label = "true" /\ ~n.deleting

\* The predicate of For(Namespace).
Filter(n) == n.label \in {"true", "terminating"}

Deliver ==
    /\ cached # ns
    /\ cached' = ns
    /\ queued' = (queued \/ Filter(IF ns.exists THEN ns ELSE cached))
    /\ UNCHANGED <<ns, mon, hub, ready, envVars, workerVars, bounds>>

\* The trickster ServiceAccount changes and carries the registration label:
\* every labelled namespace that is not terminating is enqueued.  The label is
\* set by others, if at all, so this may never happen.
TricksterEvent ==
    /\ cached.exists /\ cached.label = "true" /\ ~cached.deleting
    /\ ~queued /\ queued' = TRUE
    /\ UNCHANGED <<ns, cached, mon, hub, ready, envVars, workerVars, bounds>>

\* The cache delivers all it holds once more, every ten hours.
Resync ==
    /\ cached.exists /\ Filter(cached)
    /\ ~queued /\ queued' = TRUE
    /\ UNCHANGED <<ns, cached, mon, hub, ready, envVars, workerVars, bounds>>

Restart ==
    /\ crashes < MaxCrashes /\ crashes' = crashes + 1
    /\ cached' = ns /\ queued' = (ns.exists /\ Filter(ns))
    /\ ready' = FALSE
    /\ pc' = "idle" /\ local' = NoNamespace /\ marker' = 0 /\ chosen' = 0
    /\ backend' = "grafana" /\ failed' = FALSE
    /\ UNCHANGED <<ns, mon, hub, envVars, labels, lives, drops, hubFaults, apiFaults>>

-----------------------------------------------------------------------------
(* Reconcile, one call per step. *)

Return(retry) ==
    /\ queued' = (queued \/ retry)
    /\ pc' = "idle" /\ local' = NoNamespace /\ marker' = 0 /\ chosen' = 0
    /\ backend' = "grafana" /\ failed' = FALSE

Goto(step) ==
    /\ pc' = step
    /\ UNCHANGED <<queued, local, marker, chosen, backend, failed>>

\* isActiveClientOrg.
Active(n) == n.exists /\ ~n.deleting /\ n.label \notin {"", "terminating"}

\* Faulty: the teardown of a relabelled namespace is never done.
FirstStepDeletionOnly(n) == IF n.deleting THEN "unregister" ELSE "fresh"

\* Where Reconcile goes with a namespace that has the label; "idle" for a
\* relabelled one that has been cleaned up.
FirstStep(n) ==
    IF n.deleting THEN "unregister"
    ELSE IF n.label = "terminating" THEN (IF n.cleaned THEN "idle" ELSE "unregister")
    ELSE "fresh"

Start ==
    /\ pc = "idle" /\ queued
    /\ \/ /\ ~cached.exists \/ cached.label = "" \/ (ready /\ FirstStep(cached) = "idle")
          /\ queued' = FALSE
          /\ UNCHANGED <<ready, workerVars>>
       \/ /\ cached.exists /\ cached.label # "" /\ ~ready /\ prometheus
          /\ ready' = TRUE                       \* detect() decides; retried at once
          /\ UNCHANGED <<queued, workerVars>>
       \/ /\ cached.exists /\ cached.label # "" /\ ready /\ FirstStep(cached) # "idle"
          /\ queued' = FALSE
          /\ pc' = FirstStep(cached) /\ local' = cached
          /\ UNCHANGED <<ready, marker, chosen, backend, failed>>
    /\ UNCHANGED <<ns, cached, mon, hub, envVars, bounds>>

\* The uncached read: bail out unless the namespace is still active.
FreshRead ==
    /\ pc = "fresh"
    /\ IF Active(ns) THEN Goto("finalizer") ELSE Return(FALSE)
    /\ UNCHANGED <<ns, cached, mon, hub, ready, envVars, bounds>>

\* ensureFinalizer patches the difference to the cached copy l; nothing is
\* sent when the copy has the finalizer.
AddsFinalizer(l, n) == ~l.finalizer

\* The API server refuses a finalizer on a namespace that is being deleted.
EnsureFinalizer ==
    /\ pc = "finalizer"
    /\ IF ~AddsFinalizer(local, ns)
       THEN Goto("monitoring") /\ UNCHANGED ns
       ELSE IF ns.exists /\ ~ns.deleting
       THEN Goto("monitoring") /\ ns' = [ns EXCEPT !.finalizer = TRUE]
       ELSE Return(TRUE) /\ UNCHANGED ns
    /\ UNCHANGED <<cached, mon, hub, ready, envVars, bounds>>

\* ensureMonitoringNamespace; a terminating one is waited for.
EnsureMonitoring ==
    /\ pc = "monitoring"
    /\ IF mon.exists /\ mon.deleting
       THEN Return(TRUE) /\ UNCHANGED mon
       ELSE /\ mon' = [mon EXCEPT !.exists = TRUE]
            /\ pc' = "config" /\ marker' = mon.marker
            /\ UNCHANGED <<queued, local, chosen, backend, failed>>
    /\ UNCHANGED <<ns, cached, hub, ready, envVars, bounds>>

\* ensureMonitoringRoleBinding.
BindsRole == mon.exists /\ ~mon.deleting

\* buildPrometheusConfig, for the default Prometheus and its marker.
BuildsConfig == prometheus /\ trickster

\* The rolebinding, the configuration and the cluster state.
Configure ==
    /\ pc = "config"
    /\ IF BindsRole /\ BuildsConfig
       THEN /\ pc' = "register" /\ chosen' = state
            /\ UNCHANGED <<queued, local, marker, backend, failed>>
       ELSE Return(TRUE)
    /\ UNCHANGED <<ns, cached, mon, hub, ready, envVars, bounds>>

\* Faulty: the error of a backend is forgotten.
NextBackendForgets(err) ==
    /\ failed' = FALSE
    /\ IF backend = "grafana"
       THEN backend' = "perses" /\ pc' = "register"
       ELSE backend' = backend /\ pc' = "stamp"
    /\ UNCHANGED <<queued, local, marker, chosen>>

\* registerBackends goes on to the next backend, or to the marker; err says
\* that this backend failed.
NextBackend(err) ==
    /\ failed' = (failed \/ err)
    /\ IF backend = "grafana"
       THEN backend' = "perses" /\ pc' = "register"
       ELSE backend' = backend /\ pc' = "stamp"
    /\ UNCHANGED <<queued, local, marker, chosen>>

\* Faulty: the AppBinding is not looked at.
NeedsByMarkerOnly(b) == marker # chosen

\* A backend is registered when the marker is not of this cluster state or
\* its AppBinding is missing.
NeedsRegistration(b) == marker # chosen \/ ~mon.binding[b]

Registered == [hub EXCEPT ![backend] = chosen]

Register ==
    /\ pc = "register"
    /\ IF NeedsRegistration(backend)
       THEN hub' = Registered /\ Goto("bind")
       ELSE NextBackend(FALSE) /\ UNCHANGED hub
    /\ UNCHANGED <<ns, cached, mon, ready, envVars, bounds>>

\* The AppBinding; a monitoring namespace that is gone or going refuses it.
Bind ==
    /\ pc = "bind"
    /\ IF mon.exists /\ (~mon.deleting \/ mon.binding[backend])
       THEN mon' = [mon EXCEPT !.binding[backend] = TRUE] /\ Goto("auth")
       ELSE NextBackend(TRUE) /\ UNCHANGED mon
    /\ UNCHANGED <<ns, cached, hub, ready, envVars, bounds>>

\* The auth secret; an error is dropped.
Authorize ==
    /\ pc = "auth"
    /\ mon' = IF mon.exists /\ ~mon.deleting THEN [mon EXCEPT !.auth[backend] = TRUE] ELSE mon
    /\ NextBackend(FALSE)
    /\ UNCHANGED <<ns, cached, hub, ready, envVars, bounds>>

\* Faulty: the marker is stamped whatever became of the backends.
StampAlways == TRUE

\* The marker is stamped only after both backends succeeded.
MayStamp == ~failed

Stamp ==
    /\ pc = "stamp"
    /\ IF MayStamp /\ mon.exists
       THEN mon' = [mon EXCEPT !.marker = chosen] /\ Goto("copy")
       ELSE Return(TRUE) /\ UNCHANGED mon
    /\ UNCHANGED <<ns, cached, hub, ready, envVars, bounds>>

\* CreateOrPatch of the copies: one that is being deleted is patched and
\* stays so; a terminating namespace refuses new ones.
CopyDashboards ==
    /\ pc = "copy"
    /\ IF mon.exists /\ (~mon.deleting \/ mon.copies # "none")
       THEN /\ mon' = [mon EXCEPT !.copies = IF @ = "none" THEN "live" ELSE @]
            /\ Return(FALSE)
       ELSE Return(TRUE) /\ UNCHANGED mon
    /\ UNCHANGED <<ns, cached, hub, ready, envVars, bounds>>

Unregistered == [hub EXCEPT ![backend] = 0]

NextUnregister ==
    /\ IF backend = "grafana"
       THEN backend' = "perses" /\ pc' = pc
       ELSE backend' = backend /\ pc' = "sweep"
    /\ UNCHANGED <<queued, local, marker, chosen, failed>>

\* handleDeletion: Unregister, UnregisterPerses.
Unregister ==
    /\ pc = "unregister"
    /\ hub' = Unregistered
    /\ NextUnregister
    /\ UNCHANGED <<ns, cached, mon, ready, envVars, bounds>>

\* Faulty: the copies stay.
SweepNothing(c) == c

\* What DeleteAllOf makes of the copies.
Swept(c) == IF c = "live" THEN "deleting" ELSE c

Sweep ==
    /\ pc = "sweep"
    /\ mon' = [mon EXCEPT !.copies = Swept(@)]
    /\ Goto("release")
    /\ UNCHANGED <<ns, cached, hub, ready, envVars, bounds>>

\* The finalizer is removed, if the copy has it; a relabelled namespace is
\* marked as cleaned up next.
RemoveFinalizer ==
    /\ pc = "release"
    /\ IF ~ns.exists
       THEN Return(TRUE) /\ UNCHANGED ns
       ELSE /\ ns' = [ns EXCEPT !.finalizer = @ /\ ~local.finalizer]
            /\ IF local.deleting THEN Return(FALSE) ELSE Goto("cleaned")
    /\ UNCHANGED <<cached, mon, hub, ready, envVars, bounds>>

MarkCleanedUp ==
    /\ pc = "cleaned"
    /\ ns' = IF ns.exists THEN [ns EXCEPT !.cleaned = TRUE] ELSE ns
    /\ Return(~ns.exists)
    /\ UNCHANGED <<cached, mon, hub, ready, envVars, bounds>>

\* The hub fails, possibly after it has done what it was asked for.  A failed
\* registration is collected, a failed unregistration is logged and forgotten.
HubFault ==
    /\ hubFaults < MaxHubFaults /\ hubFaults' = hubFaults + 1
    /\ \/ /\ pc = "register" /\ NeedsRegistration(backend)
          /\ hub' \in {hub, Registered}
          /\ NextBackend(TRUE)
       \/ /\ pc = "unregister"
          /\ hub' \in {hub, Unregistered}
          /\ NextUnregister
    /\ UNCHANGED <<ns, cached, mon, ready, envVars, labels, lives, drops, apiFaults, crashes>>

\* A call to the API server fails: collected, dropped or returned.
ApiFault ==
    /\ apiFaults < MaxApiFaults /\ apiFaults' = apiFaults + 1
    /\ \/ pc = "bind" /\ NextBackend(TRUE)
       \/ pc = "auth" /\ NextBackend(FALSE)
       \/ /\ pc \in {"fresh", "finalizer", "monitoring", "config", "stamp", "copy",
                     "sweep", "release", "cleaned"}
          /\ Return(TRUE)
    /\ UNCHANGED <<ns, cached, mon, hub, ready, envVars, labels, lives, drops, hubFaults, crashes>>

-----------------------------------------------------------------------------
User == \/ \E l \in Labels : SetLabel(l)
        \/ DeleteNamespace \/ CreateNamespace
        \/ \E b \in Backends : DropBinding(b)
        \/ DropMonitoring \/ RemovePrometheus

Cluster == NamespaceGone \/ MonitoringGone \/ CopiesGone \/ ChangeState \/ TricksterRegistered

Step == \/ FreshRead \/ EnsureFinalizer \/ EnsureMonitoring \/ Configure
        \/ Register \/ Bind \/ Authorize \/ Stamp \/ CopyDashboards
        \/ Unregister \/ Sweep \/ RemoveFinalizer \/ MarkCleanedUp

Next == \/ User \/ Cluster \/ Deliver \/ TricksterEvent \/ Resync \/ Restart
        \/ Start \/ Step \/ HubFault \/ ApiFault

Spec == Init /\ [][Next]_vars

\* The cluster finishes deletions, the informer delivers and resyncs, queued
\* work starts and a running Reconcile goes on.  Users owe nothing, nor does
\* the trickster ServiceAccount.
Fairness ==
    /\ WF_vars(NamespaceGone) /\ WF_vars(MonitoringGone) /\ WF_vars(CopiesGone)
    /\ WF_vars(TricksterRegistered) /\ WF_vars(Deliver)
    /\ SF_vars(Resync)
    /\ WF_vars(Start) /\ WF_vars(Step)

FairSpec == Spec /\ Fairness

-----------------------------------------------------------------------------
(* Properties. *)

\* The marker is stamped only when both backends are registered with the
\* cluster state it names, whatever call failed on the way there.
StampedMeansRegistered ==
    [][mon'.marker # mon.marker /\ mon'.marker # 0
          => \A b \in Backends : hub[b] = mon'.marker]_vars

\* Why: while backends are registered the marker read is still the one on the
\* monitoring namespace, and each backend that is behind the worker and did
\* not fail is registered with the chosen state, or was so by that marker.
BeforeBackends == {"idle", "fresh", "finalizer", "monitoring", "config"}

Behind(b) == hub[b] = chosen \/ marker = chosen

MarkerInv ==
    /\ pc \in BeforeBackends => backend = "grafana"
    /\ pc \in Registering \cup {"config"} /\ mon.exists => mon.marker = marker
    /\ pc \in Registering /\ ~failed /\ backend = "perses" => Behind("grafana")
    /\ pc \in {"bind", "auth"} => hub[backend] = chosen
    /\ pc = "stamp" => backend = "perses"
    /\ pc = "stamp" /\ ~failed => Behind("perses")

\* As long as the hub answers and the label is changed only once nothing is left
\* behind.  A failed unregistration is forgotten; and a namespace relabelled and
\* back is registered without a finalizer when the cached copy still has one.
Undisturbed == hubFaults = 0 /\ labels <= 1

Going(n) == n.deleting \/ n.label = "terminating"

Provided == (\E b \in Backends : hub[b] # 0) \/ mon.copies = "live"

\* Why: a copy of the namespace with the finalizer is either true or of a
\* namespace that was going; a worker past the finalizer works under it; and one
\* that tears down with a copy that has it neither meets a namespace that took
\* it anew nor leaves a registration or a live copy behind itself.
GuardInv ==
    /\ ns.finalizer => ns.exists
    /\ Undisturbed =>
       /\ labels = 0 => ns.label # "terminating"
       /\ cached.finalizer /\ ~Going(cached) => ns.finalizer
       /\ cached.finalizer /\ ns.finalizer /\ Going(cached) => Going(ns)
       /\ pc \in {"fresh", "finalizer"} /\ (local.finalizer \/ cached.finalizer) => ns.finalizer
       /\ pc \in {"monitoring", "config", "copy"} \cup Registering => ns.finalizer
       /\ pc \in TearingDown /\ local.finalizer =>
             /\ ns.finalizer => Going(ns)
             /\ cached.finalizer => Going(cached)
       /\ Provided => ns.finalizer
       /\ pc = "unregister" /\ backend = "perses" => hub["grafana"] = 0
       /\ pc \in {"sweep", "release", "cleaned"} => \A b \in Backends : hub[b] = 0
       /\ pc \in {"release", "cleaned"} => mon.copies # "live"

\* With the types, which no step of Reconcile, user, cluster or fault breaks,
\* this is inductive.
Inv == TypeOK /\ MarkerInv /\ GuardInv

Holding == [o \in {"org"} |-> ns.exists /\ ns.finalizer]
Outside == [o \in {"org"} |-> Provided]

Contract == INSTANCE FinalizerContract
            WITH Owners <- {"org"}, held <- Holding, outside <- Outside

\* As long as the hub answers and the label goes one way, the finalizer
\* guards the registrations and the copies together, through restarts,
\* failed API calls, drops and stale reads.  (The bounds of the run keep it
\* undisturbed; ImplementsContractUndisturbed says it for any bounds.)
ImplementsFinalizerContract == Contract!ContractSpec

ImplementsContractUndisturbed ==
    /\ Contract!ContractInit
    /\ [][Undisturbed' => Contract!ContractNext]_<<Holding, Outside>>

\* A namespace that is deleted and keeps its label goes, whatever the hub
\* answers and however often the operator restarts.  (Without the label nobody
\* removes the finalizer; nor does a reconciler whose detector is not ready,
\* when it starts after the last Prometheus was removed.)
DeletionCompletes ==
    [](ns.deleting => <>(~ns.exists \/ ns.label = "" \/ ~(ready \/ prometheus)))

\* An organisation that stays active ends up registered for both backends,
\* with AppBindings, marker and copies, once the default Prometheus is
\* registered and stays.
Provisioned ==
    /\ \A b \in Backends : hub[b] # 0 /\ mon.binding[b]
    /\ mon.marker # 0 /\ mon.copies = "live"

ActiveIsProvisioned == <>[](Active(ns) /\ prometheus) => <>[]Provisioned

\* An organisation that stays relabelled "terminating" ends up without live
\* copies.
TerminatedIsSwept ==
    <>[](ns.exists /\ ns.label = "terminating" /\ prometheus) => <>[](mon.copies # "live")
=============================================================================
