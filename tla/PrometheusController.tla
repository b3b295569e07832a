------------------------- MODULE PrometheusController -------------------------
(***************************************************************************)
(* PrometheusReconciler (src/pkg/controllers/prometheus) with the detector *)
(* that decides which Prometheus is the default one                        *)
(* (src/pkg/detector/prometheus.go).                                       *)
(*                                                                         *)
(* A Prometheus is given access objects and a chart preset, is registered  *)
(* with both backends of the hub (Grafana and Perses) and, when it is the  *)
(* default one, gets AppBindings.  A marker on the rolebinding in its      *)
(* namespace says for which cluster state and Rancher token that was done. *)
(* One worker handles all Prometheus objects, one call per step (pc).      *)
(*                                                                         *)
(* Prometheus objects are read from an informer cache that lags (cached),  *)
(* except by the detector, whose unstructured list goes to the API server; *)
(* the cluster state and the token are those of the cache, and the other   *)
(* reads are taken as fresh.  A hub client is configured.                  *)
(***************************************************************************)
EXTENDS Naturals, FiniteSets

CONSTANTS
    Proms,           \* names of Prometheus objects
    First,           \* the one that exists at first, or None
    Platform,        \* "plain", "rancher" or "openshift"
    Primary,         \* the name the platform gives its own Prometheus, or None
    Ns,              \* Ns[p]: the namespace of p and of its service
    Project,         \* Project[p]: its Rancher project, or None
    FirstToken,      \* the Rancher token at first; 0 when none is configured
    Legacy,          \* the marker "true" of old releases
    LegacyNs,        \* namespaces whose rolebinding has it
    None,
    MaxStates,       \* bound: values of the cluster state hash
    MaxTokens,       \* bound: Rancher tokens
    MaxDeletes,      \* bound: deletions of Prometheus objects
    MaxDrops,        \* bound: AppBindings and services deleted by others
    MaxHubFaults,    \* bound: failed calls to the hub
    MaxApiFaults,    \* bound: failed calls to the API server
    MaxCrashes       \* bound: operator restarts

ASSUME PrometheusAssumption ==
    /\ First \in Proms \cup {None}
    /\ Platform \in {"plain", "rancher", "openshift"}
    /\ None \notin Proms /\ Legacy \notin Nat
    /\ LegacyNs # {} => First \in Proms /\ LegacyNs = {Ns[First]}
    /\ MaxStates \in Nat \ {0} /\ MaxTokens \in Nat /\ FirstToken \in Nat
    /\ MaxDeletes \in Nat /\ MaxDrops \in Nat
    /\ MaxHubFaults \in Nat /\ MaxApiFaults \in Nat /\ MaxCrashes \in Nat

VARIABLES
    prom,        \* prom[p]: the object at the API server
    cached,      \* cached[p]: the informer's copy of it
    mode,        \* what the detector has decided; it forgets only on restart
    roleBinding, \* roleBinding[n]: its marker (cluster state and token)
    clusterPreset, projectPresets,
    appBinding,  \* appBinding[n][k]: uid of the Prometheus that owns it, or 0
    auth,        \* auth[n]: the backends whose auth secret is in n
    hub,         \* hub[b][c]: who is registered with backend b in context c
    state, token,           \* the cluster's state hash, the Rancher token
    queue, pc, key, local,  \* work queue; the worker's step, key and copy
    chosen,      \* the state and token it read
    marker,      \* the marker it read
    backend,     \* the backend it is at
    uids,        \* objects created so far
    deletes, drops, hubFaults, apiFaults, crashes     \* used of the bounds

presetVars == <<clusterPreset, projectPresets>>
bindVars   == <<appBinding, auth>>
inputVars  == <<state, token>>
workerVars == <<pc, key, local, chosen, marker, backend>>
bounds     == <<deletes, drops, hubFaults, apiFaults, crashes>>
vars == <<prom, cached, mode, roleBinding, clusterPreset, projectPresets, appBinding, auth,
          hub, state, token, queue, pc, key, local, chosen, marker, backend, uids,
          deletes, drops, hubFaults, apiFaults, crashes>>

Backends == {"grafana", "perses"}
Kinds == Backends \cup {"prometheus"}
Namespaces == {Ns[p] : p \in Proms}
Projects == {Project[p] : p \in Proms} \ {None}
Contexts == Projects \cup {"default"}

States == 0 .. MaxStates
Tokens == 0 .. FirstToken + MaxTokens
Markers == [state : States \cup {Legacy}, token : Tokens]
NoMarker == [state |-> 0, token |-> 0]

Registration == [by : Proms \cup {None}, state : States, token : Tokens]
NoRegistration == [by |-> None, state |-> 0, token |-> 0]

Object == [exists : BOOLEAN, deleting : BOOLEAN, finalizer : BOOLEAN,
           labelled : BOOLEAN, uid : Nat]
Absent == [exists |-> FALSE, deleting |-> FALSE, finalizer |-> FALSE,
           labelled |-> FALSE, uid |-> 0]
New(u) == [Absent EXCEPT !.exists = TRUE, !.uid = u]

Modes == {"unknown", "singleton", "many", "federated", "openshift"}
Activating == {"label", "finalize", "access", "preset", "restamp",
               "register", "bind", "auth", "stamp"}
Ending == {"unpreset", "unregister", "release"}

TypeOK ==
    /\ prom \in [Proms -> Object] /\ cached \in [Proms -> Object] /\ local \in Object
    /\ mode \in Modes
    /\ roleBinding \in [Namespaces -> Markers]
    /\ clusterPreset \in BOOLEAN /\ projectPresets \subseteq Projects
    /\ appBinding \in [Namespaces -> [Kinds -> Nat]]
    /\ auth \in [Namespaces -> SUBSET Backends]
    /\ hub \in [Backends -> [Contexts -> Registration]]
    /\ state \in States /\ token \in Tokens
    /\ queue \subseteq Proms /\ key \in Proms \cup {None}
    /\ pc \in {"idle"} \cup Activating \cup Ending
    /\ pc # "idle" => key \in Proms
    /\ chosen \in [state : States, token : Tokens] /\ marker \in Markers
    /\ backend \in Backends
    /\ uids \in Nat /\ deletes \in Nat /\ drops \in Nat
    /\ hubFaults \in Nat /\ apiFaults \in Nat /\ crashes \in Nat

\* What an old release has left behind: preset, registrations and AppBindings of
\* the first Prometheus, under its marker.
Old(n) == n \in LegacyNs

\* The operator has just started: its cache holds what exists.
Init ==
    /\ prom = [p \in Proms |-> IF p # First THEN Absent
                               ELSE [New(1) EXCEPT !.finalizer = Old(Ns[p])]]
    /\ cached = prom
    /\ mode = "unknown"
    /\ roleBinding = [n \in Namespaces |->
                        IF Old(n) THEN [state |-> Legacy, token |-> 0] ELSE NoMarker]
    /\ clusterPreset = (LegacyNs # {}) /\ projectPresets = {}
    /\ appBinding = [n \in Namespaces |-> [k \in Kinds |-> IF Old(n) THEN 1 ELSE 0]]
    /\ auth = [n \in Namespaces |-> IF Old(n) THEN Backends ELSE {}]
    /\ hub = [b \in Backends |-> [c \in Contexts |->
                 IF c = "default" /\ LegacyNs # {}
                 THEN [by |-> First, state |-> 1, token |-> FirstToken]
                 ELSE NoRegistration]]
    /\ state = 1 /\ token = FirstToken
    /\ queue = {p \in Proms : prom[p].exists}
    /\ pc = "idle" /\ key = None /\ local = Absent
    /\ chosen = NoMarker /\ marker = NoMarker /\ backend = "grafana"
    /\ uids = 1 /\ deletes = 0 /\ drops = 0
    /\ hubFaults = 0 /\ apiFaults = 0 /\ crashes = 0

-----------------------------------------------------------------------------
(* Users, other controllers and the garbage collector. *)

CreateProm(p) ==
    /\ ~prom[p].exists
    /\ uids' = uids + 1
    /\ prom' = [prom EXCEPT ![p] = New(uids')]
    /\ UNCHANGED <<cached, mode, roleBinding, hub, queue, presetVars, bindVars, inputVars>>
    /\ UNCHANGED <<workerVars, bounds>>

DeleteProm(p) ==
    /\ prom[p].exists /\ ~prom[p].deleting
    /\ deletes < MaxDeletes /\ deletes' = deletes + 1
    /\ prom' = [prom EXCEPT ![p] = IF @.finalizer THEN [@ EXCEPT !.deleting = TRUE] ELSE Absent]
    /\ UNCHANGED <<cached, mode, roleBinding, hub, queue, presetVars, bindVars, inputVars>>
    /\ UNCHANGED <<workerVars, uids, drops, hubFaults, apiFaults, crashes>>

\* An AppBinding goes and takes its auth secret along: somebody deletes it, or
\* the Prometheus that owns it no longer exists.
Removed(n, k) ==
    /\ appBinding' = [appBinding EXCEPT ![n][k] = 0]
    /\ auth' = [auth EXCEPT ![n] = @ \ {k}]
    /\ UNCHANGED <<prom, cached, mode, roleBinding, hub, queue, presetVars, inputVars>>
    /\ UNCHANGED <<workerVars, uids, deletes, hubFaults, apiFaults, crashes>>

DropBinding(n, k) ==
    /\ appBinding[n][k] # 0
    /\ drops < MaxDrops /\ drops' = drops + 1
    /\ Removed(n, k)

CollectGarbage(n, k) ==
    /\ appBinding[n][k] # 0
    /\ \A p \in Proms : prom[p].exists => prom[p].uid # appBinding[n][k]
    /\ Removed(n, k)
    /\ UNCHANGED drops

\* The service is replaced; the rolebinding it owns goes with it.
DropService(n) ==
    /\ roleBinding[n] # NoMarker
    /\ drops < MaxDrops /\ drops' = drops + 1
    /\ roleBinding' = [roleBinding EXCEPT ![n] = NoMarker]
    /\ UNCHANGED <<prom, cached, mode, hub, queue, presetVars, bindVars, inputVars>>
    /\ UNCHANGED <<workerVars, uids, deletes, hubFaults, apiFaults, crashes>>

-----------------------------------------------------------------------------
(* Watches. *)

Listed == {p \in Proms : cached[p].exists}

Deliver(p) ==
    /\ cached[p] # prom[p]
    /\ cached' = [cached EXCEPT ![p] = prom[p]]
    /\ queue' = queue \cup {p}
    /\ UNCHANGED <<prom, mode, roleBinding, hub, presetVars, bindVars, inputVars>>
    /\ UNCHANGED <<workerVars, uids, bounds>>

\* kube-public/ace-info changes, or the secret with the Rancher token: every
\* Prometheus is enqueued.
ChangeState ==
    /\ state < MaxStates /\ state' = state + 1
    /\ queue' = queue \cup Listed
    /\ UNCHANGED <<prom, cached, mode, roleBinding, hub, token, presetVars, bindVars>>
    /\ UNCHANGED <<workerVars, uids, bounds>>

RotateToken ==
    /\ token # 0 /\ token < FirstToken + MaxTokens /\ token' = token + 1
    /\ queue' = queue \cup Listed
    /\ UNCHANGED <<prom, cached, mode, roleBinding, hub, state, presetVars, bindVars>>
    /\ UNCHANGED <<workerVars, uids, bounds>>

\* The cache delivers all it holds once more, every ten hours.
Resync ==
    /\ queue' = queue \cup Listed /\ queue' # queue
    /\ UNCHANGED <<prom, cached, mode, roleBinding, hub, presetVars, bindVars, inputVars>>
    /\ UNCHANGED <<workerVars, uids, bounds>>

Restart ==
    /\ crashes < MaxCrashes /\ crashes' = crashes + 1
    /\ cached' = prom /\ mode' = "unknown"
    /\ queue' = {p \in Proms : prom[p].exists}
    /\ pc' = "idle" /\ key' = None /\ local' = Absent
    /\ chosen' = NoMarker /\ marker' = NoMarker /\ backend' = "grafana"
    /\ UNCHANGED <<prom, roleBinding, hub, presetVars, bindVars, inputVars, uids>>
    /\ UNCHANGED <<deletes, drops, hubFaults, apiFaults>>

-----------------------------------------------------------------------------
(* The detector. *)

Existing == {p \in Proms : prom[p].exists}

\* Faulty: without OpenShift's own Prometheus the only one there is taken.
DetectedLone ==
    IF mode # "unknown" THEN mode
    ELSE IF Existing = {} THEN "unknown"
    ELSE IF Primary \in Existing THEN (IF Platform = "rancher" THEN "federated" ELSE "openshift")
    ELSE IF Cardinality(Existing) = 1 THEN "singleton" ELSE "many"

\* What detect() makes of the Prometheus objects it lists; a decision is kept.
\* On OpenShift nothing is decided without its own Prometheus.
Detected ==
    IF mode # "unknown" THEN mode
    ELSE IF Existing = {} THEN "unknown"
    ELSE IF Platform = "rancher" /\ Primary \in Existing THEN "federated"
    ELSE IF Platform = "openshift"
    THEN IF Primary \in Existing THEN "openshift" ELSE "unknown"
    ELSE IF Cardinality(Existing) = 1 THEN "singleton" ELSE "many"

\* Ready, asked by another controller of the process: they share the detector.
\* (A Reconcile under way has asked before.)
Detect ==
    /\ mode = "unknown" /\ pc = "idle"
    /\ mode' = Detected
    /\ UNCHANGED <<prom, cached, roleBinding, hub, queue, presetVars, bindVars, inputVars>>
    /\ UNCHANGED <<workerVars, uids, bounds>>

\* standalonePrometheus.singleton, or the platform's own Prometheus.
IsDefault(p) ==
    \/ mode = "singleton"
    \/ mode \in {"federated", "openshift"} /\ p = Primary

\* NamespaceForProjectSettings knows the project, or it is not asked for.
ProjectKnown(p) == IsDefault(p) \/ Project[p] # None

\* The context of p's registrations at the hub.
ContextOf(p) == IF IsDefault(p) THEN "default" ELSE Project[p]

-----------------------------------------------------------------------------
(* Reconcile. *)

Return(retry) ==
    /\ queue' = IF retry THEN queue \cup {key} ELSE queue
    /\ pc' = "idle" /\ key' = None /\ local' = Absent
    /\ chosen' = NoMarker /\ marker' = NoMarker /\ backend' = "grafana"

Goto(step) == pc' = step /\ UNCHANGED <<queue, key, local, chosen, marker, backend>>

\* Faulty: no finalizer is added.
FirstStepUnguarded(o) ==
    IF o.deleting THEN "unpreset" ELSE IF o.labelled THEN "access" ELSE "label"

FirstStep(o) ==
    IF o.deleting THEN "unpreset" ELSE IF o.labelled THEN "finalize" ELSE "label"

\* Faulty: the other Prometheus objects of OpenShift are handled as well.
HandlesAll(p) == cached[p].exists /\ Detected # "unknown"

\* Reconcile does nothing before the detector is ready, and nothing for the
\* other Prometheus objects of OpenShift.
Handles(p) ==
    /\ cached[p].exists
    /\ Detected # "unknown"
    /\ Detected = "openshift" => p = Primary

\* An empty list is an error and retried; OpenShift's missing one is not.
Start(p) ==
    /\ pc = "idle" /\ p \in queue
    /\ queue' = IF cached[p].exists /\ mode = "unknown" /\ Existing = {}
                THEN queue ELSE queue \ {p}
    /\ mode' = IF cached[p].exists THEN Detected ELSE mode
    /\ IF Handles(p)
       THEN /\ key' = p /\ local' = cached[p] /\ pc' = FirstStep(cached[p])
            /\ UNCHANGED <<chosen, marker, backend>>
       ELSE UNCHANGED workerVars
    /\ UNCHANGED <<prom, cached, roleBinding, hub, presetVars, bindVars, inputVars, uids, bounds>>

\* ensureExternalLabels.
EnsureLabels ==
    /\ pc = "label"
    /\ IF prom[key].exists
       THEN /\ prom' = [prom EXCEPT ![key].labelled = TRUE]
            /\ local' = prom'[key] /\ pc' = "finalize"
            /\ UNCHANGED <<queue, key, chosen, marker, backend>>
       ELSE Return(TRUE) /\ UNCHANGED prom
    /\ UNCHANGED <<cached, mode, roleBinding, hub, presetVars, bindVars, inputVars, uids, bounds>>

\* CreateOrPatch compares with the object in the cache and creates the object
\* anew when the cache has lost it.
AddFinalizer ==
    /\ pc = "finalize"
    /\ \/ /\ cached[key].exists /\ prom[key].exists
          /\ prom' = [prom EXCEPT ![key].finalizer = @ \/ ~cached[key].finalizer]
          /\ local' = prom'[key] /\ pc' = "access"
          /\ UNCHANGED <<queue, key, chosen, marker, backend, uids>>
       \/ /\ ~cached[key].exists /\ ~prom[key].exists
          /\ uids' = uids + 1
          /\ prom' = [prom EXCEPT ![key] = [New(uids') EXCEPT !.finalizer = TRUE,
                                                             !.labelled = local.labelled]]
          /\ local' = prom'[key] /\ pc' = "access"
          /\ UNCHANGED <<queue, key, chosen, marker, backend>>
       \/ /\ cached[key].exists # prom[key].exists
          /\ Return(TRUE)
          /\ UNCHANGED <<prom, uids>>
    /\ UNCHANGED <<cached, mode, roleBinding, hub, presetVars, bindVars, inputVars, bounds>>

\* Service, cluster state, token, service account, cluster role; the
\* rolebinding and the marker on it.
EnsureAccess ==
    /\ pc = "access" /\ pc' = "preset"
    /\ chosen' = [state |-> state, token |-> token]
    /\ marker' = roleBinding[Ns[key]]
    /\ UNCHANGED <<queue, key, local, backend>>
    /\ UNCHANGED <<prom, cached, mode, roleBinding, hub, presetVars, bindVars, inputVars, uids, bounds>>

ProjectScoped(p) == mode = "federated" /\ ~IsDefault(p)

\* Faulty: a new token is not looked for.
OutdatedByState == marker.state # chosen.state

\* The marker is of another cluster state or another token.
Outdated ==
    \/ marker.state # chosen.state
    \/ chosen.token # 0 /\ marker.token # chosen.token

\* CreateProjectPreset or CreateClusterPreset.
WritePreset ==
    IF ProjectScoped(key)
    THEN projectPresets' = projectPresets \cup {Project[key]} /\ UNCHANGED clusterPreset
    ELSE clusterPreset' = TRUE /\ UNCHANGED projectPresets

CreatePreset ==
    /\ pc = "preset"
    /\ IF ProjectScoped(key) /\ ~ProjectKnown(key)
       THEN Return(TRUE) /\ UNCHANGED presetVars
       ELSE /\ WritePreset
            /\ IF marker.state = Legacy THEN Goto("restamp")
               ELSE IF ~Outdated THEN Return(FALSE)
               ELSE IF ProjectKnown(key) THEN Goto("register")
               ELSE Return(TRUE)
    /\ UNCHANGED <<prom, cached, mode, roleBinding, hub, bindVars, inputVars, uids, bounds>>

\* Faulty: the marker is stamped before Perses is registered.
AfterBackendEarly(b, bound) ==
    IF IsDefault(key) /\ ~bound THEN "bind" ELSE "stamp"

\* The step after backend b is registered and, when bound, has its AppBinding.
AfterBackend(b, bound) ==
    IF IsDefault(key) /\ ~bound THEN "bind"
    ELSE IF b = "grafana" THEN "register"
    ELSE "stamp"

Advance(bound) ==
    /\ pc' = AfterBackend(backend, bound)
    /\ backend' = IF pc' = "register" THEN "perses" ELSE backend
    /\ UNCHANGED <<queue, key, local, chosen, marker>>

\* What is registered of the Prometheus at hand.
Chosen == [by |-> key, state |-> chosen.state, token |-> chosen.token]

Registered == [hub EXCEPT ![backend][ContextOf(key)] = Chosen]

Register ==
    /\ pc = "register"
    /\ hub' = Registered
    /\ Advance(FALSE)
    /\ UNCHANGED <<prom, cached, mode, roleBinding, presetVars, bindVars, inputVars, uids, bounds>>

\* CreatePrometheusAppBinding, and the AppBinding of the backend.
Bind ==
    /\ pc = "bind"
    /\ appBinding' = [appBinding EXCEPT ![Ns[key]]["prometheus"] = local.uid,
                                        ![Ns[key]][backend] = local.uid]
    /\ Goto("auth")
    /\ UNCHANGED <<prom, cached, mode, roleBinding, hub, auth, presetVars, inputVars, uids, bounds>>

Authorize ==
    /\ pc = "auth"
    /\ auth' = [auth EXCEPT ![Ns[key]] =
                   IF appBinding[Ns[key]][backend] # 0 THEN @ \cup {backend} ELSE @]
    /\ Advance(TRUE)
    /\ UNCHANGED <<prom, cached, mode, roleBinding, hub, appBinding, presetVars, inputVars, uids, bounds>>

\* Faulty: the marker names the state of the cluster as it is now.
MarkNow == [state |-> state, token |-> token]

\* applyMarkers.
Mark == chosen

\* The marker, after both backends or, on an old release's rolebinding, at once.
Stamp ==
    /\ pc \in {"stamp", "restamp"}
    /\ roleBinding' = [roleBinding EXCEPT ![Ns[key]] = Mark]
    /\ Return(FALSE)
    /\ UNCHANGED <<prom, cached, mode, hub, presetVars, bindVars, inputVars, uids, bounds>>

\* CleanupPreset; a preset that is not there is an error.
CleanupPreset ==
    /\ pc = "unpreset"
    /\ \/ /\ ProjectScoped(key) /\ ProjectKnown(key) /\ Project[key] \in projectPresets
          /\ projectPresets' = projectPresets \ {Project[key]} /\ UNCHANGED clusterPreset
          /\ Goto("unregister")
       \/ /\ ~ProjectScoped(key) /\ clusterPreset
          /\ clusterPreset' = FALSE /\ UNCHANGED projectPresets
          /\ IF ProjectKnown(key) THEN Goto("unregister") ELSE Return(TRUE)
       \/ /\ IF ProjectScoped(key) THEN Project[key] \notin projectPresets ELSE ~clusterPreset
          /\ UNCHANGED presetVars
          /\ Return(TRUE)
    /\ UNCHANGED <<prom, cached, mode, roleBinding, hub, bindVars, inputVars, uids, bounds>>

\* Faulty: only Grafana is unregistered.
AfterUnregisterGrafana(b) == "release"

AfterUnregister(b) == IF b = "grafana" THEN "unregister" ELSE "release"

\* Unregister, UnregisterPerses.
Unregister ==
    /\ pc = "unregister"
    /\ hub' = [hub EXCEPT ![backend][ContextOf(key)] = NoRegistration]
    /\ pc' = AfterUnregister(backend)
    /\ backend' = "perses"
    /\ UNCHANGED <<queue, key, local, chosen, marker>>
    /\ UNCHANGED <<prom, cached, mode, roleBinding, presetVars, bindVars, inputVars, uids, bounds>>

\* Faulty: the finalizer is left.
KeepFinalizer(o, c) == o

\* The patch takes away the finalizer the cached copy c has; a deleting object
\* goes with it.
WithoutFinalizer(o, c) ==
    IF ~c.finalizer THEN o
    ELSE IF o.deleting THEN Absent
    ELSE [o EXCEPT !.finalizer = FALSE]

RemoveFinalizer ==
    /\ pc = "release"
    /\ \/ /\ cached[key].exists /\ prom[key].exists
          /\ prom' = [prom EXCEPT ![key] = WithoutFinalizer(@, cached[key])]
          /\ Return(FALSE)
          /\ UNCHANGED uids
       \/ /\ ~cached[key].exists /\ ~prom[key].exists
          /\ uids' = uids + 1
          /\ prom' = [prom EXCEPT ![key] = [New(uids') EXCEPT !.labelled = local.labelled]]
          /\ Return(FALSE)
       \/ /\ cached[key].exists # prom[key].exists
          /\ Return(TRUE)
          /\ UNCHANGED <<prom, uids>>
    /\ UNCHANGED <<cached, mode, roleBinding, hub, presetVars, bindVars, inputVars, bounds>>

\* The hub fails, possibly after it has done what it was asked for.
HubFault ==
    /\ hubFaults < MaxHubFaults /\ hubFaults' = hubFaults + 1
    /\ \/ /\ pc = "register"
          /\ hub' \in {hub, Registered}
       \/ /\ pc = "unregister"
          /\ hub' \in {hub, [hub EXCEPT ![backend][ContextOf(key)] = NoRegistration]}
    /\ Return(TRUE)
    /\ UNCHANGED <<prom, cached, mode, roleBinding, presetVars, bindVars, inputVars, uids>>
    /\ UNCHANGED <<deletes, drops, apiFaults, crashes>>

\* A call to the API server fails; only the read of the cluster's name for the
\* labels and the write of the auth secret may fail without consequence.
ApiFault ==
    /\ apiFaults < MaxApiFaults /\ apiFaults' = apiFaults + 1
    /\ \/ pc = "label" /\ Goto("finalize")
       \/ pc = "auth" /\ Advance(TRUE)
       \/ /\ pc \in {"label", "finalize", "access", "preset", "bind", "stamp", "restamp",
                     "unpreset", "release"}
          /\ Return(TRUE)
    /\ UNCHANGED <<prom, cached, mode, roleBinding, hub, presetVars, bindVars, inputVars, uids>>
    /\ UNCHANGED <<deletes, drops, hubFaults, crashes>>

-----------------------------------------------------------------------------
User == \/ \E p \in Proms : CreateProm(p) \/ DeleteProm(p)
        \/ \E n \in Namespaces, k \in Kinds : DropBinding(n, k)
        \/ \E n \in Namespaces : DropService(n)

Collector == \E n \in Namespaces, k \in Kinds : CollectGarbage(n, k)

Step == \/ EnsureLabels \/ AddFinalizer \/ EnsureAccess \/ CreatePreset
        \/ Register \/ Bind \/ Authorize \/ Stamp
        \/ CleanupPreset \/ Unregister \/ RemoveFinalizer

Next == \/ User \/ Collector
        \/ \E p \in Proms : Deliver(p) \/ Start(p)
        \/ Detect
        \/ ChangeState \/ RotateToken \/ Resync \/ Restart
        \/ Step \/ HubFault \/ ApiFault

Spec == Init /\ [][Next]_vars

\* The informer delivers, the queue starves no key and a running Reconcile
\* goes on.  The ten-hour resync is not relied on.
Fairness ==
    /\ \A p \in Proms : WF_vars(Deliver(p)) /\ SF_vars(Start(p))
    /\ WF_vars(Step) /\ WF_vars(Collector)

FairSpec == Spec /\ Fairness

-----------------------------------------------------------------------------
(* Properties. *)

\* A backend is registered for a Prometheus only while it exists and carries
\* the finalizer that will take the registration back, stale caches, restarts
\* and lost answers included.
RegistrationNeedsFinalizer ==
    [][\A b \in Backends, c \in Contexts :
          hub'[b][c] # hub[b][c] /\ hub'[b][c].by # None
             => prom[hub'[b][c].by].exists /\ prom[hub'[b][c].by].finalizer]_vars

\* Why it holds: while the worker is between the finalizer and the marker the
\* object keeps the finalizer; before that, a cached finalizer is either real
\* or belongs to an object whose deletion the cache already shows; and no
\* object made anew gets the finalizer while its predecessor is torn down.
Guarded == {"access", "preset", "restamp", "register", "bind", "auth", "stamp"}

Held(o) == o.exists /\ o.finalizer

FinalizerInv ==
    /\ \A p \in Proms :
          /\ prom[p].deleting \/ prom[p].finalizer => prom[p].exists
          /\ prom[p].deleting => prom[p].finalizer
          /\ cached[p].deleting => Held(cached[p])
          /\ Held(cached[p]) /\ ~cached[p].deleting => Held(prom[p])
          /\ cached[p].deleting /\ Held(prom[p]) => prom[p].deleting
    /\ pc \in {"label", "finalize"} /\ Held(cached[key]) => Held(prom[key])
    /\ pc \in Guarded => Held(prom[key])
    /\ pc \in Ending => /\ Held(prom[key]) => prom[key].deleting
                        /\ Held(cached[key]) => cached[key].deleting

BeforeBackends == {"idle", "label", "finalize", "access", "preset", "restamp", "unpreset"}
Registering == {"register", "bind", "auth", "stamp"}

\* Why a marker can be believed: the backends behind the worker hold what it has
\* chosen, in a context that cannot move before it has stamped.
RegisteringInv ==
    /\ pc \in BeforeBackends => backend = "grafana"
    /\ pc \in Registering =>
          /\ ProjectKnown(key)
          /\ backend = "perses" => hub["grafana"][ContextOf(key)] = Chosen
    /\ pc \in {"bind", "auth", "stamp"} => hub[backend][ContextOf(key)] = Chosen
    /\ pc = "stamp" => backend = "perses"

\* Only over the marker of an old release nothing is registered.
LegacyInv ==
    LegacyNs = {} => /\ \A n \in Namespaces : roleBinding[n].state # Legacy
                     /\ marker.state # Legacy /\ pc # "restamp"

MarkerInv == RegisteringInv /\ LegacyInv

\* Why OpenShift's other Prometheus objects are left alone: its detector decides
\* nothing else, so the worker is never at one of them.
OpenShiftInv ==
    Platform = "openshift" =>
       /\ mode \in {"unknown", "openshift"}
       /\ pc # "idle" => key = Primary
       /\ LegacyNs = {} => \A p \in Proms \ {Primary} : ~prom[p].finalizer /\ ~prom[p].labelled

\* Why a lone Prometheus leaves nothing at the hub: it is the default one however
\* often the detector decides, so it is unregistered where it was registered.
Alone == \A p, q \in Proms : p = q

LoneInv ==
    Alone =>
       /\ mode = "unknown" \/ \A p \in Proms : IsDefault(p)
       /\ pc # "idle" => mode # "unknown"
       /\ \A b \in Backends, c \in Contexts :
             hub[b][c].by # None => c = "default" /\ Held(prom[hub[b][c].by])
       /\ pc = "unregister" /\ backend = "perses" => hub["grafana"]["default"].by = None
       /\ pc = "release" => \A b \in Backends : hub[b]["default"].by = None

\* Why an AppBinding tells whose it is: a uid is given once, so what the object,
\* the cache and the worker have of two Prometheus objects differs.
OwnUids(p) ==
    {prom[p].uid, cached[p].uid} \cup (IF pc # "idle" /\ key = p THEN {local.uid} ELSE {})

UidInv ==
    /\ \A p \in Proms : /\ \A u \in OwnUids(p) : u <= uids
                        /\ prom[p].exists => prom[p].uid # 0
    /\ \A p, q \in Proms : p # q => OwnUids(p) \cap OwnUids(q) \subseteq {0}

\* With the types, which no step of Reconcile, user, cluster or fault breaks,
\* this is inductive.
Inv == TypeOK /\ FinalizerInv /\ MarkerInv /\ OpenShiftInv /\ LoneInv /\ UidInv

\* Why one default: as long as the detector does not take a second Prometheus
\* for a lone one, only the platform's own is bound.
BindingInv ==
    /\ pc = "bind" => key = Primary
    /\ \A n \in Namespaces, k \in Kinds :
          /\ appBinding[n][k] <= uids
          /\ \A p \in Proms \ {Primary} : appBinding[n][k] \in OwnUids(p) => appBinding[n][k] = 0

\* What the verdict m of the detector makes of p: default, known to the hub, in
\* which context, and handled at all.
DefaultIn(m, p) == m = "singleton" \/ (m \in {"federated", "openshift"} /\ p = Primary)
KnownIn(m, p) == DefaultIn(m, p) \/ Project[p] # None
ContextIn(m, p) == IF DefaultIn(m, p) THEN "default" ELSE Project[p]
HandledIn(m, p) == KnownIn(m, p) /\ ("openshift" \in {Platform, m} => p = Primary)

\* Under that verdict no two Prometheus objects share a context at the hub.
OwnContext(m) ==
    \A p, q \in Proms : p # q /\ KnownIn(m, p) /\ KnownIn(m, q) => ContextIn(m, p) # ContextIn(m, q)

\* Nor do any two share a namespace.
Apart(m) == OwnContext(m) /\ \A p, q \in Proms : p # q => Ns[p] # Ns[q]

\* Why the hub keeps nothing of who has gone, while the verdict is m: everyone is
\* registered in the own context only, and taken from there before the finalizer.
PlaceInv(m) ==
    /\ pc # "idle" => mode = m
    /\ \A b \in Backends, c \in Contexts :
          LET p == hub[b][c].by IN
          p # None => KnownIn(m, p) /\ c = ContextIn(m, p) /\ Held(prom[p])
    /\ pc \in {"unregister", "release"} => KnownIn(m, key)
    /\ pc = "unregister" /\ backend = "perses" => hub["grafana"][ContextIn(m, key)].by = None
    /\ pc = "release" => \A b \in Backends : hub[b][ContextIn(m, key)].by = None

\* The marker of p names the present state and token.
Fresh(p) ==
    /\ roleBinding[Ns[p]].state = state
    /\ token # 0 => roleBinding[Ns[p]].token = token

Settled(m, p) ==
    /\ \A b \in Backends : hub[b][ContextIn(m, p)] = [by |-> p, state |-> state, token |-> token]
    /\ DefaultIn(m, p) => \A k \in Kinds : appBinding[Ns[p]][k] # 0

Choosing == {"preset"} \cup Registering

\* The worker is at p and has not read a state or token that is old by now.
AtWork(p) ==
    /\ pc # "idle" /\ key = p
    /\ pc \in Choosing => chosen.state = state /\ chosen.token = token

\* Why the system that rests is registered, while nothing is deleted and the
\* verdict is m: state and token only grow, so an old marker never becomes
\* fresh unless it is stamped; a fresh marker is true; and whoever has no fresh
\* marker is queued or at work.
ObjectsInv(m) ==
    /\ \A p \in Proms :
          /\ cached[p].exists => prom[p].exists /\ cached[p].uid = prom[p].uid
          /\ ~prom[p].deleting /\ ~cached[p].deleting
    /\ pc # "idle" =>
          /\ mode = m /\ pc \in Activating
          /\ cached[key].exists /\ local.uid = prom[key].uid
    /\ \A p \in Proms, k \in Kinds :
          appBinding[Ns[p]][k] # 0 => prom[p].exists /\ appBinding[Ns[p]][k] = prom[p].uid

ChoiceInv ==
    /\ state # 0
    /\ \A p \in Proms : roleBinding[Ns[p]].state <= state /\ roleBinding[Ns[p]].token <= token
    /\ pc \in Choosing =>
          /\ chosen.state # 0 /\ chosen.state <= state
          /\ chosen.token <= token
          /\ marker = roleBinding[Ns[key]]
          /\ marker.state <= chosen.state /\ marker.token <= chosen.token
    /\ pc \in Registering => Outdated

BoundInv(m) ==
    DefaultIn(m, key) /\ (pc \in {"auth", "stamp"} \/ (pc \in Registering /\ backend = "perses"))
       => /\ appBinding[Ns[key]]["prometheus"] # 0
          /\ appBinding[Ns[key]]["grafana"] # 0
          /\ pc \in {"auth", "stamp"} => appBinding[Ns[key]][backend] # 0

DueInv(m) ==
    \A p \in Proms :
       /\ Fresh(p) /\ KnownIn(m, p) => Settled(m, p)
       /\ cached[p].exists /\ HandledIn(m, p) => p \in queue \/ AtWork(p) \/ Fresh(p)

SettlingInv(m) == ObjectsInv(m) /\ ChoiceInv /\ BoundInv(m) /\ DueInv(m)

\* The comment on the marker: it is set only when both backends have been
\* registered with the state and token it names.
StampedMeansRegistered ==
    [][\A p \in Proms :
          LET n == Ns[p] IN
          roleBinding'[n] # roleBinding[n] /\ roleBinding'[n] # NoMarker
             => \E c \in Contexts : \A b \in Backends :
                   hub[b][c] = [by |-> key, state |-> roleBinding'[n].state,
                                token |-> roleBinding'[n].token]]_vars

\* Nothing is queued, running or undelivered.
Quiet == queue = {} /\ pc = "idle" /\ cached = prom

\* p is reconciled and its place at the hub is known.
Served(p) ==
    /\ prom[p].exists /\ mode # "unknown"
    /\ mode = "openshift" => p = Primary
    /\ ProjectKnown(p)

\* p is registered with both backends for the present cluster state and token.
IsRegistered(p) ==
    \A b \in Backends : hub[b][ContextOf(p)] = [by |-> p, state |-> state, token |-> token]

\* README: a default Prometheus has its AppBindings.
HasBindings(p) == IsDefault(p) => \A k \in Kinds : appBinding[Ns[p]][k] # 0

\* When the operator has come to rest every Prometheus is registered and has
\* its AppBindings, whatever changed while it was being registered and
\* whichever of the two backends failed.
SettledIsRegistered ==
    Quiet => \A p \in Proms : Served(p) => IsRegistered(p) /\ HasBindings(p)

\* DESIGN: a single default AppBinding can be determined.  True as long as the
\* detector takes no Prometheus for the only one that is not.
OneDefault ==
    Cardinality({p \in Proms : prom[p].exists
                               /\ appBinding[Ns[p]]["grafana"] = prom[p].uid}) <= 1

\* The comment in Reconcile: on OpenShift nothing is done for any Prometheus
\* but the user workload one, whichever is there first.
OpenShiftLeavesOthers ==
    Platform = "openshift" =>
       \A p \in Proms \ {Primary} : ~prom[p].finalizer /\ ~prom[p].labelled

Holding == [p \in Proms |-> Held(prom[p])]
Outside == [p \in Proms |-> \E b \in Backends, c \in Contexts : hub[b][c].by = p]

Contract == INSTANCE FinalizerContract
            WITH Owners <- Proms, held <- Holding, outside <- Outside

\* The finalizer of a Prometheus guards its registrations at the hub, as long
\* as the detector does not change its mind in a restart.
ImplementsFinalizerContract == Contract!ContractSpec

\* A Prometheus that stays ends up registered for the present state and token
\* and, as the default one, with its AppBindings.
Converges ==
    \A p \in Proms :
       <>[](prom[p].exists /\ ~prom[p].deleting)
          => <>[](Served(p) =>
                    prom[p].finalizer /\ prom[p].labelled /\ IsRegistered(p) /\ HasBindings(p))

\* The worker is to delete the preset of p, which is gone already.
PresetGone(p) ==
    /\ pc = "unpreset" /\ key = p
    /\ IF ProjectScoped(p) THEN Project[p] \notin projectPresets ELSE ~clusterPreset

\* README: a Prometheus that is deleted is cleaned up and goes, through failing
\* calls and restarts.  One thing only can hold it up: that the preset has gone
\* before the Reconcile that is to delete it, which fails then and ever after.
DeletionCompletes ==
    \A p \in Proms : [](prom[p].deleting => <>(~prom[p].exists \/ PresetGone(p)))
=============================================================================
