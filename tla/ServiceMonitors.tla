---------------------------- MODULE ServiceMonitors ----------------------------
(***************************************************************************)
(* AutoReconciler and FederationReconciler                                 *)
(* (src/pkg/controllers/servicemonitor), with the part of the Prometheus   *)
(* detector (src/pkg/detector/prometheus.go) they share.                   *)
(*                                                                         *)
(* The first gives a ServiceMonitor labelled prometheus=auto the labels of *)
(* a Prometheus that can select it.  The second gives one labelled         *)
(* prometheus=federated the labels of the default Prometheus and, in a     *)
(* federated Rancher cluster, copies it with its Service, Endpoints and CA *)
(* Secret into the namespace of every project Prometheus.  Each has a      *)
(* worker of its own and both write the same labels of the same object.    *)
(*                                                                         *)
(* The workers read a cached list of Prometheus objects (seenProm), the    *)
(* detector lists them at the API server (prom).                           *)
(*                                                                         *)
(* sm is the API server's ServiceMonitors, seen the cached ones; a user    *)
(* moves a label from auto to federated while workers are under way, a     *)
(* Prometheus is deleted and comes back as another object, the garbage     *)
(* collector deletes what hangs on the old one, and nothing watches the    *)
(* copies, the Endpoints, the Secrets or the namespaces.                   *)
(*                                                                         *)
(* Data abstracted: a Prometheus' selector asks for its own name in one    *)
(* label ("release"); on Rancher the system one selects every namespace    *)
(* and a project's those of the project, and the helm label names the      *)
(* project once its Prometheus is deployed; a monitor has one Service and  *)
(* one CA Secret, which change on Rancher only, where they are read; every *)
(* edit of a Service renames a port; names of copies do not clash with     *)
(* monitors of the target namespace. A copy the cache does not show in its *)
(* present form is a call that fails.                                      *)
(***************************************************************************)
EXTENDS Integers

CONSTANTS
    Monitors,       \* names of the ServiceMonitors users create
    Proms,          \* the Prometheus objects there may be
    Rank,           \* their places when sorted by namespace and name
    Primary,        \* rancher-monitoring's, or OpenShift's user workload one
    NoProm,         \* none of them
    NoKey,          \* a worker holds no key
    Platforms,      \* the platforms considered
    Insides,        \* whose namespace monitors may live in
    MaxEvents       \* bound: what users, faults and restarts may do in all

ASSUME MonitorsAssumption ==
    /\ Rank \in [Proms -> Nat] /\ \A p, q \in Proms : Rank[p] = Rank[q] => p = q
    /\ Primary \in Proms /\ NoProm \notin Proms
    /\ NoKey \notin Monitors
    /\ Platforms \subseteq {"plain", "openshift", "rancher"}
    /\ Insides \subseteq [Monitors -> Proms \cup {NoProm}]
    /\ MaxEvents \in Nat

VARIABLES
    platform,       \* what the REST mapper says of the cluster
    inside,         \* inside[m]: the Prometheus whose namespace m lives in
    project,        \* project[m]: the project of m's namespace, by its Prometheus;
                    \* NoProm for none and for the system project
    prom,           \* prom[p]: Prometheus p exists
    seenProm,       \* seenProm[p]: the cache shows none, an old or the present p
    sm, seen,       \* the ServiceMonitors and the cache of them
    service, seenService,   \* versions of their Services
    endpoints,      \* the Service version the Endpoints show, 0 before there are any
    secret,         \* the CA Secret is there
    copy,           \* copy[p][m]: the copy of m in p's namespace
    deps,           \* deps[p][m]: what was copied along with it
    mode,           \* what the detector has decided
    autoQueue, auto,        \* queue and worker of AutoReconciler
    fedQueue, fed,          \* queue and worker of FederationReconciler
    moved,          \* history: monitors whose namespace changed its project
    events          \* what is used of MaxEvents

worldVars == <<platform, inside, project, moved, prom, service, endpoints, secret>>
cacheVars == <<seenProm, seen, seenService>>
copyVars  == <<copy, deps>>
workVars  == <<mode, autoQueue, auto, fedQueue, fed>>
vars == <<worldVars, cacheVars, sm, copyVars, workVars, events>>

Kinds == {"auto", "federated", "none"}
Modes == {"unknown", "federated", "openshift", "standalone"}
Dependents == {"service", "endpoints", "secret"}

Monitor == [exists : BOOLEAN, kind : Kinds, release : Proms \cup {NoProm}, version : Nat]
Absent  == [exists |-> FALSE, kind |-> "none", release |-> NoProm, version |-> 0]

\* A copy of version 0 does not exist; its owner is the Prometheus object of
\* that name, or one that is gone.
Copy == [version : Nat, owner : {"old", "now"}]

\* Versions of the copied dependents, 0 for none, and those of them whose
\* owner is the copy that exists.
Deps == [has : [Dependents -> Nat], mine : SUBSET Dependents]

\* Dependents d with x written in version n, owned by a copy that exists or not.
Written(d, x, n, owned) ==
    [has |-> [d.has EXCEPT ![x] = n], mine |-> IF owned THEN d.mine \cup {x} ELSE d.mine \ {x}]

Listing == [Proms -> {"none", "old", "now"}]
Listed(l) == {p \in Proms : l[p] # "none"}

AutoIdle == [key |-> NoKey, local |-> Absent, target |-> NoProm]
FedIdle  == [key |-> NoKey, step |-> "turn", local |-> Absent, left |-> {},
             list |-> [p \in Proms |-> "none"], service |-> 0, failed |-> FALSE]

TypeOK ==
    /\ platform \in Platforms /\ inside \in Insides
    /\ project \in [Monitors -> Proms \cup {NoProm}]
    /\ prom \in [Proms -> BOOLEAN] /\ seenProm \in Listing
    /\ sm \in [Monitors -> Monitor] /\ seen \in [Monitors -> Monitor]
    /\ service \in [Monitors -> Nat] /\ seenService \in [Monitors -> Nat]
    /\ endpoints \in [Monitors -> Nat] /\ secret \in [Monitors -> BOOLEAN]
    /\ copy \in [Proms -> [Monitors -> Copy]] /\ deps \in [Proms -> [Monitors -> Deps]]
    /\ mode \in Modes
    /\ autoQueue \subseteq Monitors /\ fedQueue \subseteq Monitors
    /\ auto \in [key : Monitors \cup {NoKey}, local : Monitor, target : Proms \cup {NoProm}]
    /\ auto.key # NoKey => auto.target \in Proms
    /\ fed \in [key : Monitors \cup {NoKey}, step : Dependents \cup {"turn", "label"},
                local : Monitor, left : SUBSET Proms, list : Listing, service : Nat,
                failed : BOOLEAN]
    /\ fed.key # NoKey => fed.left # {} /\ fed.left \subseteq Listed(fed.list)
    /\ fed.key = NoKey => fed.step = "turn"
    /\ moved \subseteq Monitors /\ events \in Nat

\* The operator starts with nothing cached; monitors do not carry the label of
\* a Prometheus yet, and Prometheus objects may be there already.
Init ==
    /\ platform \in Platforms /\ inside \in Insides
    /\ project \in [Monitors -> (Proms \ {Primary}) \cup {NoProm}]
    /\ platform # "rancher" => inside = project /\ project = [m \in Monitors |-> NoProm]
    /\ prom \in [Proms -> BOOLEAN] /\ seenProm = [p \in Proms |-> "none"]
    /\ sm \in [Monitors -> [exists : {TRUE}, kind : {"auto", "federated"},
                            release : {NoProm}, version : {1}]]
    /\ seen = [m \in Monitors |-> Absent]
    /\ service = [m \in Monitors |-> 1] /\ seenService = service
    /\ endpoints = [m \in Monitors |-> 0] /\ secret = [m \in Monitors |-> FALSE]
    /\ copy = [p \in Proms |-> [m \in Monitors |-> [version |-> 0, owner |-> "old"]]]
    /\ deps = [p \in Proms |-> [m \in Monitors |->
                 [has |-> [x \in Dependents |-> 0], mine |-> {}]]]
    /\ mode = "unknown"
    /\ autoQueue = {} /\ fedQueue = {} /\ auto = AutoIdle /\ fed = FedIdle
    /\ moved = {} /\ events = 0
-----------------------------------------------------------------------------
(* The detector. *)

Existing == {p \in Proms : prom[p]}

\* What detect() makes of the Prometheus objects at the API server; a decision
\* is kept until the process ends.
Detected ==
    IF mode # "unknown" THEN mode
    ELSE IF Existing = {} THEN "unknown"
    ELSE IF platform = "rancher" /\ Primary \in Existing THEN "federated"
    ELSE IF platform # "openshift" THEN "standalone"
    ELSE IF Primary \in Existing THEN "openshift"
    ELSE "unknown"

\* Ready fails, and is asked again: there is no Prometheus.  OpenShift's
\* missing one is no error.
Undetected == mode = "unknown" /\ Existing = {}

\* Ready, asked by another controller of the process: they share the detector.
Detect ==
    /\ mode = "unknown"
    /\ mode' = Detected
    /\ UNCHANGED <<worldVars, cacheVars, sm, copyVars, autoQueue, auto, fedQueue, fed, events>>

-----------------------------------------------------------------------------
(* What is read from the caches. *)

\* The first of Prometheus objects S as sort.Slice orders them.
First(S) == CHOOSE p \in S : \A q \in S : Rank[p] <= Rank[q]

\* DefaultPrometheus
DefaultPrometheus(l) ==
    IF platform = "openshift"
    THEN IF Primary \in Listed(l) THEN Primary ELSE NoProm
    ELSE IF Listed(l) = {} THEN NoProm ELSE First(Listed(l))

\* p's namespace selector matches the namespace of m.
SelectsNamespace(p, m) == platform # "rancher" \/ p = Primary \/ project[m] = p

\* Faulty: only the label is compared.
HasPromByLabel(m, o, l) == o.release \in Listed(l)

\* HasProm: some Prometheus of list l selects copy o of monitor m.
HasProm(m, o, l) == \E p \in Listed(l) : SelectsNamespace(p, m) /\ o.release = p

\* The Prometheus AutoReconciler chooses for m, if any.
AutoTarget(m, l) ==
    IF platform # "rancher" THEN DefaultPrometheus(l)
    ELSE IF project[m] = NoProm /\ Primary \in Listed(l) THEN Primary
    ELSE IF project[m] \in Listed(l) THEN project[m]
    ELSE NoProm

\* Monitors of kind k in the cache.
OfKind(k, cache) == {m \in Monitors : cache[m].exists /\ cache[m].kind = k}

-----------------------------------------------------------------------------
(* Users and the cluster. *)

Happens == events < MaxEvents /\ events' = events + 1

Relabel(m) ==
    /\ sm[m].exists /\ Happens
    /\ \E k \in Kinds \ {sm[m].kind} : sm' = [sm EXCEPT ![m].kind = k]
    /\ UNCHANGED <<worldVars, cacheVars, copyVars, workVars>>

Edit(m) ==
    /\ sm[m].exists /\ Happens
    /\ sm' = [sm EXCEPT ![m].version = @ + 1]
    /\ UNCHANGED <<worldVars, cacheVars, copyVars, workVars>>

Delete(m) ==
    /\ sm[m].exists /\ Happens
    /\ sm' = [sm EXCEPT ![m] = Absent]
    /\ UNCHANGED <<worldVars, cacheVars, copyVars, workVars>>

EditService(m) ==
    /\ platform = "rancher" /\ Happens
    /\ service' = [service EXCEPT ![m] = @ + 1]
    /\ UNCHANGED <<platform, inside, project, moved, prom, endpoints, secret>>
    /\ UNCHANGED <<cacheVars, sm, copyVars, workVars>>

\* A Prometheus is created, or one is deleted: what points at it is old now.
CreateProm(p) ==
    /\ ~prom[p] /\ Happens
    /\ prom' = [prom EXCEPT ![p] = TRUE]
    /\ UNCHANGED <<platform, inside, project, moved, service, endpoints, secret>>
    /\ UNCHANGED <<cacheVars, sm, copyVars, workVars>>

Aged(l, p) == [l EXCEPT ![p] = IF @ = "now" THEN "old" ELSE @]

DeleteProm(p) ==
    /\ prom[p] /\ Happens
    /\ prom' = [prom EXCEPT ![p] = FALSE]
    /\ seenProm' = Aged(seenProm, p)
    /\ fed' = [fed EXCEPT !.list = Aged(@, p)]
    /\ copy' = [copy EXCEPT ![p] = [m \in Monitors |-> [@[m] EXCEPT !.owner = "old"]]]
    /\ UNCHANGED <<platform, inside, project, moved, service, endpoints, secret>>
    /\ UNCHANGED <<seen, seenService, sm, deps, mode, autoQueue, auto, fedQueue>>

\* The namespace of m is moved to another project; nobody watches that.
Move(m) ==
    /\ platform = "rancher" /\ Happens
    /\ \E p \in ((Proms \ {Primary}) \cup {NoProm}) \ {project[m]} :
          project' = [project EXCEPT ![m] = p]
    /\ moved' = moved \cup {m}
    /\ UNCHANGED <<platform, inside, prom, service, endpoints, secret>>
    /\ UNCHANGED <<cacheVars, sm, copyVars, workVars>>

\* The cluster fills in the Endpoints of the Service, cert-manager the Secret.
Catchup(m) ==
    /\ platform = "rancher"
    /\ \/ endpoints[m] # service[m] /\ endpoints' = [endpoints EXCEPT ![m] = service[m]]
          /\ UNCHANGED secret
       \/ ~secret[m] /\ secret' = [secret EXCEPT ![m] = TRUE] /\ UNCHANGED endpoints
    /\ UNCHANGED <<platform, inside, project, moved, prom, service>>
    /\ UNCHANGED <<cacheVars, sm, copyVars, workVars, events>>

\* The garbage collector deletes a copy whose Prometheus is gone, and what
\* was copied along with a copy that is gone.
Collect(p, m) ==
    /\ \/ /\ copy[p][m].version # 0 /\ copy[p][m].owner = "old"
          /\ copy' = [copy EXCEPT ![p][m] = [version |-> 0, owner |-> "old"]]
          /\ deps' = [deps EXCEPT ![p][m] = [@ EXCEPT !.mine = {}]]
       \/ \E x \in Dependents \ deps[p][m].mine :
             /\ deps[p][m].has[x] # 0
             /\ deps' = [deps EXCEPT ![p][m] = Written(@, x, 0, FALSE)]
             /\ UNCHANGED copy
    /\ UNCHANGED <<worldVars, cacheVars, sm, workVars, events>>

-----------------------------------------------------------------------------
(* Events: what the watches put on the two queues. *)

\* For(ServiceMonitor) of both controllers, each with its predicate.
DeliverMonitor(m) ==
    /\ seen[m] # sm[m]
    /\ seen' = [seen EXCEPT ![m] = sm[m]]
    /\ LET o == IF sm[m].exists THEN sm[m] ELSE seen[m] IN
       /\ autoQueue' = IF o.kind = "auto" THEN autoQueue \cup {m} ELSE autoQueue
       /\ fedQueue' = IF o.kind = "federated" THEN fedQueue \cup {m} ELSE fedQueue
    /\ UNCHANGED <<worldVars, seenProm, seenService, sm, copyVars, mode, auto, fed, events>>

\* ServiceMonitorsForService
DeliverService(m) ==
    /\ seenService[m] # service[m]
    /\ seenService' = [seenService EXCEPT ![m] = service[m]]
    /\ fedQueue' = fedQueue \cup ({m} \cap OfKind("federated", seen))
    /\ UNCHANGED <<worldVars, seenProm, seen, sm, copyVars, mode, autoQueue, auto, fed, events>>

\* ServiceMonitorsForPrometheus
MonitorsForPrometheus(k) == OfKind(k, seen)

DeliverProm(p) ==
    /\ seenProm[p] # IF prom[p] THEN "now" ELSE "none"
    /\ seenProm' = [seenProm EXCEPT ![p] = IF prom[p] THEN "now" ELSE "none"]
    /\ autoQueue' = autoQueue \cup MonitorsForPrometheus("auto")
    /\ fedQueue' = fedQueue \cup MonitorsForPrometheus("federated")
    /\ UNCHANGED <<worldVars, seen, seenService, sm, copyVars, mode, auto, fed, events>>

\* The informers' resync.
Resync ==
    /\ autoQueue' = autoQueue \cup OfKind("auto", seen)
    /\ fedQueue' = fedQueue \cup OfKind("federated", seen)
    /\ <<autoQueue', fedQueue'>> # <<autoQueue, fedQueue>>
    /\ UNCHANGED <<worldVars, cacheVars, sm, copyVars, mode, auto, fed, events>>

\* The process restarts and lists everything.
Restart ==
    /\ Happens
    /\ seen' = sm /\ seenService' = service
    /\ seenProm' = [p \in Proms |-> IF prom[p] THEN "now" ELSE "none"]
    /\ autoQueue' = OfKind("auto", sm) /\ fedQueue' = OfKind("federated", sm)
    /\ auto' = AutoIdle /\ fed' = FedIdle /\ mode' = "unknown"
    /\ UNCHANGED <<worldVars, sm, copyVars>>

-----------------------------------------------------------------------------
(* AutoReconciler. *)

\* Faulty: a label that is there is kept.
LabelsKept(m, p, local) ==
    \/ /\ seen[m].exists /\ sm[m].exists
       /\ sm' = [sm EXCEPT ![m].release = IF seen[m].release = NoProm THEN p ELSE @]
    \/ /\ ~seen[m].exists /\ ~sm[m].exists
       /\ sm' = [sm EXCEPT ![m] = [local EXCEPT !.release = p]]

\* updateServiceMonitorLabels: CreateOrPatch writes the labels that differ
\* from the cached monitor, or creates the one Reconcile read anew when the
\* cache has lost it.
Labels(m, p, local) ==
    \/ /\ seen[m].exists /\ sm[m].exists
       /\ sm' = [sm EXCEPT ![m].release = IF seen[m].release = p THEN @ ELSE p]
    \/ /\ ~seen[m].exists /\ ~sm[m].exists
       /\ sm' = [sm EXCEPT ![m] = [local EXCEPT !.release = p]]

CanLabel(m) == seen[m].exists = sm[m].exists

\* Reconcile up to the write: it ends there unless a Prometheus is chosen.
AutoStart(m) ==
    /\ auto.key = NoKey /\ m \in autoQueue
    /\ LET o == seen[m]
           p == AutoTarget(m, seenProm)
       IN
       /\ mode' = IF o.exists THEN Detected ELSE mode
       /\ autoQueue' = IF o.exists /\ Undetected THEN autoQueue ELSE autoQueue \ {m}
       /\ auto' = IF /\ o.exists /\ o.kind = "auto"
                     /\ Detected # "unknown" /\ Listed(seenProm) # {}
                     /\ ~HasProm(m, o, seenProm) /\ p # NoProm
                  THEN [key |-> m, local |-> o, target |-> p]
                  ELSE auto
    /\ UNCHANGED <<worldVars, cacheVars, sm, copyVars, fedQueue, fed, events>>

AutoReturn(retry) ==
    /\ autoQueue' = IF retry THEN autoQueue \cup {auto.key} ELSE autoQueue
    /\ auto' = AutoIdle

AutoLabel ==
    /\ auto.key # NoKey
    /\ IF CanLabel(auto.key)
       THEN Labels(auto.key, auto.target, auto.local) /\ AutoReturn(FALSE)
       ELSE UNCHANGED sm /\ AutoReturn(TRUE)
    /\ UNCHANGED <<worldVars, cacheVars, copyVars, mode, fedQueue, fed, events>>

AutoFault ==
    /\ auto.key # NoKey /\ Happens
    /\ AutoReturn(TRUE)
    /\ UNCHANGED <<worldVars, cacheVars, sm, copyVars, mode, fedQueue, fed>>
-----------------------------------------------------------------------------
(* FederationReconciler. *)

\* Reconcile up to the loop; the detector is asked with Prometheus objects in
\* the cache only.  Without federation the default Prometheus gets its label
\* and that is all; a missing Secret ends the pass with an error.
FedStart(m) ==
    /\ fed.key = NoKey /\ m \in fedQueue
    /\ LET o == seen[m]
           d == Detected
           p == DefaultPrometheus(seenProm)
           concerned == o.exists /\ o.kind = "federated" /\ Listed(seenProm) # {}
           works == [key |-> m, step |-> "turn", local |-> o, left |-> Listed(seenProm),
                     list |-> seenProm, service |-> seenService[m], failed |-> FALSE]
       IN
       /\ mode' = IF concerned THEN d ELSE mode
       /\ fedQueue' = IF concerned /\ (Undetected \/ (d = "federated" /\ ~secret[m]))
                      THEN fedQueue ELSE fedQueue \ {m}
       /\ fed' = IF ~concerned \/ d = "unknown" THEN fed
                 ELSE IF d = "federated" THEN IF secret[m] THEN works ELSE fed
                 ELSE IF p # NoProm
                 THEN [works EXCEPT !.step = "label", !.left = {p}]
                 ELSE fed
    /\ UNCHANGED <<worldVars, cacheVars, sm, copyVars, autoQueue, auto, events>>

FedReturn(retry) ==
    /\ fedQueue' = IF retry THEN fedQueue \cup {fed.key} ELSE fedQueue
    /\ fed' = FedIdle

\* The Prometheus the loop is at, and whether the worker is at step s of it.
Here == First(fed.left)
At(s) == fed.key # NoKey /\ fed.step = s
Mine == At("turn") /\ Here # Primary
Misplaced == inside[fed.key] = Here

\* The aggregate of the loop's errors is returned.
Retries(failed) == failed

\* The loop goes on with copy o of the monitor to the next Prometheus, if any;
\* an error is remembered.
NextProm(o, failed) ==
    IF fed.left = {Here}
    THEN FedReturn(Retries(fed.failed \/ failed))
    ELSE /\ fed' = [fed EXCEPT !.step = "turn", !.local = o, !.left = @ \ {Here},
                              !.failed = @ \/ failed]
         /\ UNCHANGED fedQueue

\* The loop goes on to the next object of this one.
NextStep(s, failed) ==
    /\ fed' = [fed EXCEPT !.step = s, !.failed = @ \/ failed]
    /\ UNCHANGED fedQueue

\* The default Prometheus: the labels, and the loop works on with the answer.
FedLabel ==
    /\ At("label") \/ (At("turn") /\ Here = Primary)
    /\ IF CanLabel(fed.key)
       THEN Labels(fed.key, Here, fed.local) /\ NextProm(sm'[fed.key], FALSE)
       ELSE UNCHANGED sm /\ NextProm(fed.local, TRUE)
    /\ UNCHANGED <<worldVars, cacheVars, copyVars, mode, autoQueue, auto, events>>

\* A monitor in the namespace of a project Prometheus ends the loop, and no
\* error of the Prometheus objects before it is returned.
FedReject ==
    /\ Mine /\ Misplaced
    /\ FedReturn(FALSE)
    /\ UNCHANGED <<worldVars, cacheVars, sm, copyVars, mode, autoQueue, auto, events>>

\* Faulty: the owner is only set when the copy is created.
OwnerKept(old, l) == IF old.version # 0 THEN old.owner ELSE l

\* The owner a copy gets: the Prometheus object of the list.
Owner(old, l) == l

\* copyServiceMonitor
FedCopy ==
    /\ Mine /\ ~Misplaced
    /\ copy' = [copy EXCEPT ![Here][fed.key] = [version |-> fed.local.version,
                                               owner |-> Owner(@, fed.list[Here])]]
    /\ NextStep("service", FALSE)
    /\ UNCHANGED <<worldVars, cacheVars, sm, deps, mode, autoQueue, auto, events>>

\* Faulty: the owner is looked up by name only.
OwnsByName(p, m) == TRUE

\* The owner written to a dependent is the copy this pass wrote, which may be
\* gone by now.
Owns(p, m) == copy[p][m].version # 0

Depend(x, n) ==
    deps' = [deps EXCEPT ![Here][fed.key] = Written(@, x, n, Owns(Here, fed.key))]

\* copyService
FedService ==
    /\ At("service")
    /\ Depend("service", fed.service) /\ NextStep("endpoints", FALSE)
    /\ UNCHANGED <<worldVars, cacheVars, sm, copy, mode, autoQueue, auto, events>>

\* copyEndpoints: without Endpoints an error; with ones that name a port the
\* Service read before does not have, ServicePortForName panics.
FedEndpoints ==
    /\ At("endpoints")
    /\ \/ /\ endpoints[fed.key] = 0
          /\ NextStep("secret", TRUE)
          /\ UNCHANGED deps
       \/ /\ endpoints[fed.key] = fed.service
          /\ Depend("endpoints", fed.service) /\ NextStep("secret", FALSE)
       \/ /\ endpoints[fed.key] \notin {0, fed.service}
          /\ FedReturn(TRUE)
          /\ UNCHANGED deps
    /\ UNCHANGED <<worldVars, cacheVars, sm, copy, mode, autoQueue, auto, events>>

\* copySecret
FedSecret ==
    /\ At("secret")
    /\ Depend("secret", 1) /\ NextProm(fed.local, FALSE)
    /\ UNCHANGED <<worldVars, cacheVars, sm, copy, mode, autoQueue, auto, events>>

\* A call fails.  The loop goes on, unless it was the copy of the monitor:
\* copyService then dereferences nil, and the recovered panic is an error.
FedFault ==
    /\ Happens
    /\ \/ (At("label") \/ (At("turn") /\ Here = Primary)) /\ NextProm(fed.local, TRUE)
       \/ Mine /\ ~Misplaced /\ FedReturn(TRUE)
       \/ At("service") /\ NextStep("endpoints", TRUE)
       \/ At("endpoints") /\ NextStep("secret", TRUE)
       \/ At("secret") /\ NextProm(fed.local, TRUE)
    /\ UNCHANGED <<worldVars, cacheVars, sm, copyVars, mode, autoQueue, auto>>

-----------------------------------------------------------------------------
User == \/ \E m \in Monitors : Relabel(m) \/ Edit(m) \/ Delete(m) \/ EditService(m) \/ Move(m)
        \/ \E p \in Proms : CreateProm(p) \/ DeleteProm(p)

Cluster == \/ \E m \in Monitors : Catchup(m)
           \/ \E p \in Proms, m \in Monitors : Collect(p, m)

Informers == \/ \E m \in Monitors : DeliverMonitor(m) \/ DeliverService(m)
             \/ \E p \in Proms : DeliverProm(p)

FedStep == FedLabel \/ FedReject \/ FedCopy \/ FedService \/ FedEndpoints \/ FedSecret

Next == \/ User \/ Cluster \/ Informers \/ Resync \/ Restart \/ Detect
        \/ AutoLabel \/ AutoFault \/ FedStep \/ FedFault
        \/ \E m \in Monitors : AutoStart(m) \/ FedStart(m)

Spec == Init /\ [][Next]_vars

\* The cluster and the informers go on, the resync timer fires, neither worker
\* stops in the middle of a Reconcile, and no key starves.
Fairness ==
    /\ WF_vars(Cluster) /\ WF_vars(Informers) /\ WF_vars(Resync)
    /\ WF_vars(AutoLabel) /\ WF_vars(FedStep)
    /\ \A m \in Monitors : SF_vars(AutoStart(m)) /\ SF_vars(FedStart(m))

FairSpec == Spec /\ Fairness

-----------------------------------------------------------------------------
(* Properties. *)

Present == [p \in Proms |-> IF prom[p] THEN "now" ELSE "none"]

\* No worker and no queue holds m, and the caches show what there is.
AtRest(m) ==
    /\ m \notin autoQueue \cup fedQueue /\ m \notin {auto.key, fed.key}
    /\ seen[m] = sm[m] /\ seenService[m] = service[m] /\ seenProm = Present

\* m can be scraped: a Prometheus that exists and may look into its namespace
\* asks for its label, if there is one to choose.
Served(m) ==
    AutoTarget(m, Present) # NoProm
       => sm[m].release # NoProm /\ prom[sm[m].release] /\ SelectsNamespace(sm[m].release, m)

\* m carries the label of the default Prometheus.
Labelled(m) ==
    LET p == IF mode # "federated" THEN DefaultPrometheus(Present)
             ELSE IF prom[Primary] THEN Primary ELSE NoProm
    IN p # NoProm => sm[m].release = p

\* m and what belongs to it are copied to every project Prometheus, as they
\* are now and owned by what exists now.
Copied(m) ==
    \A p \in Proms \ {Primary} : prom[p] =>
       /\ copy[p][m] = [version |-> sm[m].version, owner |-> "now"]
       /\ deps[p][m].has["service"] = service[m]
       /\ deps[p][m].has["endpoints"] = service[m]
       /\ deps[p][m].mine = Dependents

\* An auto monitor the operator has come to rest about is scraped by some
\* Prometheus, unless its namespace was moved to another project.
SettledIsServed ==
    \A m \in Monitors \ moved :
       AtRest(m) /\ mode # "unknown" /\ sm[m].exists /\ sm[m].kind = "auto" => Served(m)

\* A monitor that may be federated: it does not live with a project Prometheus.
Federated(m) ==
    sm[m].exists /\ sm[m].kind = "federated" /\ inside[m] \in {NoProm, Primary}

\* A federated monitor the operator has come to rest about carries the label
\* of the default Prometheus, although AutoReconciler may have had it in hand
\* when it was relabelled, and in a federated cluster its present version is
\* at every project Prometheus with its Service and Endpoints, owned by
\* objects that exist: whatever calls failed in the middle of the loop, and
\* whichever Prometheus was replaced while the garbage collector ran.
SettledIsFederated ==
    \A m \in Monitors :
       AtRest(m) /\ mode # "unknown" /\ Federated(m)
          => Labelled(m) /\ (mode = "federated" => Copied(m))

\* What a copy owns belongs to a copy that exists and is there, and a copy
\* whose owner is current has one: the garbage collector never takes a part
\* of what a later pass found complete.
CopiesAreOwned ==
    \A p \in Proms, m \in Monitors :
       /\ copy[p][m].version = 0 => deps[p][m].mine = {}
       /\ copy[p][m].owner = "now" => prom[p]
       /\ \A x \in deps[p][m].mine : deps[p][m].has[x] # 0

\* Why that holds: what a pass copies, and what it may still create, was there
\* when it began, and a Prometheus it takes for the present one is.
PassInv ==
    /\ \A m \in Monitors :
          /\ service[m] # 0 /\ seenService[m] # 0
          /\ sm[m].exists => sm[m].version # 0
          /\ seen[m].exists => seen[m].version # 0
    /\ auto.key # NoKey => auto.local.version # 0
    /\ fed.key # NoKey => fed.local.version # 0 /\ fed.service # 0
    /\ \A p \in Proms : "now" \in {seenProm[p], fed.list[p]} => prom[p]

\* What the cache does not show of m yet: a label somebody wrote, an edit.
Unseen(m) == ~sm[m].exists \/ sm[m].release # seen[m].release
Outdated(m) == ~sm[m].exists \/ seen[m].version < sm[m].version

\* The detector may have found OpenShift's Prometheus missing, upon which a
\* monitor is dropped: the cache does not show the present one yet.
Missable == platform = "openshift" /\ seenProm[Primary] # "now"

\* Why an auto monitor ends up with a Prometheus: one that is cached and not on
\* the queue was decided on with the Prometheus objects that are cached now,
\* and its label is there or the cache still has to tell of it.
AutoInv(m) ==
    seen[m].exists /\ seen[m].kind = "auto" /\ m \notin autoQueue /\ ~Missable =>
       /\ mode # "unknown"
       /\ m \notin moved =>
             IF auto.key = m
             THEN auto.target \in Listed(seenProm) /\ SelectsNamespace(auto.target, m)
             ELSE \/ HasProm(m, seen[m], seenProm) \/ Unseen(m)
                  \/ AutoTarget(m, seenProm) = NoProm

\* What a pass of FederationReconciler has done of m, with p as it is cached.
LabelDone(p, m) == seen[m].release = p \/ Unseen(m)

CopyDone(p, m) ==
    seenProm[p] = "now" =>
       /\ copy[p][m].owner = "now" /\ copy[p][m].version # 0
       /\ copy[p][m].version = seen[m].version \/ Outdated(m)

DependentDone(x, p, m) ==
    seenProm[p] = "now" =>
       x \in deps[p][m].mine /\ (x # "secret" => deps[p][m].has[x] = seenService[m])

Complete(p, m) == CopyDone(p, m) /\ \A x \in Dependents : DependentDone(x, p, m)

\* A federated monitor nobody works on has all of it.
FedDone(m) ==
    LET p == IF mode = "federated" THEN Primary ELSE DefaultPrometheus(seenProm)
    IN  /\ p \in Listed(seenProm) => LabelDone(p, m)
        /\ mode = "federated" => \A q \in Listed(seenProm) \ {Primary} : Complete(q, m)

\* The one worked on has what the loop is through with, unless it has failed;
\* and the loop goes by what is cached.
FedUnderway(m) ==
    /\ fed.list = seenProm /\ fed.service = seenService[m]
    /\ fed.local.version = seen[m].version \/ Outdated(m)
    /\ fed.step = "label" => fed.left = {DefaultPrometheus(seenProm)}
    /\ fed.step # "label" /\ ~fed.failed =>
          /\ Primary \in Listed(seenProm) \ fed.left => LabelDone(Primary, m)
          /\ \A q \in Listed(seenProm) \ (fed.left \cup {Primary}) : Complete(q, m)
          /\ fed.step # "turn" => CopyDone(Here, m) /\ Here # Primary
          /\ fed.step \in {"endpoints", "secret"} => DependentDone("service", Here, m)
          /\ fed.step = "secret" => DependentDone("endpoints", Here, m)

FedInv(m) ==
    /\ seen[m].exists /\ sm[m].exists => seen[m].version <= sm[m].version
    /\ /\ seen[m].exists /\ seen[m].kind = "federated" /\ m \notin fedQueue
       /\ inside[m] \in {NoProm, Primary} /\ ~Missable
       => /\ mode = "unknown" => Listed(seenProm) = {}
          /\ IF fed.key = m THEN FedUnderway(m) ELSE FedDone(m)

\* A worker only runs once the detector has decided, and accordingly.
WorkInv ==
    /\ mode = "federated" => platform = "rancher"
    /\ fed.key # NoKey => /\ mode # "unknown" /\ (fed.step = "label" <=> mode # "federated")
                          /\ fed.step = "label" => fed.left = {Here}

RestInv == WorkInv /\ \A m \in Monitors : AutoInv(m) /\ FedInv(m)

\* With the types all that is inductive, for both workers and any of the things
\* that may happen to them.
Inv == TypeOK /\ CopiesAreOwned /\ PassInv /\ RestInv

\* Once users have stopped and faults too, auto monitors are scraped and
\* federated ones copied; the resync catches up with namespaces that moved.
Converges ==
    <>[](\A m \in Monitors :
            mode # "unknown" =>
               /\ sm[m].exists /\ sm[m].kind = "auto" => Served(m)
               /\ Federated(m) => Labelled(m) /\ (mode = "federated" => Copied(m)))
=============================================================================
