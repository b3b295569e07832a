--------------------------- MODULE GrafanaDashboard ---------------------------
(***************************************************************************)
(* GrafanaDashboardReconciler of the grafana operator                      *)
(* (src/pkg/controllers/openviz/grafanadashboard_controller.go).           *)
(*                                                                         *)
(* The API server keeps the GrafanaDashboard objects (obj) and the         *)
(* AppBindings that say where Grafana is (binding, secret).  The operator  *)
(* sees them through an informer cache that lags (seen, bound).  Events    *)
(* that pass the watch filter put a key on the work queue; one worker      *)
(* takes a key and runs Reconcile, one API or HTTP call per step (pc).     *)
(* Grafana itself is remote[g][d]: the generation of d's model it stores,  *)
(* 0 for none.                                                             *)
(*                                                                         *)
(* Data abstracted: a model is the generation of the spec that carries it; *)
(* the state hash of an AppBinding is the Grafana it points at; a          *)
(* dashboard's id and uid are the fact that Grafana has it (Overwrite:true *)
(* makes a push without id land on the dashboard of the same title).       *)
(* A name is not created again after its object is gone.                   *)
(***************************************************************************)
EXTENDS Naturals

CONSTANTS
    Dashboards,        \* names of GrafanaDashboard objects
    Bindings,          \* names of AppBindings
    Ref,               \* Ref[d]: the AppBinding of spec.grafanaRef
    Grafanas,          \* the Grafana servers an AppBinding can point at
    NoGrafana,         \* no AppBinding / nothing recorded
    FirstBindings,     \* where the AppBindings may point at first
    NoKey,             \* the worker holds no key
    Rejected,          \* generations whose model Grafana answers with 400
    Malformed,         \* generations whose model cannot be templatized
    MaxGeneration,     \* bound: spec edits
    MaxRebinds,        \* bound: changes of AppBindings and their secrets
    MaxFaults,         \* bound: failed API and HTTP calls
    MaxCrashes         \* bound: operator restarts

ASSUME DashboardAssumption ==
    /\ Ref \in [Dashboards -> Bindings]
    /\ NoGrafana \notin Grafanas
    /\ FirstBindings \subseteq [Bindings -> Grafanas \cup {NoGrafana}]
    /\ NoKey \notin Dashboards
    /\ Rejected \subseteq Nat /\ Malformed \subseteq Nat
    /\ MaxGeneration \in Nat /\ MaxRebinds \in Nat
    /\ MaxFaults \in Nat /\ MaxCrashes \in Nat

VARIABLES
    obj,        \* obj[d]: the object at the API server
    seen,       \* seen[d]: the informer's copy of it
    binding,    \* binding[b]: the Grafana AppBinding b points at, or NoGrafana
    bound,      \* bound[b]: the informer's copy of it
    secret,     \* secret[b]: the auth secret of b exists
    remote,     \* remote[g][d]: generation stored in Grafana g, 0 if none
    queue,      \* keys waiting in the work queue
    pc,         \* the next step of the worker
    key,        \* the key it works on
    local,      \* Reconcile's copy of the object
    target,     \* the state setDashboard computed from the AppBinding
    observe,    \* handleSetDashboardError's updateGeneration
    rebinds, faults, crashes        \* what is used of the bounds

userVars   == <<binding, secret, rebinds>>
workerVars == <<pc, key, local, target, observe>>
vars == <<obj, seen, binding, bound, secret, remote, queue,
          pc, key, local, target, observe, rebinds, faults, crashes>>

Phases == {"", "Processing", "Current", "Failed", "Terminating"}

Targets == Grafanas \cup {NoGrafana}

Object == [exists : BOOLEAN, deleting : BOOLEAN, finalizer : BOOLEAN,
           generation : Nat, observed : Nat, phase : Phases, dashboard : Targets]

Absent == [exists |-> FALSE, deleting |-> FALSE, finalizer |-> FALSE,
           generation |-> 0, observed |-> 0, phase |-> "", dashboard |-> NoGrafana]

Steps == {"idle", "finalize", "mark", "resolve", "push", "org", "record", "fail",
          "terminate", "cleanup", "release"}

TypeOK ==
    /\ obj \in [Dashboards -> Object]
    /\ seen \in [Dashboards -> Object]
    /\ binding \in [Bindings -> Targets]
    /\ bound \in [Bindings -> Targets]
    /\ secret \in [Bindings -> BOOLEAN]
    /\ remote \in [Grafanas -> [Dashboards -> Nat]]
    /\ queue \subseteq Dashboards
    /\ pc \in Steps
    /\ key \in Dashboards \cup {NoKey}
    /\ pc # "idle" => key \in Dashboards
    /\ local \in Object
    /\ target \in Targets
    /\ observe \in BOOLEAN
    /\ rebinds \in Nat /\ faults \in Nat /\ crashes \in Nat

\* Every object has just been created; the operator has seen nothing yet.
Init ==
    /\ obj = [d \in Dashboards |-> [Absent EXCEPT !.exists = TRUE, !.generation = 1]]
    /\ seen = [d \in Dashboards |-> Absent]
    /\ binding \in FirstBindings
    /\ bound = binding
    /\ secret = [b \in Bindings |-> TRUE]
    /\ remote = [g \in Grafanas |-> [d \in Dashboards |-> 0]]
    /\ queue = {}
    /\ pc = "idle" /\ key = NoKey /\ local = Absent
    /\ target = NoGrafana /\ observe = FALSE
    /\ rebinds = 0 /\ faults = 0 /\ crashes = 0

-----------------------------------------------------------------------------
(* Watches: which events put a key on the queue. *)

\* IsStateChanged: the recorded state is not the one of the AppBinding.
IsStateChanged(o, g) == o.dashboard # NoGrafana /\ o.dashboard # g

\* Faulty: the spec's generation is not compared.
FilterWithoutGeneration(d, o, bs) ==
    o.deleting \/ (bs[Ref[d]] # NoGrafana /\ IsStateChanged(o, bs[Ref[d]]))

\* Faulty: a moved Grafana is not looked for.
FilterWithoutState(d, o, bs) == o.deleting \/ o.generation # o.observed

\* The predicate of For(): deletion, an unobserved generation, or a Grafana
\* that changed under the dashboard.
Filter(d, o, bs) ==
    \/ o.deleting
    \/ o.generation # o.observed
    \/ bs[Ref[d]] # NoGrafana /\ IsStateChanged(o, bs[Ref[d]])

\* The keys For() enqueues when every object of objs is delivered.
Passing(objs, bs) == {d \in Dashboards : objs[d].exists /\ Filter(d, objs[d], bs)}

\* The map function of Watches(AppBinding): failed and stale dashboards that
\* reference b, but nothing at all when some dashboard's AppBinding does not
\* resolve.
AppHandler(b, objs, bs) ==
    IF \E d \in Dashboards : objs[d].exists /\ bs[Ref[d]] = NoGrafana
    THEN {}
    ELSE {d \in Dashboards : /\ objs[d].exists
                             /\ Ref[d] = b
                             /\ objs[d].phase = "Failed" \/ IsStateChanged(objs[d], bs[b])}

AllHandlers(objs, bs) == UNION {AppHandler(b, objs, bs) : b \in Bindings}

-----------------------------------------------------------------------------
(* Users, and the API server's part of a deletion. *)

EditSpec(d) ==
    /\ obj[d].exists /\ ~obj[d].deleting
    /\ obj[d].generation < MaxGeneration
    /\ obj' = [obj EXCEPT ![d].generation = @ + 1]
    /\ UNCHANGED <<seen, bound, remote, queue, faults, crashes>>
    /\ UNCHANGED <<userVars, workerVars>>

DeleteObject(d) ==
    /\ obj[d].exists /\ ~obj[d].deleting
    /\ obj' = [obj EXCEPT ![d] = IF @.finalizer THEN [@ EXCEPT !.deleting = TRUE] ELSE Absent]
    /\ UNCHANGED <<seen, bound, remote, queue, faults, crashes>>
    /\ UNCHANGED <<userVars, workerVars>>

\* An AppBinding is created, pointed at another Grafana, or deleted.
Rebind(b) ==
    /\ rebinds < MaxRebinds
    /\ \E g \in Targets \ {binding[b]} : binding' = [binding EXCEPT ![b] = g]
    /\ rebinds' = rebinds + 1
    /\ UNCHANGED <<obj, seen, bound, secret, remote, queue, faults, crashes>>
    /\ UNCHANGED workerVars

\* The auth secret of an AppBinding is deleted or created again.
ToggleSecret(b) ==
    /\ rebinds < MaxRebinds
    /\ secret' = [secret EXCEPT ![b] = ~@]
    /\ rebinds' = rebinds + 1
    /\ UNCHANGED <<obj, seen, binding, bound, remote, queue, faults, crashes>>
    /\ UNCHANGED workerVars

-----------------------------------------------------------------------------
(* The informers. *)

\* The newest version of d reaches the cache; its event is filtered.
Deliver(d) ==
    /\ seen[d] # obj[d]
    /\ seen' = [seen EXCEPT ![d] = obj[d]]
    /\ queue' = IF Filter(d, IF obj[d].exists THEN obj[d] ELSE seen[d], bound)
                THEN queue \cup {d} ELSE queue
    /\ UNCHANGED <<obj, bound, remote, faults, crashes>>
    /\ UNCHANGED <<userVars, workerVars>>

DeliverBinding(b) ==
    /\ bound[b] # binding[b]
    /\ bound' = [bound EXCEPT ![b] = binding[b]]
    /\ queue' = queue \cup AppHandler(b, seen, bound')
    /\ UNCHANGED <<obj, seen, remote, faults, crashes>>
    /\ UNCHANGED <<userVars, workerVars>>

\* Every SyncPeriod the caches deliver all they hold once more.
Resync ==
    /\ queue' = queue \cup Passing(seen, bound) \cup AllHandlers(seen, bound)
    /\ queue' # queue
    /\ UNCHANGED <<obj, seen, bound, remote, faults, crashes>>
    /\ UNCHANGED <<userVars, workerVars>>

\* The operator stops anywhere and starts again: queue and worker are lost,
\* the caches are listed afresh and deliver everything as new.
Restart ==
    /\ crashes < MaxCrashes
    /\ crashes' = crashes + 1
    /\ seen' = obj /\ bound' = binding
    /\ queue' = Passing(obj, binding) \cup AllHandlers(obj, binding)
    /\ pc' = "idle" /\ key' = NoKey /\ local' = Absent
    /\ target' = NoGrafana /\ observe' = FALSE
    /\ UNCHANGED <<obj, remote, faults, userVars>>

-----------------------------------------------------------------------------
(* The worker. *)

\* Reconcile returns: the key is dropped, or put back for a retry.
Return(retry) ==
    /\ queue' = IF retry THEN queue \cup {key} ELSE queue
    /\ pc' = "idle" /\ key' = NoKey /\ local' = Absent
    /\ target' = NoGrafana /\ observe' = FALSE

\* Reconcile goes on at step s with copy o.
Goto(s, o) ==
    /\ pc' = s /\ local' = o
    /\ UNCHANGED <<key, target, observe, queue>>

\* setDashboard gives up: handleSetDashboardError(updateGeneration = upd).
Fail(upd) ==
    /\ pc' = "fail" /\ observe' = upd
    /\ UNCHANGED <<key, local, target, queue>>

\* Faulty: the finalizer is not taken.
ActiveStepUnguarded(o) ==
    IF o.phase \in {"Processing", "Failed"} THEN "resolve" ELSE "mark"

\* First step of an active object: finalizer, then phase, then setDashboard.
ActiveStep(o) ==
    IF ~o.finalizer THEN "finalize"
    ELSE IF o.phase \in {"Processing", "Failed"} THEN "resolve"
    ELSE "mark"

\* Where Reconcile begins on copy o.
FirstStep(o) ==
    IF ~o.deleting THEN ActiveStep(o)
    ELSE IF o.phase # "Terminating" THEN "terminate"
    ELSE "cleanup"

\* A status patch sends the fields in which new differs from the cached base.
MergeStatus(o, base, new) ==
    [o EXCEPT !.phase     = IF new.phase = base.phase THEN @ ELSE new.phase,
              !.observed  = IF new.observed = base.observed THEN @ ELSE new.observed,
              !.dashboard = IF new.dashboard = base.dashboard THEN @ ELSE new.dashboard]

\* PatchStatus reads the object from the cache again and patches the server;
\* either can answer NotFound.
CanPatch(d) == seen[d].exists /\ obj[d].exists

Patch(new) == obj' = [obj EXCEPT ![key] = MergeStatus(@, seen[key], new)]

Start(d) ==
    /\ pc = "idle" /\ d \in queue
    /\ queue' = queue \ {d}
    /\ IF ~seen[d].exists
       THEN UNCHANGED workerVars
       ELSE /\ key' = d /\ local' = seen[d]
            /\ pc' = FirstStep(seen[d])
            /\ UNCHANGED <<target, observe>>
    /\ UNCHANGED <<obj, seen, bound, remote, faults, crashes, userVars>>

\* CreateOrPatch: patches the object it finds in the cache, creates it anew
\* when the cache has lost it meanwhile.
Finalize ==
    /\ pc = "finalize"
    /\ \/ /\ CanPatch(key)
          /\ obj' = [obj EXCEPT ![key].finalizer = TRUE]
          /\ Goto(ActiveStep(obj'[key]), obj'[key])
       \/ /\ ~seen[key].exists /\ ~obj[key].exists
          /\ obj' = [obj EXCEPT ![key] = [Absent EXCEPT !.exists = TRUE, !.finalizer = TRUE,
                                                        !.generation = local.generation]]
          /\ Goto("mark", obj'[key])
       \/ /\ seen[key].exists /\ ~obj[key].exists
          /\ Return(TRUE)
          /\ UNCHANGED obj
    /\ UNCHANGED <<seen, bound, remote, faults, crashes, userVars>>

MarkProcessing ==
    /\ pc = "mark"
    /\ IF CanPatch(key)
       THEN /\ Patch([seen[key] EXCEPT !.phase = "Processing"])
            /\ Goto("resolve", obj'[key])
       ELSE Return(TRUE) /\ UNCHANGED obj
    /\ UNCHANGED <<seen, bound, remote, faults, crashes, userVars>>

\* addDashboardID and replaceDatasource can edit the model.
Prepared(o) == o.generation \notin Malformed

\* GetGrafana, GrafanaState and the preparation of the model.
Resolve ==
    /\ pc = "resolve"
    /\ IF bound[Ref[key]] = NoGrafana \/ ~Prepared(local)
       THEN Fail(FALSE)
       ELSE /\ pc' = "push" /\ target' = bound[Ref[key]]
            /\ UNCHANGED <<key, local, observe, queue>>
    /\ UNCHANGED <<obj, seen, bound, remote, faults, crashes, userVars>>

\* NewGrafanaClient resolves the AppBinding a second time; SetDashboard.
Push ==
    /\ pc = "push"
    /\ LET g == bound[Ref[key]] IN
       \/ /\ g = NoGrafana \/ ~secret[Ref[key]]
          /\ Fail(FALSE)
          /\ UNCHANGED remote
       \/ /\ g # NoGrafana /\ secret[Ref[key]] /\ local.generation \in Rejected
          /\ Fail(TRUE)
          /\ UNCHANGED remote
       \/ /\ g # NoGrafana /\ secret[Ref[key]] /\ local.generation \notin Rejected
          /\ remote' = [remote EXCEPT ![g][key] = local.generation]
          /\ Goto("org", local)
    /\ UNCHANGED <<obj, seen, bound, faults, crashes, userVars>>

\* GetCurrentOrg.
ReadOrg ==
    /\ pc = "org"
    /\ Goto("record", local)
    /\ UNCHANGED <<obj, seen, bound, remote, faults, crashes, userVars>>

\* Faulty: the Grafana it was synced with is not recorded.
SuccessUnnamed(o, g) == [o EXCEPT !.phase = "Current", !.observed = o.generation]

\* The status a successful sync writes over the cached copy o.
Success(o, g) ==
    [o EXCEPT !.phase = "Current", !.observed = o.generation, !.dashboard = g]

Record ==
    /\ pc = "record"
    /\ IF CanPatch(key)
       THEN Patch(Success(seen[key], target)) /\ Return(FALSE)
       ELSE Return(TRUE) /\ UNCHANGED obj
    /\ UNCHANGED <<seen, bound, remote, faults, crashes, userVars>>

\* Faulty: a refused model is not marked observed.
FailureUnobserved(o, upd) == [o EXCEPT !.phase = "Failed"]

\* The status handleSetDashboardError writes over the cached copy o.
Failure(o, upd) ==
    [o EXCEPT !.phase = "Failed", !.observed = IF upd THEN o.generation ELSE @]

\* handleSetDashboardError; it always asks for RequeueAfter (or an error).
MarkFailed ==
    /\ pc = "fail"
    /\ IF CanPatch(key) THEN Patch(Failure(seen[key], observe)) ELSE UNCHANGED obj
    /\ Return(TRUE)
    /\ UNCHANGED <<seen, bound, remote, faults, crashes, userVars>>

MarkTerminating ==
    /\ pc = "terminate"
    /\ IF CanPatch(key)
       THEN /\ Patch([seen[key] EXCEPT !.phase = "Terminating"])
            /\ Goto("cleanup", obj'[key])
       ELSE Return(TRUE) /\ UNCHANGED obj
    /\ UNCHANGED <<seen, bound, remote, faults, crashes, userVars>>

\* Faulty: nothing is deleted from Grafana.
KeepRemote(o, b) == FALSE

\* deleteExternalDashboard reaches Grafana only for a recorded dashboard and
\* an AppBinding and secret that are found.
ReachesRemote(o, b) == o.dashboard # NoGrafana /\ bound[b] # NoGrafana /\ secret[b]

\* The recorded uid exists at the recorded Grafana only; 404 is fine.
Cleanup ==
    /\ pc = "cleanup"
    /\ IF ReachesRemote(local, Ref[key]) /\ local.dashboard = bound[Ref[key]]
       THEN remote' = [remote EXCEPT ![local.dashboard][key] = 0]
       ELSE UNCHANGED remote
    /\ Goto("release", local)
    /\ UNCHANGED <<obj, seen, bound, faults, crashes, userVars>>

\* The plain patch that drops the finalizer; with the last one the deleting
\* object goes.  NotFound is ignored.
Release ==
    /\ pc = "release"
    /\ IF obj[key].deleting THEN obj' = [obj EXCEPT ![key] = Absent] ELSE UNCHANGED obj
    /\ Return(FALSE)
    /\ UNCHANGED <<seen, bound, remote, faults, crashes, userVars>>

\* A call to the API server fails; every such error is returned (and the
\* one of handleSetDashboardError too), so the key is retried.
ApiFault ==
    /\ pc \in {"finalize", "mark", "record", "fail", "terminate", "release"}
    /\ faults < MaxFaults /\ faults' = faults + 1
    /\ Return(TRUE)
    /\ UNCHANGED <<obj, seen, bound, remote, crashes, userVars>>

\* A call to Grafana fails.  The answer of a push may be lost after Grafana
\* has acted on it.
GrafanaFault ==
    /\ faults < MaxFaults /\ faults' = faults + 1
    /\ \/ /\ pc = "push" /\ bound[Ref[key]] # NoGrafana /\ secret[Ref[key]]
          /\ local.generation \notin Rejected
          /\ \/ UNCHANGED remote
             \/ remote' = [remote EXCEPT ![bound[Ref[key]]][key] = local.generation]
          /\ Fail(FALSE)
       \/ /\ pc = "org"
          /\ Fail(FALSE)
          /\ UNCHANGED remote
       \/ /\ pc = "cleanup" /\ ReachesRemote(local, Ref[key])
          /\ Return(TRUE)
          /\ UNCHANGED remote
    /\ UNCHANGED <<obj, seen, bound, crashes, userVars>>

-----------------------------------------------------------------------------
User == \/ \E d \in Dashboards : EditSpec(d) \/ DeleteObject(d)
        \/ \E b \in Bindings : Rebind(b) \/ ToggleSecret(b)

Step == \/ Finalize \/ MarkProcessing \/ Resolve \/ Push \/ ReadOrg \/ Record
        \/ MarkFailed \/ MarkTerminating \/ Cleanup \/ Release

Informers == \/ \E d \in Dashboards : Deliver(d)
             \/ \E b \in Bindings : DeliverBinding(b)
             \/ Resync

Next == \/ User \/ Informers \/ (\E d \in Dashboards : Start(d)) \/ Step
        \/ ApiFault \/ GrafanaFault \/ Restart

Spec == Init /\ [][Next]_vars

\* The informers deliver, the resync timer fires, a running Reconcile goes on
\* and the queue, which is first in first out, starves no key.
Fairness ==
    /\ \A d \in Dashboards : WF_vars(Deliver(d)) /\ SF_vars(Start(d))
    /\ \A b \in Bindings : WF_vars(DeliverBinding(b))
    /\ WF_vars(Resync)
    /\ WF_vars(Step)

FairSpec == Spec /\ Fairness

-----------------------------------------------------------------------------
(* Properties. *)

\* Nothing is queued, running, undelivered or found by the next resync.
Quiet ==
    /\ queue = {} /\ pc = "idle"
    /\ seen = obj /\ bound = binding
    /\ Passing(seen, bound) = {} /\ AllHandlers(seen, bound) = {}

\* Dashboard d is in the Grafana its AppBinding points at, in the generation
\* of its spec, and its status says so.
Synced(d) ==
    LET g == binding[Ref[d]] IN
    /\ remote[g][d] = obj[d].generation
    /\ obj[d].observed = obj[d].generation
    /\ obj[d].dashboard = g

\* When the operator has come to rest every dashboard whose AppBinding
\* resolves is in the right Grafana with its newest model, unless Grafana
\* refuses that: no interleaving of edits, a moved Grafana, failed calls and
\* stale caches with a Reconcile that is under way leaves an old model behind.
\* (A restart may: it forgets the key of an edit whose generation was recorded
\* as observed by a sync that pushed the model before it.  So may an AppBinding
\* that moves away and back between Resolve and Record: the status then names
\* the first Grafana and the model went to the other.)
SettledIsSynced ==
    Quiet /\ crashes = 0 /\ rebinds <= 1 =>
       \A d \in Dashboards :
          obj[d].exists /\ binding[Ref[d]] # NoGrafana /\ obj[d].generation \notin Rejected
             => Synced(d)

\* A dashboard is written to Grafana only while its object exists and
\* carries the finalizer, whatever the cache says and wherever the operator
\* restarts: a push never follows the end of the object.
PushNeedsFinalizer ==
    [][\A d \in Dashboards, g \in Grafanas :
          remote'[g][d] # remote[g][d] /\ remote'[g][d] # 0
             => obj[d].exists /\ obj[d].finalizer]_vars

\* Once a dashboard is Terminating it stays so until it is gone: no late
\* status patch of a sync that was under way takes the phase back.
TerminatingIsFinal ==
    [][\A d \in Dashboards :
          obj[d].phase = "Terminating" /\ obj'[d].exists
             => obj'[d].phase = "Terminating"]_vars

\* Steps the worker takes only under the finalizer, and steps of a deletion.
Syncing == {"mark", "resolve", "push", "org", "record", "fail"}
Ending == {"terminate", "cleanup", "release"}

\* Why the two hold although the cache is stale: a cached finalizer is still
\* there unless the cache already shows the deletion, a cached deletion is
\* real, and the worker's step agrees with both.
FinalizerInv ==
    /\ \A d \in Dashboards :
          /\ obj[d].deleting => obj[d].exists /\ obj[d].finalizer
          /\ seen[d].exists /\ seen[d].finalizer /\ ~seen[d].deleting
                => obj[d].exists /\ obj[d].finalizer
          /\ seen[d].exists /\ seen[d].deleting /\ obj[d].exists => obj[d].deleting
          /\ obj[d].phase = "Terminating"
                => /\ obj[d].exists /\ obj[d].deleting
                   /\ seen[d].exists => seen[d].deleting
                   /\ key = d => pc \in Ending
    /\ pc = "idle" => key = NoKey
    /\ pc \in Syncing => obj[key].exists /\ obj[key].finalizer
    /\ pc \in Ending => /\ seen[key].exists => seen[key].deleting
                        /\ obj[key].exists => obj[key].deleting

\* What API server and cache agree on: what was observed has been in the cache,
\* the cache is of the same life of the object and only behind, and a status of
\* Terminating is the last one.
CopyInv(d) ==
    /\ ~obj[d].exists => obj[d] = Absent
    /\ ~seen[d].exists => seen[d] = Absent
    /\ obj[d].exists => /\ obj[d].generation # 0
                        /\ obj[d].observed <= seen[d].generation
    /\ obj[d].observed <= obj[d].generation
    /\ seen[d].exists => seen[d].generation # 0
    /\ seen[d].exists /\ obj[d].exists =>
          /\ seen[d].generation <= obj[d].generation
          /\ seen[d].dashboard # NoGrafana => obj[d].dashboard # NoGrafana
          /\ seen[d].phase = "Terminating" => /\ obj[d].phase = "Terminating"
                                              /\ obj[d].dashboard = seen[d].dashboard

\* What the worker's copy is worth: an edit the cache has shown since is on the
\* queue, and a teardown goes by the dashboard that is recorded.
WorkInv ==
    /\ pc \in Syncing \cup {"finalize"} =>
          /\ local.generation # 0
          /\ obj[key].exists => local.generation <= obj[key].generation
          /\ local.generation < seen[key].generation => key \in queue
    /\ pc \in Syncing \ {"mark"} => seen[key].exists
    /\ pc \in {"push", "org", "record"} => target # NoGrafana
    /\ pc = "idle" => target = NoGrafana
    /\ pc = "cleanup" /\ obj[key].exists => local.dashboard = obj[key].dashboard

\* While one thing has moved at most, the Grafana an AppBinding points at now is
\* recorded or aimed at only by those who have seen it, and they push there.
MoveInv(d) ==
    LET g == binding[Ref[d]]
    IN  /\ rebinds = 0 =>
              /\ bound[Ref[d]] = g /\ secret[Ref[d]]
              /\ obj[d].dashboard \in {NoGrafana, g} /\ seen[d].dashboard \in {NoGrafana, g}
              /\ key = d => target \in {NoGrafana, g}
        /\ rebinds <= 1 /\ g # NoGrafana =>
              /\ bound[Ref[d]] # g => /\ obj[d].dashboard # g /\ seen[d].dashboard # g
                                      /\ key = d => target # g
              /\ seen[d].dashboard = g /\ obj[d].exists => obj[d].dashboard = g
              /\ key = d /\ pc \in {"push", "org", "record"} /\ obj[d].dashboard = g => target = g
              /\ key = d /\ pc \in {"org", "record"} /\ target = g => remote[g][d] = local.generation

SyncInv == (\A d \in Dashboards : CopyInv(d) /\ MoveInv(d)) /\ WorkInv

\* Why a dashboard that nobody works on and whose generation is observed is in
\* Grafana: whatever ends otherwise puts its key back.
RestInv ==
    crashes = 0 /\ rebinds <= 1 =>
       \A d \in Dashboards :
          /\ d \notin queue /\ key # d
          /\ obj[d].exists /\ ~obj[d].deleting /\ obj[d].observed = obj[d].generation
          => /\ obj[d].dashboard # NoGrafana
             /\ obj[d].dashboard = binding[Ref[d]]
                   => remote[binding[Ref[d]]][d] = obj[d].generation

\* Why an undisturbed reconciler leaves nothing behind: what is in Grafana is
\* recorded or about to be.
Undisturbed == faults = 0 /\ crashes = 0 /\ rebinds = 0

TraceInv ==
    Undisturbed =>
       /\ \A d \in Dashboards, g \in Grafanas :
             remote[g][d] # 0 =>
                /\ g = binding[Ref[d]] /\ obj[d].exists /\ obj[d].finalizer
                /\ obj[d].dashboard = g \/ (key = d /\ pc \in {"org", "record"})
       /\ pc = "release" => \A g \in Grafanas : remote[g][key] = 0

\* With the types, which no step of Reconcile, user, cluster or fault breaks,
\* this is inductive.
Inv == TypeOK /\ FinalizerInv /\ SyncInv /\ RestInv /\ TraceInv

\* The refinement mapping to the finalizer contract: the finalizer of the
\* object guards the dashboard in any Grafana.
Held == [d \in Dashboards |-> obj[d].exists /\ obj[d].finalizer]
Outside == [d \in Dashboards |-> \E g \in Grafanas : remote[g][d] # 0]

Contract == INSTANCE FinalizerContract
            WITH Owners <- Dashboards, held <- Held, outside <- Outside

\* README: the finalizer is removed only when the external dashboard is
\* deleted.  One failed call is enough to break it.
ImplementsFinalizerContract == Contract!ContractSpec

\* The reconciler implements the finalizer contract until a call fails, the
\* operator stops or an AppBinding changes: stale caches, edits and refused
\* models do not break it.
ImplementsContractUndisturbed ==
    /\ Contract!ContractInit
    /\ [][Undisturbed' => Contract!ContractNext]_<<Held, Outside>>

\* Once users and faults have stopped, every dashboard whose Grafana is
\* known and reachable gets there (or is Failed with its generation observed
\* when Grafana refuses the model), and every deleted one goes, whatever the
\* AppBindings do; the same exceptions as above.
Reachable(d) == binding[Ref[d]] # NoGrafana /\ secret[Ref[d]]

Converges ==
    \A d \in Dashboards :
       <>[](/\ ~obj[d].deleting
            /\ /\ crashes = 0 /\ rebinds <= 1 /\ obj[d].exists /\ Reachable(d)
               /\ Prepared(obj[d])
               => IF obj[d].generation \in Rejected
                  THEN obj[d].phase = "Failed" /\ obj[d].observed = obj[d].generation
                  ELSE Synced(d))
=============================================================================
