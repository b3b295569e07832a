---------------------------- MODULE PersesDashboard ----------------------------
(***************************************************************************)
(* PersesDashboardReconciler of the grafana operator                       *)
(* (src/pkg/controllers/openviz/persesdashboard_controller.go) and the     *)
(* Perses client it uses (src/pkg/perses).                                 *)
(*                                                                         *)
(* It was written after the GrafanaDashboard reconciler and differs from   *)
(* it in what this module is about: the client only posts and takes "it    *)
(* exists already" for success, a failure never marks the generation       *)
(* observed, a dashboard is deleted by name wherever the AppBinding points *)
(* now, and one AppBinding that does not resolve does not keep the others' *)
(* events from the queue.                                                  *)
(*                                                                         *)
(* obj is the API server's copy of the PersesDashboards, seen the cached   *)
(* one; binding and bound the same of the AppBindings.  remote[p][d] is    *)
(* the generation of d's model that Perses p stores, 0 for none.           *)
(*                                                                         *)
(* Data abstracted: the state hash of an AppBinding is the Perses it       *)
(* points at, and two Perses differ in the address, not in the project;    *)
(* the auth secret is there when the AppBinding is; models of different    *)
(* objects carry different names.  A name is not created again after its   *)
(* object is gone.                                                         *)
(***************************************************************************)
EXTENDS Naturals

CONSTANTS
    Dashboards,        \* names of PersesDashboard objects
    Bindings,          \* names of AppBindings
    Ref,               \* Ref[d]: the AppBinding of spec.persesRef
    Servers,           \* the Perses servers an AppBinding can point at
    NoServer,          \* no AppBinding / nothing recorded
    FirstBindings,     \* where the AppBindings may point at first
    NoKey,             \* the worker holds no key
    Edited,            \* bound: the dashboards users edit or delete
    MaxEdits,          \* bound: spec edits
    MaxRebinds,        \* bound: changes of AppBindings
    MaxFaults,         \* bound: failed API and HTTP calls, and operator restarts
    MaxEvents          \* bound: edits, changes and failures taken together

ASSUME PersesAssumption ==
    /\ Ref \in [Dashboards -> Bindings]
    /\ NoServer \notin Servers
    /\ FirstBindings \subseteq [Bindings -> Servers \cup {NoServer}]
    /\ NoKey \notin Dashboards
    /\ Edited \subseteq Dashboards
    /\ MaxEdits \in Nat /\ MaxRebinds \in Nat /\ MaxFaults \in Nat /\ MaxEvents \in Nat

VARIABLES
    obj,        \* obj[d]: the object at the API server
    seen,       \* seen[d]: the informer's copy of it
    binding,    \* binding[b]: the Perses AppBinding b points at, or NoServer
    bound,      \* bound[b]: the informer's copy of it
    remote,     \* remote[p][d]: generation stored in Perses p, 0 if none
    queue,      \* keys waiting in the work queue
    pc,         \* the next step of the worker
    key,        \* the key it works on
    local,      \* Reconcile's copy of the object
    state,      \* the state setDashboard read from the AppBinding
    edits, rebinds, faults     \* what is used of the bounds

workerVars == <<pc, key, local, state>>
boundVars  == <<edits, rebinds, faults>>
vars == <<obj, seen, binding, bound, remote, queue, pc, key, local, state,
          edits, rebinds, faults>>

Phases == {"", "Processing", "Current", "Failed", "Terminating"}

Object == [exists : BOOLEAN, deleting : BOOLEAN, finalizer : BOOLEAN, generation : Nat,
           observed : Nat, phase : Phases, dashboard : Servers \cup {NoServer}]

Absent == [exists |-> FALSE, deleting |-> FALSE, finalizer |-> FALSE, generation |-> 0,
           observed |-> 0, phase |-> "", dashboard |-> NoServer]

Steps == {"idle", "finalize", "mark", "resolve", "post", "record", "fail",
          "terminate", "cleanup", "release"}

TypeOK ==
    /\ obj \in [Dashboards -> Object] /\ seen \in [Dashboards -> Object]
    /\ binding \in [Bindings -> Servers \cup {NoServer}]
    /\ bound \in [Bindings -> Servers \cup {NoServer}]
    /\ remote \in [Servers -> [Dashboards -> Nat]]
    /\ queue \subseteq Dashboards
    /\ pc \in Steps
    /\ IF pc = "idle" THEN key = NoKey ELSE key \in Dashboards
    /\ local \in Object
    /\ state \in Servers \cup {NoServer}
    /\ edits \in Nat /\ rebinds \in Nat /\ faults \in Nat

Init ==
    /\ obj = [d \in Dashboards |-> [Absent EXCEPT !.exists = TRUE, !.generation = 1]]
    /\ seen = [d \in Dashboards |-> Absent]
    /\ binding \in FirstBindings /\ bound = binding
    /\ remote = [p \in Servers |-> [d \in Dashboards |-> 0]]
    /\ queue = {}
    /\ pc = "idle" /\ key = NoKey /\ local = Absent /\ state = NoServer
    /\ edits = 0 /\ rebinds = 0 /\ faults = 0

-----------------------------------------------------------------------------
(* Which events put a key on the queue. *)

\* Faulty: only a dashboard that was never in Perses has a changed state.
StateChangedFirst(o, p) == o.dashboard = NoServer

\* IsPersesDashboardStateChanged
StateChanged(o, p) == o.dashboard # NoServer /\ o.dashboard # p

\* The predicate of For().
Passes(d, o, bs) ==
    \/ o.deleting
    \/ o.generation # o.observed
    \/ bs[Ref[d]] # NoServer /\ StateChanged(o, bs[Ref[d]])

\* A dashboard of AppBinding b the event of b is about: failed or stale.
Concerned(d, b, objs, bs) ==
    /\ objs[d].exists /\ Ref[d] = b /\ bs[b] # NoServer
    /\ objs[d].phase = "Failed" \/ StateChanged(objs[d], bs[b])

\* Faulty: one AppBinding that does not resolve suppresses every event.
AppHandlerAllOrNothing(b, objs, bs) ==
    {d \in Dashboards : /\ Concerned(d, b, objs, bs)
                        /\ \A e \in Dashboards : objs[e].exists => bs[Ref[e]] # NoServer}

\* The map function of Watches(AppBinding).
AppHandler(b, objs, bs) == {d \in Dashboards : Concerned(d, b, objs, bs)}

\* What For() and Watches() enqueue when the caches deliver all they hold.
Delivered(objs, bs) ==
    {d \in Dashboards : objs[d].exists /\ Passes(d, objs[d], bs)}
       \cup UNION {AppHandler(b, objs, bs) : b \in Bindings}

-----------------------------------------------------------------------------
(* Users, informers and the operator process. *)

\* The bound max on events of which n have happened leaves room for one more.
Room(n, max) == n < max /\ edits + rebinds + faults < MaxEvents

EditSpec(d) ==
    /\ obj[d].exists /\ ~obj[d].deleting
    /\ Room(edits, MaxEdits) /\ edits' = edits + 1
    /\ obj' = [obj EXCEPT ![d].generation = @ + 1]
    /\ UNCHANGED <<seen, binding, bound, remote, queue, workerVars, rebinds, faults>>

DeleteObject(d) ==
    /\ obj[d].exists /\ ~obj[d].deleting
    /\ obj' = [obj EXCEPT ![d] = IF @.finalizer THEN [@ EXCEPT !.deleting = TRUE] ELSE Absent]
    /\ UNCHANGED <<seen, binding, bound, remote, queue, workerVars, boundVars>>

\* An AppBinding is created, pointed at another Perses, or deleted.
Rebind(b) ==
    /\ Room(rebinds, MaxRebinds) /\ rebinds' = rebinds + 1
    /\ \E p \in (Servers \cup {NoServer}) \ {binding[b]} : binding' = [binding EXCEPT ![b] = p]
    /\ UNCHANGED <<obj, seen, bound, remote, queue, workerVars, edits, faults>>

Deliver(d) ==
    /\ seen[d] # obj[d]
    /\ seen' = [seen EXCEPT ![d] = obj[d]]
    /\ queue' = IF Passes(d, IF obj[d].exists THEN obj[d] ELSE seen[d], bound)
                THEN queue \cup {d} ELSE queue
    /\ UNCHANGED <<obj, binding, bound, remote, workerVars, boundVars>>

DeliverBinding(b) ==
    /\ bound[b] # binding[b]
    /\ bound' = [bound EXCEPT ![b] = binding[b]]
    /\ queue' = queue \cup AppHandler(b, seen, bound')
    /\ UNCHANGED <<obj, seen, binding, remote, workerVars, boundVars>>

Resync ==
    /\ queue' = queue \cup Delivered(seen, bound)
    /\ queue' # queue
    /\ UNCHANGED <<obj, seen, binding, bound, remote, workerVars, boundVars>>

Restart ==
    /\ Room(faults, MaxFaults) /\ faults' = faults + 1
    /\ seen' = obj /\ bound' = binding
    /\ queue' = Delivered(obj, binding)
    /\ pc' = "idle" /\ key' = NoKey /\ local' = Absent /\ state' = NoServer
    /\ UNCHANGED <<obj, binding, remote, edits, rebinds>>

-----------------------------------------------------------------------------
(* The worker. *)

\* Reconcile returns: the key is dropped, or put back for a retry.
Return(retry) ==
    /\ queue' = IF retry THEN queue \cup {key} ELSE queue
    /\ pc' = "idle" /\ key' = NoKey /\ local' = Absent /\ state' = NoServer

Goto(s, o) == pc' = s /\ local' = o /\ UNCHANGED <<key, state, queue>>

\* Faulty: the finalizer is not taken.
ActiveStepUnguarded(o) ==
    IF o.phase \in {"Processing", "Failed"} THEN "resolve" ELSE "mark"

\* First step of an active object: finalizer, then phase, then setDashboard.
ActiveStep(o) ==
    IF ~o.finalizer THEN "finalize"
    ELSE IF o.phase \in {"Processing", "Failed"} THEN "resolve"
    ELSE "mark"

\* Where Reconcile begins on copy o.
FirstStep(o) ==
    IF ~o.deleting THEN ActiveStep(o)
    ELSE IF o.phase # "Terminating" THEN "terminate"
    ELSE "cleanup"

\* A status patch sends the fields in which new differs from the cached base.
MergeStatus(o, base, new) ==
    [o EXCEPT !.phase     = IF new.phase = base.phase THEN @ ELSE new.phase,
              !.observed  = IF new.observed = base.observed THEN @ ELSE new.observed,
              !.dashboard = IF new.dashboard = base.dashboard THEN @ ELSE new.dashboard]

\* PatchStatus reads the cache again and patches the server; either can
\* answer NotFound.
CanPatch(d) == seen[d].exists /\ obj[d].exists

Patch(new) == obj' = [obj EXCEPT ![key] = MergeStatus(@, seen[key], new)]

Start(d) ==
    /\ pc = "idle" /\ d \in queue
    /\ queue' = queue \ {d}
    /\ IF ~seen[d].exists
       THEN UNCHANGED workerVars
       ELSE key' = d /\ local' = seen[d] /\ pc' = FirstStep(seen[d]) /\ UNCHANGED state
    /\ UNCHANGED <<obj, seen, binding, bound, remote, boundVars>>

\* CreateOrPatch, which creates the object anew when the cache has lost it.
Finalize ==
    /\ pc = "finalize"
    /\ \/ /\ CanPatch(key)
          /\ obj' = [obj EXCEPT ![key].finalizer = TRUE]
          /\ Goto(ActiveStep(obj'[key]), obj'[key])
       \/ /\ ~seen[key].exists /\ ~obj[key].exists
          /\ obj' = [obj EXCEPT ![key] = [Absent EXCEPT !.exists = TRUE, !.finalizer = TRUE,
                                                        !.generation = 1]]
          /\ Goto("mark", obj'[key])
       \/ /\ seen[key].exists /\ ~obj[key].exists
          /\ Return(TRUE)
          /\ UNCHANGED obj
    /\ UNCHANGED <<seen, binding, bound, remote, boundVars>>

\* A phase is written; Reconcile goes on with the server's answer.
Mark(phase, next) ==
    IF CanPatch(key)
    THEN Patch([seen[key] EXCEPT !.phase = phase]) /\ Goto(next, obj'[key])
    ELSE Return(TRUE) /\ UNCHANGED obj

MarkProcessing ==
    /\ pc = "mark" /\ Mark("Processing", "resolve")
    /\ UNCHANGED <<seen, binding, bound, remote, boundVars>>

MarkTerminating ==
    /\ pc = "terminate" /\ Mark("Terminating", "cleanup")
    /\ UNCHANGED <<seen, binding, bound, remote, boundVars>>

\* GetPerses and PersesState.
Resolve ==
    /\ pc = "resolve"
    /\ pc' = IF bound[Ref[key]] = NoServer THEN "fail" ELSE "post"
    /\ state' = bound[Ref[key]]
    /\ UNCHANGED <<key, local, queue>>
    /\ UNCHANGED <<obj, seen, binding, bound, remote, boundVars>>

\* Faulty: a Conflict is an answer like any other error.
TakesCreatedOnly(p) == remote[p][key] = 0

\* Every answer to the POST that SetDashboard takes for success: created, or
\* a dashboard of that name exists.
Takes(p) == TRUE

\* Perses stores the model unless it has a dashboard of that name.
Posted(p) ==
    remote' = IF remote[p][key] = 0
              THEN [remote EXCEPT ![p][key] = local.generation] ELSE remote

\* NewPersesClient resolves the AppBinding again; the model; SetDashboard.
Post ==
    /\ pc = "post"
    /\ LET p == bound[Ref[key]] IN
       IF p # NoServer /\ Takes(p)
       THEN Posted(p) /\ Goto("record", local)
       ELSE UNCHANGED remote /\ Goto("fail", local)
    /\ UNCHANGED <<obj, seen, binding, bound, boundVars>>

\* Faulty: the Perses it was synced with is not recorded.
SuccessUnnamed(o) == [o EXCEPT !.phase = "Current", !.observed = o.generation]

\* The status a successful sync writes over the cached copy o.
Success(o) ==
    [o EXCEPT !.phase = "Current", !.observed = o.generation, !.dashboard = state]

Record ==
    /\ pc = "record"
    /\ IF CanPatch(key)
       THEN Patch(Success(seen[key])) /\ Return(FALSE)
       ELSE Return(TRUE) /\ UNCHANGED obj
    /\ UNCHANGED <<seen, binding, bound, remote, boundVars>>

\* The status handleSetDashboardError writes over the cached copy o.
Failure(o) == [o EXCEPT !.phase = "Failed"]

\* handleSetDashboardError: RequeueAfter, or the patch's error.
MarkFailed ==
    /\ pc = "fail"
    /\ IF CanPatch(key) THEN Patch(Failure(seen[key])) ELSE UNCHANGED obj
    /\ Return(TRUE)
    /\ UNCHANGED <<seen, binding, bound, remote, boundVars>>

\* deleteExternalDashboard has a dashboard to delete and a Perses to ask; an
\* AppBinding that is not found is no error.
Reaches(o, p) == o.dashboard # NoServer /\ p # NoServer

\* DELETE by name, wherever the AppBinding points now; 404 is fine.
Cleanup ==
    /\ pc = "cleanup"
    /\ LET p == bound[Ref[key]] IN
       remote' = IF Reaches(local, p) THEN [remote EXCEPT ![p][key] = 0] ELSE remote
    /\ Goto("release", local)
    /\ UNCHANGED <<obj, seen, binding, bound, boundVars>>

\* The plain patch that drops the finalizer; NotFound is ignored.
Release ==
    /\ pc = "release"
    /\ obj' = IF obj[key].deleting THEN [obj EXCEPT ![key] = Absent] ELSE obj
    /\ Return(FALSE)
    /\ UNCHANGED <<seen, binding, bound, remote, boundVars>>

\* A call to the API server fails; the error is returned.
ApiFault ==
    /\ pc \in {"finalize", "mark", "record", "fail", "terminate", "release"}
    /\ Room(faults, MaxFaults) /\ faults' = faults + 1
    /\ Return(TRUE)
    /\ UNCHANGED <<obj, seen, binding, bound, remote, edits, rebinds>>

\* A call to Perses fails, or the model is one that cannot be edited or that
\* Perses refuses; Perses may have acted on the call.
PersesFault ==
    /\ Room(faults, MaxFaults) /\ faults' = faults + 1
    /\ LET p == bound[Ref[key]] IN
       \/ /\ pc = "post" /\ p # NoServer
          /\ Posted(p) \/ UNCHANGED remote
          /\ Goto("fail", local)
       \/ /\ pc = "cleanup" /\ Reaches(local, p)
          /\ UNCHANGED remote \/ remote' = [remote EXCEPT ![p][key] = 0]
          /\ Return(TRUE)
    /\ UNCHANGED <<obj, seen, binding, bound, edits, rebinds>>

-----------------------------------------------------------------------------
User == \/ \E d \in Edited : EditSpec(d) \/ DeleteObject(d)
        \/ \E b \in Bindings : Rebind(b)

Step == \/ Finalize \/ MarkProcessing \/ Resolve \/ Post \/ Record \/ MarkFailed
        \/ MarkTerminating \/ Cleanup \/ Release

Informers == \/ \E d \in Dashboards : Deliver(d)
             \/ \E b \in Bindings : DeliverBinding(b)

Next == \/ User \/ Informers \/ Resync \/ Restart \/ Step \/ ApiFault \/ PersesFault
        \/ \E d \in Dashboards : Start(d)

Spec == Init /\ [][Next]_vars

\* The informers deliver, the resync timer fires, a running Reconcile goes on
\* (Perses answers or the connection breaks: the client has no timeout), and
\* the queue, which is first in first out, starves no key.
Fairness ==
    /\ \A d \in Dashboards : SF_vars(Start(d))
    /\ WF_vars(Informers) /\ WF_vars(Resync) /\ WF_vars(Step)

FairSpec == Spec /\ Fairness

-----------------------------------------------------------------------------
(* Properties. *)

\* Dashboard d is neither queued nor worked on, the caches are up to date
\* about it, and the next resync will not find it.
AtRest(d) ==
    /\ d \notin queue /\ key # d
    /\ seen[d] = obj[d] /\ bound[Ref[d]] = binding[Ref[d]]
    /\ d \notin Delivered(seen, bound)

\* Dashboard d is in the Perses its AppBinding points at, and its status says
\* so of the present generation.
Present(d) ==
    LET p == binding[Ref[d]] IN
    /\ remote[p][d] # 0
    /\ obj[d].observed = obj[d].generation
    /\ obj[d].dashboard = p

\* A dashboard the operator has come to rest about and whose AppBinding
\* resolves is in the Perses it points at, wherever the operator restarted and
\* whatever failed.  (Which generation of the model Perses has is another
\* matter: one that is there is never overwritten.  And an AppBinding that
\* moves away and back between Resolve and Record leaves a status that names
\* the first Perses and a model in the other.)
SettledIsPresent ==
    rebinds <= 1 =>
       \A d \in Dashboards :
          AtRest(d) /\ obj[d].exists /\ binding[Ref[d]] # NoServer => Present(d)

\* "Skip only this dashboard; one unresolvable AppBinding must not suppress
\* requeue of every other dashboard watching this AppBinding": the event of an
\* AppBinding brings back every dashboard of its own that had failed or has
\* become stale.
BindingEventRequeues ==
    [][\A b \in Bindings :
          bound'[b] # bound[b] /\ bound'[b] # NoServer
             => \A d \in Dashboards :
                   /\ obj[d] = seen[d] /\ obj[d].exists /\ Ref[d] = b
                   /\ obj[d].phase = "Failed" \/ StateChanged(obj[d], bound'[b])
                   => d \in queue']_vars

\* A dashboard is posted only while its object exists and carries the
\* finalizer, whatever the cache says and wherever the operator restarts.
PostNeedsFinalizer ==
    [][\A d \in Dashboards, p \in Servers :
          remote'[p][d] # remote[p][d] /\ remote'[p][d] # 0
             => obj[d].exists /\ obj[d].finalizer]_vars

\* Steps the worker takes only under the finalizer, and steps of a deletion.
Syncing == {"mark", "resolve", "post", "record", "fail"}
Ending == {"terminate", "cleanup", "release"}

\* Why that holds although the cache is stale: a cached finalizer is still
\* there unless the cache already shows the deletion, a cached deletion is
\* real, and the worker's step agrees with both.
FinalizerInv ==
    /\ \A d \in Dashboards :
          /\ obj[d].deleting => obj[d].exists /\ obj[d].finalizer
          /\ seen[d].exists /\ seen[d].finalizer /\ ~seen[d].deleting
                => obj[d].exists /\ obj[d].finalizer
          /\ seen[d].exists /\ seen[d].deleting /\ obj[d].exists => obj[d].deleting
    /\ pc \in Syncing => obj[key].exists /\ obj[key].finalizer
    /\ pc \in Ending => /\ obj[key].exists => obj[key].deleting
                        /\ seen[key].exists => seen[key].deleting

\* What the copies of dashboard d say: a status that has observed a generation
\* names the Perses it was observed in, and the cache does not know of one the
\* API server has not.
StatusInv(d) ==
    /\ seen[d].exists => seen[d].generation # 0
    /\ obj[d].exists =>
          /\ obj[d].generation # 0
          /\ obj[d].observed # 0 => obj[d].dashboard # NoServer
          /\ seen[d].exists /\ seen[d].dashboard # NoServer => obj[d].dashboard # NoServer

\* Until an AppBinding has changed, a status can only name the Perses it
\* points at; the one a status names and the AppBinding points at has d.
PlaceInv(d) ==
    obj[d].exists /\ obj[d].dashboard # NoServer =>
       IF obj[d].dashboard # binding[Ref[d]] THEN rebinds # 0
       ELSE obj[d].deleting \/ remote[obj[d].dashboard][d] # 0

\* What Reconcile knows between Resolve and Record: the Perses it resolved is
\* the one it posts to, unless the cache has moved on since.
ResolvedInv ==
    /\ pc # "idle" => local.generation # 0
    /\ pc \in {"post", "record"} => state # NoServer
    /\ rebinds <= 1 /\ pc \in {"post", "record"} =>
          IF state # bound[Ref[key]] THEN rebinds # 0 /\ bound[Ref[key]] = binding[Ref[key]]
          ELSE pc = "record" => remote[state][key] # 0

\* Why a dashboard at rest is where its status says.
PresenceInv ==
    /\ \A d \in Dashboards : StatusInv(d)
    /\ rebinds = 0 => bound = binding
    /\ rebinds <= 1 => \A d \in Dashboards : PlaceInv(d)
    /\ ResolvedInv

\* With the types, which no step of Reconcile, user, cluster or fault breaks,
\* this is inductive.
Inv == TypeOK /\ FinalizerInv /\ PresenceInv

\* Once users and faults have stopped every deleted dashboard goes, and every
\* other one whose AppBinding resolves gets to Perses, with the same exception.
Converges ==
    <>[](\A d \in Dashboards :
            /\ ~obj[d].deleting
            /\ rebinds <= 1 /\ obj[d].exists /\ binding[Ref[d]] # NoServer => Present(d))
=============================================================================
