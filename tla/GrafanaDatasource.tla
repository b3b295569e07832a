--------------------------- MODULE GrafanaDatasource ---------------------------
(***************************************************************************)
(* GrafanaDatasourceReconciler of the grafana operator                     *)
(* (src/pkg/controllers/openviz/grafanadatasource_controller.go).          *)
(*                                                                         *)
(* It differs from the dashboard's reconciler where it is delicate: the    *)
(* generation is marked observed before the sync, Grafana numbers the      *)
(* datasources itself, and the status is the only place the number is      *)
(* kept.  Grafana refuses a second datasource of the same name, and        *)
(* updates and deletes whatever has the number it is given.                *)
(*                                                                         *)
(* obj is the API server's copy of the GrafanaDatasources, seen the cached *)
(* one.  Grafana g keeps remote[g], a sequence: the index is the number,   *)
(* owner the object whose name the datasource carries, spec the generation *)
(* it was written from.                                                    *)
(*                                                                         *)
(* Data abstracted: an AppBinding and its secret are the Grafana they lead *)
(* to, NoGrafana when either is missing; they are read from the cache and  *)
(* not watched, so the cached ones are all that matters.  Two objects do   *)
(* not ask for the same name, and a name does not come back by a user.     *)
(***************************************************************************)
EXTENDS Naturals, Sequences

CONSTANTS
    Datasources,       \* names of GrafanaDatasource objects
    Grafanas,          \* the Grafana servers
    NoGrafana,         \* the reference leads nowhere
    FirstBindings,     \* where the references may lead first
    NoKey,             \* the worker holds no key; the owner of a foreign datasource
    MaxGeneration,     \* bound: spec edits
    MaxRebinds,        \* bound: changes of AppBindings
    MaxFaults,         \* bound: failed API and HTTP calls
    MaxCrashes,        \* bound: operator restarts
    MaxResyncs         \* bound: resyncs of the cache

ASSUME DatasourceAssumption ==
    /\ NoGrafana \notin Grafanas
    /\ FirstBindings \subseteq [Datasources -> Grafanas \cup {NoGrafana}]
    /\ NoKey \notin Datasources
    /\ MaxGeneration \in Nat /\ MaxRebinds \in Nat /\ MaxResyncs \in Nat
    /\ MaxFaults \in Nat /\ MaxCrashes \in Nat

VARIABLES
    obj,        \* obj[d]: the object at the API server
    seen,       \* seen[d]: the informer's copy of it
    binding,    \* binding[d]: the Grafana its reference leads to
    remote,     \* remote[g]: the datasources of Grafana g, by number
    queue,      \* keys waiting in the work queue
    pc,         \* the next step of the worker
    key,        \* the key it works on
    local,      \* Reconcile's copy of the object
    rebinds, faults, crashes, resyncs       \* what is used of the bounds

workerVars == <<pc, key, local>>
boundVars  == <<rebinds, faults, crashes, resyncs>>
vars == <<obj, seen, binding, remote, queue, pc, key, local,
          rebinds, faults, crashes, resyncs>>

NoID == 0

Phases == {"", "Processing", "Current", "Failed", "Terminating"}
Reasons == {"", "created", "updated", "failed"}

Object == [exists : BOOLEAN, deleting : BOOLEAN, finalizer : BOOLEAN, generation : Nat,
           observed : Nat, phase : Phases, reason : Reasons, id : Nat]

Absent == [exists |-> FALSE, deleting |-> FALSE, finalizer |-> FALSE, generation |-> 0,
           observed |-> 0, phase |-> "", reason |-> "", id |-> NoID]

Entry == [live : BOOLEAN, owner : Datasources \cup {NoKey}, spec : Nat]

Steps == {"idle", "finalize", "mark", "sync", "created", "updated", "fail",
          "terminate", "cleanup", "release"}

TypeOK ==
    /\ obj \in [Datasources -> Object]
    /\ seen \in [Datasources -> Object]
    /\ binding \in [Datasources -> Grafanas \cup {NoGrafana}]
    /\ remote \in [Grafanas -> Seq(Entry)]
    /\ queue \subseteq Datasources
    /\ pc \in Steps
    /\ IF pc = "idle" THEN key = NoKey ELSE key \in Datasources
    /\ local \in Object
    /\ rebinds \in Nat /\ faults \in Nat /\ crashes \in Nat /\ resyncs \in Nat

\* Every object has just been created; each Grafana has a datasource that is
\* none of the operator's.
Init ==
    /\ obj = [d \in Datasources |-> [Absent EXCEPT !.exists = TRUE, !.generation = 1]]
    /\ seen = [d \in Datasources |-> Absent]
    /\ binding \in FirstBindings
    /\ remote = [g \in Grafanas |-> <<[live |-> TRUE, owner |-> NoKey, spec |-> 0]>>]
    /\ queue = {}
    /\ pc = "idle" /\ key = NoKey /\ local = Absent
    /\ rebinds = 0 /\ faults = 0 /\ crashes = 0 /\ resyncs = 0

-----------------------------------------------------------------------------
(* Users, the informer and the operator process. *)

EditSpec(d) ==
    /\ obj[d].exists /\ ~obj[d].deleting
    /\ obj[d].generation < MaxGeneration
    /\ obj' = [obj EXCEPT ![d].generation = @ + 1]
    /\ UNCHANGED <<seen, binding, remote, queue, workerVars, boundVars>>

DeleteObject(d) ==
    /\ obj[d].exists /\ ~obj[d].deleting
    /\ obj' = [obj EXCEPT ![d] = IF @.finalizer THEN [@ EXCEPT !.deleting = TRUE] ELSE Absent]
    /\ UNCHANGED <<seen, binding, remote, queue, workerVars, boundVars>>

\* An AppBinding or its secret is created, changed or deleted.
Rebind(d) ==
    /\ rebinds < MaxRebinds /\ rebinds' = rebinds + 1
    /\ \E g \in (Grafanas \cup {NoGrafana}) \ {binding[d]} :
          binding' = [binding EXCEPT ![d] = g]
    /\ UNCHANGED <<obj, seen, remote, queue, workerVars, faults, crashes, resyncs>>

\* For() without a predicate: every event enqueues.
Deliver(d) ==
    /\ seen[d] # obj[d]
    /\ seen' = [seen EXCEPT ![d] = obj[d]]
    /\ queue' = queue \cup {d}
    /\ UNCHANGED <<obj, binding, remote, workerVars, boundVars>>

Existing(objs) == {d \in Datasources : objs[d].exists}

Resync ==
    /\ resyncs < MaxResyncs /\ resyncs' = resyncs + 1
    /\ queue' = queue \cup Existing(seen)
    /\ UNCHANGED <<obj, seen, binding, remote, workerVars, rebinds, faults, crashes>>

Restart ==
    /\ crashes < MaxCrashes /\ crashes' = crashes + 1
    /\ seen' = obj /\ queue' = Existing(obj)
    /\ pc' = "idle" /\ key' = NoKey /\ local' = Absent
    /\ UNCHANGED <<obj, binding, remote, rebinds, faults, resyncs>>

-----------------------------------------------------------------------------
(* The worker. *)

\* Reconcile returns: the key is dropped, or put back for a retry.
Return(retry) ==
    /\ queue' = IF retry THEN queue \cup {key} ELSE queue
    /\ pc' = "idle" /\ key' = NoKey /\ local' = Absent

Goto(s, o) == pc' = s /\ local' = o /\ UNCHANGED <<key, queue>>

\* Faulty: the finalizer is not taken before the sync.
FirstStepUnguarded(o) ==
    IF o.deleting THEN IF o.finalizer THEN "terminate" ELSE "idle"
    ELSE IF o.observed # o.generation THEN "mark"
    ELSE "idle"

\* Where Reconcile begins on copy o; "idle" where it has nothing to do.
FirstStep(o) ==
    IF o.deleting THEN IF o.finalizer THEN "terminate" ELSE "idle"
    ELSE IF ~o.finalizer THEN "finalize"
    ELSE IF o.observed # o.generation THEN "mark"
    ELSE "idle"

\* A status patch sends the fields in which new differs from the cached base.
MergeStatus(o, base, new) ==
    [o EXCEPT !.phase    = IF new.phase = base.phase THEN @ ELSE new.phase,
              !.reason   = IF new.reason = base.reason THEN @ ELSE new.reason,
              !.observed = IF new.observed = base.observed THEN @ ELSE new.observed,
              !.id       = IF new.id = base.id THEN @ ELSE new.id]

\* The object is read from the cache again and patched at the server; either
\* can answer NotFound.
CanPatch(d) == seen[d].exists /\ obj[d].exists

Patch(new) == obj' = [obj EXCEPT ![key] = MergeStatus(@, seen[key], new)]

Start(d) ==
    /\ pc = "idle" /\ d \in queue
    /\ queue' = queue \ {d}
    /\ IF ~seen[d].exists \/ FirstStep(seen[d]) = "idle"
       THEN UNCHANGED workerVars
       ELSE key' = d /\ local' = seen[d] /\ pc' = FirstStep(seen[d])
    /\ UNCHANGED <<obj, seen, binding, remote, boundVars>>

\* CreateOrPatch of the finalizer, which makes the object anew when the cache
\* has lost it meanwhile.  Reconcile returns; the event brings the key back.
Finalize ==
    /\ pc = "finalize"
    /\ \/ /\ CanPatch(key)
          /\ obj' = [obj EXCEPT ![key].finalizer = TRUE]
          /\ Return(FALSE)
       \/ /\ ~seen[key].exists /\ ~obj[key].exists
          /\ obj' = [obj EXCEPT ![key] = [Absent EXCEPT !.exists = TRUE, !.finalizer = TRUE,
                                                        !.generation = 1]]
          /\ Return(FALSE)
       \/ /\ seen[key].exists /\ ~obj[key].exists
          /\ UNCHANGED obj
          /\ Return(TRUE)
    /\ UNCHANGED <<seen, binding, remote, boundVars>>

\* The generation of the cached copy is marked observed; Reconcile goes on
\* with the server's answer.
Mark ==
    /\ pc = "mark"
    /\ IF CanPatch(key)
       THEN /\ Patch([seen[key] EXCEPT !.phase = "Processing", !.observed = seen[key].generation])
            /\ Goto("sync", obj'[key])
       ELSE Return(TRUE) /\ UNCHANGED obj
    /\ UNCHANGED <<seen, binding, remote, boundVars>>

\* The live datasources of Grafana g that carry the name of d.
Named(g, d) == {i \in DOMAIN remote[g] : remote[g][i].live /\ remote[g][i].owner = d}

Live(g, i) == i \in DOMAIN remote[g] /\ remote[g][i].live

Written == [live |-> TRUE, owner |-> key, spec |-> local.generation]

\* POST: the next number, unless the name is taken.
PostAccepted(g) == g # NoGrafana /\ local.id = NoID /\ Named(g, key) = {}
Post(g) == remote' = [remote EXCEPT ![g] = Append(@, Written)]

\* PUT: whatever has the number, unless another has the name.
PutAccepted(g) ==
    /\ g # NoGrafana /\ local.id # NoID
    /\ Live(g, local.id) /\ Named(g, key) \subseteq {local.id}
Put(g) == remote' = [remote EXCEPT ![g][local.id] = Written]

\* Faulty: the organization's number is taken for the datasource's.
NumberOfAnswerOrg(g) == 1

\* The number Grafana's answer to a POST carries.
NumberOfAnswer(g) == Len(remote[g]) + 1

\* createOrUpdateDatasource up to Grafana's answer.
Sync ==
    /\ pc = "sync"
    /\ LET g == binding[key] IN
       \/ /\ PostAccepted(g)
          /\ Post(g)
          /\ Goto("created", [local EXCEPT !.id = NumberOfAnswer(g)])
       \/ /\ PutAccepted(g)
          /\ Put(g)
          /\ Goto("updated", local)
       \/ /\ ~PostAccepted(g) /\ ~PutAccepted(g)
          /\ UNCHANGED remote
          /\ Goto("fail", local)
    /\ UNCHANGED <<obj, seen, binding, boundVars>>

\* Faulty: an update, too, marks the cached generation observed.
UpdatedCached(o) ==
    [o EXCEPT !.phase = "Current", !.reason = "updated", !.observed = o.generation]

\* The status an update writes over the cached copy o: the generation it has
\* pushed is observed.
Updated(o) ==
    [o EXCEPT !.phase = "Current", !.reason = "updated", !.observed = local.generation]

\* Faulty: the number of the new datasource is not recorded.
CreatedUnnumbered(o) ==
    [o EXCEPT !.phase = "Current", !.reason = "created", !.observed = o.generation]

\* The status a creation writes over the cached copy o: o's generation is
\* observed, whatever was pushed.
Created(o) ==
    [o EXCEPT !.phase = "Current", !.reason = "created", !.observed = o.generation,
              !.id = local.id]

Record ==
    /\ pc \in {"created", "updated"}
    /\ IF CanPatch(key)
       THEN /\ Patch(IF pc = "created" THEN Created(seen[key]) ELSE Updated(seen[key]))
            /\ Return(FALSE)
       ELSE Goto("fail", local) /\ UNCHANGED obj
    /\ UNCHANGED <<seen, binding, remote, boundVars>>

\* handleFailureEvent, whose own error is only reported; Reconcile returns
\* the first one.
MarkFailed ==
    /\ pc = "fail"
    /\ IF CanPatch(key)
       THEN Patch([seen[key] EXCEPT !.phase = "Failed", !.reason = "failed"])
       ELSE UNCHANGED obj
    /\ Return(TRUE)
    /\ UNCHANGED <<seen, binding, remote, boundVars>>

MarkTerminating ==
    /\ pc = "terminate"
    /\ IF CanPatch(key)
       THEN /\ Patch([seen[key] EXCEPT !.phase = "Terminating"])
            /\ Goto("cleanup", obj'[key])
       ELSE Return(TRUE) /\ UNCHANGED obj
    /\ UNCHANGED <<seen, binding, remote, boundVars>>

\* DELETE by number.
Remove(g) == remote' = [remote EXCEPT ![g][local.id].live = FALSE]

\* Faulty: the datasource stays in Grafana.
RemovableNever(o, g) == FALSE

\* deleteExternalDatasource has something to delete and can.
Removable(o, g) == o.id # NoID /\ g # NoGrafana /\ Live(g, o.id)

\* Without a number there is nothing to delete; without a Grafana, or when it
\* has no such datasource, the deletion is retried.
Cleanup ==
    /\ pc = "cleanup"
    /\ \/ /\ local.id = NoID
          /\ UNCHANGED remote
          /\ Goto("release", local)
       \/ /\ Removable(local, binding[key])
          /\ Remove(binding[key])
          /\ Goto("release", local)
       \/ /\ local.id # NoID /\ ~Removable(local, binding[key])
          /\ UNCHANGED remote
          /\ Return(TRUE)
    /\ UNCHANGED <<obj, seen, binding, boundVars>>

\* CreateOrPatch that drops the finalizer; with the last one the object goes.
Release ==
    /\ pc = "release"
    /\ IF CanPatch(key)
       THEN obj' = [obj EXCEPT ![key] = Absent] /\ Return(FALSE)
       ELSE UNCHANGED obj /\ Return(TRUE)
    /\ UNCHANGED <<seen, binding, remote, boundVars>>

\* A call to the API server fails.
ApiFault ==
    /\ faults < MaxFaults /\ faults' = faults + 1
    /\ \/ /\ pc \in {"finalize", "mark", "fail", "terminate", "release"}
          /\ Return(TRUE)
       \/ /\ pc \in {"created", "updated"}
          /\ Goto("fail", local)
    /\ UNCHANGED <<obj, seen, binding, remote, rebinds, crashes, resyncs>>

\* A call to Grafana fails; Grafana may have acted on it.
GrafanaFault ==
    /\ faults < MaxFaults /\ faults' = faults + 1
    /\ LET g == binding[key] IN
       \/ /\ pc = "sync" /\ g # NoGrafana
          /\ \/ UNCHANGED remote
             \/ PostAccepted(g) /\ Post(g)
             \/ PutAccepted(g) /\ Put(g)
          /\ Goto("fail", local)
       \/ /\ pc = "cleanup" /\ local.id # NoID /\ g # NoGrafana
          /\ \/ UNCHANGED remote
             \/ Removable(local, g) /\ Remove(g)
          /\ Return(TRUE)
    /\ UNCHANGED <<obj, seen, binding, rebinds, crashes, resyncs>>

-----------------------------------------------------------------------------
User == \E d \in Datasources : EditSpec(d) \/ DeleteObject(d) \/ Rebind(d)

Step == \/ Finalize \/ Mark \/ Sync \/ Record \/ MarkFailed
        \/ MarkTerminating \/ Cleanup \/ Release

Next == \/ User \/ Resync \/ Restart \/ ApiFault \/ GrafanaFault \/ Step
        \/ \E d \in Datasources : Deliver(d) \/ Start(d)

Spec == Init /\ [][Next]_vars

\* The informer delivers, a running Reconcile goes on, and the queue, which
\* is first in first out, starves no key.
Fairness ==
    /\ \A d \in Datasources : WF_vars(Deliver(d)) /\ SF_vars(Start(d))
    /\ WF_vars(Step)

FairSpec == Spec /\ Fairness

-----------------------------------------------------------------------------
(* Properties. *)

\* Nothing is queued, running or undelivered.
Quiet == queue = {} /\ pc = "idle" /\ seen = obj

\* No call has failed, the operator has not stopped, no reference has moved.
Undisturbed == faults = 0 /\ crashes = 0 /\ rebinds = 0

\* The datasource the status of d points at carries d's name and was written
\* from its present spec.
Synced(d) ==
    LET g == binding[d] IN
    /\ Live(g, obj[d].id)
    /\ remote[g][obj[d].id] = [live |-> TRUE, owner |-> d, spec |-> obj[d].generation]

\* A datasource whose status says it was updated, is current and observed is
\* in Grafana as the spec has it, whichever call failed: an edit that overlaps
\* an update is never lost.  (It takes one failure at most: when the sync fails
\* and then the patch that would say so, the status keeps both the Current of
\* the sync before, for a patch does not send Processing over a cached copy
\* that still says Processing, and the generation marked observed.  A restart
\* in the middle of the sync does the same.  And an edit that overlaps the
\* creation is lost: the creation marks the generation of the cached copy
\* observed.)
StatusIsHonest ==
    \A d \in Datasources :
       /\ Quiet /\ rebinds = 0 /\ crashes = 0 /\ faults <= 1
       /\ obj[d].exists /\ ~obj[d].deleting /\ obj[d].observed = obj[d].generation
       /\ obj[d].phase = "Current" /\ obj[d].reason = "updated"
       => Synced(d)

\* A number the status has belongs to a datasource of the object's own: while
\* no reference moves nobody else's datasource is overwritten or deleted, not
\* even after an answer or a status patch was lost.
NeverForeign ==
    [][rebinds' = 0 =>
          \A g \in Grafanas : \A i \in DOMAIN remote[g] :
             remote[g][i].owner # key => remote'[g][i] = remote[g][i]]_vars

\* Why that holds: while no reference moves, the numbers in the status, in the
\* cached copy and in the worker's are of datasources that carry the object's
\* name.
NumberInv ==
    rebinds = 0 =>
       \A d \in Datasources :
          \A o \in {obj[d], seen[d]} \cup (IF key = d THEN {local} ELSE {}) :
             o.id # NoID => /\ binding[d] # NoGrafana
                            /\ o.id \in DOMAIN remote[binding[d]]
                            /\ remote[binding[d]][o.id].owner = d

\* Grafana is written to, and a datasource deleted from it, only while the
\* object exists and carries the finalizer, however stale the cache.
WritesUnderFinalizer ==
    [][remote' # remote => obj[key].exists /\ obj[key].finalizer]_vars

\* Steps the worker takes only under the finalizer, and steps of a deletion.
Syncing == {"mark", "sync", "created", "updated", "fail"}
Ending == {"terminate", "cleanup", "release"}

\* Why that holds: a cached finalizer is still there unless the cache already
\* shows the deletion, and once the worker has reached the server for a
\* deletion only its own Release ends the object.
FinalizerInv ==
    /\ \A d \in Datasources :
          /\ obj[d].deleting => obj[d].exists /\ obj[d].finalizer
          /\ seen[d].exists /\ seen[d].finalizer /\ ~seen[d].deleting
                => obj[d].exists /\ obj[d].finalizer
          /\ seen[d].exists /\ seen[d].deleting /\ obj[d].exists => obj[d].deleting
    /\ pc \in Syncing => obj[key].exists /\ obj[key].finalizer
    /\ pc \in Ending => /\ obj[key].exists => obj[key].deleting
                        /\ seen[key].exists => seen[key].deleting
    /\ pc \in {"cleanup", "release"} => obj[key].exists /\ obj[key].deleting

\* No Grafana has two datasources of one name.
NamedOnce ==
    \A g \in Grafanas, d \in Datasources : \A i, j \in Named(g, d) : i = j

\* What the copies of d say: the cache is behind the API server, a number once
\* recorded stays, and only what has a number was ever updated.
CopyInv(d) ==
    /\ obj[d].observed <= obj[d].generation /\ seen[d].observed <= seen[d].generation
    /\ seen[d].exists /\ obj[d].exists =>
          /\ seen[d].generation <= obj[d].generation
          /\ seen[d].id # NoID => obj[d].id = seen[d].id
    /\ obj[d].reason = "updated" => obj[d].id # NoID

\* What Reconcile knows of the object at its steps: its number, and that a
\* patch against the cached copy leaves out only what the server has already.
WorkInv ==
    /\ pc \in Syncing => seen[key].exists
    /\ pc \in {"sync", "created", "updated"} => local.generation <= obj[key].generation
    /\ pc \in {"sync", "updated", "cleanup"} => local.id = obj[key].id
    /\ pc = "created" => obj[key].id = NoID /\ local.id # NoID
    /\ pc = "updated" => local.id # NoID
    /\ pc = "mark" /\ seen[key].observed = seen[key].generation
          => obj[key].observed = seen[key].observed
    /\ pc \in {"sync", "updated"} /\ seen[key].observed = local.generation
          => obj[key].observed = local.generation

\* While no reference moves, a recorded datasource is in Grafana until the
\* worker deletes it, and after an answer it is there as the answer said.
RecordedInv ==
    rebinds = 0 =>
       /\ \A d \in Datasources :
             /\ obj[d].id # NoID
             /\ \/ ~obj[d].deleting
                \/ seen[d].exists /\ ~seen[d].deleting
                \/ pc \in Syncing /\ key = d
             => Live(binding[d], obj[d].id)
       /\ pc = "created" => Live(binding[key], local.id)
       /\ pc = "updated" => remote[binding[key]][local.id] = Written

\* Undisturbed, every datasource of the operator's in Grafana is under a
\* finalizer, and its number is in the status or about to be written there.
TraceInv ==
    Undisturbed =>
       /\ \A d \in Datasources, g \in Grafanas : \A i \in Named(g, d) :
             /\ g = binding[d] /\ obj[d].exists /\ obj[d].finalizer
             /\ i = obj[d].id \/ (pc = "created" /\ key = d /\ i = local.id)
       /\ pc = "release" => \A g \in Grafanas : Named(g, key) = {}

\* Why the status is honest: after the last step of a sync it is, and a sync
\* that fails says so, for the first failure there is finds no Failed in the
\* cached copy.
HonestInv ==
    rebinds = 0 /\ crashes = 0 /\ faults <= 1 =>
       /\ pc = "fail" /\ faults = 0 => binding[key] = NoGrafana
       /\ \A d \in Datasources :
             /\ binding[d] # NoGrafana
             /\ faults = 0 \/ (pc = "fail" /\ key = d /\ obj[d].id # NoID)
             => obj[d].phase # "Failed" /\ seen[d].phase # "Failed"
       /\ \A d \in Datasources :
             /\ ~(pc \in {"sync", "created", "updated", "fail"} /\ key = d)
             /\ obj[d].exists /\ ~obj[d].deleting /\ obj[d].observed = obj[d].generation
             /\ obj[d].phase = "Current" /\ obj[d].reason = "updated"
             => Synced(d)

\* What relates object, cached copy, worker and Grafana.
SyncInv == NamedOnce /\ (\A d \in Datasources : CopyInv(d)) /\ WorkInv /\ RecordedInv

\* With the types, which no step of Reconcile, user, cluster or fault breaks,
\* this is inductive.
Inv == TypeOK /\ FinalizerInv /\ NumberInv /\ SyncInv /\ TraceInv /\ HonestInv

\* The refinement mapping to the finalizer contract.
Held == [d \in Datasources |-> obj[d].exists /\ obj[d].finalizer]
Outside == [d \in Datasources |-> \E g \in Grafanas : Named(g, d) # {}]

Contract == INSTANCE FinalizerContract
            WITH Owners <- Datasources, held <- Held, outside <- Outside

\* The reconciler implements the finalizer contract until a call fails, the
\* operator stops or a reference moves; stale caches and edits do not break
\* it.  (The number is lost with a failed or forgotten status patch, and the
\* finalizer is then given up with the datasource still there.)
ImplementsContractUndisturbed ==
    /\ Contract!ContractInit
    /\ [][Undisturbed' => Contract!ContractNext]_<<Held, Outside>>

\* Undisturbed, every deleted datasource goes, and every other one is created
\* and then in Grafana as its spec has it once an edit has followed.
Converges ==
    \A d \in Datasources :
       <>[](Undisturbed /\ binding[d] # NoGrafana =>
              /\ ~obj[d].deleting
              /\ obj[d].exists =>
                    /\ obj[d].observed = obj[d].generation
                    /\ obj[d].reason = "created" => Named(binding[d], d) = {obj[d].id}
                    /\ obj[d].reason = "updated" => Synced(d)
                    /\ obj[d].reason \in {"created", "updated"})
=============================================================================
