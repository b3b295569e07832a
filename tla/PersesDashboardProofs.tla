------------------------- MODULE PersesDashboardProofs -------------------------
(***************************************************************************)
(* Theorems about PersesDashboard, for every set of dashboards, AppBindings *)
(* and Perses servers and every bound: type correctness, that a cached     *)
(* finalizer can be trusted, that a dashboard is posted only under it,     *)
(* that a settled operator has created every dashboard it can, and that    *)
(* the event of an AppBinding requeues every failed or stale dashboard.    *)
(***************************************************************************)
EXTENDS PersesDashboard, TLAPS

LEMMA AbsentType ==
  /\ Absent \in Object
  /\ [Absent EXCEPT !.exists = TRUE, !.generation = 1] \in Object
  /\ [Absent EXCEPT !.exists = TRUE, !.finalizer = TRUE, !.generation = 1] \in Object
BY DEF Absent, Object, Phases

\* The worker's return keeps the worker's types.
LEMMA ReturnType ==
  ASSUME TypeOK, key \in Dashboards, NEW r \in BOOLEAN, Return(r)
  PROVE  /\ queue' \subseteq Dashboards
         /\ pc' = "idle" /\ key' = NoKey /\ local' \in Object
         /\ state' \in Servers \cup {NoServer}
BY AbsentType DEF TypeOK, Return

\* What the informers enqueue are names of dashboards.
LEMMA EventsType ==
  /\ \A b, objs, bs : AppHandler(b, objs, bs) \subseteq Dashboards
  /\ \A objs, bs : Delivered(objs, bs) \subseteq Dashboards
BY DEF AppHandler, Delivered

LEMMA FirstStepType ==
  ASSUME NEW o
  PROVE  /\ ActiveStep(o) \in {"finalize", "mark", "resolve"}
         /\ FirstStep(o) \in {"finalize", "mark", "resolve", "terminate", "cleanup"}
BY DEF ActiveStep, FirstStep

LEMMA MergeStatusType ==
  ASSUME NEW o \in Object, NEW base \in Object, NEW new \in Object
  PROVE  MergeStatus(o, base, new) \in Object
BY DEF MergeStatus, Object

\* A status patch leaves the rest of the object, and the others, alone.
LEMMA PatchFrame ==
  ASSUME TypeOK, key \in Dashboards, NEW new \in Object, Patch(new)
  PROVE  /\ obj' \in [Dashboards -> Object]
         /\ obj'[key] \in Object
         /\ \A d \in Dashboards \ {key} : obj'[d] = obj[d]
         /\ obj'[key].exists = obj[key].exists
         /\ obj'[key].deleting = obj[key].deleting
         /\ obj'[key].finalizer = obj[key].finalizer
<1>1. MergeStatus(obj[key], seen[key], new) \in Object
  BY MergeStatusType DEF TypeOK
<1>2. obj'[key] = MergeStatus(obj[key], seen[key], new)
  BY DEF TypeOK, Patch
<1>3. obj' \in [Dashboards -> Object] /\ \A d \in Dashboards \ {key} : obj'[d] = obj[d]
  BY <1>1 DEF TypeOK, Patch
<1>4. obj[key] \in Object
  BY DEF TypeOK
<1>5. QED
  BY <1>1, <1>2, <1>3, <1>4 DEF MergeStatus, Object

\* The objects the worker's patches write.
LEMMA NewStatusType ==
  ASSUME TypeOK, key \in Dashboards
  PROVE  /\ [seen[key] EXCEPT !.phase = "Processing"] \in Object
         /\ [seen[key] EXCEPT !.phase = "Terminating"] \in Object
         /\ Success(seen[key]) \in Object /\ Failure(seen[key]) \in Object
<1>1. seen[key] \in Object /\ state \in Servers \cup {NoServer}
  BY DEF TypeOK
<1>2. QED
  BY <1>1 DEF Object, Phases, Success, Failure

LEMMA PostedType ==
  ASSUME TypeOK, key \in Dashboards, NEW p \in Servers, Posted(p)
  PROVE  remote' \in [Servers -> [Dashboards -> Nat]]
<1>1. local.generation \in Nat
  BY DEF TypeOK, Object
<1>2. QED
  BY <1>1 DEF TypeOK, Posted

LEMMA RemovedType ==
  ASSUME TypeOK, key \in Dashboards, NEW p \in Servers,
         remote' = [remote EXCEPT ![p][key] = 0]
  PROVE  remote' \in [Servers -> [Dashboards -> Nat]]
BY DEF TypeOK

LEMMA InitType == Init => TypeOK
BY AbsentType, PersesAssumption DEF Init, TypeOK, Steps

LEMMA NextType == TypeOK /\ [Next]_vars => TypeOK'
<1> SUFFICES ASSUME TypeOK, [Next]_vars PROVE TypeOK'
  OBVIOUS
<1> USE PersesAssumption
<1>1. ASSUME NEW d \in Dashboards, EditSpec(d) PROVE TypeOK'
  <2>1. [obj[d] EXCEPT !.generation = @ + 1] \in Object
    <3>1. obj[d] \in Object
      BY DEF TypeOK
    <3>2. QED
      BY <3>1 DEF Object
  <2>2. obj' \in [Dashboards -> Object]
    BY <1>1, <2>1 DEF TypeOK, EditSpec
  <2>3. QED
    BY <1>1, <2>2 DEF TypeOK, EditSpec, workerVars
<1>2. ASSUME NEW d \in Dashboards, DeleteObject(d) PROVE TypeOK'
  <2>1. [obj[d] EXCEPT !.deleting = TRUE] \in Object
    BY DEF TypeOK, Object
  <2>2. obj' \in [Dashboards -> Object]
    BY AbsentType, <1>2, <2>1 DEF TypeOK, DeleteObject
  <2>3. QED
    BY <1>2, <2>2 DEF TypeOK, DeleteObject, workerVars, boundVars
<1>3. ASSUME NEW b \in Bindings, Rebind(b) PROVE TypeOK'
  BY <1>3 DEF TypeOK, Rebind, workerVars
<1>4. ASSUME NEW d \in Dashboards, Deliver(d) PROVE TypeOK'
  BY <1>4 DEF TypeOK, Deliver, workerVars, boundVars
<1>5. ASSUME NEW b \in Bindings, DeliverBinding(b) PROVE TypeOK'
  <2>1. queue' \subseteq Dashboards
    BY <1>5, EventsType DEF TypeOK, DeliverBinding
  <2>2. QED
    BY <1>5, <2>1 DEF TypeOK, DeliverBinding, workerVars, boundVars
<1>6. CASE Resync
  <2>1. queue' \subseteq Dashboards
    BY <1>6, EventsType DEF TypeOK, Resync
  <2>2. QED
    BY <1>6, <2>1 DEF TypeOK, Resync, workerVars, boundVars
<1>7. CASE Restart
  <2>1. queue' \subseteq Dashboards
    BY <1>7, EventsType DEF Restart
  <2>2. QED
    BY <1>7, <2>1, AbsentType DEF TypeOK, Restart, Steps
<1>8. ASSUME NEW d \in Dashboards, Start(d) PROVE TypeOK'
  <2>1. FirstStep(seen[d]) \in Steps \ {"idle"}
    BY FirstStepType DEF Steps
  <2>2. seen[d] \in Object
    BY DEF TypeOK
  <2>3. QED
    BY <1>8, <2>1, <2>2 DEF TypeOK, Start, workerVars, boundVars
<1>9. ASSUME pc # "idle", Step \/ ApiFault \/ PersesFault PROVE TypeOK'
  <2>1. /\ key \in Dashboards /\ obj[key] \in Object /\ local \in Object
        /\ bound[Ref[key]] \in Servers \cup {NoServer}
    BY <1>9 DEF TypeOK
  <2>2. obj' \in [Dashboards -> Object]
    <3>1. CASE UNCHANGED obj
      BY <3>1 DEF TypeOK
    <3>2. CASE Finalize
      <4>1. [obj[key] EXCEPT !.finalizer = TRUE] \in Object
        BY <2>1 DEF Object
      <4>2. QED
        BY <2>1, <3>2, <4>1, AbsentType DEF Finalize, TypeOK
    <3>3. CASE Release
      BY <2>1, <3>3, AbsentType DEF Release, TypeOK
    <3>4. QED
      BY <1>9, <2>1, <3>1, <3>2, <3>3, PatchFrame, NewStatusType
      DEF Step, Mark, MarkProcessing, MarkTerminating, Resolve, Post, Record, MarkFailed, Cleanup,
          ApiFault, PersesFault
  <2>3. remote' \in [Servers -> [Dashboards -> Nat]]
    <3>1. CASE UNCHANGED remote
      BY <3>1 DEF TypeOK
    <3>2. CASE Post
      BY <2>1, <3>1, <3>2, PostedType DEF Post
    <3>3. CASE Cleanup \/ PersesFault
      BY <2>1, <3>1, <3>3, PostedType, RemovedType DEF Cleanup, PersesFault, Reaches
    <3>4. QED
      BY <1>9, <3>1, <3>2, <3>3
      DEF Step, Finalize, MarkProcessing, MarkTerminating, Resolve, Record, MarkFailed, Release,
          ApiFault
  <2>4. /\ queue' \subseteq Dashboards /\ pc' \in Steps /\ local' \in Object
        /\ state' \in Servers \cup {NoServer}
        /\ IF pc' = "idle" THEN key' = NoKey ELSE key' \in Dashboards
    <3>1. CASE Return(TRUE) \/ Return(FALSE)
      BY <2>1, <3>1, ReturnType DEF Steps
    <3>2. ASSUME NEW s \in Steps \ {"idle"}, NEW o \in Object, Goto(s, o)
          PROVE  /\ queue' \subseteq Dashboards /\ pc' \in Steps /\ local' \in Object
                 /\ state' \in Servers \cup {NoServer}
                 /\ IF pc' = "idle" THEN key' = NoKey ELSE key' \in Dashboards
      BY <2>1, <3>2 DEF Goto, TypeOK
    <3>3. obj'[key] \in Object
      BY <2>1, <2>2
    <3>4. {"finalize", "mark", "resolve", "cleanup", "record", "fail", "release"}
            \subseteq Steps \ {"idle"}
      BY DEF Steps
    <3>5. CASE Resolve
      BY <2>1, <3>5 DEF Resolve, TypeOK, Steps
    <3>6. CASE Finalize
      <4>1. ActiveStep(obj'[key]) \in Steps \ {"idle"}
        BY <3>4, FirstStepType
      <4>2. QED
        BY <3>1, <3>2, <3>3, <3>4, <3>6, <4>1 DEF Finalize
    <3>7. QED
      BY <1>9, <2>1, <3>1, <3>2, <3>3, <3>4, <3>5, <3>6
      DEF Step, Mark, MarkProcessing, MarkTerminating, Post, Record, MarkFailed, Cleanup, Release,
          ApiFault, PersesFault
  <2>5. /\ UNCHANGED <<seen, binding, bound, edits, rebinds>>
        /\ faults' = faults \/ faults' = faults + 1
    BY <1>9 DEF Step, Finalize, MarkProcessing, MarkTerminating, Resolve, Post, Record, MarkFailed,
                Cleanup, Release, ApiFault, PersesFault, boundVars
  <2>6. QED
    BY <2>2, <2>3, <2>4, <2>5 DEF TypeOK
<1>10. CASE UNCHANGED vars
  BY <1>10 DEF TypeOK, vars
<1>11. QED
  BY <1>1, <1>2, <1>3, <1>4, <1>5, <1>6, <1>7, <1>8, <1>9, <1>10
  DEF Next, User, Informers, Step, Finalize, MarkProcessing, MarkTerminating, Resolve, Post, Record,
      MarkFailed, Cleanup, Release, ApiFault, PersesFault

\* Every variable keeps its type.
THEOREM PersesTypeCorrect == Spec => []TypeOK
BY InitType, NextType, PTL DEF Spec
-----------------------------------------------------------------------------
LEMMA InitFinalizer == Init => FinalizerInv
<1> SUFFICES ASSUME Init PROVE FinalizerInv
  OBVIOUS
<1>1. \A d \in Dashboards : ~obj[d].deleting /\ ~seen[d].exists
  BY DEF Init, Absent
<1>2. pc = "idle"
  BY DEF Init
<1>3. QED
  BY <1>1, <1>2 DEF FinalizerInv, Syncing, Ending

LEMMA NextFinalizer == TypeOK /\ TypeOK' /\ FinalizerInv /\ [Next]_vars => FinalizerInv'
<1> SUFFICES ASSUME TypeOK, TypeOK', FinalizerInv, [Next]_vars PROVE FinalizerInv'
  OBVIOUS
<1> USE PersesAssumption DEF Syncing, Ending
<1>1. ASSUME NEW d \in Dashboards, EditSpec(d) PROVE FinalizerInv'
  <2>1. obj[d] \in Object /\ obj' = [obj EXCEPT ![d] = [obj[d] EXCEPT !.generation = @ + 1]]
    BY <1>1 DEF TypeOK, EditSpec
  <2>2. /\ obj'[d].exists = obj[d].exists /\ obj'[d].deleting = obj[d].deleting
        /\ obj'[d].finalizer = obj[d].finalizer
        /\ \A e \in Dashboards \ {d} : obj'[e] = obj[e]
    BY <2>1 DEF TypeOK, Object
  <2>3. UNCHANGED <<seen, pc, key>>
    BY <1>1 DEF EditSpec, workerVars
  <2>4. QED
    BY <2>2, <2>3 DEF FinalizerInv, TypeOK
<1>2. ASSUME NEW d \in Dashboards, DeleteObject(d) PROVE FinalizerInv'
  <2>1. UNCHANGED <<seen, pc, key>> /\ obj[d].exists /\ ~obj[d].deleting
    BY <1>2 DEF DeleteObject, workerVars
  <2>2. CASE obj[d].finalizer
    <3>1. obj[d] \in Object /\ obj' = [obj EXCEPT ![d] = [obj[d] EXCEPT !.deleting = TRUE]]
      BY <1>2, <2>2 DEF TypeOK, DeleteObject
    <3>2. /\ obj'[d].exists = obj[d].exists /\ obj'[d].deleting
          /\ obj'[d].finalizer = obj[d].finalizer
          /\ \A e \in Dashboards \ {d} : obj'[e] = obj[e]
      BY <3>1 DEF TypeOK, Object
    <3>3. QED
      BY <2>1, <2>2, <3>2 DEF FinalizerInv, TypeOK
  <2>3. CASE ~obj[d].finalizer
    <3>1. /\ ~obj'[d].exists /\ ~obj'[d].deleting
          /\ \A e \in Dashboards \ {d} : obj'[e] = obj[e]
      BY <1>2, <2>3 DEF TypeOK, DeleteObject, Absent
    <3>2. QED
      BY <2>1, <2>3, <3>1 DEF FinalizerInv, TypeOK
  <2>4. QED
    BY <2>2, <2>3
<1>3. ASSUME NEW b \in Bindings, Rebind(b) \/ DeliverBinding(b) PROVE FinalizerInv'
  BY <1>3 DEF FinalizerInv, Rebind, DeliverBinding, workerVars
<1>4. ASSUME NEW d \in Dashboards, Deliver(d) PROVE FinalizerInv'
  <2>1. /\ UNCHANGED <<obj, pc, key>>
        /\ seen'[d] = obj[d] /\ \A e \in Dashboards \ {d} : seen'[e] = seen[e]
    BY <1>4 DEF TypeOK, Deliver, workerVars
  <2>2. pc \in Ending /\ key = d /\ seen'[d].exists => seen'[d].deleting
    BY <2>1 DEF FinalizerInv
  <2>3. pc \in Ending => key \in Dashboards
    BY DEF TypeOK
  <2>4. QED
    BY <2>1, <2>2, <2>3 DEF FinalizerInv
<1>5. CASE Resync
  BY <1>5 DEF FinalizerInv, Resync, workerVars
<1>6. CASE Restart
  BY <1>6 DEF TypeOK, Object, FinalizerInv, Restart
<1>7. ASSUME NEW d \in Dashboards, Start(d) PROVE FinalizerInv'
  <2>1. UNCHANGED <<obj, seen>>
    BY <1>7 DEF Start
  <2>2. CASE UNCHANGED workerVars
    BY <2>1, <2>2 DEF FinalizerInv, workerVars
  <2>3. CASE ~UNCHANGED workerVars
    <3>1. seen[d].exists /\ key' = d /\ pc' = FirstStep(seen[d])
      BY <1>7, <2>3 DEF Start
    <3>2. \/ pc' \in {"terminate", "cleanup"} /\ seen[d].deleting
          \/ pc' = "finalize"
          \/ pc' \in {"mark", "resolve"} /\ seen[d].finalizer /\ ~seen[d].deleting
      BY <3>1 DEF FirstStep, ActiveStep
    <3>3. QED
      BY <2>1, <3>1, <3>2 DEF FinalizerInv
  <2>4. QED
    BY <2>2, <2>3
<1>8. CASE Finalize
  <2>1. key \in Dashboards /\ obj[key] \in Object /\ UNCHANGED seen
    BY <1>8 DEF TypeOK, Finalize
  <2>2. CASE obj' = obj
    <3>1. pc' = "idle" \/ (obj[key].exists /\ obj[key].finalizer /\ key' = key /\ pc' \in Syncing)
      <4>1. CASE CanPatch(key) /\ Goto(ActiveStep(obj'[key]), obj'[key])
                 /\ obj' = [obj EXCEPT ![key].finalizer = TRUE]
        <5>1. obj[key].exists /\ obj'[key].finalizer
          BY <2>1, <4>1 DEF CanPatch, TypeOK, Object
        <5>2. ActiveStep(obj'[key]) \in {"mark", "resolve"}
          BY <5>1 DEF ActiveStep
        <5>3. QED
          BY <2>2, <4>1, <5>1, <5>2 DEF Goto
      <4>2. CASE Return(TRUE)
        BY <4>2 DEF Return
      <4>3. QED
        <5>1. Absent.exists = FALSE /\ [Absent EXCEPT !.exists = TRUE, !.finalizer = TRUE,
                                                      !.generation = 1].exists
          BY DEF Absent
        <5>2. obj' = [obj EXCEPT ![key] = [Absent EXCEPT !.exists = TRUE, !.finalizer = TRUE,
                                                       !.generation = 1]] => obj[key].exists
          BY <2>1, <2>2, <5>1 DEF TypeOK
        <5>3. QED
          BY <1>8, <4>1, <4>2, <5>2 DEF Finalize
    <3>2. QED
      BY <2>1, <2>2, <3>1 DEF FinalizerInv
  <2>3. CASE obj' # obj
    <3>1. /\ obj'[key].exists /\ obj'[key].finalizer
          /\ obj'[key].deleting = (obj[key].exists /\ obj[key].deleting)
          /\ ~obj[key].exists => ~seen[key].exists
          /\ \A e \in Dashboards \ {key} : obj'[e] = obj[e]
          /\ key' = key /\ pc' \in Syncing
      <4>1. CASE CanPatch(key)
        <5>1. /\ obj' = [obj EXCEPT ![key] = [obj[key] EXCEPT !.finalizer = TRUE]]
              /\ obj[key].exists /\ Goto(ActiveStep(obj'[key]), obj'[key])
          BY <1>8, <2>3, <4>1 DEF Finalize, CanPatch
        <5>2. /\ obj'[key].exists /\ obj'[key].finalizer
              /\ obj'[key].deleting = (obj[key].exists /\ obj[key].deleting)
              /\ \A e \in Dashboards \ {key} : obj'[e] = obj[e]
          BY <2>1, <5>1 DEF TypeOK, Object
        <5>3. ActiveStep(obj'[key]) \in {"mark", "resolve"}
          BY <5>2 DEF ActiveStep
        <5>4. QED
          BY <5>1, <5>2, <5>3 DEF Goto
      <4>2. CASE ~CanPatch(key)
        <5>1. /\ obj' = [obj EXCEPT ![key] = [Absent EXCEPT !.exists = TRUE, !.finalizer = TRUE,
                                                            !.generation = 1]]
              /\ ~seen[key].exists /\ ~obj[key].exists /\ Goto("mark", obj'[key])
          BY <1>8, <2>3, <4>2 DEF Finalize, CanPatch
        <5>2. QED
          BY <2>1, <5>1 DEF TypeOK, Absent, Goto
      <4>3. QED
        BY <4>1, <4>2
    <3>2. QED
      BY <2>1, <3>1 DEF FinalizerInv
  <2>4. QED
    BY <2>2, <2>3
<1>9. CASE MarkProcessing \/ MarkTerminating \/ Record \/ MarkFailed
  <2>1. key \in Dashboards /\ UNCHANGED seen
    BY <1>9 DEF TypeOK, MarkProcessing, MarkTerminating, Record, MarkFailed
  <2>2. /\ \A e \in Dashboards \ {key} : obj'[e] = obj[e]
        /\ obj'[key].exists = obj[key].exists
        /\ obj'[key].deleting = obj[key].deleting
        /\ obj'[key].finalizer = obj[key].finalizer
    BY <1>9, <2>1, PatchFrame, NewStatusType
    DEF Mark, MarkProcessing, MarkTerminating, Record, MarkFailed
  <2>3. \/ pc' = "idle"
        \/ pc = "mark" /\ pc' = "resolve" /\ key' = key
        \/ pc = "terminate" /\ pc' = "cleanup" /\ key' = key
    BY <1>9 DEF Mark, MarkProcessing, MarkTerminating, Record, MarkFailed, Return, Goto
  <2>4. QED
    BY <2>1, <2>2, <2>3 DEF FinalizerInv
<1>10. CASE Resolve \/ Post \/ Cleanup \/ ApiFault \/ PersesFault
  <2>1. /\ UNCHANGED <<obj, seen>>
        /\ \/ pc' = "idle"
           \/ pc \in Syncing /\ pc' \in Syncing /\ key' = key
           \/ pc \in Ending /\ pc' \in Ending /\ key' = key
    <3>1. CASE Resolve
      BY <3>1 DEF Resolve
    <3>2. CASE Post
      BY <3>2 DEF Post, Goto
    <3>3. CASE Cleanup
      BY <3>3 DEF Cleanup, Goto
    <3>4. CASE ApiFault \/ PersesFault
      BY <3>4 DEF ApiFault, PersesFault, Goto, Return
    <3>5. QED
      BY <1>10, <3>1, <3>2, <3>3, <3>4
  <2>2. QED
    BY <2>1 DEF FinalizerInv
<1>11. CASE Release
  <2>1. key \in Dashboards /\ pc' = "idle" /\ UNCHANGED seen /\ pc = "release"
    BY <1>11 DEF Release, TypeOK, Return
  <2>2. CASE obj' = obj
    BY <2>1, <2>2 DEF FinalizerInv
  <2>3. CASE obj' # obj
    <3>1. /\ \A e \in Dashboards \ {key} : obj'[e] = obj[e]
          /\ ~obj'[key].exists /\ ~obj'[key].deleting
      BY <1>11, <2>1, <2>3 DEF Release, TypeOK, Absent
    <3>2. QED
      BY <2>1, <3>1 DEF FinalizerInv
  <2>4. QED
    BY <2>2, <2>3
<1>12. CASE UNCHANGED vars
  BY <1>12 DEF FinalizerInv, vars
<1>13. QED
  BY <1>1, <1>2, <1>3, <1>4, <1>5, <1>6, <1>7, <1>8, <1>9, <1>10, <1>11, <1>12
  DEF Next, User, Informers, Step

\* A cached finalizer, and a cached deletion, can be trusted.
THEOREM PersesFinalizerInvariant == Spec => []FinalizerInv
<1>1. Init => TypeOK /\ FinalizerInv
  BY InitType, InitFinalizer
<1>2. TypeOK /\ FinalizerInv /\ [Next]_vars => (TypeOK /\ FinalizerInv)'
  BY NextType, NextFinalizer
<1>3. QED
  BY <1>1, <1>2, PTL DEF Spec

\* A model is stored in Perses only by the worker's post of its own key.
LEMMA OnlyPostWrites ==
  ASSUME TypeOK, [Next]_vars, NEW d \in Dashboards, NEW p \in Servers,
         remote'[p][d] # remote[p][d], remote'[p][d] # 0
  PROVE  pc = "post" /\ key = d
<1>1. Post \/ PersesFault \/ Cleanup
  BY DEF Next, User, Informers, Step, EditSpec, DeleteObject, Rebind, Deliver, DeliverBinding, Resync,
         Restart, Start, Finalize, MarkProcessing, MarkTerminating, Resolve, Record, MarkFailed,
         Release, ApiFault, vars
<1>2. key \in Dashboards /\ bound[Ref[key]] \in Servers \cup {NoServer}
  BY <1>1, PersesAssumption DEF TypeOK, Post, PersesFault, Cleanup
<1> DEFINE q == bound[Ref[key]]
<1>3. ~(q \in Servers /\ remote' = [remote EXCEPT ![q][key] = 0])
  BY <1>2 DEF TypeOK
<1>4. pc = "post" /\ q \in Servers /\ Posted(q)
  BY <1>1, <1>2, <1>3 DEF Post, PersesFault, Cleanup, Reaches
<1>5. remote' = [remote EXCEPT ![q][key] = local.generation]
  BY <1>4 DEF Posted
<1>6. QED
  BY <1>2, <1>4, <1>5 DEF TypeOK

\* A dashboard is posted only under the finalizer.
THEOREM PostIsGuarded == Spec => PostNeedsFinalizer
<1>1. TypeOK /\ FinalizerInv /\ [Next]_vars =>
        [\A d \in Dashboards, p \in Servers :
            remote'[p][d] # remote[p][d] /\ remote'[p][d] # 0
               => obj[d].exists /\ obj[d].finalizer]_vars
  <2> SUFFICES ASSUME TypeOK, FinalizerInv, [Next]_vars,
                      NEW d \in Dashboards, NEW p \in Servers,
                      remote'[p][d] # remote[p][d], remote'[p][d] # 0
               PROVE  obj[d].exists /\ obj[d].finalizer
    OBVIOUS
  <2>1. pc = "post" /\ key = d
    BY OnlyPostWrites
  <2>2. QED
    BY <2>1 DEF FinalizerInv, Syncing
<1>2. QED
  BY <1>1, PersesFinalizerInvariant, PersesTypeCorrect, PTL DEF Spec, PostNeedsFinalizer

-----------------------------------------------------------------------------
(* Where a dashboard at rest is. *)

LEMMA InitPresence == Init => PresenceInv
<1> SUFFICES ASSUME Init PROVE PresenceInv
  OBVIOUS
<1>1. \A d \in Dashboards : /\ ~seen[d].exists /\ obj[d].generation = 1
                            /\ obj[d].observed = 0 /\ obj[d].dashboard = NoServer
  BY DEF Init, Absent
<1>2. pc = "idle" /\ bound = binding
  BY DEF Init
<1>3. QED
  BY <1>1, <1>2 DEF PresenceInv, StatusInv, PlaceInv, ResolvedInv

\* The fields of a status patch that say where the dashboard is.
LEMMA PatchedStatus ==
  ASSUME TypeOK, key \in Dashboards, NEW new \in Object, Patch(new)
  PROVE  /\ obj'[key].exists = obj[key].exists /\ obj'[key].deleting = obj[key].deleting
         /\ obj'[key].generation = obj[key].generation
         /\ obj'[key].observed = IF new.observed = seen[key].observed
                                 THEN obj[key].observed ELSE new.observed
         /\ obj'[key].dashboard = IF new.dashboard = seen[key].dashboard
                                  THEN obj[key].dashboard ELSE new.dashboard
         /\ \A d \in Dashboards \ {key} : obj'[d] = obj[d]
<1>1. obj'[key] = MergeStatus(obj[key], seen[key], new)
  BY DEF TypeOK, Patch
<1>2. \A d \in Dashboards \ {key} : obj'[d] = obj[d]
  BY DEF TypeOK, Patch
<1>3. obj[key] \in Object
  BY DEF TypeOK
<1>4. QED
  BY <1>1, <1>2, <1>3 DEF MergeStatus, Object

\* The object keeps what says where the dashboard is.
Kept(d) ==
    /\ obj'[d].exists = obj[d].exists /\ obj'[d].generation = obj[d].generation
    /\ obj'[d].deleting = obj[d].deleting
    /\ obj'[d].observed = obj[d].observed /\ obj'[d].dashboard = obj[d].dashboard

\* A user's deletion leaves it at that, but may mark it.
Doomed(d) ==
    /\ obj'[d].exists = obj[d].exists /\ obj'[d].generation = obj[d].generation
    /\ ~obj'[d].deleting => ~obj[d].deleting
    /\ obj'[d].observed = obj[d].observed /\ obj'[d].dashboard = obj[d].dashboard

\* A success is recorded in it.
Recorded(d) ==
    /\ pc = "record" /\ key = d /\ seen[d].exists
    /\ obj'[d].exists = obj[d].exists /\ obj'[d].generation = obj[d].generation
    /\ obj'[d].deleting = obj[d].deleting
    /\ obj'[d].dashboard = IF state = seen[d].dashboard THEN obj[d].dashboard ELSE state

\* It is created anew, which needs a cache that has lost the old one.
Created(d) ==
    /\ ~seen[d].exists /\ obj'[d].generation = 1
    /\ obj'[d].observed = 0 /\ obj'[d].dashboard = NoServer

\* What a user's deletion does to an object.
LEMMA DeletedObject ==
  ASSUME TypeOK, NEW d \in Dashboards, NEW e \in Dashboards, DeleteObject(e)
  PROVE  ~obj'[d].exists \/ Doomed(d)
<1>1. obj[e] \in Object /\ obj[d] \in Object /\ Absent.exists = FALSE
  BY DEF TypeOK, Absent
<1>2. CASE obj' = [obj EXCEPT ![e] = Absent]
  BY <1>1, <1>2 DEF TypeOK, Doomed
<1>3. CASE obj' = [obj EXCEPT ![e] = [obj[e] EXCEPT !.deleting = TRUE]]
  <2>1. CASE d = e
    <3>1. obj'[d] = [obj[d] EXCEPT !.deleting = TRUE]
      BY <1>3, <2>1 DEF TypeOK
    <3>2. QED
      BY <1>1, <3>1 DEF Object, Doomed
  <2>2. CASE d # e
    BY <1>3, <2>2 DEF TypeOK, Doomed
  <2>3. QED
    BY <2>1, <2>2
<1>4. QED
  BY <1>2, <1>3 DEF DeleteObject

\* What a step of the worker does to an object.
LEMMA WorkerObject ==
  ASSUME TypeOK, pc # "idle", Step \/ ApiFault \/ PersesFault, NEW d \in Dashboards
  PROVE  /\ UNCHANGED <<seen, binding, bound, rebinds>>
         /\ ~obj'[d].exists \/ Kept(d) \/ Recorded(d) \/ Created(d)
<1>1. key \in Dashboards /\ obj[key] \in Object /\ seen[key] \in Object
  BY DEF TypeOK
<1>2. UNCHANGED <<seen, binding, bound, rebinds>>
  BY DEF Step, Finalize, MarkProcessing, MarkTerminating, Resolve, Post, Record, MarkFailed,
         Cleanup, Release, ApiFault, PersesFault, boundVars
<1>3. CASE UNCHANGED obj
  BY <1>2, <1>3 DEF Kept
<1>4. CASE Finalize
  <2>1. CASE obj' = [obj EXCEPT ![key].finalizer = TRUE]
    BY <1>1, <1>2, <2>1 DEF TypeOK, Object, Kept
  <2>2. CASE /\ obj' = [obj EXCEPT ![key] = [Absent EXCEPT !.exists = TRUE, !.finalizer = TRUE,
                                                           !.generation = 1]]
             /\ ~seen[key].exists
    <3>1. CASE d = key
      BY <1>1, <1>2, <2>2, <3>1 DEF TypeOK, Absent, Created
    <3>2. CASE d # key
      BY <1>1, <1>2, <2>2, <3>2 DEF TypeOK, Kept
    <3>3. QED
      BY <3>1, <3>2
  <2>3. QED
    BY <1>3, <1>4, <2>1, <2>2 DEF Finalize
<1>5. CASE Release
  BY <1>1, <1>2, <1>3, <1>5 DEF Release, TypeOK, Absent, Kept
<1>6. CASE MarkProcessing \/ MarkTerminating \/ MarkFailed
  <2>1. PICK new \in {[seen[key] EXCEPT !.phase = "Processing"],
                      [seen[key] EXCEPT !.phase = "Terminating"], Failure(seen[key])} :
          UNCHANGED obj \/ Patch(new)
    BY <1>6 DEF Mark, MarkProcessing, MarkTerminating, MarkFailed
  <2>2. new \in Object /\ new.observed = seen[key].observed /\ new.dashboard = seen[key].dashboard
    BY <1>1, <2>1, NewStatusType DEF Failure, Object
  <2>3. Kept(d)
    BY <1>1, <2>1, <2>2, PatchedStatus DEF Kept
  <2>4. QED
    BY <1>2, <2>3
<1>7. CASE Record
  <2>1. pc = "record" /\ (UNCHANGED obj \/ (Patch(Success(seen[key])) /\ seen[key].exists))
    BY <1>7 DEF Record, CanPatch
  <2>2. Success(seen[key]).dashboard = state /\ Success(seen[key]) \in Object
    BY <1>1, NewStatusType DEF Success, Object
  <2>3. Kept(d) \/ Recorded(d)
    BY <1>1, <2>1, <2>2, PatchedStatus DEF Kept, Recorded
  <2>4. QED
    BY <1>2, <2>3
<1>8. QED
  BY <1>3, <1>4, <1>5, <1>6, <1>7 DEF Step, Resolve, Post, Cleanup, ApiFault, PersesFault

\* Perses loses a dashboard only to a deletion.
LEMMA OnlyCleanupRemoves ==
  ASSUME TypeOK, ResolvedInv, [Next]_vars, NEW d \in Dashboards, NEW p \in Servers,
         remote[p][d] # 0, remote'[p][d] = 0
  PROVE  pc = "cleanup" /\ key = d
<1>1. Post \/ PersesFault \/ Cleanup
  BY DEF Next, User, Informers, Step, EditSpec, DeleteObject, Rebind, Deliver, DeliverBinding, Resync,
         Restart, Start, Finalize, MarkProcessing, MarkTerminating, Resolve, Record, MarkFailed,
         Release, ApiFault, vars
<1>2. /\ key \in Dashboards /\ bound[Ref[key]] \in Servers \cup {NoServer}
      /\ local.generation \in Nat \ {0}
  BY <1>1, PersesAssumption DEF TypeOK, Post, PersesFault, Cleanup, Object, ResolvedInv
<1> DEFINE q == bound[Ref[key]]
<1>3. ~(q \in Servers /\ Posted(q))
  BY <1>2 DEF TypeOK, Posted
<1>4. pc = "cleanup" /\ q \in Servers /\ remote' = [remote EXCEPT ![q][key] = 0]
  BY <1>1, <1>2, <1>3 DEF Post, PersesFault, Cleanup, Reaches
<1>5. QED
  BY <1>2, <1>4 DEF TypeOK

LEMMA NextStatus ==
  ASSUME TypeOK, PresenceInv, [Next]_vars, NEW d \in Dashboards
  PROVE  StatusInv(d)'
<1> USE PersesAssumption
<1>1. StatusInv(d) /\ obj[d] \in Object /\ seen[d] \in Object
  BY DEF PresenceInv, TypeOK
<1>2. ASSUME NEW e \in Dashboards, EditSpec(e) PROVE StatusInv(d)'
  <2>1. /\ obj' = [obj EXCEPT ![e] = [obj[e] EXCEPT !.generation = @ + 1]]
        /\ obj[e] \in Object /\ UNCHANGED seen
    BY <1>2 DEF EditSpec, TypeOK
  <2>2. /\ obj'[d].exists = obj[d].exists /\ obj'[d].observed = obj[d].observed
        /\ obj'[d].dashboard = obj[d].dashboard
        /\ obj'[d].generation = obj[d].generation \/ obj'[d].generation = obj[d].generation + 1
    BY <2>1 DEF TypeOK, Object
  <2>3. QED
    BY <1>1, <2>1, <2>2 DEF StatusInv, Object
<1>3. ASSUME NEW e \in Dashboards, DeleteObject(e) PROVE StatusInv(d)'
  <2>1. UNCHANGED seen
    BY <1>3 DEF DeleteObject
  <2>2. ~obj'[d].exists \/ Doomed(d)
    BY <1>3, DeletedObject
  <2>3. QED
    BY <1>1, <2>1, <2>2 DEF StatusInv, Doomed
<1>4. ASSUME NEW e \in Dashboards, Deliver(e) PROVE StatusInv(d)'
  <2>1. UNCHANGED obj /\ (seen'[d] = seen[d] \/ seen'[d] = obj[d])
    BY <1>4 DEF Deliver, TypeOK
  <2>2. QED
    BY <1>1, <2>1 DEF StatusInv
<1>5. CASE Restart
  BY <1>1, <1>5 DEF Restart, StatusInv
<1>6. ASSUME pc # "idle", Step \/ ApiFault \/ PersesFault PROVE StatusInv(d)'
  <2>1. UNCHANGED seen /\ (~obj'[d].exists \/ Kept(d) \/ Recorded(d) \/ Created(d))
    BY <1>6, WorkerObject
  <2>2. ASSUME Recorded(d), obj[d].exists PROVE obj'[d].dashboard # NoServer
    BY <1>1, <2>2 DEF Recorded, StatusInv, PresenceInv, ResolvedInv
  <2>3. QED
    BY <1>1, <2>1, <2>2 DEF StatusInv, Kept, Recorded, Created
<1>7. CASE UNCHANGED <<obj, seen>>
  BY <1>1, <1>7 DEF StatusInv
<1>8. QED
  BY <1>2, <1>3, <1>4, <1>5, <1>6, <1>7
  DEF Next, User, Informers, Rebind, DeliverBinding, Resync, Start, vars, Step, Finalize,
      MarkProcessing, Resolve, Post, Record, MarkFailed, MarkTerminating, Cleanup, Release, ApiFault,
      PersesFault

LEMMA NextPlace ==
  ASSUME TypeOK, FinalizerInv, PresenceInv, [Next]_vars, rebinds' <= 1, NEW d \in Dashboards
  PROVE  PlaceInv(d)'
<1> USE PersesAssumption
<1>1. rebinds \in Nat /\ rebinds' \in {rebinds, rebinds + 1}
  BY DEF TypeOK, Next, User, Informers, EditSpec, DeleteObject, Rebind, Deliver, DeliverBinding,
         Resync, Restart, Start, Step, Finalize, MarkProcessing, Resolve, Post, Record, MarkFailed,
         MarkTerminating, Cleanup, Release, ApiFault, PersesFault, boundVars, vars
<1>2. PlaceInv(d) /\ StatusInv(d) /\ ResolvedInv
  BY <1>1 DEF PresenceInv
<1>3. obj[d] \in Object /\ Ref[d] \in Bindings /\ binding[Ref[d]] \in Servers \cup {NoServer}
  BY DEF TypeOK
\* What is in Perses stays there as long as the object is not deleted.
<1>4. ASSUME NEW p \in Servers, remote[p][d] # 0, obj[d].exists, ~obj[d].deleting
      PROVE  remote'[p][d] # 0
  BY <1>2, <1>4, OnlyCleanupRemoves DEF FinalizerInv, Ending
<1>5. ASSUME UNCHANGED <<binding, rebinds>>, obj'[d].dashboard = obj[d].dashboard,
             obj'[d].exists => obj[d].exists, ~obj'[d].deleting => ~obj[d].deleting
      PROVE  PlaceInv(d)'
  BY <1>2, <1>3, <1>4, <1>5 DEF PlaceInv, Object
<1>6. ASSUME NEW e \in Dashboards, EditSpec(e) PROVE PlaceInv(d)'
  <2>1. /\ obj' = [obj EXCEPT ![e] = [obj[e] EXCEPT !.generation = @ + 1]]
        /\ obj[e] \in Object /\ UNCHANGED <<binding, rebinds>>
    BY <1>6 DEF EditSpec, TypeOK
  <2>2. /\ obj'[d].exists = obj[d].exists /\ obj'[d].dashboard = obj[d].dashboard
        /\ obj'[d].deleting = obj[d].deleting
    BY <2>1 DEF TypeOK, Object
  <2>3. QED
    BY <1>5, <2>1, <2>2
<1>7. ASSUME NEW e \in Dashboards, DeleteObject(e) PROVE PlaceInv(d)'
  <2>1. UNCHANGED <<binding, rebinds>>
    BY <1>7 DEF DeleteObject, boundVars
  <2>2. ~obj'[d].exists \/ Doomed(d)
    BY <1>7, DeletedObject
  <2>3. QED
    BY <1>5, <2>1, <2>2 DEF PlaceInv, Doomed
\* The first change of an AppBinding: every status names where it pointed.
<1>8. ASSUME NEW b \in Bindings, Rebind(b) PROVE PlaceInv(d)'
  <2>1. /\ rebinds = 0 /\ rebinds' = 1 /\ UNCHANGED <<obj, remote>>
        /\ binding'[Ref[d]] = binding[Ref[d]] \/ binding'[Ref[d]] # binding[Ref[d]]
    BY <1>1, <1>8 DEF Rebind
  <2>2. QED
    BY <1>2, <2>1 DEF PlaceInv
<1>9. ASSUME pc # "idle", Step \/ ApiFault \/ PersesFault PROVE PlaceInv(d)'
  <2>1. /\ UNCHANGED <<seen, binding, bound, rebinds>>
        /\ ~obj'[d].exists \/ Kept(d) \/ Recorded(d) \/ Created(d)
    BY <1>9, WorkerObject
  <2>2. CASE ~obj'[d].exists \/ Created(d)
    BY <2>2 DEF PlaceInv, Created
  <2>3. CASE Kept(d)
    BY <1>5, <2>1, <2>3 DEF Kept
  <2>4. CASE Recorded(d) /\ obj[d].exists
    <3>1. CASE obj'[d].dashboard = obj[d].dashboard
      BY <1>5, <2>1, <2>4, <3>1 DEF Recorded
    <3>2. CASE obj'[d].dashboard = state /\ state = bound[Ref[d]]
      <4>1. state \in Servers /\ remote[state][d] # 0
        BY <1>1, <1>2, <2>1, <2>4, <3>2 DEF Recorded, ResolvedInv, TypeOK
      <4>2. rebinds = 0 => bound = binding
        BY DEF PresenceInv
      <4>3. QED
        BY <1>4, <2>1, <2>4, <3>2, <4>1, <4>2 DEF Recorded, PlaceInv
    <3>3. CASE obj'[d].dashboard = state /\ state # bound[Ref[d]]
      BY <1>1, <1>2, <2>1, <2>4, <3>3 DEF Recorded, ResolvedInv, PlaceInv
    <3>4. QED
      BY <2>4, <3>1, <3>2, <3>3 DEF Recorded
  <2>5. QED
    BY <2>1, <2>2, <2>3, <2>4 DEF Recorded
<1>10. CASE UNCHANGED <<obj, binding, rebinds>>
  BY <1>5, <1>10
<1>11. QED
  BY <1>6, <1>7, <1>8, <1>9, <1>10
  DEF Next, User, Informers, Deliver, DeliverBinding, Resync, Restart, Start, vars, Step, Finalize,
      MarkProcessing, Resolve, Post, Record, MarkFailed, MarkTerminating, Cleanup, Release, ApiFault,
      PersesFault, boundVars

LEMMA NextResolved ==
  TypeOK /\ TypeOK' /\ FinalizerInv /\ PresenceInv /\ [Next]_vars
     => ResolvedInv' /\ (rebinds' = 0 => bound' = binding')
<1> SUFFICES ASSUME TypeOK, TypeOK', FinalizerInv, PresenceInv, [Next]_vars
             PROVE  ResolvedInv' /\ (rebinds' = 0 => bound' = binding')
  OBVIOUS
<1> USE PersesAssumption
<1>1. ResolvedInv /\ (rebinds = 0 => bound = binding)
  BY DEF PresenceInv
<1>2. rebinds \in Nat
  BY DEF TypeOK
\* Steps that leave the AppBindings, their cache and the worker alone.
<1>3. ASSUME UNCHANGED <<binding, bound, remote, rebinds, pc, key, local, state>>
      PROVE  ResolvedInv' /\ (rebinds' = 0 => bound' = binding')
  BY <1>1, <1>3 DEF ResolvedInv
<1>4. ASSUME NEW b \in Bindings, Rebind(b)
      PROVE  ResolvedInv' /\ (rebinds' = 0 => bound' = binding')
  <2>1. rebinds' = rebinds + 1 /\ UNCHANGED <<bound, remote, pc, key, local, state>>
    BY <1>4 DEF Rebind, workerVars
  <2>2. QED
    BY <1>1, <1>2, <2>1 DEF ResolvedInv
<1>5. ASSUME NEW b \in Bindings, DeliverBinding(b)
      PROVE  ResolvedInv' /\ (rebinds' = 0 => bound' = binding')
  <2>1. /\ bound[b] # binding[b] /\ bound'[b] = binding[b]
        /\ \A c \in Bindings \ {b} : bound'[c] = bound[c]
        /\ UNCHANGED <<binding, rebinds, remote, pc, key, local, state>>
    BY <1>5 DEF DeliverBinding, TypeOK, workerVars, boundVars
  <2>2. rebinds # 0
    BY <1>1, <2>1
  <2>3. pc \in {"post", "record"} => Ref[key] \in Bindings
    BY DEF TypeOK
  <2>4. QED
    BY <1>1, <2>1, <2>2, <2>3 DEF ResolvedInv
<1>6. CASE Restart
  BY <1>6 DEF Restart, ResolvedInv
<1>7. ASSUME NEW d \in Dashboards, Start(d)
      PROVE  ResolvedInv' /\ (rebinds' = 0 => bound' = binding')
  <2>1. UNCHANGED <<binding, bound, rebinds, remote>>
    BY <1>7 DEF Start, boundVars
  <2>2. CASE UNCHANGED workerVars
    BY <1>3, <2>1, <2>2 DEF workerVars
  <2>3. CASE seen[d].exists /\ local' = seen[d] /\ pc' = FirstStep(seen[d])
    <3>1. local'.generation # 0
      BY <2>3 DEF PresenceInv, StatusInv
    <3>2. pc' \notin {"post", "record"}
      BY <2>3, FirstStepType
    <3>3. QED
      BY <1>1, <2>1, <3>1, <3>2 DEF ResolvedInv
  <2>4. QED
    BY <1>7, <2>2, <2>3 DEF Start
<1>8. ASSUME pc # "idle", Step \/ ApiFault \/ PersesFault
      PROVE  ResolvedInv' /\ (rebinds' = 0 => bound' = binding')
  <2>1. key \in Dashboards /\ UNCHANGED <<binding, bound, rebinds>>
    BY <1>8, WorkerObject DEF TypeOK
  <2>2. local.generation # 0 /\ (obj[key].exists => obj[key].generation # 0)
    BY <1>8, <2>1 DEF PresenceInv, StatusInv, ResolvedInv
  <2>3. CASE pc' = "idle"
    BY <1>1, <2>1, <2>3 DEF ResolvedInv
  <2>4. CASE Resolve
    <3>1. /\ pc' \in {"post", "fail"} /\ state' = bound[Ref[key]] /\ UNCHANGED <<key, local>>
          /\ pc' = "post" => state' # NoServer
      BY <2>4 DEF Resolve
    <3>2. QED
      BY <1>1, <2>1, <2>2, <2>4, <3>1 DEF ResolvedInv
  <2>5. CASE Post \/ PersesFault
    <3>1. \/ pc' = "idle"
          \/ pc' = "fail" /\ local' = local
          \/ pc = "post" /\ pc' = "record" /\ UNCHANGED <<key, local, state>>
             /\ bound[Ref[key]] # NoServer /\ Posted(bound[Ref[key]])
      BY <2>5 DEF Post, PersesFault, Goto, Return
    <3>2. CASE pc = "post" /\ pc' = "record" /\ UNCHANGED <<key, local, state>>
               /\ bound[Ref[key]] # NoServer /\ Posted(bound[Ref[key]])
      <4>1. bound[Ref[key]] \in Servers /\ local.generation \in Nat
        BY <2>1, <3>2 DEF TypeOK, Object
      <4>2. remote'[bound[Ref[key]]][key] # 0
        BY <2>1, <2>2, <3>2, <4>1 DEF Posted, TypeOK
      <4>3. QED
        BY <1>1, <2>1, <2>2, <3>2, <4>2 DEF ResolvedInv
    <3>3. QED
      BY <1>1, <1>8, <2>1, <2>2, <2>3, <3>1, <3>2 DEF ResolvedInv
  <2>6. CASE Cleanup
    <3>1. pc' = "release" /\ local' = local
      BY <2>6 DEF Cleanup, Goto
    <3>2. QED
      BY <1>1, <2>1, <2>2, <3>1 DEF ResolvedInv
  <2>7. CASE Finalize \/ MarkProcessing \/ MarkTerminating
    <3>1. CASE Return(TRUE)
      BY <2>3, <3>1 DEF Return
    <3>2. CASE /\ local' = obj'[key] /\ pc' \in {"finalize", "mark", "resolve", "cleanup"}
               /\ obj'[key].exists
      <4>1. Kept(key) \/ Recorded(key) \/ Created(key)
        BY <1>8, <2>1, <3>2, WorkerObject
      <4>2. \/ obj'[key].generation = 1
            \/ obj[key].exists /\ obj'[key].generation = obj[key].generation
        BY <2>1, <3>2, <4>1 DEF Kept, Recorded, Created
      <4>3. local'.generation # 0
        BY <2>2, <3>2, <4>2
      <4>4. QED
        BY <1>1, <2>1, <3>2, <4>3 DEF ResolvedInv
    <3>3. CASE Finalize
      <4>1. ASSUME CanPatch(key), obj' = [obj EXCEPT ![key].finalizer = TRUE]
            PROVE  obj'[key].exists
        BY <2>1, <4>1 DEF CanPatch, TypeOK, Object
      <4>2. ASSUME obj' = [obj EXCEPT ![key] = [Absent EXCEPT !.exists = TRUE, !.finalizer = TRUE,
                                                              !.generation = 1]]
            PROVE  obj'[key].exists
        BY <2>1, <4>2 DEF TypeOK, Absent
      <4>3. QED
        BY <3>1, <3>2, <3>3, <4>1, <4>2, FirstStepType DEF Finalize, Goto
    <3>4. CASE MarkProcessing \/ MarkTerminating
      BY <2>1, <3>1, <3>2, <3>4, PatchedStatus, NewStatusType
      DEF MarkProcessing, MarkTerminating, Mark, CanPatch, Goto
    <3>5. QED
      BY <2>7, <3>3, <3>4
  <2>8. QED
    BY <1>8, <2>3, <2>4, <2>5, <2>6, <2>7 DEF Step, Record, MarkFailed, Release, ApiFault, Return
<1>9. QED
  BY <1>3, <1>4, <1>5, <1>6, <1>7, <1>8
  DEF Next, User, Informers, EditSpec, DeleteObject, Deliver, Resync, workerVars, boundVars, vars,
      Step, Finalize, MarkProcessing, Resolve, Post, Record, MarkFailed, MarkTerminating, Cleanup,
      Release, ApiFault, PersesFault

\* What Reconcile reads from the cache, and how far it is, agrees with the API
\* server's objects, and every status with what is in Perses, in every
\* reachable state.
THEOREM PersesInvariant == Spec => []Inv
<1>1. Init => Inv
  BY InitType, InitFinalizer, InitPresence DEF Inv
<1>2. Inv /\ [Next]_vars => Inv'
  <2> SUFFICES ASSUME Inv, [Next]_vars PROVE Inv'
    OBVIOUS
  <2>1. TypeOK' /\ FinalizerInv'
    BY NextType, NextFinalizer DEF Inv
  <2>2. \A d \in Dashboards : StatusInv(d)' /\ (rebinds' <= 1 => PlaceInv(d)')
    BY NextStatus, NextPlace DEF Inv
  <2>3. ResolvedInv' /\ (rebinds' = 0 => bound' = binding')
    BY <2>1, NextResolved DEF Inv
  <2>4. QED
    BY <2>1, <2>2, <2>3 DEF Inv, PresenceInv
<1>3. QED
  BY <1>1, <1>2, PTL DEF Spec

\* A dashboard the operator has come to rest about is in the Perses its
\* AppBinding points at, and its status says so of the present generation.
THEOREM RestIsPresence == Spec => []SettledIsPresent
<1>1. Inv => SettledIsPresent
  <2> SUFFICES ASSUME Inv, rebinds <= 1, NEW d \in Dashboards,
                      AtRest(d), obj[d].exists, binding[Ref[d]] # NoServer
               PROVE  Present(d)
    BY DEF SettledIsPresent
  <2>1. /\ ~obj[d].deleting /\ obj[d].generation = obj[d].observed
        /\ ~StateChanged(obj[d], binding[Ref[d]])
    BY DEF AtRest, Delivered, Passes
  <2>2. PlaceInv(d) /\ StatusInv(d)
    BY DEF Inv, PresenceInv
  <2>3. QED
    BY <2>1, <2>2 DEF PlaceInv, StatusInv, StateChanged, Present
<1>2. QED
  BY <1>1, PersesInvariant, PTL

\* The event of an AppBinding brings back every dashboard of its own that had
\* failed or become stale, whatever the AppBindings of the others do.
THEOREM EventRequeues == Spec => BindingEventRequeues
<1>1. TypeOK /\ [Next]_vars =>
        [\A b \in Bindings :
            bound'[b] # bound[b] /\ bound'[b] # NoServer
               => \A d \in Dashboards :
                     /\ obj[d] = seen[d] /\ obj[d].exists /\ Ref[d] = b
                     /\ obj[d].phase = "Failed" \/ StateChanged(obj[d], bound'[b])
                     => d \in queue']_vars
  <2> SUFFICES ASSUME TypeOK, [Next]_vars, NEW b \in Bindings,
                      bound'[b] # bound[b], bound'[b] # NoServer, NEW d \in Dashboards,
                      obj[d] = seen[d], obj[d].exists, Ref[d] = b,
                      obj[d].phase = "Failed" \/ StateChanged(obj[d], bound'[b])
               PROVE  d \in queue'
    OBVIOUS
  <2>1. d \in AppHandler(b, seen, bound') /\ d \in AppHandler(b, obj, bound')
    BY DEF AppHandler, Concerned
  <2>2. Restart \/ \E c \in Bindings : DeliverBinding(c)
    BY DEF Next, User, Informers, EditSpec, DeleteObject, Rebind, Deliver, Resync, Start, Step,
           Finalize, MarkProcessing, Resolve, Post, Record, MarkFailed, MarkTerminating, Cleanup,
           Release, ApiFault, PersesFault, vars
  <2>3. CASE Restart
    BY <2>1, <2>3 DEF Restart, Delivered
  <2>4. ASSUME NEW c \in Bindings, DeliverBinding(c) PROVE d \in queue'
    <3>1. c = b
      BY <2>4 DEF DeliverBinding, TypeOK
    <3>2. QED
      BY <2>1, <2>4, <3>1 DEF DeliverBinding
  <2>5. QED
    BY <2>2, <2>3, <2>4
<1>2. QED
  BY <1>1, PersesTypeCorrect, PTL DEF Spec, BindingEventRequeues
=============================================================================
