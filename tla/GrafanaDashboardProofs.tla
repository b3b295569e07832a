------------------------ MODULE GrafanaDashboardProofs ------------------------
(***************************************************************************)
(* Theorems about GrafanaDashboard, for every set of dashboards, bindings  *)
(* and Grafanas and every bound: type correctness, that Grafana is only    *)
(* written under the finalizer, that Terminating is final, that a settled  *)
(* operator has synced every dashboard it can, and that an undisturbed one *)
(* implements the finalizer contract.                                      *)
(***************************************************************************)
EXTENDS GrafanaDashboard, TLAPS

\* The worker's return and its failure keep the worker's types.
LEMMA ReturnType ==
  ASSUME TypeOK, key \in Dashboards, NEW r \in BOOLEAN, Return(r)
  PROVE  /\ queue' \subseteq Dashboards
         /\ pc' \in Steps /\ key' \in Dashboards \cup {NoKey}
         /\ pc' = "idle" /\ local' \in Object
         /\ target' \in Targets /\ observe' \in BOOLEAN
BY DEF TypeOK, Return, Steps, Object, Absent, Targets, Phases

LEMMA ObjectUpdate ==
  ASSUME TypeOK, key \in Dashboards, NEW o \in Object, obj' = [obj EXCEPT ![key] = o]
  PROVE  obj' \in [Dashboards -> Object] /\ obj'[key] \in Object
BY DEF TypeOK

\* A status patch of two objects yields an object.
LEMMA MergeStatusType ==
  ASSUME NEW o \in Object, NEW base \in Object, NEW new \in Object
  PROVE  MergeStatus(o, base, new) \in Object
BY DEF MergeStatus, Object

LEMMA PatchType ==
  ASSUME TypeOK, key \in Dashboards, NEW new \in Object, Patch(new)
  PROVE  obj' \in [Dashboards -> Object] /\ obj'[key] \in Object
<1>1. MergeStatus(obj[key], seen[key], new) \in Object
  BY MergeStatusType DEF TypeOK
<1>2. QED
  BY <1>1 DEF TypeOK, Patch

\* The work queue only ever holds dashboards.
LEMMA EventsType ==
  ASSUME NEW objs, NEW bs
  PROVE  Passing(objs, bs) \subseteq Dashboards /\ AllHandlers(objs, bs) \subseteq Dashboards
BY DEF Passing, AllHandlers, AppHandler

\* A push stores the generation of the worker's copy.
LEMMA PushedType ==
  ASSUME TypeOK, NEW g \in Grafanas, NEW d \in Dashboards
  PROVE  [remote EXCEPT ![g][d] = local.generation] \in [Grafanas -> [Dashboards -> Nat]]
<1>1. local.generation \in Nat
  BY DEF TypeOK, Object
<1>2. [remote[g] EXCEPT ![d] = local.generation] \in [Dashboards -> Nat]
  BY <1>1 DEF TypeOK
<1>3. QED
  BY <1>2 DEF TypeOK

LEMMA FirstStepType ==
  ASSUME NEW o
  PROVE  /\ FirstStep(o) \in Steps \ {"idle"}
         /\ ActiveStep(o) \in Steps \ {"idle"}
BY DEF FirstStep, ActiveStep, Steps

LEMMA InitType == Init => TypeOK
<1> SUFFICES ASSUME Init PROVE TypeOK
  OBVIOUS
<1>1. Absent \in Object /\ [Absent EXCEPT !.exists = TRUE, !.generation = 1] \in Object
  BY DEF Absent, Object, Phases, Targets
<1>2. binding \in [Bindings -> Targets]
  BY DashboardAssumption DEF Init, Targets
<1>3. QED
  BY <1>1, <1>2 DEF Init, TypeOK, Steps, Targets

LEMMA NextType == TypeOK /\ [Next]_vars => TypeOK'
<1> SUFFICES ASSUME TypeOK, [Next]_vars PROVE TypeOK'
  OBVIOUS
<1> USE DashboardAssumption
<1>0. Absent \in Object
  BY DEF Absent, Object, Phases, Targets
<1>1. ASSUME NEW d \in Dashboards, EditSpec(d) PROVE TypeOK'
  <2>1. [obj[d] EXCEPT !.generation = @ + 1] \in Object
    BY DEF TypeOK, Object
  <2>2. obj' \in [Dashboards -> Object]
    BY <1>1, <2>1 DEF TypeOK, EditSpec
  <2>3. QED
    BY <1>1, <2>2 DEF TypeOK, EditSpec, userVars, workerVars
<1>2. ASSUME NEW d \in Dashboards, DeleteObject(d) PROVE TypeOK'
  <2>1. [obj[d] EXCEPT !.deleting = TRUE] \in Object
    BY DEF TypeOK, Object
  <2>2. obj' \in [Dashboards -> Object]
    BY <1>0, <1>2, <2>1 DEF TypeOK, DeleteObject
  <2>3. QED
    BY <1>2, <2>2 DEF TypeOK, DeleteObject, userVars, workerVars
<1>3. ASSUME NEW b \in Bindings, Rebind(b) \/ ToggleSecret(b) PROVE TypeOK'
  <2>1. CASE Rebind(b)
    BY <1>3, <2>1 DEF TypeOK, Rebind, workerVars
  <2>2. CASE ToggleSecret(b)
    <3>1. secret' \in [Bindings -> BOOLEAN]
      BY <2>2, Zenon DEF TypeOK, ToggleSecret
    <3>2. rebinds' \in Nat
      BY <2>2 DEF TypeOK, ToggleSecret
    <3>3. QED
      BY <2>2, <3>1, <3>2 DEF TypeOK, ToggleSecret, workerVars
  <2>3. QED
    BY <1>3, <2>1, <2>2
<1>4. ASSUME NEW d \in Dashboards, Deliver(d) PROVE TypeOK'
  BY <1>4 DEF TypeOK, Deliver, userVars, workerVars
<1>5. ASSUME NEW b \in Bindings, DeliverBinding(b) PROVE TypeOK'
  <2>1. AppHandler(b, seen, bound') \subseteq Dashboards
    BY DEF AppHandler
  <2>2. QED
    BY <1>5, <2>1 DEF TypeOK, DeliverBinding, userVars, workerVars
<1>6. CASE Resync
  BY <1>6, EventsType DEF TypeOK, Resync, userVars, workerVars
<1>7. CASE Restart
  <2>1. queue' \subseteq Dashboards
    BY <1>7, EventsType DEF Restart
  <2>2. crashes' \in Nat
    BY <1>7 DEF Restart, TypeOK
  <2>3. QED
    BY <1>0, <1>7, <2>1, <2>2 DEF TypeOK, Restart, userVars, Steps, Targets
<1>8. ASSUME NEW d \in Dashboards, Start(d) PROVE TypeOK'
  <2>1. CASE ~seen[d].exists
    BY <1>8, <2>1 DEF TypeOK, Start, userVars, workerVars
  <2>2. CASE seen[d].exists
    <3>1. FirstStep(seen[d]) \in Steps \ {"idle"}
      BY FirstStepType
    <3>2. QED
      BY <1>8, <2>2, <3>1 DEF TypeOK, Start, userVars
  <2>3. QED
    BY <2>1, <2>2
<1>9. CASE Finalize
  <2>1. key \in Dashboards
    BY <1>9 DEF Finalize, TypeOK
  <2>2. obj' \in [Dashboards -> Object]
    <3>1. [obj[key] EXCEPT !.finalizer = TRUE] \in Object
      BY <2>1 DEF TypeOK, Object
    <3>2. [Absent EXCEPT !.exists = TRUE, !.finalizer = TRUE,
                         !.generation = local.generation] \in Object
      BY <1>0 DEF TypeOK, Object
    <3>3. QED
      BY <1>9, <2>1, <3>1, <3>2 DEF Finalize, TypeOK
  <2>3. obj'[key] \in Object /\ ActiveStep(obj'[key]) \in Steps \ {"idle"}
    BY <2>1, <2>2, FirstStepType
  <2>4. CASE Return(TRUE)
    BY <1>9, <2>1, <2>2, <2>4, ReturnType DEF Finalize, TypeOK, userVars
  <2>5. CASE Goto(ActiveStep(obj'[key]), obj'[key])
    BY <1>9, <2>1, <2>2, <2>3, <2>5 DEF Finalize, Goto, TypeOK, userVars
  <2>6. CASE Goto("mark", obj'[key])
    BY <1>9, <2>1, <2>2, <2>3, <2>6 DEF Finalize, Goto, TypeOK, userVars, Steps
  <2>7. QED
    BY <1>9, <2>4, <2>5, <2>6 DEF Finalize
<1>10. ASSUME MarkProcessing \/ MarkTerminating PROVE TypeOK'
  <2>1. key \in Dashboards
    BY <1>10 DEF MarkProcessing, MarkTerminating, TypeOK
  <2>2. CASE CanPatch(key)
    <3>1. /\ [seen[key] EXCEPT !.phase = "Processing"] \in Object
          /\ [seen[key] EXCEPT !.phase = "Terminating"] \in Object
      BY <2>1 DEF TypeOK, Object, Phases
    <3>2. obj' \in [Dashboards -> Object] /\ obj'[key] \in Object
      BY <1>10, <2>1, <2>2, <3>1, PatchType DEF MarkProcessing, MarkTerminating
    <3>3. QED
      BY <1>10, <2>1, <2>2, <3>2 DEF MarkProcessing, MarkTerminating, Goto, TypeOK, userVars, Steps
  <2>3. CASE ~CanPatch(key)
    BY <1>10, <2>1, <2>3, ReturnType DEF MarkProcessing, MarkTerminating, TypeOK, userVars
  <2>4. QED
    BY <2>2, <2>3
<1>11. CASE Resolve
  <2>1. key \in Dashboards
    BY <1>11 DEF Resolve, TypeOK
  <2>2. QED
    <3>1. bound[Ref[key]] \in Targets
      BY <2>1 DEF TypeOK
    <3>2. CASE Fail(FALSE)
      BY <1>11, <2>1, <3>2 DEF Resolve, Fail, TypeOK, userVars, Steps
    <3>3. CASE ~Fail(FALSE)
      BY <1>11, <2>1, <3>1, <3>3 DEF Resolve, TypeOK, userVars, Steps
    <3>4. QED
      BY <3>2, <3>3
<1>12. CASE Push
  <2>1. key \in Dashboards
    BY <1>12 DEF Push, TypeOK
  <2>2. bound[Ref[key]] \in Targets
    BY <2>1 DEF TypeOK
  <2>3. remote' \in [Grafanas -> [Dashboards -> Nat]]
    <3>1. CASE bound[Ref[key]] \in Grafanas
      <4>1. [remote EXCEPT ![bound[Ref[key]]][key] = local.generation]
               \in [Grafanas -> [Dashboards -> Nat]]
        BY <2>1, <3>1, PushedType
      <4>2. QED
        BY <1>12, <4>1 DEF Push, TypeOK
    <3>2. CASE bound[Ref[key]] = NoGrafana
      BY <1>12, <3>2 DEF Push, TypeOK
    <3>3. QED
      BY <2>2, <3>1, <3>2 DEF Targets
  <2>4. QED
    BY <1>12, <2>1, <2>3 DEF Push, Fail, Goto, TypeOK, userVars, Steps
<1>13. CASE ReadOrg
  BY <1>13 DEF ReadOrg, Goto, TypeOK, userVars, Steps
<1>14. CASE Record
  <2>1. key \in Dashboards
    BY <1>14 DEF Record, TypeOK
  <2>2. Success(seen[key], target) \in Object
    BY <2>1 DEF TypeOK, Success, Object, Phases
  <2>3. obj' \in [Dashboards -> Object]
    BY <1>14, <2>1, <2>2, PatchType DEF Record, TypeOK
  <2>4. QED
    BY <1>14, <2>1, <2>3, ReturnType DEF Record, TypeOK, userVars
<1>15. CASE MarkFailed
  <2>1. key \in Dashboards
    BY <1>15 DEF MarkFailed, TypeOK
  <2>2. Failure(seen[key], observe) \in Object
    BY <2>1 DEF TypeOK, Failure, Object, Phases
  <2>3. obj' \in [Dashboards -> Object]
    BY <1>15, <2>1, <2>2, PatchType DEF MarkFailed, TypeOK
  <2>4. QED
    BY <1>15, <2>1, <2>3, ReturnType DEF MarkFailed, TypeOK, userVars
<1>16. CASE Cleanup
  <2>1. key \in Dashboards
    BY <1>16 DEF Cleanup, TypeOK
  <2>2. remote' \in [Grafanas -> [Dashboards -> Nat]]
    <3>1. CASE remote' = [remote EXCEPT ![local.dashboard][key] = 0]
      BY <3>1, <2>1 DEF TypeOK
    <3>2. CASE remote' = remote
      BY <3>2 DEF TypeOK
    <3>3. QED
      BY <1>16, <3>1, <3>2 DEF Cleanup
  <2>3. QED
    BY <1>16, <2>1, <2>2 DEF Cleanup, Goto, TypeOK, userVars, Steps
<1>17. CASE Release
  <2>1. key \in Dashboards
    BY <1>17 DEF Release, TypeOK
  <2>2. obj' \in [Dashboards -> Object]
    BY <1>0, <1>17, <2>1 DEF Release, TypeOK
  <2>3. QED
    BY <1>17, <2>1, <2>2, ReturnType DEF Release, TypeOK, userVars
<1>18. CASE ApiFault
  <2>1. key \in Dashboards
    BY <1>18 DEF ApiFault, TypeOK
  <2>2. QED
    <3>1. Return(TRUE) /\ UNCHANGED <<obj, seen, bound, remote, crashes, userVars>>
      BY <1>18, Zenon DEF ApiFault
    <3>2. faults' \in Nat
      BY <1>18 DEF ApiFault, TypeOK
    <3>3. QED
      BY <2>1, <3>1, <3>2, ReturnType DEF TypeOK, userVars
<1>19. CASE GrafanaFault
  <2>1. key \in Dashboards
    BY <1>19 DEF GrafanaFault, TypeOK
  <2>2. bound[Ref[key]] \in Targets
    BY <2>1 DEF TypeOK
  <2>3. remote' \in [Grafanas -> [Dashboards -> Nat]]
    <3>1. CASE bound[Ref[key]] \in Grafanas
      <4>1. [remote EXCEPT ![bound[Ref[key]]][key] = local.generation]
               \in [Grafanas -> [Dashboards -> Nat]]
        BY <2>1, <3>1, PushedType
      <4>2. QED
        BY <1>19, <4>1 DEF GrafanaFault, TypeOK
    <3>2. CASE bound[Ref[key]] = NoGrafana
      BY <1>19, <3>2 DEF GrafanaFault, TypeOK
    <3>3. QED
      BY <2>2, <3>1, <3>2 DEF Targets
  <2>. faults' \in Nat
    BY <1>19 DEF GrafanaFault, TypeOK
  <2>. UNCHANGED <<obj, seen, bound, crashes, userVars>>
    BY <1>19 DEF GrafanaFault
  <2>4. CASE Fail(FALSE)
    BY <2>1, <2>3, <2>4 DEF Fail, TypeOK, userVars, Steps
  <2>5. CASE Return(TRUE)
    BY <2>1, <2>3, <2>5, ReturnType DEF TypeOK, userVars
  <2>6. QED
    BY <1>19, <2>4, <2>5 DEF GrafanaFault
<1>20. CASE UNCHANGED vars
  BY <1>20 DEF TypeOK, vars
<1>21. QED
  BY <1>1, <1>2, <1>3, <1>4, <1>5, <1>6, <1>7, <1>8, <1>9, <1>10, <1>11, <1>12, <1>13,
     <1>14, <1>15, <1>16, <1>17, <1>18, <1>19, <1>20
  DEF Next, User, Informers, Step

\* Every variable keeps its type: the worker always holds an existing key
\* while it runs, and every status written is one the API has.
THEOREM DashboardTypeCorrect == Spec => []TypeOK
BY InitType, NextType, PTL DEF Spec

-----------------------------------------------------------------------------
\* A status patch leaves the object's existence, finalizer and deletion alone
\* and can only bring the phase it writes.
LEMMA PatchFrame ==
  ASSUME TypeOK, key \in Dashboards, NEW new \in Object, Patch(new)
  PROVE  /\ \A d \in Dashboards \ {key} : obj'[d] = obj[d]
         /\ obj'[key].exists = obj[key].exists
         /\ obj'[key].deleting = obj[key].deleting
         /\ obj'[key].finalizer = obj[key].finalizer
         /\ obj'[key].phase = obj[key].phase \/ obj'[key].phase = new.phase
BY DEF TypeOK, Object, Patch, MergeStatus

LEMMA InitFinalizer == Init => FinalizerInv
<1> SUFFICES ASSUME Init PROVE FinalizerInv
  OBVIOUS
<1>1. \A d \in Dashboards : /\ ~obj[d].deleting /\ obj[d].phase = ""
                            /\ ~seen[d].exists
  BY DEF Init, Absent
<1>2. pc = "idle" /\ key = NoKey
  BY DEF Init
<1>3. QED
  BY <1>1, <1>2 DEF FinalizerInv, Syncing, Ending

LEMMA NextFinalizer == TypeOK /\ TypeOK' /\ FinalizerInv /\ [Next]_vars => FinalizerInv'
<1> SUFFICES ASSUME TypeOK, TypeOK', FinalizerInv, [Next]_vars PROVE FinalizerInv'
  OBVIOUS
<1> USE DashboardAssumption DEF Syncing, Ending
<1>1. ASSUME NEW d \in Dashboards, EditSpec(d) PROVE FinalizerInv'
  BY <1>1 DEF TypeOK, Object, FinalizerInv, EditSpec, workerVars
<1>2. ASSUME NEW d \in Dashboards, DeleteObject(d) PROVE FinalizerInv'
  <2>1. CASE obj[d].finalizer
    BY <1>2, <2>1 DEF TypeOK, Object, FinalizerInv, DeleteObject, workerVars
  <2>2. CASE ~obj[d].finalizer
    <3>1. /\ ~obj'[d].exists /\ ~obj'[d].deleting /\ obj'[d].phase = ""
          /\ \A e \in Dashboards \ {d} : obj'[e] = obj[e]
      BY <1>2, <2>2 DEF TypeOK, DeleteObject, Absent
    <3>2. UNCHANGED <<seen, pc, key>>
      BY <1>2 DEF DeleteObject, workerVars
    <3>3. QED
      BY <2>2, <3>1, <3>2 DEF FinalizerInv, TypeOK
  <2>3. QED
    BY <2>1, <2>2 DEF TypeOK, Object
<1>3. ASSUME NEW b \in Bindings, Rebind(b) \/ ToggleSecret(b) PROVE FinalizerInv'
  BY <1>3 DEF FinalizerInv, Rebind, ToggleSecret, workerVars
<1>4. ASSUME NEW d \in Dashboards, Deliver(d) PROVE FinalizerInv'
  BY <1>4 DEF TypeOK, Object, FinalizerInv, Deliver, workerVars
<1>5. ASSUME NEW b \in Bindings, DeliverBinding(b) PROVE FinalizerInv'
  BY <1>5 DEF FinalizerInv, DeliverBinding, workerVars
<1>6. CASE Resync
  BY <1>6 DEF FinalizerInv, Resync, workerVars
<1>7. CASE Restart
  BY <1>7 DEF TypeOK, Object, FinalizerInv, Restart
<1>8. ASSUME NEW d \in Dashboards, Start(d) PROVE FinalizerInv'
  BY <1>8 DEF TypeOK, Object, FinalizerInv, Start, FirstStep, ActiveStep, workerVars
<1>9. CASE Finalize
  <2>1. key \in Dashboards /\ UNCHANGED seen
    BY <1>9 DEF Finalize, TypeOK
  <2>2. CASE CanPatch(key) /\ obj' = [obj EXCEPT ![key].finalizer = TRUE]
             /\ Goto(ActiveStep(obj'[key]), obj'[key])
    <3>1. /\ \A e \in Dashboards \ {key} : obj'[e] = obj[e]
          /\ obj'[key].exists /\ obj'[key].finalizer
          /\ obj'[key].deleting = obj[key].deleting
          /\ obj'[key].phase = obj[key].phase
      BY <2>1, <2>2 DEF CanPatch, TypeOK, Object
    <3>2. pc' \in {"mark", "resolve"} /\ key' = key
      BY <2>2, <3>1 DEF Goto, ActiveStep
    <3>3. obj[key].exists /\ obj[key].phase # "Terminating"
      BY <1>9, <2>1, <2>2 DEF Finalize, CanPatch, FinalizerInv
    <3>4. QED
      BY <2>1, <3>1, <3>2, <3>3 DEF FinalizerInv
  <2>3. CASE /\ ~seen[key].exists
             /\ obj' = [obj EXCEPT ![key] = [Absent EXCEPT !.exists = TRUE, !.finalizer = TRUE,
                                                 !.generation = local.generation]]
             /\ Goto("mark", obj'[key])
    <3>1. /\ \A e \in Dashboards \ {key} : obj'[e] = obj[e]
          /\ obj'[key].exists /\ obj'[key].finalizer
          /\ ~obj'[key].deleting /\ obj'[key].phase = ""
      BY <2>1, <2>3 DEF Absent, TypeOK
    <3>2. QED
      BY <2>1, <2>3, <3>1 DEF FinalizerInv, TypeOK, Goto
  <2>4. CASE Return(TRUE) /\ UNCHANGED obj
    BY <2>1, <2>4 DEF FinalizerInv, Return, TypeOK
  <2>5. QED
    BY <1>9, <2>2, <2>3, <2>4 DEF Finalize
<1>10. CASE MarkProcessing
  <2>1. key \in Dashboards /\ UNCHANGED seen
    BY <1>10 DEF MarkProcessing, TypeOK
  <2>2. CASE CanPatch(key)
    <3>1. [seen[key] EXCEPT !.phase = "Processing"] \in Object
      BY <2>1 DEF TypeOK, Object, Phases
    <3>2. [seen[key] EXCEPT !.phase = "Processing"].phase = "Processing"
      BY <2>1 DEF TypeOK, Object
    <3>3. /\ Patch([seen[key] EXCEPT !.phase = "Processing"])
          /\ pc = "mark" /\ pc' = "resolve" /\ key' = key
      BY <1>10, <2>2 DEF MarkProcessing, Goto
    <3>4. /\ \A d \in Dashboards \ {key} : obj'[d] = obj[d]
          /\ obj'[key].exists = obj[key].exists
          /\ obj'[key].deleting = obj[key].deleting
          /\ obj'[key].finalizer = obj[key].finalizer
          /\ obj'[key].phase = obj[key].phase \/ obj'[key].phase = "Processing"
      BY <2>1, <3>1, <3>2, <3>3, PatchFrame
    <3>5. QED
      BY <2>1, <3>3, <3>4 DEF FinalizerInv
  <2>3. CASE ~CanPatch(key)
    BY <1>10, <2>1, <2>3 DEF MarkProcessing, FinalizerInv, Return, TypeOK
  <2>4. QED
    BY <2>2, <2>3
<1>11. CASE MarkTerminating
  <2>1. key \in Dashboards /\ UNCHANGED seen
    BY <1>11 DEF MarkTerminating, TypeOK
  <2>2. CASE CanPatch(key)
    <3>1. [seen[key] EXCEPT !.phase = "Terminating"] \in Object
      BY <2>1 DEF TypeOK, Object, Phases
    <3>2. /\ Patch([seen[key] EXCEPT !.phase = "Terminating"])
          /\ pc = "terminate" /\ pc' = "cleanup" /\ key' = key
      BY <1>11, <2>2 DEF MarkTerminating, Goto
    <3>3. obj[key].exists /\ obj[key].deleting /\ (seen[key].exists => seen[key].deleting)
      BY <2>2, <3>2 DEF CanPatch, FinalizerInv
    <3>4. QED
      BY <2>1, <3>1, <3>2, <3>3, PatchFrame DEF FinalizerInv
  <2>3. CASE ~CanPatch(key)
    BY <1>11, <2>1, <2>3 DEF MarkTerminating, FinalizerInv, Return, TypeOK
  <2>4. QED
    BY <2>2, <2>3
<1>12. CASE Resolve
  BY <1>12 DEF FinalizerInv, Resolve, Fail
<1>13. CASE Push
  BY <1>13 DEF FinalizerInv, Push, Fail, Goto
<1>14. CASE ReadOrg
  BY <1>14 DEF FinalizerInv, ReadOrg, Goto
<1>15. CASE Record
  <2>1. key \in Dashboards /\ UNCHANGED seen
    BY <1>15 DEF Record, TypeOK
  <2>2. CASE CanPatch(key)
    <3>1. Success(seen[key], target) \in Object /\ Success(seen[key], target).phase = "Current"
      BY <2>1 DEF TypeOK, Success, Object, Phases
    <3>2. /\ Patch(Success(seen[key], target))
          /\ pc = "record" /\ pc' = "idle" /\ key' = NoKey
      BY <1>15, <2>2 DEF Record, Return
    <3>3. QED
      BY <2>1, <3>1, <3>2, PatchFrame DEF FinalizerInv
  <2>3. CASE ~CanPatch(key)
    BY <1>15, <2>1, <2>3 DEF Record, FinalizerInv, Return, TypeOK
  <2>4. QED
    BY <2>2, <2>3
<1>16. CASE MarkFailed
  <2>1. key \in Dashboards /\ UNCHANGED seen
    BY <1>16 DEF MarkFailed, TypeOK
  <2>2. CASE CanPatch(key)
    <3>1. Failure(seen[key], observe) \in Object /\ Failure(seen[key], observe).phase = "Failed"
      BY <2>1 DEF TypeOK, Failure, Object, Phases
    <3>2. /\ Patch(Failure(seen[key], observe))
          /\ pc = "fail" /\ pc' = "idle" /\ key' = NoKey
      BY <1>16, <2>2 DEF MarkFailed, Return
    <3>3. QED
      BY <2>1, <3>1, <3>2, PatchFrame DEF FinalizerInv
  <2>3. CASE ~CanPatch(key)
    BY <1>16, <2>1, <2>3 DEF MarkFailed, FinalizerInv, Return, TypeOK
  <2>4. QED
    BY <2>2, <2>3
<1>17. CASE Cleanup
  BY <1>17 DEF FinalizerInv, Cleanup, Goto
<1>18. CASE Release
  <2>1. /\ key \in Dashboards /\ UNCHANGED seen
        /\ pc = "release" /\ pc' = "idle" /\ key' = NoKey
    BY <1>18 DEF Release, Return, TypeOK
  <2>2. CASE obj[key].deleting
    <3>1. obj' = [obj EXCEPT ![key] = Absent]
      BY <1>18, <2>2 DEF Release
    <3>2. /\ ~obj'[key].exists /\ ~obj'[key].deleting /\ obj'[key].phase = ""
          /\ \A e \in Dashboards \ {key} : obj'[e] = obj[e]
      BY <2>1, <3>1 DEF TypeOK, Absent
    <3>3. QED
      BY <2>1, <3>2 DEF FinalizerInv
  <2>3. CASE UNCHANGED obj
    BY <2>1, <2>3 DEF FinalizerInv
  <2>4. QED
    BY <1>18, <2>2, <2>3 DEF Release
<1>19. CASE ApiFault
  BY <1>19 DEF FinalizerInv, ApiFault, Return
<1>20. CASE GrafanaFault
  BY <1>20 DEF FinalizerInv, GrafanaFault, Return, Fail
<1>21. CASE UNCHANGED vars
  BY <1>21 DEF FinalizerInv, vars
<1>22. QED
  BY <1>1, <1>2, <1>3, <1>4, <1>5, <1>6, <1>7, <1>8, <1>9, <1>10, <1>11, <1>12, <1>13,
     <1>14, <1>15, <1>16, <1>17, <1>18, <1>19, <1>20, <1>21
  DEF Next, User, Informers, Step

THEOREM FinalizerInvariant == Spec => []FinalizerInv
<1>1. TypeOK /\ TypeOK' /\ FinalizerInv /\ [Next]_vars => FinalizerInv'
  BY NextFinalizer
<1>2. QED
  BY InitFinalizer, <1>1, DashboardTypeCorrect, PTL DEF Spec

\* A step changes what a Grafana stores only by a push of the worker's key or
\* by removing it.
LEMMA OnlyPushWrites ==
  ASSUME TypeOK, [Next]_vars, NEW d \in Dashboards, NEW g \in Grafanas,
         remote'[g][d] # remote[g][d], remote'[g][d] # 0
  PROVE  pc = "push" /\ key = d
<1> USE DashboardAssumption
<1>1. remote' # remote
  OBVIOUS
<1>2. Push \/ Cleanup \/ GrafanaFault
  BY <1>1 DEF Next, User, EditSpec, DeleteObject, Rebind, ToggleSecret, Informers, Deliver,
     DeliverBinding, Resync, Restart, Start, Step, Finalize, MarkProcessing, Resolve, ReadOrg,
     Record, MarkFailed, MarkTerminating, Release, ApiFault, vars
<1>3. bound[Ref[key]] \in Targets /\ key \in Dashboards
  BY <1>2 DEF Push, Cleanup, GrafanaFault, TypeOK
<1> remote \in [Grafanas -> [Dashboards -> Nat]]
  BY DEF TypeOK
<1>4. CASE Push
  <2>1. PICK h \in Grafanas : remote' = [remote EXCEPT ![h][key] = local.generation]
    BY <1>1, <1>3, <1>4 DEF Push, Targets
  <2>2. pc = "push"
    BY <1>4 DEF Push
  <2>3. QED
    BY <1>3, <2>1, <2>2
<1>5. CASE Cleanup
  <2>1. local.dashboard \in Grafanas /\ remote' = [remote EXCEPT ![local.dashboard][key] = 0]
    BY <1>1, <1>3, <1>5 DEF Cleanup, ReachesRemote, Targets
  <2>2. QED
    BY <1>3, <2>1
<1>6. CASE GrafanaFault
  <2>1. pc = "push"
    BY <1>1, <1>6 DEF GrafanaFault
  <2>2. PICK h \in Grafanas : remote' = [remote EXCEPT ![h][key] = local.generation]
    BY <1>1, <1>3, <1>6, <2>1 DEF GrafanaFault, Targets
  <2>3. QED
    BY <1>3, <2>1, <2>2
<1>7. QED
  BY <1>2, <1>4, <1>5, <1>6

\* The reconciler writes a dashboard to Grafana only while the object exists
\* and carries the finalizer, with any number of dashboards and Grafanas,
\* however stale the cache and whatever calls fail or restarts happen.
THEOREM PushIsGuarded == Spec => PushNeedsFinalizer
<1>1. TypeOK /\ FinalizerInv /\ [Next]_vars
        => [\A d \in Dashboards, g \in Grafanas :
              remote'[g][d] # remote[g][d] /\ remote'[g][d] # 0
                 => obj[d].exists /\ obj[d].finalizer]_vars
  BY OnlyPushWrites DEF FinalizerInv, Syncing
<1>2. QED
  BY <1>1, DashboardTypeCorrect, FinalizerInvariant, PTL DEF Spec, PushNeedsFinalizer

\* No late status patch takes a Terminating object back into another phase.
THEOREM TerminatingStays == Spec => TerminatingIsFinal
<1>1. TypeOK /\ TypeOK' /\ FinalizerInv /\ [Next]_vars
        => [\A d \in Dashboards :
              obj[d].phase = "Terminating" /\ obj'[d].exists
                 => obj'[d].phase = "Terminating"]_vars
  <2> SUFFICES ASSUME TypeOK, TypeOK', FinalizerInv, [Next]_vars,
                      NEW d \in Dashboards, obj[d].phase = "Terminating", obj'[d].exists
               PROVE  obj'[d].phase = "Terminating"
    OBVIOUS
  <2>1. obj[d].exists /\ obj[d].deleting /\ (key = d => pc \in Ending)
    BY DEF FinalizerInv
  <2>2. CASE obj' = obj
    BY <2>2
  <2>3. ASSUME NEW e \in Dashboards, EditSpec(e) \/ DeleteObject(e)
        PROVE  obj'[d].phase = "Terminating"
    BY <2>1, <2>3 DEF EditSpec, DeleteObject, TypeOK, Object
  <2>4. CASE Finalize \/ MarkProcessing \/ Record \/ MarkFailed \/ Release
    <3>1. key \in Dashboards /\ (pc # "release" => key # d)
      BY <2>1, <2>4 DEF Finalize, MarkProcessing, Record, MarkFailed, Release, TypeOK, Ending
    <3>2. key # d
      <4>1. CASE Release /\ key = d
        <5>1. obj' = [obj EXCEPT ![d] = Absent]
          BY <2>1, <4>1 DEF Release
        <5>2. ~obj'[d].exists
          BY <5>1 DEF TypeOK, Absent
        <5>3. QED
          BY <5>2
      <4>2. CASE ~Release
        BY <2>4, <3>1, <4>2 DEF Finalize, MarkProcessing, Record, MarkFailed
      <4>3. QED
        BY <4>1, <4>2
    <3>3. obj'[d] = obj[d]
      BY <2>4, <3>1, <3>2 DEF Finalize, MarkProcessing, Record, MarkFailed, Release, Patch, TypeOK
    <3>4. QED
      BY <3>3
  <2>5. CASE MarkTerminating
    <3>1. key \in Dashboards
      BY <2>5 DEF MarkTerminating, TypeOK
    <3>2. CASE CanPatch(key)
      <4>1. [seen[key] EXCEPT !.phase = "Terminating"] \in Object
        BY <3>1 DEF TypeOK, Object, Phases
      <4>2. [seen[key] EXCEPT !.phase = "Terminating"].phase = "Terminating"
        BY <3>1 DEF TypeOK, Object
      <4>3. QED
        BY <2>5, <3>1, <3>2, <4>1, <4>2, PatchFrame DEF MarkTerminating
    <3>3. QED
      BY <2>5, <3>2 DEF MarkTerminating
  <2>6. QED
    BY <2>2, <2>3, <2>4, <2>5 DEF Next, User, Rebind, ToggleSecret, Informers, Deliver,
       DeliverBinding, Resync, Restart, Start, Step, Resolve, Push, ReadOrg, Cleanup,
       ApiFault, GrafanaFault, vars
<1>2. QED
  BY <1>1, DashboardTypeCorrect, FinalizerInvariant, PTL DEF Spec, TerminatingIsFinal

-----------------------------------------------------------------------------
(* What a step can do to one object, to its cached copy, to the worker, to   *)
(* Grafana and to the AppBindings.                                           *)

Edited(d) ==
  /\ obj[d].exists /\ ~obj[d].deleting
  /\ obj'[d] = [obj[d] EXCEPT !.generation = @ + 1]
  /\ UNCHANGED <<seen, pc, key, local, remote, binding>>

Doomed(d) ==
  /\ obj[d].exists /\ obj[d].finalizer
  /\ obj'[d] = [obj[d] EXCEPT !.deleting = TRUE]
  /\ UNCHANGED <<seen, pc, key, local, remote, binding>>

Gone(d) ==
  /\ obj[d].exists /\ obj'[d] = Absent
  /\ ~obj[d].finalizer \/ (pc = "release" /\ key = d)
  /\ UNCHANGED <<seen, remote, binding>>

Finalized(d) ==
  /\ pc = "finalize" /\ key = d /\ obj[d].exists
  /\ obj'[d] = [obj[d] EXCEPT !.finalizer = TRUE]
  /\ UNCHANGED <<seen, remote, binding>>

Made(d) ==
  /\ pc = "finalize" /\ key = d /\ ~seen[d].exists /\ ~obj[d].exists
  /\ obj'[d] = [Absent EXCEPT !.exists = TRUE, !.finalizer = TRUE,
                              !.generation = local.generation]
  /\ UNCHANGED <<seen, remote, binding>>

Patched(d) ==
  /\ pc \in {"mark", "record", "fail", "terminate"} /\ key = d /\ CanPatch(d)
  /\ obj'[d].exists /\ obj'[d].deleting = obj[d].deleting
  /\ obj'[d].finalizer = obj[d].finalizer /\ obj'[d].generation = obj[d].generation
  /\ obj'[d].observed \in {obj[d].observed, seen[d].generation}
  /\ pc = "record" => obj'[d].dashboard = IF target = seen[d].dashboard
                                          THEN obj[d].dashboard ELSE target
  /\ pc # "record" => obj'[d].dashboard = obj[d].dashboard
  /\ pc = "terminate" => obj'[d].phase \in {obj[d].phase, "Terminating"}
  /\ UNCHANGED <<seen, remote, binding>>

\* The fields a status patch writes.
LEMMA PatchFields ==
  ASSUME TypeOK, key \in Dashboards, NEW new \in Object, Patch(new)
  PROVE  /\ obj'[key].generation = obj[key].generation
         /\ obj'[key].observed = IF new.observed = seen[key].observed
                                 THEN obj[key].observed ELSE new.observed
         /\ obj'[key].dashboard = IF new.dashboard = seen[key].dashboard
                                  THEN obj[key].dashboard ELSE new.dashboard
<1>1. obj[key] \in Object
  BY DEF TypeOK
<1>2. obj'[key] = MergeStatus(obj[key], seen[key], new)
  BY DEF TypeOK, Patch
<1>3. QED
  BY <1>1, <1>2 DEF Object, MergeStatus

\* The statuses the worker writes.
LEMMA NewStatus ==
  ASSUME TypeOK, key \in Dashboards
  PROVE  LET mark == [seen[key] EXCEPT !.phase = "Processing"]
             ends == [seen[key] EXCEPT !.phase = "Terminating"]
             good == Success(seen[key], target)
             bad  == Failure(seen[key], observe)
         IN  /\ mark \in Object /\ mark.observed = seen[key].observed
             /\ mark.dashboard = seen[key].dashboard
             /\ ends \in Object /\ ends.observed = seen[key].observed
             /\ ends.dashboard = seen[key].dashboard /\ ends.phase = "Terminating"
             /\ good \in Object /\ good.observed = seen[key].generation /\ good.dashboard = target
             /\ bad \in Object /\ bad.observed \in {seen[key].observed, seen[key].generation}
             /\ bad.dashboard = seen[key].dashboard
<1>1. seen[key] \in Object /\ target \in Targets /\ observe \in BOOLEAN
  BY DEF TypeOK
<1>2. QED
  BY <1>1 DEF Object, Phases, Success, Failure

LEMMA PatchSteps ==
  ASSUME TypeOK, MarkProcessing \/ Record \/ MarkFailed \/ MarkTerminating
  PROVE  /\ key \in Dashboards
         /\ obj' = obj \/ Patched(key)
         /\ \A d \in Dashboards \ {key} : obj'[d] = obj[d]
<1> DEFINE Frames(new) ==
             /\ \A d \in Dashboards \ {key} : obj'[d] = obj[d]
             /\ obj'[key].exists = obj[key].exists
             /\ obj'[key].deleting = obj[key].deleting
             /\ obj'[key].finalizer = obj[key].finalizer
             /\ obj'[key].phase = obj[key].phase \/ obj'[key].phase = new.phase
             /\ obj'[key].generation = obj[key].generation
             /\ obj'[key].observed = IF new.observed = seen[key].observed
                                     THEN obj[key].observed ELSE new.observed
             /\ obj'[key].dashboard = IF new.dashboard = seen[key].dashboard
                                      THEN obj[key].dashboard ELSE new.dashboard
<1>1. key \in Dashboards
  BY DEF MarkProcessing, Record, MarkFailed, MarkTerminating, TypeOK
<1>2. UNCHANGED <<seen, remote, binding>>
  BY DEF MarkProcessing, Record, MarkFailed, MarkTerminating, userVars
<1>3. CASE obj' = obj
  BY <1>1, <1>3
<1>4. CASE CanPatch(key)
  <2>1. obj[key].exists
    BY <1>4 DEF CanPatch
  <2>2. CASE MarkProcessing
    <3>1. pc = "mark" /\ Patch([seen[key] EXCEPT !.phase = "Processing"])
      BY <1>4, <2>2 DEF MarkProcessing
    <3>2. [seen[key] EXCEPT !.phase = "Processing"] \in Object
      BY <1>1, NewStatus
    <3>3. Frames([seen[key] EXCEPT !.phase = "Processing"])
      BY <1>1, <3>1, <3>2, PatchFrame, PatchFields
    <3>4. QED
      BY <1>1, <1>2, <1>4, <2>1, <3>1, <3>3, NewStatus DEF Patched
  <2>3. CASE Record
    <3>1. pc = "record" /\ Patch(Success(seen[key], target))
      BY <1>4, <2>3 DEF Record
    <3>2. Success(seen[key], target) \in Object
      BY <1>1, NewStatus
    <3>3. Frames(Success(seen[key], target))
      BY <1>1, <3>1, <3>2, PatchFrame, PatchFields
    <3>4. QED
      BY <1>1, <1>2, <1>4, <2>1, <3>1, <3>3, NewStatus DEF Patched
  <2>4. CASE MarkFailed
    <3>1. pc = "fail" /\ Patch(Failure(seen[key], observe))
      BY <1>4, <2>4 DEF MarkFailed
    <3>2. Failure(seen[key], observe) \in Object
      BY <1>1, NewStatus
    <3>3. Frames(Failure(seen[key], observe))
      BY <1>1, <3>1, <3>2, PatchFrame, PatchFields
    <3>4. QED
      BY <1>1, <1>2, <1>4, <2>1, <3>1, <3>3, NewStatus DEF Patched
  <2>5. CASE MarkTerminating
    <3>1. pc = "terminate" /\ Patch([seen[key] EXCEPT !.phase = "Terminating"])
      BY <1>4, <2>5 DEF MarkTerminating
    <3>2. [seen[key] EXCEPT !.phase = "Terminating"] \in Object
      BY <1>1, NewStatus
    <3>3. Frames([seen[key] EXCEPT !.phase = "Terminating"])
      BY <1>1, <3>1, <3>2, PatchFrame, PatchFields
    <3>4. QED
      BY <1>1, <1>2, <1>4, <2>1, <3>1, <3>3, NewStatus DEF Patched
  <2>6. QED
    BY <2>2, <2>3, <2>4, <2>5
<1>5. QED
  BY <1>1, <1>3, <1>4 DEF MarkProcessing, Record, MarkFailed, MarkTerminating

\* An object changes by its user, by the worker that has its key, or not.
LEMMA ObjectSteps ==
  ASSUME TypeOK, FinalizerInv, [Next]_vars, NEW d \in Dashboards
  PROVE  \/ obj'[d] = obj[d]
         \/ Edited(d) \/ Doomed(d) \/ Gone(d) \/ Finalized(d) \/ Made(d) \/ Patched(d)
<1> USE DEF userVars, workerVars
<1>1. ASSUME NEW e \in Dashboards, EditSpec(e) PROVE obj'[d] = obj[d] \/ Edited(d)
  BY <1>1 DEF EditSpec, TypeOK, Edited
<1>2. ASSUME NEW e \in Dashboards, DeleteObject(e)
      PROVE  obj'[d] = obj[d] \/ Doomed(d) \/ Gone(d)
  <2>1. CASE e = d /\ obj[d].finalizer
    BY <1>2, <2>1 DEF DeleteObject, TypeOK, Doomed
  <2>2. CASE e = d /\ ~obj[d].finalizer
    BY <1>2, <2>2 DEF DeleteObject, TypeOK, Gone
  <2>3. CASE e # d
    BY <1>2, <2>3 DEF DeleteObject, TypeOK
  <2>4. QED
    BY <2>1, <2>2, <2>3
<1>3. CASE Finalize
  <2>1. key \in Dashboards /\ pc = "finalize" /\ UNCHANGED <<seen, remote, binding>>
    BY <1>3 DEF Finalize, TypeOK
  <2>2. CASE d # key
    BY <1>3, <2>1, <2>2 DEF Finalize, TypeOK
  <2>3. CASE d = key
    BY <1>3, <2>1, <2>3 DEF Finalize, TypeOK, Finalized, Made, CanPatch
  <2>4. QED
    BY <2>2, <2>3
<1>4. CASE MarkProcessing \/ Record \/ MarkFailed \/ MarkTerminating
  BY <1>4, PatchSteps
<1>5. CASE Release
  <2>1. key \in Dashboards /\ pc = "release" /\ UNCHANGED <<seen, remote, binding>>
    BY <1>5 DEF Release, TypeOK
  <2>2. CASE d # key \/ obj' = obj
    BY <1>5, <2>1, <2>2 DEF Release, TypeOK
  <2>3. CASE d = key /\ obj' # obj
    <3>1. obj[d].deleting /\ obj'[d] = Absent
      BY <1>5, <2>1, <2>3 DEF Release, TypeOK
    <3>2. CASE obj[d].exists
      BY <2>1, <2>3, <3>1, <3>2 DEF Gone
    <3>3. QED
      BY <2>3, <3>1, <3>2 DEF FinalizerInv
  <2>4. QED
    BY <2>2, <2>3
<1>6. CASE UNCHANGED obj
  BY <1>6
<1>7. QED
  BY <1>1, <1>2, <1>3, <1>4, <1>5, <1>6
     DEF Next, User, Informers, Step, Rebind, ToggleSecret, Deliver, DeliverBinding, Resync,
         Restart, Start, Resolve, Push, ReadOrg, Cleanup, ApiFault, GrafanaFault, vars

\* The cache takes over what the API server has, or stays.
LEMMA CacheSteps ==
  ASSUME TypeOK, [Next]_vars, NEW d \in Dashboards
  PROVE  seen'[d] = seen[d] \/ (seen'[d] = obj[d] /\ UNCHANGED <<obj, remote, binding>>)
<1> USE DEF userVars, workerVars
<1>1. ASSUME NEW e \in Dashboards, Deliver(e)
      PROVE  seen'[d] = seen[d] \/ (seen'[d] = obj[d] /\ UNCHANGED <<obj, remote, binding>>)
  BY <1>1 DEF Deliver, TypeOK
<1>2. CASE Restart
  BY <1>2 DEF Restart
<1>3. CASE UNCHANGED seen
  BY <1>3
<1>4. QED
  BY <1>1, <1>2, <1>3
     DEF Next, User, Informers, Step, EditSpec, DeleteObject, Rebind, ToggleSecret, DeliverBinding,
         Resync, Start, Finalize, MarkProcessing, Resolve, Push, ReadOrg, Record, MarkFailed,
         MarkTerminating, Cleanup, Release, ApiFault, GrafanaFault, vars

-----------------------------------------------------------------------------
LEMMA AbsentFields ==
  /\ ~Absent.exists /\ Absent.generation = 0 /\ Absent.observed = 0
  /\ Absent.dashboard = NoGrafana /\ ~Absent.deleting
BY Zenon DEF Absent

LEMMA InitSync == Init => SyncInv /\ RestInv /\ TraceInv
<1> SUFFICES ASSUME Init PROVE SyncInv /\ RestInv /\ TraceInv
  OBVIOUS
<1> USE DashboardAssumption
<1>1. ASSUME NEW d \in Dashboards
      PROVE  /\ obj[d].exists /\ ~obj[d].deleting /\ obj[d].generation = 1
             /\ obj[d].observed = 0 /\ obj[d].dashboard = NoGrafana
             /\ seen[d] = Absent /\ ~seen[d].exists /\ seen[d].generation = 0
             /\ seen[d].dashboard = NoGrafana
             /\ bound[Ref[d]] = binding[Ref[d]] /\ secret[Ref[d]]
             /\ \A g \in Grafanas : remote[g][d] = 0
  <2>1. /\ obj[d] = [Absent EXCEPT !.exists = TRUE, !.generation = 1] /\ seen[d] = Absent
        /\ bound[Ref[d]] = binding[Ref[d]] /\ secret[Ref[d]]
        /\ \A g \in Grafanas : remote[g][d] = 0
    BY <1>1 DEF Init
  <2>2. Absent \in [exists : BOOLEAN, deleting : BOOLEAN, finalizer : BOOLEAN, generation : Nat,
                    observed : Nat, phase : Phases, dashboard : Targets]
    BY DEF Absent, Phases, Targets
  <2>3. QED
    BY <2>1, <2>2, AbsentFields
<1>2. pc = "idle" /\ key = NoKey /\ target = NoGrafana
  BY DEF Init
<1>3. \A d \in Dashboards : key # d
  BY <1>2
<1>4. \A d \in Dashboards : CopyInv(d)
  <2>1. ASSUME NEW d \in Dashboards PROVE CopyInv(d)
    BY <1>1, <2>1 DEF CopyInv
  <2>2. QED
    BY <2>1
<1>5. \A d \in Dashboards : MoveInv(d)
  BY <1>1, <1>3 DEF MoveInv
<1>6. WorkInv
  BY <1>2 DEF WorkInv, Syncing
<1>7. RestInv
  <2>1. ASSUME NEW d \in Dashboards PROVE obj[d].observed # obj[d].generation
    <3>1. obj[d].observed = 0 /\ obj[d].generation = 1
      BY <1>1, <2>1
    <3>2. QED
      BY <3>1
  <2>2. QED
    BY <2>1 DEF RestInv
<1>8. TraceInv
  BY <1>1, <1>2 DEF TraceInv
<1>9. QED
  BY <1>4, <1>5, <1>6, <1>7, <1>8 DEF SyncInv

\* The cache stays behind the same life of the object.
LEMMA NextCopy ==
  ASSUME TypeOK, TypeOK', FinalizerInv, SyncInv, [Next]_vars, NEW d \in Dashboards
  PROVE  CopyInv(d)'
<1>1. /\ CopyInv(d) /\ WorkInv
      /\ obj[d] \in Object /\ seen[d] \in Object /\ obj'[d] \in Object /\ seen'[d] \in Object
  BY DEF SyncInv, TypeOK
<1>2. CASE obj'[d] = obj[d] /\ seen'[d] = seen[d]
  BY <1>1, <1>2 DEF CopyInv
<1>3. CASE obj'[d] = obj[d] /\ seen'[d] = obj[d]
  BY <1>1, <1>3 DEF CopyInv, Object
<1>4. CASE obj'[d] # obj[d] /\ seen'[d] = seen[d]
  <2>1. CASE Edited(d)
    BY <1>1, <1>4, <2>1 DEF CopyInv, Object, Edited
  <2>2. CASE Doomed(d)
    BY <1>1, <1>4, <2>2 DEF CopyInv, Object, Doomed
  <2>3. CASE Gone(d)
    <3>1. obj'[d] = Absent /\ ~obj'[d].exists /\ obj'[d].observed = 0 /\ obj'[d].generation = 0
      BY <2>3, AbsentFields DEF Gone
    <3>2. QED
      BY <1>1, <1>4, <3>1 DEF CopyInv
  <2>4. CASE Finalized(d)
    BY <1>1, <1>4, <2>4 DEF CopyInv, Object, Finalized
  <2>5. CASE Made(d)
    <3>1. local.generation # 0
      BY <1>1, <2>5 DEF Made, WorkInv
    <3>2. /\ obj'[d].exists /\ obj'[d].generation = local.generation
          /\ obj'[d].observed = 0 /\ ~seen[d].exists /\ local.generation \in Nat
      BY <2>5 DEF Made, Absent, TypeOK, Object
    <3>3. QED
      BY <1>1, <1>4, <3>1, <3>2 DEF CopyInv, Object
  <2>6. CASE Patched(d)
    <3>1. seen[d].exists /\ obj[d].exists /\ obj'[d].exists
      BY <2>6 DEF Patched, CanPatch
    <3>2. pc = "record" => target # NoGrafana
      BY <1>1 DEF WorkInv
    <3>3. seen[d].phase = "Terminating" => pc = "terminate"
      BY <1>1, <2>6, <3>1 DEF CopyInv, FinalizerInv, Patched, Ending
    <3>4. seen[d].dashboard # NoGrafana => obj'[d].dashboard # NoGrafana
      BY <1>1, <2>6, <3>1, <3>2 DEF CopyInv, Patched
    <3>5. seen[d].phase = "Terminating" => /\ obj'[d].phase = "Terminating"
                                           /\ obj'[d].dashboard = seen[d].dashboard
      BY <1>1, <2>6, <3>1, <3>3 DEF CopyInv, Patched
    <3>6. /\ obj'[d].generation = obj[d].generation
          /\ obj'[d].observed \in {obj[d].observed, seen[d].generation}
      BY <2>6 DEF Patched
    <3>7. /\ obj'[d].observed <= seen[d].generation
          /\ obj'[d].observed <= obj'[d].generation
      BY <1>1, <3>1, <3>6 DEF CopyInv, Object
    <3>8. QED
      BY <1>1, <1>4, <3>1, <3>4, <3>5, <3>6, <3>7 DEF CopyInv
  <2>7. QED
    BY <1>4, <2>1, <2>2, <2>3, <2>4, <2>5, <2>6, ObjectSteps
<1>5. QED
  BY <1>2, <1>3, <1>4, CacheSteps

\* What a returning worker leaves behind satisfies WorkInv.
LEMMA IdleWork == pc' = "idle" /\ target' = NoGrafana => WorkInv'
BY DEF WorkInv, Syncing

\* Reconcile's copy is the object it has just written.
LEMMA FreshWork ==
  ASSUME TypeOK, TypeOK', CopyInv(key)', key \in Dashboards, key' = key,
         obj'[key].exists, local' = obj'[key],
         pc' = "mark" \/ (pc' = "resolve" /\ seen'[key].exists) \/ pc' = "cleanup"
  PROVE  WorkInv'
<1>1. obj'[key] \in Object /\ seen'[key] \in Object
  BY DEF TypeOK
<1>2. obj'[key].generation # 0 /\ ~(obj'[key].generation < seen'[key].generation)
  <2>1. CASE seen'[key].exists
    BY <1>1, <2>1 DEF CopyInv, Object
  <2>2. CASE ~seen'[key].exists
    <3>1. seen'[key].generation = 0
      BY <2>2, AbsentFields DEF CopyInv
    <3>2. QED
      BY <1>1, <3>1 DEF CopyInv, Object
  <2>3. QED
    BY <2>1, <2>2
<1>3. obj'[key].generation <= obj'[key].generation
  BY <1>1 DEF Object
<1>4. QED
  BY <1>2, <1>3 DEF WorkInv, Syncing

\* Users and informers leave the worker alone; what the cache learns of an
\* edit goes on the queue.
LEMMA OutsideWork ==
  ASSUME TypeOK, TypeOK', FinalizerInv, SyncInv,
         UNCHANGED <<pc, key, local, target>>,
         \/ \E d \in Dashboards : EditSpec(d) \/ DeleteObject(d) \/ Deliver(d)
         \/ \E b \in Bindings : Rebind(b) \/ ToggleSecret(b) \/ DeliverBinding(b)
         \/ Resync \/ UNCHANGED vars
  PROVE  WorkInv'
<1> USE DEF Syncing
<1>0. WorkInv /\ queue \subseteq queue'
  BY DEF SyncInv, EditSpec, DeleteObject, Deliver, Rebind, ToggleSecret, DeliverBinding, Resync, vars
<1>1. CASE pc = "idle"
  BY <1>0, <1>1, IdleWork DEF WorkInv
<1>2. CASE UNCHANGED <<obj, seen>>
  BY <1>0, <1>2 DEF WorkInv
<1>3. ASSUME NEW d \in Dashboards, EditSpec(d) \/ DeleteObject(d), key \in Dashboards
      PROVE  WorkInv'
  <2>1. UNCHANGED seen
    BY <1>3 DEF EditSpec, DeleteObject
  <2>2. key # d => obj'[key] = obj[key]
    BY <1>3 DEF EditSpec, DeleteObject, TypeOK
  <2>3. obj'[d].exists => /\ obj[d].exists /\ obj'[d].dashboard = obj[d].dashboard
                          /\ obj[d].generation <= obj'[d].generation
    <3>1. CASE EditSpec(d)
      BY <3>1 DEF EditSpec, TypeOK, Object
    <3>2. CASE DeleteObject(d)
      BY <3>2, AbsentFields DEF DeleteObject, TypeOK, Object
    <3>3. QED
      BY <1>3, <3>1, <3>2
  <2>4. /\ local.generation \in Nat /\ obj[d].generation \in Nat /\ obj'[d].generation \in Nat
    BY DEF TypeOK, Object
  <2>5. CASE key = d
    BY <1>0, <2>1, <2>3, <2>4, <2>5 DEF WorkInv
  <2>6. CASE key # d
    BY <1>0, <2>1, <2>2, <2>6 DEF WorkInv
  <2>7. QED
    BY <2>5, <2>6
<1>4. ASSUME NEW d \in Dashboards, Deliver(d), key \in Dashboards PROVE WorkInv'
  <2>1. UNCHANGED obj /\ seen'[d] = obj[d] /\ (key # d => seen'[key] = seen[key])
    BY <1>4 DEF Deliver, TypeOK
  <2>2. CASE key # d
    BY <1>0, <2>1, <2>2 DEF WorkInv
  <2>3. CASE key = d
    <3>1. CopyInv(d) /\ obj[d] \in Object /\ seen[d] \in Object /\ local \in Object
      BY DEF SyncInv, TypeOK
    <3>2. ASSUME pc \in Syncing \cup {"finalize"}, local.generation < obj[d].generation
          PROVE  d \in queue'
      <4>1. obj[d].exists
        BY <3>1, <3>2, AbsentFields DEF CopyInv, Object
      <4>2. local.generation < seen[d].generation => d \in queue
        BY <1>0, <2>3, <3>2 DEF WorkInv
      <4>3. obj[d].observed <= seen[d].generation
        BY <3>1, <4>1 DEF CopyInv
      <4>4. CASE obj[d].observed # obj[d].generation
        BY <1>4, <4>1, <4>4 DEF Deliver, Filter
      <4>5. CASE obj[d].observed = obj[d].generation
        BY <1>0, <3>1, <3>2, <4>2, <4>3, <4>5 DEF Object
      <4>6. QED
        BY <4>4, <4>5
    <3>3. pc \in Syncing => obj[d].exists
      BY <2>3 DEF FinalizerInv
    <3>4. QED
      BY <1>0, <2>1, <2>3, <3>2, <3>3 DEF WorkInv
  <2>4. QED
    BY <2>2, <2>3
<1>5. pc # "idle" => key \in Dashboards
  BY DEF TypeOK
<1>6. QED
  BY <1>1, <1>2, <1>3, <1>4, <1>5 DEF Rebind, ToggleSecret, DeliverBinding, Resync, vars

LEMMA NextWork ==
  ASSUME TypeOK, TypeOK', FinalizerInv, SyncInv, [Next]_vars
  PROVE  WorkInv'
<1> USE DashboardAssumption
<1>0. WorkInv /\ \A d \in Dashboards : CopyInv(d) /\ CopyInv(d)'
  BY NextCopy DEF SyncInv
<1>1. ASSUME NEW d \in Dashboards, EditSpec(d) \/ DeleteObject(d) \/ Deliver(d) PROVE WorkInv'
  <2>1. UNCHANGED <<pc, key, local, target>>
    BY <1>1 DEF EditSpec, DeleteObject, Deliver, workerVars
  <2>2. QED
    BY <1>1, <2>1, OutsideWork
<1>2. ASSUME NEW b \in Bindings, Rebind(b) \/ ToggleSecret(b) \/ DeliverBinding(b) PROVE WorkInv'
  <2>1. UNCHANGED <<pc, key, local, target>>
    BY <1>2 DEF Rebind, ToggleSecret, DeliverBinding, workerVars
  <2>2. QED
    BY <1>2, <2>1, OutsideWork
<1>3. CASE Resync \/ UNCHANGED vars
  <2>1. UNCHANGED <<pc, key, local, target>>
    BY <1>3 DEF Resync, workerVars, vars
  <2>2. QED
    BY <1>3, <2>1, OutsideWork
<1>4. CASE Restart
  BY <1>4, IdleWork DEF Restart
<1>5. ASSUME NEW d \in Dashboards, Start(d) PROVE WorkInv'
  <2>1. /\ pc = "idle" /\ target' = target /\ UNCHANGED <<obj, seen>>
        /\ obj[d] \in Object /\ seen[d] \in Object /\ CopyInv(d)
    BY <1>0, <1>5 DEF Start, workerVars, TypeOK
  <2>2. target' = NoGrafana
    BY <1>0, <2>1 DEF WorkInv
  <2>3. CASE ~seen[d].exists
    <3>1. pc' = "idle"
      BY <1>5, <2>1, <2>3 DEF Start, workerVars
    <3>2. QED
      BY <2>2, <3>1, IdleWork
  <2>4. CASE seen[d].exists
    <3>1. key' = d /\ local' = seen[d] /\ pc' = FirstStep(seen[d])
      BY <1>5, <2>4 DEF Start
    <3>2. /\ pc' \in {"finalize", "mark", "resolve", "terminate", "cleanup"}
          /\ pc' = "cleanup" => seen[d].phase = "Terminating"
      BY <3>1 DEF FirstStep, ActiveStep
    <3>3. /\ seen[d].generation # 0 /\ ~(seen[d].generation < seen[d].generation)
          /\ obj[d].exists => seen[d].generation <= obj[d].generation
          /\ obj[d].exists /\ pc' = "cleanup" => obj[d].dashboard = seen[d].dashboard
      BY <2>1, <2>4, <3>2 DEF CopyInv, Object
    <3>4. QED
      BY <2>1, <2>4, <3>1, <3>2, <3>3 DEF WorkInv, Syncing
  <2>5. QED
    BY <2>3, <2>4
<1>6. CASE Finalize
  <2>1. key \in Dashboards /\ UNCHANGED seen /\ pc = "finalize"
    BY <1>6 DEF Finalize, TypeOK
  <2>2. CASE CanPatch(key) /\ obj' = [obj EXCEPT ![key].finalizer = TRUE]
             /\ Goto(ActiveStep(obj'[key]), obj'[key])
    <3>1. obj'[key].exists /\ obj'[key].finalizer
      BY <2>1, <2>2 DEF CanPatch, TypeOK, Object
    <3>2. pc' \in {"mark", "resolve"} /\ key' = key /\ local' = obj'[key]
      BY <2>2, <3>1 DEF Goto, ActiveStep
    <3>3. seen'[key].exists
      BY <2>1, <2>2 DEF CanPatch
    <3>4. QED
      BY <1>0, <2>1, <3>1, <3>2, <3>3, FreshWork
  <2>3. CASE /\ obj' = [obj EXCEPT ![key] = [Absent EXCEPT !.exists = TRUE, !.finalizer = TRUE,
                                                 !.generation = local.generation]]
             /\ Goto("mark", obj'[key])
    <3>1. obj'[key].exists
      BY <2>1, <2>3 DEF Absent, TypeOK
    <3>2. pc' = "mark" /\ key' = key /\ local' = obj'[key]
      BY <2>3 DEF Goto
    <3>3. QED
      BY <1>0, <2>1, <3>1, <3>2, FreshWork
  <2>4. CASE Return(TRUE)
    BY <2>4, IdleWork DEF Return
  <2>5. QED
    BY <1>6, <2>2, <2>3, <2>4 DEF Finalize
<1>7. CASE MarkProcessing \/ MarkTerminating
  <2>1. key \in Dashboards /\ UNCHANGED seen
    BY <1>7 DEF MarkProcessing, MarkTerminating, TypeOK
  <2>2. CASE CanPatch(key)
    <3>1. obj'[key].exists
      <4>1. obj' = obj \/ Patched(key)
        BY <1>7, PatchSteps
      <4>2. QED
        BY <2>2, <4>1 DEF CanPatch, Patched
    <3>2. pc' \in {"resolve", "cleanup"} /\ key' = key /\ local' = obj'[key]
      BY <1>7, <2>2 DEF MarkProcessing, MarkTerminating, Goto
    <3>3. seen'[key].exists
      BY <2>1, <2>2 DEF CanPatch
    <3>4. QED
      BY <1>0, <2>1, <3>1, <3>2, <3>3, FreshWork
  <2>3. CASE ~CanPatch(key)
    BY <1>7, <2>3, IdleWork DEF MarkProcessing, MarkTerminating, Return
  <2>4. QED
    BY <2>2, <2>3
<1>8. CASE Resolve \/ Push \/ ReadOrg \/ (GrafanaFault /\ pc # "cleanup")
  <2>1. /\ UNCHANGED <<obj, seen, queue, key, local>>
        /\ pc \in {"resolve", "push", "org"}
        /\ pc' \in {"push", "org", "record", "fail"}
        /\ pc' \in {"push", "org", "record"} => target' # NoGrafana
    BY <1>0, <1>8 DEF WorkInv, Resolve, Push, ReadOrg, GrafanaFault, Goto, Fail
  <2>2. QED
    BY <1>0, <2>1 DEF WorkInv, Syncing
<1>9. CASE \/ Record \/ MarkFailed \/ Release \/ ApiFault
           \/ (GrafanaFault /\ pc = "cleanup")
  <2>1. Return(TRUE) \/ Return(FALSE)
    BY <1>9 DEF Record, MarkFailed, Release, ApiFault, GrafanaFault
  <2>2. QED
    BY <2>1, IdleWork DEF Return
<1>10. CASE Cleanup
  <2>1. pc' = "release"
    BY <1>10 DEF Cleanup, Goto
  <2>2. QED
    BY <2>1 DEF WorkInv, Syncing
<1>11. QED
  BY <1>1, <1>2, <1>3, <1>4, <1>5, <1>6, <1>7, <1>8, <1>9, <1>10
     DEF Next, User, Informers, Step

\* A step that records no Grafana, aims at none and changes no AppBinding.
LEMMA MoveFrame ==
  ASSUME NEW d \in Dashboards, MoveInv(d), UNCHANGED <<binding, secret, rebinds>>,
         bound'[Ref[d]] \in {bound[Ref[d]], binding[Ref[d]]},
         seen'[d] = seen[d] \/ (seen'[d] = obj[d] /\ obj'[d] = obj[d]),
         obj'[d].dashboard \in {obj[d].dashboard, NoGrafana},
         obj'[d].exists => \/ obj[d].exists /\ obj'[d].dashboard = obj[d].dashboard
                           \/ seen[d].dashboard = NoGrafana,
         \/ key' # d
         \/ UNCHANGED <<pc, key, local, target, remote>>
         \/ /\ pc' \notin {"push", "org", "record"}
            /\ (key = d /\ target' = target) \/ target' = NoGrafana
  PROVE  MoveInv(d)'
<1> DEFINE g == binding[Ref[d]]
<1>1. rebinds' = rebinds /\ binding'[Ref[d]] = g /\ secret'[Ref[d]] = secret[Ref[d]]
  OBVIOUS
<1>2. ASSUME rebinds = 0
      PROVE  /\ bound'[Ref[d]] = g /\ secret'[Ref[d]]
             /\ obj'[d].dashboard \in {NoGrafana, g} /\ seen'[d].dashboard \in {NoGrafana, g}
             /\ key' = d => target' \in {NoGrafana, g}
  BY <1>1, <1>2 DEF MoveInv
<1>3. ASSUME rebinds <= 1, g # NoGrafana
      PROVE  /\ bound'[Ref[d]] # g => /\ obj'[d].dashboard # g /\ seen'[d].dashboard # g
                                      /\ key' = d => target' # g
             /\ seen'[d].dashboard = g /\ obj'[d].exists => obj'[d].dashboard = g
             /\ key' = d /\ pc' \in {"push", "org", "record"} /\ obj'[d].dashboard = g => target' = g
             /\ key' = d /\ pc' \in {"org", "record"} /\ target' = g
                   => remote'[g][d] = local'.generation
  <2>1. bound'[Ref[d]] # g => bound[Ref[d]] # g
    OBVIOUS
  <2>2. obj'[d].dashboard = g => obj[d].dashboard = g
    BY <1>3
  <2>3. bound'[Ref[d]] # g => /\ obj'[d].dashboard # g /\ seen'[d].dashboard # g
                              /\ key' = d => target' # g
    BY <1>3, <2>1, <2>2 DEF MoveInv
  <2>4. seen'[d].dashboard = g /\ obj'[d].exists => obj'[d].dashboard = g
    BY <1>3 DEF MoveInv
  <2>5. QED
    BY <1>3, <2>2, <2>3, <2>4 DEF MoveInv
<1>4. QED
  BY <1>1, <1>2, <1>3 DEF MoveInv

\* The first change of an AppBinding finds nobody who has seen it.
LEMMA MoveBinding ==
  ASSUME TypeOK, SyncInv, NEW d \in Dashboards,
         NEW b \in Bindings, Rebind(b) \/ ToggleSecret(b)
  PROVE  MoveInv(d)'
<1> DEFINE g == binding[Ref[d]]
           h == binding'[Ref[d]]
<1>1. MoveInv(d) /\ rebinds \in Nat /\ rebinds' = rebinds + 1
  BY DEF SyncInv, TypeOK, Rebind, ToggleSecret
<1>2. UNCHANGED <<obj, seen, bound, remote, pc, key, local, target>>
  BY DEF Rebind, ToggleSecret, workerVars
<1>3. rebinds' # 0 /\ (rebinds' <= 1 => rebinds = 0)
  BY <1>1
<1>4. SUFFICES ASSUME rebinds = 0, h # NoGrafana
               PROVE  /\ bound[Ref[d]] # h => /\ obj[d].dashboard # h /\ seen[d].dashboard # h
                                              /\ key = d => target # h
                      /\ seen[d].dashboard = h /\ obj[d].exists => obj[d].dashboard = h
                      /\ key = d /\ pc \in {"push", "org", "record"} /\ obj[d].dashboard = h
                            => target = h
                      /\ key = d /\ pc \in {"org", "record"} /\ target = h
                            => remote[h][d] = local.generation
  BY <1>2, <1>3 DEF MoveInv
<1>5. 0 <= 1
  OBVIOUS
<1>6. CASE h = g
  BY <1>1, <1>4, <1>5, <1>6 DEF MoveInv
<1>7. CASE h # g
  BY <1>1, <1>4, <1>7 DEF MoveInv
<1>8. QED
  BY <1>6, <1>7

LEMMA NextMove ==
  ASSUME TypeOK, TypeOK', FinalizerInv, SyncInv, [Next]_vars, NEW d \in Dashboards
  PROVE  MoveInv(d)'
<1> USE DashboardAssumption DEF userVars, workerVars
<1>0. /\ MoveInv(d) /\ CopyInv(d) /\ WorkInv /\ Ref[d] \in Bindings
      /\ obj[d] \in Object /\ obj'[d] \in Object
  BY DEF SyncInv, TypeOK
<1>1. ASSUME NEW b \in Bindings, Rebind(b) \/ ToggleSecret(b) PROVE MoveInv(d)'
  BY <1>1, MoveBinding
<1>2. ASSUME NEW b \in Bindings, DeliverBinding(b) PROVE MoveInv(d)'
  <2>1. UNCHANGED <<binding, secret, rebinds, obj, seen, pc, key, local, target, remote>>
    BY <1>2 DEF DeliverBinding
  <2>2. bound'[Ref[d]] \in {bound[Ref[d]], binding[Ref[d]]}
    BY <1>0, <1>2 DEF DeliverBinding, TypeOK
  <2>3. QED
    BY <1>0, <2>1, <2>2, MoveFrame
<1>3. CASE Restart
  <2>1. /\ UNCHANGED <<binding, secret, rebinds, obj, remote>>
        /\ bound' = binding /\ seen' = obj /\ key' = NoKey
    BY <1>3 DEF Restart
  <2>2. key' # d
    BY <2>1
  <2>3. QED
    BY <1>0, <2>1, <2>2, MoveFrame
<1>4. ASSUME NEW e \in Dashboards, EditSpec(e) \/ DeleteObject(e) PROVE MoveInv(d)'
  <2>1. UNCHANGED <<binding, secret, rebinds, bound, seen, pc, key, local, target, remote>>
    BY <1>4 DEF EditSpec, DeleteObject
  <2>2. obj'[d] = obj[d] \/ obj'[d] = Absent
        \/ obj'[d] = [obj[d] EXCEPT !.generation = @ + 1]
        \/ obj'[d] = [obj[d] EXCEPT !.deleting = TRUE]
    BY <1>4 DEF EditSpec, DeleteObject, TypeOK
  <2>3. /\ obj'[d].dashboard \in {obj[d].dashboard, NoGrafana}
        /\ obj'[d].exists => obj[d].exists /\ obj'[d].dashboard = obj[d].dashboard
    BY <1>0, <2>2, AbsentFields DEF Object
  <2>4. QED
    BY <1>0, <2>1, <2>3, MoveFrame
<1>5. ASSUME NEW e \in Dashboards, Deliver(e) PROVE MoveInv(d)'
  <2>1. UNCHANGED <<binding, secret, rebinds, bound, obj, pc, key, local, target, remote>>
    BY <1>5 DEF Deliver
  <2>2. seen'[d] = seen[d] \/ seen'[d] = obj[d]
    BY <1>5 DEF Deliver, TypeOK
  <2>3. QED
    BY <1>0, <2>1, <2>2, MoveFrame
<1>6. ASSUME NEW e \in Dashboards, Start(e) PROVE MoveInv(d)'
  <2>1. /\ UNCHANGED <<binding, secret, rebinds, bound, obj, seen, target, remote>>
        /\ pc = "idle"
    BY <1>6 DEF Start
  <2>2. target' = NoGrafana
    BY <1>0, <2>1 DEF WorkInv
  <2>3. pc' \notin {"push", "org", "record"}
    BY <1>6 DEF Start, FirstStep, ActiveStep
  <2>4. QED
    BY <1>0, <2>1, <2>2, <2>3, MoveFrame
<1>7. CASE Finalize
  <2>1. /\ UNCHANGED <<binding, secret, rebinds, bound, seen, remote>>
        /\ key \in Dashboards /\ pc = "finalize"
    BY <1>7 DEF Finalize, TypeOK
  <2>2. key' = NoKey \/ (key' = key /\ target' = target /\ pc' \in {"mark", "resolve", "finalize"})
    BY <1>7 DEF Finalize, Goto, Return, ActiveStep
  <2>3. \/ obj'[d] = obj[d] \/ obj'[d] = [obj[d] EXCEPT !.finalizer = TRUE]
        \/ ~seen[d].exists /\ obj'[d] = [Absent EXCEPT !.exists = TRUE, !.finalizer = TRUE,
                                                       !.generation = local.generation]
    <3>1. ASSUME NEW o, obj' = [obj EXCEPT ![key] = o]
          PROVE  obj'[d] = obj[d] \/ (key = d /\ obj'[d] = o)
      BY <2>1, <3>1 DEF TypeOK
    <3>2. CASE obj' = [obj EXCEPT ![key].finalizer = TRUE]
      BY <2>1, <3>2 DEF TypeOK
    <3>3. CASE /\ ~seen[key].exists
               /\ obj' = [obj EXCEPT ![key] = [Absent EXCEPT !.exists = TRUE, !.finalizer = TRUE,
                                                   !.generation = local.generation]]
      BY <3>1, <3>3
    <3>4. CASE obj' = obj
      BY <3>4
    <3>5. QED
      BY <1>7, <3>2, <3>3, <3>4 DEF Finalize
  <2>4. /\ obj'[d].dashboard \in {obj[d].dashboard, NoGrafana}
        /\ obj'[d].exists => \/ obj[d].exists /\ obj'[d].dashboard = obj[d].dashboard
                             \/ seen[d].dashboard = NoGrafana
    <3>1. CASE ~seen[d].exists /\ obj'[d] = [Absent EXCEPT !.exists = TRUE, !.finalizer = TRUE,
                                                       !.generation = local.generation]
      <4>1. obj'[d].dashboard = NoGrafana
        BY <3>1 DEF Absent
      <4>2. seen[d].dashboard = NoGrafana
        BY <1>0, <3>1, AbsentFields DEF CopyInv
      <4>3. QED
        BY <4>1, <4>2
    <3>2. CASE obj'[d] = obj[d] \/ obj'[d] = [obj[d] EXCEPT !.finalizer = TRUE]
      BY <1>0, <3>2 DEF Object
    <3>3. QED
      BY <2>3, <3>1, <3>2
  <2>5. \/ key' # d
        \/ pc' \notin {"push", "org", "record"} /\ key = d /\ target' = target
    BY <2>1, <2>2
  <2>6. QED
    BY <1>0, <2>1, <2>4, <2>5, MoveFrame
<1>8. CASE MarkProcessing \/ MarkTerminating \/ MarkFailed
  <2>1. /\ UNCHANGED <<binding, secret, rebinds, bound, seen, remote>>
        /\ pc # "record"
    BY <1>8 DEF MarkProcessing, MarkTerminating, MarkFailed
  <2>2. obj'[d] = obj[d] \/ (Patched(d) /\ key = d)
    BY <1>8, PatchSteps
  <2>3. obj'[d].dashboard = obj[d].dashboard /\ (obj'[d].exists => obj[d].exists)
    BY <2>1, <2>2 DEF Patched, CanPatch
  <2>4. key' = NoKey \/ (key' = key /\ target' = target /\ pc' \in {"resolve", "cleanup"})
    BY <1>8 DEF MarkProcessing, MarkTerminating, MarkFailed, Goto, Return
  <2>5. \/ key' # d
        \/ pc' \notin {"push", "org", "record"} /\ key = d /\ target' = target
    BY <2>4
  <2>6. QED
    BY <1>0, <2>1, <2>3, <2>5, MoveFrame
<1>9. CASE Record
  <2>1. /\ UNCHANGED <<binding, secret, rebinds, bound, seen, remote>>
        /\ pc = "record" /\ key' = NoKey
    BY <1>9 DEF Record, Return
  <2>2. key' # d
    BY <2>1
  <2>3. obj'[d] = obj[d] \/ (Patched(d) /\ key = d)
    BY <1>9, PatchSteps
  <2>4. CASE obj'[d] = obj[d]
    BY <1>0, <2>1, <2>2, <2>4, MoveFrame
  <2>5. CASE Patched(d) /\ key = d
    <3>1. obj[d].exists /\ obj'[d].dashboard \in {obj[d].dashboard, target}
      BY <2>1, <2>5 DEF Patched, CanPatch
    <3>2. rebinds = 0 => /\ bound[Ref[d]] = binding[Ref[d]] /\ secret[Ref[d]]
                         /\ obj'[d].dashboard \in {NoGrafana, binding[Ref[d]]}
                         /\ seen[d].dashboard \in {NoGrafana, binding[Ref[d]]}
      BY <1>0, <2>5, <3>1 DEF MoveInv
    <3>3. ASSUME rebinds <= 1, binding[Ref[d]] # NoGrafana
          PROVE  /\ bound[Ref[d]] # binding[Ref[d]] => /\ obj'[d].dashboard # binding[Ref[d]]
                                                       /\ seen[d].dashboard # binding[Ref[d]]
                 /\ seen[d].dashboard = binding[Ref[d]] => obj'[d].dashboard = binding[Ref[d]]
      <4>1. obj[d].dashboard = binding[Ref[d]] => target = binding[Ref[d]]
        BY <1>0, <2>1, <2>5, <3>3 DEF MoveInv
      <4>2. QED
        BY <1>0, <2>5, <3>1, <3>3, <4>1 DEF MoveInv
    <3>4. QED
      BY <2>1, <2>2, <3>2, <3>3 DEF MoveInv
  <2>6. QED
    BY <2>3, <2>4, <2>5
<1>10. CASE Resolve \/ Push \/ ReadOrg
  <2>1. /\ UNCHANGED <<binding, secret, rebinds, bound, obj, seen, key, local>>
        /\ pc \in {"resolve", "push", "org"}
    BY <1>10 DEF Resolve, Push, ReadOrg, Goto, Fail
  <2>2. CASE key # d
    BY <1>0, <2>1, <2>2, MoveFrame
  <2>3. CASE pc' = "fail" /\ target' = target /\ key = d
    BY <1>0, <2>1, <2>3, MoveFrame
  <2>4. CASE Resolve /\ pc' # "fail" /\ key = d
    <3>1. pc' = "push" /\ target' = bound[Ref[d]]
      BY <2>4 DEF Resolve, Fail
    <3>2. QED
      BY <1>0, <2>1, <2>4, <3>1 DEF MoveInv
  <2>5. CASE Push /\ pc' # "fail" /\ key = d
    <3>1. /\ pc = "push" /\ pc' = "org" /\ target' = target /\ bound[Ref[d]] # NoGrafana
          /\ remote' = [remote EXCEPT ![bound[Ref[d]]][d] = local.generation]
      BY <2>5 DEF Push, Fail, Goto
    <3>2. bound[Ref[d]] \in Grafanas
      BY <1>0, <3>1 DEF TypeOK, Targets
    <3>3. remote'[bound[Ref[d]]][d] = local.generation
      BY <3>1, <3>2 DEF TypeOK
    <3>4. QED
      BY <1>0, <2>1, <2>5, <3>1, <3>3 DEF MoveInv
  <2>6. CASE ReadOrg /\ key = d
    <3>1. pc = "org" /\ pc' = "record" /\ target' = target /\ remote' = remote
      BY <2>6 DEF ReadOrg, Goto
    <3>2. QED
      BY <1>0, <2>1, <2>6, <3>1 DEF MoveInv
  <2>7. Push /\ pc' = "fail" => target' = target
    BY DEF Push, Fail, Goto
  <2>8. Resolve /\ pc' = "fail" => target' = target
    BY DEF Resolve, Fail
  <2>9. QED
    BY <1>10, <2>2, <2>3, <2>4, <2>5, <2>6, <2>7, <2>8
<1>11. CASE Cleanup \/ GrafanaFault
  <2>1. UNCHANGED <<binding, secret, rebinds, bound, obj, seen>>
    BY <1>11 DEF Cleanup, GrafanaFault
  <2>2. key' = NoKey \/ (key' = key /\ target' = target /\ pc' \in {"release", "fail"})
    BY <1>11 DEF Cleanup, GrafanaFault, Goto, Fail, Return
  <2>3. \/ key' # d
        \/ pc' \notin {"push", "org", "record"} /\ key = d /\ target' = target
    BY <2>2
  <2>4. QED
    BY <1>0, <2>1, <2>3, MoveFrame
<1>12. CASE Release \/ ApiFault
  <2>1. UNCHANGED <<binding, secret, rebinds, bound, seen>> /\ key' = NoKey
    BY <1>12 DEF Release, ApiFault, Return
  <2>2. obj'[d] = obj[d] \/ obj'[d] = Absent
    BY <1>12 DEF Release, ApiFault, TypeOK
  <2>3. /\ obj'[d].dashboard \in {obj[d].dashboard, NoGrafana}
        /\ obj'[d].exists => obj[d].exists /\ obj'[d].dashboard = obj[d].dashboard
    BY <2>2, AbsentFields
  <2>4. key' # d
    BY <2>1
  <2>5. QED
    BY <1>0, <2>1, <2>3, <2>4, MoveFrame
<1>13. CASE Resync \/ UNCHANGED vars
  <2>1. UNCHANGED <<binding, secret, rebinds, bound, obj, seen, pc, key, local, target, remote>>
    BY <1>13 DEF Resync, vars
  <2>2. QED
    BY <1>0, <2>1, MoveFrame
<1>14. QED
  BY <1>1, <1>2, <1>3, <1>4, <1>5, <1>6, <1>7, <1>8, <1>9, <1>10, <1>11, <1>12, <1>13
     DEF Next, User, Informers, Step

-----------------------------------------------------------------------------
(* Who writes to Grafana. *)

Pushes ==
  /\ pc = "push" /\ key \in Dashboards /\ bound[Ref[key]] \in Grafanas
  /\ remote' = [remote EXCEPT ![bound[Ref[key]]][key] = local.generation]
  /\ key' = key /\ (pc' = "org" \/ faults' # 0)
  /\ UNCHANGED <<obj, seen, binding, bound>>

Erases ==
  /\ pc = "cleanup" /\ key \in Dashboards /\ local.dashboard \in Grafanas
  /\ remote' = [remote EXCEPT ![local.dashboard][key] = 0]
  /\ key' = key /\ pc' = "release"
  /\ UNCHANGED <<obj, seen, binding, bound>>

LEMMA RemoteSteps ==
  ASSUME TypeOK, [Next]_vars
  PROVE  remote' = remote \/ Pushes \/ Erases
<1> SUFFICES ASSUME remote' # remote PROVE Pushes \/ Erases
  OBVIOUS
<1> USE DashboardAssumption DEF userVars
<1>1. Push \/ Cleanup \/ GrafanaFault
  BY DEF Next, User, EditSpec, DeleteObject, Rebind, ToggleSecret, Informers, Deliver,
     DeliverBinding, Resync, Restart, Start, Step, Finalize, MarkProcessing, Resolve, ReadOrg,
     Record, MarkFailed, MarkTerminating, Release, ApiFault, vars
<1>2. key \in Dashboards /\ bound[Ref[key]] \in Targets /\ faults \in Nat
  BY <1>1 DEF Push, Cleanup, GrafanaFault, TypeOK
<1>3. CASE Push
  <2>1. /\ pc = "push" /\ bound[Ref[key]] # NoGrafana /\ Goto("org", local)
        /\ remote' = [remote EXCEPT ![bound[Ref[key]]][key] = local.generation]
        /\ UNCHANGED <<obj, seen, bound, binding>>
    BY <1>3 DEF Push
  <2>2. QED
    BY <1>2, <2>1 DEF Pushes, Goto, Targets
<1>4. CASE GrafanaFault
  <2>1. /\ pc = "push" /\ bound[Ref[key]] # NoGrafana /\ Fail(FALSE)
        /\ remote' = [remote EXCEPT ![bound[Ref[key]]][key] = local.generation]
        /\ UNCHANGED <<obj, seen, bound, binding>> /\ faults' = faults + 1
    BY <1>4 DEF GrafanaFault
  <2>2. faults' # 0
    BY <1>2, <2>1
  <2>3. QED
    BY <1>2, <2>1, <2>2 DEF Pushes, Fail, Targets
<1>5. CASE Cleanup
  <2>1. /\ pc = "cleanup" /\ Goto("release", local)
        /\ local.dashboard # NoGrafana /\ local.dashboard = bound[Ref[key]]
        /\ remote' = [remote EXCEPT ![local.dashboard][key] = 0]
        /\ UNCHANGED <<obj, seen, bound, binding>>
    BY <1>5 DEF Cleanup, ReachesRemote
  <2>2. QED
    BY <1>2, <2>1 DEF Erases, Goto, Targets
<1>6. QED
  BY <1>1, <1>3, <1>4, <1>5

\* What a Grafana stores of a dashboard changes under its own key only.
LEMMA OtherRemote ==
  ASSUME TypeOK, [Next]_vars, NEW d \in Dashboards, key # d
  PROVE  \A g \in Grafanas : remote'[g][d] = remote[g][d]
<1>1. remote \in [Grafanas -> [Dashboards -> Nat]]
  BY DEF TypeOK
<1>2. CASE Pushes
  BY <1>1, <1>2 DEF Pushes
<1>3. CASE Erases
  BY <1>1, <1>3 DEF Erases
<1>4. QED
  BY <1>2, <1>3, RemoteSteps

\* What a sync writes: with d off the queue the cache has shown no edit since
\* Reconcile read the object, so what is observed is what was pushed.
LEMMA RecordRest ==
  ASSUME TypeOK, SyncInv, NEW d \in Dashboards, key = d, Record, d \notin queue',
         rebinds <= 1, obj'[d].exists, obj'[d].observed = obj'[d].generation
  PROVE  /\ obj'[d].dashboard # NoGrafana
         /\ obj'[d].dashboard = binding[Ref[d]]
               => remote[binding[Ref[d]]][d] = obj'[d].generation
<1> DEFINE g == binding[Ref[d]]
<1>0. /\ CopyInv(d) /\ MoveInv(d) /\ WorkInv /\ obj[d] \in Object /\ seen[d] \in Object
      /\ local \in Object
  BY DEF SyncInv, TypeOK
<1>1. CanPatch(d) /\ Patch(Success(seen[d], target)) /\ queue' = queue /\ pc = "record"
  BY DEF Record, Return
<1>2. /\ obj'[d].generation = obj[d].generation
      /\ obj'[d].observed \in {obj[d].observed, seen[d].generation}
      /\ obj'[d].dashboard = IF target = seen[d].dashboard THEN obj[d].dashboard ELSE target
  BY <1>1, PatchFields, NewStatus
<1>3. obj[d].exists /\ seen[d].exists
  BY <1>1 DEF CanPatch
<1>4. /\ local.generation <= obj[d].generation
      /\ ~(local.generation < seen[d].generation)
      /\ target # NoGrafana
  BY <1>0, <1>1, <1>3 DEF WorkInv, Syncing
<1>5. seen[d].generation <= obj[d].generation /\ obj[d].observed <= seen[d].generation
  BY <1>0, <1>3 DEF CopyInv
<1>6. local.generation = obj'[d].generation
  BY <1>0, <1>2, <1>4, <1>5 DEF Object
<1>7. obj'[d].dashboard # NoGrafana
  BY <1>0, <1>2, <1>3, <1>4 DEF CopyInv
<1>8. ASSUME obj'[d].dashboard = g PROVE remote[g][d] = obj'[d].generation
  <2>1. g # NoGrafana
    BY <1>7, <1>8
  <2>2. target = g
    <3>1. CASE obj'[d].dashboard = target
      BY <1>8, <3>1
    <3>2. CASE obj'[d].dashboard = obj[d].dashboard
      BY <1>0, <1>1, <1>8, <2>1, <3>2 DEF MoveInv
    <3>3. QED
      BY <1>2, <3>1, <3>2
  <2>3. remote[g][d] = local.generation
    BY <1>0, <1>1, <2>1, <2>2 DEF MoveInv
  <2>4. QED
    BY <1>6, <2>3
<1>9. QED
  BY <1>7, <1>8

\* Whatever ends without a record puts the key back or finds the object deleted.
LEMMA EndsRest ==
  ASSUME TypeOK, FinalizerInv, SyncInv, [Next]_vars, NEW d \in Dashboards,
         key = d, key' # d, d \notin queue', obj'[d].exists, ~obj'[d].deleting, crashes' = 0
  PROVE  Record
<1> USE DashboardAssumption DEF workerVars, userVars
<1>1. pc # "idle"
  BY DEF FinalizerInv
<1>2. ~Restart
  BY DEF Restart, TypeOK
<1>3. ~Return(TRUE)
  BY DEF Return
<1>4. ~Release
  <2>1. SUFFICES ASSUME Release PROVE FALSE
    OBVIOUS
  <2>2. obj[d].exists => obj[d].deleting
    BY <2>1 DEF Release, FinalizerInv, Ending
  <2>3. obj[d].deleting => ~obj'[d].exists
    BY <2>1, AbsentFields DEF Release, TypeOK
  <2>4. ~obj[d].deleting => obj' = obj
    BY <2>1 DEF Release
  <2>5. QED
    BY <2>2, <2>3, <2>4
<1>5. QED
  BY <1>1, <1>2, <1>3, <1>4
     DEF Next, User, EditSpec, DeleteObject, Rebind, ToggleSecret, Informers, Deliver,
     DeliverBinding, Resync, Start, Step, Finalize, MarkProcessing, Resolve, Push, ReadOrg,
     MarkFailed, MarkTerminating, Cleanup, ApiFault, GrafanaFault, Goto, Fail, vars

\* A key leaves the queue for the worker, or because its object is not cached.
LEMMA QueueRest ==
  ASSUME TypeOK, SyncInv, [Next]_vars, NEW d \in Dashboards,
         d \in queue, d \notin queue', key' # d, crashes' = 0
  PROVE  obj'[d].exists => obj'[d].observed # obj'[d].generation
<1> USE DashboardAssumption DEF workerVars, userVars
<1>1. ~Restart
  BY DEF Restart, TypeOK
<1>2. PICK e \in Dashboards : Start(e)
  BY <1>1 DEF Next, User, EditSpec, DeleteObject, Rebind, ToggleSecret, Informers, Deliver,
     DeliverBinding, Resync, Step, Finalize, MarkProcessing, Resolve, Push, ReadOrg, Record,
     MarkFailed, MarkTerminating, Cleanup, Release, ApiFault, GrafanaFault, Goto, Fail, Return, vars
<1>3. e = d /\ ~seen[d].exists /\ obj' = obj
  BY <1>2 DEF Start
<1>4. CopyInv(d) /\ obj[d] \in Object /\ seen[d] \in Object
  BY DEF SyncInv, TypeOK
<1>5. seen[d].generation = 0
  BY <1>3, <1>4, AbsentFields DEF CopyInv
<1>6. QED
  BY <1>3, <1>4, <1>5 DEF CopyInv, Object

\* An AppBinding that moves leaves what is recorded elsewhere.
LEMMA BindingRest ==
  ASSUME TypeOK, SyncInv, [Next]_vars, NEW d \in Dashboards, rebinds' <= 1,
         obj[d].dashboard # NoGrafana, binding'[Ref[d]] # binding[Ref[d]]
  PROVE  obj[d].dashboard # binding'[Ref[d]]
<1> USE DEF workerVars, userVars
<1>1. PICK b \in Bindings : Rebind(b)
  BY DEF Next, User, EditSpec, DeleteObject, ToggleSecret, Informers, Deliver, Restart, Start,
     DeliverBinding, Resync, Step, Finalize, MarkProcessing, Resolve, Push, ReadOrg, Record,
     MarkFailed, MarkTerminating, Cleanup, Release, ApiFault, GrafanaFault, vars
<1>2. rebinds = 0
  BY <1>1 DEF Rebind, TypeOK
<1>3. MoveInv(d)
  BY DEF SyncInv
<1>4. QED
  BY <1>2, <1>3 DEF MoveInv

LEMMA CountersGrow ==
  ASSUME TypeOK, [Next]_vars
  PROVE  rebinds <= rebinds' /\ faults <= faults' /\ crashes <= crashes'
<1> USE DEF workerVars, userVars, TypeOK
<1>1. /\ rebinds' = rebinds \/ rebinds' = rebinds + 1
      /\ faults' = faults \/ faults' = faults + 1
      /\ crashes' = crashes \/ crashes' = crashes + 1
  BY DEF Next, User, EditSpec, DeleteObject, Rebind, ToggleSecret, Informers, Deliver,
     DeliverBinding, Resync, Restart, Start, Step, Finalize, MarkProcessing, Resolve, Push,
     ReadOrg, Record, MarkFailed, MarkTerminating, Cleanup, Release, ApiFault, GrafanaFault, vars
<1>2. QED
  BY <1>1

LEMMA NextRest ==
  ASSUME TypeOK, TypeOK', FinalizerInv, SyncInv, RestInv, [Next]_vars
  PROVE  RestInv'
<1> USE DashboardAssumption
<1>1. SUFFICES ASSUME crashes' = 0, rebinds' <= 1, NEW d \in Dashboards,
                      d \notin queue', key' # d, obj'[d].exists, ~obj'[d].deleting,
                      obj'[d].observed = obj'[d].generation
               PROVE  /\ obj'[d].dashboard # NoGrafana
                      /\ obj'[d].dashboard = binding'[Ref[d]]
                            => remote'[binding'[Ref[d]]][d] = obj'[d].generation
  BY DEF RestInv
<1>2. crashes = 0 /\ rebinds <= 1
  BY <1>1, CountersGrow DEF TypeOK
<1>3. /\ obj[d] \in Object /\ seen[d] \in Object /\ CopyInv(d)
      /\ binding[Ref[d]] \in Targets /\ binding'[Ref[d]] \in Targets
  BY DEF TypeOK, SyncInv
<1>4. CASE key = d
  <2>1. Record
    BY <1>1, <1>4, EndsRest
  <2>2. UNCHANGED <<binding, remote>>
    BY <2>1 DEF Record, userVars
  <2>3. QED
    BY <1>1, <1>2, <1>4, <2>1, <2>2, RecordRest
<1>5. CASE key # d
  <2>1. d \notin queue
    BY <1>1, QueueRest
  <2>2. /\ obj[d].exists /\ ~obj[d].deleting /\ obj[d].observed = obj[d].generation
        /\ obj'[d].dashboard = obj[d].dashboard /\ obj'[d].generation = obj[d].generation
    <3>1. CASE obj'[d] = obj[d]
      BY <1>1, <3>1
    <3>2. CASE Edited(d)
      BY <1>1, <1>3, <3>2 DEF Edited, CopyInv, Object
    <3>3. CASE Doomed(d)
      BY <1>1, <1>3, <3>3 DEF Doomed, Object
    <3>4. CASE Gone(d)
      BY <1>1, <3>4, AbsentFields DEF Gone
    <3>5. CASE Finalized(d) \/ Made(d) \/ Patched(d)
      BY <1>5, <3>5 DEF Finalized, Made, Patched
    <3>6. QED
      BY <3>1, <3>2, <3>3, <3>4, <3>5, ObjectSteps
  <2>3. /\ obj[d].dashboard # NoGrafana
        /\ obj[d].dashboard = binding[Ref[d]] => remote[binding[Ref[d]]][d] = obj[d].generation
    BY <1>2, <1>5, <2>1, <2>2 DEF RestInv
  <2>4. \A g \in Grafanas : remote'[g][d] = remote[g][d]
    BY <1>5, OtherRemote
  <2>5. CASE binding'[Ref[d]] = binding[Ref[d]]
    BY <1>3, <2>2, <2>3, <2>4, <2>5 DEF Targets
  <2>6. CASE binding'[Ref[d]] # binding[Ref[d]]
    BY <1>1, <2>2, <2>3, <2>6, BindingRest
  <2>7. QED
    BY <2>5, <2>6
<1>6. QED
  BY <1>4, <1>5

-----------------------------------------------------------------------------
LEMMA UndisturbedBefore ==
  ASSUME TypeOK, [Next]_vars, Undisturbed'
  PROVE  /\ Undisturbed /\ rebinds = 0 /\ rebinds' = 0
         /\ UNCHANGED binding /\ ~ApiFault /\ ~GrafanaFault /\ ~Restart
         /\ (Pushes => pc' = "org")
<1>1. rebinds' = 0 /\ faults' = 0 /\ crashes' = 0
  BY DEF Undisturbed
<1>2. rebinds = 0 /\ faults = 0 /\ crashes = 0
  BY <1>1, CountersGrow DEF TypeOK
<1>3. ~ApiFault /\ ~GrafanaFault /\ ~Restart
  BY <1>1, <1>2 DEF ApiFault, GrafanaFault, Restart
<1>4. ASSUME NEW b \in Bindings PROVE ~Rebind(b) /\ ~ToggleSecret(b)
  BY <1>1, <1>2 DEF Rebind, ToggleSecret
<1>5. UNCHANGED binding
  BY <1>3, <1>4
     DEF Next, User, EditSpec, DeleteObject, Informers, Deliver, userVars,
     DeliverBinding, Resync, Start, Step, Finalize, MarkProcessing, Resolve, Push,
     ReadOrg, Record, MarkFailed, MarkTerminating, Cleanup, Release, vars
<1>6. QED
  BY <1>1, <1>2, <1>3, <1>5 DEF Undisturbed, Pushes

\* A push that has not been recorded yet is recorded next.
LEMMA NextPushed ==
  ASSUME TypeOK, [Next]_vars, Undisturbed', NEW d \in Dashboards, key = d,
         pc \in {"org", "record"}
  PROVE  (key' = d /\ pc' \in {"org", "record"}) \/ Record
<1>1. ~ApiFault /\ ~GrafanaFault /\ ~Restart
  BY UndisturbedBefore
<1>2. QED
  BY <1>1
     DEF Next, User, EditSpec, DeleteObject, Rebind, ToggleSecret, Informers, Deliver, workerVars,
     DeliverBinding, Resync, Start, Step, Finalize, MarkProcessing, Resolve, Push,
     ReadOrg, MarkFailed, MarkTerminating, Cleanup, Release, Goto, vars

LEMMA RecordTrace ==
  ASSUME TypeOK, FinalizerInv, SyncInv, NEW d \in Dashboards, key = d, Record, rebinds = 0
  PROVE  obj'[d].dashboard = binding[Ref[d]]
<1>1. CopyInv(d) /\ MoveInv(d) /\ WorkInv /\ pc = "record"
  BY DEF SyncInv, Record
<1>2. seen[d].exists /\ obj[d].exists
  BY <1>1 DEF WorkInv, FinalizerInv, Syncing
<1>3. target # NoGrafana /\ target = binding[Ref[d]]
  BY <1>1 DEF WorkInv, MoveInv
<1>4. Patch(Success(seen[d], target))
  BY <1>2 DEF Record, CanPatch
<1>5. obj'[d].dashboard = IF target = seen[d].dashboard THEN obj[d].dashboard ELSE target
  BY <1>4, PatchFields, NewStatus
<1>6. 0 <= 1
  OBVIOUS
<1>7. seen[d].dashboard = binding[Ref[d]] => obj[d].dashboard = binding[Ref[d]]
  BY <1>1, <1>2, <1>3, <1>6 DEF MoveInv
<1>8. QED
  BY <1>3, <1>5, <1>7

\* The teardown reaches the one Grafana that has the dashboard.
LEMMA CleanupTrace ==
  ASSUME TypeOK, SyncInv, TraceInv, Cleanup, Undisturbed
  PROVE  \A g \in Grafanas : remote'[g][key] = 0
<1> USE DashboardAssumption
<1>1. /\ pc = "cleanup" /\ key \in Dashboards /\ remote \in [Grafanas -> [Dashboards -> Nat]]
      /\ rebinds = 0
  BY DEF Cleanup, TypeOK, Undisturbed
<1>2. MoveInv(key) /\ WorkInv
  BY <1>1 DEF SyncInv
<1>3. ASSUME NEW g \in Grafanas, remote[g][key] # 0
      PROVE  g = binding[Ref[key]] /\ obj[key].exists /\ obj[key].dashboard = g
  BY <1>1, <1>3 DEF TraceInv
<1>4. CASE \A g \in Grafanas : remote[g][key] = 0
  BY <1>1, <1>4 DEF Cleanup
<1>5. ASSUME NEW g \in Grafanas, remote[g][key] # 0
      PROVE  \A h \in Grafanas : remote'[h][key] = 0
  <2>1. /\ g = binding[Ref[key]] /\ obj[key].exists /\ obj[key].dashboard = g
        /\ \A h \in Grafanas \ {g} : remote[h][key] = 0
    BY <1>3, <1>5
  <2>2. local.dashboard = g
    BY <1>1, <1>2, <2>1 DEF WorkInv
  <2>3. bound[Ref[key]] = g /\ secret[Ref[key]] /\ g # NoGrafana
    BY <1>1, <1>2, <2>1 DEF MoveInv
  <2>4. remote' = [remote EXCEPT ![g][key] = 0]
    BY <2>2, <2>3 DEF Cleanup, ReachesRemote
  <2>5. QED
    BY <1>1, <2>1, <2>4
<1>6. QED
  BY <1>4, <1>5

LEMMA NextTrace ==
  ASSUME TypeOK, TypeOK', FinalizerInv, SyncInv, TraceInv, [Next]_vars
  PROVE  TraceInv'
<1> USE DashboardAssumption
<1> SUFFICES ASSUME Undisturbed'
             PROVE  /\ \A d \in Dashboards, g \in Grafanas :
                          remote'[g][d] # 0 =>
                             /\ g = binding'[Ref[d]] /\ obj'[d].exists /\ obj'[d].finalizer
                             /\ obj'[d].dashboard = g \/ (key' = d /\ pc' \in {"org", "record"})
                    /\ pc' = "release" => \A g \in Grafanas : remote'[g][key'] = 0
  BY DEF TraceInv
<1>1. /\ Undisturbed /\ rebinds = 0 /\ UNCHANGED binding /\ (Pushes => pc' = "org")
      /\ remote \in [Grafanas -> [Dashboards -> Nat]]
  BY UndisturbedBefore DEF TypeOK
<1>2. /\ \A d \in Dashboards, g \in Grafanas :
            remote[g][d] # 0 =>
               /\ g = binding[Ref[d]] /\ obj[d].exists /\ obj[d].finalizer
               /\ obj[d].dashboard = g \/ (key = d /\ pc \in {"org", "record"})
      /\ pc = "release" => \A g \in Grafanas : remote[g][key] = 0
  BY <1>1 DEF TraceInv
<1>3. ASSUME pc' = "release", NEW g \in Grafanas PROVE remote'[g][key'] = 0
  <2>1. CASE Cleanup
    <3>1. key' = key
      BY <2>1 DEF Cleanup, Goto
    <3>2. QED
      BY <1>1, <2>1, <3>1, CleanupTrace
  <2>2. CASE ~Cleanup
    <3>1. pc = "release" /\ key' = key /\ remote' = remote
      <4>1. ~ApiFault /\ ~GrafanaFault /\ ~Restart
        BY UndisturbedBefore
      <4>2. QED
        BY <1>3, <2>2, <4>1
           DEF Next, User, EditSpec, DeleteObject, Rebind, ToggleSecret, Informers, Deliver,
           DeliverBinding, Resync, Start, FirstStep, ActiveStep, Step, Finalize, MarkProcessing,
           Resolve, Push, ReadOrg, Record, MarkFailed, MarkTerminating, Release, Goto, Fail,
           Return, workerVars, vars
    <3>2. QED
      BY <1>2, <3>1
  <2>3. QED
    BY <2>1, <2>2
<1>4. ASSUME NEW d \in Dashboards, NEW g \in Grafanas, remote'[g][d] # 0
      PROVE  /\ g = binding[Ref[d]] /\ obj'[d].exists /\ obj'[d].finalizer
             /\ obj'[d].dashboard = g \/ (key' = d /\ pc' \in {"org", "record"})
  <2>1. CASE Pushes /\ key = d /\ g = bound[Ref[d]]
    <3>1. obj'[d].exists /\ obj'[d].finalizer /\ key' = d /\ pc' = "org"
      BY <1>1, <2>1 DEF Pushes, FinalizerInv, Syncing
    <3>2. MoveInv(d)
      BY DEF SyncInv
    <3>3. bound[Ref[d]] = binding[Ref[d]]
      BY <1>1, <3>2 DEF MoveInv
    <3>4. QED
      BY <2>1, <3>1, <3>3
  <2>2. CASE remote[g][d] # 0
    <3>1. /\ g = binding[Ref[d]] /\ obj[d].exists /\ obj[d].finalizer
          /\ obj[d].dashboard = g \/ (key = d /\ pc \in {"org", "record"})
          /\ ~(pc = "release" /\ key = d)
      BY <1>2, <2>2
    <3>2. obj[d] \in Object
      BY DEF TypeOK
    <3>3. /\ obj'[d].exists /\ obj'[d].finalizer
          /\ obj'[d].dashboard = obj[d].dashboard \/ (pc = "record" /\ Patched(d))
      <4>1. CASE Edited(d)
        BY <3>1, <3>2, <4>1 DEF Edited, Object
      <4>2. CASE Doomed(d)
        BY <3>1, <3>2, <4>2 DEF Doomed, Object
      <4>3. CASE Gone(d)
        BY <3>1, <4>3 DEF Gone
      <4>4. CASE Finalized(d)
        BY <3>1, <3>2, <4>4 DEF Finalized, Object
      <4>5. CASE Made(d)
        BY <3>1, <4>5 DEF Made
      <4>6. CASE Patched(d)
        BY <3>1, <4>6 DEF Patched
      <4>7. CASE obj'[d] = obj[d]
        BY <3>1, <4>7
      <4>8. QED
        BY <4>1, <4>2, <4>3, <4>4, <4>5, <4>6, <4>7, ObjectSteps
    <3>4. CASE key = d /\ pc \in {"org", "record"}
      <4>1. (key' = d /\ pc' \in {"org", "record"}) \/ Record
        BY <3>4, NextPushed
      <4>2. CASE Record
        BY <1>1, <3>1, <3>3, <3>4, <4>2, RecordTrace
      <4>3. QED
        BY <3>1, <3>3, <4>1, <4>2
    <3>5. CASE ~(key = d /\ pc \in {"org", "record"})
      BY <3>1, <3>3, <3>5 DEF Patched
    <3>6. QED
      BY <3>4, <3>5
  <2>3. CASE remote[g][d] = 0
    <3>1. remote' # remote
      BY <1>4, <2>3
    <3>2. CASE Pushes
      <4>1. key = d /\ g = bound[Ref[d]]
        BY <1>1, <1>4, <2>3, <3>2 DEF Pushes
      <4>2. QED
        BY <2>1, <3>2, <4>1
    <3>3. CASE Erases
      BY <1>1, <1>4, <2>3, <3>3 DEF Erases
    <3>4. QED
      BY <3>1, <3>2, <3>3, RemoteSteps
  <2>4. QED
    BY <2>2, <2>3
<1>5. QED
  BY <1>1, <1>3, <1>4

\* What Reconcile reads from the cache, and how far it is, agrees with the API
\* server's objects and with Grafana in every reachable state.
THEOREM DashboardInvariant == Spec => []Inv
<1>1. Init => Inv
  BY InitType, InitFinalizer, InitSync DEF Inv
<1>2. Inv /\ [Next]_vars => Inv'
  <2> SUFFICES ASSUME Inv, [Next]_vars PROVE Inv'
    OBVIOUS
  <2>1. TypeOK /\ FinalizerInv /\ SyncInv /\ RestInv /\ TraceInv
    BY DEF Inv
  <2>2. TypeOK' /\ FinalizerInv'
    BY <2>1, NextType, NextFinalizer
  <2>3. SyncInv'
    BY <2>1, <2>2, NextCopy, NextWork, NextMove DEF SyncInv
  <2>4. RestInv' /\ TraceInv'
    BY <2>1, <2>2, NextRest, NextTrace
  <2>5. QED
    BY <2>2, <2>3, <2>4 DEF Inv
<1>3. QED
  BY <1>1, <1>2, PTL DEF Spec

\* When the operator has come to rest every dashboard whose AppBinding resolves
\* is in the right Grafana with its newest model, unless Grafana refuses that:
\* for any number of dashboards and Grafanas, edits and failed calls.
THEOREM RestIsSynced == Spec => []SettledIsSynced
<1>1. Inv => SettledIsSynced
  <2> SUFFICES ASSUME Inv, Quiet, crashes = 0, rebinds <= 1, NEW d \in Dashboards,
                      obj[d].exists, binding[Ref[d]] # NoGrafana
               PROVE  Synced(d)
    BY DEF SettledIsSynced
  <2>1. /\ d \notin queue /\ pc = "idle" /\ seen = obj /\ bound = binding
        /\ d \notin Passing(obj, binding)
    BY DEF Quiet
  <2>2. key # d
    BY <2>1, DashboardAssumption DEF Inv, FinalizerInv
  <2>3. /\ ~obj[d].deleting /\ obj[d].observed = obj[d].generation
        /\ ~IsStateChanged(obj[d], binding[Ref[d]])
    BY <2>1 DEF Passing, Filter
  <2>4. /\ obj[d].dashboard # NoGrafana
        /\ obj[d].dashboard = binding[Ref[d]] => remote[binding[Ref[d]]][d] = obj[d].generation
    BY <2>1, <2>2, <2>3 DEF Inv, RestInv
  <2>5. obj[d].dashboard = binding[Ref[d]]
    BY <2>3, <2>4 DEF IsStateChanged
  <2>6. QED
    BY <2>3, <2>4, <2>5 DEF Synced
<1>2. QED
  BY <1>1, DashboardInvariant, PTL

-----------------------------------------------------------------------------
LEMMA InitContract == Init => Contract!ContractInit
<1> SUFFICES ASSUME Init PROVE Contract!ContractInit
  OBVIOUS
<1>1. \A d \in Dashboards : ~(\E g \in Grafanas : remote[g][d] # 0)
  BY DEF Init
<1>2. Held \in [Dashboards -> BOOLEAN]
  BY InitType DEF Held, TypeOK, Object
<1>3. QED
  BY <1>1, <1>2 DEF Contract!ContractInit, Outside

\* A step changes one object at most.
LEMMA OneObject ==
  ASSUME TypeOK, [Next]_vars, obj' # obj, ~Restart
  PROVE  \E e \in Dashboards : \A d \in Dashboards \ {e} : obj'[d] = obj[d]
<1>1. ASSUME NEW e \in Dashboards, EditSpec(e) \/ DeleteObject(e)
      PROVE  \A d \in Dashboards \ {e} : obj'[d] = obj[d]
  BY <1>1 DEF EditSpec, DeleteObject, TypeOK
<1>2. CASE Finalize \/ MarkProcessing \/ Record \/ MarkFailed \/ MarkTerminating \/ Release
  <2>1. key \in Dashboards
    BY <1>2 DEF Finalize, MarkProcessing, Record, MarkFailed, MarkTerminating, Release, TypeOK
  <2>2. \A d \in Dashboards \ {key} : obj'[d] = obj[d]
    BY <1>2, <2>1 DEF Finalize, MarkProcessing, Record, MarkFailed, MarkTerminating, Release,
       Patch, TypeOK
  <2>3. QED
    BY <2>1, <2>2
<1>3. QED
  BY <1>1, <1>2
     DEF Next, User, Rebind, ToggleSecret, Informers, Deliver, DeliverBinding, Resync, Start, Step,
     Resolve, Push, ReadOrg, Cleanup, ApiFault, GrafanaFault, vars

\* A step of the reconciler is a step of the contract.
LEMMA StepContract ==
  ASSUME Inv, [Next]_vars, Undisturbed'
  PROVE  Contract!ContractNext \/ UNCHANGED <<Held, Outside>>
<1>1. /\ TypeOK /\ TypeOK' /\ FinalizerInv /\ SyncInv /\ TraceInv
      /\ remote \in [Grafanas -> [Dashboards -> Nat]]
  BY NextType DEF Inv, TypeOK
<1>2. Undisturbed /\ ~Restart
  BY <1>1, UndisturbedBefore
\* The objects change and Grafana does not.
<1>3. CASE UNCHANGED remote
  <2>1. UNCHANGED Outside
    BY <1>3 DEF Outside
  <2>2. CASE UNCHANGED obj
    BY <2>1, <2>2 DEF Held
  <2>3. CASE obj' # obj
    <3>1. PICK e \in Dashboards : \A d \in Dashboards \ {e} : obj'[d] = obj[d]
      BY <1>1, <1>2, <2>3, OneObject
    <3>2. \A d \in Dashboards \ {e} :
             (obj'[d].exists /\ obj'[d].finalizer) <=> (obj[d].exists /\ obj[d].finalizer)
      BY <3>1
    <3>3. /\ obj'[e].exists \in BOOLEAN /\ obj'[e].finalizer \in BOOLEAN
          /\ obj[e].exists \in BOOLEAN /\ obj[e].finalizer \in BOOLEAN
      <4>1. obj[e] \in Object /\ obj'[e] \in Object
        BY <1>1 DEF TypeOK
      <4>2. QED
        BY <4>1 DEF Object
    <3>4. CASE (obj'[e].exists /\ obj'[e].finalizer) = (obj[e].exists /\ obj[e].finalizer)
      <4>1. Held' = Held
        BY <3>2, <3>4 DEF Held
      <4>2. QED
        BY <2>1, <4>1
    <3>5. CASE obj'[e].exists /\ obj'[e].finalizer /\ ~(obj[e].exists /\ obj[e].finalizer)
      <4>1. ~Held[e] /\ Held' = [Held EXCEPT ![e] = TRUE]
        BY <3>2, <3>5 DEF Held
      <4>2. Contract!Acquire(e)
        BY <2>1, <4>1 DEF Contract!Acquire
      <4>3. QED
        BY <4>2 DEF Contract!ContractNext
    <3>6. CASE obj[e].exists /\ obj[e].finalizer /\ ~(obj'[e].exists /\ obj'[e].finalizer)
      <4>1. pc = "release" /\ key = e
        <5>1. obj[e] \in Object
          BY <1>1 DEF TypeOK
        <5>2. ~Edited(e) /\ ~Doomed(e) /\ ~Finalized(e)
          BY <3>6, <5>1 DEF Edited, Doomed, Finalized, Object
        <5>3. ~Made(e) /\ ~Patched(e) /\ obj'[e] # obj[e]
          BY <3>6 DEF Made, Patched
        <5>4. Gone(e)
          BY <1>1, <5>2, <5>3, ObjectSteps
        <5>5. QED
          BY <3>6, <5>4 DEF Gone
      <4>2. ~Outside[e]
        BY <1>1, <1>2, <4>1 DEF Outside, TraceInv
      <4>3. Held[e] /\ Held' = [Held EXCEPT ![e] = FALSE]
        BY <3>2, <3>6 DEF Held
      <4>4. Contract!Release(e)
        BY <2>1, <4>2, <4>3 DEF Contract!Release
      <4>5. QED
        BY <4>4 DEF Contract!ContractNext
    <3>7. QED
      BY <3>3, <3>4, <3>5, <3>6
  <2>4. QED
    BY <2>2, <2>3
\* Grafana changes and the objects do not.
<1>4. CASE Pushes
  <2>1. /\ pc = "push" /\ key \in Dashboards /\ bound[Ref[key]] \in Grafanas /\ UNCHANGED obj
        /\ remote' = [remote EXCEPT ![bound[Ref[key]]][key] = local.generation]
    BY <1>4 DEF Pushes
  <2>2. local.generation # 0
    BY <1>1, <2>1 DEF SyncInv, WorkInv, Syncing
  <2>3. Outside' = [Outside EXCEPT ![key] = TRUE]
    <3>1. \A d \in Dashboards :
             (\E g \in Grafanas : remote'[g][d] # 0) <=> (d = key \/ \E g \in Grafanas : remote[g][d] # 0)
      BY <1>1, <2>1, <2>2
    <3>2. QED
      BY <2>1, <3>1 DEF Outside
  <2>4. Held[key] /\ UNCHANGED Held
    BY <1>1, <2>1 DEF Held, FinalizerInv, Syncing
  <2>5. Contract!Provision(key)
    BY <2>3, <2>4 DEF Contract!Provision
  <2>6. QED
    BY <2>1, <2>5 DEF Contract!ContractNext
<1>5. CASE Erases
  <2>1. /\ pc = "cleanup" /\ key \in Dashboards /\ local.dashboard \in Grafanas /\ UNCHANGED obj
        /\ remote' = [remote EXCEPT ![local.dashboard][key] = 0]
    BY <1>5 DEF Erases
  <2>2. CASE \A g \in Grafanas : remote[g][key] = 0
    <3>1. \A d \in Dashboards, g \in Grafanas : remote'[g][d] = remote[g][d]
      BY <1>1, <2>1, <2>2
    <3>2. UNCHANGED <<Held, Outside>>
      BY <2>1, <3>1 DEF Held, Outside
    <3>3. QED
      BY <3>2
  <2>3. ASSUME NEW g \in Grafanas, remote[g][key] # 0 PROVE Contract!ContractNext
    <3>1. /\ g = binding[Ref[key]] /\ obj[key].exists /\ obj[key].finalizer
          /\ obj[key].dashboard = g
          /\ \A h \in Grafanas \ {g} : remote[h][key] = 0
      BY <1>1, <1>2, <2>1, <2>3 DEF TraceInv
    <3>2. local.dashboard = g
      BY <1>1, <2>1, <3>1 DEF SyncInv, WorkInv
    <3>3. \A d \in Dashboards :
             (\E h \in Grafanas : remote'[h][d] # 0)
                <=> (d # key /\ \E h \in Grafanas : remote[h][d] # 0)
      BY <1>1, <2>1, <3>1, <3>2
    <3>4. Outside' = [Outside EXCEPT ![key] = FALSE]
      BY <2>1, <3>3 DEF Outside
    <3>5. Held[key] /\ UNCHANGED Held
      BY <2>1, <3>1 DEF Held
    <3>6. Contract!Withdraw(key)
      BY <3>4, <3>5 DEF Contract!Withdraw
    <3>7. QED
      BY <2>1, <3>6 DEF Contract!ContractNext
  <2>4. QED
    BY <2>2, <2>3
<1>6. QED
  BY <1>1, <1>3, <1>4, <1>5, RemoteSteps

\* Until a call fails, the operator stops or an AppBinding changes, a dashboard
\* loses its finalizer only when no Grafana has it any more.
THEOREM UndisturbedImplementsContract == Spec => ImplementsContractUndisturbed
<1>1. Init => Contract!ContractInit
  BY InitContract
<1>2. Inv /\ [Next]_vars => [Undisturbed' => Contract!ContractNext]_<<Held, Outside>>
  BY StepContract
<1>3. QED
  BY <1>1, <1>2, DashboardInvariant, PTL DEF Spec, ImplementsContractUndisturbed
=============================================================================
