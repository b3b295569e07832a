------------------------ MODULE GrafanaDatasourceProofs ------------------------
(***************************************************************************)
(* Theorems about GrafanaDatasource, for every set of objects and Grafanas *)
(* and every bound: type correctness, that Grafana is only written to      *)
(* under the finalizer, that the recorded numbers are the object's own     *)
(* while no reference moves, that a status tells the truth unless two      *)
(* calls fail, and that an undisturbed reconciler implements the finalizer *)
(* contract.                                                               *)
(***************************************************************************)
EXTENDS GrafanaDatasource, TLAPS

LEMMA AbsentType ==
  /\ Absent \in Object
  /\ [Absent EXCEPT !.exists = TRUE, !.generation = 1] \in Object
  /\ [Absent EXCEPT !.exists = TRUE, !.finalizer = TRUE, !.generation = 1] \in Object
BY DEF Absent, Object, Phases, Reasons, NoID

\* The worker's return keeps the worker's types.
LEMMA ReturnType ==
  ASSUME TypeOK, key \in Datasources, NEW r \in BOOLEAN, Return(r)
  PROVE  /\ queue' \subseteq Datasources
         /\ pc' = "idle" /\ key' = NoKey /\ local' \in Object
BY AbsentType DEF TypeOK, Return

LEMMA MergeStatusType ==
  ASSUME NEW o \in Object, NEW base \in Object, NEW new \in Object
  PROVE  MergeStatus(o, base, new) \in Object
BY DEF MergeStatus, Object

\* A status patch writes an object and leaves the rest of it, and the others,
\* alone.
LEMMA PatchFrame ==
  ASSUME TypeOK, key \in Datasources, NEW new \in Object, Patch(new)
  PROVE  /\ obj' \in [Datasources -> Object]
         /\ obj'[key] \in Object
         /\ \A d \in Datasources \ {key} : obj'[d] = obj[d]
         /\ obj'[key].exists = obj[key].exists
         /\ obj'[key].deleting = obj[key].deleting
         /\ obj'[key].finalizer = obj[key].finalizer
         /\ obj'[key].id = obj[key].id \/ obj'[key].id = new.id
         /\ new.id = seen[key].id => obj'[key].id = obj[key].id
<1>1. MergeStatus(obj[key], seen[key], new) \in Object
  BY MergeStatusType DEF TypeOK
<1>2. obj'[key] = MergeStatus(obj[key], seen[key], new)
  BY DEF TypeOK, Patch
<1>3. obj' \in [Datasources -> Object] /\ \A d \in Datasources \ {key} : obj'[d] = obj[d]
  BY <1>1 DEF TypeOK, Patch
<1>4. obj[key] \in Object
  BY DEF TypeOK
<1>5. QED
  BY <1>1, <1>2, <1>3, <1>4 DEF MergeStatus, Object

\* The objects the worker's patches write.
LEMMA NewStatusType ==
  ASSUME TypeOK, key \in Datasources
  PROVE  /\ [seen[key] EXCEPT !.phase = "Processing", !.observed = seen[key].generation] \in Object
         /\ [seen[key] EXCEPT !.phase = "Failed", !.reason = "failed"] \in Object
         /\ [seen[key] EXCEPT !.phase = "Terminating"] \in Object
         /\ Created(seen[key]) \in Object /\ Updated(seen[key]) \in Object
<1>1. seen[key] \in Object /\ local \in Object
  BY DEF TypeOK
<1>2. QED
  BY <1>1 DEF Object, Phases, Reasons, Created, Updated

\* A POST appends an entry of the key, a PUT overwrites one that is live.
LEMMA PostType ==
  ASSUME TypeOK, key \in Datasources, NEW g, PostAccepted(g), Post(g), binding[key] = g
  PROVE  /\ remote' \in [Grafanas -> Seq(Entry)] /\ g \in Grafanas
         /\ \A h \in Grafanas : \A i \in DOMAIN remote[h] :
               i \in DOMAIN remote'[h] /\ remote'[h][i] = remote[h][i]
         /\ NumberOfAnswer(g) \in Nat \ {0}
         /\ NumberOfAnswer(g) \notin DOMAIN remote[g]
         /\ \A h \in Grafanas :
               DOMAIN remote'[h] = DOMAIN remote[h] \cup (IF h = g THEN {NumberOfAnswer(g)} ELSE {})
         /\ NumberOfAnswer(g) \in DOMAIN remote'[g]
         /\ remote'[g][NumberOfAnswer(g)] = Written /\ Written.owner = key /\ Written.live
<1>1. g \in Grafanas /\ remote[g] \in Seq(Entry) /\ Written \in Entry
  BY DEF TypeOK, PostAccepted, Written, Entry, Object
<1>2. /\ Append(remote[g], Written) \in Seq(Entry)
      /\ Len(Append(remote[g], Written)) = Len(remote[g]) + 1
      /\ \A i \in DOMAIN remote[g] : /\ i \in DOMAIN Append(remote[g], Written)
                                     /\ Append(remote[g], Written)[i] = remote[g][i]
      /\ Append(remote[g], Written)[Len(remote[g]) + 1] = Written
      /\ Len(remote[g]) + 1 \in DOMAIN Append(remote[g], Written)
      /\ Len(remote[g]) + 1 \notin DOMAIN remote[g]
      /\ DOMAIN Append(remote[g], Written) = DOMAIN remote[g] \cup {Len(remote[g]) + 1}
      /\ Len(remote[g]) + 1 \in Nat \ {0}
  <2> HIDE DEF Entry, Written
  <2>1. Len(remote[g]) \in Nat /\ DOMAIN remote[g] = 1..Len(remote[g])
    BY <1>1
  <2>2. QED
    BY <1>1, <2>1
<1>3. /\ remote'[g] = Append(remote[g], Written)
      /\ \A h \in Grafanas \ {g} : remote'[h] = remote[h]
      /\ remote' \in [Grafanas -> Seq(Entry)]
  BY <1>1, <1>2 DEF TypeOK, Post
<1>4. Written.owner = key /\ Written.live
  BY DEF Written
<1>5. \A h \in Grafanas :
         DOMAIN remote'[h] = DOMAIN remote[h] \cup (IF h = g THEN {Len(remote[g]) + 1} ELSE {})
  BY <1>2, <1>3
<1>6. \A h \in Grafanas : \A i \in DOMAIN remote[h] :
         i \in DOMAIN remote'[h] /\ remote'[h][i] = remote[h][i]
  BY <1>2, <1>3
<1>7. QED
  <2> HIDE DEF Written, Entry
  <2>1. QED
    BY <1>1, <1>2, <1>3, <1>4, <1>5, <1>6 DEF NumberOfAnswer

LEMMA PutType ==
  ASSUME TypeOK, key \in Datasources, NEW g, PutAccepted(g), Put(g), binding[key] = g
  PROVE  /\ remote' \in [Grafanas -> Seq(Entry)] /\ g \in Grafanas
         /\ local.id \in DOMAIN remote[g]
         /\ \A h \in Grafanas : DOMAIN remote'[h] = DOMAIN remote[h]
         /\ remote'[g][local.id] = Written /\ Written.owner = key /\ Written.live
         /\ \A h \in Grafanas : \A i \in DOMAIN remote[h] :
               h # g \/ i # local.id => remote'[h][i] = remote[h][i]
<1>1. /\ g \in Grafanas /\ remote[g] \in Seq(Entry) /\ Written \in Entry
      /\ local.id \in DOMAIN remote[g]
  BY DEF TypeOK, PutAccepted, Live, Written, Entry, Object
<1>2. [remote[g] EXCEPT ![local.id] = Written] \in Seq(Entry)
  <2> HIDE DEF Entry, Written
  <2>1. QED
    BY <1>1
<1>3. /\ remote' = [remote EXCEPT ![g] = [remote[g] EXCEPT ![local.id] = Written]]
      /\ Written.owner = key /\ Written.live
  BY DEF Put, Written
<1>4. QED
  BY <1>1, <1>2, <1>3 DEF TypeOK

LEMMA RemoveType ==
  ASSUME TypeOK, NEW g \in Grafanas, Live(g, local.id), Remove(g)
  PROVE  /\ remote' \in [Grafanas -> Seq(Entry)]
         /\ \A h \in Grafanas : DOMAIN remote'[h] = DOMAIN remote[h]
         /\ ~remote'[g][local.id].live
         /\ \A h \in Grafanas : \A i \in DOMAIN remote[h] :
               /\ remote'[h][i].owner = remote[h][i].owner
               /\ h # g \/ i # local.id => remote'[h][i] = remote[h][i]
<1>1. remote[g] \in Seq(Entry) /\ local.id \in DOMAIN remote[g]
  BY DEF TypeOK, Live
<1>2. remote[g][local.id] \in Entry
  BY <1>1
<1> DEFINE e == [remote[g][local.id] EXCEPT !.live = FALSE]
<1>3. e \in Entry /\ e.owner = remote[g][local.id].owner /\ ~e.live
  BY <1>2 DEF Entry
<1>4. remote' = [remote EXCEPT ![g] = [remote[g] EXCEPT ![local.id] = e]]
  BY DEF Remove
<1> HIDE DEF e
<1>5. [remote[g] EXCEPT ![local.id] = e] \in Seq(Entry)
  <2> HIDE DEF Entry
  <2>1. QED
    BY <1>1, <1>3
<1>6. QED
  BY <1>1, <1>3, <1>4, <1>5 DEF TypeOK

LEMMA InitType == Init => TypeOK
<1> SUFFICES ASSUME Init PROVE TypeOK
  OBVIOUS
<1>1. [live |-> TRUE, owner |-> NoKey, spec |-> 0] \in Entry
  BY DEF Entry
<1>2. \A g \in Grafanas : remote[g] \in Seq(Entry)
  BY <1>1 DEF Init
<1>3. remote \in [Grafanas -> Seq(Entry)]
  BY <1>2 DEF Init
<1>4. QED
  BY <1>3, AbsentType, DatasourceAssumption DEF Init, TypeOK, Steps

LEMMA NextType == TypeOK /\ [Next]_vars => TypeOK'
<1> SUFFICES ASSUME TypeOK, [Next]_vars PROVE TypeOK'
  OBVIOUS
<1> USE DatasourceAssumption
<1>1. ASSUME NEW d \in Datasources, EditSpec(d) PROVE TypeOK'
  <2>1. [obj[d] EXCEPT !.generation = @ + 1] \in Object
    <3>1. obj[d] \in Object
      BY DEF TypeOK
    <3>2. QED
      BY <3>1 DEF Object
  <2>2. obj' \in [Datasources -> Object]
    BY <1>1, <2>1 DEF TypeOK, EditSpec
  <2>3. QED
    BY <1>1, <2>2 DEF TypeOK, EditSpec, workerVars, boundVars
<1>2. ASSUME NEW d \in Datasources, DeleteObject(d) PROVE TypeOK'
  <2>1. [obj[d] EXCEPT !.deleting = TRUE] \in Object
    BY DEF TypeOK, Object
  <2>2. obj' \in [Datasources -> Object]
    BY AbsentType, <1>2, <2>1 DEF TypeOK, DeleteObject
  <2>3. QED
    BY <1>2, <2>2 DEF TypeOK, DeleteObject, workerVars, boundVars
<1>3. ASSUME NEW d \in Datasources, Rebind(d) PROVE TypeOK'
  BY <1>3 DEF TypeOK, Rebind, workerVars
<1>4. ASSUME NEW d \in Datasources, Deliver(d) PROVE TypeOK'
  BY <1>4 DEF TypeOK, Deliver, workerVars, boundVars
<1>5. CASE Resync
  BY <1>5 DEF TypeOK, Resync, Existing, workerVars
<1>6. CASE Restart
  BY <1>6, AbsentType DEF TypeOK, Restart, Existing, Steps
<1>7. ASSUME NEW d \in Datasources, Start(d) PROVE TypeOK'
  <2>1. FirstStep(seen[d]) \in Steps
    BY DEF FirstStep, Steps
  <2>2. seen[d] \in Object
    BY DEF TypeOK
  <2>3. QED
    BY <1>7, <2>1, <2>2 DEF TypeOK, Start, workerVars, boundVars
<1>8. ASSUME pc # "idle", Finalize \/ Mark \/ Sync \/ Record \/ MarkFailed \/ MarkTerminating \/ Cleanup
                \/ Release \/ ApiFault \/ GrafanaFault
      PROVE TypeOK'
  <2>1. key \in Datasources /\ obj[key] \in Object /\ local \in Object
    BY <1>8 DEF TypeOK
  <2>2. obj' \in [Datasources -> Object]
    <3>1. CASE UNCHANGED obj
      BY <3>1 DEF TypeOK
    <3>2. CASE Finalize
      <4>1. [obj[key] EXCEPT !.finalizer = TRUE] \in Object
        BY <2>1 DEF Object
      <4>2. QED
        BY <2>1, <3>2, <4>1, AbsentType DEF Finalize, TypeOK
    <3>3. CASE Release
      BY <2>1, <3>3, AbsentType DEF Release, TypeOK
    <3>4. QED
      BY <1>8, <2>1, <3>1, <3>2, <3>3, PatchFrame, NewStatusType
      DEF Mark, Sync, Record, MarkFailed, MarkTerminating, Cleanup, ApiFault, GrafanaFault
  <2>3. remote' \in [Grafanas -> Seq(Entry)]
    <3>1. CASE UNCHANGED remote
      BY <3>1 DEF TypeOK
    <3>2. CASE Sync
      BY <2>1, <3>1, <3>2, PostType, PutType DEF Sync
    <3>3. CASE Cleanup
      <4>1. binding[key] \in Grafanas \cup {NoGrafana}
        BY <2>1 DEF TypeOK
      <4>2. QED
        BY <3>1, <3>3, <4>1, RemoveType DEF Cleanup, Removable
    <3>4. CASE GrafanaFault
      <4>1. binding[key] \in Grafanas \cup {NoGrafana}
        BY <2>1 DEF TypeOK
      <4>2. QED
        BY <2>1, <3>1, <3>4, <4>1, RemoveType, PostType, PutType DEF GrafanaFault, Removable
    <3>5. QED
      BY <1>8, <3>1, <3>2, <3>3, <3>4
      DEF Finalize, Mark, Record, MarkFailed, MarkTerminating, Release, ApiFault
  <2>4. /\ queue' \subseteq Datasources /\ pc' \in Steps /\ local' \in Object
        /\ IF pc' = "idle" THEN key' = NoKey ELSE key' \in Datasources
    <3>1. CASE Return(TRUE) \/ Return(FALSE)
      BY <2>1, <3>1, ReturnType DEF Steps
    <3>2. ASSUME NEW s \in Steps \ {"idle"}, NEW o \in Object, Goto(s, o)
          PROVE  /\ queue' \subseteq Datasources /\ pc' \in Steps /\ local' \in Object
                 /\ IF pc' = "idle" THEN key' = NoKey ELSE key' \in Datasources
      BY <2>1, <3>2 DEF Goto, TypeOK
    <3>3. obj'[key] \in Object
      BY <2>1, <2>2
    <3>4. {"sync", "created", "updated", "fail", "cleanup", "release"} \subseteq Steps \ {"idle"}
      BY DEF Steps
    <3>5. CASE Sync
      <4>1. PostAccepted(binding[key]) /\ Post(binding[key]) =>
               [local EXCEPT !.id = NumberOfAnswer(binding[key])] \in Object
        BY <2>1, PostType DEF Object
      <4>2. QED
        BY <2>1, <3>2, <3>4, <3>5, <4>1 DEF Sync
    <3>6. CASE ApiFault \/ GrafanaFault
      BY <2>1, <3>1, <3>2, <3>4, <3>6 DEF ApiFault, GrafanaFault
    <3>7. QED
      BY <1>8, <2>1, <3>1, <3>2, <3>3, <3>4, <3>5, <3>6
      DEF Finalize, Mark, Record, MarkFailed, MarkTerminating, Cleanup, Release
  <2>5. /\ UNCHANGED <<seen, binding, rebinds, crashes, resyncs>>
        /\ faults' = faults \/ faults' = faults + 1
    BY <1>8 DEF Finalize, Mark, Sync, Record, MarkFailed, MarkTerminating, Cleanup, Release, ApiFault,
                GrafanaFault, boundVars
  <2>6. QED
    BY <2>2, <2>3, <2>4, <2>5 DEF TypeOK
<1>9. CASE UNCHANGED vars
  BY <1>9 DEF TypeOK, vars
<1>10. QED
  BY <1>1, <1>2, <1>3, <1>4, <1>5, <1>6, <1>7, <1>8, <1>9
  DEF Next, User, Step, Finalize, Mark, Sync, Record, MarkFailed, MarkTerminating, Cleanup, Release,
      ApiFault, GrafanaFault

\* Every variable keeps its type.
THEOREM DatasourceTypeCorrect == Spec => []TypeOK
BY InitType, NextType, PTL DEF Spec

-----------------------------------------------------------------------------
LEMMA InitFinalizer == Init => FinalizerInv
<1> SUFFICES ASSUME Init PROVE FinalizerInv
  OBVIOUS
<1>1. \A d \in Datasources : ~obj[d].deleting /\ ~seen[d].exists
  BY DEF Init, Absent
<1>2. pc = "idle"
  BY DEF Init
<1>3. QED
  BY <1>1, <1>2 DEF FinalizerInv, Syncing, Ending

LEMMA NextFinalizer == TypeOK /\ TypeOK' /\ FinalizerInv /\ [Next]_vars => FinalizerInv'
<1> SUFFICES ASSUME TypeOK, TypeOK', FinalizerInv, [Next]_vars PROVE FinalizerInv'
  OBVIOUS
<1> USE DatasourceAssumption DEF Syncing, Ending
<1>1. ASSUME NEW d \in Datasources, EditSpec(d) PROVE FinalizerInv'
  <2>1. obj[d] \in Object /\ obj' = [obj EXCEPT ![d] = [obj[d] EXCEPT !.generation = @ + 1]]
    BY <1>1 DEF TypeOK, EditSpec
  <2>2. /\ obj'[d].exists = obj[d].exists /\ obj'[d].deleting = obj[d].deleting
        /\ obj'[d].finalizer = obj[d].finalizer
        /\ \A e \in Datasources \ {d} : obj'[e] = obj[e]
    BY <2>1 DEF TypeOK, Object
  <2>3. UNCHANGED <<seen, pc, key>>
    BY <1>1 DEF EditSpec, workerVars
  <2>4. QED
    BY <2>2, <2>3 DEF FinalizerInv, TypeOK
<1>2. ASSUME NEW d \in Datasources, DeleteObject(d) PROVE FinalizerInv'
  <2>1. CASE obj[d].finalizer
    <3>1. obj[d] \in Object /\ obj' = [obj EXCEPT ![d] = [obj[d] EXCEPT !.deleting = TRUE]]
      BY <1>2, <2>1 DEF TypeOK, DeleteObject
    <3>2. /\ obj'[d].exists = obj[d].exists /\ obj'[d].deleting
          /\ obj'[d].finalizer = obj[d].finalizer
          /\ \A e \in Datasources \ {d} : obj'[e] = obj[e]
      BY <3>1 DEF TypeOK, Object
    <3>5. obj[d].exists
      BY <1>2 DEF DeleteObject
    <3>3. UNCHANGED <<seen, pc, key>>
      BY <1>2 DEF DeleteObject, workerVars
    <3>6. QED
      BY <2>1, <3>2, <3>3, <3>5 DEF FinalizerInv, TypeOK
  <2>2. CASE ~obj[d].finalizer
    <3>1. /\ ~obj'[d].exists /\ ~obj'[d].deleting
          /\ \A e \in Datasources \ {d} : obj'[e] = obj[e]
      BY <1>2, <2>2 DEF TypeOK, DeleteObject, Absent
    <3>2. UNCHANGED <<seen, pc, key>> /\ ~obj[d].deleting
      BY <1>2 DEF DeleteObject, workerVars
    <3>3. QED
      BY <2>2, <3>1, <3>2 DEF FinalizerInv, TypeOK
  <2>3. QED
    BY <2>1, <2>2 DEF TypeOK, Object
<1>3. ASSUME NEW d \in Datasources, Rebind(d) PROVE FinalizerInv'
  BY <1>3 DEF FinalizerInv, Rebind, workerVars
<1>4. ASSUME NEW d \in Datasources, Deliver(d) PROVE FinalizerInv'
  <2>1. /\ UNCHANGED <<obj, pc, key>>
        /\ seen'[d] = obj[d] /\ \A e \in Datasources \ {d} : seen'[e] = seen[e]
    BY <1>4 DEF TypeOK, Deliver, workerVars
  <2>2. pc \in Ending /\ key = d /\ seen'[d].exists => seen'[d].deleting
    BY <2>1 DEF FinalizerInv
  <2>3. pc \in Ending => key \in Datasources
    BY DEF TypeOK
  <2>4. QED
    BY <2>1, <2>2, <2>3 DEF FinalizerInv
<1>5. CASE Resync
  BY <1>5 DEF FinalizerInv, Resync, workerVars
<1>6. CASE Restart
  BY <1>6 DEF TypeOK, Object, FinalizerInv, Restart
<1>7. ASSUME NEW d \in Datasources, Start(d) PROVE FinalizerInv'
  <2>1. UNCHANGED <<obj, seen>>
    BY <1>7 DEF Start
  <2>2. CASE UNCHANGED workerVars
    BY <2>1, <2>2 DEF FinalizerInv, workerVars
  <2>3. CASE ~UNCHANGED workerVars
    <3>1. seen[d].exists /\ key' = d /\ pc' = FirstStep(seen[d]) /\ pc' # "idle"
      BY <1>7, <2>3 DEF Start
    <3>2. \/ pc' = "terminate" /\ seen[d].deleting
          \/ pc' = "finalize"
          \/ pc' = "mark" /\ seen[d].finalizer /\ ~seen[d].deleting
      BY <3>1 DEF FirstStep
    <3>3. QED
      BY <2>1, <3>1, <3>2 DEF FinalizerInv
  <2>4. QED
    BY <2>2, <2>3
<1>8. CASE Finalize
  <2>1. key \in Datasources /\ obj[key] \in Object
    BY <1>8 DEF TypeOK, Finalize
  <2>2. pc' = "idle" /\ UNCHANGED seen
    BY <1>8 DEF Finalize, Return
  <2>3. CASE obj' = obj
    BY <2>2, <2>3 DEF FinalizerInv
  <2>4. CASE obj' # obj
    <3>1. /\ obj'[key].exists /\ obj'[key].finalizer
          /\ obj'[key].deleting = (obj[key].exists /\ obj[key].deleting)
          /\ ~obj[key].exists => ~seen[key].exists
          /\ \A e \in Datasources \ {key} : obj'[e] = obj[e]
      <4>1. CASE CanPatch(key)
        <5>1. obj' = [obj EXCEPT ![key] = [obj[key] EXCEPT !.finalizer = TRUE]] /\ obj[key].exists
          BY <1>8, <4>1 DEF Finalize, CanPatch
        <5>2. QED
          BY <2>1, <5>1 DEF TypeOK, Object
      <4>2. CASE ~CanPatch(key)
        <5>1. /\ obj' = [obj EXCEPT ![key] = [Absent EXCEPT !.exists = TRUE, !.finalizer = TRUE,
                                                             !.generation = 1]]
              /\ ~seen[key].exists /\ ~obj[key].exists
          BY <1>8, <2>4, <4>2 DEF Finalize, CanPatch
        <5>2. QED
          BY <2>1, <5>1 DEF TypeOK, Absent
      <4>3. QED
        BY <4>1, <4>2
    <3>2. QED
      BY <2>1, <2>2, <3>1 DEF FinalizerInv
  <2>5. QED
    BY <2>3, <2>4
<1>9. CASE Mark \/ Record \/ MarkFailed \/ MarkTerminating
  <2>1. key \in Datasources /\ UNCHANGED seen
    BY <1>9 DEF TypeOK, Mark, Record, MarkFailed, MarkTerminating
  <2>2. CASE obj' = obj
    <3>1. /\ pc' \in {"idle"} \/ (pc \in Syncing /\ pc' \in Syncing /\ key' = key)
          \/ (pc = "terminate" /\ pc' = "cleanup" /\ key' = key /\ CanPatch(key))
      BY <1>9 DEF Mark, Record, MarkFailed, MarkTerminating, Return, Goto
    <3>2. QED
      BY <2>1, <2>2, <3>1 DEF FinalizerInv, CanPatch
  <2>3. CASE obj' # obj
    <3>1. /\ CanPatch(key)
          /\ \A e \in Datasources \ {key} : obj'[e] = obj[e]
          /\ obj'[key].exists = obj[key].exists
          /\ obj'[key].deleting = obj[key].deleting
          /\ obj'[key].finalizer = obj[key].finalizer
      BY <1>9, <2>1, <2>3, PatchFrame, NewStatusType
      DEF Mark, Record, MarkFailed, MarkTerminating
    <3>2. \/ pc' = "idle"
          \/ pc = "mark" /\ pc' = "sync" /\ key' = key
          \/ pc = "terminate" /\ pc' = "cleanup" /\ key' = key
      BY <1>9, <2>3 DEF Mark, Record, MarkFailed, MarkTerminating, Return, Goto
    <3>3. QED
      BY <2>1, <3>1, <3>2 DEF FinalizerInv, CanPatch
  <2>4. QED
    BY <2>2, <2>3
<1>10. CASE Sync
  <2>1. pc = "sync" /\ pc' \in {"created", "updated", "fail"} /\ UNCHANGED <<key, obj, seen>>
    BY <1>10 DEF Sync, Goto
  <2>2. QED
    BY <2>1 DEF FinalizerInv
<1>11. CASE Cleanup
  <2>1. pc = "cleanup" /\ UNCHANGED <<obj, seen>>
        /\ (Return(TRUE) \/ Goto("release", local))
    BY <1>11, Zenon DEF Cleanup
  <2>2. pc' = "idle" \/ (pc' = "release" /\ key' = key)
    BY <2>1 DEF Goto, Return
  <2>3. QED
    BY <2>1, <2>2 DEF FinalizerInv
<1>12. CASE Release
  <2>1. key \in Datasources /\ pc' = "idle" /\ UNCHANGED seen /\ pc = "release"
    BY <1>12 DEF Release, TypeOK, Return
  <2>2. CASE obj' = obj
    BY <2>1, <2>2 DEF FinalizerInv
  <2>3. CASE obj' # obj
    <3>1. /\ \A e \in Datasources \ {key} : obj'[e] = obj[e]
          /\ ~obj'[key].exists /\ ~obj'[key].deleting
      <4>1. obj' = [obj EXCEPT ![key] = Absent]
        BY <1>12, <2>3 DEF Release
      <4>2. QED
        BY <2>1, <4>1 DEF TypeOK, Absent
    <3>2. QED
      BY <2>1, <3>1 DEF FinalizerInv
  <2>4. QED
    BY <2>2, <2>3
<1>13. CASE ApiFault \/ GrafanaFault
  <2>1. UNCHANGED <<obj, seen>> /\ (pc' = "idle" \/ (pc \in Syncing /\ pc' = "fail" /\ key' = key))
    BY <1>13 DEF ApiFault, GrafanaFault, Return, Goto
  <2>2. QED
    BY <2>1 DEF FinalizerInv
<1>14. CASE UNCHANGED vars
  BY <1>14 DEF FinalizerInv, vars
<1>15. QED
  BY <1>1, <1>2, <1>3, <1>4, <1>5, <1>6, <1>7, <1>8, <1>9, <1>10, <1>11, <1>12, <1>13, <1>14
  DEF Next, User, Step

\* A cached finalizer, and a cached deletion, can be trusted.
THEOREM FinalizerInvariant == Spec => []FinalizerInv
<1>1. Init => TypeOK /\ FinalizerInv
  BY InitType, InitFinalizer
<1>2. TypeOK /\ FinalizerInv /\ [Next]_vars => (TypeOK /\ FinalizerInv)'
  BY NextType, NextFinalizer
<1>3. QED
  BY <1>1, <1>2, PTL DEF Spec

\* Grafana is written to only under the finalizer.
THEOREM GrafanaWrittenUnderFinalizer == Spec => WritesUnderFinalizer
<1>1. TypeOK /\ FinalizerInv /\ [Next]_vars =>
         [remote' # remote => obj[key].exists /\ obj[key].finalizer]_vars
  <2> SUFFICES ASSUME TypeOK, FinalizerInv, [Next]_vars, remote' # remote
               PROVE  obj[key].exists /\ obj[key].finalizer
    OBVIOUS
  <2>1. pc \in {"sync", "cleanup"}
    BY DEF Next, User, Step, EditSpec, DeleteObject, Rebind, Resync, Restart, ApiFault, GrafanaFault,
           Finalize, Mark, Sync, Record, MarkFailed, MarkTerminating, Cleanup, Release, Deliver, Start,
           vars
  <2>2. key \in Datasources
    BY <2>1 DEF TypeOK
  <2>3. QED
    BY <2>1, <2>2 DEF FinalizerInv, Syncing
<1>2. QED
  BY <1>1, FinalizerInvariant, DatasourceTypeCorrect, PTL DEF Spec, WritesUnderFinalizer

-----------------------------------------------------------------------------
\* Under references b, number n is that of a datasource of d's in r.
OwnNumber(b, r, d, n) ==
    n # NoID => /\ b[d] # NoGrafana
                /\ n \in DOMAIN r[b[d]]
                /\ r[b[d]][n].owner = d

LEMMA NumberInvMeans ==
  NumberInv <=> (rebinds = 0 =>
                   /\ \A d \in Datasources : /\ OwnNumber(binding, remote, d, obj[d].id)
                                               /\ OwnNumber(binding, remote, d, seen[d].id)
                   /\ key \in Datasources => OwnNumber(binding, remote, key, local.id))
BY Zenon DEF NumberInv, OwnNumber

\* While no reference moves the worker writes to its own datasources only.
LEMMA WorkerWritesOwn ==
  ASSUME TypeOK, NumberInv, rebinds = 0, key \in Datasources, Sync \/ Cleanup \/ GrafanaFault
  PROVE  /\ \A g \in Grafanas : \A i \in DOMAIN remote[g] :
               /\ i \in DOMAIN remote'[g] /\ remote'[g][i].owner = remote[g][i].owner
               /\ remote[g][i].owner # key => remote'[g][i] = remote[g][i]
         /\ \/ local'.id \in {local.id, NoID}
            \/ /\ binding[key] \in Grafanas
               /\ local'.id \in DOMAIN remote'[binding[key]]
               /\ remote'[binding[key]][local'.id].owner = key
<1> DEFINE g == binding[key]
<1>0. Absent.id = NoID
  BY DEF Absent
<1>1. g \in Grafanas \cup {NoGrafana} /\ local \in Object
  BY DEF TypeOK
<1>2. OwnNumber(binding, remote, key, local.id)
  BY NumberInvMeans
<1>3. CASE UNCHANGED remote /\ local'.id \in {local.id, NoID}
  BY <1>3
<1>4. CASE PostAccepted(g) /\ Post(g)
  <2>1. local'.id \in {local.id, NoID, NumberOfAnswer(g)}
    <3>1. [local EXCEPT !.id = NumberOfAnswer(g)].id = NumberOfAnswer(g)
      BY <1>1 DEF Object
    <3>2. local' \in {local, Absent, [local EXCEPT !.id = NumberOfAnswer(g)]}
      BY DEF Sync, Cleanup, GrafanaFault, Goto, Return
    <3>3. QED
      BY <1>0, <3>1, <3>2
  <2>2. QED
    BY <1>4, <2>1, PostType
<1>5. CASE PutAccepted(g) /\ Put(g) /\ local' \in {local, Absent}
  <2>1. local.id \in DOMAIN remote[g] /\ remote[g][local.id].owner = key
    BY <1>2, <1>5, PutType DEF OwnNumber, PutAccepted
  <2>2. QED
    BY <1>0, <1>5, <2>1, PutType
<1>6. CASE Removable(local, g) /\ Remove(g) /\ local' \in {local, Absent}
  <2>1. remote[g][local.id].owner = key
    BY <1>2, <1>6 DEF OwnNumber, Removable
  <2>2. QED
    BY <1>0, <1>1, <1>6, <2>1, RemoveType DEF Removable
<1>7. QED
  <2>1. CASE Sync
    BY <1>3, <1>4, <1>5, <2>1 DEF Sync, Goto
  <2>2. CASE Cleanup
    <3>1. local' \in {local, Absent}
      BY <2>2 DEF Cleanup, Goto, Return
    <3>2. UNCHANGED remote \/ (Removable(local, g) /\ Remove(g))
      BY <2>2 DEF Cleanup
    <3>3. QED
      BY <1>0, <1>3, <1>6, <3>1, <3>2
  <2>3. CASE GrafanaFault
    <3>1. local' \in {local, Absent}
      BY <2>3 DEF GrafanaFault, Goto, Return
    <3>2. \/ UNCHANGED remote
          \/ PostAccepted(g) /\ Post(g)
          \/ PutAccepted(g) /\ Put(g)
          \/ Removable(local, g) /\ Remove(g)
      BY <2>3 DEF GrafanaFault
    <3>3. QED
      BY <1>0, <1>3, <1>4, <1>5, <1>6, <3>1, <3>2
  <2>4. QED
    BY <2>1, <2>2, <2>3

\* A number that is d's stays d's.
LEMMA OwnNumberKept ==
  ASSUME TypeOK, UNCHANGED binding,
         \A g \in Grafanas : \A i \in DOMAIN remote[g] :
            i \in DOMAIN remote'[g] /\ remote'[g][i].owner = remote[g][i].owner,
         NEW d \in Datasources, NEW n, OwnNumber(binding, remote, d, n)
  PROVE  OwnNumber(binding', remote', d, n)
BY DEF TypeOK, OwnNumber

\* What one step does to the numbers the objects and the worker hold.
NumbersFlow ==
    /\ UNCHANGED binding
    /\ \A d \in Datasources :
          /\ \/ obj'[d].id \in {obj[d].id, NoID}
             \/ key = d /\ obj'[d].id \in {seen[d].id, local.id}
          /\ seen'[d].id \in {obj[d].id, seen[d].id}
    /\ \/ UNCHANGED remote
       \/ key \in Datasources /\ (Sync \/ Cleanup \/ GrafanaFault)
    /\ key' \in Datasources =>
          \/ local'.id \in {obj'[key'].id, seen'[key'].id}
          \/ key' = key /\ local'.id = local.id
          \/ key' = key /\ (Sync \/ Cleanup \/ GrafanaFault)

LEMMA NumberFlow == TypeOK /\ [Next]_vars /\ rebinds' = 0 => NumbersFlow
<1> SUFFICES ASSUME TypeOK, [Next]_vars, rebinds' = 0 PROVE NumbersFlow
  OBVIOUS
<1> USE DatasourceAssumption
<1>0. Absent.id = NoID /\ [Absent EXCEPT !.exists = TRUE, !.finalizer = TRUE, !.generation = 1].id = NoID
  BY DEF Absent
<1>1. ASSUME NEW d \in Datasources, EditSpec(d) \/ DeleteObject(d) PROVE NumbersFlow
  <2>1. /\ [obj[d] EXCEPT !.generation = @ + 1].id = obj[d].id
        /\ [obj[d] EXCEPT !.deleting = TRUE].id = obj[d].id
    <3>1. obj[d] \in Object
      BY DEF TypeOK
    <3>2. QED
      BY <3>1 DEF Object
  <2>2. \A e \in Datasources : obj'[e].id \in {obj[e].id, NoID}
    BY <1>0, <1>1, <2>1 DEF TypeOK, EditSpec, DeleteObject
  <2>3. UNCHANGED <<seen, binding, remote, key, local>>
    BY <1>1 DEF EditSpec, DeleteObject, workerVars
  <2>4. QED
    BY <2>2, <2>3 DEF NumbersFlow
<1>2. ASSUME NEW d \in Datasources, Rebind(d) PROVE NumbersFlow
  BY <1>2 DEF Rebind, TypeOK
<1>3. ASSUME NEW d \in Datasources, Deliver(d) PROVE NumbersFlow
  <2>1. \A e \in Datasources : seen'[e] \in {obj[e], seen[e]}
    BY <1>3 DEF TypeOK, Deliver
  <2>2. QED
    BY <1>3, <2>1 DEF Deliver, NumbersFlow, workerVars
<1>4. CASE Resync \/ ApiFault \/ UNCHANGED vars
  BY <1>4 DEF Resync, ApiFault, Goto, Return, vars, workerVars, NumbersFlow
<1>5. CASE Restart
  BY <1>5 DEF Restart, NumbersFlow
<1>6. ASSUME NEW d \in Datasources, Start(d) PROVE NumbersFlow
  BY <1>6 DEF Start, NumbersFlow, workerVars
<1>7. CASE Sync \/ Cleanup \/ GrafanaFault
  <2>1. key \in Datasources
    BY <1>7 DEF Sync, Cleanup, GrafanaFault, TypeOK
  <2>2. UNCHANGED <<obj, seen, binding>> /\ key' \in {key, NoKey}
    BY <1>7 DEF Sync, Cleanup, GrafanaFault, Goto, Return
  <2>3. QED
    BY <1>7, <2>1, <2>2 DEF NumbersFlow
<1>8. CASE Finalize
  <2>1. key \in Datasources /\ obj[key] \in Object
    BY <1>8 DEF Finalize, TypeOK
  <2>2. [obj[key] EXCEPT !.finalizer = TRUE].id = obj[key].id
    BY <2>1 DEF Object
  <2>3. \A e \in Datasources : obj'[e].id \in {obj[e].id, NoID}
    BY <1>0, <1>8, <2>1, <2>2 DEF TypeOK, Finalize
  <2>4. UNCHANGED <<seen, binding, remote>> /\ key' = NoKey
    BY <1>8 DEF Finalize, Return
  <2>5. QED
    BY <2>3, <2>4 DEF NumbersFlow
<1>9. CASE Mark \/ Record \/ MarkFailed \/ MarkTerminating
  <2>1. key \in Datasources /\ UNCHANGED <<seen, binding, remote>>
    BY <1>9 DEF Mark, Record, MarkFailed, MarkTerminating, TypeOK
  <2>2. /\ Created(seen[key]).id = local.id
        /\ Updated(seen[key]).id = seen[key].id
        /\ [seen[key] EXCEPT !.phase = "Processing", !.observed = seen[key].generation].id = seen[key].id
        /\ [seen[key] EXCEPT !.phase = "Failed", !.reason = "failed"].id = seen[key].id
        /\ [seen[key] EXCEPT !.phase = "Terminating"].id = seen[key].id
    <3>1. seen[key] \in Object
      BY <2>1 DEF TypeOK
    <3>2. QED
      BY <3>1 DEF Object, Created, Updated
  <2>3. /\ obj'[key].id \in {obj[key].id, seen[key].id, local.id}
        /\ \A e \in Datasources \ {key} : obj'[e] = obj[e]
    BY <1>9, <2>1, <2>2, PatchFrame, NewStatusType
    DEF Mark, Record, MarkFailed, MarkTerminating
  <2>4. \/ key' = NoKey
        \/ key' = key /\ local' \in {local, obj'[key]}
    BY <1>9 DEF Mark, Record, MarkFailed, MarkTerminating, Goto, Return
  <2>5. QED
    BY <2>1, <2>3, <2>4 DEF NumbersFlow
<1>10. CASE Release
  <2>1. key \in Datasources /\ UNCHANGED <<seen, binding, remote>> /\ key' = NoKey
    BY <1>10 DEF Release, TypeOK, Return
  <2>2. \A e \in Datasources : obj'[e].id \in {obj[e].id, NoID}
    BY <1>0, <1>10, <2>1 DEF TypeOK, Release
  <2>3. QED
    BY <2>1, <2>2 DEF NumbersFlow
<1>11. QED
  BY <1>1, <1>2, <1>3, <1>4, <1>5, <1>6, <1>7, <1>8, <1>9, <1>10 DEF Next, User, Step

LEMMA InitNumber == Init => NumberInv
<1> SUFFICES ASSUME Init PROVE NumberInv
  OBVIOUS
<1>1. \A d \in Datasources : obj[d].id = NoID /\ seen[d].id = NoID
  BY DEF Init, Absent
<1>2. key = NoKey
  BY DEF Init
<1>3. QED
  BY <1>1, <1>2, DatasourceAssumption DEF NumberInv

LEMMA NextNumber == TypeOK /\ NumberInv /\ [Next]_vars => NumberInv'
<1> SUFFICES ASSUME TypeOK, NumberInv, [Next]_vars, rebinds' = 0 PROVE NumberInv'
  BY DEF NumberInv
<1>1. rebinds = 0
  <2>1. (\E d \in Datasources : Rebind(d)) \/ rebinds' = rebinds
    BY DEF Next, User, Step, EditSpec, DeleteObject, Resync, Restart, ApiFault, GrafanaFault,
           Finalize, Mark, Sync, Record, MarkFailed, MarkTerminating, Cleanup, Release, Deliver,
           Start, vars, boundVars
  <2>2. rebinds \in Nat
    BY DEF TypeOK
  <2>3. QED
    BY <2>1, <2>2 DEF Rebind
<1>2. NumbersFlow
  BY NumberFlow
<1>3. /\ \A d \in Datasources : /\ OwnNumber(binding, remote, d, obj[d].id)
                                /\ OwnNumber(binding, remote, d, seen[d].id)
      /\ key \in Datasources => OwnNumber(binding, remote, key, local.id)
  BY <1>1, NumberInvMeans
<1>4. \A g \in Grafanas : \A i \in DOMAIN remote[g] :
         i \in DOMAIN remote'[g] /\ remote'[g][i].owner = remote[g][i].owner
  BY <1>1, <1>2, WorkerWritesOwn DEF NumbersFlow
<1>5. \A d \in Datasources : \A n :
         OwnNumber(binding, remote, d, n) => OwnNumber(binding', remote', d, n)
  BY <1>2, <1>4, OwnNumberKept DEF NumbersFlow
<1>6. \A d \in Datasources : OwnNumber(binding', remote', d, NoID)
  BY DEF OwnNumber
<1>7. \A d \in Datasources : /\ OwnNumber(binding', remote', d, obj'[d].id)
                             /\ OwnNumber(binding', remote', d, seen'[d].id)
  BY <1>2, <1>3, <1>5, <1>6 DEF NumbersFlow
<1>8. key' \in Datasources => OwnNumber(binding', remote', key', local'.id)
  <2> SUFFICES ASSUME key' \in Datasources PROVE OwnNumber(binding', remote', key', local'.id)
    OBVIOUS
  <2>1. CASE local'.id \in {obj'[key'].id, seen'[key'].id}
    BY <1>7, <2>1
  <2>2. CASE key' = key /\ local'.id = local.id
    BY <1>3, <1>5, <2>2
  <2>3. CASE key' = key /\ (Sync \/ Cleanup \/ GrafanaFault)
    <3>1. CASE local'.id \in {local.id, NoID}
      BY <1>3, <1>5, <1>6, <2>3, <3>1
    <3>2. CASE ~(local'.id \in {local.id, NoID})
      <4>1. /\ binding[key] \in Grafanas
            /\ local'.id \in DOMAIN remote'[binding[key]]
            /\ remote'[binding[key]][local'.id].owner = key
        BY <1>1, <2>3, <3>2, WorkerWritesOwn
      <4>2. QED
        BY <1>2, <2>3, <4>1, DatasourceAssumption DEF OwnNumber, NumbersFlow
    <3>3. QED
      BY <3>1, <3>2
  <2>4. QED
    BY <1>2, <2>1, <2>2, <2>3 DEF NumbersFlow
<1>9. QED
  <2>1. ASSUME NEW d \in Datasources,
               NEW o \in {obj'[d], seen'[d]} \cup (IF key' = d THEN {local'} ELSE {})
        PROVE  OwnNumber(binding', remote', d, o.id)
    BY <1>7, <1>8
  <2>2. QED
    BY <2>1 DEF NumberInv, OwnNumber

\* The recorded numbers are the object's own while no reference moves.
THEOREM NumberInvariant == Spec => []NumberInv
<1>1. Init => TypeOK /\ NumberInv
  BY InitType, InitNumber
<1>2. TypeOK /\ NumberInv /\ [Next]_vars => (TypeOK /\ NumberInv)'
  BY NextType, NextNumber
<1>3. QED
  BY <1>1, <1>2, PTL DEF Spec

\* While no reference moves nobody else's datasource is written or deleted.
THEOREM NothingForeignTouched == Spec => NeverForeign
<1>1. TypeOK /\ NumberInv /\ [Next]_vars =>
        [rebinds' = 0 =>
            \A g \in Grafanas : \A i \in DOMAIN remote[g] :
               remote[g][i].owner # key => remote'[g][i] = remote[g][i]]_vars
  <2> SUFFICES ASSUME TypeOK, NumberInv, [Next]_vars, rebinds' = 0
               PROVE  \A g \in Grafanas : \A i \in DOMAIN remote[g] :
                         remote[g][i].owner # key => remote'[g][i] = remote[g][i]
    OBVIOUS
  <2>1. rebinds = 0
    <3>1. (\E d \in Datasources : Rebind(d)) \/ rebinds' = rebinds
      BY DEF Next, User, Step, EditSpec, DeleteObject, Resync, Restart, ApiFault, GrafanaFault,
             Finalize, Mark, Sync, Record, MarkFailed, MarkTerminating, Cleanup, Release, Deliver,
             Start, vars, boundVars
    <3>2. rebinds \in Nat
      BY DEF TypeOK
    <3>3. QED
      BY <3>1, <3>2 DEF Rebind
  <2>2. NumbersFlow
    BY NumberFlow
  <2>3. QED
    BY <2>1, <2>2, WorkerWritesOwn DEF NumbersFlow
<1>2. QED
  BY <1>1, NumberInvariant, DatasourceTypeCorrect, PTL DEF Spec, NeverForeign

-----------------------------------------------------------------------------
(* What the worker's steps do to Grafana and to the status. *)

\* A POST gives the key a datasource of its name and changes no other.
LEMMA PostNamed ==
  ASSUME TypeOK, key \in Datasources, NEW g, PostAccepted(g), Post(g), binding[key] = g,
         NEW h \in Grafanas, NEW d \in Datasources, NEW i
  PROVE  i \in Named(h, d)' <=> i \in Named(h, d) \/ (h = g /\ d = key /\ i = NumberOfAnswer(g))
<1>1. CASE i \in DOMAIN remote[h]
  BY <1>1, PostType DEF Named
<1>2. CASE i \notin DOMAIN remote[h]
  <2>1. i \in DOMAIN remote'[h] => h = g /\ i = NumberOfAnswer(g)
    BY <1>2, PostType
  <2>2. QED
    BY <1>2, <2>1, PostType DEF Named
<1>3. QED
  BY <1>1, <1>2

\* A PUT makes the datasource with the worker's number the key's.
LEMMA PutNamed ==
  ASSUME TypeOK, key \in Datasources, NEW g, PutAccepted(g), Put(g), binding[key] = g,
         NEW h \in Grafanas, NEW d \in Datasources, NEW i
  PROVE  i \in Named(h, d)' <=> IF h = g /\ i = local.id THEN d = key ELSE i \in Named(h, d)
<1>1. CASE h = g /\ i = local.id
  BY <1>1, PutType DEF Named
<1>2. CASE h # g \/ i # local.id
  BY <1>2, PutType DEF Named
<1>3. QED
  BY <1>1, <1>2

\* A DELETE takes the datasource with the worker's number.
LEMMA RemoveNamed ==
  ASSUME TypeOK, NEW g \in Grafanas, Live(g, local.id), Remove(g),
         NEW h \in Grafanas, NEW d \in Datasources, NEW i
  PROVE  i \in Named(h, d)' <=> i \in Named(h, d) /\ (h # g \/ i # local.id)
<1>1. CASE h = g /\ i = local.id
  BY <1>1, RemoveType DEF Named
<1>2. CASE h # g \/ i # local.id
  BY <1>2, RemoveType DEF Named
<1>3. QED
  BY <1>1, <1>2

\* The three ways Grafana changes, with where the worker goes from there.
Posts(g) ==
    /\ pc = "sync" /\ key \in Datasources /\ g = binding[key] /\ PostAccepted(g) /\ Post(g)
    /\ \/ pc' = "created" /\ local' = [local EXCEPT !.id = NumberOfAnswer(g)] /\ faults' = faults
       \/ pc' = "fail" /\ local' = local /\ faults' = faults + 1
    /\ UNCHANGED <<obj, seen, binding, key, rebinds, crashes>>

Puts(g) ==
    /\ pc = "sync" /\ key \in Datasources /\ g = binding[key] /\ PutAccepted(g) /\ Put(g)
    /\ \/ pc' = "updated" /\ local' = local /\ faults' = faults
       \/ pc' = "fail" /\ local' = local /\ faults' = faults + 1
    /\ UNCHANGED <<obj, seen, binding, key, rebinds, crashes>>

Removes(g) ==
    /\ pc = "cleanup" /\ key \in Datasources /\ g = binding[key] /\ g \in Grafanas
    /\ local.id # NoID /\ Live(g, local.id) /\ Remove(g)
    /\ \/ pc' = "release" /\ local' = local /\ key' = key /\ faults' = faults
       \/ pc' = "idle" /\ key' = NoKey /\ faults' = faults + 1
    /\ UNCHANGED <<obj, seen, binding, rebinds, crashes>>

LEMMA RemoteSteps ==
  ASSUME TypeOK, [Next]_vars
  PROVE  \/ UNCHANGED remote
         \/ \E g \in Grafanas : Posts(g) \/ Puts(g) \/ Removes(g)
<1>1. CASE ~(Sync \/ Cleanup \/ GrafanaFault)
  BY <1>1 DEF Next, User, Step, EditSpec, DeleteObject, Rebind, Resync, Restart, ApiFault, Finalize,
              Mark, Record, MarkFailed, MarkTerminating, Release, Deliver, Start, vars
<1>2. ASSUME pc # "idle" PROVE key \in Datasources /\ binding[key] \in Grafanas \cup {NoGrafana}
  BY <1>2 DEF TypeOK
<1>3. CASE Sync
  BY <1>2, <1>3 DEF Sync, Goto, Posts, Puts, PostAccepted, PutAccepted, boundVars
<1>4. CASE Cleanup
  BY <1>2, <1>4 DEF Cleanup, Goto, Removes, Removable, boundVars
<1>5. CASE GrafanaFault
  BY <1>2, <1>5 DEF GrafanaFault, Goto, Return, Posts, Puts, Removes, PostAccepted, PutAccepted, Removable
<1>6. QED
  BY <1>1, <1>3, <1>4, <1>5

\* What a status patch leaves in each field of the status.
LEMMA PatchedStatus ==
  ASSUME TypeOK, key \in Datasources, NEW new \in Object, Patch(new)
  PROVE  /\ obj'[key].exists = obj[key].exists /\ obj'[key].deleting = obj[key].deleting
         /\ obj'[key].finalizer = obj[key].finalizer
         /\ obj'[key].generation = obj[key].generation
         /\ obj'[key].phase = IF new.phase = seen[key].phase THEN obj[key].phase ELSE new.phase
         /\ obj'[key].reason = IF new.reason = seen[key].reason THEN obj[key].reason ELSE new.reason
         /\ obj'[key].observed = IF new.observed = seen[key].observed
                                 THEN obj[key].observed ELSE new.observed
         /\ obj'[key].id = IF new.id = seen[key].id THEN obj[key].id ELSE new.id
         /\ \A d \in Datasources \ {key} : obj'[d] = obj[d]
<1>1. obj'[key] = MergeStatus(obj[key], seen[key], new)
  BY DEF TypeOK, Patch
<1>2. \A d \in Datasources \ {key} : obj'[d] = obj[d]
  BY DEF TypeOK, Patch
<1>3. obj[key] \in Object
  BY DEF TypeOK
<1>4. QED
  BY <1>1, <1>2, <1>3 DEF MergeStatus, Object

\* Object d after a patch that sends new.
Changed(d, new) ==
    /\ obj'[d].exists = obj[d].exists /\ obj'[d].deleting = obj[d].deleting
    /\ obj'[d].finalizer = obj[d].finalizer /\ obj'[d].generation = obj[d].generation
    /\ obj'[d].phase = IF new.phase = seen[d].phase THEN obj[d].phase ELSE new.phase
    /\ obj'[d].reason = IF new.reason = seen[d].reason THEN obj[d].reason ELSE new.reason
    /\ obj'[d].observed = IF new.observed = seen[d].observed THEN obj[d].observed ELSE new.observed
    /\ obj'[d].id = IF new.id = seen[d].id THEN obj[d].id ELSE new.id

\* The objects the patches send, named.
Marked(o) == [o EXCEPT !.phase = "Processing", !.observed = o.generation]
Failed(o) == [o EXCEPT !.phase = "Failed", !.reason = "failed"]
Terminated(o) == [o EXCEPT !.phase = "Terminating"]

\* They differ from the cached one in these fields.
LEMMA NewStatus ==
  ASSUME NEW o \in Object, local \in Object
  PROVE  /\ Marked(o) \in Object /\ Failed(o) \in Object /\ Terminated(o) \in Object
         /\ Updated(o) \in Object /\ Created(o) \in Object
         /\ Marked(o).phase = "Processing" /\ Marked(o).reason = o.reason
         /\ Marked(o).observed = o.generation /\ Marked(o).id = o.id
         /\ Failed(o).phase = "Failed" /\ Failed(o).reason = "failed"
         /\ Failed(o).observed = o.observed /\ Failed(o).id = o.id
         /\ Terminated(o).phase = "Terminating" /\ Terminated(o).reason = o.reason
         /\ Terminated(o).observed = o.observed /\ Terminated(o).id = o.id
         /\ Updated(o).phase = "Current" /\ Updated(o).reason = "updated"
         /\ Updated(o).observed = local.generation /\ Updated(o).id = o.id
         /\ Created(o).phase = "Current" /\ Created(o).reason = "created"
         /\ Created(o).observed = o.generation /\ Created(o).id = local.id
BY DEF Object, Phases, Reasons, Updated, Created, Marked, Failed, Terminated

-----------------------------------------------------------------------------
\* No Grafana has two datasources of one name.
LEMMA NextNamedOnce == TypeOK /\ NamedOnce /\ [Next]_vars => NamedOnce'
<1> SUFFICES ASSUME TypeOK, NamedOnce, [Next]_vars,
                    NEW h \in Grafanas, NEW d \in Datasources,
                    NEW i \in Named(h, d)', NEW j \in Named(h, d)'
             PROVE  i = j
  BY DEF NamedOnce
<1>1. CASE UNCHANGED remote
  BY <1>1 DEF NamedOnce, Named
<1>2. ASSUME NEW g \in Grafanas, Posts(g) PROVE i = j
  <2>1. Named(g, key) = {} /\ key \in Datasources
    BY <1>2 DEF Posts, PostAccepted
  <2>2. \A n \in {i, j} : n \in Named(h, d) \/ (h = g /\ d = key /\ n = NumberOfAnswer(g))
    BY <1>2, PostNamed DEF Posts
  <2>3. QED
    BY <2>1, <2>2 DEF NamedOnce
<1>3. ASSUME NEW g \in Grafanas, Puts(g) PROVE i = j
  <2>1. Named(g, key) \subseteq {local.id} /\ key \in Datasources
    BY <1>3 DEF Puts, PutAccepted
  <2>2. \A n \in {i, j} : IF h = g /\ n = local.id THEN d = key ELSE n \in Named(h, d)
    BY <1>3, PutNamed DEF Puts
  <2>3. QED
    BY <2>1, <2>2 DEF NamedOnce
<1>4. ASSUME NEW g \in Grafanas, Removes(g) PROVE i = j
  <2>1. \A n \in {i, j} : n \in Named(h, d)
    BY <1>4, RemoveNamed DEF Removes
  <2>2. QED
    BY <2>1 DEF NamedOnce
<1>5. QED
  BY <1>1, <1>2, <1>3, <1>4, RemoteSteps

\* The object a finalizer's patch makes when the old one has gone.
Fresh == [Absent EXCEPT !.exists = TRUE, !.finalizer = TRUE, !.generation = 1]

LEMMA AbsentFields ==
  /\ ~Absent.exists /\ ~Absent.deleting /\ ~Absent.finalizer
  /\ Absent.generation = 0 /\ Absent.observed = 0 /\ Absent.id = NoID
  /\ Absent.phase # "Failed" /\ Absent.reason # "updated"
  /\ Fresh.exists /\ ~Fresh.deleting /\ Fresh.finalizer
  /\ Fresh.generation = 1 /\ Fresh.observed = 0 /\ Fresh.id = NoID
  /\ Fresh.phase # "Failed" /\ Fresh.reason # "updated"
<1>1. Absent.phase = "" /\ Absent.reason = "" /\ Fresh.phase = "" /\ Fresh.reason = ""
  BY DEF Absent, Fresh
<1>2. "" # "Failed" /\ "" # "updated"
  OBVIOUS
<1>3. /\ Absent.phase # "Failed" /\ Absent.reason # "updated"
      /\ Fresh.phase # "Failed" /\ Fresh.reason # "updated"
  BY <1>1, <1>2, Zenon
<1>4. QED
  BY <1>3 DEF Absent, Fresh

\* What can happen to one object, other than by a patch of the worker's.
Edited(d) ==
    /\ obj'[d].exists = obj[d].exists /\ obj'[d].generation = obj[d].generation + 1
    /\ obj'[d].deleting = obj[d].deleting /\ obj'[d].finalizer = obj[d].finalizer
    /\ obj'[d].observed = obj[d].observed /\ obj'[d].id = obj[d].id
    /\ obj'[d].phase = obj[d].phase /\ obj'[d].reason = obj[d].reason

\* Its status and generation stay; it may be marked or take the finalizer.
Stays(d) ==
    /\ obj'[d].exists = obj[d].exists /\ obj'[d].generation = obj[d].generation
    /\ obj[d].deleting => obj'[d].deleting
    /\ obj[d].finalizer => obj'[d].finalizer
    /\ obj'[d].observed = obj[d].observed /\ obj'[d].id = obj[d].id
    /\ obj'[d].phase = obj[d].phase /\ obj'[d].reason = obj[d].reason

\* It goes, for want of a finalizer or with the release of it.
Goes(d) ==
    /\ obj'[d] = Absent
    /\ ~obj[d].finalizer \/ (pc = "release" /\ key = d /\ pc' = "idle" /\ UNCHANGED remote)

\* It is created anew by a finalizer's patch.
Comes(d) ==
    /\ obj'[d] = Fresh
    /\ ~obj[d].exists /\ ~seen[d].exists /\ pc' = "idle"

\* The worker patches its status.
Patches(d) ==
    /\ key = d /\ CanPatch(d) /\ UNCHANGED <<seen, binding, remote, rebinds, crashes, faults>>
    /\ \/ pc = "mark" /\ pc' = "sync" /\ key' = key /\ local' = obj'[d]
          /\ Patch(Marked(seen[d]))
       \/ pc = "created" /\ pc' = "idle" /\ Patch(Created(seen[d]))
       \/ pc = "updated" /\ pc' = "idle" /\ Patch(Updated(seen[d]))
       \/ pc = "fail" /\ pc' = "idle" /\ Patch(Failed(seen[d]))
       \/ pc = "terminate" /\ pc' = "cleanup" /\ key' = key /\ local' = obj'[d]
          /\ Patch(Terminated(seen[d]))

LEMMA ObjectSteps ==
  ASSUME TypeOK, FinalizerInv, [Next]_vars, NEW d \in Datasources
  PROVE  obj'[d] = obj[d] \/ Edited(d) \/ Stays(d) \/ Goes(d) \/ Comes(d) \/ Patches(d)
<1>1. obj[d] \in Object
  BY DEF TypeOK
<1>2. ASSUME NEW e \in Datasources, EditSpec(e) PROVE obj'[d] = obj[d] \/ Edited(d)
  <2>1. obj' = [obj EXCEPT ![e] = [obj[e] EXCEPT !.generation = @ + 1]]
    BY <1>2 DEF EditSpec
  <2>2. CASE d = e
    <3>1. obj'[d] = [obj[d] EXCEPT !.generation = @ + 1]
      BY <2>1, <2>2 DEF TypeOK
    <3>2. QED
      BY <1>1, <3>1 DEF Object, Edited
  <2>3. QED
    BY <2>1, <2>2 DEF TypeOK
<1>3. ASSUME NEW e \in Datasources, DeleteObject(e)
      PROVE  obj'[d] = obj[d] \/ Stays(d) \/ Goes(d)
  <2>1. CASE d # e
    BY <1>3, <2>1 DEF DeleteObject, TypeOK
  <2>2. CASE d = e /\ obj[d].finalizer
    <3>1. obj'[d] = [obj[d] EXCEPT !.deleting = TRUE]
      BY <1>3, <2>2 DEF DeleteObject, TypeOK
    <3>2. QED
      BY <1>1, <3>1 DEF Object, Stays
  <2>3. CASE d = e /\ ~obj[d].finalizer
    BY <1>3, <2>3 DEF DeleteObject, TypeOK, Goes
  <2>4. QED
    BY <2>1, <2>2, <2>3
<1>4. CASE Finalize
  <2>1. CASE d # key
    BY <1>4, <2>1 DEF Finalize, TypeOK
  <2>2. CASE d = key /\ obj' = [obj EXCEPT ![key].finalizer = TRUE]
    <3>1. obj'[d] = [obj[d] EXCEPT !.finalizer = TRUE]
      BY <2>2 DEF TypeOK
    <3>2. QED
      BY <1>1, <3>1 DEF Object, Stays
  <2>3. CASE /\ d = key /\ ~seen[key].exists /\ ~obj[key].exists /\ Return(FALSE)
             /\ obj' = [obj EXCEPT ![key] = [Absent EXCEPT !.exists = TRUE, !.finalizer = TRUE,
                                                           !.generation = 1]]
    BY <2>3 DEF TypeOK, Comes, Fresh, Return
  <2>4. QED
    BY <1>4, <2>1, <2>2, <2>3 DEF Finalize
<1>5. CASE Release
  BY <1>5 DEF Release, Return, TypeOK, Goes
<1>6. CASE Mark \/ Record \/ MarkFailed \/ MarkTerminating
  <2>1. key \in Datasources
    BY <1>6 DEF Mark, Record, MarkFailed, MarkTerminating, TypeOK
  <2>2. CASE d # key
    BY <1>6, <2>2 DEF Mark, Record, MarkFailed, MarkTerminating, TypeOK, Patch
  <2>3. CASE d = key
    <3>1. CASE Mark
      BY <2>3, <3>1 DEF Mark, Marked, Patches, Goto, boundVars
    <3>2. CASE Record
      BY <2>3, <3>2 DEF Record, Patches, Return, boundVars
    <3>3. CASE MarkFailed
      BY <2>3, <3>3 DEF MarkFailed, Failed, Patches, Return, boundVars
    <3>4. CASE MarkTerminating
      BY <2>3, <3>4 DEF MarkTerminating, Terminated, Patches, Goto, boundVars
    <3>5. QED
      BY <1>6, <3>1, <3>2, <3>3, <3>4
  <2>4. QED
    BY <2>2, <2>3
<1>7. CASE UNCHANGED obj
  BY <1>7
<1>8. QED
  BY <1>2, <1>3, <1>4, <1>5, <1>6, <1>7
  DEF Next, User, Step, Rebind, Deliver, Resync, Restart, Start, Sync, Cleanup, ApiFault,
      GrafanaFault, vars

\* The cached copy changes to the API server's.
LEMMA CacheSteps ==
  ASSUME TypeOK, [Next]_vars, NEW d \in Datasources
  PROVE  seen'[d] = seen[d] \/ (seen'[d] = obj[d] /\ UNCHANGED obj)
BY DEF TypeOK, Next, User, Step, EditSpec, DeleteObject, Rebind, Deliver, Resync, Restart, Start, Finalize,
       Mark, Sync, Record, MarkFailed, MarkTerminating, Cleanup, Release, ApiFault, GrafanaFault, vars

\* What a patch of the worker's leaves in the object.
LEMMA PatchedObject ==
  ASSUME TypeOK, NEW d \in Datasources, Patches(d)
  PROVE  /\ obj'[d].exists = obj[d].exists /\ obj'[d].deleting = obj[d].deleting
         /\ obj'[d].finalizer = obj[d].finalizer /\ obj'[d].generation = obj[d].generation
         /\ pc = "mark" =>
              /\ obj'[d].phase = IF seen[d].phase = "Processing" THEN obj[d].phase ELSE "Processing"
              /\ obj'[d].reason = obj[d].reason /\ obj'[d].id = obj[d].id
              /\ obj'[d].observed = IF seen[d].generation = seen[d].observed
                                    THEN obj[d].observed ELSE seen[d].generation
         /\ pc = "created" =>
              /\ obj'[d].reason = IF seen[d].reason = "created" THEN obj[d].reason ELSE "created"
              /\ obj'[d].id = IF local.id = seen[d].id THEN obj[d].id ELSE local.id
              /\ obj'[d].observed = IF seen[d].generation = seen[d].observed
                                    THEN obj[d].observed ELSE seen[d].generation
              /\ obj'[d].phase = IF seen[d].phase = "Current" THEN obj[d].phase ELSE "Current"
         /\ pc = "updated" =>
              /\ obj'[d].reason = IF seen[d].reason = "updated" THEN obj[d].reason ELSE "updated"
              /\ obj'[d].id = obj[d].id
              /\ obj'[d].observed = IF local.generation = seen[d].observed
                                    THEN obj[d].observed ELSE local.generation
              /\ obj'[d].phase = IF seen[d].phase = "Current" THEN obj[d].phase ELSE "Current"
         /\ pc = "fail" =>
              /\ obj'[d].phase = IF seen[d].phase = "Failed" THEN obj[d].phase ELSE "Failed"
              /\ obj'[d].reason = IF seen[d].reason = "failed" THEN obj[d].reason ELSE "failed"
              /\ obj'[d].id = obj[d].id /\ obj'[d].observed = obj[d].observed
         /\ pc = "terminate" =>
              /\ obj'[d].phase = IF seen[d].phase = "Terminating" THEN obj[d].phase ELSE "Terminating"
              /\ obj'[d].reason = obj[d].reason
              /\ obj'[d].id = obj[d].id /\ obj'[d].observed = obj[d].observed
<1>1. key = d /\ seen[d] \in Object /\ local \in Object
  BY DEF Patches, TypeOK
<1> DEFINE o == seen[d]
<1>2. /\ Marked(o) \in Object /\ Failed(o) \in Object /\ Terminated(o) \in Object
      /\ Updated(o) \in Object /\ Created(o) \in Object
  BY <1>1, NewStatus
<1>3. CASE pc = "mark" /\ Patch(Marked(o))
  <2>1. Marked(o) \in Object /\ key \in Datasources /\ Patch(Marked(o))
    BY <1>1, <1>2, <1>3
  <2>2. Changed(d, Marked(o))
    BY <1>1, <2>1, PatchedStatus DEF Changed
  <2>3. /\ Marked(o).phase = "Processing" /\ Marked(o).reason = o.reason
         /\ Marked(o).observed = o.generation /\ Marked(o).id = o.id
    BY <1>1, NewStatus
  <2>4. QED
    BY <1>3, <2>2, <2>3 DEF Changed
<1>4. CASE pc = "created" /\ Patch(Created(o))
  <2>1. Created(o) \in Object /\ key \in Datasources /\ Patch(Created(o))
    BY <1>1, <1>2, <1>4
  <2>2. Changed(d, Created(o))
    BY <1>1, <2>1, PatchedStatus DEF Changed
  <2>3. /\ Created(o).phase = "Current" /\ Created(o).reason = "created"
         /\ Created(o).observed = o.generation /\ Created(o).id = local.id
    BY <1>1, NewStatus
  <2>4. QED
    BY <1>4, <2>2, <2>3 DEF Changed
<1>5. CASE pc = "updated" /\ Patch(Updated(o))
  <2>1. Updated(o) \in Object /\ key \in Datasources /\ Patch(Updated(o))
    BY <1>1, <1>2, <1>5
  <2>2. Changed(d, Updated(o))
    BY <1>1, <2>1, PatchedStatus DEF Changed
  <2>3. /\ Updated(o).phase = "Current" /\ Updated(o).reason = "updated"
         /\ Updated(o).observed = local.generation /\ Updated(o).id = o.id
    BY <1>1, NewStatus
  <2>4. QED
    BY <1>5, <2>2, <2>3 DEF Changed
<1>6. CASE pc = "fail" /\ Patch(Failed(o))
  <2>1. Failed(o) \in Object /\ key \in Datasources /\ Patch(Failed(o))
    BY <1>1, <1>2, <1>6
  <2>2. Changed(d, Failed(o))
    BY <1>1, <2>1, PatchedStatus DEF Changed
  <2>3. /\ Failed(o).phase = "Failed" /\ Failed(o).reason = "failed"
         /\ Failed(o).observed = o.observed /\ Failed(o).id = o.id
    BY <1>1, NewStatus
  <2>4. QED
    BY <1>6, <2>2, <2>3 DEF Changed
<1>7. CASE pc = "terminate" /\ Patch(Terminated(o))
  <2>1. Terminated(o) \in Object /\ key \in Datasources /\ Patch(Terminated(o))
    BY <1>1, <1>2, <1>7
  <2>2. Changed(d, Terminated(o))
    BY <1>1, <2>1, PatchedStatus DEF Changed
  <2>3. /\ Terminated(o).phase = "Terminating" /\ Terminated(o).reason = o.reason
         /\ Terminated(o).observed = o.observed /\ Terminated(o).id = o.id
    BY <1>1, NewStatus
  <2>4. QED
    BY <1>7, <2>2, <2>3 DEF Changed
<1>8. QED
  BY <1>3, <1>4, <1>5, <1>6, <1>7 DEF Patches

\* The copies' relation to each other.
LEMMA NextCopy ==
  ASSUME TypeOK, FinalizerInv, WorkInv, [Next]_vars, NEW d \in Datasources, CopyInv(d)
  PROVE  CopyInv(d)'
<1>0. /\ obj[d] \in Object /\ seen[d] \in Object /\ local \in Object
      /\ obj[d].generation \in Nat /\ obj[d].observed \in Nat
      /\ seen[d].generation \in Nat /\ seen[d].observed \in Nat /\ local.generation \in Nat
  BY DEF TypeOK, Object
<1>1. seen'[d] = seen[d] \/ (seen'[d] = obj[d] /\ UNCHANGED obj)
  BY CacheSteps
<1>2. CASE obj'[d] = obj[d]
  BY <1>0, <1>1, <1>2 DEF CopyInv
<1>3. CASE (Edited(d) \/ Stays(d)) /\ seen'[d] = seen[d]
  BY <1>0, <1>3 DEF CopyInv, Edited, Stays
<1>4. CASE (Goes(d) \/ Comes(d)) /\ seen'[d] = seen[d]
  <2>1. obj'[d] = Absent \/ (obj'[d] = Fresh /\ ~seen[d].exists)
    BY <1>4 DEF Goes, Comes
  <2>2. /\ obj'[d].observed = 0 /\ obj'[d].generation \in {0, 1} /\ obj'[d].reason # "updated"
        /\ ~(seen[d].exists /\ obj'[d].exists)
    <3>1. CASE obj'[d] = Absent
      BY <3>1, AbsentFields
    <3>2. CASE obj'[d] = Fresh /\ ~seen[d].exists
      BY <3>2, AbsentFields
    <3>3. QED
      BY <2>1, <3>1, <3>2
  <2>3. QED
    BY <1>0, <1>4, <2>2 DEF CopyInv
<1>5. CASE Patches(d)
  <2>1. key = d /\ seen'[d] = seen[d] /\ seen[d].exists /\ obj[d].exists
    BY <1>5 DEF Patches, CanPatch
  <2>2. CASE pc = "created"
    <3>1. obj[d].id = NoID /\ local.id # NoID
      BY <2>1, <2>2 DEF WorkInv
    <3>2. seen[d].id = NoID
      BY <2>1, <3>1 DEF CopyInv
    <3>3. QED
      BY <1>0, <1>5, <2>1, <2>2, <3>1, <3>2, PatchedObject DEF CopyInv
  <2>3. CASE pc = "updated"
    <3>1. obj[d].id # NoID /\ local.generation <= obj[d].generation
      BY <2>1, <2>3 DEF WorkInv
    <3>2. QED
      BY <1>0, <1>5, <2>1, <2>3, <3>1, PatchedObject DEF CopyInv
  <2>4. CASE pc \in {"mark", "fail", "terminate"}
    <3>1. /\ obj'[d].exists = obj[d].exists /\ obj'[d].generation = obj[d].generation
          /\ obj'[d].observed \in {obj[d].observed, seen[d].generation}
          /\ obj'[d].reason \in {obj[d].reason, "failed"} /\ obj'[d].id = obj[d].id
      BY <1>5, <2>4, PatchedObject
    <3>2. QED
      BY <1>0, <2>1, <3>1 DEF CopyInv
  <2>5. QED
    BY <1>5, <2>2, <2>3, <2>4 DEF Patches
<1>6. QED
  BY <1>1, <1>2, <1>3, <1>4, <1>5, ObjectSteps

\* How the worker goes from one step to the next, when the object is not
\* patched.
WorkerStays == UNCHANGED <<pc, key, local>>

Starts ==
    /\ pc = "idle" /\ key' \in Datasources /\ seen[key'].exists /\ local' = seen[key'] /\ UNCHANGED <<obj, seen>>
    /\ pc' = FirstStep(seen[key']) /\ pc' # "idle"

LEMMA WorkerSteps ==
  ASSUME TypeOK, [Next]_vars
  PROVE  \/ WorkerStays \/ Starts
         \/ pc' = "idle"
         \/ key' = key /\ pc' = "fail" /\ pc \in {"sync", "created", "updated"}
            /\ UNCHANGED <<obj, seen, local>>
         \/ key' = key /\ pc' = "release" /\ pc = "cleanup" /\ UNCHANGED <<obj, seen, local>>
            /\ ((local.id = NoID /\ UNCHANGED remote) \/ \E g \in Grafanas : Removes(g))
         \/ \E g \in Grafanas : Posts(g) \/ Puts(g)
         \/ key \in Datasources /\ Patches(key)
<1>1. CASE WorkerStays
  BY <1>1
<1>2. ASSUME NEW d \in Datasources, Start(d) PROVE WorkerStays \/ Starts
  BY <1>2 DEF Start, WorkerStays, Starts, workerVars
<1>3. ASSUME pc # "idle" PROVE key \in Datasources
  BY <1>3 DEF TypeOK
<1>4. CASE Sync
  <2>1. binding[key] \in Grafanas \cup {NoGrafana}
    BY <1>3, <1>4 DEF Sync, TypeOK
  <2>2. QED
    BY <1>3, <1>4, <2>1 DEF Sync, Goto, Posts, Puts, PostAccepted, PutAccepted, boundVars
<1>5. CASE Mark \/ MarkTerminating \/ MarkFailed
  BY <1>3, <1>5 DEF Mark, MarkTerminating, MarkFailed, Marked, Terminated, Failed, Patches, Goto, Return, boundVars
<1>6. CASE Record
  BY <1>3, <1>6 DEF Record, Patches, Goto, Return, boundVars
<1>7. CASE ApiFault \/ GrafanaFault
  BY <1>7 DEF ApiFault, GrafanaFault, Goto, Return
<1>10. CASE Cleanup
  <2>1. binding[key] \in Grafanas \cup {NoGrafana}
    BY <1>3, <1>10 DEF Cleanup, TypeOK
  <2>2. QED
    BY <1>3, <1>10, <2>1 DEF Cleanup, Goto, Return, Removes, Removable, boundVars
<1>8. CASE Finalize \/ Release \/ Restart
  BY <1>8 DEF Finalize, Release, Restart, Return
<1>9. QED
  BY <1>1, <1>2, <1>4, <1>5, <1>6, <1>7, <1>8, <1>10
  DEF Next, User, Step, EditSpec, DeleteObject, Rebind, Deliver, Resync, WorkerStays, workerVars, vars

\* What Reconcile knows of the object it works on.
LEMMA NextWork ==
  TypeOK /\ FinalizerInv /\ (\A d \in Datasources : CopyInv(d)) /\ WorkInv /\ [Next]_vars => WorkInv'
<1> SUFFICES ASSUME TypeOK, FinalizerInv, \A d \in Datasources : CopyInv(d), WorkInv, [Next]_vars
             PROVE  WorkInv'
  OBVIOUS
<1> USE DEF Syncing
<1>1. pc # "idle" => /\ key \in Datasources /\ obj[key] \in Object /\ seen[key] \in Object
                     /\ local \in Object
  BY DEF TypeOK
<1>2. CASE WorkerStays
  <2>1. CASE pc = "idle" \/ pc \in {"finalize", "terminate", "release"}
    BY <1>2, <2>1 DEF WorkInv, WorkerStays
  <2>2. CASE pc \in Syncing \cup {"cleanup"}
    <3>1. /\ key \in Datasources /\ obj[key].exists
          /\ obj[key].finalizer \/ pc = "cleanup"
      BY <1>1, <2>2 DEF FinalizerInv
    <3>2. ~Goes(key) /\ ~Comes(key) /\ ~Patches(key)
      <4>1. pc = "cleanup" => obj[key].deleting /\ obj[key].finalizer
        BY <3>1 DEF FinalizerInv
      <4>2. QED
        BY <1>2, <2>2, <3>1, <4>1 DEF Goes, Comes, Patches, WorkerStays
    <3>3. obj'[key] = obj[key] \/ Edited(key) \/ Stays(key)
      BY <3>1, <3>2, ObjectSteps
    <3>4. seen'[key] = seen[key] \/ (seen'[key] = obj[key] /\ obj'[key] = obj[key])
      BY <3>1, CacheSteps
    <3>5. /\ obj'[key].observed = obj[key].observed /\ obj'[key].id = obj[key].id
          /\ obj'[key].generation \in {obj[key].generation, obj[key].generation + 1}
      BY <3>3 DEF Edited, Stays
    <3>6. obj[key].generation \in Nat /\ local.generation \in Nat
      BY <1>1, <2>2 DEF Object
    <3>7. seen'[key].exists \/ pc = "cleanup"
      BY <2>2, <3>1, <3>4 DEF WorkInv
    <3>8. pc \in {"sync", "created", "updated"} => local.generation <= obj'[key].generation
      BY <3>5, <3>6 DEF WorkInv
    <3>9. /\ pc = "mark" /\ seen'[key].observed = seen'[key].generation
               => obj'[key].observed = seen'[key].observed
          /\ pc \in {"sync", "updated"} /\ seen'[key].observed = local.generation
               => obj'[key].observed = local.generation
      BY <3>4, <3>5 DEF WorkInv
    <3>10. QED
      BY <1>2, <2>2, <3>5, <3>7, <3>8, <3>9 DEF WorkInv, WorkerStays
  <2>3. QED
    BY <2>1, <2>2 DEF TypeOK, Steps
<1>3. CASE Starts
  <2>1. pc' \in {"terminate", "finalize"} \/ (pc' = "mark" /\ seen[key'].observed # seen[key'].generation)
    BY <1>3 DEF Starts, FirstStep
  <2>2. QED
    BY <1>3, <2>1 DEF Starts, WorkInv
<1>4. CASE pc' = "idle"
  BY <1>4 DEF WorkInv
<1>5. CASE key' = key /\ pc' \in {"fail", "release"} /\ UNCHANGED <<obj, seen>>
           /\ pc \in {"sync", "created", "updated", "cleanup"}
           /\ (pc' = "fail" => pc # "cleanup")
  BY <1>5 DEF WorkInv
<1>6. ASSUME NEW g \in Grafanas, Posts(g) PROVE WorkInv'
  <2>1. /\ pc = "sync" /\ UNCHANGED <<obj, seen, key>> /\ key \in Datasources
        /\ local.id = NoID /\ seen[key].exists /\ NumberOfAnswer(g) \in Nat \ {0}
    BY <1>6, PostType DEF Posts, PostAccepted, WorkInv
  <2>2. CASE pc' = "created" /\ local' = [local EXCEPT !.id = NumberOfAnswer(g)]
    <3>1. local'.id = NumberOfAnswer(g) /\ local'.generation = local.generation
      BY <1>1, <2>1, <2>2 DEF Object
    <3>2. QED
      BY <2>1, <2>2, <3>1 DEF WorkInv, NoID
  <2>3. QED
    BY <1>6, <2>1, <2>2 DEF Posts, WorkInv
<1>7. ASSUME NEW g \in Grafanas, Puts(g) PROVE WorkInv'
  <2>1. pc = "sync" /\ UNCHANGED <<obj, seen, key, local>> /\ pc' \in {"updated", "fail"} /\ local.id # NoID
    BY <1>7 DEF Puts, PutAccepted
  <2>2. QED
    BY <2>1 DEF WorkInv
<1>8. CASE key \in Datasources /\ Patches(key)
  <2>1. CASE pc = "terminate"
    <3>1. pc' = "cleanup" /\ key' = key /\ local' = obj'[key]
      BY <1>8, <2>1 DEF Patches
    <3>2. QED
      BY <3>1 DEF WorkInv
  <2>2. CASE pc = "mark"
    <3>1. /\ pc' = "sync" /\ key' = key /\ local' = obj'[key] /\ UNCHANGED seen /\ seen[key].exists
          /\ obj[key].exists
          /\ Patch(Marked(seen[key]))
      BY <1>8, <2>2 DEF Patches, CanPatch
    <3>2. /\ obj'[key].generation = obj[key].generation
          /\ obj'[key].observed = IF seen[key].generation = seen[key].observed
                                  THEN obj[key].observed ELSE seen[key].generation
      BY <1>8, <2>2, PatchedObject
    <3>3. /\ seen[key].observed <= seen[key].generation /\ seen[key].generation <= obj[key].generation
          /\ seen[key].observed \in Nat /\ seen[key].generation \in Nat /\ obj[key].generation \in Nat
      BY <1>1, <1>8, <2>2, <3>1 DEF CopyInv, Object
    <3>4. seen[key].observed = obj[key].generation => obj'[key].observed = obj[key].generation
      BY <2>2, <3>2, <3>3 DEF WorkInv
    <3>5. QED
      BY <3>1, <3>2, <3>3, <3>4 DEF WorkInv
  <2>3. CASE pc \in {"created", "updated", "fail"}
    BY <1>4, <1>8, <2>3 DEF Patches
  <2>4. QED
    BY <1>8, <2>1, <2>2, <2>3 DEF Patches
<1>9. QED
  BY <1>2, <1>3, <1>4, <1>5, <1>6, <1>7, <1>8, WorkerSteps

\* A live datasource of d's is among those of its name.
LEMMA OwnLive ==
  ASSUME TypeOK, NumberInv, rebinds = 0, NEW d \in Datasources,
         NEW n, n # NoID, n = obj[d].id \/ n = seen[d].id \/ (key = d /\ n = local.id)
  PROVE  /\ binding[d] \in Grafanas /\ n \in DOMAIN remote[binding[d]]
         /\ Live(binding[d], n) <=> n \in Named(binding[d], d)
<1>1. OwnNumber(binding, remote, d, n)
  BY NumberInvMeans
<1>2. binding[d] \in Grafanas \cup {NoGrafana}
  BY DEF TypeOK
<1>3. QED
  BY <1>1, <1>2 DEF OwnNumber, Live, Named

\* What becomes of a datasource that carries d's name, while no reference
\* moves: it stays live until a deletion takes it, and as it is unless it is
\* d's own turn.
LEMMA EntrySteps ==
  ASSUME TypeOK, NumberInv, [Next]_vars, rebinds' = 0, NEW d \in Datasources, NEW n,
         n \in Named(binding[d], d), binding[d] \in Grafanas
  PROVE  /\ \/ n \in Named(binding[d], d)'
            \/ pc = "cleanup" /\ key = d /\ n = local.id
         /\ \/ remote'[binding[d]][n] = remote[binding[d]][n]
            \/ key = d /\ pc \in {"sync", "cleanup"}
<1>1. rebinds = 0 /\ UNCHANGED binding
  <2>1. (\E e \in Datasources : Rebind(e)) \/ (UNCHANGED <<binding, rebinds>>)
    BY DEF Next, User, Step, EditSpec, DeleteObject, Resync, Restart, ApiFault, GrafanaFault,
           Finalize, Mark, Sync, Record, MarkFailed, MarkTerminating, Cleanup, Release, Deliver,
           Start, vars, boundVars
  <2>2. rebinds \in Nat
    BY DEF TypeOK
  <2>3. QED
    BY <2>1, <2>2 DEF Rebind
<1>2. n \in DOMAIN remote[binding[d]] /\ remote[binding[d]][n].owner = d
  BY DEF Named
<1>3. CASE UNCHANGED remote
  BY <1>1, <1>3 DEF Named
<1>4. ASSUME NEW g \in Grafanas, Posts(g)
      PROVE  n \in Named(binding[d], d)' /\ remote'[binding[d]][n] = remote[binding[d]][n]
  <2>1. remote'[binding[d]][n] = remote[binding[d]][n] /\ n \in DOMAIN remote'[binding[d]]
    BY <1>2, <1>4, PostType DEF Posts
  <2>2. QED
    BY <1>1, <2>1 DEF Named
<1>5. ASSUME NEW g \in Grafanas, Puts(g)
      PROVE  /\ n \in Named(binding[d], d)'
             /\ remote'[binding[d]][n] = remote[binding[d]][n] \/ (key = d /\ pc = "sync")
  <2>1. local.id # NoID /\ key \in Datasources /\ g = binding[key] /\ PutAccepted(g) /\ Put(g) /\ pc = "sync"
    BY <1>5 DEF Puts, PutAccepted
  <2>2. remote[g][local.id].owner = key
    BY <1>1, <2>1, OwnLive DEF Named, PutAccepted
  <2>3. CASE binding[d] = g /\ n = local.id
    <3>1. key = d
      BY <1>2, <2>2, <2>3
    <3>2. n \in DOMAIN remote'[g] /\ remote'[g][n] = Written /\ Written.owner = d /\ Written.live
      BY <1>2, <2>1, <2>3, <3>1, PutType
    <3>3. QED
      BY <1>1, <2>1, <2>3, <3>1, <3>2 DEF Named
  <2>4. CASE ~(binding[d] = g /\ n = local.id)
    <3>1. n \in DOMAIN remote'[binding[d]] /\ remote'[binding[d]][n] = remote[binding[d]][n]
      BY <1>2, <2>1, <2>4, PutType
    <3>2. QED
      BY <1>1, <3>1 DEF Named
  <2>5. QED
    BY <2>3, <2>4
<1>6. ASSUME NEW g \in Grafanas, Removes(g)
      PROVE  /\ \/ n \in Named(binding[d], d)'
                \/ pc = "cleanup" /\ key = d /\ n = local.id
             /\ \/ remote'[binding[d]][n] = remote[binding[d]][n]
                \/ key = d /\ pc = "cleanup"
  <2>1. local.id # NoID /\ key \in Datasources /\ g = binding[key] /\ Live(g, local.id) /\ Remove(g)
        /\ pc = "cleanup"
    BY <1>6 DEF Removes
  <2>2. remote[g][local.id].owner = key
    BY <1>1, <2>1, OwnLive DEF Named
  <2>3. CASE binding[d] = g /\ n = local.id
    BY <1>2, <2>1, <2>2, <2>3
  <2>4. CASE ~(binding[d] = g /\ n = local.id)
    <3>1. n \in DOMAIN remote'[binding[d]] /\ remote'[binding[d]][n] = remote[binding[d]][n]
      BY <1>2, <2>1, <2>4, RemoveType
    <3>2. QED
      BY <1>1, <3>1 DEF Named
  <2>5. QED
    BY <2>3, <2>4
<1>7. QED
  BY <1>3, <1>4, <1>5, <1>6, RemoteSteps

LEMMA RebindsGrow ==
  TypeOK /\ [Next]_vars /\ rebinds' = 0 => rebinds = 0 /\ UNCHANGED binding
<1> SUFFICES ASSUME TypeOK, [Next]_vars, rebinds' = 0 PROVE rebinds = 0 /\ UNCHANGED binding
  OBVIOUS
<1>1. (\E e \in Datasources : Rebind(e)) \/ UNCHANGED <<binding, rebinds>>
  BY DEF Next, User, Step, EditSpec, DeleteObject, Resync, Restart, ApiFault, GrafanaFault,
         Finalize, Mark, Sync, Record, MarkFailed, MarkTerminating, Cleanup, Release, Deliver,
         Start, vars, boundVars
<1>2. rebinds \in Nat
  BY DEF TypeOK
<1>3. QED
  BY <1>1, <1>2 DEF Rebind

\* Number n is live in g after the step.
LiveThen(g, n) == n \in DOMAIN remote'[g] /\ remote'[g][n].live

\* The recorded datasources stay in Grafana.
LEMMA NextRecorded ==
  TypeOK /\ FinalizerInv /\ NumberInv /\ SyncInv /\ [Next]_vars => RecordedInv'
<1> SUFFICES ASSUME TypeOK, FinalizerInv, NumberInv, SyncInv, [Next]_vars, rebinds' = 0
             PROVE  RecordedInv'
  BY DEF RecordedInv
<1> USE DEF Syncing
<1>1. rebinds = 0 /\ UNCHANGED binding
  BY RebindsGrow
<1>2. /\ WorkInv /\ \A d \in Datasources : CopyInv(d)
      /\ \A d \in Datasources :
            /\ obj[d].id # NoID
            /\ ~obj[d].deleting \/ (seen[d].exists /\ ~seen[d].deleting) \/ (pc \in Syncing /\ key = d)
            => Live(binding[d], obj[d].id)
      /\ pc = "created" => Live(binding[key], local.id)
      /\ pc = "updated" => remote[binding[key]][local.id] = Written
  BY <1>1 DEF SyncInv, RecordedInv
<1>3. pc # "idle" => key \in Datasources /\ local \in Object
  BY DEF TypeOK
\* What is live now stays live, but for a deletion.
<1>4. ASSUME NEW d \in Datasources, NEW n, n # NoID, Live(binding[d], n),
             n = obj[d].id \/ (key = d /\ n = local.id), ~(pc = "cleanup" /\ key = d)
      PROVE  LiveThen(binding[d], n)
  <2>1. binding[d] \in Grafanas /\ n \in Named(binding[d], d)
    BY <1>1, <1>4, OwnLive
  <2>2. n \in Named(binding[d], d)'
    BY <1>4, <2>1, EntrySteps
  <2>3. QED
    BY <1>1, <2>2 DEF Named, LiveThen
<1>5. ASSUME NEW d \in Datasources, obj'[d].id # NoID,
             \/ ~obj'[d].deleting
             \/ seen'[d].exists /\ ~seen'[d].deleting
             \/ pc' \in Syncing /\ key' = d
      PROVE  LiveThen(binding[d], obj'[d].id)
  <2>1. /\ obj[d] \in Object
        /\ seen'[d] = seen[d] \/ (seen'[d] = obj[d] /\ UNCHANGED obj)
    BY CacheSteps DEF TypeOK
  <2>2. ~Goes(d) /\ ~Comes(d)
    BY <1>5, AbsentFields DEF Goes, Comes
  <2>3. CASE obj'[d].id = obj[d].id
    <3>1. ~obj'[d].deleting => ~obj[d].deleting
      <4>1. obj'[d] = obj[d] \/ Edited(d) \/ Stays(d) \/ Patches(d)
        BY <2>2, ObjectSteps
      <4>2. QED
        BY <4>1, PatchedObject DEF Edited, Stays
    <3>2. ASSUME pc' \in Syncing, key' = d
          PROVE  (pc \in Syncing /\ key = d) \/ (seen[d].exists /\ ~seen[d].deleting)
      <4>1. CASE WorkerStays
        BY <3>2, <4>1 DEF WorkerStays
      <4>2. CASE Starts
        BY <3>2, <4>2 DEF Starts, FirstStep
      <4>3. ASSUME NEW g \in Grafanas, Posts(g) \/ Puts(g) PROVE pc \in Syncing /\ key = d
        BY <3>2, <4>3 DEF Posts, Puts
      <4>4. CASE key \in Datasources /\ Patches(key)
        BY <3>2, <4>4 DEF Patches
      <4>5. QED
        BY <3>2, <4>1, <4>2, <4>3, <4>4, WorkerSteps
    <3>3. /\ obj[d].id # NoID
          /\ ~obj[d].deleting \/ (seen[d].exists /\ ~seen[d].deleting) \/ (pc \in Syncing /\ key = d)
      BY <1>5, <2>1, <2>3, <3>1, <3>2
    <3>4. Live(binding[d], obj[d].id)
      BY <1>2, <3>3
    <3>5. ~(pc = "cleanup" /\ key = d)
      BY <3>3 DEF FinalizerInv, Ending
    <3>6. LiveThen(binding[d], obj[d].id)
      BY <1>4, <3>3, <3>4, <3>5
    <3>7. QED
      BY <2>3, <3>6
  <2>4. CASE obj'[d].id # obj[d].id
    <3>1. Patches(d) /\ pc = "created" /\ obj'[d].id = local.id /\ key = d
      <4>1. Patches(d)
        BY <2>2, <2>4, ObjectSteps DEF Edited, Stays
      <4>2. QED
        BY <2>4, <4>1, PatchedObject DEF Patches
    <3>2. Live(binding[d], local.id) /\ local.id # NoID
      BY <1>2, <3>1 DEF WorkInv
    <3>3. LiveThen(binding[d], local.id)
      BY <1>4, <3>1, <3>2
    <3>4. QED
      BY <3>1, <3>3
  <2>5. QED
    BY <2>3, <2>4
<1>6. ASSUME pc' \in {"created", "updated"}
      PROVE  \/ WorkerStays
             \/ \E g \in Grafanas : Posts(g) \/ Puts(g)
  BY <1>6, WorkerSteps DEF Starts, FirstStep, Patches
<1>7. ASSUME pc' = "created" PROVE LiveThen(binding[key], local'.id)
  <2>1. CASE WorkerStays
    <3>1. Live(binding[key], local.id) /\ key \in Datasources /\ local.id # NoID /\ pc = "created"
      BY <1>2, <1>3, <1>7, <2>1 DEF WorkerStays, WorkInv
    <3>2. LiveThen(binding[key], local.id)
      BY <1>4, <2>1, <3>1 DEF WorkerStays, Live
    <3>3. QED
      BY <2>1, <3>2 DEF WorkerStays
  <2>2. ASSUME NEW g \in Grafanas, Posts(g) \/ Puts(g) PROVE LiveThen(binding[key], local'.id)
    <3>1. /\ pc = "sync" /\ key \in Datasources /\ g = binding[key] /\ PostAccepted(g) /\ Post(g)
          /\ key' = key /\ local' = [local EXCEPT !.id = NumberOfAnswer(g)]
      BY <1>7, <2>2 DEF Posts, Puts
    <3>2. local'.id = NumberOfAnswer(g)
      BY <1>3, <3>1 DEF Object
    <3>3. local'.id \in DOMAIN remote'[g] /\ remote'[g][local'.id].live
      BY <3>1, <3>2, PostType
    <3>4. QED
      BY <3>1, <3>3 DEF LiveThen
  <2>3. QED
    BY <1>6, <1>7, <2>1, <2>2
<1>8. ASSUME pc' = "updated" PROVE (remote[binding[key]][local.id] = Written)'
  <2>1. CASE WorkerStays
    <3>1. /\ remote[binding[key]][local.id] = Written /\ key \in Datasources
          /\ local.id # NoID /\ pc = "updated"
      BY <1>2, <1>3, <1>8, <2>1 DEF WorkerStays, WorkInv
    <3>2. local.id \in Named(binding[key], key) /\ binding[key] \in Grafanas
      <4>1. Written.live
        BY DEF Written
      <4>2. binding[key] \in Grafanas /\ Live(binding[key], local.id)
        BY <1>1, <3>1, <4>1, OwnLive DEF Live
      <4>3. QED
        BY <1>1, <3>1, <4>2, OwnLive
    <3>3. remote'[binding[key]][local.id] = remote[binding[key]][local.id]
      BY <3>1, <3>2, EntrySteps
    <3>4. QED
      BY <1>1, <2>1, <3>1, <3>3 DEF WorkerStays, Written
  <2>2. ASSUME NEW g \in Grafanas, Posts(g) \/ Puts(g)
        PROVE  (remote[binding[key]][local.id] = Written)'
    <3>1. /\ pc = "sync" /\ key \in Datasources /\ g = binding[key] /\ PutAccepted(g) /\ Put(g)
          /\ key' = key /\ local' = local
      BY <1>8, <2>2 DEF Posts, Puts
    <3>2. remote'[g][local.id] = Written
      BY <3>1, PutType
    <3>3. QED
      BY <1>1, <3>1, <3>2 DEF Written
  <2>3. QED
    BY <1>6, <1>8, <2>1, <2>2
<1>9. pc' = "created" => LiveThen(binding'[key'], local'.id)
  BY <1>1, <1>6, <1>7 DEF WorkerStays, Posts, Puts
<1>10. QED
  BY <1>1, <1>5, <1>8, <1>9 DEF RecordedInv, Live, LiveThen

-----------------------------------------------------------------------------
(* Undisturbed, the reconciler implements the finalizer contract. *)

LEMMA UndisturbedBefore ==
  TypeOK /\ [Next]_vars /\ Undisturbed' =>
     Undisturbed /\ UNCHANGED <<faults, crashes, rebinds, binding>>
<1> SUFFICES ASSUME TypeOK, [Next]_vars, Undisturbed'
             PROVE  Undisturbed /\ UNCHANGED <<faults, crashes, rebinds, binding>>
  OBVIOUS
<1>1. faults \in Nat /\ crashes \in Nat
  BY DEF TypeOK
<1>2. faults' \in {faults, faults + 1} /\ crashes' \in {crashes, crashes + 1}
  BY DEF Next, User, Step, EditSpec, DeleteObject, Rebind, Resync, Restart, ApiFault, GrafanaFault,
         Finalize, Mark, Sync, Record, MarkFailed, MarkTerminating, Cleanup, Release, Deliver,
         Start, vars, boundVars
<1>3. rebinds = 0 /\ UNCHANGED binding
  BY RebindsGrow DEF Undisturbed
<1>4. QED
  BY <1>1, <1>2, <1>3 DEF Undisturbed

\* Undisturbed, a sync is cut short by nothing.
LEMMA CalmSync ==
  ASSUME TypeOK, FinalizerInv, WorkInv, [Next]_vars, UNCHANGED <<faults, crashes>>,
         pc \in {"created", "updated"}
  PROVE  WorkerStays \/ Patches(key)
<1>1. key \in Datasources /\ CanPatch(key) /\ crashes \in Nat /\ faults \in Nat
  BY DEF TypeOK, FinalizerInv, WorkInv, CanPatch, Syncing
<1>2. CASE Record
  BY <1>1, <1>2 DEF Record, Return, Patches, boundVars
<1>3. crashes' # crashes + 1 /\ faults' # faults + 1
  BY <1>1
<1>4. QED
  BY <1>2, <1>3 DEF Next, User, Step, EditSpec, DeleteObject, Rebind, Resync, Restart, ApiFault,
      GrafanaFault, Finalize, Mark, Sync, MarkFailed, MarkTerminating, Cleanup, Release, Deliver,
      Start, vars, workerVars, WorkerStays

\* A number Grafana gave is not the one that stands for none.
LEMMA NumbersArePositive ==
  ASSUME TypeOK, NEW g \in Grafanas, NEW d \in Datasources, NEW i \in Named(g, d)
  PROVE  i # NoID
<1>1. remote[g] \in Seq(Entry) /\ i \in DOMAIN remote[g]
  BY DEF TypeOK, Named
<1> HIDE DEF Entry
<1>2. QED
  BY <1>1 DEF NoID

LEMMA InitTrace == Init => TraceInv
<1> SUFFICES ASSUME Init PROVE TraceInv
  OBVIOUS
<1>1. ASSUME NEW g \in Grafanas, NEW d \in Datasources, NEW i \in Named(g, d) PROVE FALSE
  <2>1. remote[g] = <<[live |-> TRUE, owner |-> NoKey, spec |-> 0]>> /\ i \in DOMAIN remote[g]
    BY DEF Init, Named
  <2>2. i = 1
    BY <2>1
  <2>3. remote[g][i].owner = NoKey
    BY <2>1, <2>2
  <2>4. QED
    BY <2>3, DatasourceAssumption DEF Named
<1>2. QED
  BY <1>1 DEF Init, TraceInv

LEMMA NextTrace ==
  TypeOK /\ FinalizerInv /\ NumberInv /\ SyncInv /\ TraceInv /\ [Next]_vars => TraceInv'
<1> SUFFICES ASSUME TypeOK, FinalizerInv, NumberInv, SyncInv, TraceInv, [Next]_vars, Undisturbed'
             PROVE  TraceInv'
  BY DEF TraceInv
<1>1. Undisturbed /\ UNCHANGED <<faults, crashes, rebinds, binding>> /\ rebinds = 0
  BY UndisturbedBefore DEF Undisturbed
<1>2. /\ \A d \in Datasources, g \in Grafanas : \A i \in Named(g, d) :
            /\ g = binding[d] /\ obj[d].exists /\ obj[d].finalizer
            /\ i = obj[d].id \/ (pc = "created" /\ key = d /\ i = local.id)
      /\ pc = "release" => \A g \in Grafanas : Named(g, key) = {}
  BY <1>1 DEF TraceInv
<1>3. WorkInv /\ \A d \in Datasources : CopyInv(d)
  BY DEF SyncInv
<1>4. faults' # faults + 1
  BY <1>1 DEF TypeOK
<1>5. ASSUME NEW d \in Datasources, NEW g \in Grafanas, NEW i \in Named(g, d)
      PROVE  /\ g = binding[d] /\ obj'[d].exists /\ obj'[d].finalizer
             /\ i = obj'[d].id \/ (pc' = "created" /\ key' = d /\ i = local'.id)
  <2>1. /\ g = binding[d] /\ obj[d].exists /\ obj[d].finalizer /\ i # NoID
        /\ i = obj[d].id \/ (pc = "created" /\ key = d /\ i = local.id)
    BY <1>2, <1>5, NumbersArePositive
  <2>2. ~Goes(d) /\ ~Comes(d)
    BY <1>2, <1>5, <2>1 DEF Goes, Comes
  <2>3. obj'[d] = obj[d] \/ Edited(d) \/ Stays(d) \/ Patches(d)
    BY <2>2, ObjectSteps
  <2>4. obj'[d].exists /\ obj'[d].finalizer
    BY <2>1, <2>3, PatchedObject DEF Edited, Stays
  <2>5. CASE pc = "created" /\ key = d
    <3>1. obj[d].id = NoID /\ local.id # NoID /\ i = local.id /\ seen[d].exists
      BY <1>3, <2>1, <2>5 DEF WorkInv, Syncing
    <3>2. WorkerStays \/ Patches(d)
      BY <1>1, <1>3, <2>5, CalmSync
    <3>3. CASE WorkerStays
      BY <2>1, <2>4, <2>5, <3>1, <3>3 DEF WorkerStays
    <3>4. CASE Patches(d)
      <4>1. seen[d].id = NoID
        BY <1>3, <2>1, <3>1 DEF CopyInv
      <4>2. obj'[d].id = local.id
        BY <2>5, <3>1, <3>4, <4>1, PatchedObject
      <4>3. QED
        BY <2>1, <2>4, <3>1, <4>2
    <3>5. QED
      BY <3>2, <3>3, <3>4
  <2>6. CASE ~(pc = "created" /\ key = d)
    <3>1. obj'[d].id = obj[d].id
      BY <2>3, <2>6, PatchedObject DEF Edited, Stays, Patches
    <3>2. QED
      BY <2>1, <2>4, <2>6, <3>1
  <2>7. QED
    BY <2>5, <2>6
<1>6. ASSUME NEW d \in Datasources, NEW g \in Grafanas, NEW i \in Named(g, d)', i \notin Named(g, d)
      PROVE  /\ g = binding[d] /\ obj'[d].exists /\ obj'[d].finalizer
             /\ pc' = "created" /\ key' = d /\ i = local'.id
  <2>1. PICK h \in Grafanas : Posts(h) \/ Puts(h) \/ Removes(h)
    <3>1. ~UNCHANGED remote
      BY <1>6 DEF Named
    <3>2. QED
      BY <3>1, RemoteSteps
  <2>2. CASE Removes(h)
    BY <1>6, <2>2, RemoveNamed DEF Removes
  <2>3. CASE Puts(h)
    <3>1. /\ key \in Datasources /\ h = binding[key] /\ PutAccepted(h) /\ Put(h)
          /\ Live(h, local.id) /\ local.id # NoID
      BY <2>3 DEF Puts, PutAccepted
    <3>2. local.id \in Named(h, key)
      BY <1>1, <3>1, OwnLive
    <3>3. g = h /\ i = local.id /\ d = key
      BY <1>6, <3>1, PutNamed
    <3>4. QED
      BY <1>6, <3>2, <3>3
  <2>4. CASE Posts(h)
    <3>1. /\ key \in Datasources /\ h = binding[key] /\ PostAccepted(h) /\ Post(h) /\ pc = "sync"
          /\ pc' = "created" /\ local' = [local EXCEPT !.id = NumberOfAnswer(h)]
          /\ UNCHANGED <<obj, key>>
      BY <1>4, <2>4 DEF Posts
    <3>2. g = h /\ d = key /\ i = NumberOfAnswer(h)
      BY <1>6, <3>1, PostNamed
    <3>3. local'.id = NumberOfAnswer(h)
      BY <3>1 DEF TypeOK, Object
    <3>4. obj[d].exists /\ obj[d].finalizer
      BY <3>1, <3>2 DEF FinalizerInv, Syncing
    <3>5. QED
      BY <3>1, <3>2, <3>3, <3>4
  <2>5. QED
    BY <2>1, <2>2, <2>3, <2>4
<1>7. ASSUME pc' = "release", NEW g \in Grafanas, NEW i \in Named(g, key)' PROVE FALSE
  <2>1. \/ WorkerStays
        \/ key' = key /\ pc = "cleanup" /\ UNCHANGED <<obj, local>>
           /\ ((local.id = NoID /\ UNCHANGED remote) \/ \E h \in Grafanas : Removes(h))
    BY <1>7, WorkerSteps DEF Starts, FirstStep, Posts, Puts, Patches
  <2>2. pc \in {"release", "cleanup"} /\ key \in Datasources /\ key' = key
    BY <1>7, <2>1 DEF TypeOK, WorkerStays
  <2>3. ASSUME NEW h \in Grafanas, Removes(h) PROVE FALSE
    <3>1. pc = "cleanup" /\ h = binding[key] /\ Live(h, local.id) /\ Remove(h)
      BY <2>3 DEF Removes
    <3>2. i \in Named(g, key) /\ (g # h \/ i # local.id)
      <4>1. i \in Named(g, key)' <=> i \in Named(g, key) /\ (g # h \/ i # local.id)
        <5>1. \A d \in Datasources :
                 i \in Named(g, d)' <=> i \in Named(g, d) /\ (g # h \/ i # local.id)
          BY <3>1, RemoveNamed
        <5>2. QED
          BY <2>2, <5>1 DEF Named
      <4>2. QED
        BY <1>7, <4>1
    <3>3. g = binding[key] /\ i = obj[key].id /\ local.id = obj[key].id
      BY <1>2, <1>3, <2>2, <3>1, <3>2 DEF WorkInv
    <3>4. QED
      BY <3>1, <3>2, <3>3
  <2>4. CASE UNCHANGED remote
    <3>1. i \in Named(g, key)
      BY <1>7, <2>2, <2>4 DEF Named
    <3>2. pc = "cleanup" /\ i = obj[key].id /\ i # NoID
      BY <1>2, <2>2, <3>1, NumbersArePositive
    <3>3. local.id = obj[key].id
      BY <1>3, <3>2 DEF WorkInv
    <3>4. local.id = NoID
      BY <1>7, <2>1, <2>3, <3>2 DEF WorkerStays
    <3>5. QED
      BY <3>2, <3>3, <3>4
  <2>5. QED
    <3>1. UNCHANGED remote \/ \E h \in Grafanas : Removes(h)
      BY <2>2, RemoteSteps DEF Posts, Puts
    <3>2. QED
      BY <2>3, <2>4, <3>1
<1>8. QED
  BY <1>1, <1>5, <1>6, <1>7 DEF TraceInv

\* One step touches one object.
LEMMA OneObject ==
  ASSUME TypeOK, [Next]_vars, obj' # obj
  PROVE  \E e \in Datasources : \A d \in Datasources \ {e} : obj'[d] = obj[d]
<1>1. ASSUME NEW d \in Datasources, EditSpec(d) \/ DeleteObject(d)
      PROVE  \E e \in Datasources : \A c \in Datasources \ {e} : obj'[c] = obj[c]
  BY <1>1 DEF EditSpec, DeleteObject, TypeOK
<1>2. CASE Finalize \/ Mark \/ Record \/ MarkFailed \/ MarkTerminating \/ Release
  <2>1. key \in Datasources
    BY <1>2 DEF Finalize, Mark, Record, MarkFailed, MarkTerminating, Release, TypeOK
  <2>2. \A c \in Datasources \ {key} : obj'[c] = obj[c]
    BY <1>2 DEF Finalize, Mark, Record, MarkFailed, MarkTerminating, Release, Patch, TypeOK
  <2>3. QED
    BY <2>1, <2>2
<1>3. QED
  BY <1>1, <1>2 DEF Next, User, Step, Rebind, Resync, Restart, ApiFault, GrafanaFault, Sync, Cleanup,
                    Deliver, Start, vars

LEMMA InitContract == Init => Contract!ContractInit
<1> SUFFICES ASSUME Init PROVE Contract!ContractInit
  OBVIOUS
<1>1. ASSUME NEW g \in Grafanas, NEW d \in Datasources, NEW i \in Named(g, d) PROVE FALSE
  <2>1. remote[g] = <<[live |-> TRUE, owner |-> NoKey, spec |-> 0]>> /\ i \in DOMAIN remote[g]
    BY DEF Init, Named
  <2>2. i = 1
    BY <2>1
  <2>3. remote[g][i].owner = NoKey
    BY <2>1, <2>2
  <2>4. QED
    BY <2>3, DatasourceAssumption DEF Named
<1>2. \A d \in Datasources : ~(\E g \in Grafanas : Named(g, d) # {})
  BY <1>1
<1>3. Held \in [Datasources -> BOOLEAN]
  BY InitType DEF Held, TypeOK, Object
<1>4. QED
  BY <1>2, <1>3 DEF Contract!ContractInit, Outside

\* A step of the reconciler is a step of the contract.
LEMMA StepContract ==
  ASSUME Inv, [Next]_vars, Undisturbed'
  PROVE  Contract!ContractNext \/ UNCHANGED <<Held, Outside>>
<1>1. TypeOK /\ FinalizerInv /\ NumberInv /\ WorkInv /\ TraceInv
  BY DEF Inv, SyncInv
<1>2. Undisturbed /\ rebinds = 0
  BY <1>1, UndisturbedBefore DEF Undisturbed
<1>3. /\ \A d \in Datasources, g \in Grafanas : \A i \in Named(g, d) :
            /\ g = binding[d]
            /\ i = obj[d].id \/ (pc = "created" /\ key = d /\ i = local.id)
      /\ pc = "release" => \A g \in Grafanas : Named(g, key) = {}
  BY <1>1, <1>2 DEF TraceInv
\* The objects change and Grafana does not.
<1>4. CASE UNCHANGED remote
  <2>1. UNCHANGED Outside
    BY <1>4 DEF Outside, Named
  <2>2. CASE UNCHANGED obj
    BY <2>1, <2>2 DEF Held
  <2>3. CASE obj' # obj
    <3>1. PICK e \in Datasources : \A d \in Datasources \ {e} : obj'[d] = obj[d]
      BY <1>1, <2>3, OneObject
    <3>2. \A d \in Datasources \ {e} :
             (obj'[d].exists /\ obj'[d].finalizer) <=> (obj[d].exists /\ obj[d].finalizer)
      BY <3>1
    <3>3. obj'[e].exists \in BOOLEAN /\ obj'[e].finalizer \in BOOLEAN
          /\ obj[e].exists \in BOOLEAN /\ obj[e].finalizer \in BOOLEAN
      <4>1. obj[e] \in Object /\ obj'[e] \in Object
        BY <1>1, NextType DEF TypeOK
      <4>2. QED
        BY <4>1 DEF Object
    <3>4. CASE (obj'[e].exists /\ obj'[e].finalizer) = (obj[e].exists /\ obj[e].finalizer)
      <4>1. Held' = Held
        BY <3>2, <3>4 DEF Held
      <4>2. QED
        BY <2>1, <4>1
    <3>5. CASE obj'[e].exists /\ obj'[e].finalizer /\ ~(obj[e].exists /\ obj[e].finalizer)
      <4>1. ~Held[e] /\ Held' = [Held EXCEPT ![e] = TRUE]
        BY <3>2, <3>5 DEF Held
      <4>2. Contract!Acquire(e)
        BY <2>1, <4>1 DEF Contract!Acquire
      <4>3. QED
        BY <4>2 DEF Contract!ContractNext
    <3>6. CASE obj[e].exists /\ obj[e].finalizer /\ ~(obj'[e].exists /\ obj'[e].finalizer)
      <4>1. Goes(e)
        BY <1>1, <3>6, ObjectSteps, PatchedObject DEF Edited, Stays, Comes
      <4>2. pc = "release" /\ key = e
        BY <3>6, <4>1 DEF Goes
      <4>3. ~Outside[e]
        BY <1>3, <4>2 DEF Outside
      <4>4. Held[e] /\ Held' = [Held EXCEPT ![e] = FALSE]
        BY <3>2, <3>6 DEF Held
      <4>5. Contract!Release(e)
        BY <2>1, <4>3, <4>4 DEF Contract!Release
      <4>6. QED
        BY <4>5 DEF Contract!ContractNext
    <3>7. QED
      BY <3>3, <3>4, <3>5, <3>6
  <2>4. QED
    BY <2>2, <2>3
\* Grafana changes and the objects do not.
<1>5. ASSUME NEW g \in Grafanas, Posts(g) PROVE Contract!ContractNext
  <2>1. /\ pc = "sync" /\ key \in Datasources /\ g = binding[key] /\ PostAccepted(g) /\ Post(g)
        /\ UNCHANGED obj
    BY <1>5 DEF Posts
  <2>2. \A h \in Grafanas, d \in Datasources : \A i :
           i \in Named(h, d)' <=> i \in Named(h, d) \/ (h = g /\ d = key /\ i = NumberOfAnswer(g))
    BY <1>1, <2>1, PostNamed
  <2>3. Outside' = [Outside EXCEPT ![key] = TRUE]
    <3>1. \A d \in Datasources : (\E h \in Grafanas : Named(h, d)' # {})
             <=> (d = key \/ \E h \in Grafanas : Named(h, d) # {})
      BY <2>1, <2>2
    <3>2. QED
      BY <2>1, <3>1 DEF Outside
  <2>4. Held[key] /\ UNCHANGED Held
    BY <1>1, <2>1 DEF Held, FinalizerInv, Syncing
  <2>5. Contract!Provision(key)
    BY <2>3, <2>4 DEF Contract!Provision
  <2>6. QED
    BY <2>1, <2>5 DEF Contract!ContractNext
<1>6. ASSUME NEW g \in Grafanas, Puts(g) PROVE UNCHANGED <<Held, Outside>>
  <2>1. /\ pc = "sync" /\ key \in Datasources /\ g = binding[key] /\ PutAccepted(g) /\ Put(g)
        /\ UNCHANGED obj /\ local.id # NoID /\ Live(g, local.id)
    BY <1>6 DEF Puts, PutAccepted
  <2>2. local.id \in Named(g, key)
    BY <1>1, <1>2, <2>1, OwnLive
  <2>3. \A h \in Grafanas, d \in Datasources : \A i :
           i \in Named(h, d)' <=> IF h = g /\ i = local.id THEN d = key ELSE i \in Named(h, d)
    BY <1>1, <2>1, PutNamed
  <2>4. \A h \in Grafanas, d \in Datasources : \A i : i \in Named(h, d)' <=> i \in Named(h, d)
    BY <2>2, <2>3 DEF Named
  <2>5. \A d \in Datasources : (\E h \in Grafanas : Named(h, d)' # {})
                               <=> (\E h \in Grafanas : Named(h, d) # {})
    BY <2>4
  <2>6. QED
    BY <2>1, <2>5 DEF Held, Outside
<1>7. ASSUME NEW g \in Grafanas, Removes(g) PROVE Contract!ContractNext
  <2>1. /\ pc = "cleanup" /\ key \in Datasources /\ g = binding[key] /\ Live(g, local.id) /\ Remove(g)
        /\ UNCHANGED obj /\ local.id # NoID
    BY <1>7 DEF Removes
  <2>2. local.id \in Named(g, key) /\ local.id = obj[key].id
    BY <1>1, <1>2, <2>1, OwnLive DEF WorkInv
  <2>3. \A h \in Grafanas, d \in Datasources : \A i :
           i \in Named(h, d)' <=> i \in Named(h, d) /\ (h # g \/ i # local.id)
    BY <1>1, <2>1, RemoveNamed
  <2>4. \A h \in Grafanas, d \in Datasources :
           /\ d # key => \A i : i \in Named(h, d)' <=> i \in Named(h, d)
           /\ d = key => Named(h, d)' = {}
    <3>1. ASSUME NEW h \in Grafanas, NEW d \in Datasources, d # key
          PROVE  \A i : i \in Named(h, d)' <=> i \in Named(h, d)
      BY <2>2, <2>3, <3>1 DEF Named
    <3>2. ASSUME NEW h \in Grafanas, NEW d \in Datasources, d = key PROVE Named(h, d)' = {}
      BY <1>3, <2>1, <2>2, <2>3, <3>2
    <3>3. QED
      BY <3>1, <3>2
  <2>5. Outside' = [Outside EXCEPT ![key] = FALSE]
    <3>1. \A d \in Datasources : (\E h \in Grafanas : Named(h, d)' # {})
             <=> (d # key /\ \E h \in Grafanas : Named(h, d) # {})
      BY <2>4
    <3>2. QED
      BY <2>1, <3>1 DEF Outside
  <2>6. Held[key] /\ UNCHANGED Held
    BY <1>1, <2>1 DEF Held, FinalizerInv
  <2>7. Contract!Withdraw(key)
    BY <2>5, <2>6 DEF Contract!Withdraw
  <2>8. QED
    BY <2>1, <2>7 DEF Contract!ContractNext
<1>8. QED
  BY <1>1, <1>4, <1>5, <1>6, <1>7, RemoteSteps

-----------------------------------------------------------------------------
(* Why the status is honest. *)

\* While no reference moves, an update is never refused.
LEMMA PutGoes ==
  ASSUME TypeOK, FinalizerInv, NumberInv, SyncInv, rebinds = 0, pc = "sync", local.id # NoID
  PROVE  PutAccepted(binding[key])
<1>1. key \in Datasources /\ local.id = obj[key].id
  BY DEF TypeOK, SyncInv, WorkInv
<1>2. Live(binding[key], local.id)
  BY <1>1 DEF SyncInv, RecordedInv, Syncing
<1>3. binding[key] \in Grafanas /\ local.id \in Named(binding[key], key)
  BY <1>1, <1>2, OwnLive
<1>4. Named(binding[key], key) \subseteq {local.id}
  BY <1>1, <1>3 DEF SyncInv, NamedOnce
<1>5. QED
  BY <1>2, <1>3, <1>4, DatasourceAssumption DEF PutAccepted

\* How a sync comes to fail when no call does.
LEMMA CalmRefusal ==
  ASSUME TypeOK, [Next]_vars, UNCHANGED <<faults, crashes>>, pc = "sync", pc' = "fail"
  PROVE  ~PostAccepted(binding[key]) /\ ~PutAccepted(binding[key])
<1>1. crashes' # crashes + 1 /\ faults' # faults + 1
  BY DEF TypeOK
<1>2. CASE Sync
  BY <1>2 DEF Sync, Goto
<1>3. QED
  BY <1>1, <1>2 DEF Next, User, Step, EditSpec, DeleteObject, Rebind, Resync, Restart, ApiFault,
      GrafanaFault, Finalize, Mark, Record, MarkFailed, MarkTerminating, Cleanup, Release, Deliver,
      Start, vars, workerVars

\* How a sync ends when the operator keeps running.
LEMMA SyncEnds ==
  ASSUME TypeOK, FinalizerInv, WorkInv, [Next]_vars, UNCHANGED crashes,
         pc \in {"sync", "created", "updated", "fail"},
         ~(pc' \in {"sync", "created", "updated", "fail"} /\ key' = key)
  PROVE  Patches(key) \/ (pc = "fail" /\ faults' = faults + 1 /\ UNCHANGED <<obj, remote>>)
<1>1. key \in Datasources /\ CanPatch(key) /\ crashes' # crashes + 1
  BY DEF TypeOK, FinalizerInv, WorkInv, CanPatch, Syncing
<1>2. CASE Sync
  BY <1>2 DEF Sync, Goto
<1>3. CASE Record
  BY <1>1, <1>3 DEF Record, Return, Patches, boundVars
<1>4. CASE MarkFailed
  BY <1>1, <1>4 DEF MarkFailed, Failed, Return, Patches, boundVars
<1>5. CASE ApiFault \/ GrafanaFault
  BY <1>5 DEF ApiFault, GrafanaFault, Goto, Return
<1>6. QED
  BY <1>1, <1>2, <1>3, <1>4, <1>5 DEF Next, User, Step, EditSpec, DeleteObject, Rebind, Resync, Restart,
      Finalize, Mark, MarkTerminating, Cleanup, Release, Deliver, Start, vars, workerVars

LEMMA InitHonest == Init => HonestInv
<1> SUFFICES ASSUME Init PROVE HonestInv
  OBVIOUS
<1>1. "" # "Failed" /\ "" # "Current"
  OBVIOUS
<1>2. \A d \in Datasources : obj[d].phase = "" /\ seen[d].phase = ""
  BY DEF Init, Absent
<1>3. \A d \in Datasources : /\ obj[d].phase # "Failed" /\ seen[d].phase # "Failed"
                             /\ obj[d].phase # "Current"
  BY <1>1, <1>2, Zenon
<1>4. pc = "idle"
  BY DEF Init
<1>5. QED
  BY <1>3, <1>4 DEF HonestInv

LEMMA NextHonest ==
  TypeOK /\ FinalizerInv /\ NumberInv /\ SyncInv /\ TraceInv /\ HonestInv /\ [Next]_vars => HonestInv'
<1> SUFFICES ASSUME TypeOK, FinalizerInv, NumberInv, SyncInv, TraceInv, HonestInv, [Next]_vars,
                    rebinds' = 0, crashes' = 0, faults' <= 1
             PROVE  HonestInv'
  BY DEF HonestInv
<1>1. /\ rebinds = 0 /\ crashes = 0 /\ UNCHANGED <<binding, crashes>>
      /\ faults \in {0, 1} /\ faults' \in {faults, faults + 1} /\ faults' \in {0, 1}
  <2>1. faults \in Nat /\ crashes \in Nat
    BY DEF TypeOK
  <2>2. faults' \in {faults, faults + 1} /\ crashes' \in {crashes, crashes + 1}
    BY DEF Next, User, Step, EditSpec, DeleteObject, Rebind, Resync, Restart, ApiFault, GrafanaFault,
           Finalize, Mark, Sync, Record, MarkFailed, MarkTerminating, Cleanup, Release, Deliver,
           Start, vars, boundVars
  <2>3. QED
    BY <2>1, <2>2, RebindsGrow
<1>2. /\ WorkInv /\ NamedOnce /\ RecordedInv
      /\ \A d \in Datasources : CopyInv(d)
  BY DEF SyncInv
<1>3. /\ pc = "fail" /\ faults = 0 => binding[key] = NoGrafana
      /\ \A d \in Datasources :
            /\ binding[d] # NoGrafana
            /\ faults = 0 \/ (pc = "fail" /\ key = d /\ obj[d].id # NoID)
            => obj[d].phase # "Failed" /\ seen[d].phase # "Failed"
      /\ \A d \in Datasources :
            /\ ~(pc \in {"sync", "created", "updated", "fail"} /\ key = d)
            /\ obj[d].exists /\ ~obj[d].deleting /\ obj[d].observed = obj[d].generation
            /\ obj[d].phase = "Current" /\ obj[d].reason = "updated"
            => Synced(d)
  BY <1>1 DEF HonestInv
<1>4. \A d \in Datasources : obj[d].id # NoID => binding[d] # NoGrafana
  BY <1>1, NumberInvMeans DEF OwnNumber
\* A sync whose object has a number fails only with a call.
<1>5. ASSUME pc' = "fail", pc # "fail", faults' = faults
      PROVE  /\ pc = "sync" /\ key \in Datasources /\ key' = key /\ UNCHANGED obj
             /\ obj[key].id = NoID /\ local.id = NoID /\ ~PostAccepted(binding[key])
  <2>1. faults' # faults + 1
    BY <1>1, <1>5
  <2>2. ~(pc \in {"created", "updated"})
    <3>1. ASSUME pc \in {"created", "updated"} PROVE FALSE
      <4>1. WorkerStays \/ Patches(key)
        BY <1>1, <1>2, <1>5, <3>1, CalmSync
      <4>2. QED
        BY <1>5, <4>1 DEF WorkerStays, Patches
    <3>2. QED
      BY <3>1
  <2>3. pc = "sync" /\ key' = key /\ UNCHANGED obj
    BY <1>5, <2>1, <2>2, WorkerSteps DEF WorkerStays, Starts, FirstStep, Posts, Puts, Patches
  <2>4. ~PostAccepted(binding[key]) /\ ~PutAccepted(binding[key])
    BY <1>1, <1>5, <2>3, CalmRefusal
  <2>5. local.id = NoID
    BY <1>1, <2>3, <2>4, PutGoes
  <2>6. key \in Datasources /\ local.id = obj[key].id
    BY <1>2, <2>3 DEF TypeOK, WorkInv
  <2>7. QED
    BY <2>3, <2>4, <2>5, <2>6
<1>6. ASSUME pc' = "fail", faults' = 0 PROVE binding[key'] = NoGrafana
  <2>1. faults = 0
    BY <1>1, <1>6
  <2>2. CASE pc = "fail"
    <3>1. key' = key
      BY <1>6, <2>2, WorkerSteps DEF WorkerStays, Starts, Posts, Puts, Patches
    <3>2. QED
      BY <1>3, <2>1, <2>2, <3>1
  <2>3. CASE pc # "fail"
    <3>1. /\ pc = "sync" /\ key \in Datasources /\ key' = key /\ obj[key].id = NoID /\ local.id = NoID
          /\ ~PostAccepted(binding[key])
      BY <1>5, <1>6, <2>1, <2>3
    <3>2. ASSUME binding[key] # NoGrafana PROVE FALSE
      <4>1. binding[key] \in Grafanas
        BY <3>1, <3>2 DEF TypeOK
      <4>2. PICK i : i \in Named(binding[key], key)
        BY <3>1, <3>2 DEF PostAccepted
      <4>3. i = obj[key].id
        BY <1>1, <2>1, <3>1, <4>1, <4>2 DEF TraceInv, Undisturbed
      <4>4. QED
        BY <3>1, <4>1, <4>2, <4>3, NumbersArePositive
    <3>3. QED
      BY <3>1, <3>2
  <2>4. QED
    BY <2>2, <2>3
<1>7. ASSUME NEW d \in Datasources, binding[d] # NoGrafana,
             faults' = 0 \/ (pc' = "fail" /\ key' = d /\ obj'[d].id # NoID)
      PROVE  obj'[d].phase # "Failed" /\ seen'[d].phase # "Failed"
  <2>1. faults = 0 \/ (pc = "fail" /\ key = d /\ obj[d].id # NoID)
    <3>1. CASE faults' = 0
      BY <1>1, <3>1
    <3>2. CASE pc' = "fail" /\ key' = d /\ obj'[d].id # NoID /\ faults' = faults /\ pc = "fail"
      <4>1. key = d
        BY <3>2, WorkerSteps DEF WorkerStays, Starts, Posts, Puts, Patches
      <4>2. obj[d].id # NoID
        BY <3>2, ObjectSteps, AbsentFields DEF Edited, Stays, Goes, Comes, Patches
      <4>3. QED
        BY <3>2, <4>1, <4>2
    <3>3. CASE pc' = "fail" /\ key' = d /\ obj'[d].id # NoID /\ faults' = faults /\ pc # "fail"
      BY <1>5, <3>3
    <3>4. QED
      BY <1>1, <1>7, <3>1, <3>2, <3>3
  <2>2. obj[d].phase # "Failed" /\ seen[d].phase # "Failed"
    BY <1>3, <1>7, <2>1
  <2>3. seen'[d].phase # "Failed"
    BY <2>2, CacheSteps
  <2>4. CASE Patches(d)
    <3>1. pc # "fail"
      BY <1>1, <1>3, <1>7, <2>4 DEF Patches
    <3>2. obj'[d].phase \in {obj[d].phase, "Processing", "Current", "Terminating"}
      BY <2>4, <3>1, PatchedObject DEF Patches
    <3>3. QED
      BY <2>2, <2>3, <3>2
  <2>5. CASE Goes(d) \/ Comes(d)
    BY <2>3, <2>5, AbsentFields DEF Goes, Comes
  <2>6. CASE obj'[d] = obj[d] \/ Edited(d) \/ Stays(d)
    BY <2>2, <2>3, <2>6 DEF Edited, Stays
  <2>7. QED
    BY <2>4, <2>5, <2>6, ObjectSteps
<1>8. ASSUME NEW d \in Datasources,
             ~(pc' \in {"sync", "created", "updated", "fail"} /\ key' = d),
             obj'[d].exists, ~obj'[d].deleting, obj'[d].observed = obj'[d].generation,
             obj'[d].phase = "Current", obj'[d].reason = "updated"
      PROVE  /\ obj'[d].id \in DOMAIN remote'[binding[d]]
             /\ remote'[binding[d]][obj'[d].id]
                  = [live |-> TRUE, owner |-> d, spec |-> obj'[d].generation]
  <2>1. obj[d] \in Object /\ CopyInv(d)
    BY <1>2 DEF TypeOK
  <2>2. ~Goes(d) /\ ~Comes(d)
    BY <1>8, AbsentFields DEF Goes, Comes
  <2>3. CASE ~(pc \in {"sync", "created", "updated", "fail"} /\ key = d)
    <3>1. ~Patches(d)
      <4>1. pc = "terminate" /\ key = d /\ obj[d].exists => obj[d].deleting
        BY DEF FinalizerInv, Ending
      <4>2. QED
        BY <1>8, <2>3, <4>1, PatchedObject DEF Patches, CanPatch
    <3>2. ~Edited(d)
      <4>1. obj[d].observed \in Nat /\ obj[d].generation \in Nat
        BY <2>1 DEF Object
      <4>2. obj[d].observed <= obj[d].generation
        BY <2>1 DEF CopyInv
      <4>3. obj[d].observed # obj[d].generation + 1
        BY <4>1, <4>2
      <4>4. Edited(d) => obj'[d].observed = obj[d].observed /\ obj'[d].generation = obj[d].generation + 1
        BY <2>1 DEF Edited, Object
      <4>5. QED
        BY <1>8, <4>3, <4>4
    <3>3. /\ obj[d].exists /\ ~obj[d].deleting /\ obj[d].observed = obj[d].generation
          /\ obj[d].phase = "Current" /\ obj[d].reason = "updated"
          /\ obj'[d].id = obj[d].id /\ obj'[d].generation = obj[d].generation
      BY <1>8, <2>2, <3>1, <3>2, ObjectSteps DEF Stays
    <3>4. Synced(d) /\ obj[d].id # NoID
      BY <1>3, <2>1, <2>3, <3>3 DEF CopyInv
    <3>5. binding[d] \in Grafanas /\ obj[d].id \in Named(binding[d], d)
      BY <1>1, <3>4, OwnLive DEF Synced
    <3>6. ~(key = d /\ pc \in {"sync", "cleanup"})
      BY <2>3, <3>3 DEF FinalizerInv
    <3>7. /\ remote'[binding[d]][obj[d].id] = remote[binding[d]][obj[d].id]
          /\ obj[d].id \in Named(binding[d], d)'
      BY <1>1, <3>5, <3>6, EntrySteps
    <3>8. obj[d].id \in DOMAIN remote'[binding[d]]
      BY <1>1, <3>7 DEF Named
    <3>9. QED
      BY <3>3, <3>4, <3>7, <3>8 DEF Synced
  <2>4. CASE pc \in {"sync", "created", "updated", "fail"} /\ key = d
    <3>1. Patches(d) \/ (pc = "fail" /\ faults' = faults + 1 /\ UNCHANGED <<obj, remote>>)
      BY <1>1, <1>2, <1>8, <2>4, SyncEnds
    <3>2. ASSUME pc = "fail", faults' = faults + 1, UNCHANGED <<obj, remote>> PROVE FALSE
      <4>1. binding[d] = NoGrafana
        BY <1>1, <1>3, <2>4, <3>2
      <4>2. QED
        BY <1>4, <1>8, <2>1, <3>2, <4>1 DEF CopyInv
    <3>3. ASSUME Patches(d), pc = "created" PROVE FALSE
      <4>1. obj[d].reason # "updated"
        BY <1>2, <2>1, <2>4, <3>3 DEF WorkInv, CopyInv
      <4>2. QED
        BY <1>8, <3>3, <4>1, PatchedObject
    <3>4. ASSUME Patches(d), pc = "fail" PROVE FALSE
      <4>1. CASE obj[d].id = NoID
        BY <1>8, <2>1, <3>4, <4>1, PatchedObject DEF CopyInv
      <4>2. CASE obj[d].id # NoID
        <5>1. seen[d].phase # "Failed"
          BY <1>3, <1>4, <2>4, <3>4, <4>2
        <5>2. QED
          BY <1>8, <3>4, <5>1, PatchedObject
      <4>3. QED
        BY <4>1, <4>2
    <3>5. CASE Patches(d) /\ pc = "updated"
      <4>1. obj'[d].id = local.id /\ local.id # NoID /\ UNCHANGED remote
        BY <1>2, <2>4, <3>5, PatchedObject DEF WorkInv, Patches
      <4>2. obj'[d].observed = local.generation
        BY <1>2, <2>4, <3>5, PatchedObject DEF WorkInv
      <4>3. remote[binding[d]][local.id] = Written /\ local.id \in DOMAIN remote[binding[d]]
        BY <1>1, <1>2, <2>4, <3>5, <4>1, OwnLive DEF RecordedInv
      <4>4. QED
        BY <1>8, <2>4, <4>1, <4>2, <4>3 DEF Written
    <3>6. CASE pc = "sync"
      BY <3>1, <3>6 DEF Patches
    <3>7. QED
      BY <2>4, <3>1, <3>2, <3>3, <3>4, <3>5, <3>6
  <2>5. QED
    BY <2>3, <2>4
<1>9. \A d \in Datasources :
         /\ ~(pc' \in {"sync", "created", "updated", "fail"} /\ key' = d)
         /\ obj'[d].exists /\ ~obj'[d].deleting /\ obj'[d].observed = obj'[d].generation
         /\ obj'[d].phase = "Current" /\ obj'[d].reason = "updated"
         => Synced(d)'
  BY <1>1, <1>8 DEF Synced, Live
<1>10. QED
  BY <1>1, <1>6, <1>7, <1>9 DEF HonestInv

LEMMA InitSync == Init => SyncInv
<1> SUFFICES ASSUME Init PROVE SyncInv
  OBVIOUS
<1>1. \A g \in Grafanas, d \in Datasources : Named(g, d) = {}
  <2> TAKE g \in Grafanas, d \in Datasources
  <2>1. remote[g] = <<[live |-> TRUE, owner |-> NoKey, spec |-> 0]>>
    BY DEF Init
  <2>2. \A i \in DOMAIN remote[g] : remote[g][i].owner = NoKey
    BY <2>1
  <2>3. QED
    BY <2>2, DatasourceAssumption DEF Named
<1>2. NamedOnce
  BY <1>1 DEF NamedOnce
<1>3. \A d \in Datasources : CopyInv(d)
  <2> TAKE d \in Datasources
  <2>1. /\ obj[d].observed = 0 /\ obj[d].generation = 1 /\ obj[d].reason # "updated"
        /\ seen[d].observed = 0 /\ seen[d].generation = 0 /\ ~seen[d].exists
    BY DEF Init, Absent
  <2>2. QED
    BY <2>1 DEF CopyInv
<1>4. pc = "idle" /\ \A d \in Datasources : obj[d].id = NoID
  BY DEF Init, Absent
<1>5. WorkInv
  BY <1>4 DEF WorkInv, Syncing
<1>6. RecordedInv
  BY <1>4 DEF RecordedInv
<1>7. QED
  BY <1>2, <1>3, <1>5, <1>6 DEF SyncInv

\* Cache, worker and Grafana agree with the API server's objects in every
\* reachable state.
THEOREM DatasourceInvariant == Spec => []Inv
<1>1. Init => Inv
  BY InitType, InitFinalizer, InitNumber, InitSync, InitTrace, InitHonest DEF Inv
<1>2. Inv /\ [Next]_vars => Inv'
  <2> SUFFICES ASSUME Inv, [Next]_vars PROVE Inv'
    OBVIOUS
  <2>1. TypeOK /\ FinalizerInv /\ NumberInv /\ SyncInv /\ TraceInv /\ HonestInv
    BY DEF Inv
  <2>2. NamedOnce /\ (\A d \in Datasources : CopyInv(d)) /\ WorkInv /\ RecordedInv
    BY <2>1 DEF SyncInv
  <2>3. TypeOK' /\ FinalizerInv' /\ NumberInv'
    BY <2>1, NextType, NextFinalizer, NextNumber
  <2>4. NamedOnce'
    BY <2>1, <2>2, NextNamedOnce
  <2>5. (\A d \in Datasources : CopyInv(d))'
    BY <2>1, <2>2, <2>3, NextCopy
  <2>6. WorkInv'
    BY <2>1, <2>2, <2>3, NextWork
  <2>7. RecordedInv'
    BY <2>1, <2>2, <2>3, NextRecorded
  <2>8. SyncInv'
    BY <2>4, <2>5, <2>6, <2>7 DEF SyncInv
  <2>9. TraceInv'
    BY <2>1, <2>2, <2>3, NextTrace
  <2>10. HonestInv'
    BY <2>1, <2>2, <2>3, <2>8, <2>9, NextHonest
  <2>11. QED
    BY <2>3, <2>8, <2>9, <2>10 DEF Inv
<1>3. QED
  BY <1>1, <1>2, PTL DEF Spec

\* A status of Current with the reason of an update, on an object at its
\* observed generation, is true of Grafana once the worker and the cache are
\* at rest: at most one call having failed, no reference having moved.
THEOREM StatusTellsTheTruth == Spec => []StatusIsHonest
<1>1. Inv => StatusIsHonest
  BY DEF Inv, HonestInv, StatusIsHonest, Quiet
<1>2. QED
  BY <1>1, DatasourceInvariant, PTL

\* While nothing is lost, every step of the reconciler is a step of the
\* finalizer contract or leaves the contract's state alone.
THEOREM UndisturbedImplementsContract == Spec => ImplementsContractUndisturbed
<1>1. Init => Contract!ContractInit
  BY InitContract
<1>2. Inv /\ [Next]_vars => [Undisturbed' => Contract!ContractNext]_<<Held, Outside>>
  BY StepContract DEF Inv, SyncInv
<1>3. QED
  BY <1>1, <1>2, DatasourceInvariant, PTL DEF Spec, ImplementsContractUndisturbed
=============================================================================
