---------------------- MODULE PrometheusControllerProofs ----------------------
(***************************************************************************)
(* Theorems about PrometheusController, for every platform, every set of   *)
(* Prometheus objects and every bound: type correctness; that the hub is   *)
(* only told of a Prometheus that carries the finalizer; that a marker     *)
(* means both registrations; that OpenShift's other Prometheus objects are *)
(* left alone; that the finalizer guards the registrations, for a lone     *)
(* Prometheus and, while the detector keeps to its verdict, for several;   *)
(* that one Prometheus is the default one; and that the operator rests     *)
(* only when what it serves is registered.                                 *)
(***************************************************************************)
EXTENDS PrometheusController, FiniteSetTheorems, TLAPS

\* The initial records have their types.
LEMMA ConstantTypes ==
  /\ 0 \in States /\ 1 \in States /\ 0 \in Tokens /\ FirstToken \in Tokens
  /\ Absent \in Object /\ NoRegistration \in Registration
  /\ NoMarker \in Markers /\ NoMarker \in [state : States, token : Tokens]
<1>1. 0 \in States /\ 1 \in States /\ 0 \in Tokens /\ FirstToken \in Tokens
  BY PrometheusAssumption DEF States, Tokens
<1>2. Absent \in Object
  BY DEF Absent, Object
<1>3. QED
  BY <1>1, <1>2 DEF NoRegistration, Registration, NoMarker, Markers

LEMMA NewType == ASSUME NEW u \in Nat PROVE New(u) \in Object
BY DEF New, Absent, Object

LEMMA ReturnType ==
  ASSUME TypeOK, key \in Proms, NEW r \in BOOLEAN, Return(r)
  PROVE  /\ queue' \subseteq Proms /\ pc' = "idle" /\ key' \in Proms \cup {None}
         /\ local' \in Object /\ chosen' \in [state : States, token : Tokens]
         /\ marker' \in Markers /\ backend' \in Backends
BY ConstantTypes DEF TypeOK, Return, Backends

LEMMA InitType == Init => TypeOK
<1> SUFFICES ASSUME Init PROVE TypeOK
  OBVIOUS
<1>1. prom \in [Proms -> Object]
  <2>1. ASSUME NEW p \in Proms PROVE [New(1) EXCEPT !.finalizer = Old(Ns[p])] \in Object
    <3>1. Old(Ns[p]) \in BOOLEAN
      BY DEF Old
    <3>2. QED
      BY <3>1, NewType DEF Object
  <2>2. QED
    BY <2>1, ConstantTypes DEF Init
<1>2. roleBinding \in [Namespaces -> Markers]
  <2>1. [state |-> Legacy, token |-> 0] \in Markers
    BY ConstantTypes DEF Markers
  <2>2. QED
    BY <2>1, ConstantTypes DEF Init
<1>3. appBinding \in [Namespaces -> [Kinds -> Nat]]
  BY DEF Init
<1>4. auth \in [Namespaces -> SUBSET Backends]
  BY DEF Init
<1>5. hub \in [Backends -> [Contexts -> Registration]]
  <2>1. LegacyNs # {} => [by |-> First, state |-> 1, token |-> FirstToken] \in Registration
    BY ConstantTypes, PrometheusAssumption DEF Registration
  <2>2. QED
    BY <2>1, ConstantTypes DEF Init
<1>6. clusterPreset \in BOOLEAN
  BY DEF Init
<1>7. QED
  BY <1>1, <1>2, <1>3, <1>4, <1>5, <1>6, ConstantTypes DEF Init, TypeOK, Modes, Backends

\* The types what happens around the worker leaves.
LEMMA EnvironmentType ==
  ASSUME TypeOK,
         \/ User \/ Collector \/ ChangeState \/ RotateToken \/ Resync \/ Restart
         \/ \E p \in Proms : Deliver(p)
  PROVE  TypeOK'
<1> USE DEF presetVars, bindVars, inputVars, workerVars, bounds
<1>1. ASSUME NEW p \in Proms, CreateProm(p) PROVE TypeOK'
  <2>1. uids' \in Nat
    BY <1>1 DEF CreateProm, TypeOK
  <2>2. prom' \in [Proms -> Object]
    BY <1>1, <2>1, NewType DEF CreateProm, TypeOK
  <2>3. QED
    BY <1>1, <2>1, <2>2 DEF CreateProm, TypeOK
<1>2. ASSUME NEW p \in Proms, DeleteProm(p) PROVE TypeOK'
  <2>1. [prom[p] EXCEPT !.deleting = TRUE] \in Object
    BY DEF TypeOK, Object
  <2>2. prom' \in [Proms -> Object]
    BY <1>2, <2>1, ConstantTypes DEF DeleteProm, TypeOK
  <2>3. QED
    BY <1>2, <2>2 DEF DeleteProm, TypeOK
<1>3. ASSUME NEW n \in Namespaces, NEW k \in Kinds, DropBinding(n, k) \/ CollectGarbage(n, k)
      PROVE  TypeOK'
  <2>1. Removed(n, k) /\ drops' \in Nat
    BY <1>3 DEF DropBinding, CollectGarbage, TypeOK
  <2>2. appBinding' \in [Namespaces -> [Kinds -> Nat]]
    <3>1. [appBinding[n] EXCEPT ![k] = 0] \in [Kinds -> Nat]
      BY DEF TypeOK
    <3>2. QED
      BY <2>1, <3>1 DEF Removed, TypeOK
  <2>3. auth' \in [Namespaces -> SUBSET Backends]
    BY <2>1 DEF Removed, TypeOK
  <2>4. QED
    BY <2>1, <2>2, <2>3 DEF Removed, TypeOK
<1>4. ASSUME NEW n \in Namespaces, DropService(n) PROVE TypeOK'
  <2>1. roleBinding' \in [Namespaces -> Markers] /\ drops' \in Nat
    BY <1>4, ConstantTypes DEF DropService, TypeOK
  <2>2. QED
    BY <1>4, <2>1 DEF DropService, TypeOK
<1>5. ASSUME NEW p \in Proms, Deliver(p) PROVE TypeOK'
  BY <1>5 DEF Deliver, TypeOK
<1>6. CASE ChangeState
  <2>1. state' \in States
    BY <1>6, PrometheusAssumption DEF ChangeState, TypeOK, States
  <2>2. QED
    BY <1>6, <2>1 DEF ChangeState, TypeOK, Listed
<1>7. CASE RotateToken
  <2>1. token' \in Tokens
    BY <1>7, PrometheusAssumption DEF RotateToken, TypeOK, Tokens
  <2>2. QED
    BY <1>7, <2>1 DEF RotateToken, TypeOK, Listed
<1>8. CASE Resync
  BY <1>8 DEF Resync, TypeOK, Listed
<1>9. CASE Restart
  <2>1. crashes' \in Nat
    BY <1>9 DEF Restart, TypeOK
  <2>2. QED
    BY <1>9, <2>1, ConstantTypes DEF Restart, TypeOK, Modes, Backends
<1>10. QED
  BY <1>1, <1>2, <1>3, <1>4, <1>5, <1>6, <1>7, <1>8, <1>9 DEF User, Collector

LEMMA DetectedType == TypeOK => Detected \in Modes
BY DEF TypeOK, Detected, Modes

LEMMA AfterBackendType ==
  ASSUME NEW b \in BOOLEAN
  PROVE  AfterBackend(backend, b) \in {"bind", "register", "stamp"}
BY DEF AfterBackend

LEMMA RegisteredType ==
  ASSUME TypeOK, key \in Proms
  PROVE  /\ Registered \in [Backends -> [Contexts -> Registration]]
         /\ [hub EXCEPT ![backend][ContextOf(key)] = NoRegistration]
               \in [Backends -> [Contexts -> Registration]]
<1>1. Chosen \in Registration
  BY DEF TypeOK, Registration, Chosen
<1>2. ASSUME NEW r \in Registration
      PROVE  [hub EXCEPT ![backend][ContextOf(key)] = r] \in [Backends -> [Contexts -> Registration]]
  <2>1. [hub[backend] EXCEPT ![ContextOf(key)] = r] \in [Contexts -> Registration]
    BY DEF TypeOK
  <2>2. QED
    BY <2>1 DEF TypeOK
<1>3. QED
  BY <1>1, <1>2, ConstantTypes DEF Registered

LEMMA StepType ==
  ASSUME TypeOK, Step \/ HubFault \/ ApiFault \/ (\E p \in Proms : Start(p))
  PROVE  TypeOK'
<1> USE DEF presetVars, bindVars, inputVars
<1>0. pc # "idle" => key \in Proms
  BY DEF TypeOK
<1>1. ASSUME NEW p \in Proms, Start(p) PROVE TypeOK'
  <2>1. mode' \in Modes
    BY <1>1, DetectedType DEF Start, TypeOK
  <2>2. FirstStep(cached[p]) \in Activating \cup Ending
    BY DEF FirstStep, Activating, Ending
  <2>3. QED
    BY <1>1, <2>1, <2>2 DEF Start, TypeOK, workerVars, bounds
<1>2. CASE EnsureLabels
  <2>1. [prom[key] EXCEPT !.labelled = TRUE] \in Object
    BY <1>0, <1>2 DEF EnsureLabels, TypeOK, Object
  <2>2. CASE prom[key].exists
    <3>1. prom' \in [Proms -> Object] /\ local' \in Object
      BY <1>0, <1>2, <2>1, <2>2 DEF EnsureLabels, TypeOK
    <3>2. QED
      BY <1>0, <1>2, <2>2, <3>1 DEF EnsureLabels, TypeOK, Activating, bounds
  <2>3. CASE ~prom[key].exists
    BY <1>0, <1>2, <2>3, ReturnType DEF EnsureLabels, TypeOK, bounds
  <2>4. QED
    BY <2>2, <2>3
<1>3. CASE AddFinalizer
  <2>0. cached[key].exists \in BOOLEAN /\ prom[key].exists \in BOOLEAN
    BY <1>0, <1>3 DEF AddFinalizer, TypeOK, Object
  <2>1. CASE cached[key].exists /\ prom[key].exists
    <3>1. (prom[key].finalizer \/ ~cached[key].finalizer) \in BOOLEAN
      BY Zenon
    <3>2. [prom[key] EXCEPT !.finalizer = @ \/ ~cached[key].finalizer] \in Object
      BY <1>0, <1>3, <3>1 DEF AddFinalizer, TypeOK, Object
    <3>3. prom' \in [Proms -> Object] /\ local' \in Object
      BY <1>0, <1>3, <2>0, <2>1, <3>2 DEF AddFinalizer, TypeOK
    <3>4. QED
      BY <1>0, <1>3, <2>0, <2>1, <3>3 DEF AddFinalizer, TypeOK, Activating, bounds
  <2>2. CASE ~cached[key].exists /\ ~prom[key].exists
    <3>1. uids' \in Nat
      <4>1. uids' = uids + 1 \/ uids' = uids
        BY <1>3, <2>0, <2>2 DEF AddFinalizer
      <4>2. QED
        BY <4>1 DEF TypeOK
    <3>2. [New(uids') EXCEPT !.finalizer = TRUE, !.labelled = local.labelled] \in Object
      BY <3>1, NewType DEF TypeOK, Object
    <3>3. prom' \in [Proms -> Object] /\ local' \in Object
      BY <1>0, <1>3, <2>0, <2>2, <3>2 DEF AddFinalizer, TypeOK
    <3>4. QED
      BY <1>0, <1>3, <2>0, <2>2, <3>1, <3>3 DEF AddFinalizer, TypeOK, Activating, bounds
  <2>3. CASE cached[key].exists # prom[key].exists
    BY <1>0, <1>3, <2>0, <2>3, ReturnType DEF AddFinalizer, TypeOK, bounds
  <2>4. QED
    BY <2>0, <2>1, <2>2, <2>3
<1>4. CASE EnsureAccess
  <2>1. roleBinding[Ns[key]] \in Markers
    BY <1>0, <1>4 DEF EnsureAccess, TypeOK, Namespaces
  <2>2. chosen' \in [state : States, token : Tokens]
    BY <1>4 DEF EnsureAccess, TypeOK
  <2>3. QED
    BY <1>0, <1>4, <2>1, <2>2 DEF EnsureAccess, TypeOK, Activating, bounds
<1>5. CASE CreatePreset
  <2>1. ProjectScoped(key) /\ ProjectKnown(key) => Project[key] \in Projects
    BY <1>0, <1>5 DEF CreatePreset, WritePreset, ProjectScoped, ProjectKnown, Projects
  <2>2. clusterPreset' \in BOOLEAN /\ projectPresets' \subseteq Projects
    BY <1>5, <2>1 DEF CreatePreset, WritePreset, TypeOK
  <2>3. \/ Return(TRUE) \/ Return(FALSE) \/ Goto("restamp") \/ Goto("register")
    BY <1>5 DEF CreatePreset, WritePreset
  <2>4. QED
    BY <1>0, <1>5, <2>2, <2>3, ReturnType DEF CreatePreset, WritePreset, TypeOK, Goto, Activating, bounds
<1>6. CASE Register
  <2>1. pc' \in {"bind", "register", "stamp"} /\ backend' \in Backends
    BY <1>6, AfterBackendType DEF Register, Advance, TypeOK, Backends
  <2>2. QED
    BY <1>0, <1>6, <2>1, RegisteredType DEF Register, Advance, TypeOK, Activating, bounds
<1>7. CASE Bind
  <2>1. Ns[key] \in Namespaces /\ local.uid \in Nat /\ backend \in Kinds /\ "prometheus" \in Kinds
    BY <1>0, <1>7 DEF Bind, Namespaces, TypeOK, Object, Kinds
  <2>2. appBinding' \in [Namespaces -> [Kinds -> Nat]]
    BY <1>7, <2>1 DEF Bind, TypeOK
  <2>3. QED
    BY <1>0, <1>7, <2>2 DEF Bind, Goto, TypeOK, Activating, bounds
<1>8. CASE Authorize
  <2>1. auth' \in [Namespaces -> SUBSET Backends]
    BY <1>0, <1>8 DEF Authorize, TypeOK, Namespaces
  <2>2. pc' \in {"bind", "register", "stamp"} /\ backend' \in Backends
    BY <1>8, AfterBackendType DEF Authorize, Advance, TypeOK, Backends
  <2>3. QED
    BY <1>0, <1>8, <2>1, <2>2 DEF Authorize, Advance, TypeOK, Activating, bounds
<1>9. CASE Stamp
  <2>1. Mark \in Markers
    BY DEF Mark, TypeOK, Markers
  <2>2. roleBinding' \in [Namespaces -> Markers]
    BY <1>9, <2>1 DEF Stamp, TypeOK
  <2>3. QED
    BY <1>0, <1>9, <2>2, ReturnType DEF Stamp, TypeOK, bounds
<1>10. CASE CleanupPreset
  <2>1. clusterPreset' \in BOOLEAN /\ projectPresets' \subseteq Projects
    BY <1>10 DEF CleanupPreset, TypeOK
  <2>2. Goto("unregister") \/ Return(TRUE)
    BY <1>10 DEF CleanupPreset
  <2>3. QED
    BY <1>0, <1>10, <2>1, <2>2, ReturnType DEF CleanupPreset, TypeOK, Goto, Ending, bounds
<1>11. CASE Unregister
  BY <1>0, <1>11, RegisteredType DEF Unregister, AfterUnregister, TypeOK, Ending, Backends, bounds
<1>12. CASE RemoveFinalizer
  <2>1. prom' \in [Proms -> Object] /\ uids' \in Nat
    <3>1. [prom[key] EXCEPT !.finalizer = FALSE] \in Object
      BY <1>0, <1>12 DEF RemoveFinalizer, TypeOK, Object
    <3>2. WithoutFinalizer(prom[key], cached[key]) \in Object
      BY <1>0, <1>12, <3>1, ConstantTypes DEF RemoveFinalizer, WithoutFinalizer, TypeOK
    <3>3. [New(uids + 1) EXCEPT !.labelled = local.labelled] \in Object
      <4>1. uids + 1 \in Nat
        BY DEF TypeOK
      <4>2. QED
        BY <4>1, NewType DEF TypeOK, Object
    <3>4. uids' \in Nat
      <4>1. uids' = uids + 1 \/ uids' = uids
        BY <1>12 DEF RemoveFinalizer
      <4>2. QED
        BY <4>1 DEF TypeOK
    <3>5. prom' \in [Proms -> Object]
      BY <1>12, <3>2, <3>3 DEF RemoveFinalizer, TypeOK
    <3>6. QED
      BY <3>4, <3>5
  <2>2. Return(TRUE) \/ Return(FALSE)
    BY <1>12 DEF RemoveFinalizer
  <2>3. QED
    BY <1>0, <1>12, <2>1, <2>2, ReturnType DEF RemoveFinalizer, TypeOK, bounds
<1>13. CASE HubFault
  <2>1. hub' \in [Backends -> [Contexts -> Registration]] /\ hubFaults' \in Nat
    <3>1. hubFaults' \in Nat
      BY <1>13 DEF HubFault, TypeOK
    <3>2. key \in Proms
      BY <1>0, <1>13 DEF HubFault
    <3>3. hub' \in {hub, Registered, [hub EXCEPT ![backend][ContextOf(key)] = NoRegistration]}
      BY <1>13 DEF HubFault
    <3>4. hub \in [Backends -> [Contexts -> Registration]]
      BY DEF TypeOK
    <3>5. QED
      BY <3>1, <3>2, <3>3, <3>4, RegisteredType
  <2>2. key \in Proms /\ Return(TRUE)
    BY <1>0, <1>13 DEF HubFault
  <2>3. QED
    BY <1>13, <2>1, <2>2, ReturnType DEF HubFault, TypeOK
<1>14. CASE ApiFault
  <2>1. apiFaults' \in Nat
    BY <1>14 DEF ApiFault, TypeOK
  <2>2. CASE Advance(TRUE)
    <3>1. pc' \in {"bind", "register", "stamp"} /\ backend' \in Backends
      BY <2>2, AfterBackendType DEF Advance, TypeOK, Backends
    <3>2. key \in Proms
      BY <1>0, <1>14 DEF ApiFault
    <3>3. QED
      BY <1>14, <2>1, <2>2, <3>1, <3>2 DEF ApiFault, Advance, TypeOK, Activating
  <2>3. CASE Return(TRUE)
    BY <1>0, <1>14, <2>1, <2>3, ReturnType DEF ApiFault, TypeOK
  <2>4. CASE pc = "label" /\ Goto("finalize")
    BY <1>14, <2>1, <2>4 DEF ApiFault, Goto, TypeOK, Activating
  <2>5. QED
    BY <1>14, <2>2, <2>3, <2>4 DEF ApiFault
<1>15. QED
  BY <1>1, <1>2, <1>3, <1>4, <1>5, <1>6, <1>7, <1>8, <1>9, <1>10, <1>11, <1>12, <1>13, <1>14
     DEF Step

LEMMA NextType == TypeOK /\ [Next]_vars => TypeOK'
<1>1. ASSUME TypeOK, UNCHANGED vars PROVE TypeOK'
  BY <1>1 DEF TypeOK, vars
<1>2. ASSUME TypeOK, Detect PROVE TypeOK'
  <2>1. mode' \in Modes
    BY <1>2, DetectedType DEF Detect
  <2>2. QED
    BY <1>2, <2>1 DEF Detect, TypeOK, presetVars, bindVars, inputVars, workerVars, bounds
<1>3. QED
  BY <1>1, <1>2, StepType, EnvironmentType DEF Next

\* Every variable keeps its type; what the hub and the rolebindings hold is
\* always a registration and a marker the code can write.
THEOREM PrometheusTypeCorrect == Spec => []TypeOK
<1>1. QED
  BY InitType, NextType, PTL DEF Spec

-----------------------------------------------------------------------------

\* The part of the invariant that speaks of one object and its cached copy.
ObjectInv(o, c) ==
    /\ o.deleting \/ o.finalizer => o.exists
    /\ o.deleting => o.finalizer
    /\ c.deleting => Held(c)
    /\ Held(c) /\ ~c.deleting => Held(o)
    /\ c.deleting /\ Held(o) => o.deleting

\* The part that speaks of the worker at step s with the object o.
WorkerInv(s, o, c) ==
    /\ s \in {"label", "finalize"} /\ Held(c) => Held(o)
    /\ s \in Guarded => Held(o)
    /\ s \in Ending => (Held(o) => o.deleting) /\ (Held(c) => c.deleting)

LEMMA InvParts ==
  FinalizerInv <=> /\ \A p \in Proms : ObjectInv(prom[p], cached[p])
                   /\ WorkerInv(pc, prom[key], cached[key])
BY DEF FinalizerInv, ObjectInv, WorkerInv

LEMMA InitFinalizer == Init => FinalizerInv
<1> SUFFICES ASSUME Init PROVE FinalizerInv
  OBVIOUS
<1>1. ASSUME NEW p \in Proms PROVE ObjectInv(prom[p], cached[p])
  BY DEF Init, ObjectInv, Held, New, Absent
<1>2. pc \notin {"label", "finalize"} \cup Guarded \cup Ending
  BY DEF Init, Guarded, Ending
<1>3. QED
  BY <1>1, <1>2, InvParts DEF WorkerInv

\* An idle worker owes nothing.
LEMMA IdleWorker ==
  ASSUME NEW o, NEW c PROVE WorkerInv("idle", o, c)
BY DEF WorkerInv, Guarded, Ending

\* What happens to objects and cache without the worker: a created object has
\* no finalizer, a deleted one keeps it, the cache takes over the truth.
LEMMA EnvironmentFinalizer ==
  ASSUME TypeOK, FinalizerInv,
         \/ User \/ Collector \/ ChangeState \/ RotateToken \/ Resync
         \/ \E p \in Proms : Deliver(p)
  PROVE  FinalizerInv'
<1> DEFINE Same == UNCHANGED <<pc, key>>
<1>0. Same
  BY DEF User, CreateProm, DeleteProm, DropBinding, CollectGarbage, Removed, DropService,
         Collector, ChangeState, RotateToken, Resync, Deliver, workerVars
<1>1. ASSUME NEW p \in Proms, CreateProm(p) PROVE FinalizerInv'
  <2>1. cached' = cached /\ prom' = [prom EXCEPT ![p] = New(uids')]
    BY <1>1 DEF CreateProm
  <2>2. ~Held(New(uids')) /\ ~New(uids').deleting /\ New(uids').exists /\ ~New(uids').finalizer
    BY DEF New, Absent, Held
  <2>3. ~Held(prom[p])
    BY <1>1 DEF CreateProm, Held
  <2>4. ASSUME NEW q \in Proms PROVE ObjectInv(prom'[q], cached'[q])
    BY <2>1, <2>2, <2>3, InvParts DEF ObjectInv, TypeOK
  <2>5. WorkerInv(pc', prom'[key'], cached'[key'])
    BY <1>0, <2>1, <2>2, <2>3, InvParts DEF WorkerInv, TypeOK
  <2>6. QED
    BY <2>4, <2>5, InvParts DEF FinalizerInv, ObjectInv, WorkerInv
<1>2. ASSUME NEW p \in Proms, DeleteProm(p) PROVE FinalizerInv'
  <2>1. /\ cached' = cached
        /\ prom' = [prom EXCEPT ![p] = IF @.finalizer THEN [@ EXCEPT !.deleting = TRUE] ELSE Absent]
        /\ prom[p].exists
    BY <1>2 DEF DeleteProm
  <2>2. CASE prom[p].finalizer
    <3>1. Held(prom[p]) /\ Held(prom'[p]) /\ prom'[p].deleting /\ prom'[p].exists /\ prom'[p].finalizer
      BY <2>1, <2>2 DEF Held, TypeOK, Object
    <3>2. \A q \in Proms : q # p => prom'[q] = prom[q]
      BY <2>1 DEF TypeOK
    <3>3. ASSUME NEW q \in Proms PROVE ObjectInv(prom'[q], cached'[q])
      BY <2>1, <3>1, <3>2, InvParts DEF ObjectInv
    <3>4. WorkerInv(pc', prom'[key'], cached'[key'])
      BY <1>0, <2>1, <3>1, <3>2, InvParts DEF WorkerInv, TypeOK, Guarded, Ending
    <3>5. QED
      BY <3>3, <3>4 DEF FinalizerInv, ObjectInv, WorkerInv
  <2>3. CASE ~prom[p].finalizer
    <3>1. ~Held(prom[p]) /\ prom'[p] = Absent
      BY <2>1, <2>3 DEF Held, TypeOK
    <3>2. \A q \in Proms : q # p => prom'[q] = prom[q]
      BY <2>1 DEF TypeOK
    <3>3. ASSUME NEW q \in Proms PROVE ObjectInv(prom'[q], cached'[q])
      BY <2>1, <3>1, <3>2, InvParts DEF ObjectInv, Absent, Held
    <3>4. WorkerInv(pc', prom'[key'], cached'[key'])
      BY <1>0, <2>1, <3>1, <3>2, InvParts DEF WorkerInv, TypeOK, Absent, Held, Guarded, Ending
    <3>5. QED
      BY <3>3, <3>4 DEF FinalizerInv, ObjectInv, WorkerInv
  <2>4. QED
    BY <2>2, <2>3
<1>3. ASSUME NEW p \in Proms, Deliver(p) PROVE FinalizerInv'
  <2>1. prom' = prom /\ cached' = [cached EXCEPT ![p] = prom[p]]
    BY <1>3 DEF Deliver
  <2>2. cached'[p] = prom[p] /\ \A q \in Proms : q # p => cached'[q] = cached[q]
    BY <2>1 DEF TypeOK
  <2>3. ASSUME NEW q \in Proms PROVE ObjectInv(prom'[q], cached'[q])
    BY <2>1, <2>2, InvParts DEF ObjectInv, Held
  <2>4. WorkerInv(pc', prom'[key'], cached'[key'])
    BY <1>0, <2>1, <2>2, InvParts DEF WorkerInv, TypeOK, Guarded, Ending
  <2>5. QED
    BY <2>3, <2>4 DEF FinalizerInv, ObjectInv, WorkerInv
<1>4. CASE UNCHANGED <<prom, cached>>
  BY <1>0, <1>4 DEF FinalizerInv
<1>5. QED
  BY <1>1, <1>2, <1>3, <1>4
     DEF User, Collector, DropBinding, CollectGarbage, Removed, DropService, ChangeState,
         RotateToken, Resync

\* A step of the worker that leaves objects and cache alone.
LEMMA QuietStep ==
  ASSUME FinalizerInv, UNCHANGED <<prom, cached>>,
         \/ pc' = "idle"
         \/ key' = key /\ pc \in Guarded /\ pc' \in Guarded
         \/ key' = key /\ pc \in Ending /\ pc' \in Ending
  PROVE  FinalizerInv'
BY InvParts, IdleWorker DEF FinalizerInv, Guarded, Ending

LEMMA ReturnStep ==
  ASSUME FinalizerInv, UNCHANGED <<prom, cached>>, NEW r, Return(r)
  PROVE  FinalizerInv'
BY QuietStep DEF Return

LEMMA StepFinalizer ==
  ASSUME TypeOK, FinalizerInv, Step \/ HubFault \/ ApiFault \/ (\E p \in Proms : Start(p))
  PROVE  FinalizerInv'
<1>0. pc # "idle" => key \in Proms
  BY DEF TypeOK
<1>1. ASSUME NEW p \in Proms, Start(p) PROVE FinalizerInv'
  <2>1. UNCHANGED <<prom, cached>>
    BY <1>1 DEF Start
  <2>2. CASE ~Handles(p)
    BY <1>1, <2>1, <2>2, QuietStep DEF Start, workerVars
  <2>3. CASE Handles(p)
    <3>1. key' = p /\ pc' = FirstStep(cached[p])
      BY <1>1, <2>3 DEF Start
    <3>2. ObjectInv(prom[p], cached[p])
      BY InvParts
    <3>3. WorkerInv(FirstStep(cached[p]), prom[p], cached[p])
      BY <3>2 DEF WorkerInv, ObjectInv, FirstStep, Guarded, Ending
    <3>4. QED
      BY <2>1, <3>1, <3>3, InvParts DEF FinalizerInv, WorkerInv
  <2>4. QED
    BY <2>2, <2>3
<1>2. CASE EnsureLabels
  <2>1. CASE ~prom[key].exists
    BY <1>2, <2>1, ReturnStep DEF EnsureLabels
  <2>2. CASE prom[key].exists
    <3>1. /\ cached' = cached /\ key' = key /\ pc' = "finalize" /\ pc = "label"
          /\ prom' = [prom EXCEPT ![key].labelled = TRUE]
      BY <1>2, <2>2 DEF EnsureLabels
    <3>2. ASSUME NEW q \in Proms
          PROVE  /\ prom'[q].exists = prom[q].exists /\ prom'[q].deleting = prom[q].deleting
                 /\ prom'[q].finalizer = prom[q].finalizer
      BY <3>1 DEF TypeOK, Object
    <3>3. ASSUME NEW q \in Proms PROVE ObjectInv(prom'[q], cached'[q])
      BY <3>1, <3>2, InvParts DEF ObjectInv, Held
    <3>4. WorkerInv(pc', prom'[key'], cached'[key'])
      BY <1>0, <3>1, <3>2, InvParts DEF WorkerInv, Held, Guarded, Ending
    <3>5. QED
      BY <3>3, <3>4 DEF FinalizerInv, ObjectInv, WorkerInv
  <2>3. QED
    BY <2>1, <2>2
<1>3. CASE AddFinalizer
  <2>0. /\ cached[key].exists \in BOOLEAN /\ prom[key].exists \in BOOLEAN
        /\ key \in Proms /\ pc = "finalize" /\ cached' = cached
        /\ ObjectInv(prom[key], cached[key])
    BY <1>0, <1>3, InvParts DEF AddFinalizer, TypeOK, Object
  <2>1. CASE cached[key].exists # prom[key].exists
    BY <1>3, <2>0, <2>1, ReturnStep DEF AddFinalizer
  <2>2. CASE cached[key].exists = prom[key].exists
    <3>1. /\ key' = key /\ pc' = "access"
          /\ \A q \in Proms : q # key => prom'[q] = prom[q]
      BY <1>3, <2>0, <2>2 DEF AddFinalizer, TypeOK
    <3>2. Held(prom'[key]) /\ prom'[key].deleting = prom[key].deleting
      <4>1. CASE cached[key].exists /\ prom[key].exists
        <5>1. prom'[key] = [prom[key] EXCEPT !.finalizer = @ \/ ~cached[key].finalizer]
          BY <1>3, <2>0, <4>1 DEF AddFinalizer, TypeOK
        <5>2. prom'[key].exists = prom[key].exists /\ prom'[key].deleting = prom[key].deleting
              /\ (prom'[key].finalizer <=> prom[key].finalizer \/ ~cached[key].finalizer)
          BY <2>0, <5>1 DEF TypeOK, Object
        <5>3. Held(cached[key]) => Held(prom[key])
          BY <2>0 DEF FinalizerInv
        <5>4. QED
          BY <4>1, <5>2, <5>3 DEF Held
      <4>2. CASE ~cached[key].exists /\ ~prom[key].exists
        <5>1. prom'[key] = [New(uids') EXCEPT !.finalizer = TRUE, !.labelled = local.labelled]
          BY <1>3, <2>0, <4>2 DEF AddFinalizer, TypeOK
        <5>2. ~prom[key].deleting
          BY <2>0, <4>2 DEF ObjectInv
        <5>3. prom[key].deleting \in BOOLEAN
          BY <2>0 DEF TypeOK, Object
        <5>4. QED
          BY <5>1, <5>2, <5>3 DEF New, Absent, Held
      <4>3. QED
        BY <2>0, <2>2, <4>1, <4>2
    <3>3. ObjectInv(prom'[key], cached'[key])
      <4>1. cached[key].deleting => prom[key].deleting
        BY <2>0 DEF FinalizerInv, ObjectInv
      <4>2. QED
        BY <2>0, <3>2, <4>1 DEF ObjectInv, Held
    <3>4. ASSUME NEW q \in Proms PROVE ObjectInv(prom'[q], cached'[q])
      BY <2>0, <3>1, <3>3, InvParts
    <3>5. WorkerInv(pc', prom'[key'], cached'[key'])
      BY <3>1, <3>2 DEF WorkerInv, Ending
    <3>6. QED
      BY <3>4, <3>5 DEF FinalizerInv, ObjectInv, WorkerInv
  <2>3. QED
    BY <2>1, <2>2
<1>4. CASE EnsureAccess
  BY <1>4, QuietStep DEF EnsureAccess, Guarded
<1>5. CASE CreatePreset
  <2>1. Return(TRUE) \/ Return(FALSE) \/ Goto("restamp") \/ Goto("register")
    BY <1>5 DEF CreatePreset, WritePreset
  <2>2. QED
    BY <1>5, <2>1, ReturnStep, QuietStep DEF CreatePreset, WritePreset, Goto, Guarded
<1>6. CASE Register \/ Authorize
  BY <1>6, QuietStep, AfterBackendType DEF Register, Authorize, Advance, Guarded
<1>7. CASE Bind
  BY <1>7, QuietStep DEF Bind, Goto, Guarded
<1>8. CASE Stamp
  BY <1>8, ReturnStep DEF Stamp
<1>9. CASE CleanupPreset
  <2>1. Goto("unregister") \/ Return(TRUE)
    BY <1>9 DEF CleanupPreset
  <2>2. QED
    BY <1>9, <2>1, ReturnStep, QuietStep DEF CleanupPreset, Goto, Ending
<1>10. CASE Unregister
  BY <1>10, QuietStep DEF Unregister, AfterUnregister, Ending
<1>11. CASE RemoveFinalizer
  <2>0. /\ cached[key].exists \in BOOLEAN /\ prom[key].exists \in BOOLEAN
        /\ key \in Proms /\ pc = "release" /\ cached' = cached /\ pc' = "idle"
        /\ ObjectInv(prom[key], cached[key])
        /\ Held(prom[key]) => prom[key].deleting
        /\ Held(cached[key]) => cached[key].deleting
    BY <1>0, <1>11, InvParts DEF RemoveFinalizer, Return, TypeOK, Object, WorkerInv, Ending
  <2>1. CASE cached[key].exists # prom[key].exists
    BY <1>11, <2>0, <2>1, ReturnStep DEF RemoveFinalizer
  <2>2. CASE cached[key].exists = prom[key].exists
    <3>1. \A q \in Proms : q # key => prom'[q] = prom[q]
      BY <1>11, <2>0, <2>2 DEF RemoveFinalizer, TypeOK
    <3>2. ObjectInv(prom'[key], cached'[key])
      <4>1. CASE cached[key].exists /\ prom[key].exists
        <5>1. prom'[key] = WithoutFinalizer(prom[key], cached[key])
          BY <1>11, <2>0, <4>1 DEF RemoveFinalizer, TypeOK
        <5>2. CASE ~cached[key].finalizer
          BY <2>0, <5>1, <5>2 DEF WithoutFinalizer
        <5>3. CASE cached[key].finalizer /\ prom[key].deleting
          BY <2>0, <5>1, <5>3 DEF WithoutFinalizer, ObjectInv, Absent, Held
        <5>4. CASE cached[key].finalizer /\ ~prom[key].deleting
          <6>1. prom'[key] = [prom[key] EXCEPT !.finalizer = FALSE]
            BY <5>1, <5>4 DEF WithoutFinalizer
          <6>2. prom'[key].exists /\ ~prom'[key].deleting /\ ~prom'[key].finalizer
            BY <2>0, <4>1, <5>4, <6>1 DEF TypeOK, Object
          <6>3. QED
            BY <2>0, <4>1, <5>4, <6>2 DEF ObjectInv, Held
        <5>5. QED
          BY <5>2, <5>3, <5>4
      <4>2. CASE ~cached[key].exists /\ ~prom[key].exists
        <5>1. prom'[key] = [New(uids') EXCEPT !.labelled = local.labelled]
          BY <1>11, <2>0, <4>2 DEF RemoveFinalizer, TypeOK
        <5>2. prom'[key].exists /\ ~prom'[key].deleting /\ ~prom'[key].finalizer
          BY <5>1 DEF New, Absent
        <5>3. QED
          BY <2>0, <4>2, <5>2 DEF ObjectInv, Held
      <4>3. QED
        BY <2>0, <2>2, <4>1, <4>2
    <3>3. ASSUME NEW q \in Proms PROVE ObjectInv(prom'[q], cached'[q])
      BY <2>0, <3>1, <3>2, InvParts
    <3>4. WorkerInv(pc', prom'[key'], cached'[key'])
      BY <2>0, IdleWorker
    <3>5. QED
      BY <3>3, <3>4 DEF FinalizerInv, ObjectInv, WorkerInv
  <2>3. QED
    BY <2>1, <2>2
<1>12. CASE HubFault
  BY <1>12, ReturnStep DEF HubFault
<1>13. CASE ApiFault
  <2>1. CASE pc = "auth" /\ Advance(TRUE)
    BY <1>13, <2>1, QuietStep, AfterBackendType DEF ApiFault, Advance, Guarded
  <2>2. CASE Return(TRUE)
    BY <1>13, <2>2, ReturnStep DEF ApiFault
  <2>3. CASE pc = "label" /\ Goto("finalize")
    BY <1>13, <2>3 DEF ApiFault, Goto, FinalizerInv, Guarded, Ending
  <2>4. QED
    BY <1>13, <2>1, <2>2, <2>3 DEF ApiFault
<1>14. QED
  BY <1>1, <1>2, <1>3, <1>4, <1>5, <1>6, <1>7, <1>8, <1>9, <1>10, <1>11, <1>12, <1>13 DEF Step

LEMMA NextFinalizer == TypeOK /\ FinalizerInv /\ [Next]_vars => FinalizerInv'
<1> SUFFICES ASSUME TypeOK, FinalizerInv, [Next]_vars PROVE FinalizerInv'
  OBVIOUS
<1>1. CASE Restart
  <2>1. prom' = prom /\ cached' = prom /\ pc' = "idle"
    BY <1>1 DEF Restart
  <2>2. ASSUME NEW q \in Proms PROVE ObjectInv(prom'[q], cached'[q])
    BY <2>1, InvParts DEF ObjectInv, Held
  <2>3. WorkerInv(pc', prom'[key'], cached'[key'])
    BY <2>1, IdleWorker
  <2>4. QED
    BY <2>2, <2>3 DEF FinalizerInv, ObjectInv, WorkerInv
<1>2. CASE UNCHANGED vars \/ Detect
  BY <1>2 DEF FinalizerInv, Detect, workerVars, vars
<1>3. QED
  BY <1>1, <1>2, StepFinalizer, EnvironmentFinalizer DEF Next

\* The object a worker registers keeps its finalizer until the same worker
\* takes it back, although finalizers are patched by a stale copy.
THEOREM PrometheusFinalizerInvariant == Spec => []FinalizerInv
<1>1. QED
  BY InitType, NextType, InitFinalizer, NextFinalizer, PTL DEF Spec

\* The hub is told of a Prometheus only while it exists and carries the
\* finalizer, so that no registration is without an owner who must take it
\* back, whatever the cache shows and wherever the operator stops.
THEOREM RegistrationIsGuarded == Spec => RegistrationNeedsFinalizer
<1>1. TypeOK /\ FinalizerInv /\ [Next]_vars
        => [\A b \in Backends, c \in Contexts :
              hub'[b][c] # hub[b][c] /\ hub'[b][c].by # None
                 => prom[hub'[b][c].by].exists /\ prom[hub'[b][c].by].finalizer]_vars
  <2> SUFFICES ASSUME TypeOK, FinalizerInv, [Next]_vars, NEW b \in Backends, NEW c \in Contexts,
                      hub'[b][c] # hub[b][c], hub'[b][c].by # None
               PROVE  prom[hub'[b][c].by].exists /\ prom[hub'[b][c].by].finalizer
    OBVIOUS
  <2>1. /\ pc \in {"register", "unregister"} /\ key \in Proms
        /\ pc = "register" => hub' = Registered
        /\ pc = "unregister" => hub' = [hub EXCEPT ![backend][ContextOf(key)] = NoRegistration]
    <3>1. hub' # hub
      OBVIOUS
    <3>2. Register \/ Unregister \/ HubFault
      BY <3>1
         DEF Next, User, Collector, Step, CreateProm, DeleteProm, DropBinding, CollectGarbage,
             Removed, DropService, Deliver, ChangeState, RotateToken, Resync, Restart, Detect, Start,
             EnsureLabels, AddFinalizer, EnsureAccess, CreatePreset, Bind, Authorize, Stamp,
             CleanupPreset, RemoveFinalizer, ApiFault, vars
    <3>3. QED
      BY <3>1, <3>2 DEF Register, Unregister, HubFault, TypeOK
  <2>2. CASE pc = "unregister"
    <3>1. hub'[b][c] \in {hub[b][c], NoRegistration}
      BY <2>1, <2>2 DEF TypeOK
    <3>2. QED
      BY <3>1 DEF NoRegistration
  <2>3. CASE pc = "register"
    <3>1. hub'[b][c] \in {hub[b][c], Chosen}
      BY <2>1, <2>3 DEF Registered, TypeOK
    <3>2. hub'[b][c].by = key
      BY <3>1 DEF Chosen
    <3>3. Held(prom[key])
      BY <2>3 DEF FinalizerInv, Guarded
    <3>4. QED
      BY <3>2, <3>3 DEF Held
  <2>4. QED
    BY <2>1, <2>2, <2>3
<1>2. QED
  BY <1>1, InitType, NextType, InitFinalizer, NextFinalizer, PTL DEF Spec, RegistrationNeedsFinalizer

-----------------------------------------------------------------------------

\* Where a Prometheus is registered is a context of the hub, and it does not
\* move while the detector's decision stays.
LEMMA ContextKnown ==
  ASSUME NEW p \in Proms, ProjectKnown(p)
  PROVE  ContextOf(p) \in Contexts
BY DEF ProjectKnown, ContextOf, Contexts, Projects

\* What the hub holds after a registration.
LEMMA RegisteredHolds ==
  ASSUME TypeOK, key \in Proms, ProjectKnown(key)
  PROVE  /\ Registered[backend][ContextOf(key)] = Chosen
         /\ \A b \in Backends, c \in Contexts : b # backend => Registered[b][c] = hub[b][c]
<1>1. backend \in Backends /\ hub \in [Backends -> [Contexts -> Registration]]
  BY DEF TypeOK
<1>2. ContextOf(key) \in Contexts
  BY ContextKnown
<1>3. QED
  BY <1>1, <1>2 DEF Registered

\* A step that leaves alone what the invariant of the registrations speaks of.
LEMMA AsideRegistering ==
  ASSUME RegisteringInv, UNCHANGED <<pc, key, backend, mode, hub, chosen>>
  PROVE  RegisteringInv'
BY DEF RegisteringInv, ProjectKnown, ContextOf, IsDefault, Chosen

\* A worker that has not come to the backends.
LEMMA BeforeRegistering ==
  ASSUME pc' \in BeforeBackends, backend' = "grafana"
  PROVE  RegisteringInv'
BY DEF RegisteringInv, BeforeBackends, Registering

LEMMA ReturnRegistering ==
  ASSUME NEW r, Return(r)
  PROVE  RegisteringInv'
BY BeforeRegistering DEF Return, BeforeBackends

\* The worker leaves a backend behind it.
LEMMA AdvanceRegistering ==
  ASSUME TypeOK, key \in Proms, ProjectKnown(key), mode' = mode, NEW b \in BOOLEAN, Advance(b),
         hub'[backend][ContextOf(key)] = Chosen,
         backend = "perses" => hub'["grafana"][ContextOf(key)] = Chosen
  PROVE  RegisteringInv'
<1>1. /\ ProjectKnown(key)' /\ ContextOf(key)' = ContextOf(key) /\ Chosen' = Chosen
      /\ key' = key
  BY DEF Advance, ProjectKnown, ContextOf, IsDefault, Chosen
<1>2. backend \in {"grafana", "perses"}
  BY DEF TypeOK, Backends
<1>3. \/ pc' = "bind" /\ backend' = backend
      \/ backend = "grafana" /\ pc' = "register" /\ backend' = "perses"
      \/ backend = "perses" /\ pc' = "stamp" /\ backend' = "perses"
  BY <1>2 DEF Advance, AfterBackend
<1>4. QED
  BY <1>1, <1>2, <1>3 DEF RegisteringInv, BeforeBackends, Registering

LEMMA StepRegistering ==
  ASSUME TypeOK, RegisteringInv, Step \/ HubFault \/ ApiFault \/ (\E p \in Proms : Start(p))
  PROVE  RegisteringInv'
<1>0. pc # "idle" => key \in Proms
  BY DEF TypeOK
<1>1. ASSUME NEW p \in Proms, Start(p) PROVE RegisteringInv'
  <2>1. pc = "idle" /\ backend' = backend /\ pc' \in {"idle", FirstStep(cached[p])}
    BY <1>1 DEF Start, workerVars
  <2>2. FirstStep(cached[p]) \in BeforeBackends /\ "idle" \in BeforeBackends
    BY DEF FirstStep, BeforeBackends
  <2>3. QED
    BY <2>1, <2>2, BeforeRegistering DEF RegisteringInv
<1>2. CASE EnsureLabels \/ AddFinalizer \/ EnsureAccess
  <2>1. Return(TRUE) \/ (backend' = backend /\ pc \in BeforeBackends /\ pc' \in BeforeBackends)
    BY <1>2 DEF EnsureLabels, AddFinalizer, EnsureAccess, BeforeBackends
  <2>2. QED
    BY <2>1, ReturnRegistering, BeforeRegistering DEF RegisteringInv
<1>3. CASE CreatePreset
  <2>1. backend = "grafana"
    BY <1>3 DEF CreatePreset, RegisteringInv, BeforeBackends
  <2>2. \/ Return(TRUE) \/ Return(FALSE) \/ Goto("restamp")
        \/ (Goto("register") /\ ProjectKnown(key) /\ mode' = mode)
    BY <1>3 DEF CreatePreset, WritePreset
  <2>3. CASE Goto("restamp")
    BY <2>1, <2>3, BeforeRegistering DEF Goto, BeforeBackends
  <2>4. CASE Goto("register") /\ ProjectKnown(key) /\ mode' = mode
    <3>1. ProjectKnown(key)' /\ pc' = "register" /\ backend' = "grafana"
      BY <2>1, <2>4 DEF Goto, ProjectKnown, IsDefault
    <3>2. QED
      BY <3>1 DEF RegisteringInv, BeforeBackends, Registering
  <2>5. QED
    BY <2>2, <2>3, <2>4, ReturnRegistering
<1>4. CASE Register
  <2>1. key \in Proms /\ ProjectKnown(key) /\ mode' = mode /\ hub' = Registered /\ Advance(FALSE)
    BY <1>0, <1>4 DEF Register, RegisteringInv, Registering
  <2>2. backend \in Backends /\ ContextOf(key) \in Contexts
    BY <2>1, ContextKnown DEF TypeOK
  <2>3. backend = "perses" => hub["grafana"][ContextOf(key)] = Chosen
    BY <1>4 DEF Register, RegisteringInv, Registering
  <2>4. backend = "perses" => hub'["grafana"][ContextOf(key)] = Chosen
    BY <2>1, <2>2, <2>3, RegisteredHolds DEF Backends
  <2>5. QED
    BY <2>1, <2>4, RegisteredHolds, AdvanceRegistering
<1>5. CASE Bind
  <2>1. /\ pc = "bind" /\ pc' = "auth" /\ UNCHANGED <<key, chosen, backend, mode, hub>>
    BY <1>5 DEF Bind, Goto
  <2>2. ProjectKnown(key)' /\ ContextOf(key)' = ContextOf(key) /\ Chosen' = Chosen
    BY <2>1, <1>5 DEF RegisteringInv, Registering, ProjectKnown, ContextOf, IsDefault, Chosen
  <2>3. QED
    BY <2>1, <2>2 DEF RegisteringInv, BeforeBackends, Registering
<1>6. CASE Authorize \/ (ApiFault /\ pc = "auth" /\ Advance(TRUE))
  <2>1. /\ key \in Proms /\ ProjectKnown(key) /\ mode' = mode /\ hub' = hub /\ Advance(TRUE)
        /\ hub[backend][ContextOf(key)] = Chosen
        /\ backend = "perses" => hub["grafana"][ContextOf(key)] = Chosen
    BY <1>0, <1>6 DEF Authorize, ApiFault, RegisteringInv, Registering
  <2>2. QED
    BY <2>1, AdvanceRegistering
<1>7. CASE Stamp
  BY <1>7, ReturnRegistering DEF Stamp
<1>8. CASE CleanupPreset
  <2>1. Return(TRUE) \/ Goto("unregister")
    BY <1>8 DEF CleanupPreset
  <2>2. QED
    BY <2>1, ReturnRegistering DEF Goto, RegisteringInv, BeforeBackends, Registering
<1>9. CASE Unregister
  <2>1. pc' \in {"unregister", "release"}
    BY <1>9 DEF Unregister, AfterUnregister
  <2>2. QED
    BY <2>1 DEF RegisteringInv, BeforeBackends, Registering
<1>10. CASE RemoveFinalizer
  <2>1. Return(TRUE) \/ Return(FALSE)
    BY <1>10 DEF RemoveFinalizer
  <2>2. QED
    BY <2>1, ReturnRegistering
<1>11. CASE HubFault
  BY <1>11, ReturnRegistering DEF HubFault
<1>12. CASE ApiFault
  <2>1. CASE pc = "label" /\ Goto("finalize")
    BY <2>1, BeforeRegistering DEF Goto, RegisteringInv, BeforeBackends
  <2>2. QED
    BY <1>6, <1>12, <2>1, ReturnRegistering DEF ApiFault
<1>13. QED
  BY <1>1, <1>2, <1>3, <1>4, <1>5, <1>6, <1>7, <1>8, <1>9, <1>10, <1>11, <1>12 DEF Step

LEMMA NextRegistering == TypeOK /\ RegisteringInv /\ [Next]_vars => RegisteringInv'
<1> SUFFICES ASSUME TypeOK, RegisteringInv, [Next]_vars PROVE RegisteringInv'
  OBVIOUS
<1>1. CASE User \/ Collector
  BY <1>1, AsideRegistering
     DEF User, Collector, CreateProm, DeleteProm, DropBinding, CollectGarbage, Removed,
         DropService, workerVars
<1>2. CASE ChangeState \/ RotateToken \/ Resync \/ \E p \in Proms : Deliver(p)
  BY <1>2, AsideRegistering DEF Deliver, ChangeState, RotateToken, Resync, workerVars
<1>3. CASE Restart
  BY <1>3, BeforeRegistering DEF Restart, BeforeBackends
<1>4. CASE UNCHANGED vars
  BY <1>4, AsideRegistering DEF vars
<1>5. CASE Detect
  BY <1>5, BeforeRegistering DEF Detect, workerVars, RegisteringInv, BeforeBackends
<1>6. QED
  BY <1>1, <1>2, <1>3, <1>4, <1>5, StepRegistering DEF Next

\* The marker of an old release is nowhere but where it was.
LEMMA NextLegacy == TypeOK /\ LegacyInv /\ [Next]_vars => LegacyInv'
<1> SUFFICES ASSUME TypeOK, LegacyInv, [Next]_vars, LegacyNs = {} PROVE LegacyInv'
  BY DEF LegacyInv
<1>0. /\ \A n \in Namespaces : roleBinding[n].state # Legacy
      /\ marker.state # Legacy /\ pc # "restamp"
  BY DEF LegacyInv
<1>1. chosen.state # Legacy /\ NoMarker.state # Legacy
  BY PrometheusAssumption DEF TypeOK, States, NoMarker
<1>2. pc # "idle" => key \in Proms
  BY DEF TypeOK
<1>3. \A n \in Namespaces : roleBinding'[n].state # Legacy
  <2>1. CASE UNCHANGED roleBinding
    BY <1>0, <2>1
  <2>2. ASSUME NEW m \in Namespaces, DropService(m)
        PROVE  \A n \in Namespaces : roleBinding'[n].state # Legacy
    <3>1. \A n \in Namespaces : roleBinding'[n] \in {roleBinding[n], NoMarker}
      BY <2>2 DEF DropService, TypeOK
    <3>2. QED
      BY <1>0, <1>1, <3>1
  <2>3. CASE Stamp
    BY <1>0, <1>1, <2>3 DEF Stamp, Mark, TypeOK
  <2>4. QED
    BY <2>1, <2>2, <2>3
       DEF Next, User, Collector, Step, CreateProm, DeleteProm, DropBinding, CollectGarbage,
           Removed, Deliver, ChangeState, RotateToken, Resync, Restart, Detect, Start, EnsureLabels,
           AddFinalizer, EnsureAccess, CreatePreset, Register, Bind, Authorize, CleanupPreset,
           Unregister, RemoveFinalizer, HubFault, ApiFault, vars
<1>4. marker'.state # Legacy
  <2>1. CASE marker' \in {marker, NoMarker}
    BY <1>0, <1>1, <2>1
  <2>2. CASE EnsureAccess
    BY <1>0, <1>2, <2>2 DEF EnsureAccess, Namespaces
  <2>3. QED
    BY <2>1, <2>2
       DEF Next, User, Collector, Step, CreateProm, DeleteProm, DropBinding, CollectGarbage,
           Removed, DropService, Deliver, ChangeState, RotateToken, Resync, Restart, Detect, Start,
           EnsureLabels, AddFinalizer, CreatePreset, Register, Bind, Authorize, Stamp,
           CleanupPreset, Unregister, RemoveFinalizer, HubFault, ApiFault, Return, Goto, Advance,
           workerVars, vars
<1>5. pc' # "restamp"
  <2>1. CASE pc' \in {pc, "idle"}
    BY <1>0, <2>1
  <2>2. CASE CreatePreset
    <3>1. ~(marker.state = Legacy)
      BY <1>0
    <3>2. Return(TRUE) \/ Return(FALSE) \/ Goto("register")
      BY <2>2, <3>1 DEF CreatePreset, WritePreset
    <3>3. QED
      BY <3>2 DEF Return, Goto
  <2>3. ASSUME NEW p \in Proms, Start(p) PROVE pc' # "restamp"
    BY <1>0, <2>3 DEF Start, FirstStep, workerVars
  <2>4. CASE Step /\ ~CreatePreset
    <3>1. Advance(TRUE) \/ Advance(FALSE) => pc' # "restamp"
      BY DEF Advance, AfterBackend
    <3>2. QED
      BY <2>4, <3>1
         DEF Step, EnsureLabels, AddFinalizer, EnsureAccess, Register, Bind, Authorize, Stamp,
             CleanupPreset, Unregister, RemoveFinalizer, Return, Goto, AfterUnregister
  <2>5. CASE HubFault \/ ApiFault
    BY <2>5 DEF HubFault, ApiFault, Return, Goto, Advance, AfterBackend
  <2>6. QED
    BY <2>1, <2>2, <2>3, <2>4, <2>5
       DEF Next, User, Collector, CreateProm, DeleteProm, DropBinding, CollectGarbage,
           Removed, DropService, Deliver, ChangeState, RotateToken, Resync, Restart, Detect, workerVars,
           vars
<1>6. QED
  BY <1>3, <1>4, <1>5 DEF LegacyInv

LEMMA InitMarker == Init => MarkerInv
<1> SUFFICES ASSUME Init PROVE MarkerInv
  OBVIOUS
<1>1. RegisteringInv
  BY DEF Init, RegisteringInv, BeforeBackends, Registering
<1>2. ASSUME LegacyNs = {} PROVE LegacyInv
  <2>1. \A n \in Namespaces : roleBinding[n] = NoMarker
    BY <1>2 DEF Init, Old
  <2>2. NoMarker.state # Legacy
    BY PrometheusAssumption DEF NoMarker
  <2>3. marker = NoMarker /\ pc = "idle"
    BY DEF Init
  <2>4. QED
    BY <2>1, <2>2, <2>3 DEF LegacyInv
<1>3. QED
  BY <1>1, <1>2 DEF MarkerInv, LegacyInv

\* The step that stamps a rolebinding has both backends behind it.
LEMMA StampRegistered ==
  ASSUME TypeOK, MarkerInv, LegacyNs = {}, [Next]_vars, NEW n \in Namespaces,
         roleBinding'[n] # roleBinding[n], roleBinding'[n] # NoMarker
  PROVE  \E c \in Contexts : \A b \in Backends :
            hub[b][c] = [by |-> key, state |-> roleBinding'[n].state,
                         token |-> roleBinding'[n].token]
<1>1. ASSUME NEW m \in Namespaces, DropService(m) PROVE FALSE
  BY <1>1 DEF DropService, TypeOK
<1>2. Stamp
  BY <1>1
     DEF Next, User, Collector, Step, CreateProm, DeleteProm, DropBinding, CollectGarbage,
         Removed, Deliver, ChangeState, RotateToken, Resync, Restart, Detect, Start, EnsureLabels,
         AddFinalizer, EnsureAccess, CreatePreset, Register, Bind, Authorize, CleanupPreset,
         Unregister, RemoveFinalizer, HubFault, ApiFault, vars
<1>3. pc = "stamp" /\ key \in Proms /\ roleBinding'[n] = chosen
  BY <1>2 DEF Stamp, Mark, MarkerInv, LegacyInv, TypeOK
<1>4. /\ ProjectKnown(key) /\ hub["grafana"][ContextOf(key)] = Chosen
      /\ hub["perses"][ContextOf(key)] = Chosen
  BY <1>3 DEF MarkerInv, RegisteringInv, Registering
<1>5. ContextOf(key) \in Contexts
  BY <1>3, <1>4, ContextKnown
<1>6. QED
  BY <1>3, <1>4, <1>5 DEF Chosen, Backends

\* Where no release has left the marker "true", which is replaced without
\* asking the hub, a rolebinding is stamped only when both backends hold, in
\* one and the same context, the state and the token the marker names: with
\* any number of Prometheus objects, of failed calls and of restarts.
THEOREM MarkerIsHonest == LegacyNs = {} => (Spec => StampedMeansRegistered)
<1> SUFFICES ASSUME LegacyNs = {} PROVE Spec => StampedMeansRegistered
  OBVIOUS
<1>1. TypeOK /\ MarkerInv /\ [Next]_vars
        => [\A p \in Proms :
              LET n == Ns[p] IN
              roleBinding'[n] # roleBinding[n] /\ roleBinding'[n] # NoMarker
                 => \E c \in Contexts : \A b \in Backends :
                       hub[b][c] = [by |-> key, state |-> roleBinding'[n].state,
                                    token |-> roleBinding'[n].token]]_vars
  BY StampRegistered DEF Namespaces
<1>2. TypeOK /\ MarkerInv /\ [Next]_vars => TypeOK' /\ MarkerInv'
  BY NextType, NextRegistering, NextLegacy DEF MarkerInv
<1>3. QED
  BY <1>1, <1>2, InitType, InitMarker, PTL DEF Spec, StampedMeansRegistered

-----------------------------------------------------------------------------

LEMMA InitOpenShift == Init => OpenShiftInv
<1> SUFFICES ASSUME Init, Platform = "openshift" PROVE OpenShiftInv
  BY DEF OpenShiftInv
<1>1. LegacyNs = {} => \A p \in Proms : ~prom[p].finalizer /\ ~prom[p].labelled
  BY DEF Init, Old, New, Absent
<1>2. mode = "unknown" /\ pc = "idle"
  BY DEF Init
<1>3. QED
  BY <1>1, <1>2 DEF OpenShiftInv

\* On OpenShift a Prometheus other than the user workload one changes only
\* when somebody creates or deletes it.
LEMMA OthersOnOpenShift ==
  ASSUME TypeOK, [Next]_vars, pc # "idle" => key = Primary, NEW p \in Proms \ {Primary},
         ~prom[p].finalizer, ~prom[p].labelled
  PROVE  ~prom'[p].finalizer /\ ~prom'[p].labelled
<1>1. ASSUME NEW q \in Proms, CreateProm(q) \/ DeleteProm(q)
      PROVE  ~prom'[p].finalizer /\ ~prom'[p].labelled
  <2>1. \/ prom' = [prom EXCEPT ![q] = New(uids')]
        \/ prom' = [prom EXCEPT ![q] = IF @.finalizer THEN [@ EXCEPT !.deleting = TRUE] ELSE Absent]
    BY <1>1 DEF CreateProm, DeleteProm
  <2>2. prom'[p] \in {prom[p], New(uids'), Absent}
    BY <2>1 DEF TypeOK
  <2>3. /\ ~New(uids').finalizer /\ ~New(uids').labelled
        /\ ~Absent.finalizer /\ ~Absent.labelled
    BY DEF New, Absent
  <2>4. QED
    BY <2>2, <2>3
<1>2. CASE EnsureLabels \/ AddFinalizer \/ RemoveFinalizer
  <2>1. prom'[p] = prom[p]
    BY <1>2 DEF EnsureLabels, AddFinalizer, RemoveFinalizer, TypeOK
  <2>2. QED
    BY <2>1
<1>3. CASE UNCHANGED prom
  BY <1>3
<1>4. QED
  BY <1>1, <1>2, <1>3
     DEF Next, User, Collector, Step, DropBinding, CollectGarbage, Removed, DropService, Deliver,
         ChangeState, RotateToken, Resync, Restart, Detect, Start, EnsureAccess, CreatePreset, Register,
         Bind, Authorize, Stamp, CleanupPreset, Unregister, HubFault, ApiFault, vars

LEMMA NextOpenShift == TypeOK /\ OpenShiftInv /\ [Next]_vars => OpenShiftInv'
<1> SUFFICES ASSUME TypeOK, OpenShiftInv, [Next]_vars, Platform = "openshift" PROVE OpenShiftInv'
  BY DEF OpenShiftInv
<1>1. mode \in {"unknown", "openshift"} /\ (pc # "idle" => key = Primary)
  BY DEF OpenShiftInv
<1>2. Detected \in {"unknown", "openshift"}
  BY <1>1 DEF Detected
<1>3. mode' \in {"unknown", "openshift"} /\ (pc' # "idle" => key' = Primary)
  <2>1. ASSUME NEW p \in Proms, Start(p)
        PROVE  mode' \in {"unknown", "openshift"} /\ (pc' # "idle" => key' = Primary)
    BY <1>1, <1>2, <2>1 DEF Start, Handles, workerVars
  <2>2. CASE UNCHANGED <<mode, pc, key>>
    BY <1>1, <2>2
  <2>3. CASE pc' = "idle" /\ mode' \in {"unknown", mode, Detected}
    BY <1>1, <1>2, <2>3
  <2>4. CASE Step
    <3>1. mode' = mode /\ (pc' = "idle" \/ (key' = key /\ pc # "idle"))
      BY <2>4 DEF Step, EnsureLabels, AddFinalizer, EnsureAccess, CreatePreset, Register, Bind,
              Authorize, Stamp, CleanupPreset, Unregister, RemoveFinalizer, Return, Goto, Advance
    <3>2. QED
      BY <1>1, <3>1
  <2>5. CASE HubFault \/ ApiFault
    <3>1. mode' = mode /\ (pc' = "idle" \/ (key' = key /\ pc # "idle"))
      BY <2>5 DEF HubFault, ApiFault, Return, Goto, Advance
    <3>2. QED
      BY <1>1, <3>1
  <2>6. QED
    BY <2>1, <2>2, <2>3, <2>4, <2>5
       DEF Next, User, Collector, CreateProm, DeleteProm, DropBinding, CollectGarbage, Removed,
           DropService, Deliver, ChangeState, RotateToken, Resync, Restart, Detect, workerVars, vars
<1>4. LegacyNs = {} => \A p \in Proms \ {Primary} : ~prom'[p].finalizer /\ ~prom'[p].labelled
  BY <1>1, OthersOnOpenShift DEF OpenShiftInv
<1>5. QED
  BY <1>3, <1>4 DEF OpenShiftInv

-----------------------------------------------------------------------------

\* What the detector can make of a lone Prometheus.
LEMMA LoneDetected ==
  ASSUME TypeOK, LoneInv, Alone, mode' = Detected
  PROVE  mode' = "unknown" \/ \A q \in Proms : IsDefault(q)'
<1>0. SUFFICES ASSUME mode' # "unknown" PROVE \A q \in Proms : IsDefault(q)'
  OBVIOUS
<1>1. mode = "unknown" => \E p \in Proms : Existing = {p}
  <2>1. mode = "unknown" => Existing # {}
    BY <1>0 DEF Detected
  <2>2. QED
    BY <2>1 DEF Existing, Alone
<1>2. CASE mode # "unknown"
  BY <1>2 DEF LoneInv, Detected, IsDefault
<1>3. CASE mode' \in {"federated", "openshift"} /\ mode = "unknown"
  <2>1. Primary \in Existing
    BY <1>3 DEF Detected
  <2>2. \A q \in Proms : q = Primary
    BY <1>1, <1>3, <2>1 DEF Alone
  <2>3. QED
    BY <1>3, <2>2 DEF IsDefault
<1>4. CASE mode' \notin {"federated", "openshift"} /\ mode = "unknown"
  <2>1. Cardinality(Existing) = 1
    BY <1>1, <1>4, FS_Singleton
  <2>2. mode' = "singleton"
    BY <1>0, <1>4, <2>1 DEF Detected
  <2>3. QED
    BY <2>2 DEF IsDefault
<1>5. QED
  BY <1>2, <1>3, <1>4

\* A finalizer goes only by RemoveFinalizer.
LEMMA HeldStays ==
  ASSUME TypeOK, [Next]_vars, NEW p \in Proms, Held(prom[p])
  PROVE  Held(prom'[p]) \/ (RemoveFinalizer /\ key = p)
<1>0. pc # "idle" => key \in Proms
  BY DEF TypeOK
<1>1. ASSUME NEW q \in Proms, CreateProm(q) PROVE prom'[p] = prom[p]
  BY <1>1 DEF CreateProm, TypeOK, Held
<1>2. ASSUME NEW q \in Proms, DeleteProm(q) PROVE Held(prom'[p])
  <2>1. prom'[p] \in {prom[p], [prom[p] EXCEPT !.deleting = TRUE]}
    BY <1>2 DEF DeleteProm, TypeOK, Held
  <2>2. Held([prom[p] EXCEPT !.deleting = TRUE])
    BY DEF TypeOK, Object, Held
  <2>3. QED
    BY <2>1, <2>2
<1>3. CASE EnsureLabels
  <2>1. prom'[p] \in {prom[p], [prom[p] EXCEPT !.labelled = TRUE]}
    BY <1>3 DEF EnsureLabels, TypeOK
  <2>2. Held([prom[p] EXCEPT !.labelled = TRUE])
    BY DEF TypeOK, Object, Held
  <2>3. QED
    BY <2>1, <2>2
<1>4. CASE AddFinalizer
  <2>1. key \in Proms
    BY <1>0, <1>4 DEF AddFinalizer
  <2>2. CASE p # key
    BY <1>4, <2>2 DEF AddFinalizer, TypeOK
  <2>3. CASE p = key
    <3>1. prom'[p] \in {prom[p], [prom[p] EXCEPT !.finalizer = @ \/ ~cached[key].finalizer]}
      BY <1>4, <2>3 DEF AddFinalizer, TypeOK, Held
    <3>2. Held([prom[p] EXCEPT !.finalizer = @ \/ ~cached[key].finalizer])
      BY DEF TypeOK, Object, Held
    <3>3. QED
      BY <3>1, <3>2
  <2>4. QED
    BY <2>2, <2>3
<1>5. CASE RemoveFinalizer
  BY <1>5 DEF RemoveFinalizer, TypeOK
<1>6. CASE UNCHANGED prom
  BY <1>6
<1>7. QED
  BY <1>1, <1>2, <1>3, <1>4, <1>5, <1>6
     DEF Next, User, Collector, Step, DropBinding, CollectGarbage, Removed, DropService, Deliver,
         ChangeState, RotateToken, Resync, Restart, Detect, Start, EnsureAccess, CreatePreset, Register,
         Bind, Authorize, Stamp, CleanupPreset, Unregister, HubFault, ApiFault, vars

\* Only a call to the hub changes it.
LEMMA HubSteps ==
  ASSUME [Next]_vars
  PROVE  \/ hub' = hub
         \/ /\ UNCHANGED <<prom, mode>>
            /\ \/ pc = "register" /\ hub' = Registered
               \/ /\ pc = "unregister"
                  /\ hub' = [hub EXCEPT ![backend][ContextOf(key)] = NoRegistration]
BY DEF Next, User, Collector, Step, CreateProm, DeleteProm, DropBinding, CollectGarbage,
       Removed, DropService, Deliver, ChangeState, RotateToken, Resync, Restart, Detect, Start,
       EnsureLabels, AddFinalizer, EnsureAccess, CreatePreset, Register, Bind, Authorize, Stamp,
       CleanupPreset, Unregister, RemoveFinalizer, HubFault, ApiFault, vars

\* How a teardown gets to where it unregisters.
LEMMA EndingSteps ==
  ASSUME [Next]_vars, pc' \in {"unregister", "release"}
  PROVE  \/ UNCHANGED <<pc, key, backend, mode, hub>>
         \/ /\ pc = "unpreset" /\ pc' = "unregister" /\ ProjectKnown(key)
            /\ UNCHANGED <<key, backend, mode, hub>>
         \/ Unregister
<1>1. ASSUME NEW p \in Proms, Start(p) PROVE UNCHANGED <<pc, key, backend, mode, hub>>
  <2>1. pc = "idle" /\ pc' \in {"idle", FirstStep(cached[p])}
    BY <1>1 DEF Start, workerVars
  <2>2. QED
    BY <2>1 DEF FirstStep
<1>2. CASE EnsureLabels \/ AddFinalizer \/ EnsureAccess \/ CreatePreset \/ Register
  <2>1. pc' \in {"idle", "finalize", "access", "preset", "restamp", "register", "bind", "stamp"}
    BY <1>2 DEF EnsureLabels, AddFinalizer, EnsureAccess, CreatePreset, WritePreset, Register,
                Return, Goto, Advance, AfterBackend
  <2>2. QED
    BY <2>1
<1>3. CASE Bind \/ Authorize \/ Stamp \/ RemoveFinalizer \/ HubFault \/ ApiFault
  <2>1. pc' \in {"idle", "finalize", "auth", "register", "bind", "stamp"}
    BY <1>3 DEF Bind, Authorize, Stamp, RemoveFinalizer, HubFault, ApiFault,
                Return, Goto, Advance, AfterBackend
  <2>2. QED
    BY <2>1
<1>4. CASE CleanupPreset
  BY <1>4 DEF CleanupPreset, Return, Goto
<1>5. QED
  BY <1>1, <1>2, <1>3, <1>4
     DEF Next, User, Collector, Step, CreateProm, DeleteProm, DropBinding, CollectGarbage,
         Removed, DropService, Deliver, ChangeState, RotateToken, Resync, Restart, Detect, workerVars, vars

LEMMA NextLone ==
  TypeOK /\ FinalizerInv /\ RegisteringInv /\ LoneInv /\ [Next]_vars => LoneInv'
<1> SUFFICES ASSUME TypeOK, FinalizerInv, RegisteringInv, LoneInv, [Next]_vars, Alone PROVE LoneInv'
  BY DEF LoneInv
<1>0. /\ mode = "unknown" \/ \A p \in Proms : IsDefault(p)
      /\ pc # "idle" => mode # "unknown" /\ key \in Proms
      /\ \A b \in Backends, c \in Contexts :
            hub[b][c].by # None => c = "default" /\ Held(prom[hub[b][c].by])
  BY DEF LoneInv, TypeOK
<1>1. pc # "idle" => ContextOf(key) = "default"
  BY <1>0 DEF ContextOf
<1>2. backend \in Backends /\ hub \in [Backends -> [Contexts -> Registration]]
      /\ "default" \in Contexts
  BY DEF TypeOK, Contexts
<1>3. (mode = "unknown" \/ \A p \in Proms : IsDefault(p))' /\ (pc' # "idle" => mode' # "unknown")
  <2>1. ASSUME NEW p \in Proms, Start(p)
        PROVE  (mode = "unknown" \/ \A q \in Proms : IsDefault(q))' /\ (pc' # "idle" => mode' # "unknown")
    <3>1. CASE cached[p].exists
      <4>1. mode' = Detected /\ (pc' # "idle" => Detected # "unknown")
        BY <2>1, <3>1 DEF Start, Handles, workerVars
      <4>2. QED
        BY <4>1, LoneDetected
    <3>2. CASE ~cached[p].exists
      <4>1. mode' = mode /\ pc' = "idle"
        BY <2>1, <3>2 DEF Start, Handles, workerVars
      <4>2. QED
        BY <1>0, <4>1 DEF IsDefault
    <3>3. QED
      BY <3>1, <3>2
  <2>2. CASE Restart
    BY <2>2 DEF Restart
  <2>3. CASE mode' = mode /\ (pc' # "idle" => pc # "idle")
    BY <1>0, <2>3 DEF IsDefault
  <2>4. CASE Detect
    BY <2>4, LoneDetected DEF Detect, workerVars
  <2>5. QED
    BY <2>1, <2>2, <2>3, <2>4
       DEF Next, User, Collector, Step, CreateProm, DeleteProm, DropBinding, CollectGarbage,
           Removed, DropService, Deliver, ChangeState, RotateToken, Resync, Detect, EnsureLabels,
           AddFinalizer, EnsureAccess, CreatePreset, Register, Bind, Authorize, Stamp,
           CleanupPreset, Unregister, RemoveFinalizer, HubFault, ApiFault, workerVars, vars
<1>4. ASSUME NEW b \in Backends, NEW c \in Contexts, hub'[b][c].by # None
      PROVE  c = "default" /\ Held(prom'[hub'[b][c].by])
  <2>1. CASE hub' = hub
    <3>1. c = "default" /\ Held(prom[hub[b][c].by]) /\ hub[b][c].by \in Proms
      BY <1>0, <1>2, <1>4, <2>1 DEF Registration
    <3>2. ~(RemoveFinalizer /\ key = hub[b][c].by)
      BY <1>4, <2>1, <3>1 DEF RemoveFinalizer, LoneInv
    <3>3. QED
      BY <2>1, <3>1, <3>2, HeldStays
  <2>2. CASE pc = "register" /\ hub' = Registered /\ prom' = prom
    <3>1. hub'[b][c] = IF b = backend /\ c = "default" THEN Chosen ELSE hub[b][c]
      BY <1>1, <1>2, <2>2 DEF Registered
    <3>2. Held(prom[key]) /\ Chosen.by = key
      BY <2>2 DEF FinalizerInv, Guarded, Chosen
    <3>3. QED
      BY <1>0, <1>4, <2>2, <3>1, <3>2
  <2>3. CASE /\ pc = "unregister" /\ prom' = prom
             /\ hub' = [hub EXCEPT ![backend][ContextOf(key)] = NoRegistration]
    <3>1. hub'[b][c] = IF b = backend /\ c = "default" THEN NoRegistration ELSE hub[b][c]
      BY <1>1, <1>2, <2>3
    <3>2. hub'[b][c] = hub[b][c]
      BY <1>4, <3>1 DEF NoRegistration
    <3>3. QED
      BY <1>0, <1>4, <2>3, <3>2
  <2>4. QED
    BY <2>1, <2>2, <2>3, HubSteps
<1>5. ASSUME Unregister
      PROVE  /\ pc' = "unregister" /\ backend' = "perses" => hub'["grafana"]["default"].by = None
             /\ pc' = "release" => \A b \in Backends : hub'[b]["default"].by = None
  <2>1. /\ pc = "unregister" /\ pc' = AfterUnregister(backend)
        /\ hub' = [hub EXCEPT ![backend]["default"] = NoRegistration]
    BY <1>1, <1>5 DEF Unregister
  <2>2. \A b \in Backends : hub'[b]["default"] = IF b = backend THEN NoRegistration ELSE hub[b]["default"]
    BY <1>2, <2>1
  <2>3. CASE backend = "grafana"
    BY <2>1, <2>2, <2>3 DEF AfterUnregister, NoRegistration, Backends
  <2>4. CASE backend = "perses"
    BY <2>1, <2>2, <2>4 DEF AfterUnregister, NoRegistration, Backends, LoneInv
  <2>5. QED
    BY <1>2, <2>3, <2>4 DEF Backends
<1>6. /\ pc' = "unregister" /\ backend' = "perses" => hub'["grafana"]["default"].by = None
      /\ pc' = "release" => \A b \in Backends : hub'[b]["default"].by = None
  <2>1. pc = "unpreset" => backend = "grafana"
    BY DEF RegisteringInv, BeforeBackends
  <2>2. QED
    BY <1>5, <2>1, EndingSteps DEF LoneInv
<1>7. QED
  BY <1>3, <1>4, <1>6 DEF LoneInv

LEMMA InitLone == Init => LoneInv
<1> SUFFICES ASSUME Init, Alone PROVE LoneInv
  BY DEF LoneInv
<1>1. mode = "unknown" /\ pc = "idle"
  BY DEF Init
<1>2. ASSUME NEW b \in Backends, NEW c \in Contexts, hub[b][c].by # None
      PROVE  c = "default" /\ Held(prom[hub[b][c].by])
  <2>1. hub[b][c] = IF c = "default" /\ LegacyNs # {}
                    THEN [by |-> First, state |-> 1, token |-> FirstToken] ELSE NoRegistration
    BY DEF Init
  <2>2. c = "default" /\ LegacyNs # {} /\ hub[b][c].by = First
    BY <1>2, <2>1 DEF NoRegistration
  <2>3. First \in Proms /\ Old(Ns[First])
    BY <2>2, PrometheusAssumption DEF Old
  <2>4. prom[First] = [New(1) EXCEPT !.finalizer = TRUE]
    BY <2>3 DEF Init
  <2>5. QED
    BY <2>2, <2>4 DEF Held, New, Absent
<1>3. QED
  BY <1>1, <1>2 DEF LoneInv

-----------------------------------------------------------------------------

\* A step gives at most one uid, to p; nobody else's object, cached copy or
\* worker's copy gets a uid that was not its own.
UidStep(p) ==
    /\ uids' = uids \/ uids' = uids + 1
    /\ \A q \in Proms : \A u \in OwnUids(q)' :
          u \in OwnUids(q) \/ u = 0 \/ (q = p /\ uids' = uids + 1 /\ u = uids')

LEMMA InitUid == Init => UidInv
<1> SUFFICES ASSUME Init PROVE UidInv
  OBVIOUS
<1>1. ASSUME NEW p \in Proms PROVE prom[p].uid = IF p = First THEN 1 ELSE 0
  BY <1>1 DEF Init, New, Absent
<1>2. ASSUME NEW p \in Proms PROVE OwnUids(p) = {IF p = First THEN 1 ELSE 0}
  BY <1>1, <1>2 DEF OwnUids, Init
<1>3. ASSUME NEW p \in Proms, prom[p].exists PROVE prom[p].uid # 0
  BY <1>1, <1>3 DEF Init, Absent
<1>4. uids = 1
  BY DEF Init
<1>5. QED
  BY <1>2, <1>3, <1>4 DEF UidInv

\* The copies of a Prometheus that a step leaves have uids the objects had.
LEMMA UidCopies ==
  ASSUME TypeOK, NEW p \in Proms, uids' = uids \/ uids' = uids + 1,
         \A q \in Proms : \/ prom'[q].uid \in {prom[q].uid, 0}
                          \/ q = p /\ uids' = uids + 1 /\ prom'[q].uid = uids',
         \A q \in Proms : cached'[q].uid \in {cached[q].uid, prom[q].uid},
         pc' # "idle" =>
            \/ pc # "idle" /\ key' = key /\ local' = local
            \/ key' \in Proms /\ local'.uid \in {prom'[key'].uid, cached[key'].uid}
  PROVE  UidStep(p)
<1> SUFFICES ASSUME NEW q \in Proms, NEW u \in OwnUids(q)'
             PROVE  u \in OwnUids(q) \/ u = 0 \/ (q = p /\ uids' = uids + 1 /\ u = uids')
  BY DEF UidStep
<1>1. \/ u = prom'[q].uid \/ u = cached'[q].uid
      \/ pc' # "idle" /\ key' = q /\ u = local'.uid
  BY DEF OwnUids
<1>2. prom[q].uid \in OwnUids(q) /\ cached[q].uid \in OwnUids(q)
      /\ (pc # "idle" /\ key = q => local.uid \in OwnUids(q))
  BY DEF OwnUids
<1>3. QED
  BY <1>1, <1>2

\* The same when the objects, the cache and the worker's copy stay.
LEMMA UidAside ==
  ASSUME TypeOK, NEW p \in Proms, UNCHANGED <<prom, cached, uids>>,
         pc' # "idle" => pc # "idle" /\ key' = key /\ local' = local
  PROVE  UidStep(p) /\ \A q \in Proms : prom'[q].exists => prom[q].exists /\ prom'[q].uid = prom[q].uid
BY UidCopies

\* An object keeps its uid for as long as it exists, and gets a new one when it
\* is made anew.
LEMMA NextUidStep ==
  ASSUME TypeOK, [Next]_vars, NEW p0 \in Proms
  PROVE  \E p \in Proms :
            /\ UidStep(p)
            /\ \A q \in Proms : prom'[q].exists => \/ prom[q].exists /\ prom'[q].uid = prom[q].uid
                                                   \/ q = p /\ uids' = uids + 1 /\ prom'[q].uid = uids'
<1> DEFINE Lasting(p) ==
      \A q \in Proms : prom'[q].exists => \/ prom[q].exists /\ prom'[q].uid = prom[q].uid
                                          \/ q = p /\ uids' = uids + 1 /\ prom'[q].uid = uids'
<1> DEFINE Goal == \E p \in Proms : UidStep(p) /\ Lasting(p)
<1> SUFFICES Goal
  OBVIOUS
<1>0. prom \in [Proms -> Object] /\ cached \in [Proms -> Object] /\ uids \in Nat
      /\ (pc # "idle" => key \in Proms)
  BY DEF TypeOK
<1>1. ASSUME NEW p \in Proms, CreateProm(p) PROVE Goal
  <2>1. /\ uids' = uids + 1 /\ prom' = [prom EXCEPT ![p] = New(uids')] /\ cached' = cached
        /\ UNCHANGED <<pc, key, local>>
    BY <1>1 DEF CreateProm, workerVars
  <2>2. New(uids').uid = uids' /\ \A q \in Proms : q # p => prom'[q] = prom[q]
    BY <1>0, <2>1 DEF New, Absent
  <2>3. UidStep(p) /\ Lasting(p)
    BY <1>0, <2>1, <2>2, UidCopies
  <2>4. QED
    BY <2>3
<1>2. ASSUME NEW p \in Proms, DeleteProm(p) PROVE Goal
  <2>1. /\ uids' = uids /\ cached' = cached /\ UNCHANGED <<pc, key, local>> /\ prom[p].exists
        /\ prom' = [prom EXCEPT ![p] = IF @.finalizer THEN [@ EXCEPT !.deleting = TRUE] ELSE Absent]
    BY <1>2 DEF DeleteProm, workerVars
  <2>2. /\ prom'[p].uid \in {prom[p].uid, 0} /\ (prom'[p].exists => prom'[p].uid = prom[p].uid)
        /\ \A q \in Proms : q # p => prom'[q] = prom[q]
    BY <1>0, <2>1 DEF Absent, Object
  <2>3. UidStep(p) /\ Lasting(p)
    BY <1>0, <2>1, <2>2, UidCopies
  <2>4. QED
    BY <2>3
<1>3. ASSUME NEW p \in Proms, Deliver(p) PROVE Goal
  <2>1. /\ uids' = uids /\ prom' = prom /\ cached' = [cached EXCEPT ![p] = prom[p]]
        /\ UNCHANGED <<pc, key, local>>
    BY <1>3 DEF Deliver, workerVars
  <2>2. \A q \in Proms : cached'[q].uid \in {cached[q].uid, prom[q].uid}
    BY <1>0, <2>1
  <2>3. UidStep(p) /\ Lasting(p)
    BY <1>0, <2>1, <2>2, UidCopies
  <2>4. QED
    BY <2>3
<1>4. CASE Restart
  <2>1. uids' = uids /\ prom' = prom /\ cached' = prom /\ pc' = "idle"
    BY <1>4 DEF Restart
  <2>2. UidStep(p0) /\ Lasting(p0)
    BY <1>0, <2>1, UidCopies
  <2>3. QED
    BY <2>2
<1>5. ASSUME NEW p \in Proms, Start(p) PROVE Goal
  <2>1. uids' = uids /\ prom' = prom /\ cached' = cached
    BY <1>5 DEF Start, bounds
  <2>2. pc' # "idle" => key' = p /\ local' = cached[p]
    BY <1>5 DEF Start, workerVars
  <2>3. UidStep(p) /\ Lasting(p)
    BY <1>0, <2>1, <2>2, UidCopies
  <2>4. QED
    BY <2>3
<1>6. CASE EnsureLabels
  <2>1. uids' = uids /\ cached' = cached /\ key \in Proms
    BY <1>0, <1>6 DEF EnsureLabels
  <2>2. \/ pc' = "idle" /\ prom' = prom
        \/ /\ prom[key].exists /\ key' = key /\ local' = prom'[key]
           /\ prom' = [prom EXCEPT ![key].labelled = TRUE]
    BY <1>6 DEF EnsureLabels, Return
  <2>3. ASSUME NEW q \in Proms
        PROVE  prom'[q].uid = prom[q].uid /\ prom'[q].exists = prom[q].exists
    <3>1. prom \in [Proms -> Object] /\ prom[q] \in Object
      BY <1>0
    <3>2. prom'[q] = prom[q] \/ prom'[q] = [prom[q] EXCEPT !.labelled = TRUE]
      BY <2>2, <3>1
    <3>3. QED
      BY <3>1, <3>2 DEF Object
  <2>4. UidStep(key) /\ Lasting(key)
    BY <1>0, <2>1, <2>2, <2>3, UidCopies
  <2>5. QED
    BY <2>1, <2>4
<1>7. CASE AddFinalizer \/ RemoveFinalizer
  <2>1. cached' = cached /\ key \in Proms
    BY <1>0, <1>7 DEF AddFinalizer, RemoveFinalizer
  <2>2. pc' = "idle" \/ (key' = key /\ local' = prom'[key])
    BY <1>7 DEF AddFinalizer, RemoveFinalizer, Return
  <2>3. CASE /\ ~prom[key].exists /\ uids' = uids + 1
             /\ \E o \in Object : o.uid = uids' /\ prom' = [prom EXCEPT ![key] = o]
    <3>1. prom'[key].uid = uids' /\ \A q \in Proms : q # key => prom'[q] = prom[q]
      BY <1>0, <2>1, <2>3
    <3>2. UidStep(key) /\ Lasting(key)
      BY <1>0, <2>1, <2>2, <2>3, <3>1, UidCopies
    <3>3. QED
      BY <2>1, <3>2
  <2>4. CASE /\ uids' = uids
             /\ \/ prom' = prom
                \/ \E o \in Object : /\ o.uid \in {prom[key].uid, 0} /\ (o.exists => prom[key].exists /\ o.uid = prom[key].uid)
                                     /\ prom' = [prom EXCEPT ![key] = o]
    <3>1. /\ prom'[key].uid \in {prom[key].uid, 0}
          /\ prom'[key].exists => prom[key].exists /\ prom'[key].uid = prom[key].uid
          /\ \A q \in Proms : q # key => prom'[q] = prom[q]
      BY <1>0, <2>1, <2>4
    <3>2. UidStep(key) /\ Lasting(key)
      BY <1>0, <2>1, <2>2, <2>4, <3>1, UidCopies
    <3>3. QED
      BY <2>1, <3>2
  <2>5. CASE AddFinalizer
    <3>1. CASE /\ cached[key].exists /\ prom[key].exists /\ UNCHANGED uids
               /\ prom' = [prom EXCEPT ![key].finalizer = @ \/ ~cached[key].finalizer]
      <4>1. PICK f : f = (prom[key].finalizer \/ ~cached[key].finalizer)
        OBVIOUS
      <4>2. prom[key] \in Object /\ f \in BOOLEAN
        BY <1>0, <2>1, <4>1
      <4>3. PICK o : o = [prom[key] EXCEPT !.finalizer = f]
        OBVIOUS
      <4>4. o \in Object /\ o.uid = prom[key].uid /\ prom' = [prom EXCEPT ![key] = o]
        BY <3>1, <4>1, <4>2, <4>3 DEF Object
      <4>5. QED
        BY <2>4, <3>1, <4>4
    <3>2. CASE /\ ~prom[key].exists /\ uids' = uids + 1
               /\ prom' = [prom EXCEPT ![key] = [New(uids') EXCEPT !.finalizer = TRUE,
                                                                  !.labelled = local.labelled]]
      <4>1. PICK u \in Nat : u = uids'
        BY <1>0, <3>2
      <4>2. local.labelled \in BOOLEAN
        BY DEF TypeOK, Object
      <4>3. PICK o : o = [New(u) EXCEPT !.finalizer = TRUE, !.labelled = local.labelled]
        OBVIOUS
      <4>4. o \in Object /\ o.uid = u
        BY <4>2, <4>3 DEF New, Absent, Object
      <4>5. QED
        BY <2>3, <3>2, <4>1, <4>3, <4>4
    <3>3. CASE UNCHANGED <<prom, uids>>
      BY <2>4, <3>3
    <3>4. QED
      BY <2>5, <3>1, <3>2, <3>3 DEF AddFinalizer
  <2>6. CASE RemoveFinalizer
    <3>1. CASE /\ cached[key].exists /\ prom[key].exists /\ UNCHANGED uids
               /\ prom' = [prom EXCEPT ![key] = WithoutFinalizer(@, cached[key])]
      <4>1. PICK o : o = WithoutFinalizer(prom[key], cached[key])
        OBVIOUS
      <4>2. prom[key] \in Object
        BY <1>0, <2>1
      <4>3. o \in Object /\ o.uid \in {prom[key].uid, 0} /\ (o.exists => o.uid = prom[key].uid)
        BY <4>1, <4>2 DEF WithoutFinalizer, Absent, Object
      <4>4. QED
        BY <2>4, <3>1, <4>1, <4>3
    <3>2. CASE /\ ~prom[key].exists /\ uids' = uids + 1
               /\ prom' = [prom EXCEPT ![key] = [New(uids') EXCEPT !.labelled = local.labelled]]
      <4>1. PICK u \in Nat : u = uids'
        BY <1>0, <3>2
      <4>2. local.labelled \in BOOLEAN
        BY DEF TypeOK, Object
      <4>3. PICK o : o = [New(u) EXCEPT !.labelled = local.labelled]
        OBVIOUS
      <4>4. o \in Object /\ o.uid = u
        BY <4>2, <4>3 DEF New, Absent, Object
      <4>5. QED
        BY <2>3, <3>2, <4>1, <4>3, <4>4
    <3>3. CASE UNCHANGED <<prom, uids>>
      BY <2>4, <3>3
    <3>4. QED
      BY <2>6, <3>1, <3>2, <3>3 DEF RemoveFinalizer
  <2>7. QED
    BY <1>7, <2>5, <2>6
<1>8. CASE /\ UNCHANGED <<prom, cached, uids>>
           /\ pc' # "idle" => pc # "idle" /\ key' = key /\ local' = local
  <2>1. UidStep(p0) /\ Lasting(p0)
    BY <1>8, UidAside
  <2>2. QED
    BY <2>1
<1>9. QED
  BY <1>1, <1>2, <1>3, <1>4, <1>5, <1>6, <1>7, <1>8
     DEF Next, User, Collector, Step, DropBinding, CollectGarbage, Removed, DropService,
         ChangeState, RotateToken, Resync, Detect, EnsureAccess, CreatePreset, Register, Bind, Authorize,
         Stamp, CleanupPreset, Unregister, HubFault, ApiFault, Return, Goto, Advance, workerVars,
         bounds, vars

LEMMA NextUid == TypeOK /\ UidInv /\ [Next]_vars => UidInv'
<1> SUFFICES ASSUME TypeOK, UidInv, [Next]_vars PROVE UidInv'
  OBVIOUS
<1>1. CASE Proms = {}
  BY <1>1 DEF UidInv
<1>2. CASE Proms # {}
  <2>1. PICK p \in Proms :
            /\ UidStep(p)
            /\ \A q \in Proms : prom'[q].exists => \/ prom[q].exists /\ prom'[q].uid = prom[q].uid
                                                   \/ q = p /\ uids' = uids + 1 /\ prom'[q].uid = uids'
    BY <1>2, NextUidStep
  <2>2. uids \in Nat /\ (uids' = uids \/ uids' = uids + 1)
    BY <2>1 DEF TypeOK, UidStep
  <2>3. ASSUME NEW q \in Proms, NEW u \in OwnUids(q) PROVE u \in Nat /\ u <= uids
    BY <2>3 DEF UidInv, OwnUids, TypeOK, Object
  <2>4. ASSUME NEW q \in Proms, NEW u \in OwnUids(q)' PROVE u <= uids'
    BY <2>1, <2>2, <2>3, <2>4 DEF UidStep
  <2>5. ASSUME NEW q \in Proms, prom'[q].exists PROVE prom'[q].uid # 0
    BY <2>1, <2>2, <2>5 DEF UidInv
  <2>6. ASSUME NEW q \in Proms, NEW r \in Proms, q # r, NEW u \in OwnUids(q)', u \in OwnUids(r)', u # 0
        PROVE  FALSE
    <3>1. /\ u \in OwnUids(q) \/ (q = p /\ uids' = uids + 1 /\ u = uids')
          /\ u \in OwnUids(r) \/ (r = p /\ uids' = uids + 1 /\ u = uids')
      BY <2>1, <2>6 DEF UidStep
    <3>2. ~(u \in OwnUids(q) /\ u \in OwnUids(r))
      BY <2>6 DEF UidInv
    <3>3. QED
      BY <2>2, <2>3, <2>6, <3>1, <3>2
  <2>7. QED
    BY <2>4, <2>5, <2>6 DEF UidInv
<1>3. QED
  BY <1>1, <1>2

\* What Reconcile reads from the cache, how far it is and what it has
\* registered agree with the API server's objects and with the hub in every
\* reachable state.
THEOREM PrometheusInvariant == Spec => []Inv
<1>1. Init => Inv
  BY InitType, InitFinalizer, InitMarker, InitOpenShift, InitLone, InitUid DEF Inv
<1>2. Inv /\ [Next]_vars => Inv'
  BY NextType, NextFinalizer, NextRegistering, NextLegacy, NextOpenShift, NextLone, NextUid
     DEF Inv, MarkerInv
<1>3. QED
  BY <1>1, <1>2, PTL DEF Spec

\* On OpenShift, whichever Prometheus objects come and go and whichever is
\* there first, only the user workload one is given labels and a
\* finalizer, unless an old release has done so.
THEOREM OthersAreLeftAlone == LegacyNs = {} => (Spec => []OpenShiftLeavesOthers)
<1> SUFFICES ASSUME LegacyNs = {} PROVE Spec => []OpenShiftLeavesOthers
  OBVIOUS
<1>1. Inv => OpenShiftLeavesOthers
  BY DEF Inv, OpenShiftInv, OpenShiftLeavesOthers
<1>2. QED
  BY <1>1, PrometheusInvariant, PTL

LEMMA InitContract == Alone /\ Init => Contract!ContractInit
<1> SUFFICES ASSUME Alone, Init PROVE Contract!ContractInit
  OBVIOUS
<1>1. TypeOK /\ LoneInv
  BY InitType, InitLone
<1>2. Holding \in [Proms -> BOOLEAN] /\ Outside \in [Proms -> BOOLEAN]
  BY <1>1 DEF Holding, Outside, Held, TypeOK, Object
<1>3. ASSUME NEW p \in Proms, Outside[p] PROVE Holding[p]
  <2>1. PICK b \in Backends, c \in Contexts : hub[b][c].by = p
    BY <1>3 DEF Outside
  <2>2. hub[b][c].by # None
    BY <2>1, PrometheusAssumption
  <2>3. QED
    BY <1>1, <2>1, <2>2 DEF LoneInv, Holding
<1>4. QED
  BY <1>2, <1>3 DEF Contract!ContractInit

\* A step that changes finalizer or registrations of one Prometheus only, and
\* leaves no registration without finalizer, is a step of the contract.
LEMMA ContractStep ==
  ASSUME TypeOK, TypeOK', [Next]_vars, NEW p \in Proms,
         \A q \in Proms : (Outside[q] => Holding[q]) /\ (Outside'[q] => Holding'[q]),
         \A q \in Proms \ {p} : Holding'[q] = Holding[q] /\ Outside'[q] = Outside[q]
  PROVE  Contract!ContractNext \/ UNCHANGED <<Holding, Outside>>
<1>1. /\ Outside \in [Proms -> BOOLEAN] /\ Outside' \in [Proms -> BOOLEAN]
      /\ Holding \in [Proms -> BOOLEAN] /\ Holding' \in [Proms -> BOOLEAN]
  BY DEF Outside, Holding, Held, TypeOK, Object
<1>2. Holding' = [Holding EXCEPT ![p] = Holding'[p]] /\ Outside' = [Outside EXCEPT ![p] = Outside'[p]]
  BY <1>1
<1>3. CASE Holding'[p] = Holding[p] /\ Outside'[p] = Outside[p]
  BY <1>1, <1>2, <1>3
<1>4. CASE hub' = hub /\ Holding'[p] # Holding[p]
  <2>1. Outside' = Outside
    BY <1>4 DEF Outside
  <2>2. CASE Holding'[p]
    <3>1. Contract!Acquire(p)
      BY <1>1, <1>2, <1>4, <2>1, <2>2 DEF Contract!Acquire
    <3>2. QED
      BY <3>1 DEF Contract!ContractNext
  <2>3. CASE ~Holding'[p]
    <3>1. Holding[p] /\ ~Outside[p]
      BY <1>1, <1>4, <2>1, <2>3
    <3>2. Contract!Release(p)
      BY <1>1, <1>2, <2>1, <2>3, <3>1 DEF Contract!Release
    <3>3. QED
      BY <3>2 DEF Contract!ContractNext
  <2>4. QED
    BY <2>2, <2>3
<1>5. CASE prom' = prom /\ Outside'[p] # Outside[p]
  <2>1. Holding' = Holding
    BY <1>5 DEF Holding
  <2>2. CASE Outside'[p]
    <3>1. Contract!Provision(p)
      BY <1>1, <1>2, <2>1, <2>2 DEF Contract!Provision
    <3>2. QED
      BY <3>1 DEF Contract!ContractNext
  <2>3. CASE ~Outside'[p]
    <3>1. Outside[p] /\ Holding[p]
      BY <1>1, <1>5, <2>3
    <3>2. Contract!Withdraw(p)
      BY <1>1, <1>2, <2>1, <2>3, <3>1 DEF Contract!Withdraw
    <3>3. QED
      BY <3>2 DEF Contract!ContractNext
  <2>4. QED
    BY <2>2, <2>3
<1>6. (hub' = hub => Outside' = Outside) /\ (prom' = prom => Holding' = Holding)
  BY DEF Outside, Holding
<1>7. QED
  BY <1>3, <1>4, <1>5, <1>6, HubSteps

\* A step of the reconciler of a lone Prometheus is a step of the contract.
LEMMA StepContract ==
  ASSUME Inv, Inv', [Next]_vars, Alone
  PROVE  Contract!ContractNext \/ UNCHANGED <<Holding, Outside>>
<1>0. TypeOK /\ TypeOK' /\ LoneInv /\ LoneInv'
  BY DEF Inv
<1>1. ASSUME NEW p \in Proms PROVE (Outside[p] => Holding[p]) /\ (Outside'[p] => Holding'[p])
  <2>1. \A b \in Backends, c \in Contexts : hub[b][c].by = p => Held(prom[p])
    BY <1>0, PrometheusAssumption DEF LoneInv
  <2>2. \A b \in Backends, c \in Contexts : hub'[b][c].by = p => Held(prom'[p])
    BY <1>0, PrometheusAssumption DEF LoneInv
  <2>3. /\ Outside[p] <=> \E b \in Backends, c \in Contexts : hub[b][c].by = p
        /\ Outside'[p] <=> \E b \in Backends, c \in Contexts : hub'[b][c].by = p
        /\ Holding[p] = Held(prom[p]) /\ Holding'[p] = Held(prom'[p])
    BY DEF Outside, Holding
  <2>4. QED
    BY <2>1, <2>2, <2>3
<1>2. CASE Proms = {}
  BY <1>2 DEF Holding, Outside
<1>3. ASSUME NEW p \in Proms PROVE Contract!ContractNext \/ UNCHANGED <<Holding, Outside>>
  <2>1. Proms \ {p} = {}
    BY DEF Alone
  <2>2. QED
    BY <1>0, <1>1, <2>1, ContractStep
<1>4. QED
  BY <1>2, <1>3

\* The finalizer of a lone Prometheus guards its registrations at the hub:
\* through lost answers, any number of restarts and of lives of the object,
\* and on every platform, it is given up only when neither backend knows the
\* Prometheus any more.  (With several, the detector may decide otherwise
\* after a restart and unregister one in a context it was never in.)
THEOREM LoneImplementsContract == Alone => (Spec => ImplementsFinalizerContract)
<1> SUFFICES ASSUME Alone PROVE Spec => ImplementsFinalizerContract
  OBVIOUS
<1>1. Init => Contract!ContractInit
  BY InitContract
<1>2. Inv /\ Inv' /\ [Next]_vars => [Contract!ContractNext]_<<Holding, Outside>>
  BY StepContract
<1>3. QED
  BY <1>1, <1>2, PrometheusInvariant, PTL
     DEF Spec, ImplementsFinalizerContract, Contract!ContractSpec, Contract!contractVars
-----------------------------------------------------------------------------

\* An old release has bound nobody but the platform's own Prometheus.
LegacyIsPrimary == LegacyNs = {} \/ First = Primary

LEMMA InitBinding == LegacyIsPrimary /\ Init => BindingInv
<1> SUFFICES ASSUME LegacyIsPrimary, Init PROVE BindingInv
  OBVIOUS
<1>1. pc = "idle" /\ uids = 1
  BY DEF Init
<1>2. ASSUME NEW n \in Namespaces, NEW k \in Kinds
      PROVE  appBinding[n][k] = 0 \/ (appBinding[n][k] = 1 /\ First = Primary)
  BY <1>2 DEF Init, Old, LegacyIsPrimary
<1>3. ASSUME NEW p \in Proms, p # First PROVE OwnUids(p) = {0}
  BY <1>3 DEF Init, OwnUids, New, Absent
<1>4. QED
  BY <1>1, <1>2, <1>3 DEF BindingInv

\* Who is bound is the default one.
LEMMA BindSteps ==
  ASSUME [Next]_vars
  PROVE  /\ pc' = "bind" => \/ pc = "bind" /\ key' = key
                            \/ IsDefault(key) /\ key' = key
         /\ \/ appBinding' = appBinding
            \/ \E n \in Namespaces, k \in Kinds : appBinding' = [appBinding EXCEPT ![n][k] = 0]
            \/ /\ pc = "bind"
               /\ appBinding' = [appBinding EXCEPT ![Ns[key]]["prometheus"] = local.uid,
                                                   ![Ns[key]][backend] = local.uid]
<1>1. pc' = "bind" => \/ pc = "bind" /\ key' = key
                      \/ IsDefault(key) /\ key' = key
  <2>1. ASSUME NEW p \in Proms, Start(p) PROVE pc' # "bind"
    BY <2>1 DEF Start, FirstStep, workerVars
  <2>2. ASSUME NEW r, Return(r) PROVE pc' # "bind"
    BY <2>2 DEF Return
  <2>3. CASE EnsureLabels \/ AddFinalizer \/ EnsureAccess \/ CreatePreset \/ Stamp
    BY <2>2, <2>3 DEF EnsureLabels, AddFinalizer, EnsureAccess, CreatePreset, Stamp, Goto
  <2>4. CASE Register
    BY <2>4 DEF Register, Advance, AfterBackend
  <2>5. CASE Authorize
    BY <2>5 DEF Authorize, Advance, AfterBackend
  <2>6. CASE Bind \/ CleanupPreset \/ Unregister \/ RemoveFinalizer
    BY <2>2, <2>6 DEF Bind, CleanupPreset, Unregister, AfterUnregister, RemoveFinalizer, Goto
  <2>7. CASE HubFault
    BY <2>2, <2>7 DEF HubFault
  <2>8. CASE ApiFault
    BY <2>2, <2>8 DEF ApiFault, Advance, AfterBackend, Goto
  <2>9. CASE Restart
    BY <2>9 DEF Restart
  <2>10. CASE UNCHANGED <<pc, key>>
    BY <2>10
  <2>11. QED
    BY <2>1, <2>3, <2>4, <2>5, <2>6, <2>7, <2>8, <2>9, <2>10
       DEF Next, User, Collector, Step, CreateProm, DeleteProm, DropBinding, CollectGarbage,
           Removed, DropService, Deliver, ChangeState, RotateToken, Resync, Detect, workerVars, vars
<1>2. \/ appBinding' = appBinding
      \/ \E n \in Namespaces, k \in Kinds : appBinding' = [appBinding EXCEPT ![n][k] = 0]
      \/ /\ pc = "bind"
         /\ appBinding' = [appBinding EXCEPT ![Ns[key]]["prometheus"] = local.uid,
                                             ![Ns[key]][backend] = local.uid]
  BY DEF Next, User, Collector, Step, CreateProm, DeleteProm, DropBinding, CollectGarbage,
         Removed, DropService, Deliver, ChangeState, RotateToken, Resync, Restart, Detect, Start,
         EnsureLabels, AddFinalizer, EnsureAccess, CreatePreset, Register, Bind, Authorize, Stamp,
         CleanupPreset, Unregister, RemoveFinalizer, HubFault, ApiFault, bindVars, vars
<1>3. QED
  BY <1>1, <1>2

\* What a step makes of an AppBinding.
LEMMA BindingValues ==
  ASSUME TypeOK, [Next]_vars, NEW n \in Namespaces, NEW k \in Kinds
  PROVE  \/ appBinding'[n][k] \in {appBinding[n][k], 0}
         \/ pc = "bind" /\ n = Ns[key] /\ appBinding'[n][k] = local.uid
<1>1. appBinding \in [Namespaces -> [Kinds -> Nat]] /\ backend \in Kinds /\ "prometheus" \in Kinds
  BY DEF TypeOK, Kinds
<1>2. CASE appBinding' = appBinding
  BY <1>2
<1>3. ASSUME NEW i \in Namespaces, NEW j \in Kinds, appBinding' = [appBinding EXCEPT ![i][j] = 0]
      PROVE  appBinding'[n][k] \in {appBinding[n][k], 0}
  BY <1>1, <1>3
<1>4. CASE /\ pc = "bind"
           /\ appBinding' = [appBinding EXCEPT ![Ns[key]]["prometheus"] = local.uid,
                                               ![Ns[key]][backend] = local.uid]
  <2>1. CASE n # Ns[key]
    BY <1>1, <1>4, <2>1
  <2>2. CASE n = Ns[key]
    BY <1>1, <1>4, <2>2
  <2>3. QED
    BY <2>1, <2>2
<1>5. QED
  BY <1>2, <1>3, <1>4, BindSteps

LEMMA NextBinding ==
  ASSUME TypeOK, UidInv, BindingInv, [Next]_vars, mode # "singleton"
  PROVE  BindingInv'
<1>1. pc' = "bind" => key' = Primary
  BY BindSteps DEF BindingInv, IsDefault
<1>2. uids \in Nat /\ (uids' = uids \/ uids' = uids + 1)
  <2>1. UNCHANGED uids \/ uids' = uids + 1
    BY DEF Next, User, Collector, Step, CreateProm, DeleteProm, DropBinding, CollectGarbage,
           Removed, DropService, Deliver, ChangeState, RotateToken, Resync, Restart, Detect, Start,
           EnsureLabels, AddFinalizer, EnsureAccess, CreatePreset, Register, Bind, Authorize, Stamp,
           CleanupPreset, Unregister, RemoveFinalizer, HubFault, ApiFault, vars
  <2>2. QED
    BY <2>1 DEF TypeOK
<1>3. ASSUME NEW n \in Namespaces, NEW k \in Kinds
      PROVE  /\ appBinding'[n][k] <= uids'
             /\ \A p \in Proms \ {Primary} : appBinding'[n][k] \in OwnUids(p)' => appBinding'[n][k] = 0
  <2>1. PICK u : u = appBinding'[n][k]
    OBVIOUS
  <2>2. pc = "bind" => key \in Proms /\ key = Primary /\ local.uid \in OwnUids(key)
    BY DEF TypeOK, BindingInv, OwnUids
  <2>3. u \in {appBinding[n][k], 0} \/ (pc = "bind" /\ u = local.uid)
    BY <1>3, <2>1, BindingValues
  <2>4. u \in Nat /\ u <= uids
    <3>1. appBinding[n][k] \in Nat /\ appBinding[n][k] <= uids /\ local.uid \in Nat
      BY DEF TypeOK, BindingInv, Object
    <3>2. pc = "bind" => local.uid <= uids
      BY <2>2 DEF UidInv
    <3>3. QED
      BY <1>2, <2>3, <3>1, <3>2
  <2>5. ASSUME NEW p \in Proms \ {Primary}, u \in OwnUids(p)', u # 0 PROVE FALSE
    <3>1. PICK q \in Proms : UidStep(q)
      BY NextUidStep
    <3>2. u \in OwnUids(p)
      BY <1>2, <2>4, <2>5, <3>1 DEF UidStep
    <3>3. u # appBinding[n][k]
      BY <2>5, <3>2 DEF BindingInv
    <3>4. pc = "bind" => u # local.uid
      BY <2>2, <2>5, <3>2 DEF UidInv
    <3>5. QED
      BY <2>3, <2>5, <3>3, <3>4
  <2>6. QED
    BY <1>2, <2>1, <2>4, <2>5
<1>4. QED
  BY <1>1, <1>3 DEF BindingInv

LEMMA BindingIsOne == UidInv /\ BindingInv => OneDefault
<1> SUFFICES ASSUME UidInv, BindingInv PROVE OneDefault
  OBVIOUS
<1> DEFINE D == {p \in Proms : prom[p].exists /\ appBinding[Ns[p]]["grafana"] = prom[p].uid}
<1>1. D \subseteq {Primary}
  <2>1. ASSUME NEW p \in D, p # Primary PROVE FALSE
    <3>1. prom[p].uid # 0 /\ prom[p].uid \in OwnUids(p) /\ Ns[p] \in Namespaces /\ "grafana" \in Kinds
      BY DEF UidInv, OwnUids, Namespaces, Kinds, Backends
    <3>2. QED
      BY <2>1, <3>1 DEF BindingInv
  <2>2. QED
    BY <2>1
<1>2. IsFiniteSet({Primary}) /\ Cardinality({Primary}) = 1
  BY FS_Singleton
<1>3. IsFiniteSet(D) /\ Cardinality(D) <= 1
  BY <1>1, <1>2, FS_Subset
<1>4. QED
  BY <1>3 DEF OneDefault

\* As long as the detector does not decide for a single Prometheus, at most one
\* has AppBindings of its own, whatever is created, deleted and made anew, and
\* whatever the cache, the worker and the garbage collector still believe.
THEOREM OneDefaultUnlessSingleton ==
  LegacyIsPrimary => (Spec /\ [](mode # "singleton") => []OneDefault)
<1> SUFFICES ASSUME LegacyIsPrimary
             PROVE  Spec /\ [](mode # "singleton") => []OneDefault
  OBVIOUS
<1>1. Init => BindingInv
  BY InitBinding
<1>2. Inv /\ BindingInv /\ mode # "singleton" /\ [Next]_vars => BindingInv'
  BY NextBinding DEF Inv
<1>3. Inv /\ BindingInv => OneDefault
  BY BindingIsOne DEF Inv
<1>4. QED
  BY <1>1, <1>2, <1>3, PrometheusInvariant, PTL DEF Spec

\* On OpenShift the detector decides nothing else.
THEOREM OneDefaultOnOpenShift ==
  Platform = "openshift" /\ LegacyIsPrimary => (Spec => []OneDefault)
<1> SUFFICES ASSUME Platform = "openshift", LegacyIsPrimary PROVE Spec => []OneDefault
  OBVIOUS
<1>1. Inv => mode # "singleton"
  BY DEF Inv, OpenShiftInv
<1>2. QED
  BY <1>1, OneDefaultUnlessSingleton, PrometheusInvariant, PTL

-----------------------------------------------------------------------------

\* Deletions and drops are only counted up.
LEMMA Counted ==
  ASSUME TypeOK, [Next]_vars
  PROVE  (deletes' = 0 => deletes = 0) /\ (drops' = 0 => drops = 0)
<1>1. deletes' = deletes \/ deletes' = deletes + 1
  BY DEF Next, User, Collector, Step, CreateProm, DeleteProm, DropBinding, CollectGarbage,
         Removed, DropService, Deliver, ChangeState, RotateToken, Resync, Restart, Detect, Start,
         EnsureLabels, AddFinalizer, EnsureAccess, CreatePreset, Register, Bind, Authorize, Stamp,
         CleanupPreset, Unregister, RemoveFinalizer, HubFault, ApiFault, bounds, vars
<1>2. drops' = drops \/ drops' = drops + 1
  BY DEF Next, User, Collector, Step, CreateProm, DeleteProm, DropBinding, CollectGarbage,
         Removed, DropService, Deliver, ChangeState, RotateToken, Resync, Restart, Detect, Start,
         EnsureLabels, AddFinalizer, EnsureAccess, CreatePreset, Register, Bind, Authorize, Stamp,
         CleanupPreset, Unregister, RemoveFinalizer, HubFault, ApiFault, bounds, vars
<1>3. QED
  BY <1>1, <1>2 DEF TypeOK

\* While nothing is deleted no object goes, none is deleting and each keeps its
\* uid.
Alive == \A p \in Proms : ~prom[p].deleting

LEMMA NothingDeleted ==
  ASSUME TypeOK, [Next]_vars, deletes' = 0, Alive
  PROVE  /\ deletes = 0 /\ Alive'
         /\ \A p \in Proms : prom[p].exists => prom'[p].exists /\ prom'[p].uid = prom[p].uid
         /\ \A p \in Proms : ~DeleteProm(p)
<1>0. prom \in [Proms -> Object] /\ deletes \in Nat /\ (pc # "idle" => key \in Proms)
  BY DEF TypeOK
<1>1. \A p \in Proms : ~DeleteProm(p)
  <2>1. ASSUME NEW p \in Proms, DeleteProm(p) PROVE deletes' = deletes + 1
    BY <2>1 DEF DeleteProm
  <2>2. QED
    BY <1>0, <2>1
<1>2. deletes = 0
  BY Counted
<1> DEFINE Lives(o, n) == ~n.deleting /\ (o.exists => n.exists /\ n.uid = o.uid)
<1>3. ASSUME NEW p \in Proms PROVE Lives(prom[p], prom'[p])
  <2>0. Lives(prom[p], prom[p])
    BY DEF Alive
  <2>1. ASSUME NEW q \in Proms, CreateProm(q) PROVE Lives(prom[p], prom'[p])
    <3>1. prom'[p] = IF p = q THEN New(uids') ELSE prom[p]
      BY <1>0, <2>1 DEF CreateProm
    <3>2. ~New(uids').deleting
      BY DEF New, Absent
    <3>3. QED
      BY <2>0, <2>1, <3>1, <3>2 DEF CreateProm
  <2>2. CASE EnsureLabels
    <3>1. prom'[p] \in {prom[p], [prom[p] EXCEPT !.labelled = TRUE]}
      BY <1>0, <2>2 DEF EnsureLabels
    <3>2. Lives(prom[p], [prom[p] EXCEPT !.labelled = TRUE])
      BY <1>0, <2>0 DEF Object
    <3>3. QED
      BY <2>0, <3>1, <3>2
  <2>3. CASE AddFinalizer
    <3>1. CASE p # key
      BY <1>0, <2>0, <2>3, <3>1 DEF AddFinalizer
    <3>2. CASE p = key /\ prom[p].exists
      <4>1. PICK f : f = (prom[p].finalizer \/ ~cached[p].finalizer)
        OBVIOUS
      <4>2. prom'[p] \in {prom[p], [prom[p] EXCEPT !.finalizer = f]}
        BY <1>0, <2>3, <3>2, <4>1 DEF AddFinalizer
      <4>3. Lives(prom[p], [prom[p] EXCEPT !.finalizer = f])
        BY <1>0, <2>0 DEF Object
      <4>4. QED
        BY <2>0, <4>2, <4>3
    <3>3. CASE p = key /\ ~prom[p].exists
      <4>1. PICK o : o = [New(uids') EXCEPT !.finalizer = TRUE, !.labelled = local.labelled]
        OBVIOUS
      <4>2. ~o.deleting
        BY <4>1 DEF New, Absent
      <4>3. prom'[p] = prom[p] \/ prom'[p] = o
        BY <1>0, <2>3, <3>3, <4>1 DEF AddFinalizer
      <4>4. QED
        BY <2>0, <3>3, <4>2, <4>3
    <3>4. QED
      BY <3>1, <3>2, <3>3
  <2>4. CASE RemoveFinalizer
    <3>1. CASE p # key
      BY <1>0, <2>0, <2>4, <3>1 DEF RemoveFinalizer
    <3>2. CASE p = key /\ prom[p].exists
      <4>1. prom'[p] \in {prom[p], WithoutFinalizer(prom[p], cached[p])}
        BY <1>0, <2>4, <3>2 DEF RemoveFinalizer
      <4>2. WithoutFinalizer(prom[p], cached[p]) \in {prom[p], [prom[p] EXCEPT !.finalizer = FALSE]}
        BY DEF WithoutFinalizer, Alive
      <4>3. Lives(prom[p], [prom[p] EXCEPT !.finalizer = FALSE])
        BY <1>0, <2>0 DEF Object
      <4>4. QED
        BY <2>0, <4>1, <4>2, <4>3
    <3>3. CASE p = key /\ ~prom[p].exists
      <4>1. PICK o : o = [New(uids') EXCEPT !.labelled = local.labelled]
        OBVIOUS
      <4>2. ~o.deleting
        BY <4>1 DEF New, Absent
      <4>3. prom'[p] = prom[p] \/ prom'[p] = o
        BY <1>0, <2>4, <3>3, <4>1 DEF RemoveFinalizer
      <4>4. QED
        BY <2>0, <3>3, <4>2, <4>3
    <3>4. QED
      BY <3>1, <3>2, <3>3
  <2>5. CASE UNCHANGED prom
    BY <2>0, <2>5
  <2>6. QED
    BY <1>1, <2>1, <2>2, <2>3, <2>4, <2>5
       DEF Next, User, Collector, Step, DropBinding, CollectGarbage, Removed, DropService, Deliver,
           ChangeState, RotateToken, Resync, Restart, Detect, Start, EnsureAccess, CreatePreset, Register,
           Bind, Authorize, Stamp, CleanupPreset, Unregister, HubFault, ApiFault, vars
<1>4. QED
  BY <1>1, <1>2, <1>3 DEF Alive

\* What the detector decides where it has no choice: it is OpenShift's, or the
\* platform's own Prometheus is there from the start, or there is only one.
Verdict ==
    IF Platform = "openshift" THEN "openshift"
    ELSE IF Platform = "rancher" THEN "federated" ELSE "singleton"

Firm ==
    \/ Platform = "openshift"
    \/ Platform = "rancher" /\ First \in Proms /\ First = Primary
    \/ Platform = "plain" /\ Alone

VerdictInv ==
    deletes = 0 =>
       /\ Alive
       /\ mode \in {"unknown", Verdict}
       /\ Platform = "rancher" => prom[Primary].exists

LEMMA InitVerdict == Firm /\ Init => VerdictInv
<1> SUFFICES ASSUME Firm, Init PROVE VerdictInv
  OBVIOUS
<1>1. Alive
  <2>1. ASSUME NEW p \in Proms PROVE ~prom[p].deleting
    BY <2>1 DEF Init, New, Absent
  <2>2. QED
    BY <2>1 DEF Alive
<1>2. mode = "unknown"
  BY DEF Init
<1>3. ASSUME Platform = "rancher" PROVE prom[Primary].exists
  <2>1. First \in Proms /\ First = Primary
    BY <1>3 DEF Firm
  <2>2. prom[Primary] = [New(1) EXCEPT !.finalizer = Old(Ns[Primary])]
    BY <2>1 DEF Init
  <2>3. QED
    BY <2>2 DEF New, Absent
<1>4. QED
  BY <1>1, <1>2, <1>3 DEF VerdictInv

LEMMA NextVerdict == Firm /\ Inv /\ VerdictInv /\ [Next]_vars => VerdictInv'
<1> SUFFICES ASSUME Firm, Inv, VerdictInv, [Next]_vars, deletes' = 0 PROVE VerdictInv'
  BY DEF VerdictInv
<1>0. TypeOK /\ OpenShiftInv /\ (Platform = "rancher" => Primary \in Proms)
  BY DEF Inv, Firm
<1>1. Alive
  <2>1. deletes = 0
    BY <1>0, Counted
  <2>2. QED
    BY <2>1 DEF VerdictInv
<1>2. /\ deletes = 0 /\ Alive'
      /\ \A p \in Proms : prom[p].exists => prom'[p].exists
  BY <1>0, <1>1, NothingDeleted
<1>3. /\ mode \in {"unknown", Verdict}
      /\ Platform = "rancher" => prom[Primary].exists
  BY <1>2 DEF VerdictInv
<1>4. ASSUME mode = "unknown" PROVE Detected \in {"unknown", Verdict}
  <2>1. CASE Platform = "openshift"
    BY <1>4, <2>1 DEF Detected, Verdict
  <2>2. CASE Platform = "rancher"
    <3>1. Primary \in Existing
      BY <1>0, <1>3, <2>2 DEF Existing
    <3>2. QED
      BY <1>4, <2>2, <3>1 DEF Detected, Verdict
  <2>3. CASE Platform = "plain" /\ Existing # {}
    <3>1. PICK p \in Proms : Existing = {p}
      BY <2>3 DEF Firm, Alone, Existing
    <3>2. Cardinality(Existing) = 1
      BY <3>1, FS_Singleton
    <3>3. QED
      BY <1>4, <2>3, <3>2 DEF Detected, Verdict
  <2>4. CASE Existing = {}
    BY <1>4, <2>4 DEF Detected
  <2>5. QED
    BY <2>1, <2>2, <2>3, <2>4, PrometheusAssumption
<1>5. mode' \in {"unknown", Verdict}
  <2>1. mode' \in {"unknown", mode, Detected}
    <3>1. ASSUME NEW p \in Proms, Start(p) PROVE mode' \in {mode, Detected}
      BY <3>1 DEF Start
    <3>2. QED
      BY <3>1
         DEF Next, User, Collector, Step, CreateProm, DeleteProm, DropBinding, CollectGarbage,
             Removed, DropService, Deliver, ChangeState, RotateToken, Resync, Restart, Detect,
             EnsureLabels, AddFinalizer, EnsureAccess, CreatePreset, Register, Bind, Authorize, Stamp,
             CleanupPreset, Unregister, RemoveFinalizer, HubFault, ApiFault, vars
  <2>2. mode # "unknown" => Detected = mode
    BY DEF Detected
  <2>3. QED
    BY <1>3, <1>4, <2>1, <2>2
<1>6. QED
  BY <1>0, <1>2, <1>3, <1>5 DEF VerdictInv

\* On a Rancher cluster that has its own Prometheus from the start the detector
\* does not decide otherwise before one is deleted.
THEOREM OneDefaultOnRancher ==
  Platform = "rancher" /\ First \in Proms /\ First = Primary
     => (Spec => [](deletes = 0 => OneDefault))
<1> SUFFICES ASSUME Platform = "rancher", First \in Proms, First = Primary
             PROVE  Spec => [](deletes = 0 => OneDefault)
  OBVIOUS
<1>0. Firm /\ LegacyIsPrimary /\ Verdict = "federated"
  BY DEF Firm, LegacyIsPrimary, Verdict
<1>1. Init => VerdictInv /\ BindingInv
  BY <1>0, InitVerdict, InitBinding
<1>2. Inv /\ VerdictInv /\ [Next]_vars => VerdictInv'
  BY <1>0, NextVerdict
<1>3. Inv /\ VerdictInv /\ (deletes = 0 => BindingInv) /\ [Next]_vars => (deletes = 0 => BindingInv)'
  <2> SUFFICES ASSUME Inv, VerdictInv, deletes = 0 => BindingInv, [Next]_vars, deletes' = 0
               PROVE  BindingInv'
    OBVIOUS
  <2>1. deletes = 0
    BY Counted DEF Inv
  <2>2. mode # "singleton"
    BY <1>0, <2>1 DEF VerdictInv
  <2>3. QED
    BY <2>1, <2>2, NextBinding DEF Inv
<1>4. Inv /\ (deletes = 0 => BindingInv) => (deletes = 0 => OneDefault)
  BY BindingIsOne DEF Inv
<1>5. QED
  BY <1>1, <1>2, <1>3, <1>4, PrometheusInvariant, PTL DEF Spec

-----------------------------------------------------------------------------

\* What the rest assumes of m: it is a verdict of the detector and keeps the
\* Prometheus objects apart.
Calm(m) == m \in Modes \ {"unknown"} /\ Apart(m) /\ LegacyNs = {}

\* Under the verdict m the operators of Reconcile are those of the verdict.
LEMMA VerdictOperators ==
  ASSUME NEW m, mode = m
  PROVE  /\ \A p : IsDefault(p) <=> DefaultIn(m, p)
         /\ \A p : ProjectKnown(p) <=> KnownIn(m, p)
         /\ \A p : ContextOf(p) = ContextIn(m, p)
BY DEF IsDefault, DefaultIn, ProjectKnown, KnownIn, ContextOf, ContextIn

\* The cache only takes over what is there.
LEMMA CacheSteps ==
  ASSUME TypeOK, [Next]_vars, NEW p \in Proms
  PROVE  cached'[p] = cached[p] \/ (cached'[p] = prom[p] /\ prom' = prom)
<1>1. ASSUME NEW q \in Proms, Deliver(q) PROVE cached'[p] \in {cached[p], prom[p]} /\ prom' = prom
  BY <1>1 DEF Deliver, TypeOK
<1>2. CASE Restart
  BY <1>2 DEF Restart
<1>3. CASE UNCHANGED cached
  BY <1>3
<1>4. QED
  BY <1>1, <1>2, <1>3
     DEF Next, User, Collector, Step, CreateProm, DeleteProm, DropBinding, CollectGarbage,
         Removed, DropService, ChangeState, RotateToken, Resync, Detect, Start,
         EnsureLabels, AddFinalizer, EnsureAccess, CreatePreset, Register, Bind, Authorize, Stamp,
         CleanupPreset, Unregister, RemoveFinalizer, HubFault, ApiFault, vars

\* Nothing is torn down: where a worker that reconciles goes.
LEMMA WorkerSteps ==
  ASSUME TypeOK, [Next]_vars, pc # "idle" => pc \in Activating /\ pc # "restamp"
  PROVE  \/ pc' = "idle"
         \/ \E p \in Proms : Start(p) /\ Handles(p)
         \/ UNCHANGED <<pc, key, local, chosen, marker, backend>>
         \/ /\ pc = "label" /\ pc' = "finalize" /\ UNCHANGED <<key, chosen, marker, backend>>
            /\ local' = local \/ (local' = prom'[key] /\ prom[key].exists)
         \/ /\ AddFinalizer /\ pc' = "access" /\ UNCHANGED <<key, chosen, marker, backend>>
            /\ local' = prom'[key]
         \/ EnsureAccess
         \/ /\ pc = "preset" /\ UNCHANGED <<key, local, chosen, marker, backend, hub, appBinding>>
            /\ pc' = "restamp" \/ (pc' = "register" /\ Outdated /\ ProjectKnown(key))
         \/ Register
         \/ Bind
         \/ pc = "auth" /\ Advance(TRUE) /\ UNCHANGED <<hub, appBinding>>
<1>1. ASSUME NEW p \in Proms, Start(p)
      PROVE  pc' = "idle" \/ Handles(p)
  BY <1>1 DEF Start, workerVars
<1>2. CASE EnsureLabels \/ AddFinalizer \/ Stamp
  BY <1>2 DEF EnsureLabels, AddFinalizer, Stamp, Return
<1>3. CASE CreatePreset
  BY <1>3 DEF CreatePreset, Return, Goto, bindVars
<1>4. CASE Authorize
  BY <1>4 DEF Authorize
<1>5. CASE CleanupPreset \/ Unregister \/ RemoveFinalizer
  BY <1>5 DEF CleanupPreset, Unregister, RemoveFinalizer, Activating
<1>6. CASE HubFault \/ Restart
  BY <1>6 DEF HubFault, Restart, Return
<1>7. CASE ApiFault
  <2>1. CASE Return(TRUE)
    BY <2>1 DEF Return
  <2>2. CASE pc = "label" /\ Goto("finalize")
    BY <2>2 DEF Goto
  <2>3. CASE pc = "auth" /\ Advance(TRUE)
    BY <1>7, <2>3 DEF ApiFault, bindVars
  <2>4. QED
    BY <1>7, <2>1, <2>2, <2>3 DEF ApiFault
<1>8. CASE UNCHANGED workerVars
  BY <1>8 DEF workerVars
<1>9. QED
  BY <1>1, <1>2, <1>3, <1>4, <1>5, <1>6, <1>7, <1>8
     DEF Next, User, Collector, Step, CreateProm, DeleteProm, DropBinding, CollectGarbage,
         Removed, DropService, Deliver, ChangeState, RotateToken, Resync, Detect, workerVars, vars

\* A detector that decides decides m.
LEMMA Decided ==
  ASSUME [Next]_vars, NEW m, mode' \in {"unknown", m}
  PROVE  /\ \A p \in Proms : Start(p) /\ Handles(p) =>
               /\ mode' = m /\ key' = p /\ local' = cached[p] /\ pc' = FirstStep(cached[p])
               /\ cached[p].exists
         /\ pc' # "idle" => mode' = mode \/ \E p \in Proms : Start(p) /\ Handles(p)
<1>1. ASSUME NEW p \in Proms, Start(p), Handles(p)
      PROVE  /\ mode' = m /\ key' = p /\ local' = cached[p] /\ pc' = FirstStep(cached[p])
             /\ cached[p].exists
  BY <1>1 DEF Start, Handles
<1>2. ASSUME pc' # "idle" PROVE mode' = mode \/ \E p \in Proms : Start(p) /\ Handles(p)
  <2>1. ASSUME NEW p \in Proms, Start(p) PROVE Handles(p)
    BY <1>2, <2>1 DEF Start, workerVars
  <2>2. ~Restart /\ ~Detect
    BY <1>2 DEF Restart, Detect, workerVars
  <2>3. QED
    BY <2>1, <2>2
       DEF Next, User, Collector, Step, CreateProm, DeleteProm, DropBinding, CollectGarbage,
           Removed, DropService, Deliver, ChangeState, RotateToken, Resync, EnsureLabels,
           AddFinalizer, EnsureAccess, CreatePreset, Register, Bind, Authorize, Stamp,
           CleanupPreset, Unregister, RemoveFinalizer, HubFault, ApiFault, vars
<1>3. QED
  BY <1>1, <1>2

\* Objects, cache and worker speak of the same Prometheus, and its AppBindings
\* are its own.
LEMMA NextObjects ==
  ASSUME NEW m, Calm(m), Inv, SettlingInv(m), [Next]_vars, deletes' = 0, mode' \in {"unknown", m}
  PROVE  /\ ObjectsInv(m)'
         /\ \A p \in Proms : prom[p].exists => prom'[p].exists /\ prom'[p].uid = prom[p].uid
<1>0. /\ TypeOK /\ ObjectsInv(m) /\ Alive
      /\ (pc # "idle" => key \in Proms /\ pc \in Activating /\ pc # "restamp")
  BY DEF SettlingInv, ObjectsInv, Alive, Inv, MarkerInv, LegacyInv, Calm, TypeOK
<1>1. /\ Alive'
      /\ \A p \in Proms : prom[p].exists => prom'[p].exists /\ prom'[p].uid = prom[p].uid
  BY <1>0, NothingDeleted
<1>2. ASSUME NEW p \in Proms
      PROVE  /\ cached'[p].exists => prom'[p].exists /\ cached'[p].uid = prom'[p].uid
             /\ ~prom'[p].deleting /\ ~cached'[p].deleting
             /\ cached[p].exists => cached'[p].exists
  <2>1. cached'[p] = cached[p] \/ (cached'[p] = prom[p] /\ prom' = prom)
    BY <1>0, CacheSteps
  <2>2. (cached[p].exists => prom[p].exists /\ cached[p].uid = prom[p].uid)
        /\ ~cached[p].deleting /\ ~prom[p].deleting
    BY <1>0 DEF ObjectsInv
  <2>3. QED
    BY <1>1, <2>1, <2>2 DEF Alive
<1>3. ASSUME pc' # "idle"
      PROVE  /\ mode' = m /\ pc' \in Activating
             /\ cached'[key'].exists /\ local'.uid = prom'[key'].uid
  <2>0. pc # "idle" => /\ mode = m /\ cached[key].exists /\ local.uid = prom[key].uid
                       /\ prom[key].exists /\ key \in Proms
    BY <1>0 DEF ObjectsInv
  <2>1. ASSUME NEW p \in Proms, Start(p), Handles(p)
        PROVE  /\ mode' = m /\ pc' \in Activating
               /\ cached'[key'].exists /\ local'.uid = prom'[key'].uid
    <3>1. /\ mode' = m /\ key' = p /\ local' = cached[p] /\ pc' = FirstStep(cached[p])
          /\ cached[p].exists
      BY <2>1, Decided
    <3>2. ~cached[p].deleting /\ cached[p].uid = prom[p].uid /\ prom[p].exists
      BY <1>0, <3>1 DEF ObjectsInv
    <3>3. pc' \in Activating
      BY <3>1, <3>2 DEF FirstStep, Activating
    <3>4. QED
      BY <1>1, <1>2, <3>1, <3>2, <3>3
  <2>2. CASE ~\E p \in Proms : Start(p) /\ Handles(p)
    <3>1. mode' = mode
      BY <1>3, <2>2, Decided
    <3>2. /\ pc # "idle" /\ key' = key /\ pc' \in Activating
          /\ local' = local \/ local' = prom'[key]
      <4>1. CASE UNCHANGED <<pc, key, local, chosen, marker, backend>>
        BY <1>0, <1>3, <4>1
      <4>2. CASE /\ pc = "label" /\ pc' = "finalize" /\ UNCHANGED <<key, chosen, marker, backend>>
                 /\ local' = local \/ (local' = prom'[key] /\ prom[key].exists)
        BY <4>2 DEF Activating
      <4>3. CASE /\ AddFinalizer /\ pc' = "access" /\ UNCHANGED <<key, chosen, marker, backend>>
                 /\ local' = prom'[key]
        BY <4>3 DEF AddFinalizer, Activating
      <4>4. CASE EnsureAccess \/ Bind
        BY <4>4 DEF EnsureAccess, Bind, Goto, Activating
      <4>5. CASE /\ pc = "preset" /\ UNCHANGED <<key, local, chosen, marker, backend, hub, appBinding>>
                 /\ pc' = "restamp" \/ (pc' = "register" /\ Outdated /\ ProjectKnown(key))
        BY <4>5 DEF Activating
      <4>6. CASE Register
        BY <4>6 DEF Register, Advance, AfterBackend, Activating
      <4>7. CASE pc = "auth" /\ Advance(TRUE) /\ UNCHANGED <<hub, appBinding>>
        BY <4>7 DEF Advance, AfterBackend, Activating
      <4>8. QED
        BY <1>0, <1>3, <2>2, <4>1, <4>2, <4>3, <4>4, <4>5, <4>6, <4>7, WorkerSteps
    <3>3. QED
      BY <1>1, <1>2, <2>0, <3>1, <3>2
  <2>3. QED
    BY <2>1, <2>2
<1>4. ASSUME NEW p \in Proms, NEW k \in Kinds, appBinding'[Ns[p]][k] # 0
      PROVE  prom'[p].exists /\ appBinding'[Ns[p]][k] = prom'[p].uid
  <2>1. Ns[p] \in Namespaces
    BY DEF Namespaces
  <2>2. CASE appBinding'[Ns[p]][k] \in {appBinding[Ns[p]][k], 0}
    BY <1>0, <1>1, <1>4, <2>2 DEF ObjectsInv
  <2>3. CASE pc = "bind" /\ Ns[p] = Ns[key] /\ appBinding'[Ns[p]][k] = local.uid
    <3>1. p = key
      BY <1>0, <2>3 DEF Calm, Apart
    <3>2. prom[key].exists /\ local.uid = prom[key].uid
      BY <1>0, <2>3 DEF ObjectsInv
    <3>3. QED
      BY <1>0, <1>1, <2>3, <3>1, <3>2
  <2>4. QED
    BY <1>0, <2>1, <2>2, <2>3, BindingValues
<1>5. QED
  BY <1>1, <1>2, <1>3, <1>4 DEF ObjectsInv

\* State and token grow, one at a time, and a token that is not configured stays
\* so; only the worker writes a marker.
LEMMA DataSteps ==
  ASSUME TypeOK, [Next]_vars, drops' = 0
  PROVE  /\ \/ UNCHANGED <<state, token>>
            \/ ChangeState /\ state' = state + 1 /\ token' = token
            \/ RotateToken /\ state' = state /\ token' = token + 1 /\ token # 0
         /\ roleBinding' = roleBinding \/ Stamp
         /\ \A n \in Namespaces, k \in Kinds : ~DropBinding(n, k)
<1>1. drops = 0
  BY Counted
<1>2. (\A n \in Namespaces, k \in Kinds : ~DropBinding(n, k)) /\ \A n \in Namespaces : ~DropService(n)
  <2>1. ASSUME NEW n \in Namespaces, NEW k \in Kinds, DropBinding(n, k) PROVE FALSE
    BY <1>1, <2>1 DEF DropBinding
  <2>2. ASSUME NEW n \in Namespaces, DropService(n) PROVE FALSE
    BY <1>1, <2>2 DEF DropService
  <2>3. QED
    BY <2>1, <2>2
<1>3. \/ UNCHANGED <<state, token>>
      \/ ChangeState /\ state' = state + 1 /\ token' = token
      \/ RotateToken /\ state' = state /\ token' = token + 1 /\ token # 0
  BY DEF Next, User, Collector, Step, CreateProm, DeleteProm, DropBinding, CollectGarbage,
         Removed, DropService, Deliver, ChangeState, RotateToken, Resync, Restart, Detect, Start,
         EnsureLabels, AddFinalizer, EnsureAccess, CreatePreset, Register, Bind, Authorize, Stamp,
         CleanupPreset, Unregister, RemoveFinalizer, HubFault, ApiFault, inputVars, vars
<1>4. roleBinding' = roleBinding \/ Stamp
  BY <1>2
     DEF Next, User, Collector, Step, CreateProm, DeleteProm, DropBinding, CollectGarbage,
         Removed, Deliver, ChangeState, RotateToken, Resync, Restart, Detect, Start,
         EnsureLabels, AddFinalizer, EnsureAccess, CreatePreset, Register, Bind, Authorize,
         CleanupPreset, Unregister, RemoveFinalizer, HubFault, ApiFault, vars
<1>5. QED
  BY <1>2, <1>3, <1>4

\* States and tokens are numbers.
LEMMA Numbers ==
  ASSUME Inv, LegacyNs = {}
  PROVE  /\ state \in Nat /\ token \in Nat /\ chosen.state \in Nat /\ chosen.token \in Nat
         /\ \A p \in Proms : roleBinding[Ns[p]].state \in Nat /\ roleBinding[Ns[p]].token \in Nat
         /\ pc # "restamp"
<1>1. TypeOK /\ LegacyInv
  BY DEF Inv, MarkerInv
<1>2. States \subseteq Nat /\ Tokens \subseteq Nat
  BY PrometheusAssumption DEF States, Tokens
<1>3. state \in Nat /\ token \in Nat /\ chosen.state \in Nat /\ chosen.token \in Nat
  BY <1>1, <1>2 DEF TypeOK
<1>4. ASSUME NEW p \in Proms PROVE roleBinding[Ns[p]].state \in Nat /\ roleBinding[Ns[p]].token \in Nat
  <2>1. Ns[p] \in Namespaces
    BY DEF Namespaces
  <2>2. roleBinding[Ns[p]] \in Markers /\ roleBinding[Ns[p]].state # Legacy
    BY <1>1, <2>1 DEF TypeOK, LegacyInv
  <2>3. QED
    BY <1>2, <2>2 DEF Markers
<1>5. QED
  BY <1>1, <1>3, <1>4 DEF LegacyInv

\* How the worker comes to register: it reads the marker and chooses, and goes on
\* when the marker is outdated.
LEMMA ChoosingSteps ==
  ASSUME TypeOK, [Next]_vars, pc # "idle" => pc \in Activating /\ pc # "restamp", pc' # "idle",
         \A p \in Proms : Start(p) /\ Handles(p) => pc' \notin Choosing \cup {"restamp"}
  PROVE  \/ pc' \notin Choosing
         \/ EnsureAccess /\ pc' \notin Registering
         \/ /\ pc \in Choosing /\ UNCHANGED <<key, chosen, marker>>
            /\ pc' \in Registering => pc \in Registering \/ Outdated
<1>1. CASE UNCHANGED <<pc, key, local, chosen, marker, backend>>
  BY <1>1
<1>2. CASE /\ pc = "label" /\ pc' = "finalize" /\ UNCHANGED <<key, chosen, marker, backend>>
           /\ local' = local \/ (local' = prom'[key] /\ prom[key].exists)
  BY <1>2 DEF Choosing, Registering
<1>3. CASE /\ AddFinalizer /\ pc' = "access" /\ UNCHANGED <<key, chosen, marker, backend>>
           /\ local' = prom'[key]
  BY <1>3 DEF Choosing, Registering
<1>4. CASE EnsureAccess
  BY <1>4 DEF EnsureAccess, Registering
<1>5. CASE /\ pc = "preset" /\ UNCHANGED <<key, local, chosen, marker, backend, hub, appBinding>>
           /\ pc' = "restamp" \/ (pc' = "register" /\ Outdated /\ ProjectKnown(key))
  BY <1>5 DEF Choosing, Registering
<1>6. CASE Register
  BY <1>6 DEF Register, Advance, Choosing, Registering
<1>7. CASE Bind
  BY <1>7 DEF Bind, Goto, Choosing, Registering
<1>8. CASE pc = "auth" /\ Advance(TRUE) /\ UNCHANGED <<hub, appBinding>>
  BY <1>8 DEF Advance, Choosing, Registering
<1>9. QED
  BY <1>1, <1>2, <1>3, <1>4, <1>5, <1>6, <1>7, <1>8, WorkerSteps

\* What the worker has chosen is not newer than the cluster's state and token,
\* and it registers only over a marker that is of another one.
LEMMA NextChoice ==
  ASSUME NEW m, Calm(m), Inv, SettlingInv(m), [Next]_vars, drops' = 0, mode' \in {"unknown", m}
  PROVE  ChoiceInv'
<1>0. TypeOK /\ ObjectsInv(m) /\ ChoiceInv /\ LegacyNs = {}
  BY DEF SettlingInv, Inv, Calm
<1>1. /\ state \in Nat /\ token \in Nat /\ chosen.state \in Nat /\ chosen.token \in Nat
      /\ \A p \in Proms : roleBinding[Ns[p]].state \in Nat /\ roleBinding[Ns[p]].token \in Nat
      /\ pc # "restamp"
  BY <1>0, Numbers
<1>2. /\ state' = state \/ state' = state + 1
      /\ token' = token \/ (token' = token + 1 /\ token # 0)
      /\ state' \in Nat /\ token' \in Nat /\ state <= state' /\ token <= token' /\ state' # 0
  <2>1. /\ state' = state \/ state' = state + 1
        /\ token' = token \/ (token' = token + 1 /\ token # 0)
    BY <1>0, DataSteps
  <2>2. state # 0
    BY <1>0 DEF ChoiceInv
  <2>3. QED
    BY <1>1, <2>1, <2>2
<1>3. ASSUME NEW p \in Proms
      PROVE  roleBinding'[Ns[p]].state <= state' /\ roleBinding'[Ns[p]].token <= token'
  <2>1. roleBinding[Ns[p]].state <= state /\ roleBinding[Ns[p]].token <= token
    BY <1>0 DEF ChoiceInv
  <2>2. CASE roleBinding' = roleBinding
    <3>1. PICK s \in Nat, t \in Nat : s = roleBinding[Ns[p]].state /\ t = roleBinding[Ns[p]].token
      BY <1>1
    <3>2. PICK x \in Nat, y \in Nat : x = state /\ y = token
      BY <1>1
    <3>3. PICK v \in Nat, w \in Nat : v = state' /\ w = token'
      BY <1>2
    <3>4. s <= v /\ t <= w
      BY <1>2, <2>1, <3>1, <3>2, <3>3
    <3>5. QED
      BY <2>2, <3>1, <3>3, <3>4
  <2>3. CASE Stamp
    <3>1. chosen.state <= state /\ chosen.token <= token /\ UNCHANGED <<state, token>>
      BY <1>0, <1>1, <2>3 DEF Stamp, ChoiceInv, Choosing, Registering, inputVars
    <3>2. roleBinding' = [roleBinding EXCEPT ![Ns[key]] = chosen]
      BY <2>3 DEF Stamp, Mark
    <3>3. Ns[p] \in Namespaces
      BY DEF Namespaces
    <3>4. roleBinding'[Ns[p]] \in {roleBinding[Ns[p]], chosen}
      BY <1>0, <3>2, <3>3 DEF TypeOK
    <3>5. QED
      BY <2>1, <3>1, <3>4
  <2>4. QED
    BY <1>0, <2>2, <2>3, DataSteps
<1>4. CASE pc' \notin Choosing
  BY <1>2, <1>3, <1>4 DEF ChoiceInv, Choosing
<1>5. CASE EnsureAccess /\ pc' \notin Registering
  <2>1. /\ chosen' = [state |-> state, token |-> token] /\ UNCHANGED <<state, token, roleBinding>>
        /\ marker' = roleBinding[Ns[key]] /\ key' = key
    BY <1>5 DEF EnsureAccess, inputVars
  <2>2. /\ chosen'.state = state' /\ chosen'.token = token' /\ marker' = roleBinding'[Ns[key']]
    BY <2>1
  <2>3. chosen'.state <= state' /\ chosen'.token <= token'
    BY <1>2, <2>2
  <2>4. marker'.state <= chosen'.state /\ marker'.token <= chosen'.token
    <3>1. key \in Proms
      BY <1>0, <1>5 DEF EnsureAccess, TypeOK
    <3>2. roleBinding[Ns[key]].state <= state /\ roleBinding[Ns[key]].token <= token
      BY <1>0, <3>1 DEF ChoiceInv
    <3>3. QED
      BY <2>1, <3>2
  <2>5. QED
    BY <1>2, <1>3, <1>5, <2>2, <2>3, <2>4 DEF ChoiceInv
<1>6. CASE /\ pc \in Choosing /\ pc' \in Choosing /\ UNCHANGED <<key, chosen, marker>>
           /\ pc' \in Registering => pc \in Registering \/ Outdated
  <2>1. /\ chosen.state # 0 /\ chosen.state <= state
        /\ chosen.token <= token
        /\ marker = roleBinding[Ns[key]]
        /\ marker.state <= chosen.state /\ marker.token <= chosen.token
    BY <1>0, <1>6 DEF ChoiceInv
  <2>2. ~Stamp
    BY <1>6 DEF Stamp, Return, Choosing, Registering
  <2>3. roleBinding' = roleBinding
    BY <1>0, <2>2, DataSteps
  <2>4. chosen.state <= state' /\ chosen.token <= token'
    <3>1. PICK x \in Nat, y \in Nat : x = state /\ y = token
      BY <1>1
    <3>2. PICK v \in Nat, w \in Nat : v = state' /\ w = token'
      BY <1>2
    <3>3. PICK s \in Nat, t \in Nat : s = chosen.state /\ t = chosen.token
      BY <1>1
    <3>4. s <= v /\ t <= w
      BY <1>2, <2>1, <3>1, <3>2, <3>3
    <3>5. QED
      BY <3>2, <3>3, <3>4
  <2>5. pc' \in Registering => Outdated'
    BY <1>0, <1>6 DEF ChoiceInv, Outdated
  <2>6. QED
    BY <1>2, <1>3, <1>6, <2>1, <2>3, <2>4, <2>5 DEF ChoiceInv
<1>7. pc' = "idle" => pc' \notin Choosing
  BY DEF Choosing, Registering
<1>8. ASSUME NEW p \in Proms, Start(p), Handles(p) PROVE pc' \notin Choosing \cup {"restamp"}
  <2>1. pc' = FirstStep(cached[p])
    BY <1>8, Decided
  <2>2. QED
    BY <2>1 DEF FirstStep, Choosing, Registering
<1>9. pc # "idle" => pc \in Activating
  BY <1>0 DEF ObjectsInv
<1>10. QED
  BY <1>0, <1>1, <1>4, <1>5, <1>6, <1>7, <1>8, <1>9, ChoosingSteps


\* While nothing is dropped and no object goes an AppBinding stays.
LEMMA BindingsStay ==
  ASSUME NEW m, Calm(m), Inv, SettlingInv(m), [Next]_vars, drops' = 0,
         NEW p \in Proms, NEW k \in Kinds, appBinding[Ns[p]][k] # 0
  PROVE  appBinding'[Ns[p]][k] # 0
<1>0. /\ TypeOK /\ ObjectsInv(m) /\ UidInv /\ Ns[p] \in Namespaces
      /\ appBinding \in [Namespaces -> [Kinds -> Nat]] /\ backend \in Kinds /\ "prometheus" \in Kinds
      /\ \A n \in Namespaces, j \in Kinds : ~DropBinding(n, j)
  BY DataSteps DEF SettlingInv, Inv, TypeOK, Kinds, Namespaces
<1>1. ASSUME NEW n \in Namespaces, NEW j \in Kinds, CollectGarbage(n, j)
      PROVE  appBinding'[Ns[p]][k] # 0
  <2>1. appBinding' = [appBinding EXCEPT ![n][j] = 0]
    BY <1>1 DEF CollectGarbage, Removed
  <2>2. CASE n = Ns[p] /\ j = k
    BY <1>0, <1>1, <2>2 DEF CollectGarbage, ObjectsInv
  <2>3. CASE n # Ns[p] \/ j # k
    BY <1>0, <2>1, <2>3
  <2>4. QED
    BY <2>2, <2>3
<1>2. CASE Bind
  <2>1. local.uid # 0
    BY <1>0, <1>2 DEF Bind, ObjectsInv, UidInv, TypeOK
  <2>2. appBinding' = [appBinding EXCEPT ![Ns[key]]["prometheus"] = local.uid,
                                         ![Ns[key]][backend] = local.uid]
    BY <1>2 DEF Bind
  <2>3. CASE Ns[key] = Ns[p]
    BY <1>0, <2>1, <2>2, <2>3
  <2>4. CASE Ns[key] # Ns[p]
    BY <1>0, <2>2, <2>4
  <2>5. QED
    BY <2>3, <2>4
<1>3. CASE UNCHANGED appBinding
  BY <1>3
<1>4. QED
  BY <1>0, <1>1, <1>2, <1>3
     DEF Next, User, Collector, Step, CreateProm, DeleteProm, DropService, Deliver, ChangeState,
         RotateToken, Resync, Restart, Detect, Start, EnsureLabels, AddFinalizer, EnsureAccess,
         CreatePreset, Register, Authorize, Stamp, CleanupPreset, Unregister, RemoveFinalizer,
         HubFault, ApiFault, bindVars, vars

\* A default Prometheus has the AppBindings of the backends behind the worker.
LEMMA NextBound ==
  ASSUME NEW m, Calm(m), Inv, SettlingInv(m), [Next]_vars, drops' = 0
  PROVE  BoundInv(m)'
<1> SUFFICES ASSUME DefaultIn(m, key'),
                    pc' \in {"auth", "stamp"} \/ (pc' \in Registering /\ backend' = "perses")
             PROVE  /\ appBinding'[Ns[key']]["prometheus"] # 0
                    /\ appBinding'[Ns[key']]["grafana"] # 0
                    /\ pc' \in {"auth", "stamp"} => appBinding'[Ns[key']][backend'] # 0
  BY DEF BoundInv, DefaultIn
<1>0. /\ TypeOK /\ ObjectsInv(m) /\ BoundInv(m) /\ RegisteringInv
      /\ (pc # "idle" => key \in Proms /\ pc \in Activating /\ pc # "restamp" /\ mode = m)
      /\ backend \in Backends
  BY DEF SettlingInv, ObjectsInv, Inv, MarkerInv, LegacyInv, Calm, TypeOK
<1>1. pc' \in Registering
  BY DEF Registering
<1>2. ~\E p \in Proms : Start(p) /\ Handles(p)
  BY <1>1 DEF Start, FirstStep, Registering
<1>3. pc # "idle" => (IsDefault(key) <=> DefaultIn(m, key))
  BY <1>0, VerdictOperators
<1>4. {"prometheus", "grafana", "perses"} \subseteq Kinds /\ Backends = {"grafana", "perses"}
  BY DEF Kinds, Backends
<1>5. CASE UNCHANGED <<pc, key, local, chosen, marker, backend>>
  <2>1. pc # "idle" /\ key \in Proms
    BY <1>0, <1>1, <1>5 DEF Registering
  <2>2. /\ appBinding[Ns[key]]["prometheus"] # 0
        /\ appBinding[Ns[key]]["grafana"] # 0
        /\ pc \in {"auth", "stamp"} => appBinding[Ns[key]][backend] # 0
    BY <1>0, <1>5 DEF BoundInv
  <2>3. QED
    BY <1>0, <1>4, <1>5, <2>1, <2>2, BindingsStay
<1>6. CASE /\ pc = "preset" /\ UNCHANGED <<key, local, chosen, marker, backend, hub, appBinding>>
           /\ pc' = "restamp" \/ (pc' = "register" /\ Outdated /\ ProjectKnown(key))
  BY <1>0, <1>6 DEF RegisteringInv, BeforeBackends, Registering
<1>7. CASE Register
  <2>1. pc = "register" /\ key' = key /\ appBinding' = appBinding
    BY <1>7 DEF Register, Advance, bindVars
  <2>2. pc' = "bind" /\ backend' = backend
    BY <1>3, <1>7, <2>1 DEF Register, Advance, AfterBackend
  <2>3. QED
    BY <1>0, <2>1, <2>2 DEF BoundInv, Registering
<1>8. CASE Bind
  <2>1. /\ pc = "bind" /\ pc' = "auth" /\ UNCHANGED <<key, backend>>
        /\ appBinding' = [appBinding EXCEPT ![Ns[key]]["prometheus"] = local.uid,
                                            ![Ns[key]][backend] = local.uid]
    BY <1>8 DEF Bind, Goto
  <2>2. key \in Proms /\ Ns[key] \in Namespaces /\ local.uid # 0
    BY <1>0, <2>1 DEF ObjectsInv, Inv, UidInv, Namespaces
  <2>3. appBinding'[Ns[key]]["prometheus"] # 0 /\ appBinding'[Ns[key]][backend] # 0
    BY <1>0, <1>4, <2>1, <2>2 DEF TypeOK
  <2>4. backend = "perses" => appBinding'[Ns[key]]["grafana"] # 0
    <3>1. backend = "perses" => appBinding[Ns[key]]["grafana"] # 0
      BY <1>0, <2>1 DEF BoundInv, Registering
    <3>2. QED
      BY <1>4, <2>2, <3>1, BindingsStay
  <2>5. QED
    BY <1>0, <1>4, <2>1, <2>3, <2>4
<1>9. CASE pc = "auth" /\ Advance(TRUE) /\ UNCHANGED <<hub, appBinding>>
  <2>1. key' = key /\ (pc' = "register" \/ (pc' = "stamp" /\ backend' = backend))
    BY <1>9 DEF Advance, AfterBackend
  <2>2. QED
    BY <1>0, <1>9, <2>1 DEF BoundInv
<1>10. QED
  BY <1>0, <1>1, <1>2, <1>5, <1>6, <1>7, <1>8, <1>9, WorkerSteps
     DEF Registering, EnsureAccess

\* The worker registers only whose marker is not fresh.
LEMMA NotFresh ==
  ASSUME Inv, ChoiceInv, LegacyNs = {}, pc \in Registering
  PROVE  ~Fresh(key)
<1>1. /\ state \in Nat /\ token \in Nat /\ chosen.state \in Nat /\ chosen.token \in Nat
      /\ \A p \in Proms : roleBinding[Ns[p]].state \in Nat /\ roleBinding[Ns[p]].token \in Nat
  BY Numbers
<1>2. pc \in Choosing /\ key \in Proms
  BY DEF Inv, TypeOK, Choosing, Registering
<1>3. /\ chosen.state <= state /\ chosen.token <= token
      /\ marker = roleBinding[Ns[key]]
      /\ marker.state <= chosen.state /\ marker.token <= chosen.token
      /\ marker.state # chosen.state \/ (chosen.token # 0 /\ marker.token # chosen.token)
  BY <1>2 DEF ChoiceInv, Outdated
<1>4. PICK s \in Nat, t \in Nat : s = marker.state /\ t = marker.token
  BY <1>1, <1>2, <1>3
<1>5. PICK v \in Nat, w \in Nat : v = chosen.state /\ w = chosen.token
  BY <1>1
<1>6. PICK x \in Nat, y \in Nat : x = state /\ y = token
  BY <1>1
<1>7. ~(s = x /\ (y # 0 => t = y))
  BY <1>3, <1>4, <1>5, <1>6
<1>8. QED
  BY <1>3, <1>4, <1>6, <1>7 DEF Fresh

\* A fresh marker stays true: no state or token to come has been stamped, nobody
\* else registers in that context, and its own worker only where it is not fresh.
LEMMA NextSettled ==
  ASSUME NEW m, Calm(m), Inv, SettlingInv(m), [Next]_vars, drops' = 0,
         NEW p \in Proms, Fresh(p)', KnownIn(m, p)
  PROVE  Settled(m, p)'
<1>0. /\ TypeOK /\ ObjectsInv(m) /\ ChoiceInv /\ BoundInv(m) /\ RegisteringInv /\ LegacyNs = {}
      /\ (pc # "idle" => key \in Proms /\ pc \in Activating /\ pc # "restamp" /\ mode = m)
      /\ Ns[p] \in Namespaces
  BY DEF SettlingInv, ObjectsInv, Inv, MarkerInv, LegacyInv, Calm, TypeOK, Namespaces
<1>1. /\ state \in Nat /\ token \in Nat /\ chosen.state \in Nat /\ chosen.token \in Nat
      /\ roleBinding[Ns[p]].state \in Nat /\ roleBinding[Ns[p]].token \in Nat
  BY <1>0, Numbers
<1>2. pc # "idle" => /\ (IsDefault(key) <=> DefaultIn(m, key)) /\ ContextOf(key) = ContextIn(m, key)
                     /\ (ProjectKnown(key) <=> KnownIn(m, key))
  BY <1>0, VerdictOperators
<1>3. Settled(m, p)' <=>
        /\ \A b \in Backends : hub'[b][ContextIn(m, p)] = [by |-> p, state |-> state', token |-> token']
        /\ DefaultIn(m, p) => \A k \in Kinds : appBinding'[Ns[p]][k] # 0
  BY DEF Settled, ContextIn, DefaultIn
<1>4. CASE Stamp
  <2>1. /\ pc = "stamp" /\ roleBinding' = [roleBinding EXCEPT ![Ns[key]] = chosen]
        /\ UNCHANGED <<hub, appBinding, state, token>>
    BY <1>0, <1>4 DEF Stamp, Mark, bindVars, inputVars
  <2>2. CASE p = key
    <3>1. roleBinding'[Ns[p]] = chosen
      BY <1>0, <2>1, <2>2 DEF TypeOK
    <3>2. chosen.state = state /\ (token # 0 => chosen.token = token)
      BY <2>1, <3>1 DEF Fresh
    <3>3. chosen.token <= token
      BY <1>0, <2>1 DEF ChoiceInv, Choosing, Registering
    <3>4. chosen.token = token
      BY <1>1, <3>2, <3>3
    <3>5. \A b \in Backends : hub[b][ContextOf(key)] = Chosen
      BY <1>0, <2>1 DEF RegisteringInv, Registering, Backends
    <3>6. Chosen = [by |-> p, state |-> state, token |-> token]
      BY <2>2, <3>2, <3>4 DEF Chosen
    <3>7. DefaultIn(m, p) => \A k \in Kinds : appBinding[Ns[p]][k] # 0
      BY <1>0, <2>1, <2>2 DEF BoundInv, RegisteringInv, Registering, Kinds, Backends
    <3>8. QED
      BY <1>2, <1>3, <2>1, <2>2, <3>5, <3>6, <3>7
  <2>3. CASE p # key
    <3>1. Ns[p] # Ns[key]
      BY <1>0, <2>1, <2>3 DEF Calm, Apart
    <3>2. roleBinding'[Ns[p]] = roleBinding[Ns[p]]
      BY <1>0, <2>1, <3>1 DEF TypeOK
    <3>3. Fresh(p)
      BY <2>1, <3>2 DEF Fresh
    <3>4. Settled(m, p)
      BY <3>3 DEF SettlingInv, DueInv
    <3>5. QED
      BY <1>3, <2>1, <3>4 DEF Settled
  <2>4. QED
    BY <2>2, <2>3
<1>5. CASE ~Stamp
  <2>1. roleBinding' = roleBinding
    BY <1>0, <1>5, DataSteps
  <2>2. roleBinding[Ns[p]].state <= state /\ roleBinding[Ns[p]].token <= token
    BY <1>0 DEF ChoiceInv
  <2>3. state' # state + 1
    <3>1. roleBinding[Ns[p]].state = state'
      BY <2>1 DEF Fresh
    <3>2. QED
      BY <1>1, <2>2, <3>1
  <2>4. ~(token # 0 /\ token' = token + 1)
    <3>1. token' # 0 => roleBinding[Ns[p]].token = token'
      BY <2>1 DEF Fresh
    <3>2. QED
      BY <1>1, <2>2, <3>1
  <2>5. UNCHANGED <<state, token>>
    BY <1>0, <2>3, <2>4, DataSteps
  <2>6. Fresh(p)
    BY <2>1, <2>5 DEF Fresh
  <2>7. Settled(m, p)
    BY <2>6 DEF SettlingInv, DueInv
  <2>8. \A b \in Backends : hub'[b][ContextIn(m, p)] = hub[b][ContextIn(m, p)]
    <3>1. CASE hub' = hub
      BY <3>1
    <3>2. CASE pc = "register" /\ hub' = Registered
      <4>1. key # p
        BY <1>0, <2>6, <3>2, NotFresh DEF Registering
      <4>2. KnownIn(m, key)
        BY <1>0, <1>2, <3>2 DEF RegisteringInv, Registering
      <4>3. ContextOf(key) # ContextIn(m, p)
        BY <1>0, <1>2, <3>2, <4>1, <4>2 DEF Calm, Apart, OwnContext
      <4>4. ContextIn(m, p) \in Contexts
        BY DEF KnownIn, ContextIn, Contexts, Projects
      <4>5. QED
        BY <1>0, <3>2, <4>3, <4>4 DEF Registered, TypeOK
    <3>3. pc # "unregister"
      BY <1>0 DEF Activating
    <3>4. QED
      BY <3>1, <3>2, <3>3, HubSteps
  <2>9. DefaultIn(m, p) => \A k \in Kinds : appBinding'[Ns[p]][k] # 0
    BY <2>7, BindingsStay DEF Settled
  <2>10. QED
    BY <1>3, <2>5, <2>7, <2>8, <2>9 DEF Settled
<1>6. QED
  BY <1>4, <1>5

\* How the worker leaves the queue and the cache: it gives a Prometheus up for a
\* retry, or because its marker is stamped or not outdated.
LEMMA LeavingSteps ==
  ASSUME pc \in Activating, pc # "restamp", Step \/ HubFault \/ ApiFault
  PROVE  /\ UNCHANGED <<cached, state, token>>
         /\ \/ pc' # "idle" /\ UNCHANGED <<queue, key>>
            \/ queue' = queue \cup {key}
            \/ queue' = queue /\ pc = "stamp" /\ Stamp
            \/ queue' = queue /\ pc = "preset" /\ ~Outdated /\ UNCHANGED roleBinding
<1>1. CASE EnsureLabels \/ AddFinalizer
  BY <1>1 DEF EnsureLabels, AddFinalizer, Return, inputVars
<1>2. CASE EnsureAccess \/ Bind
  BY <1>2 DEF EnsureAccess, Bind, Goto, inputVars
<1>3. CASE Register \/ Authorize
  BY <1>3 DEF Register, Authorize, Advance, AfterBackend, inputVars
<1>4. CASE Stamp
  BY <1>4 DEF Stamp, Return, inputVars
<1>5. CASE CreatePreset
  BY <1>5 DEF CreatePreset, Return, Goto, inputVars
<1>6. CASE CleanupPreset \/ Unregister \/ RemoveFinalizer
  BY <1>6 DEF CleanupPreset, Unregister, RemoveFinalizer, Activating
<1>7. CASE HubFault
  BY <1>7 DEF HubFault, Return, inputVars
<1>8. CASE ApiFault
  BY <1>8 DEF ApiFault, Return, Goto, Advance, AfterBackend, inputVars
<1>9. QED
  BY <1>1, <1>2, <1>3, <1>4, <1>5, <1>6, <1>7, <1>8 DEF Step

\* Nobody is forgotten: who has no fresh marker is queued or at work.
LEMMA NextQueued ==
  ASSUME NEW m, Calm(m), Inv, SettlingInv(m), [Next]_vars, drops' = 0, mode' \in {"unknown", m},
         NEW p \in Proms, cached'[p].exists, HandledIn(m, p)
  PROVE  p \in queue' \/ AtWork(p)' \/ Fresh(p)'
<1>0. /\ TypeOK /\ ObjectsInv(m) /\ ChoiceInv /\ LegacyNs = {} /\ Ns[p] \in Namespaces
      /\ (pc # "idle" => key \in Proms /\ pc \in Activating /\ pc # "restamp")
  BY DEF SettlingInv, ObjectsInv, Inv, MarkerInv, LegacyInv, Calm, TypeOK, Namespaces
<1>1. cached[p].exists => p \in queue \/ AtWork(p) \/ Fresh(p)
  BY DEF SettlingInv, DueInv
<1>2. ASSUME UNCHANGED <<roleBinding, state, token>>, Fresh(p) PROVE Fresh(p)'
  BY <1>2 DEF Fresh
<1>3. ASSUME UNCHANGED <<pc, key, chosen, state, token>>, AtWork(p) PROVE AtWork(p)'
  BY <1>3 DEF AtWork
<1>4. CASE \/ UNCHANGED <<cached, queue, pc, key, chosen, roleBinding, state, token>>
           \/ Resync \/ Detect
  <2>1. /\ UNCHANGED <<cached, pc, key, chosen, roleBinding, state, token>>
        /\ queue \subseteq queue'
    BY <1>4 DEF Resync, Detect, workerVars, inputVars
  <2>2. QED
    BY <1>1, <1>2, <1>3, <2>1
<1>5. ASSUME NEW q \in Proms, Deliver(q) PROVE p \in queue' \/ AtWork(p)' \/ Fresh(p)'
  <2>1. UNCHANGED <<pc, key, chosen, roleBinding, state, token>> /\ queue' = queue \cup {q}
    BY <1>5 DEF Deliver, workerVars, inputVars
  <2>2. p # q => cached'[p] = cached[p]
    BY <1>0, <1>5 DEF Deliver, TypeOK
  <2>3. QED
    BY <1>1, <1>2, <1>3, <2>1, <2>2
<1>6. CASE Restart \/ ChangeState \/ RotateToken
  BY <1>6 DEF Restart, ChangeState, RotateToken, Listed
<1>7. ASSUME NEW q \in Proms, Start(q) PROVE p \in queue' \/ AtWork(p)' \/ Fresh(p)'
  <2>1. /\ pc = "idle" /\ queue \ {q} \subseteq queue' /\ q \in queue
        /\ cached[q].exists /\ mode = "unknown" /\ Existing = {} => queue' = queue
        /\ mode' = (IF cached[q].exists THEN Detected ELSE mode)
        /\ UNCHANGED <<cached, roleBinding, state, token>>
    BY <1>7 DEF Start, inputVars
  <2>2. ~AtWork(p)
    BY <2>1 DEF AtWork
  <2>3. CASE p # q
    BY <1>1, <1>2, <2>1, <2>2, <2>3
  <2>4. CASE p = q /\ Handles(q)
    <3>1. key' = p /\ pc' = FirstStep(cached[p])
      BY <1>7, <2>4 DEF Start
    <3>2. pc' # "idle" /\ pc' \notin Choosing
      BY <3>1 DEF FirstStep, Choosing, Registering
    <3>3. QED
      BY <3>1, <3>2 DEF AtWork, Choosing, Registering
  <2>5. CASE p = q /\ ~Handles(q)
    <3>1. cached[p].exists /\ Detected \in {"unknown", m}
      BY <2>1, <2>5
    <3>2. ~(Detected = "openshift" /\ p # Primary)
      BY <3>1 DEF HandledIn
    <3>3. CASE Detected = "unknown"
      <4>1. mode = "unknown" /\ (Existing = {} \/ (Platform = "openshift" /\ Primary \notin Existing))
        BY <3>3 DEF Detected
      <4>2. p \in Existing
        BY <1>0, <3>1 DEF ObjectsInv, Existing
      <4>3. QED
        BY <4>1, <4>2 DEF HandledIn
    <3>4. QED
      BY <2>5, <3>1, <3>2, <3>3 DEF Handles
  <2>6. QED
    BY <2>3, <2>4, <2>5
<1>8. CASE pc # "idle" /\ (Step \/ HubFault \/ ApiFault)
  <2>1. /\ UNCHANGED <<cached, state, token>>
        /\ \/ pc' # "idle" /\ UNCHANGED <<queue, key>>
           \/ queue' = queue \cup {key}
           \/ queue' = queue /\ pc = "stamp" /\ Stamp
           \/ queue' = queue /\ pc = "preset" /\ ~Outdated /\ UNCHANGED roleBinding
    BY <1>0, <1>8, LeavingSteps
  <2>2. roleBinding' = roleBinding \/ Stamp
    BY <1>0, DataSteps
  <2>3. Stamp => pc = "stamp" /\ roleBinding' = [roleBinding EXCEPT ![Ns[key]] = chosen]
    BY <1>0, <1>8 DEF Stamp, Mark
  <2>4. CASE p \in queue
    BY <2>1, <2>4
  <2>5. CASE Fresh(p)
    <3>1. CASE Stamp
      <4>1. key # p
        BY <1>0, <2>3, <2>5, <3>1, NotFresh DEF Registering
      <4>2. Ns[p] # Ns[key]
        BY <1>0, <1>8, <4>1 DEF Calm, Apart
      <4>3. roleBinding'[Ns[p]] = roleBinding[Ns[p]]
        BY <1>0, <2>3, <3>1, <4>2 DEF TypeOK
      <4>4. QED
        BY <2>1, <2>5, <4>3 DEF Fresh
    <3>2. QED
      BY <1>2, <2>1, <2>2, <2>5, <3>1
  <2>6. CASE AtWork(p)
    <3>1. p = key /\ (pc \in Choosing => chosen.state = state /\ chosen.token = token)
      BY <2>6 DEF AtWork
    <3>2. CASE pc' # "idle" /\ UNCHANGED <<queue, key>>
      <4>1. pc' \in Choosing => chosen'.state = state' /\ chosen'.token = token'
        <5>1. CASE EnsureAccess
          BY <5>1 DEF EnsureAccess, inputVars
        <5>2. CASE pc \in Choosing /\ UNCHANGED chosen
          BY <2>1, <3>1, <5>2
        <5>3. \A q \in Proms : ~Start(q)
          BY <1>8 DEF Start
        <5>4. QED
          BY <1>0, <3>2, <5>1, <5>2, <5>3, ChoosingSteps
      <4>2. QED
        BY <3>1, <3>2, <4>1 DEF AtWork, Choosing, Registering
    <3>3. CASE queue' = queue \cup {key}
      BY <3>1, <3>3
    <3>4. CASE pc = "stamp" /\ Stamp
      <4>1. roleBinding'[Ns[p]] = chosen
        BY <1>0, <2>3, <3>1, <3>4 DEF TypeOK
      <4>2. QED
        BY <2>1, <3>1, <3>4, <4>1 DEF Fresh, Choosing, Registering
    <3>5. CASE pc = "preset" /\ ~Outdated /\ UNCHANGED roleBinding
      <4>1. /\ chosen.state = state /\ chosen.token = token
            /\ marker = roleBinding[Ns[p]]
        BY <1>0, <3>1, <3>5 DEF ChoiceInv, Choosing
      <4>2. marker.state = state /\ (token # 0 => marker.token = token)
        BY <3>5, <4>1 DEF Outdated
      <4>3. QED
        BY <2>1, <3>5, <4>1, <4>2 DEF Fresh
    <3>6. QED
      BY <2>1, <3>2, <3>3, <3>4, <3>5
  <2>7. QED
    BY <1>1, <2>1, <2>4, <2>5, <2>6
<1>9. \A n \in Namespaces : ~DropService(n)
  <2>1. ASSUME NEW n \in Namespaces, DropService(n) PROVE FALSE
    <3>1. drops = 0 /\ drops' = drops + 1
      BY <1>0, <2>1, Counted DEF DropService
    <3>2. QED
      BY <3>1
  <2>2. QED
    BY <2>1
<1>10. CASE pc = "idle" /\ (Step \/ HubFault \/ ApiFault)
  BY <1>10
     DEF Step, EnsureLabels, AddFinalizer, EnsureAccess, CreatePreset, Register, Bind, Authorize,
         Stamp, CleanupPreset, Unregister, RemoveFinalizer, HubFault, ApiFault
<1>11. CASE User \/ Collector \/ UNCHANGED vars
  <2>1. UNCHANGED <<cached, queue, pc, key, chosen, roleBinding, state, token>>
    BY <1>9, <1>11
       DEF User, Collector, CreateProm, DeleteProm, DropBinding, CollectGarbage, Removed,
           workerVars, inputVars, vars
  <2>2. QED
    BY <1>4, <2>1
<1>12. QED
  BY <1>4, <1>5, <1>6, <1>7, <1>8, <1>10, <1>11 DEF Next

LEMMA NextSettling ==
  ASSUME NEW m, Calm(m), Inv, SettlingInv(m), [Next]_vars, deletes' = 0, drops' = 0,
         mode' \in {"unknown", m}
  PROVE  SettlingInv(m)'
<1>1. ObjectsInv(m)' /\ ChoiceInv' /\ BoundInv(m)'
  BY NextObjects, NextChoice, NextBound
<1>2. ASSUME NEW p \in Proms, Fresh(p)', KnownIn(m, p) PROVE Settled(m, p)'
  BY <1>2, NextSettled
<1>3. ASSUME NEW p \in Proms, cached'[p].exists, HandledIn(m, p)
      PROVE  p \in queue' \/ AtWork(p)' \/ Fresh(p)'
  BY <1>3, NextQueued
<1>4. DueInv(m)'
  BY <1>2, <1>3 DEF DueInv, KnownIn, HandledIn, DefaultIn
<1>5. QED
  BY <1>1, <1>4 DEF SettlingInv

LEMMA InitSettling == ASSUME NEW m, Calm(m), Init PROVE SettlingInv(m)
<1>1. /\ LegacyNs = {} /\ pc = "idle" /\ state = 1 /\ token = FirstToken /\ cached = prom
      /\ queue = {p \in Proms : prom[p].exists} /\ FirstToken \in Nat
  BY PrometheusAssumption DEF Calm, Init
<1>2. ASSUME NEW p \in Proms
      PROVE  /\ roleBinding[Ns[p]] = NoMarker
             /\ \A k \in Kinds : appBinding[Ns[p]][k] = 0
             /\ ~prom[p].deleting
  <2>1. Ns[p] \in Namespaces
    BY DEF Namespaces
  <2>2. ~prom[p].deleting
    BY DEF Init, New, Absent
  <2>3. QED
    BY <1>1, <2>1, <2>2 DEF Init, Old
<1>3. ObjectsInv(m)
  BY <1>1, <1>2 DEF ObjectsInv
<1>4. ChoiceInv
  BY <1>1, <1>2 DEF ChoiceInv, NoMarker, Choosing, Registering
<1>5. BoundInv(m)
  BY <1>1 DEF BoundInv, Registering
<1>6. DueInv(m)
  BY <1>1, <1>2 DEF DueInv, Fresh, NoMarker
<1>7. QED
  BY <1>3, <1>4, <1>5, <1>6 DEF SettlingInv

LEMMA SettlingIsRegistered ==
  ASSUME NEW m, Inv, SettlingInv(m), mode \in {"unknown", m}
  PROVE  SettledIsRegistered
<1> SUFFICES ASSUME Quiet, NEW p \in Proms, Served(p) PROVE IsRegistered(p) /\ HasBindings(p)
  BY DEF SettledIsRegistered
<1>1. mode = m /\ cached[p].exists /\ ProjectKnown(p) /\ (mode = "openshift" => p = Primary)
  BY DEF Quiet, Served
<1>2. /\ (IsDefault(p) <=> DefaultIn(m, p)) /\ KnownIn(m, p)
      /\ ContextOf(p) = ContextIn(m, p)
  BY <1>1, VerdictOperators
<1>3. HandledIn(m, p)
  BY <1>1, <1>2 DEF HandledIn, Inv, OpenShiftInv, Served
<1>4. Fresh(p)
  BY <1>1, <1>3 DEF SettlingInv, DueInv, Quiet, AtWork
<1>5. Settled(m, p)
  BY <1>2, <1>4 DEF SettlingInv, DueInv
<1>6. QED
  BY <1>2, <1>5 DEF Settled, IsRegistered, HasBindings

\* While no object is deleted, no AppBinding and no service dropped, and the
\* detector keeps to one verdict, the operator rests only when every Prometheus
\* it serves is registered with both backends for the present state and token
\* and, as the default one, bound - whatever is created, fails, restarts, or
\* changes while it is being registered.
THEOREM RestIsRegistered ==
  ASSUME NEW m, Calm(m)
  PROVE  Spec /\ [](deletes = 0 /\ drops = 0 => mode \in {"unknown", m})
            => [](deletes = 0 /\ drops = 0 => SettledIsRegistered)
<1> DEFINE J == deletes = 0 /\ drops = 0 => SettlingInv(m)
           K == deletes = 0 /\ drops = 0 => mode \in {"unknown", m}
           S == deletes = 0 /\ drops = 0 => SettledIsRegistered
<1>1. Init => J
  BY InitSettling
<1>2. Inv /\ J /\ K' /\ [Next]_vars => J'
  <2> SUFFICES ASSUME Inv, J, K', [Next]_vars, deletes' = 0, drops' = 0 PROVE SettlingInv(m)'
    OBVIOUS
  <2>1. deletes = 0 /\ drops = 0
    BY Counted DEF Inv
  <2>2. QED
    BY <2>1, NextSettling
<1>3. Inv /\ J /\ K => S
  BY SettlingIsRegistered
<1> HIDE DEF J, K, S
<1>4. Spec /\ []K => []S
  BY <1>1, <1>2, <1>3, PrometheusInvariant, PTL DEF Spec
<1>5. QED
  BY <1>4 DEF K, S

\* Where the platform leaves the detector no choice nothing need be assumed of
\* it.
THEOREM RestIsRegisteredWhereFirm ==
  Firm /\ Apart(Verdict) /\ LegacyNs = {}
     => (Spec => [](deletes = 0 /\ drops = 0 => SettledIsRegistered))
<1> SUFFICES ASSUME Firm, Apart(Verdict), LegacyNs = {}
             PROVE  Spec => [](deletes = 0 /\ drops = 0 => SettledIsRegistered)
  OBVIOUS
<1>1. Calm(Verdict)
  BY DEF Calm, Verdict, Modes
<1>2. Init => VerdictInv
  BY InitVerdict
<1>3. Inv /\ VerdictInv /\ [Next]_vars => VerdictInv'
  BY NextVerdict
<1> DEFINE J == deletes = 0 /\ drops = 0 => SettlingInv(Verdict)
           S == deletes = 0 /\ drops = 0 => SettledIsRegistered
<1>4. Init => J
  BY <1>1, InitSettling
<1>5. Inv /\ J /\ VerdictInv' /\ [Next]_vars => J'
  <2> SUFFICES ASSUME Inv, J, VerdictInv', [Next]_vars, deletes' = 0, drops' = 0
               PROVE  SettlingInv(Verdict)'
    OBVIOUS
  <2>1. deletes = 0 /\ drops = 0
    BY Counted DEF Inv
  <2>2. mode' \in {"unknown", Verdict}
    BY DEF VerdictInv
  <2>3. QED
    BY <1>1, <2>1, <2>2, NextSettling
<1>6. Inv /\ J /\ VerdictInv => S
  BY SettlingIsRegistered DEF VerdictInv
<1> HIDE DEF J, S
<1>7. Spec => []S
  BY <1>2, <1>3, <1>4, <1>5, <1>6, PrometheusInvariant, PTL DEF Spec
<1>8. QED
  BY <1>7 DEF S

-----------------------------------------------------------------------------

\* What the refinement assumes of m: it is a verdict, under which no two
\* Prometheus objects share a context and an old release has registered the
\* default one.
Placing(m) ==
    m \in Modes \ {"unknown"} /\ OwnContext(m) /\ (LegacyNs = {} \/ DefaultIn(m, First))

LEMMA ContextInKnown ==
  ASSUME NEW m, NEW p \in Proms, KnownIn(m, p) PROVE ContextIn(m, p) \in Contexts
BY DEF KnownIn, ContextIn, Contexts, Projects

\* Nobody but p is ever registered in its context.
LEMMA ContextIsOwn ==
  ASSUME NEW m, Placing(m), TypeOK, PlaceInv(m), NEW p \in Proms, KnownIn(m, p), NEW b \in Backends
  PROVE  hub[b][ContextIn(m, p)].by \in {None, p}
<1>1. ContextIn(m, p) \in Contexts
  BY ContextInKnown
<1>2. PICK q : q = hub[b][ContextIn(m, p)].by
  OBVIOUS
<1>3. q \in Proms \cup {None}
  BY <1>1, <1>2 DEF TypeOK, Registration
<1>4. q # None => KnownIn(m, q) /\ ContextIn(m, p) = ContextIn(m, q)
  BY <1>1, <1>2 DEF PlaceInv
<1>5. QED
  BY <1>2, <1>3, <1>4 DEF Placing, OwnContext

LEMMA InitPlace == ASSUME NEW m, Placing(m), Init PROVE PlaceInv(m)
<1>1. pc = "idle"
  BY DEF Init
<1>2. ASSUME NEW b \in Backends, NEW c \in Contexts, NEW p, p = hub[b][c].by, p # None
      PROVE  KnownIn(m, p) /\ c = ContextIn(m, p) /\ Held(prom[p])
  <2>1. hub[b][c] = IF c = "default" /\ LegacyNs # {}
                    THEN [by |-> First, state |-> 1, token |-> FirstToken] ELSE NoRegistration
    BY DEF Init
  <2>2. c = "default" /\ LegacyNs # {} /\ p = First
    BY <1>2, <2>1 DEF NoRegistration
  <2>3. First \in Proms /\ Old(Ns[First])
    BY <2>2, PrometheusAssumption DEF Old
  <2>4. prom[First] = [New(1) EXCEPT !.finalizer = TRUE]
    BY <2>3 DEF Init
  <2>5. Held(prom[First])
    BY <2>4 DEF Held, New, Absent
  <2>6. QED
    BY <2>2, <2>5 DEF Placing, KnownIn, ContextIn
<1>3. QED
  BY <1>1, <1>2 DEF PlaceInv

\* The worker reconciles under the verdict m only.
LEMMA WorkingMode ==
  ASSUME NEW m, [Next]_vars, mode' \in {"unknown", m}, pc # "idle" => mode = m, m # "unknown"
  PROVE  pc' # "idle" => mode' = m
<1>1. ASSUME NEW p \in Proms, Start(p), pc' # "idle" PROVE mode' = m
  <2>1. Handles(p) /\ mode' = Detected
    BY <1>1 DEF Start, Handles, workerVars
  <2>2. QED
    BY <2>1 DEF Handles
<1>2. CASE Restart
  BY <1>2 DEF Restart
<1>3. CASE (mode' = mode \/ pc' = "idle") /\ (pc' # "idle" => pc # "idle")
  BY <1>3
<1>4. QED
  BY <1>1, <1>2, <1>3
     DEF Next, User, Collector, Step, CreateProm, DeleteProm, DropBinding, CollectGarbage,
         Removed, DropService, Deliver, ChangeState, RotateToken, Resync, Detect, EnsureLabels,
         AddFinalizer, EnsureAccess, CreatePreset, Register, Bind, Authorize, Stamp,
         CleanupPreset, Unregister, RemoveFinalizer, HubFault, ApiFault, workerVars, vars

LEMMA NextPlace ==
  ASSUME NEW m, Placing(m), TypeOK, FinalizerInv, RegisteringInv, PlaceInv(m), [Next]_vars,
         mode' \in {"unknown", m}
  PROVE  PlaceInv(m)'
<1>0. /\ pc # "idle" => key \in Proms /\ mode = m
      /\ m # "unknown"
  BY DEF PlaceInv, TypeOK, Placing
<1>1. pc # "idle" => /\ ContextOf(key) = ContextIn(m, key)
                     /\ (ProjectKnown(key) <=> KnownIn(m, key))
  BY <1>0, VerdictOperators
<1>2. backend \in Backends /\ hub \in [Backends -> [Contexts -> Registration]]
  BY DEF TypeOK
<1>3. pc' # "idle" => mode' = m
  BY <1>0, WorkingMode
<1>4. ASSUME NEW b \in Backends, NEW c \in Contexts, NEW p, p = hub'[b][c].by, p # None
      PROVE  KnownIn(m, p) /\ c = ContextIn(m, p) /\ Held(prom'[p])
  <2>1. CASE hub'[b][c] = hub[b][c] /\ (hub' = hub \/ prom' = prom)
    <3>1. KnownIn(m, p) /\ c = ContextIn(m, p) /\ Held(prom[p]) /\ p \in Proms
      BY <1>2, <1>4, <2>1 DEF PlaceInv, Registration
    <3>2. ~(RemoveFinalizer /\ key = p)
      <4>1. hub[b][ContextIn(m, p)].by # None
        BY <1>4, <2>1, <3>1
      <4>2. QED
        BY <4>1 DEF RemoveFinalizer, PlaceInv
    <3>3. QED
      BY <3>1, <3>2, HeldStays
  <2>2. CASE pc = "register" /\ hub' = Registered /\ prom' = prom
    <3>1. KnownIn(m, key) /\ ContextIn(m, key) \in Contexts
      BY <1>0, <1>1, <2>2, ContextInKnown DEF RegisteringInv, Registering
    <3>2. hub'[b][c] = IF b = backend /\ c = ContextIn(m, key) THEN Chosen ELSE hub[b][c]
      BY <1>1, <1>2, <2>2, <3>1 DEF Registered
    <3>3. Held(prom[key]) /\ Chosen.by = key
      BY <2>2 DEF FinalizerInv, Guarded, Chosen
    <3>4. QED
      BY <1>4, <2>1, <2>2, <3>1, <3>2, <3>3
  <2>3. CASE /\ pc = "unregister" /\ prom' = prom
             /\ hub' = [hub EXCEPT ![backend][ContextOf(key)] = NoRegistration]
    <3>1. hub'[b][c] = IF b = backend /\ c = ContextIn(m, key) THEN NoRegistration ELSE hub[b][c]
      BY <1>1, <1>2, <2>3
    <3>2. hub'[b][c] = hub[b][c]
      BY <1>4, <3>1 DEF NoRegistration
    <3>3. QED
      BY <2>1, <2>3, <3>2
  <2>4. QED
    BY <2>1, <2>2, <2>3, HubSteps
<1>5. ASSUME Unregister
      PROVE  /\ key' = key /\ KnownIn(m, key)
             /\ pc' = "unregister" /\ backend' = "perses" => hub'["grafana"][ContextIn(m, key)].by = None
             /\ pc' = "release" => \A b \in Backends : hub'[b][ContextIn(m, key)].by = None
  <2>0. KnownIn(m, key) /\ ContextIn(m, key) \in Contexts
    BY <1>0, <1>5, ContextInKnown DEF Unregister, PlaceInv
  <2>1. /\ pc = "unregister" /\ pc' = AfterUnregister(backend) /\ key' = key
        /\ hub' = [hub EXCEPT ![backend][ContextIn(m, key)] = NoRegistration]
    BY <1>1, <1>5 DEF Unregister
  <2>2. \A b \in Backends : hub'[b][ContextIn(m, key)] =
                               IF b = backend THEN NoRegistration ELSE hub[b][ContextIn(m, key)]
    BY <1>2, <2>0, <2>1
  <2>3. CASE backend = "grafana"
    BY <2>0, <2>1, <2>2, <2>3 DEF AfterUnregister, NoRegistration, Backends
  <2>4. CASE backend = "perses"
    BY <2>0, <2>1, <2>2, <2>4 DEF AfterUnregister, NoRegistration, Backends, PlaceInv
  <2>5. QED
    BY <1>2, <2>3, <2>4 DEF Backends
<1>6. ASSUME pc' \in {"unregister", "release"}
      PROVE  /\ KnownIn(m, key')
             /\ pc' = "unregister" /\ backend' = "perses" => hub'["grafana"][ContextIn(m, key')].by = None
             /\ pc' = "release" => \A b \in Backends : hub'[b][ContextIn(m, key')].by = None
  <2>1. pc = "unpreset" => backend = "grafana"
    BY DEF RegisteringInv, BeforeBackends
  <2>2. CASE UNCHANGED <<pc, key, backend, mode, hub>>
    BY <1>6, <2>2 DEF PlaceInv
  <2>3. CASE /\ pc = "unpreset" /\ pc' = "unregister" /\ ProjectKnown(key)
             /\ UNCHANGED <<key, backend, mode, hub>>
    BY <1>1, <2>1, <2>3
  <2>4. CASE Unregister
    BY <1>5, <2>4
  <2>5. QED
    BY <1>6, <2>2, <2>3, <2>4, EndingSteps
<1>7. \A b \in Backends, c \in Contexts :
         hub'[b][c].by # None => /\ KnownIn(m, hub'[b][c].by) /\ c = ContextIn(m, hub'[b][c].by)
                                 /\ Held(prom'[hub'[b][c].by])
  BY <1>4
<1>8. QED
  BY <1>3, <1>6, <1>7 DEF PlaceInv, KnownIn, ContextIn, DefaultIn

\* A finalizer comes only by AddFinalizer.
LEMMA HeldComes ==
  ASSUME TypeOK, [Next]_vars, NEW p \in Proms, ~Held(prom[p])
  PROVE  ~Held(prom'[p]) \/ (AddFinalizer /\ key = p)
<1>0. prom \in [Proms -> Object] /\ (pc # "idle" => key \in Proms)
  BY DEF TypeOK
<1>1. ASSUME NEW q \in Proms, CreateProm(q) PROVE ~Held(prom'[p])
  <2>1. prom'[p] \in {prom[p], New(uids')}
    BY <1>0, <1>1 DEF CreateProm
  <2>2. ~Held(New(uids'))
    BY DEF Held, New, Absent
  <2>3. QED
    BY <2>1, <2>2
<1>2. ASSUME NEW q \in Proms, DeleteProm(q) PROVE ~Held(prom'[p])
  <2>1. prom'[p] \in {prom[p], [prom[p] EXCEPT !.deleting = TRUE], Absent}
    BY <1>0, <1>2 DEF DeleteProm
  <2>2. ~Held([prom[p] EXCEPT !.deleting = TRUE]) /\ ~Held(Absent)
    BY <1>0 DEF Object, Held, Absent
  <2>3. QED
    BY <2>1, <2>2
<1>3. CASE EnsureLabels
  <2>1. prom'[p] \in {prom[p], [prom[p] EXCEPT !.labelled = TRUE]}
    BY <1>0, <1>3 DEF EnsureLabels
  <2>2. ~Held([prom[p] EXCEPT !.labelled = TRUE])
    BY <1>0 DEF Object, Held
  <2>3. QED
    BY <2>1, <2>2
<1>4. CASE AddFinalizer /\ key # p
  BY <1>0, <1>4 DEF AddFinalizer
<1>5. CASE RemoveFinalizer
  <2>1. CASE p # key
    BY <1>0, <1>5, <2>1 DEF RemoveFinalizer
  <2>2. CASE p = key
    <3>1. PICK o : o = [New(uids') EXCEPT !.labelled = local.labelled]
      OBVIOUS
    <3>2. prom'[p] = prom[p] \/ prom'[p] = WithoutFinalizer(prom[p], cached[p]) \/ prom'[p] = o
      BY <1>0, <1>5, <2>2, <3>1 DEF RemoveFinalizer
    <3>3. ~Held(o)
      BY <3>1 DEF Held, New, Absent
    <3>4. ~Held(WithoutFinalizer(prom[p], cached[p]))
      <4>1. ~Held([prom[p] EXCEPT !.finalizer = FALSE]) /\ ~Held(Absent)
        BY <1>0 DEF Object, Held, Absent
      <4>2. QED
        BY <4>1 DEF WithoutFinalizer
    <3>5. QED
      BY <3>2, <3>3, <3>4
  <2>3. QED
    BY <2>1, <2>2
<1>6. CASE UNCHANGED prom
  BY <1>6
<1>7. QED
  BY <1>1, <1>2, <1>3, <1>4, <1>5, <1>6
     DEF Next, User, Collector, Step, DropBinding, CollectGarbage, Removed, DropService, Deliver,
         ChangeState, RotateToken, Resync, Restart, Detect, Start, EnsureAccess, CreatePreset, Register,
         Bind, Authorize, Stamp, CleanupPreset, Unregister, HubFault, ApiFault, vars

\* A step changes what is held and registered for the Prometheus at hand only.
LEMMA OnlyKey ==
  ASSUME NEW m, Placing(m), TypeOK, RegisteringInv, PlaceInv(m), [Next]_vars,
         NEW p \in Proms, pc = "idle" \/ p # key
  PROVE  Holding'[p] = Holding[p] /\ Outside'[p] = Outside[p]
<1>0. /\ pc # "idle" => key \in Proms /\ mode = m
      /\ backend \in Backends /\ hub \in [Backends -> [Contexts -> Registration]]
      /\ p # None
  BY PrometheusAssumption DEF PlaceInv, TypeOK
<1>1. Held(prom'[p]) <=> Held(prom[p])
  <2>1. ~((AddFinalizer \/ RemoveFinalizer) /\ key = p)
    BY DEF AddFinalizer, RemoveFinalizer
  <2>2. QED
    BY <2>1, HeldStays, HeldComes
<1>2. ASSUME NEW b \in Backends, NEW c \in Contexts PROVE hub'[b][c].by = p <=> hub[b][c].by = p
  <2>1. pc # "idle" => ContextOf(key) = ContextIn(m, key) /\ (ProjectKnown(key) <=> KnownIn(m, key))
    BY <1>0, VerdictOperators
  <2>2. CASE /\ pc \in {"register", "unregister"} /\ p # key
             /\ \/ hub' = Registered
                \/ hub' = [hub EXCEPT ![backend][ContextOf(key)] = NoRegistration]
    <3>1. KnownIn(m, key) /\ ContextIn(m, key) \in Contexts
      BY <1>0, <2>1, <2>2, ContextInKnown DEF RegisteringInv, Registering, PlaceInv
    <3>2. hub[backend][ContextIn(m, key)].by # p
      BY <1>0, <2>2, <3>1, ContextIsOwn
    <3>3. \/ hub'[b][c] = hub[b][c]
          \/ b = backend /\ c = ContextIn(m, key) /\ hub'[b][c] \in {Chosen, NoRegistration}
      BY <1>0, <2>1, <2>2, <3>1 DEF Registered
    <3>4. Chosen.by # p /\ NoRegistration.by # p
      BY <1>0, <2>2 DEF Chosen, NoRegistration
    <3>5. QED
      BY <3>2, <3>3, <3>4
  <2>3. CASE hub' = hub
    BY <2>3
  <2>4. QED
    BY <2>2, <2>3, HubSteps
<1>3. /\ Outside[p] = (\E b \in Backends, c \in Contexts : hub[b][c].by = p)
      /\ Outside'[p] = (\E b \in Backends, c \in Contexts : hub'[b][c].by = p)
      /\ Holding[p] = Held(prom[p]) /\ Holding'[p] = Held(prom'[p])
  BY DEF Outside, Holding
<1>4. Held(prom[p]) \in BOOLEAN /\ Held(prom'[p]) \in BOOLEAN
  BY DEF Held
<1>5. QED
  BY <1>1, <1>2, <1>3, <1>4

LEMMA PlacedIsHeld ==
  ASSUME NEW m, PlaceInv(m), NEW p \in Proms, Outside[p] PROVE Holding[p]
<1>1. PICK b \in Backends, c \in Contexts : hub[b][c].by = p
  BY DEF Outside
<1>2. QED
  BY <1>1, PrometheusAssumption DEF PlaceInv, Holding

LEMMA PlacedInit == ASSUME NEW m, TypeOK, PlaceInv(m) PROVE Contract!ContractInit
<1>1. Holding \in [Proms -> BOOLEAN] /\ Outside \in [Proms -> BOOLEAN]
  BY DEF Holding, Outside, Held, TypeOK, Object
<1>2. QED
  BY <1>1, PlacedIsHeld DEF Contract!ContractInit

\* A step is one of the contract of the Prometheus at hand.
LEMMA PlacedStep ==
  ASSUME NEW m, Placing(m), Inv, Inv', PlaceInv(m), PlaceInv(m)', [Next]_vars
  PROVE  Contract!ContractNext \/ UNCHANGED <<Holding, Outside>>
<1>0. TypeOK /\ TypeOK' /\ RegisteringInv
  BY DEF Inv, MarkerInv
<1>1. \A q \in Proms : (Outside[q] => Holding[q]) /\ (Outside'[q] => Holding'[q])
  <2>1. ASSUME NEW q \in Proms, Outside'[q] PROVE Holding'[q]
    <3>1. PICK b \in Backends, c \in Contexts : hub'[b][c].by = q
      BY <2>1 DEF Outside
    <3>2. Held(prom'[q])
      BY <3>1, PrometheusAssumption DEF PlaceInv
    <3>3. QED
      BY <3>2 DEF Holding
  <2>2. QED
    BY <2>1, PlacedIsHeld
<1>2. CASE pc # "idle"
  <2>1. key \in Proms
    BY <1>0, <1>2 DEF TypeOK
  <2>2. \A q \in Proms \ {key} : Holding'[q] = Holding[q] /\ Outside'[q] = Outside[q]
    BY <1>0, OnlyKey
  <2>3. QED
    BY <1>0, <1>1, <2>1, <2>2, ContractStep
<1>3. CASE pc = "idle"
  <2>1. \A q \in Proms : Holding'[q] = Holding[q] /\ Outside'[q] = Outside[q]
    BY <1>0, <1>3, OnlyKey
  <2>2. /\ Outside \in [Proms -> BOOLEAN] /\ Outside' \in [Proms -> BOOLEAN]
        /\ Holding \in [Proms -> BOOLEAN] /\ Holding' \in [Proms -> BOOLEAN]
    BY <1>0 DEF Outside, Holding, Held, TypeOK, Object
  <2>3. QED
    BY <2>1, <2>2
<1>4. QED
  BY <1>2, <1>3

\* While the detector keeps to one verdict, under which no two Prometheus objects
\* share a context, the finalizer of each guards its registrations: however many
\* there are, whatever is deleted and made anew, and through every fault and
\* restart.
THEOREM PlacedImplementsContract ==
  ASSUME NEW m, Placing(m)
  PROVE  Spec /\ [](mode \in {"unknown", m}) => ImplementsFinalizerContract
<1> DEFINE K == mode \in {"unknown", m}
           J == PlaceInv(m)
<1>1. Init => J
  BY InitPlace
<1>2. Inv /\ J /\ K' /\ [Next]_vars => J'
  BY NextPlace DEF Inv, MarkerInv
<1>3. Inv /\ J => Contract!ContractInit
  BY PlacedInit DEF Inv
<1>4. Inv /\ Inv' /\ J /\ J' /\ [Next]_vars => [Contract!ContractNext]_<<Holding, Outside>>
  BY PlacedStep
<1> HIDE DEF J, K
<1>5. Spec /\ []K => ImplementsFinalizerContract
  BY <1>1, <1>2, <1>3, <1>4, PrometheusInvariant, PTL
     DEF Spec, ImplementsFinalizerContract, Contract!ContractSpec, Contract!contractVars
<1>6. QED
  BY <1>5 DEF K

\* On OpenShift the detector has no other verdict, and only its own Prometheus is
\* ever registered.
THEOREM OpenShiftImplementsContract ==
  Platform = "openshift" /\ OwnContext("openshift") /\ LegacyIsPrimary
     => (Spec => ImplementsFinalizerContract)
<1> SUFFICES ASSUME Platform = "openshift", OwnContext("openshift"), LegacyIsPrimary
             PROVE  Spec => ImplementsFinalizerContract
  OBVIOUS
<1>0. Placing("openshift")
  BY DEF Placing, Modes, LegacyIsPrimary, DefaultIn
<1> DEFINE J == PlaceInv("openshift")
<1>1. Init => J
  BY <1>0, InitPlace
<1>2. Inv /\ Inv' /\ J /\ [Next]_vars => J'
  <2> SUFFICES ASSUME Inv, Inv', J, [Next]_vars PROVE J'
    OBVIOUS
  <2>1. mode' \in {"unknown", "openshift"}
    BY DEF Inv, OpenShiftInv
  <2>2. QED
    BY <1>0, <2>1, NextPlace DEF Inv, MarkerInv
<1>3. Inv /\ J => Contract!ContractInit
  BY <1>0, PlacedInit DEF Inv
<1>4. Inv /\ Inv' /\ J /\ J' /\ [Next]_vars => [Contract!ContractNext]_<<Holding, Outside>>
  BY <1>0, PlacedStep
<1> HIDE DEF J
<1>5. QED
  BY <1>1, <1>2, <1>3, <1>4, PrometheusInvariant, PTL
     DEF Spec, ImplementsFinalizerContract, Contract!ContractSpec, Contract!contractVars

=============================================================================
