------------------------ MODULE ServiceMonitorsProofs ------------------------
(***************************************************************************)
(* Theorems about ServiceMonitors, for every set of monitors and           *)
(* Prometheus objects, every platform and every bound: type correctness;   *)
(* that what a copy owns is never a part of what the garbage collector     *)
(* takes; and that a monitor at rest is scraped, federated ones everywhere *)
(* they should be.                                                         *)
(*                                                                         *)
(* The argument for the last two follows the watches: what an event could  *)
(* still change about a monitor puts it on a queue (AutoStill, FedStill),  *)
(* so off the queues a pass went by what is cached now. What that pass has *)
(* done, or is through with, stays (UnseenStays, CompleteStays), each step *)
(* of the loop adds to it or is remembered as an error (FedWorks), and an  *)
(* error puts the monitor back on the queue.                               *)
(***************************************************************************)
EXTENDS ServiceMonitors, WellFoundedInduction, TLAPS

\* The order of Prometheus objects has a first one.
LEMMA FirstIn ==
  ASSUME NEW S \in SUBSET Proms, S # {}
  PROVE  First(S) \in S
<1> DEFINE T == {Rank[p] : p \in S}
<1>1. T \subseteq Nat /\ T # {}
  BY MonitorsAssumption
<1> DEFINE R == {ss \in Nat \X Nat : ss[1] < ss[2]}
<1>2. PICK n \in T : \A k \in T : ~(<<k, n>> \in R)
  <2>1. IsWellFoundedOn(R, Nat)
    BY NatLessThanWellFounded DEF OpToRel
  <2> HIDE DEF T, R
  <2>2. QED
    BY <1>1, <2>1, WFMin
<1>3. \A k \in T : n <= k
  <2> SUFFICES ASSUME NEW k \in T PROVE n <= k
    OBVIOUS
  <2>1. k \in Nat /\ n \in Nat
    BY <1>1
  <2>2. ~(<<k, n>> \in R)
    BY <1>2
  <2>3. QED
    BY <2>1, <2>2
<1>4. PICK p \in S : \A q \in S : Rank[p] <= Rank[q]
  BY <1>3
<1>5. QED
  BY <1>4 DEF First

\* A worker holding a key is at one of the Prometheus objects of its list.
LEMMA HereIn ==
  ASSUME TypeOK, fed.key # NoKey
  PROVE  /\ fed.key \in Monitors
         /\ Here \in fed.left /\ Here \in Proms /\ fed.list[Here] \in {"old", "now"}
<1>1. fed.left \in SUBSET Proms /\ fed.left # {} /\ fed.left \subseteq Listed(fed.list)
      /\ fed.key \in Monitors /\ fed.list \in Listing
  BY DEF TypeOK
<1>2. Here \in fed.left
  BY <1>1, FirstIn DEF Here
<1>3. QED
  BY <1>1, <1>2 DEF Listed, Listing

LEMMA IdleTypes ==
  /\ Absent \in Monitor
  /\ AutoIdle \in [key : Monitors \cup {NoKey}, local : Monitor, target : Proms \cup {NoProm}]
  /\ FedIdle \in [key : Monitors \cup {NoKey}, step : Dependents \cup {"turn", "label"},
                  local : Monitor, left : SUBSET Proms, list : Listing, service : Nat,
                  failed : BOOLEAN]
  /\ AutoIdle.key = NoKey /\ FedIdle.key = NoKey /\ FedIdle.step = "turn"
BY DEF Absent, Monitor, Kinds, AutoIdle, FedIdle, Listing

\* Copies and dependents, one of which is written.
LEMMA CopyType ==
  ASSUME TypeOK, NEW p \in Proms, NEW m \in Monitors, NEW c \in Copy,
         copy' = [copy EXCEPT ![p][m] = c]
  PROVE  /\ copy' \in [Proms -> [Monitors -> Copy]]
         /\ copy'[p][m] = c
         /\ \A q \in Proms, n \in Monitors : (q # p \/ n # m) => copy'[q][n] = copy[q][n]
BY DEF TypeOK

LEMMA DepsType ==
  ASSUME TypeOK, NEW p \in Proms, NEW m \in Monitors, NEW d \in Deps,
         deps' = [deps EXCEPT ![p][m] = d]
  PROVE  /\ deps' \in [Proms -> [Monitors -> Deps]]
         /\ deps'[p][m] = d
         /\ \A q \in Proms, n \in Monitors : (q # p \/ n # m) => deps'[q][n] = deps[q][n]
BY DEF TypeOK

LEMMA DependType ==
  ASSUME TypeOK, fed.key # NoKey, NEW x \in Dependents, NEW n \in Nat, Depend(x, n)
  PROVE  LET d == Written(deps[Here][fed.key], x, n, Owns(Here, fed.key))
         IN  d \in Deps /\ deps' = [deps EXCEPT ![Here][fed.key] = d]
<1> DEFINE m == fed.key
           d == Written(deps[Here][m], x, n, Owns(Here, m))
<1>1. Here \in Proms /\ m \in Monitors
  BY HereIn
<1>2. deps \in [Proms -> [Monitors -> Deps]] /\ deps[Here][m] \in Deps
  BY <1>1 DEF TypeOK
<1>3. d \in Deps
  BY <1>2 DEF Deps, Written
<1>4. deps' = [deps EXCEPT ![Here][m] = d]
  BY DEF Depend
<1>5. QED
  BY <1>3, <1>4

LEMMA AgedType ==
  ASSUME NEW l \in Listing, NEW p \in Proms
  PROVE  /\ Aged(l, p) \in Listing /\ Listed(Aged(l, p)) = Listed(l)
         /\ \A q \in Proms \ {p} : Aged(l, p)[q] = l[q]
         /\ Aged(l, p)[p] # "now"
BY DEF Aged, Listing, Listed

\* What is read from a list of Prometheus objects.
LEMMA ReadTypes ==
  ASSUME TypeOK, NEW l \in Listing
  PROVE  /\ Detected \in Modes
         /\ DefaultPrometheus(l) # NoProm => DefaultPrometheus(l) \in Listed(l)
         /\ \A m \in Monitors : AutoTarget(m, l) # NoProm => AutoTarget(m, l) \in Listed(l)
<1>1. Detected \in Modes
  BY DEF TypeOK, Detected, Modes
<1>2. Listed(l) \in SUBSET Proms /\ (Listed(l) # {} => First(Listed(l)) \in Listed(l))
  BY FirstIn DEF Listed
<1>3. DefaultPrometheus(l) # NoProm => DefaultPrometheus(l) \in Listed(l)
  BY <1>2 DEF DefaultPrometheus
<1>4. QED
  BY <1>1, <1>3 DEF AutoTarget

LEMMA LabelsType ==
  ASSUME TypeOK, NEW m \in Monitors, NEW p \in Proms, NEW o \in Monitor, Labels(m, p, o)
  PROVE  sm' \in [Monitors -> Monitor]
<1>1. \A c \in Monitor, r \in Proms \cup {NoProm} : [c EXCEPT !.release = r] \in Monitor
  BY DEF Monitor
<1>2. sm[m] \in Monitor /\ sm[m].release \in Proms \cup {NoProm}
  BY DEF TypeOK, Monitor
<1>3. PICK c \in Monitor : sm' = [sm EXCEPT ![m] = c]
  <2>1. CASE sm' = [sm EXCEPT ![m].release = IF seen[m].release = p THEN @ ELSE p]
    BY <1>1, <1>2, <2>1
  <2>2. CASE sm' = [sm EXCEPT ![m] = [o EXCEPT !.release = p]]
    BY <1>1, <2>2
  <2>3. QED
    BY <2>1, <2>2 DEF Labels
<1>4. QED
  BY <1>3 DEF TypeOK

\* The federation worker's part of the types.
FedType ==
    /\ fedQueue \subseteq Monitors
    /\ fed \in [key : Monitors \cup {NoKey}, step : Dependents \cup {"turn", "label"},
                local : Monitor, left : SUBSET Proms, list : Listing, service : Nat,
                failed : BOOLEAN]
    /\ fed.key # NoKey => fed.left # {} /\ fed.left \subseteq Listed(fed.list)
    /\ fed.key = NoKey => fed.step = "turn"

LEMMA FedReturnType ==
  ASSUME TypeOK, fed.key # NoKey, NEW r \in BOOLEAN, FedReturn(r)
  PROVE  FedType'
BY IdleTypes DEF TypeOK, FedReturn, FedType

LEMMA NextStepType ==
  ASSUME TypeOK, fed.key # NoKey, NEW s \in Dependents, NEW f \in BOOLEAN, NextStep(s, f)
  PROVE  FedType'
BY DEF TypeOK, NextStep, FedType

LEMMA NextPromType ==
  ASSUME TypeOK, fed.key # NoKey, NEW o \in Monitor, NEW f \in BOOLEAN, NextProm(o, f)
  PROVE  FedType'
<1>1. CASE fed.left = {Here}
  BY <1>1, FedReturnType DEF NextProm, Retries, TypeOK
<1>2. CASE fed.left # {Here}
  <2>1. Here \in fed.left
    BY HereIn
  <2>2. fed.left \ {Here} # {}
    BY <1>2, <2>1
  <2>3. fed' = [fed EXCEPT !.step = "turn", !.local = o, !.left = fed.left \ {Here},
                          !.failed = fed.failed \/ f]
        /\ UNCHANGED fedQueue
    BY <1>2 DEF NextProm
  <2>4. (fed.failed \/ f) \in BOOLEAN /\ fed.left \ {Here} \in SUBSET Proms
    BY DEF TypeOK
  <2>5. QED
    BY <2>2, <2>3, <2>4 DEF TypeOK, FedType
<1>3. QED
  BY <1>1, <1>2

LEMMA InitType == Init => TypeOK
<1> SUFFICES ASSUME Init PROVE TypeOK
  OBVIOUS
<1> USE MonitorsAssumption
<1>1. /\ platform \in Platforms /\ inside \in Insides
      /\ project \in [Monitors -> Proms \cup {NoProm}]
      /\ prom \in [Proms -> BOOLEAN] /\ seenProm \in Listing
  BY DEF Init, Listing
<1>2. sm \in [Monitors -> Monitor] /\ seen \in [Monitors -> Monitor]
  <2>1. \A o \in [exists : {TRUE}, kind : {"auto", "federated"}, release : {NoProm},
                  version : {1}] : o \in Monitor
    <3>1. {TRUE} \subseteq BOOLEAN /\ {"auto", "federated"} \subseteq Kinds /\ {1} \subseteq Nat
          /\ {NoProm} \subseteq Proms \cup {NoProm}
      BY DEF Kinds
    <3>2. QED
      BY <3>1, Zenon DEF Monitor
  <2>2. QED
    BY <2>1, IdleTypes DEF Init
<1>3. /\ service \in [Monitors -> Nat] /\ seenService \in [Monitors -> Nat]
      /\ endpoints \in [Monitors -> Nat] /\ secret \in [Monitors -> BOOLEAN]
  BY DEF Init
<1>4. copy \in [Proms -> [Monitors -> Copy]] /\ deps \in [Proms -> [Monitors -> Deps]]
  <2>1. [version |-> 0, owner |-> "old"] \in Copy
    BY DEF Copy
  <2>2. [has |-> [x \in Dependents |-> 0], mine |-> {}] \in Deps
    BY DEF Deps
  <2>3. QED
    BY <2>1, <2>2 DEF Init
<1>5. QED
  BY <1>1, <1>2, <1>3, <1>4, IdleTypes DEF Init, TypeOK, Modes

\* What the events of the informers enqueue are names of monitors.
LEMMA OfKindType == \A k, c : OfKind(k, c) \subseteq Monitors
BY DEF OfKind

LEMMA NextType == TypeOK /\ [Next]_vars => TypeOK'
<1> SUFFICES ASSUME TypeOK, [Next]_vars PROVE TypeOK'
  OBVIOUS
<1> USE MonitorsAssumption
<1>1. CASE \E m \in Monitors : Relabel(m) \/ Edit(m) \/ Delete(m)
  <2>1. PICK m \in Monitors : Relabel(m) \/ Edit(m) \/ Delete(m)
    BY <1>1
  <2>2. sm[m] \in Monitor
    BY DEF TypeOK
  <2>3. PICK o \in Monitor : sm' = [sm EXCEPT ![m] = o]
    <3>1. CASE Relabel(m)
      <4>1. PICK k \in Kinds : sm' = [sm EXCEPT ![m].kind = k]
        BY <3>1 DEF Relabel
      <4>2. [sm[m] EXCEPT !.kind = k] \in Monitor
        BY <2>2 DEF Monitor
      <4>3. QED
        BY <4>1, <4>2
    <3>2. CASE Edit(m)
      <4>1. [sm[m] EXCEPT !.version = @ + 1] \in Monitor
        BY <2>2 DEF Monitor
      <4>2. QED
        BY <3>2, <4>1 DEF Edit
    <3>3. CASE Delete(m)
      BY <3>3, IdleTypes DEF Delete
    <3>4. QED
      BY <2>1, <3>1, <3>2, <3>3
  <2>4. sm' \in [Monitors -> Monitor]
    BY <2>3 DEF TypeOK
  <2>5. UNCHANGED <<worldVars, cacheVars, copyVars, workVars>> /\ events' = events + 1
    BY <2>1 DEF Relabel, Edit, Delete, Happens
  <2>6. QED
    BY <2>4, <2>5 DEF TypeOK, worldVars, cacheVars, copyVars, workVars
<1>2. ASSUME NEW m \in Monitors, EditService(m) PROVE TypeOK'
  BY <1>2 DEF TypeOK, EditService, Happens, cacheVars, copyVars, workVars
<1>3. ASSUME NEW m \in Monitors, Move(m) PROVE TypeOK'
  BY <1>3 DEF TypeOK, Move, Happens, cacheVars, copyVars, workVars
<1>4. ASSUME NEW p \in Proms, CreateProm(p) PROVE TypeOK'
  BY <1>4 DEF TypeOK, CreateProm, Happens, cacheVars, copyVars, workVars
<1>5. ASSUME NEW p \in Proms, DeleteProm(p) PROVE TypeOK'
  <2>1. seenProm' \in Listing /\ prom' \in [Proms -> BOOLEAN]
    BY <1>5, AgedType DEF TypeOK, DeleteProm
  <2>2. FedType'
    <3>1. fed' = [fed EXCEPT !.list = Aged(fed.list, p)] /\ UNCHANGED fedQueue
      BY <1>5 DEF DeleteProm
    <3>2. fed.list \in Listing
      BY DEF TypeOK
    <3>3. Aged(fed.list, p) \in Listing /\ Listed(Aged(fed.list, p)) = Listed(fed.list)
      BY <3>2, AgedType
    <3>4. QED
      BY <3>1, <3>3 DEF TypeOK, FedType
  <2>3. copy' \in [Proms -> [Monitors -> Copy]]
    <3>1. \A c \in Copy : [c EXCEPT !.owner = "old"] \in Copy
      BY DEF Copy
    <3>2. [m \in Monitors |-> [copy[p][m] EXCEPT !.owner = "old"]] \in [Monitors -> Copy]
      BY <3>1 DEF TypeOK
    <3>3. copy' = [copy EXCEPT ![p] = [m \in Monitors |-> [copy[p][m] EXCEPT !.owner = "old"]]]
      BY <1>5 DEF DeleteProm
    <3>4. QED
      BY <3>2, <3>3 DEF TypeOK
  <2>4. events' \in Nat
    BY <1>5 DEF TypeOK, DeleteProm, Happens
  <2>5. QED
    BY <1>5, <2>1, <2>2, <2>3, <2>4 DEF TypeOK, FedType, DeleteProm
<1>6. ASSUME NEW m \in Monitors, Catchup(m) PROVE TypeOK'
  <2>1. endpoints' \in [Monitors -> Nat] /\ secret' \in [Monitors -> BOOLEAN]
    <3>1. CASE endpoints' = [endpoints EXCEPT ![m] = service[m]] /\ UNCHANGED secret
      BY <3>1 DEF TypeOK
    <3>2. CASE secret' = [secret EXCEPT ![m] = TRUE] /\ UNCHANGED endpoints
      BY <3>2 DEF TypeOK
    <3>3. QED
      BY <1>6, <3>1, <3>2 DEF Catchup
  <2>2. QED
    BY <1>6, <2>1 DEF TypeOK, Catchup, cacheVars, copyVars, workVars
<1>7. ASSUME NEW p \in Proms, NEW m \in Monitors, Collect(p, m) PROVE TypeOK'
  <2>1. deps[p][m] \in Deps
    BY DEF TypeOK
  <2>2. [version |-> 0, owner |-> "old"] \in Copy
    BY DEF Copy
  <2>3. /\ deps' \in [Proms -> [Monitors -> Deps]]
        /\ copy' \in [Proms -> [Monitors -> Copy]]
    <3>1. CASE /\ copy' = [copy EXCEPT ![p][m] = [version |-> 0, owner |-> "old"]]
               /\ deps' = [deps EXCEPT ![p][m] = [@ EXCEPT !.mine = {}]]
      <4>1. [deps[p][m] EXCEPT !.mine = {}] \in Deps
        BY <2>1 DEF Deps
      <4>2. QED
        BY <2>2, <3>1, <4>1, DepsType, CopyType
    <3>2. ASSUME NEW x \in Dependents, UNCHANGED copy,
                 deps' = [deps EXCEPT ![p][m] = Written(@, x, 0, FALSE)]
          PROVE  /\ deps' \in [Proms -> [Monitors -> Deps]]
                 /\ copy' \in [Proms -> [Monitors -> Copy]]
      <4> DEFINE d == Written(deps[p][m], x, 0, FALSE)
      <4>1. d \in Deps
        BY <2>1 DEF Deps, Written
      <4>2. deps' = [deps EXCEPT ![p][m] = d]
        BY <3>2
      <4>3. deps' \in [Proms -> [Monitors -> Deps]]
        <5> HIDE DEF d
        <5>1. QED
          BY <4>1, <4>2, DepsType
      <4>4. QED
        BY <3>2, <4>3 DEF TypeOK
    <3>3. QED
      BY <1>7, <3>1, <3>2 DEF Collect
  <2>5. QED
    BY <1>7, <2>3 DEF TypeOK, Collect, worldVars, cacheVars, workVars
<1>8. ASSUME NEW m \in Monitors, DeliverMonitor(m) PROVE TypeOK'
  <2>1. autoQueue' \subseteq Monitors /\ fedQueue' \subseteq Monitors
        /\ seen' \in [Monitors -> Monitor]
    BY <1>8 DEF TypeOK, DeliverMonitor
  <2>2. QED
    BY <1>8, <2>1 DEF TypeOK, DeliverMonitor, worldVars, copyVars
<1>9. ASSUME NEW m \in Monitors, DeliverService(m) PROVE TypeOK'
  BY <1>9 DEF TypeOK, DeliverService, worldVars, copyVars
<1>10. ASSUME NEW p \in Proms, DeliverProm(p) PROVE TypeOK'
  <2>1. autoQueue' \subseteq Monitors /\ fedQueue' \subseteq Monitors /\ seenProm' \in Listing
    BY <1>10, OfKindType DEF TypeOK, DeliverProm, MonitorsForPrometheus, Listing
  <2>2. QED
    BY <1>10, <2>1 DEF TypeOK, DeliverProm, worldVars, copyVars
<1>11. CASE Resync
  <2>1. autoQueue' \subseteq Monitors /\ fedQueue' \subseteq Monitors
    BY <1>11, OfKindType DEF TypeOK, Resync
  <2>2. QED
    BY <1>11, <2>1 DEF TypeOK, Resync, worldVars, cacheVars, copyVars
<1>12. CASE Restart
  <2>1. autoQueue' \subseteq Monitors /\ fedQueue' \subseteq Monitors /\ seenProm' \in Listing
        /\ auto' = AutoIdle /\ fed' = FedIdle /\ mode' \in Modes /\ seen' = sm
        /\ seenService' = service /\ events' \in Nat
    BY <1>12, OfKindType DEF TypeOK, Restart, Listing, Modes, Happens
  <2>2. UNCHANGED <<worldVars, sm, copyVars>>
    BY <1>12 DEF Restart
  <2>3. QED
    BY <2>1, <2>2, IdleTypes DEF TypeOK, worldVars, copyVars
<1>13. ASSUME NEW m \in Monitors, AutoStart(m) PROVE TypeOK'
  <2>1. seen[m] \in Monitor /\ seenProm \in Listing
    BY DEF TypeOK
  <2>2. mode' \in Modes
    BY <1>13, <2>1, ReadTypes DEF AutoStart, TypeOK
  <2>3. autoQueue' \subseteq Monitors
    BY <1>13 DEF AutoStart, TypeOK
  <2>4. AutoTarget(m, seenProm) # NoProm => AutoTarget(m, seenProm) \in Proms
    BY <2>1, ReadTypes DEF Listed
  <2>5. \/ auto' = auto
        \/ /\ auto' = [key |-> m, local |-> seen[m], target |-> AutoTarget(m, seenProm)]
           /\ AutoTarget(m, seenProm) \in Proms
    BY <1>13, <2>4 DEF AutoStart
  <2>6. UNCHANGED <<worldVars, cacheVars, sm, copyVars, fedQueue, fed, events>>
    BY <1>13 DEF AutoStart
  <2>7. QED
    BY <2>1, <2>2, <2>3, <2>5, <2>6 DEF TypeOK, worldVars, cacheVars, copyVars
<1>14. CASE AutoLabel \/ AutoFault
  <2>1. auto.key \in Monitors /\ auto.local \in Monitor /\ auto.target \in Proms
    BY <1>14 DEF TypeOK, AutoLabel, AutoFault
  <2>2. autoQueue' \subseteq Monitors /\ auto' = AutoIdle
    BY <1>14, <2>1 DEF TypeOK, AutoLabel, AutoFault, AutoReturn
  <2>3. sm' \in [Monitors -> Monitor]
    BY <1>14, <2>1, LabelsType DEF AutoLabel, AutoFault, TypeOK
  <2>4. /\ UNCHANGED <<worldVars, cacheVars, copyVars, mode, fedQueue, fed>>
        /\ events' \in Nat
    <3>1. CASE AutoLabel
      BY <3>1 DEF AutoLabel, TypeOK
    <3>2. CASE AutoFault
      BY <3>2 DEF AutoFault, Happens, TypeOK
    <3>3. QED
      BY <1>14, <3>1, <3>2
  <2>5. QED
    BY <2>2, <2>3, <2>4, IdleTypes DEF TypeOK, worldVars, cacheVars, copyVars
<1>15. ASSUME NEW m \in Monitors, FedStart(m) PROVE TypeOK'
  <2> DEFINE works == [key |-> m, step |-> "turn", local |-> seen[m], left |-> Listed(seenProm),
                       list |-> seenProm, service |-> seenService[m], failed |-> FALSE]
             p == DefaultPrometheus(seenProm)
  <2>1. seen[m] \in Monitor /\ seenProm \in Listing /\ seenService[m] \in Nat
        /\ Listed(seenProm) \in SUBSET Proms
    BY DEF TypeOK, Listed
  <2>2. p # NoProm => p \in Listed(seenProm)
    BY <2>1, ReadTypes
  <2>3. mode' \in Modes /\ fedQueue' \subseteq Monitors
    BY <1>15, <2>1, ReadTypes DEF FedStart, TypeOK
  <2>4. \/ fed' = fed
        \/ fed' = works /\ Listed(seenProm) # {}
        \/ fed' = [works EXCEPT !.step = "label", !.left = {p}] /\ p # NoProm
    BY <1>15 DEF FedStart
  <2>5. FedType'
    <3>1. UNCHANGED fed => FedType'
      BY <2>3 DEF TypeOK, FedType
    <3>2. CASE fed' = works /\ Listed(seenProm) # {}
      BY <2>1, <2>3, <3>2 DEF FedType
    <3>3. CASE fed' = [works EXCEPT !.step = "label", !.left = {p}] /\ p # NoProm
      <4>1. fed' = [key |-> m, step |-> "label", local |-> seen[m], left |-> {p},
                    list |-> seenProm, service |-> seenService[m], failed |-> FALSE]
        BY <3>3
      <4>2. QED
        <5>1. {p} # {} /\ {p} \subseteq Listed(seenProm) /\ {p} \in SUBSET Proms
          BY <2>1, <2>2, <3>3
        <5> HIDE DEF p
        <5>2. QED
          BY <2>1, <2>3, <4>1, <5>1 DEF FedType
    <3>4. QED
      BY <2>4, <3>1, <3>2, <3>3
  <2>6. UNCHANGED <<worldVars, cacheVars, sm, copyVars, autoQueue, auto, events>>
    BY <1>15 DEF FedStart
  <2>7. QED
    BY <2>3, <2>5, <2>6 DEF TypeOK, FedType, worldVars, cacheVars, copyVars
<1>16. CASE FedLabel
  <2>1. fed.key # NoKey /\ fed.local \in Monitor
    BY <1>16 DEF FedLabel, At, Mine, TypeOK
  <2>2. fed.key \in Monitors /\ Here \in Proms
    BY <2>1, HereIn
  <2>3. sm' \in [Monitors -> Monitor]
    BY <1>16, <2>1, <2>2, LabelsType DEF FedLabel, TypeOK
  <2>4. FedType'
    BY <1>16, <2>1, <2>2, <2>3, NextPromType DEF FedLabel
  <2>5. UNCHANGED <<worldVars, cacheVars, copyVars, mode, autoQueue, auto, events>>
    BY <1>16 DEF FedLabel
  <2>6. QED
    BY <2>3, <2>4, <2>5 DEF TypeOK, FedType, worldVars, cacheVars, copyVars
<1>17. CASE FedReject
  BY <1>17, FedReturnType DEF FedReject, Mine, At, TypeOK, FedType, worldVars, cacheVars, copyVars
<1>18. CASE FedCopy
  <2>1. fed.key # NoKey /\ fed.local.version \in Nat
    BY <1>18 DEF FedCopy, Mine, At, TypeOK, Monitor
  <2>2. [version |-> fed.local.version, owner |-> fed.list[Here]] \in Copy
    BY <2>1, HereIn DEF Copy
  <2>3. copy' \in [Proms -> [Monitors -> Copy]]
    BY <1>18, <2>1, <2>2, HereIn, CopyType DEF FedCopy, Owner
  <2>4. FedType'
    BY <1>18, <2>1, NextStepType DEF FedCopy, Dependents
  <2>5. UNCHANGED <<worldVars, cacheVars, sm, deps, mode, autoQueue, auto, events>>
    BY <1>18 DEF FedCopy
  <2>6. QED
    BY <2>3, <2>4, <2>5 DEF TypeOK, FedType, worldVars, cacheVars
<1>19. CASE FedService \/ FedEndpoints \/ FedSecret
  <2>1. fed.key # NoKey /\ fed.service \in Nat /\ fed.local \in Monitor
    BY <1>19 DEF FedService, FedEndpoints, FedSecret, At, TypeOK
  <2>2. /\ UNCHANGED <<worldVars, cacheVars, sm, copy, mode, autoQueue, auto, events>>
        /\ \/ UNCHANGED deps
           \/ \E x \in Dependents, n \in Nat : Depend(x, n)
    BY <1>19, <2>1 DEF FedService, FedEndpoints, FedSecret, Dependents
  <2>3. deps' \in [Proms -> [Monitors -> Deps]]
    <3>1. ASSUME NEW x \in Dependents, NEW n \in Nat, Depend(x, n)
          PROVE  deps' \in [Proms -> [Monitors -> Deps]]
      <4> DEFINE d == Written(deps[Here][fed.key], x, n, Owns(Here, fed.key))
      <4>1. d \in Deps /\ deps' = [deps EXCEPT ![Here][fed.key] = d]
        BY <2>1, <3>1, DependType
      <4> HIDE DEF d
      <4>2. QED
        BY <2>1, <4>1, HereIn, DepsType
    <3>2. QED
      BY <2>2, <3>1 DEF TypeOK
  <2>4. FedType'
    BY <1>19, <2>1, NextStepType, NextPromType, FedReturnType
    DEF FedService, FedEndpoints, FedSecret, Dependents
  <2>5. QED
    BY <2>2, <2>3, <2>4 DEF TypeOK, FedType, worldVars, cacheVars
<1>20. CASE FedFault
  <2>1. fed.key # NoKey /\ fed.local \in Monitor
    BY <1>20 DEF FedFault, At, Mine, TypeOK
  <2>2. FedType'
    BY <1>20, <2>1, NextStepType, NextPromType, FedReturnType DEF FedFault, Dependents
  <2>3. UNCHANGED <<worldVars, cacheVars, sm, copyVars, mode, autoQueue, auto>> /\ events' \in Nat
    BY <1>20 DEF FedFault, Happens, TypeOK
  <2>4. QED
    BY <2>2, <2>3 DEF TypeOK, FedType, worldVars, cacheVars, copyVars
<1>21. CASE UNCHANGED vars
  BY <1>21 DEF TypeOK, vars, worldVars, cacheVars, copyVars, workVars
<1>22. CASE Detect
  <2>1. mode' \in Modes
    BY <1>22, ReadTypes DEF Detect, TypeOK
  <2>2. QED
    BY <1>22, <2>1 DEF Detect, TypeOK, worldVars, cacheVars, copyVars
<1>23. QED
  BY <1>1, <1>2, <1>3, <1>4, <1>5, <1>6, <1>7, <1>8, <1>9, <1>10, <1>11, <1>12, <1>13, <1>14,
     <1>15, <1>16, <1>17, <1>18, <1>19, <1>20, <1>21, <1>22
  DEF Next, User, Cluster, Informers, FedStep

\* Every variable keeps its type.
THEOREM ServiceMonitorsTypeCorrect == Spec => []TypeOK
BY InitType, NextType, PTL DEF Spec
-----------------------------------------------------------------------------
\* The parts of PassInv that only the federation worker, and only the
\* ServiceMonitors and the cache of them, can disturb.
FedPass ==
    /\ fed.key # NoKey => fed.local.version # 0 /\ fed.service # 0
    /\ \A p \in Proms : fed.list[p] = "now" => prom[p]

MonitorPass ==
    \A m \in Monitors :
       /\ sm[m].exists => sm[m].version # 0
       /\ seen[m].exists => seen[m].version # 0

RestPass ==
    /\ \A m \in Monitors : service[m] # 0 /\ seenService[m] # 0
    /\ auto.key # NoKey => auto.local.version # 0
    /\ \A p \in Proms : seenProm[p] = "now" => prom[p]

LEMMA PassParts == PassInv <=> FedPass /\ MonitorPass /\ RestPass
BY DEF PassInv, FedPass, MonitorPass, RestPass

LEMMA IdlePass ==
  /\ AutoIdle.key = NoKey /\ FedIdle.key = NoKey
  /\ \A p \in Proms : FedIdle.list[p] # "now"
BY DEF AutoIdle, FedIdle

LEMMA FedReturnPass ==
  ASSUME NEW r \in BOOLEAN, FedReturn(r)
  PROVE  FedPass'
BY IdlePass DEF FedReturn, FedPass

LEMMA NextStepPass ==
  ASSUME TypeOK, FedPass, UNCHANGED prom, NEW s, NEW f, NextStep(s, f)
  PROVE  FedPass'
<1>1. /\ fed'.key = fed.key /\ fed'.local = fed.local /\ fed'.list = fed.list
      /\ fed'.service = fed.service
  BY DEF NextStep, TypeOK
<1>2. QED
  BY <1>1 DEF FedPass

LEMMA NextPromPass ==
  ASSUME TypeOK, FedPass, UNCHANGED prom, NEW o, o.version # 0, NEW f \in BOOLEAN, NextProm(o, f)
  PROVE  FedPass'
<1>1. CASE fed.left = {Here}
  BY <1>1, FedReturnPass DEF NextProm, Retries, TypeOK
<1>2. CASE fed.left # {Here}
  <2>1. /\ fed'.key = fed.key /\ fed'.local = o /\ fed'.list = fed.list
        /\ fed'.service = fed.service
    BY <1>2 DEF NextProm, TypeOK
  <2>2. QED
    BY <2>1 DEF FedPass
<1>3. QED
  BY <1>1, <1>2

\* The labels change no version, and what they create anew has one.
LEMMA LabelsPass ==
  ASSUME TypeOK, MonitorPass, UNCHANGED seen,
         NEW m \in Monitors, NEW p \in Proms, NEW o \in Monitor, o.version # 0, Labels(m, p, o)
  PROVE  MonitorPass' /\ sm'[m].version # 0
<1>1. CASE /\ sm[m].exists
           /\ sm' = [sm EXCEPT ![m].release = IF seen[m].release = p THEN @ ELSE p]
  <2>1. sm[m] \in Monitor
    BY DEF TypeOK
  <2>2. PICK r : sm' = [sm EXCEPT ![m].release = r]
    BY <1>1
  <2>3. /\ sm'[m].version = sm[m].version /\ sm'[m].exists = sm[m].exists
        /\ \A n \in Monitors \ {m} : sm'[n] = sm[n]
    BY <2>1, <2>2 DEF TypeOK, Monitor
  <2>4. QED
    BY <1>1, <2>3 DEF MonitorPass
<1>2. CASE sm' = [sm EXCEPT ![m] = [o EXCEPT !.release = p]]
  <2>1. /\ sm'[m].version = o.version /\ \A n \in Monitors \ {m} : sm'[n] = sm[n]
    BY <1>2 DEF TypeOK, Monitor
  <2>2. QED
    BY <2>1 DEF MonitorPass
<1>3. QED
  BY <1>1, <1>2 DEF Labels

LEMMA InitOwned == Init => CopiesAreOwned /\ PassInv
<1> SUFFICES ASSUME Init PROVE CopiesAreOwned /\ PassInv
  OBVIOUS
<1>1. CopiesAreOwned
  BY DEF Init, CopiesAreOwned
<1>2. FedPass /\ RestPass
  BY IdlePass DEF Init, FedPass, RestPass
<1>3. \A m \in Monitors : sm[m].version \in {1} /\ seen[m] = Absent
  BY DEF Init
<1>4. MonitorPass
  <2>1. ~Absent.exists
    BY DEF Absent
  <2>2. \A m \in Monitors : sm[m].version # 0
    <3>1. 0 \notin {1}
      OBVIOUS
    <3>2. QED
      BY <1>3, <3>1, Zenon
  <2>3. \A m \in Monitors : ~seen[m].exists
    BY <1>3, <2>1, Zenon
  <2>4. QED
    BY <2>2, <2>3 DEF MonitorPass
<1>5. QED
  BY <1>1, <1>2, <1>4, PassParts

\* A step that leaves copies and dependents, and every Prometheus that exists.
LEMMA CopiesFrame ==
  ASSUME TypeOK, CopiesAreOwned, UNCHANGED copyVars, \A p \in Proms : prom[p] => prom'[p]
  PROVE  CopiesAreOwned'
BY DEF CopiesAreOwned, copyVars

\* A copy or a dependent is written: the rest is as before.
LEMMA CopyOwned ==
  ASSUME TypeOK, CopiesAreOwned, NEW p \in Proms, NEW m \in Monitors, NEW c \in Copy,
         copy' = [copy EXCEPT ![p][m] = c], UNCHANGED <<deps, prom>>,
         c.version # 0, c.owner = "now" => prom[p]
  PROVE  CopiesAreOwned'
<1>1. /\ copy'[p][m] = c
      /\ \A q \in Proms, n \in Monitors : (q # p \/ n # m) => copy'[q][n] = copy[q][n]
  <2>1. copy \in [Proms -> [Monitors -> Copy]]
    BY DEF TypeOK
  <2>2. QED
    BY <2>1
<1>2. ASSUME NEW q \in Proms, NEW n \in Monitors
      PROVE  /\ copy'[q][n].version = 0 => copy[q][n].version = 0
             /\ copy'[q][n].owner = "now" => prom[q]
  <2>1. CASE q = p /\ n = m
    BY <1>1, <2>1
  <2>2. CASE q # p \/ n # m
    BY <1>1, <2>2 DEF CopiesAreOwned
  <2>3. QED
    BY <2>1, <2>2
<1>3. QED
  BY <1>2 DEF CopiesAreOwned

LEMMA DependOwned ==
  ASSUME TypeOK, CopiesAreOwned, fed.key # NoKey, NEW x \in Dependents, NEW n \in Nat, n # 0,
         Depend(x, n), UNCHANGED <<copy, prom>>
  PROVE  CopiesAreOwned'
<1> DEFINE m == fed.key
           old == deps[Here][m]
           d == Written(old, x, n, Owns(Here, m))
<1>1. Here \in Proms /\ m \in Monitors
  BY HereIn
<1>2. old \in Deps
  BY <1>1 DEF TypeOK
<1>3. d \in Deps /\ deps' = [deps EXCEPT ![Here][m] = d]
  BY DependType
<1>4. /\ deps'[Here][m] = d
      /\ \A q \in Proms, k \in Monitors : (q # Here \/ k # m) => deps'[q][k] = deps[q][k]
  <2> DEFINE p == Here
  <2> HIDE DEF d, m, p
  <2>1. deps \in [Proms -> [Monitors -> Deps]]
    BY DEF TypeOK
  <2>2. p \in Proms /\ m \in Monitors /\ deps' = [deps EXCEPT ![p][m] = d]
    BY <1>1, <1>3 DEF p, m
  <2>3. /\ deps'[p][m] = d
        /\ \A q \in Proms, k \in Monitors : (q # p \/ k # m) => deps'[q][k] = deps[q][k]
    BY <2>1, <2>2
  <2>4. QED
    BY <2>3 DEF p
<1>5. d.mine = IF Owns(Here, m) THEN old.mine \cup {x} ELSE old.mine \ {x}
  BY DEF Written
<1>6. \A y \in Dependents : d.has[y] = IF y = x THEN n ELSE old.has[y]
  BY <1>2 DEF Written, Deps
<1>7. /\ copy[Here][m].version = 0 => d.mine = {}
      /\ \A y \in d.mine : d.has[y] # 0
  <2>1. /\ copy[Here][m].version = 0 => old.mine = {}
        /\ \A y \in old.mine : old.has[y] # 0
    BY <1>1 DEF CopiesAreOwned
  <2>2. d.mine \subseteq Dependents
    BY <1>3 DEF Deps
  <2>3. QED
    BY <1>5, <1>6, <2>1, <2>2 DEF Owns
<1>8. ASSUME NEW q \in Proms, NEW k \in Monitors
      PROVE  /\ copy[q][k].version = 0 => deps'[q][k].mine = {}
             /\ \A y \in deps'[q][k].mine : deps'[q][k].has[y] # 0
  <2> HIDE DEF d
  <2>1. CASE q = Here /\ k = m
    BY <1>4, <1>7, <2>1
  <2>2. CASE q # Here \/ k # m
    BY <1>4, <2>2 DEF CopiesAreOwned
  <2>3. QED
    BY <2>1, <2>2
<1>9. QED
  BY <1>8 DEF CopiesAreOwned

LEMMA CollectOwned ==
  ASSUME TypeOK, CopiesAreOwned, NEW p \in Proms, NEW m \in Monitors, Collect(p, m)
  PROVE  CopiesAreOwned'
<1> DEFINE old == deps[p][m]
<1>1. old \in Deps /\ UNCHANGED prom
  BY DEF TypeOK, Collect, worldVars
<1>2. CASE /\ copy' = [copy EXCEPT ![p][m] = [version |-> 0, owner |-> "old"]]
           /\ deps' = [deps EXCEPT ![p][m] = [@ EXCEPT !.mine = {}]]
  <2> DEFINE c == [version |-> 0, owner |-> "old"]
             d == [old EXCEPT !.mine = {}]
  <2>1. c \in Copy /\ d \in Deps /\ d.mine = {}
    BY <1>1 DEF Copy, Deps
  <2>2. copy' = [copy EXCEPT ![p][m] = c] /\ deps' = [deps EXCEPT ![p][m] = d]
    BY <1>2
  <2>3. c.owner # "now"
    OBVIOUS
  <2> HIDE DEF c, d
  <2>4. /\ copy'[p][m] = c /\ deps'[p][m] = d
        /\ \A q \in Proms, k \in Monitors : (q # p \/ k # m) =>
              copy'[q][k] = copy[q][k] /\ deps'[q][k] = deps[q][k]
    <3>1. c \in Copy
      BY <2>1
    <3>2. d \in Deps
      BY <2>1
    <3>3. /\ copy'[p][m] = c
          /\ \A q \in Proms, k \in Monitors : (q # p \/ k # m) => copy'[q][k] = copy[q][k]
      <4>1. copy \in [Proms -> [Monitors -> Copy]]
        BY DEF TypeOK
      <4>2. QED
        BY <2>2, <4>1
    <3>4. /\ deps'[p][m] = d
          /\ \A q \in Proms, k \in Monitors : (q # p \/ k # m) => deps'[q][k] = deps[q][k]
      <4>1. deps \in [Proms -> [Monitors -> Deps]]
        BY DEF TypeOK
      <4>2. QED
        BY <2>2, <4>1
    <3>5. QED
      BY <3>3, <3>4
  <2>5. ASSUME NEW q \in Proms, NEW k \in Monitors
        PROVE  /\ copy'[q][k].version = 0 => deps'[q][k].mine = {}
               /\ copy'[q][k].owner = "now" => prom[q]
               /\ \A x \in deps'[q][k].mine : deps'[q][k].has[x] # 0
    <3>1. CASE q = p /\ k = m
      BY <2>1, <2>3, <2>4, <3>1
    <3>2. CASE q # p \/ k # m
      BY <2>4, <3>2 DEF CopiesAreOwned
    <3>3. QED
      BY <3>1, <3>2
  <2>6. QED
    BY <1>1, <2>5 DEF CopiesAreOwned
<1>3. ASSUME NEW x \in Dependents \ old.mine, UNCHANGED copy,
             deps' = [deps EXCEPT ![p][m] = Written(@, x, 0, FALSE)]
      PROVE  CopiesAreOwned'
  <2> DEFINE d == Written(old, x, 0, FALSE)
  <2>1. d.mine = old.mine /\ \A y \in old.mine : d.has[y] = old.has[y]
    BY <1>1, <1>3 DEF Deps, Written
  <2>6. d \in Deps
    BY <1>1 DEF Deps, Written
  <2>2. deps' = [deps EXCEPT ![p][m] = d]
    BY <1>3
  <2> HIDE DEF d
  <2>3. /\ deps'[p][m] = d
        /\ \A q \in Proms, k \in Monitors : (q # p \/ k # m) => deps'[q][k] = deps[q][k]
    <3>1. deps \in [Proms -> [Monitors -> Deps]]
      BY DEF TypeOK
    <3>2. QED
      BY <2>2, <3>1
  <2>4. ASSUME NEW q \in Proms, NEW k \in Monitors
        PROVE  /\ deps'[q][k].mine = deps[q][k].mine
               /\ \A y \in deps[q][k].mine : deps'[q][k].has[y] = deps[q][k].has[y]
    <3>1. CASE q = p /\ k = m
      BY <2>1, <2>3, <3>1
    <3>2. CASE q # p \/ k # m
      BY <2>3, <3>2
    <3>3. QED
      BY <3>1, <3>2
  <2>5. ASSUME NEW q \in Proms, NEW k \in Monitors
        PROVE  /\ copy'[q][k].version = 0 => deps'[q][k].mine = {}
               /\ copy'[q][k].owner = "now" => prom'[q]
               /\ \A y \in deps'[q][k].mine : deps'[q][k].has[y] # 0
    <3>1. copy'[q][k] = copy[q][k] /\ prom'[q] = prom[q]
      BY <1>1, <1>3
    <3>2. /\ copy[q][k].version = 0 => deps[q][k].mine = {}
          /\ copy[q][k].owner = "now" => prom[q]
          /\ \A y \in deps[q][k].mine : deps[q][k].has[y] # 0
      BY DEF CopiesAreOwned
    <3>3. QED
      BY <2>4, <3>1, <3>2
  <2>7. QED
    BY <2>5 DEF CopiesAreOwned
<1>4. QED
  BY <1>2, <1>3 DEF Collect

LEMMA NextOwned ==
  TypeOK /\ TypeOK' /\ CopiesAreOwned /\ PassInv /\ [Next]_vars => (CopiesAreOwned /\ PassInv)'
<1> SUFFICES ASSUME TypeOK, TypeOK', CopiesAreOwned, FedPass, MonitorPass, RestPass, [Next]_vars
             PROVE  CopiesAreOwned' /\ FedPass' /\ MonitorPass' /\ RestPass'
  BY PassParts DEF PassInv, FedPass, MonitorPass, RestPass
<1>1. ASSUME NEW m \in Monitors, Relabel(m) \/ Edit(m) \/ Delete(m)
      PROVE  CopiesAreOwned' /\ FedPass' /\ MonitorPass' /\ RestPass'
  <2>1. UNCHANGED <<worldVars, cacheVars, copyVars, workVars>>
    BY <1>1 DEF Relabel, Edit, Delete
  <2>2. CopiesAreOwned' /\ FedPass' /\ RestPass'
    BY <2>1, CopiesFrame DEF FedPass, RestPass, worldVars, cacheVars, workVars
  <2>3. /\ sm'[m].exists => sm'[m].version # 0
        /\ \A n \in Monitors \ {m} : sm'[n] = sm[n]
    <3>1. sm[m] \in Monitor /\ sm \in [Monitors -> Monitor]
      BY DEF TypeOK
    <3>2. CASE Relabel(m)
      <4>1. PICK k \in Kinds : sm' = [sm EXCEPT ![m].kind = k]
        BY <3>2 DEF Relabel
      <4>2. /\ sm'[m].version = sm[m].version
            /\ \A n \in Monitors \ {m} : sm'[n] = sm[n]
        BY <3>1, <4>1 DEF Monitor
      <4>3. sm[m].exists
        BY <3>2 DEF Relabel
      <4>4. QED
        BY <4>2, <4>3 DEF MonitorPass
    <3>3. CASE Edit(m)
      <4>1. sm' = [sm EXCEPT ![m].version = sm[m].version + 1]
        BY <3>3 DEF Edit
      <4>2. /\ sm'[m].version = sm[m].version + 1 /\ sm[m].version \in Nat
            /\ \A n \in Monitors \ {m} : sm'[n] = sm[n]
        BY <3>1, <4>1 DEF Monitor
      <4>3. QED
        BY <4>2
    <3>4. CASE Delete(m)
      <4>1. sm'[m] = Absent /\ \A n \in Monitors \ {m} : sm'[n] = sm[n]
        BY <3>1, <3>4 DEF Delete
      <4>2. ~Absent.exists
        BY DEF Absent
      <4>3. ~sm'[m].exists
        BY <4>1, <4>2, Zenon
      <4>4. QED
        BY <4>1, <4>3
    <3>5. QED
      BY <1>1, <3>2, <3>3, <3>4
  <2>4. UNCHANGED seen
    BY <2>1 DEF cacheVars
  <2>5. MonitorPass'
    BY <2>3, <2>4 DEF MonitorPass
  <2>6. QED
    BY <2>2, <2>5
<1>2. ASSUME NEW m \in Monitors, EditService(m) \/ Move(m) \/ Catchup(m)
      PROVE  CopiesAreOwned' /\ FedPass' /\ MonitorPass' /\ RestPass'
  <2>1. UNCHANGED <<cacheVars, copyVars, sm, workVars, prom>>
    BY <1>2 DEF EditService, Move, Catchup
  <2>2. \A n \in Monitors : service'[n] # 0
    <3>1. CASE EditService(m)
      <4>1. service[m] \in Nat /\ service' = [service EXCEPT ![m] = service[m] + 1]
        BY <3>1 DEF EditService, TypeOK
      <4>2. QED
        BY <4>1 DEF TypeOK, RestPass
    <3>2. CASE UNCHANGED service
      BY <3>2 DEF RestPass
    <3>3. QED
      BY <1>2, <3>1, <3>2 DEF Move, Catchup
  <2>3. QED
    BY <2>1, <2>2, CopiesFrame DEF FedPass, MonitorPass, RestPass, cacheVars, workVars
<1>3. ASSUME NEW p \in Proms, CreateProm(p)
      PROVE  CopiesAreOwned' /\ FedPass' /\ MonitorPass' /\ RestPass'
  <2>1. UNCHANGED <<service, cacheVars, copyVars, sm, workVars>>
    BY <1>3 DEF CreateProm
  <2>2. \A q \in Proms : prom[q] => prom'[q]
    BY <1>3 DEF CreateProm, TypeOK
  <2>3. QED
    BY <2>1, <2>2, CopiesFrame DEF FedPass, MonitorPass, RestPass, cacheVars, workVars
<1>4. ASSUME NEW p \in Proms, DeleteProm(p)
      PROVE  CopiesAreOwned' /\ FedPass' /\ MonitorPass' /\ RestPass'
  <2>1. UNCHANGED <<service, seen, seenService, sm, deps, auto>>
    BY <1>4 DEF DeleteProm
  <2>2. /\ ~prom'[p] /\ \A q \in Proms \ {p} : prom'[q] = prom[q]
    BY <1>4 DEF DeleteProm, TypeOK
  <2>3. seenProm' = Aged(seenProm, p) /\ fed'.list = Aged(fed.list, p)
        /\ fed'.key = fed.key /\ fed'.local = fed.local /\ fed'.service = fed.service
    BY <1>4 DEF DeleteProm, TypeOK
  <2>4. seenProm \in Listing /\ fed.list \in Listing
    BY DEF TypeOK
  <2>5. \A q \in Proms : /\ seenProm'[q] = "now" => prom'[q]
                         /\ fed'.list[q] = "now" => prom'[q]
    BY <2>2, <2>3, <2>4, AgedType DEF RestPass, FedPass
  <2>6. ASSUME NEW q \in Proms, NEW k \in Monitors
        PROVE  /\ copy'[q][k].version = copy[q][k].version
               /\ copy'[q][k].owner = "now" => prom'[q]
    <3>1. copy' = [copy EXCEPT ![p] = [m \in Monitors |-> [copy[p][m] EXCEPT !.owner = "old"]]]
      BY <1>4 DEF DeleteProm
    <3>2. copy[q][k] \in Copy /\ copy \in [Proms -> [Monitors -> Copy]]
      BY DEF TypeOK
    <3>3. CASE q = p
      <4>1. copy'[q][k] = [copy[q][k] EXCEPT !.owner = "old"]
        BY <3>1, <3>2, <3>3
      <4>2. QED
        BY <3>2, <4>1 DEF Copy
    <3>4. CASE q # p
      BY <2>2, <3>1, <3>2, <3>4 DEF CopiesAreOwned
    <3>5. QED
      BY <3>3, <3>4
  <2>7. CopiesAreOwned'
    BY <2>1, <2>6 DEF CopiesAreOwned
  <2>8. QED
    BY <2>1, <2>3, <2>5, <2>7 DEF FedPass, MonitorPass, RestPass
<1>5. ASSUME NEW p \in Proms, NEW m \in Monitors, Collect(p, m)
      PROVE  CopiesAreOwned' /\ FedPass' /\ MonitorPass' /\ RestPass'
  <2>1. UNCHANGED <<worldVars, cacheVars, sm, workVars>>
    BY <1>5 DEF Collect
  <2>2. QED
    BY <1>5, <2>1, CollectOwned DEF FedPass, MonitorPass, RestPass, worldVars, cacheVars, workVars
<1>6. ASSUME NEW m \in Monitors, DeliverMonitor(m)
      PROVE  CopiesAreOwned' /\ FedPass' /\ MonitorPass' /\ RestPass'
  <2>1. UNCHANGED <<worldVars, seenProm, seenService, sm, copyVars, auto, fed>>
        /\ seen' = [seen EXCEPT ![m] = sm[m]]
    BY <1>6 DEF DeliverMonitor
  <2>2. \A n \in Monitors : seen'[n] = IF n = m THEN sm[n] ELSE seen[n]
    BY <2>1 DEF TypeOK
  <2>3. MonitorPass'
    BY <2>1, <2>2 DEF MonitorPass
  <2>4. QED
    BY <2>1, <2>3, CopiesFrame DEF FedPass, RestPass, worldVars
<1>7. ASSUME NEW m \in Monitors, DeliverService(m)
      PROVE  CopiesAreOwned' /\ FedPass' /\ MonitorPass' /\ RestPass'
  <2>1. UNCHANGED <<worldVars, seenProm, seen, sm, copyVars, auto, fed>>
        /\ seenService' = [seenService EXCEPT ![m] = service[m]]
    BY <1>7 DEF DeliverService
  <2>2. \A n \in Monitors : seenService'[n] = IF n = m THEN service[n] ELSE seenService[n]
    BY <2>1 DEF TypeOK
  <2>3. RestPass'
    BY <2>1, <2>2 DEF RestPass, worldVars
  <2>4. QED
    BY <2>1, <2>3, CopiesFrame DEF FedPass, MonitorPass, worldVars
<1>8. ASSUME NEW p \in Proms, DeliverProm(p)
      PROVE  CopiesAreOwned' /\ FedPass' /\ MonitorPass' /\ RestPass'
  <2>1. UNCHANGED <<worldVars, seen, seenService, sm, copyVars, auto, fed>>
        /\ seenProm' = [seenProm EXCEPT ![p] = IF prom[p] THEN "now" ELSE "none"]
    BY <1>8 DEF DeliverProm
  <2>2. RestPass'
    BY <2>1 DEF RestPass, TypeOK, Listing, worldVars
  <2>3. QED
    BY <2>1, <2>2, CopiesFrame DEF FedPass, MonitorPass, worldVars
<1>9. CASE Resync \/ Detect \/ UNCHANGED vars
  <2>1. UNCHANGED <<worldVars, cacheVars, sm, copyVars, auto, fed>>
    BY <1>9 DEF Resync, Detect, vars, workVars
  <2>2. QED
    BY <2>1, CopiesFrame DEF FedPass, MonitorPass, RestPass, worldVars, cacheVars
<1>10. CASE Restart
  <2>1. /\ UNCHANGED <<worldVars, sm, copyVars>>
        /\ seen' = sm /\ seenService' = service /\ auto' = AutoIdle /\ fed' = FedIdle
        /\ seenProm' = [p \in Proms |-> IF prom[p] THEN "now" ELSE "none"]
    BY <1>10 DEF Restart
  <2>2. RestPass' /\ FedPass'
    BY <2>1, IdlePass DEF RestPass, FedPass, worldVars
  <2>3. MonitorPass'
    BY <2>1 DEF MonitorPass
  <2>4. QED
    BY <2>1, <2>2, <2>3, CopiesFrame DEF worldVars
<1>11. ASSUME NEW m \in Monitors, AutoStart(m)
       PROVE  CopiesAreOwned' /\ FedPass' /\ MonitorPass' /\ RestPass'
  <2>1. UNCHANGED <<worldVars, cacheVars, sm, copyVars, fed>>
    BY <1>11 DEF AutoStart
  <2>2. \/ auto' = auto
        \/ seen[m].exists /\ auto'.local = seen[m]
    BY <1>11 DEF AutoStart
  <2>3. RestPass'
    BY <2>1, <2>2 DEF RestPass, MonitorPass, worldVars, cacheVars
  <2>4. QED
    BY <2>1, <2>3, CopiesFrame DEF FedPass, MonitorPass, worldVars, cacheVars
<1>12. CASE AutoLabel \/ AutoFault
  <2>1. /\ UNCHANGED <<worldVars, cacheVars, copyVars, fed>>
        /\ auto' = AutoIdle /\ auto.key # NoKey
    BY <1>12 DEF AutoLabel, AutoFault, AutoReturn
  <2>2. auto.key \in Monitors /\ auto.target \in Proms /\ auto.local \in Monitor
        /\ auto.local.version # 0
    BY <2>1 DEF TypeOK, RestPass
  <2>3. UNCHANGED seen
    BY <2>1 DEF cacheVars
  <2>4. MonitorPass'
    BY <1>12, <2>2, <2>3, LabelsPass DEF AutoLabel, AutoFault, MonitorPass
  <2>5. QED
    BY <2>1, <2>4, IdlePass, CopiesFrame DEF FedPass, RestPass, worldVars, cacheVars
<1>13. ASSUME NEW m \in Monitors, FedStart(m)
       PROVE  CopiesAreOwned' /\ FedPass' /\ MonitorPass' /\ RestPass'
  <2>1. UNCHANGED <<worldVars, cacheVars, sm, copyVars, auto>>
    BY <1>13 DEF FedStart
  <2>2. \/ fed' = fed
        \/ /\ seen[m].exists /\ fed'.local = seen[m] /\ fed'.service = seenService[m]
           /\ fed'.list = seenProm
    BY <1>13 DEF FedStart
  <2>3. FedPass'
    BY <2>1, <2>2 DEF FedPass, RestPass, MonitorPass, worldVars
  <2>4. QED
    BY <2>1, <2>3, CopiesFrame DEF RestPass, MonitorPass, worldVars, cacheVars
<1>14. CASE FedLabel
  <2>1. fed.key # NoKey /\ fed.local \in Monitor /\ fed.local.version # 0
    BY <1>14 DEF FedLabel, At, Mine, TypeOK, FedPass
  <2>2. fed.key \in Monitors /\ Here \in Proms
    BY <2>1, HereIn
  <2>3. UNCHANGED <<worldVars, cacheVars, copyVars, auto>>
    BY <1>14 DEF FedLabel
  <2>4. UNCHANGED <<seen, prom>>
    BY <2>3 DEF cacheVars, worldVars
  <2>5. MonitorPass' /\ FedPass'
    <3>1. CASE Labels(fed.key, Here, fed.local) /\ NextProm(sm'[fed.key], FALSE)
      <4>1. MonitorPass' /\ sm'[fed.key].version # 0
        BY <2>1, <2>2, <2>4, <3>1, LabelsPass
      <4>2. QED
        BY <2>1, <2>4, <3>1, <4>1, NextPromPass
    <3>2. CASE UNCHANGED sm /\ NextProm(fed.local, TRUE)
      BY <2>1, <2>4, <3>2, NextPromPass DEF MonitorPass
    <3>3. QED
      BY <1>14, <3>1, <3>2 DEF FedLabel
  <2>6. QED
    BY <2>3, <2>5, CopiesFrame DEF RestPass, worldVars, cacheVars
<1>15. CASE FedReject \/ FedFault
  <2>1. UNCHANGED <<worldVars, cacheVars, sm, copyVars, auto>> /\ fed.key # NoKey
    BY <1>15 DEF FedReject, FedFault, Mine, At
  <2>2. fed.local.version # 0 /\ UNCHANGED prom
    BY <2>1 DEF FedPass, worldVars
  <2>3. FedPass'
    BY <1>15, <2>2, FedReturnPass, NextStepPass, NextPromPass DEF FedReject, FedFault
  <2>4. QED
    BY <2>1, <2>3, CopiesFrame DEF MonitorPass, RestPass, worldVars, cacheVars
<1>16. CASE FedCopy
  <2>1. /\ UNCHANGED <<worldVars, cacheVars, sm, deps, auto>> /\ fed.key # NoKey
        /\ NextStep("service", FALSE)
    BY <1>16 DEF FedCopy, Mine, At
  <2>2. UNCHANGED <<deps, prom>>
    BY <2>1 DEF worldVars
  <2>3. FedPass'
    BY <2>1, <2>2, NextStepPass
  <2> DEFINE c == [version |-> fed.local.version, owner |-> fed.list[Here]]
  <2>4. copy' = [copy EXCEPT ![Here][fed.key] = c]
    BY <1>16 DEF FedCopy, Owner
  <2>5. Here \in Proms /\ fed.key \in Monitors /\ fed.list[Here] \in {"old", "now"}
    BY <2>1, HereIn
  <2>6. c \in Copy /\ c.version # 0 /\ (c.owner = "now" => prom[Here])
    BY <2>1, <2>5 DEF Copy, FedPass, TypeOK, Monitor
  <2>7. CopiesAreOwned'
    <3> HIDE DEF c
    <3>1. c \in Copy
      BY <2>6
    <3>2. QED
      BY <2>2, <2>4, <2>5, <2>6, <3>1, CopyOwned
  <2>8. QED
    BY <2>1, <2>3, <2>7 DEF MonitorPass, RestPass, worldVars, cacheVars
<1>17. CASE FedService \/ FedEndpoints \/ FedSecret
  <2>1. /\ UNCHANGED <<worldVars, cacheVars, sm, copy, auto>> /\ fed.key # NoKey
        /\ fed.service \in Nat /\ fed.service # 0 /\ fed.local.version # 0
    BY <1>17 DEF FedService, FedEndpoints, FedSecret, At, TypeOK, FedPass
  <2>2. UNCHANGED <<copy, prom>>
    BY <2>1 DEF worldVars
  <2>3. \/ UNCHANGED deps
        \/ \E x \in Dependents, n \in Nat : n # 0 /\ Depend(x, n)
    <3>1. CASE FedService
      BY <2>1, <3>1 DEF FedService, Dependents
    <3>2. CASE FedEndpoints
      BY <2>1, <3>2 DEF FedEndpoints, Dependents
    <3>3. CASE FedSecret
      <4>1. Depend("secret", 1) /\ "secret" \in Dependents /\ 1 \in Nat /\ 1 # 0
        BY <3>3 DEF FedSecret, Dependents
      <4>2. QED
        BY <4>1
    <3>4. QED
      BY <1>17, <3>1, <3>2, <3>3
  <2>4. CopiesAreOwned'
    BY <2>1, <2>2, <2>3, DependOwned, CopiesFrame DEF copyVars
  <2>5. FedPass'
    BY <1>17, <2>1, <2>2, FedReturnPass, NextStepPass, NextPromPass
    DEF FedService, FedEndpoints, FedSecret
  <2>6. QED
    BY <2>1, <2>4, <2>5 DEF MonitorPass, RestPass, worldVars, cacheVars
<1>18. QED
  BY <1>1, <1>2, <1>3, <1>4, <1>5, <1>6, <1>7, <1>8, <1>9, <1>10, <1>11, <1>12, <1>13, <1>14,
     <1>15, <1>16, <1>17
  DEF Next, User, Cluster, Informers, FedStep

-----------------------------------------------------------------------------
(* What rests: a monitor that is cached as it is and waits on no queue.       *)

\* A Prometheus that is replaced stays on the list, and the list decides.
LEMMA SameReads ==
  ASSUME NEW k, NEW l, Listed(k) = Listed(l), NEW m
  PROVE  /\ DefaultPrometheus(k) = DefaultPrometheus(l)
         /\ AutoTarget(m, k) = AutoTarget(m, l)
         /\ \A o : HasProm(m, o, k) <=> HasProm(m, o, l)
BY DEF DefaultPrometheus, AutoTarget, HasProm

LEMMA DeletePromList ==
  ASSUME TypeOK, NEW p \in Proms, DeleteProm(p)
  PROVE  /\ Listed(seenProm') = Listed(seenProm) /\ seenProm'[p] # "now"
         /\ \A q \in Proms \ {p} : seenProm'[q] = seenProm[q]
BY AgedType DEF DeleteProm, TypeOK

\* A Prometheus that is chosen may look into the namespace.
LEMMA TargetSelects ==
  ASSUME TypeOK, NEW m \in Monitors, AutoTarget(m, seenProm) # NoProm
  PROVE  /\ AutoTarget(m, seenProm) \in Listed(seenProm)
         /\ SelectsNamespace(AutoTarget(m, seenProm), m)
<1>1. AutoTarget(m, seenProm) \in Listed(seenProm)
  BY ReadTypes DEF TypeOK
<1>2. QED
  BY <1>1 DEF AutoTarget, SelectsNamespace

\* With no Prometheus there is none to choose.
LEMMA NoneListed ==
  ASSUME Listed(seenProm) = {}, NEW m
  PROVE  AutoTarget(m, seenProm) = NoProm /\ DefaultPrometheus(seenProm) = NoProm
BY DEF AutoTarget, DefaultPrometheus

\* The worker writes a label the cache does not show yet, or nothing.
LEMMA LabelsSteps ==
  ASSUME TypeOK, NEW n \in Monitors, NEW p \in Proms, NEW o, Labels(n, p, o),
         NEW m \in Monitors, seen[m].exists
  PROVE  \/ sm'[m] = sm[m] /\ (m = n => seen[m].release = p)
         \/ /\ m = n /\ sm[m].exists /\ sm'[m].exists
            /\ sm'[m].version = sm[m].version /\ sm'[m].release = p /\ seen[m].release # p
<1>1. sm \in [Monitors -> Monitor] /\ sm[n] \in Monitor
  BY DEF TypeOK
<1>2. CASE m # n
  <2>1. PICK v : sm' = [sm EXCEPT ![n] = v]
    BY DEF Labels
  <2>2. QED
    BY <1>1, <1>2, <2>1
<1>3. CASE m = n
  <2>1. /\ sm[n].exists
        /\ sm' = [sm EXCEPT ![n].release = IF seen[n].release = p THEN @ ELSE p]
    BY <1>3 DEF Labels
  <2>2. CASE seen[n].release = p
    BY <1>1, <1>3, <2>1, <2>2 DEF Monitor
  <2>3. CASE seen[n].release # p
    <3>1. sm' = [sm EXCEPT ![n].release = p]
      BY <2>1, <2>3
    <3>2. QED
      BY <1>1, <1>3, <2>1, <2>3, <3>1 DEF Monitor
  <2>4. QED
    BY <2>2, <2>3
<1>4. QED
  BY <1>2, <1>3

\* Until the cache learns of it, what it has not seen stays unseen: labels are
\* only written where they differ from the cached ones, and versions grow.
LEMMA UnseenStays ==
  ASSUME TypeOK, [Next]_vars, NEW m \in Monitors, seen'[m] = seen[m], seen[m].exists,
         sm[m].exists => seen[m].version <= sm[m].version
  PROVE  /\ Unseen(m) => Unseen(m)'
         /\ Outdated(m) => Outdated(m)'
         /\ sm'[m].exists => seen'[m].version <= sm'[m].version
<1>0. sm \in [Monitors -> Monitor] /\ sm[m] \in Monitor /\ seen[m] \in Monitor
  BY DEF TypeOK
<1>1. CASE sm'[m] = sm[m]
  BY <1>1 DEF Unseen, Outdated
<1>2. ASSUME NEW n \in Monitors, Relabel(n)
      PROVE  sm'[m] = sm[m] \/ /\ sm'[m].exists = sm[m].exists
                               /\ sm'[m].version = sm[m].version
                               /\ sm'[m].release = sm[m].release
  BY <1>0, <1>2 DEF Relabel, Monitor
<1>3. ASSUME NEW n \in Monitors, Edit(n)
      PROVE  sm'[m] = sm[m] \/ /\ sm'[m].exists = sm[m].exists
                               /\ sm'[m].version = sm[m].version + 1
                               /\ sm'[m].release = sm[m].release
  BY <1>0, <1>3 DEF Edit, Monitor
<1>4. ASSUME NEW n \in Monitors, Delete(n) PROVE sm'[m] = sm[m] \/ ~sm'[m].exists
  BY <1>0, <1>4 DEF Delete, Absent
<1>5. ASSUME AutoLabel \/ FedLabel, sm'[m] # sm[m]
      PROVE  /\ sm[m].exists /\ sm'[m].exists /\ sm'[m].version = sm[m].version
             /\ sm'[m].release # seen[m].release
  <2>1. PICK n \in Monitors, q \in Proms : \E o : Labels(n, q, o)
    <3>1. CASE AutoLabel
      <4>1. auto.key \in Monitors /\ auto.target \in Proms
        BY <3>1 DEF AutoLabel, TypeOK
      <4>2. Labels(auto.key, auto.target, auto.local)
        BY <1>5, <3>1 DEF AutoLabel
      <4>3. QED
        BY <4>1, <4>2
    <3>2. CASE FedLabel
      <4>1. fed.key \in Monitors /\ Here \in Proms
        BY <3>2, HereIn DEF FedLabel, At
      <4>2. Labels(fed.key, Here, fed.local)
        BY <1>5, <3>2 DEF FedLabel
      <4>3. QED
        BY <4>1, <4>2
    <3>3. QED
      BY <1>5, <3>1, <3>2
  <2>2. QED
    BY <1>5, <2>1, LabelsSteps
<1>6. CASE UNCHANGED sm
  BY <1>1, <1>6
<1>7. CASE sm'[m] # sm[m]
  <2>1. \/ /\ sm'[m].exists = sm[m].exists
           /\ sm'[m].version \in {sm[m].version, sm[m].version + 1}
           /\ sm'[m].release = sm[m].release \/ sm'[m].release # seen[m].release
        \/ ~sm'[m].exists
    BY <1>2, <1>3, <1>4, <1>5, <1>7
       DEF Next, User, EditService, Move, CreateProm, DeleteProm, Cluster, Catchup, Collect,
       Informers, DeliverMonitor, DeliverService, DeliverProm, Resync, Detect, Restart, AutoStart, AutoFault,
       FedStart, FedStep, FedReject, FedCopy, FedService, FedEndpoints, FedSecret, FedFault, vars
  <2>2. sm[m].version \in Nat /\ seen[m].version \in Nat
    BY <1>0 DEF Monitor
  <2>3. QED
    BY <2>1, <2>2 DEF Unseen, Outdated
<1>8. QED
  BY <1>1, <1>7

\* A detector that is asked decides, unless there is no Prometheus, or not yet
\* OpenShift's: then the cache does not show the present one.
LEMMA Decides ==
  ASSUME PassInv, ~Missable, ~Undetected
  PROVE  Detected # "unknown"
<1>1. CASE platform = "openshift"
  <2>1. Primary \in Existing
    BY <1>1, MonitorsAssumption DEF Missable, PassInv, Existing
  <2>2. QED
    BY <1>1, <2>1 DEF Detected
<1>2. CASE platform # "openshift"
  BY <1>2 DEF Detected, Undetected
<1>3. QED
  BY <1>1, <1>2

\* The detector decides once.
LEMMA ModeSteps ==
  ASSUME TypeOK, [Next]_vars, ~Restart
  PROVE  /\ UNCHANGED <<platform, inside>> /\ moved \subseteq moved'
         /\ \A m \in Monitors : m \in moved' \/ project'[m] = project[m]
         /\ mode' = mode \/ (mode = "unknown" /\ mode' = Detected)
<1> USE DEF worldVars, cacheVars, workVars, copyVars
<1>1. UNCHANGED <<platform, inside>>
  BY DEF Next, User, Relabel, Edit, Delete, EditService, Move, CreateProm, DeleteProm, Cluster, Catchup,
     Collect, Informers, DeliverMonitor, DeliverService, DeliverProm, Resync, Detect, AutoStart, AutoLabel,
     AutoFault, FedStart, FedStep, FedLabel, FedReject, FedCopy, FedService, FedEndpoints, FedSecret,
     FedFault, vars
<1>2. ASSUME NEW m \in Monitors, Move(m)
      PROVE  /\ moved \subseteq moved' /\ mode' = mode
             /\ \A n \in Monitors : n \in moved' \/ project'[n] = project[n]
  BY <1>2 DEF Move, TypeOK
<1>3. ASSUME NEW m \in Monitors, AutoStart(m) \/ FedStart(m)
      PROVE  /\ UNCHANGED <<moved, project>>
             /\ mode' = mode \/ (mode = "unknown" /\ mode' = Detected)
  BY <1>3 DEF AutoStart, FedStart, Detected
<1>4. CASE UNCHANGED <<moved, project, mode>>
  BY <1>1, <1>4
<1>5. CASE Detect
  BY <1>1, <1>5 DEF Detect
<1>6. QED
  BY <1>1, <1>2, <1>3, <1>4, <1>5
     DEF Next, User, Relabel, Edit, Delete, EditService, CreateProm, DeleteProm, Cluster, Catchup,
     Collect, Informers, DeliverMonitor, DeliverService, DeliverProm, Resync, Detect, AutoLabel,
     AutoFault, FedStep, FedLabel, FedReject, FedCopy, FedService, FedEndpoints, FedSecret,
     FedFault, vars

\* Whatever AutoReconciler's caches tell of an auto monitor puts it on the queue.
LEMMA AutoStill ==
  ASSUME TypeOK, [Next]_vars, NEW m \in Monitors,
         seen'[m].exists, seen'[m].kind = "auto", m \notin autoQueue'
  PROVE  /\ seen'[m] = seen[m] /\ ~Restart
         /\ seenProm' = seenProm \/ \E p \in Proms : DeleteProm(p)
         /\ m \notin autoQueue \/ AutoStart(m)
<1> USE DEF worldVars, cacheVars, workVars, copyVars
<1>1. ~Restart
  BY DEF Restart, OfKind
<1>2. ASSUME NEW n \in Monitors, DeliverMonitor(n)
      PROVE  seen'[m] = seen[m] /\ seenProm' = seenProm /\ m \notin autoQueue
  <2>1. seenProm' = seenProm /\ autoQueue \subseteq autoQueue'
    BY <1>2 DEF DeliverMonitor
  <2>2. CASE n = m
    BY <1>2, <2>2 DEF DeliverMonitor, TypeOK
  <2>3. CASE n # m
    BY <1>2, <2>1, <2>3 DEF DeliverMonitor, TypeOK
  <2>4. QED
    BY <2>2, <2>3
<1>3. ASSUME NEW p \in Proms, DeliverProm(p) PROVE FALSE
  BY <1>3 DEF DeliverProm, MonitorsForPrometheus, OfKind
<1>4. ASSUME NEW n \in Monitors, AutoStart(n)
      PROVE  seen' = seen /\ seenProm' = seenProm /\ (m \notin autoQueue \/ n = m)
  BY <1>4 DEF AutoStart
<1>5. CASE Resync
  BY <1>1, <1>5 DEF Resync
<1>6. CASE AutoLabel \/ AutoFault
  BY <1>1, <1>6 DEF AutoLabel, AutoFault, AutoReturn
<1>7. CASE UNCHANGED <<seen, seenProm, autoQueue>>
  BY <1>1, <1>7
<1>8. ASSUME NEW p \in Proms, DeleteProm(p) PROVE UNCHANGED <<seen, autoQueue>>
  BY <1>8 DEF DeleteProm
<1>9. QED
  BY <1>1, <1>2, <1>3, <1>4, <1>5, <1>6, <1>7, <1>8
     DEF Next, User, Relabel, Edit, Delete, EditService, Move, CreateProm, Cluster, Catchup,
     Collect, Informers, DeliverService, Detect, FedStart, FedStep, FedLabel, FedReject, FedCopy,
     FedService, FedEndpoints, FedSecret, FedFault, vars

LEMMA SeenPromStill ==
  ASSUME TypeOK, seenProm' = seenProm \/ \E p \in Proms : DeleteProm(p), UNCHANGED platform
  PROVE  Listed(seenProm') = Listed(seenProm) /\ (Missable => Missable')
<1>1. Listed(seenProm') = Listed(seenProm)
  BY DeletePromList
<1>2. seenProm'[Primary] \in {seenProm[Primary]} \/ seenProm'[Primary] # "now"
  BY DeletePromList, MonitorsAssumption
<1>3. QED
  BY <1>1, <1>2 DEF Missable

\* AutoReconciler's worker keeps, drops or takes a key.
LEMMA AutoSteps ==
  ASSUME TypeOK, [Next]_vars, ~Restart
  PROVE  \/ auto' = auto
         \/ \E n \in Monitors : AutoStart(n)
         \/ auto.key # NoKey /\ AutoLabel
         \/ auto.key # NoKey /\ auto.key \in autoQueue'
BY DEF Next, User, Relabel, Edit, Delete, EditService, Move, CreateProm, DeleteProm, Cluster, Catchup,
     Collect, Informers, DeliverMonitor, DeliverService, DeliverProm, Resync, Detect, AutoLabel, AutoReturn,
     AutoFault, FedStart, FedStep, FedLabel, FedReject, FedCopy, FedService, FedEndpoints, FedSecret,
     FedFault, worldVars, cacheVars, workVars, copyVars, vars

LEMMA NextAuto ==
  ASSUME TypeOK, TypeOK', PassInv, [Next]_vars, NEW m \in Monitors, AutoInv(m), FedInv(m)
  PROVE  AutoInv(m)'
<1> USE MonitorsAssumption
<1> SUFFICES ASSUME seen'[m].exists, seen'[m].kind = "auto", m \notin autoQueue', ~Missable'
             PROVE  /\ mode' # "unknown"
                    /\ m \notin moved' =>
                          IF auto'.key = m
                          THEN auto'.target \in Listed(seenProm)' /\ SelectsNamespace(auto.target, m)'
                          ELSE \/ HasProm(m, seen[m], seenProm)' \/ Unseen(m)'
                               \/ AutoTarget(m, seenProm)' = NoProm
  BY DEF AutoInv
<1>0. /\ seen'[m] = seen[m] /\ ~Restart /\ (m \notin autoQueue \/ AutoStart(m))
      /\ seenProm' = seenProm \/ \E p \in Proms : DeleteProm(p)
  BY AutoStill
<1>1. /\ seen'[m] = seen[m] /\ ~Restart /\ (m \notin autoQueue \/ AutoStart(m))
      /\ Listed(seenProm') = Listed(seenProm) /\ ~Missable
      /\ UNCHANGED platform
      /\ m \notin moved' => m \notin moved /\ project'[m] = project[m]
      /\ mode' = mode \/ mode = "unknown"
  BY <1>0, SeenPromStill, ModeSteps
<1>2. /\ Listed(seenProm)' = Listed(seenProm)
      /\ m \notin moved' =>
            /\ AutoTarget(m, seenProm)' = AutoTarget(m, seenProm)
            /\ HasProm(m, seen[m], seenProm)' <=> HasProm(m, seen[m], seenProm)
            /\ \A p : SelectsNamespace(p, m) <=> p = Primary \/ platform' # "rancher" \/ project'[m] = p
  <2>1. Listed(seenProm)' = Listed(seenProm)
    BY <1>1 DEF Listed
  <2>4. m \notin moved' => AutoTarget(m, seenProm)' = AutoTarget(m, seenProm)
    BY <1>1, <2>1 DEF AutoTarget, DefaultPrometheus
  <2>5. m \notin moved' => (HasProm(m, seen[m], seenProm)' <=> HasProm(m, seen[m], seenProm))
    BY <1>1, <2>1 DEF HasProm, SelectsNamespace
  <2>6. QED
    BY <1>1, <2>1, <2>4, <2>5 DEF SelectsNamespace
<1>3. Unseen(m) => Unseen(m)'
  BY <1>1, UnseenStays DEF FedInv
<1>4. CASE AutoStart(m)
  <2>0. mode' = Detected /\ auto.key = NoKey /\ ~Undetected
    BY <1>1, <1>4 DEF AutoStart
  <2>1. /\ mode' # "unknown" /\ auto.key = NoKey
        /\ auto' = IF /\ Listed(seenProm) # {}
                      /\ ~HasProm(m, seen[m], seenProm) /\ AutoTarget(m, seenProm) # NoProm
                   THEN [key |-> m, local |-> seen[m], target |-> AutoTarget(m, seenProm)]
                   ELSE auto
    BY <1>1, <1>4, <2>0, Decides DEF AutoStart
  <2>2. CASE auto' = auto
    <3>1. auto'.key # m
      BY <2>1, <2>2
    <3>2. HasProm(m, seen[m], seenProm) \/ AutoTarget(m, seenProm) = NoProm
      BY <2>1, <3>1, NoneListed
    <3>3. QED
      BY <1>2, <2>1, <3>1, <3>2
  <2>3. CASE auto' # auto
    <3>1. /\ auto'.key = m /\ auto'.target = AutoTarget(m, seenProm)
          /\ AutoTarget(m, seenProm) # NoProm
      BY <2>1, <2>3
    <3>2. auto'.target \in Listed(seenProm) /\ SelectsNamespace(auto'.target, m)
      BY <3>1, TargetSelects
    <3>3. QED
      BY <1>1, <1>2, <2>1, <3>1, <3>2 DEF SelectsNamespace
  <2>4. QED
    BY <2>2, <2>3
<1>5. CASE m \notin autoQueue /\ ~AutoStart(m)
  <2>1. mode # "unknown"
    BY <1>1, <1>5 DEF AutoInv
  <2>2. mode' = mode
    BY <1>1, <2>1
  <2>3. m \notin moved' =>
           IF auto.key = m
           THEN auto.target \in Listed(seenProm) /\ SelectsNamespace(auto.target, m)
           ELSE \/ HasProm(m, seen[m], seenProm) \/ Unseen(m)
                \/ AutoTarget(m, seenProm) = NoProm
    BY <1>1, <1>5 DEF AutoInv
  <2>4. CASE auto' = auto
    BY <1>1, <1>2, <1>3, <2>1, <2>2, <2>3, <2>4 DEF SelectsNamespace
  <2>5. ASSUME NEW n \in Monitors, AutoStart(n), auto' # auto
        PROVE  auto.key # m /\ auto'.key # m
    BY <1>5, <2>5 DEF AutoStart
  <2>6. ASSUME auto.key # NoKey, auto' # auto, AutoLabel \/ auto.key \in autoQueue'
        PROVE  /\ auto'.key # m \/ auto.key \in autoQueue'
               /\ auto.key = m => AutoLabel
    BY <1>5, <2>6 DEF AutoLabel, AutoReturn, AutoIdle
  <2>7. CASE auto.key # m /\ auto'.key # m
    BY <1>1, <1>2, <1>3, <2>1, <2>2, <2>3, <2>7
  <2>8. CASE AutoLabel /\ auto.key = m
    <3>1. /\ CanLabel(m) /\ Labels(m, auto.target, auto.local) /\ auto' = AutoIdle
          /\ auto.target \in Proms
      BY <1>5, <2>8 DEF AutoLabel, AutoReturn, TypeOK
    <3>2. auto'.key # m
      BY <3>1, IdleTypes
    <3>3. (sm'[m] = sm[m] /\ seen[m].release = auto.target) \/ Unseen(m)'
      BY <1>1, <3>1, LabelsSteps DEF Unseen
    <3>4. m \notin moved' => HasProm(m, seen[m], seenProm) \/ Unseen(m)'
      BY <2>3, <2>8, <3>3 DEF HasProm
    <3>5. QED
      BY <1>1, <1>2, <2>1, <2>2, <3>2, <3>4
  <2>9. QED
    <3>1. auto' = auto \/ auto.key # m \/ AutoLabel
      BY <1>1, <2>5, <2>6, AutoSteps
    <3>2. auto.key # m => auto' = auto \/ auto'.key # m
      <4>1. ASSUME auto.key # NoKey, auto' # auto, auto'.key = m, auto.key # m PROVE FALSE
        <5>1. AutoLabel \/ AutoFault
          BY <1>1, <4>1 DEF Next, User, Relabel, Edit, Delete, EditService, Move, CreateProm, DeleteProm,
             Cluster, Catchup, Collect, Informers, DeliverMonitor, DeliverService, DeliverProm, Resync, Detect,
             AutoStart, FedStart, FedStep, FedLabel, FedReject, FedCopy, FedService, FedEndpoints,
             FedSecret, FedFault, worldVars, cacheVars, workVars, copyVars, vars
        <5>2. auto' = AutoIdle
          BY <5>1 DEF AutoLabel, AutoFault, AutoReturn
        <5>3. QED
          BY <4>1, <5>2, IdleTypes
      <4>2. QED
        BY <1>1, <2>5, <4>1, AutoSteps
    <3>3. QED
      BY <2>4, <2>7, <2>8, <3>1, <3>2
<1>6. QED
  BY <1>1, <1>4, <1>5

-----------------------------------------------------------------------------
\* Whatever FederationReconciler's caches tell of a federated monitor puts it on
\* the queue.
LEMMA FedStill ==
  ASSUME TypeOK, [Next]_vars, NEW m \in Monitors,
         seen'[m].exists, seen'[m].kind = "federated", m \notin fedQueue'
  PROVE  /\ seen'[m] = seen[m] /\ seenService'[m] = seenService[m] /\ ~Restart
         /\ seenProm' = seenProm \/ \E p \in Proms : DeleteProm(p)
         /\ m \notin fedQueue \/ FedStart(m)
<1> USE DEF worldVars, cacheVars, workVars, copyVars
<1>1. ~Restart
  BY DEF Restart, OfKind
<1>2. ASSUME NEW n \in Monitors, DeliverMonitor(n)
      PROVE  seen'[m] = seen[m] /\ UNCHANGED <<seenService, seenProm>> /\ m \notin fedQueue
  <2>1. UNCHANGED <<seenService, seenProm>> /\ fedQueue \subseteq fedQueue'
    BY <1>2 DEF DeliverMonitor
  <2>2. CASE n = m
    BY <1>2, <2>2 DEF DeliverMonitor, TypeOK
  <2>3. CASE n # m
    BY <1>2, <2>1, <2>3 DEF DeliverMonitor, TypeOK
  <2>4. QED
    BY <2>2, <2>3
<1>3. ASSUME NEW p \in Proms, DeliverProm(p) PROVE FALSE
  BY <1>3 DEF DeliverProm, MonitorsForPrometheus, OfKind
<1>4. ASSUME NEW n \in Monitors, DeliverService(n)
      PROVE  UNCHANGED <<seen, seenProm>> /\ seenService'[m] = seenService[m] /\ m \notin fedQueue
  <2>1. UNCHANGED <<seen, seenProm>> /\ fedQueue \subseteq fedQueue'
    BY <1>4 DEF DeliverService
  <2>2. CASE n = m
    BY <1>4, <2>1, <2>2 DEF DeliverService, OfKind
  <2>3. CASE n # m
    BY <1>4, <2>1, <2>3 DEF DeliverService, TypeOK
  <2>4. QED
    BY <2>1, <2>2, <2>3
<1>5. ASSUME NEW n \in Monitors, FedStart(n)
      PROVE  UNCHANGED <<seen, seenService, seenProm>> /\ (m \notin fedQueue \/ n = m)
  BY <1>5 DEF FedStart
<1>6. CASE Resync
  BY <1>1, <1>6 DEF Resync
<1>7. CASE FedStep \/ FedFault
  <2>1. UNCHANGED <<seen, seenService, seenProm>>
    BY <1>7 DEF FedStep, FedLabel, FedReject, FedCopy, FedService, FedEndpoints, FedSecret, FedFault
  <2>2. fedQueue \subseteq fedQueue'
    BY <1>7 DEF FedStep, FedLabel, FedReject, FedCopy, FedService, FedEndpoints, FedSecret, FedFault,
       NextProm, NextStep, FedReturn
  <2>3. QED
    BY <1>1, <2>1, <2>2
<1>8. CASE UNCHANGED <<seen, seenService, seenProm, fedQueue>>
  BY <1>1, <1>8
<1>9. ASSUME NEW p \in Proms, DeleteProm(p) PROVE UNCHANGED <<seen, seenService, fedQueue>>
  BY <1>9 DEF DeleteProm
<1>10. QED
  BY <1>1, <1>2, <1>3, <1>4, <1>5, <1>6, <1>7, <1>8, <1>9
     DEF Next, User, Relabel, Edit, Delete, EditService, Move, CreateProm, Cluster, Catchup,
     Collect, Informers, Detect, AutoStart, AutoLabel, AutoFault, vars

\* FederationReconciler's worker goes on, takes a key, or is left alone.
LEMMA FedSteps ==
  ASSUME TypeOK, [Next]_vars, ~Restart
  PROVE  \/ fed' = fed
         \/ \E p \in Proms : DeleteProm(p)
         \/ \E n \in Monitors : FedStart(n)
         \/ fed.key # NoKey /\ (FedStep \/ FedFault)
<1>1. FedStep \/ FedFault => fed.key # NoKey
  BY DEF FedStep, FedLabel, FedReject, FedCopy, FedService, FedEndpoints, FedSecret, FedFault, At, Mine
<1>2. QED
  BY <1>1
     DEF Next, User, Relabel, Edit, Delete, EditService, Move, CreateProm, Cluster, Catchup,
     Collect, Informers, DeliverMonitor, DeliverService, DeliverProm, Resync, Detect, AutoStart, AutoLabel,
     AutoFault, worldVars, cacheVars, workVars, copyVars, vars

\* What the steps of the loop leave of the worker.
LEMMA FedGoes ==
  ASSUME TypeOK, fed.key # NoKey, FedStep \/ FedFault
  PROVE  /\ UNCHANGED <<seen, seenService, seenProm, mode>>
         /\ fed' = FedIdle \/ (fed'.key = fed.key /\ fed'.list = fed.list /\ fed'.service = fed.service)
<1>1. UNCHANGED <<seen, seenService, seenProm, mode>>
  BY DEF FedStep, FedLabel, FedReject, FedCopy, FedService, FedEndpoints, FedSecret, FedFault,
     worldVars, cacheVars, workVars, copyVars
<1>2. (\E o, f : NextProm(o, f)) \/ (\E s, f : NextStep(s, f)) \/ (\E r : FedReturn(r))
  BY DEF FedStep, FedLabel, FedReject, FedCopy, FedService, FedEndpoints, FedSecret, FedFault
<1>3. ASSUME NEW o, NEW f, NextProm(o, f)
      PROVE  fed' = FedIdle \/ (fed'.key = fed.key /\ fed'.list = fed.list /\ fed'.service = fed.service)
  BY <1>3 DEF NextProm, FedReturn, TypeOK
<1>4. ASSUME NEW s, NEW f, NextStep(s, f)
      PROVE  fed'.key = fed.key /\ fed'.list = fed.list /\ fed'.service = fed.service
  BY <1>4 DEF NextStep, TypeOK
<1>5. ASSUME NEW r, FedReturn(r) PROVE fed' = FedIdle
  BY <1>5 DEF FedReturn
<1>6. QED
  BY <1>1, <1>2, <1>3, <1>4, <1>5

LEMMA NextVersion ==
  ASSUME TypeOK, TypeOK', [Next]_vars, NEW m \in Monitors, FedInv(m),
         seen'[m].exists, sm'[m].exists
  PROVE  seen'[m].version <= sm'[m].version
<1>1. CASE seen'[m] = seen[m]
  BY <1>1, UnseenStays DEF FedInv
<1>2. CASE seen'[m] # seen[m]
  <2>1. seen'[m] = sm[m] /\ sm'[m] = sm[m]
    <3>1. ASSUME NEW n \in Monitors, DeliverMonitor(n) PROVE seen'[m] = sm[m] /\ sm'[m] = sm[m]
      <4>1. seen' = [seen EXCEPT ![n] = sm[n]] /\ sm' = sm
        BY <3>1 DEF DeliverMonitor
      <4>2. QED
        BY <1>2, <4>1 DEF TypeOK
    <3>2. CASE Restart
      BY <3>2 DEF Restart
    <3>3. QED
      BY <1>2, <3>1, <3>2
         DEF Next, User, Relabel, Edit, Delete, EditService, Move, CreateProm, DeleteProm, Cluster,
         Catchup, Collect, Informers, DeliverService, DeliverProm, Resync, Detect, AutoStart, AutoLabel,
         AutoFault, FedStart, FedStep, FedLabel, FedReject, FedCopy, FedService, FedEndpoints,
         FedSecret, FedFault, worldVars, cacheVars, workVars, copyVars, vars
  <2>2. sm[m].version \in Nat
    BY DEF TypeOK, Monitor
  <2>3. QED
    BY <2>1, <2>2
<1>3. QED
  BY <1>1, <1>2

\* What has been copied stays, whatever happens to copies and dependents
\* elsewhere: the garbage collector takes what is owned by nobody that exists.
LEMMA CompleteStays ==
  ASSUME TypeOK, [Next]_vars, NEW m \in Monitors, NEW p \in Proms,
         seen'[m] = seen[m], seenService'[m] = seenService[m], Outdated(m) => Outdated(m)',
         seenProm' = seenProm \/ \E q \in Proms : DeleteProm(q),
         ~(fed.key = m /\ Here = p /\ (FedCopy \/ FedService \/ FedEndpoints \/ FedSecret)), ~Restart
  PROVE  /\ CopyDone(p, m) => CopyDone(p, m)'
         /\ \A x \in Dependents : CopyDone(p, m) /\ DependentDone(x, p, m) => DependentDone(x, p, m)'
<1> USE DEF worldVars, cacheVars, workVars, copyVars
<1> SUFFICES ASSUME seenProm'[p] = "now"
             PROVE  /\ CopyDone(p, m) => CopyDone(p, m)'
                    /\ \A x \in Dependents :
                          CopyDone(p, m) /\ DependentDone(x, p, m) => DependentDone(x, p, m)'
  BY DEF CopyDone, DependentDone
<1>1. seenProm[p] = "now"
  BY DeletePromList
<1>2. CASE copy'[p][m] = copy[p][m] /\ deps'[p][m] = deps[p][m]
  BY <1>1, <1>2 DEF CopyDone, DependentDone
<1>3. ASSUME NEW q \in Proms, DeleteProm(q) PROVE copy'[p][m] = copy[p][m] /\ deps'[p][m] = deps[p][m]
  <2>1. q # p
    BY <1>3, DeletePromList
  <2>2. copy' = [copy EXCEPT ![q] = [n \in Monitors |-> [@[n] EXCEPT !.owner = "old"]]] /\ deps' = deps
    BY <1>3 DEF DeleteProm
  <2>3. QED
    BY <2>1, <2>2 DEF TypeOK
<1>4. ASSUME NEW q \in Proms, NEW n \in Monitors, Collect(q, n), CopyDone(p, m)
      PROVE  /\ CopyDone(p, m)'
             /\ \A x \in Dependents : DependentDone(x, p, m) => DependentDone(x, p, m)'
  <2>1. copy[p][m].owner = "now"
    BY <1>1, <1>4 DEF CopyDone
  <2>2. deps[q][n] \in Deps
    BY DEF TypeOK
  <2>3. CASE /\ copy[q][n].owner = "old"
             /\ copy' = [copy EXCEPT ![q][n] = [version |-> 0, owner |-> "old"]]
             /\ deps' = [deps EXCEPT ![q][n] = [@ EXCEPT !.mine = {}]]
    <3>1. q # p \/ n # m
      BY <2>1, <2>3
    <3>2. [version |-> 0, owner |-> "old"] \in Copy /\ [deps[q][n] EXCEPT !.mine = {}] \in Deps
      BY <2>2 DEF Copy, Deps
    <3>3. copy'[p][m] = copy[p][m]
      BY <2>3, <3>1, <3>2, CopyType
    <3>4. deps'[p][m] = deps[p][m]
      BY <2>3, <3>1, <3>2, DepsType
    <3>5. QED
      BY <1>2, <1>4, <3>3, <3>4
  <2>4. ASSUME NEW x \in Dependents \ deps[q][n].mine, UNCHANGED copy,
               deps' = [deps EXCEPT ![q][n] = Written(@, x, 0, FALSE)]
        PROVE  /\ CopyDone(p, m)'
               /\ \A y \in Dependents : DependentDone(y, p, m) => DependentDone(y, p, m)'
    <3>1. /\ Written(deps[q][n], x, 0, FALSE) \in Deps
          /\ Written(deps[q][n], x, 0, FALSE).mine = deps[q][n].mine \ {x}
          /\ \A y \in Dependents \ {x} :
                Written(deps[q][n], x, 0, FALSE).has[y] = deps[q][n].has[y]
      BY <2>2 DEF Deps, Written
    <3>2. /\ deps'[q][n] = Written(deps[q][n], x, 0, FALSE)
          /\ (p # q \/ m # n) => deps'[p][m] = deps[p][m]
      <4> DEFINE d == Written(deps[q][n], x, 0, FALSE)
      <4>1. d \in Deps /\ deps' = [deps EXCEPT ![q][n] = d]
        BY <2>4, <3>1
      <4> HIDE DEF d
      <4>2. deps'[q][n] = d /\ ((p # q \/ m # n) => deps'[p][m] = deps[p][m])
        <5>1. deps \in [Proms -> [Monitors -> Deps]]
          BY DEF TypeOK
        <5>2. QED
          BY <4>1, <5>1
      <4>3. QED
        BY <4>2 DEF d
    <3>3. copy'[p][m] = copy[p][m] /\ CopyDone(p, m)'
      BY <1>1, <1>4, <2>4 DEF CopyDone
    <3>4. CASE p # q \/ m # n
      BY <1>2, <1>4, <3>2, <3>3, <3>4
    <3>5. CASE p = q /\ m = n
      <4>1. ASSUME NEW y \in Dependents, DependentDone(y, p, m) PROVE DependentDone(y, p, m)'
        <5>1. y \in deps[p][m].mine /\ y # x
          BY <1>1, <2>4, <3>5, <4>1 DEF DependentDone
        <5>2. y \in deps'[p][m].mine /\ deps'[p][m].has[y] = deps[p][m].has[y]
          BY <3>1, <3>2, <3>5, <5>1
        <5>3. QED
          BY <1>1, <4>1, <5>2 DEF DependentDone
      <4>2. QED
        BY <3>3, <4>1
    <3>6. QED
      BY <3>4, <3>5
  <2>5. QED
    BY <1>4, <2>3, <2>4 DEF Collect
<1>5. CASE FedCopy
  <2>1. /\ fed.key \in Monitors /\ Here \in Proms /\ (p # Here \/ m # fed.key)
        /\ fed.local.version \in Nat /\ fed.list[Here] \in {"old", "now"}
    BY <1>5, HereIn DEF FedCopy, Mine, At, TypeOK, Monitor
  <2>2. [version |-> fed.local.version, owner |-> fed.list[Here]] \in Copy
    BY <2>1 DEF Copy
  <2>3. copy' = [copy EXCEPT ![Here][fed.key] = [version |-> fed.local.version, owner |-> fed.list[Here]]]
        /\ deps' = deps
    BY <1>5 DEF FedCopy, Owner
  <2>4. copy'[p][m] = copy[p][m]
    BY <2>1, <2>2, <2>3, CopyType
  <2>5. QED
    BY <1>2, <2>3, <2>4
<1>6. CASE FedService \/ FedEndpoints \/ FedSecret
  <2>1. fed.key # NoKey /\ UNCHANGED copy
    BY <1>6 DEF FedService, FedEndpoints, FedSecret, At
  <2>2. fed.key \in Monitors /\ Here \in Proms /\ (p # Here \/ m # fed.key)
    BY <1>6, <2>1, HereIn
  <2>3. UNCHANGED deps \/ \E x \in Dependents, n \in Nat : Depend(x, n)
    <3>1. fed.service \in Nat /\ 1 \in Nat
      BY DEF TypeOK
    <3>2. "service" \in Dependents /\ "endpoints" \in Dependents /\ "secret" \in Dependents
      BY DEF Dependents
    <3>3. QED
      BY <1>6, <3>1, <3>2 DEF FedService, FedEndpoints, FedSecret
  <2>4. deps'[p][m] = deps[p][m]
    <3>1. ASSUME NEW x \in Dependents, NEW n \in Nat, Depend(x, n) PROVE deps'[p][m] = deps[p][m]
      BY <2>1, <2>2, <3>1, DependType, DepsType
    <3>2. QED
      BY <2>3, <3>1
  <2>5. QED
    BY <1>2, <2>1, <2>4
<1>7. CASE UNCHANGED <<copy, deps>>
  BY <1>2, <1>7
<1>8. QED
  BY <1>2, <1>3, <1>4, <1>5, <1>6, <1>7
     DEF Next, User, Relabel, Edit, Delete, EditService, Move, CreateProm, Cluster, Catchup,
     Informers, DeliverMonitor, DeliverService, DeliverProm, Resync, Detect, AutoStart, AutoLabel,
     AutoFault, FedStart, FedStep, FedLabel, FedReject, FedFault, vars

\* A worker only runs once the detector has decided, and accordingly.
LEMMA NextWork == TypeOK /\ TypeOK' /\ [Next]_vars /\ WorkInv => WorkInv'
<1> SUFFICES ASSUME TypeOK, TypeOK', [Next]_vars, WorkInv
             PROVE  WorkInv'
  OBVIOUS
<1>0. mode' = "federated" => platform' = "rancher"
  <2>1. CASE Restart
    BY <2>1 DEF Restart
  <2>2. CASE ~Restart
    BY <2>2, ModeSteps DEF WorkInv, Detected
  <2>3. QED
    BY <2>1, <2>2
<1> SUFFICES ASSUME fed'.key # NoKey
             PROVE  /\ mode' # "unknown" /\ (fed'.step = "label" <=> mode' # "federated")
                    /\ fed'.step = "label" => fed'.left = {Here'}
  BY <1>0 DEF WorkInv
<1>1. ~Restart
  BY IdleTypes DEF Restart
<1>2. fed.key # NoKey => mode' = mode
  BY <1>1, ModeSteps DEF WorkInv
<1>3. ASSUME NEW p \in Proms, DeleteProm(p)
      PROVE  fed'.key = fed.key /\ fed'.step = fed.step /\ fed'.left = fed.left
  BY <1>3 DEF DeleteProm, TypeOK
<1>4. CASE fed'.key = fed.key /\ fed'.step = fed.step /\ fed'.left = fed.left
  BY <1>2, <1>4 DEF WorkInv, Here
<1>5. ASSUME NEW n \in Monitors, FedStart(n)
      PROVE  /\ mode' # "unknown" /\ (fed'.step = "label" <=> mode' # "federated")
             /\ fed'.step = "label" => fed'.left = {Here'}
  <2> DEFINE p == DefaultPrometheus(seenProm)
             d == Detected
             works == [key |-> n, step |-> "turn", local |-> seen[n], left |-> Listed(seenProm),
                       list |-> seenProm, service |-> seenService[n], failed |-> FALSE]
  <2>1. fed' # fed /\ fed.key = NoKey
    BY <1>5 DEF FedStart
  <2>2. /\ mode' = d /\ d # "unknown"
        /\ \/ d = "federated" /\ fed' = works
           \/ d # "federated" /\ p # NoProm /\ fed' = [works EXCEPT !.step = "label", !.left = {p}]
    BY <1>5, <2>1 DEF FedStart
  <2>3. CASE fed' = works
    BY <2>2, <2>3
  <2>4. CASE d # "federated" /\ p # NoProm /\ fed' = [works EXCEPT !.step = "label", !.left = {p}]
    <3>1. p \in Proms
      BY <2>4, ReadTypes DEF TypeOK, Listed
    <3>2. fed'.step = "label" /\ fed'.left = {p}
      BY <2>4
    <3>3. First({p}) = p
      BY <3>1, FirstIn
    <3>4. QED
      BY <2>2, <2>4, <3>2, <3>3 DEF Here
  <2>5. QED
    BY <2>2, <2>3, <2>4
<1>6. CASE fed.key # NoKey /\ (FedStep \/ FedFault)
  <2>1. ASSUME NEW s \in Dependents, NEW f, NextStep(s, f), ~At("label")
        PROVE  fed'.step # "label" /\ mode' = "federated"
    BY <1>2, <1>6, <2>1 DEF NextStep, TypeOK, At, WorkInv, Dependents
  <2>2. ASSUME NEW o, NEW f, NextProm(o, f)
        PROVE  fed'.step # "label" /\ mode' = "federated"
    <3>1. fed.left # {Here}
      BY <2>2, IdleTypes DEF NextProm, FedReturn
    <3>2. fed' = [fed EXCEPT !.step = "turn", !.local = o, !.left = @ \ {Here},
                             !.failed = @ \/ f]
      BY <2>2, <3>1 DEF NextProm
    <3>3. fed'.step = "turn"
      BY <3>2 DEF TypeOK
    <3>4. fed.step # "label"
      BY <1>6, <3>1 DEF WorkInv
    <3>5. QED
      BY <1>2, <1>6, <3>3, <3>4 DEF WorkInv
  <2>3. ASSUME NEW r, FedReturn(r) PROVE FALSE
    BY <2>3, IdleTypes DEF FedReturn
  <2>4. \/ \E o, f : NextProm(o, f)
        \/ \E s \in Dependents : \E f : NextStep(s, f) /\ ~At("label")
        \/ \E r : FedReturn(r)
    BY <1>6 DEF FedStep, FedLabel, FedReject, FedCopy, FedService, FedEndpoints, FedSecret,
       FedFault, At, Mine, Dependents
  <2>5. QED
    BY <2>1, <2>2, <2>3, <2>4
<1>7. QED
  BY <1>1, <1>3, <1>4, <1>5, <1>6, FedSteps

\* A dependent is written for a copy that is there: what is done stays done,
\* and the dependent is.
LEMMA DependDone ==
  ASSUME TypeOK, NEW m \in Monitors, fed.key = m, NEW h \in Proms, h = Here,
         NEW x \in Dependents, NEW n \in Nat, Depend(x, n), UNCHANGED <<copy, seenProm>>,
         seen'[m] = seen[m], seenService'[m] = seenService[m], Outdated(m) => Outdated(m)',
         CopyDone(h, m), x # "secret" => n = seenService[m]
  PROVE  /\ CopyDone(h, m)' /\ DependentDone(x, h, m)'
         /\ \A y \in Dependents : DependentDone(y, h, m) => DependentDone(y, h, m)'
<1>1. CopyDone(h, m)'
  BY DEF CopyDone
<1> DEFINE d == Written(deps[h][m], x, n, Owns(h, m))
<1>2. deps[h][m] \in Deps /\ fed.key # NoKey
  BY MonitorsAssumption DEF TypeOK
<1>3. d \in Deps /\ deps' = [deps EXCEPT ![h][m] = d]
  BY <1>2, DependType
<1>4. seenProm[h] = "now" => d.mine = deps[h][m].mine \cup {x}
  BY DEF CopyDone, Owns, Written
<1>5. \A y \in Dependents : d.has[y] = IF y = x THEN n ELSE deps[h][m].has[y]
  BY <1>2 DEF Written, Deps
<1> HIDE DEF d
<1>6. deps'[h][m] = d
  BY <1>3 DEF TypeOK
<1>7. DependentDone(x, h, m)'
  BY <1>4, <1>5, <1>6 DEF DependentDone
<1>8. ASSUME NEW y \in Dependents, DependentDone(y, h, m) PROVE DependentDone(y, h, m)'
  BY <1>4, <1>5, <1>6, <1>8 DEF DependentDone
<1>9. QED
  BY <1>1, <1>7, <1>8

\* The loop is through with one Prometheus.
LEMMA PromDone ==
  ASSUME TypeOK, NEW m \in Monitors, fed.key = m, NEW h \in Proms, h = Here,
         fed.step # "label", FedUnderway(m), mode = "federated", UNCHANGED <<mode, seenProm>>,
         seen'[m] = seen[m], seenService'[m] = seenService[m],
         NEW o, NEW f \in BOOLEAN, NextProm(o, f), m \notin fedQueue',
         o.version = seen[m].version \/ Outdated(m)',
         LabelDone(Primary, m) => LabelDone(Primary, m)',
         \A q \in Proms \ {h} : Complete(q, m) => Complete(q, m)',
         ~fed.failed /\ ~f => IF h = Primary THEN LabelDone(Primary, m)' ELSE Complete(h, m)'
  PROVE  IF fed'.key = m THEN FedUnderway(m)' ELSE FedDone(m)'
<1>1. fed.key # NoKey /\ fed.left \subseteq Listed(seenProm) /\ fed.list = seenProm
  BY MonitorsAssumption DEF TypeOK, FedUnderway
<1>2. /\ ~fed.failed => /\ Primary \in Listed(seenProm) \ fed.left => LabelDone(Primary, m)
                        /\ \A q \in Listed(seenProm) \ (fed.left \cup {Primary}) : Complete(q, m)
      /\ fed.service = seenService[m]
  BY DEF FedUnderway
<1>3. Listed(seenProm)' = Listed(seenProm) /\ Listed(seenProm) \subseteq Proms
  BY DEF Listed
<1>4. ~fed.failed /\ ~f =>
         /\ Primary \in Listed(seenProm) \ (fed.left \ {h}) => LabelDone(Primary, m)'
         /\ \A q \in Listed(seenProm) \ ((fed.left \ {h}) \cup {Primary}) : Complete(q, m)'
  <2>1. ASSUME ~fed.failed, ~f, Primary \in Listed(seenProm) \ (fed.left \ {h})
        PROVE  LabelDone(Primary, m)'
    BY <1>2, <2>1
  <2>2. ASSUME ~fed.failed, ~f,
               NEW q \in Listed(seenProm) \ ((fed.left \ {h}) \cup {Primary})
        PROVE  Complete(q, m)'
    <3>1. CASE q = h
      BY <2>2, <3>1
    <3>2. CASE q # h
      BY <1>2, <1>3, <2>2, <3>2
    <3>3. QED
      BY <3>1, <3>2
  <2>3. QED
    BY <2>1, <2>2
<1>5. CASE fed.left = {Here}
  <2>1. FedReturn(fed.failed \/ f)
    BY <1>5 DEF NextProm, Retries
  <2>2. fed'.key # m /\ ~fed.failed /\ ~f
    BY <2>1, IdleTypes, MonitorsAssumption DEF FedReturn
  <2>3. fed.left \ {h} = {}
    BY <1>5
  <2>4. /\ Primary \in Listed(seenProm)' => LabelDone(Primary, m)'
        /\ \A q \in Listed(seenProm)' \ {Primary} : Complete(q, m)'
    BY <1>3, <1>4, <2>2, <2>3
  <2>5. FedDone(m)'
    BY <2>4 DEF FedDone
  <2>6. QED
    BY <2>2, <2>5
<1>6. CASE fed.left # {Here}
  <2>1. /\ fed'.key = m /\ fed'.step = "turn" /\ fed'.local = o /\ fed'.left = fed.left \ {h}
        /\ fed'.list = fed.list /\ fed'.service = fed.service
        /\ ~fed'.failed => ~fed.failed /\ ~f
    BY <1>6 DEF NextProm, TypeOK
  <2>2. ~fed'.failed =>
           /\ Primary \in Listed(seenProm)' \ fed'.left => LabelDone(Primary, m)'
           /\ \A q \in Listed(seenProm)' \ (fed'.left \cup {Primary}) : Complete(q, m)'
    BY <1>3, <1>4, <2>1
  <2>3. FedUnderway(m)'
    BY <1>1, <1>2, <2>1, <2>2 DEF FedUnderway
  <2>4. QED
    BY <2>1, <2>3
<1>7. QED
  BY <1>5, <1>6

\* The loop goes on to the next object of a Prometheus.
LEMMA StepDone ==
  ASSUME TypeOK, NEW m \in Monitors, fed.key = m, NEW h \in Proms, h = Here,
         fed.step # "label", FedUnderway(m), UNCHANGED seenProm,
         seen'[m] = seen[m], seenService'[m] = seenService[m], Outdated(m) => Outdated(m)',
         NEW s \in Dependents, NEW f \in BOOLEAN, NextStep(s, f),
         LabelDone(Primary, m) => LabelDone(Primary, m)',
         \A q \in Proms \ {h} : Complete(q, m) => Complete(q, m)',
         ~fed.failed /\ ~f => /\ CopyDone(h, m)' /\ h # Primary
                              /\ s \in {"endpoints", "secret"} => DependentDone("service", h, m)'
                              /\ s = "secret" => DependentDone("endpoints", h, m)'
  PROVE  fed'.key = m /\ FedUnderway(m)'
<1>1. fed.key # NoKey
  BY MonitorsAssumption
<1>2. h \in fed.left /\ s # "label"
  BY <1>1, HereIn DEF Dependents
<1>3. /\ fed'.key = m /\ fed'.step = s /\ fed'.local = fed.local /\ fed'.left = fed.left
      /\ fed'.list = fed.list /\ fed'.service = fed.service
      /\ ~fed'.failed => ~fed.failed /\ ~f
  BY DEF NextStep, TypeOK
<1>4. Listed(seenProm)' = Listed(seenProm) /\ Listed(seenProm) \subseteq Proms /\ Here' = h
  BY <1>3 DEF Listed, Here
<1>5. ~fed'.failed =>
         /\ Primary \in Listed(seenProm)' \ fed'.left => LabelDone(Primary, m)'
         /\ \A q \in Listed(seenProm)' \ (fed'.left \cup {Primary}) : Complete(q, m)'
  BY <1>2, <1>3, <1>4 DEF FedUnderway
<1>6. ~fed'.failed =>
         /\ CopyDone(Here, m)' /\ Here' # Primary
         /\ s \in {"endpoints", "secret"} => DependentDone("service", Here, m)'
         /\ s = "secret" => DependentDone("endpoints", Here, m)'
  BY <1>3, <1>4 DEF CopyDone, DependentDone
<1>7. /\ fed'.list = seenProm' /\ fed'.service = seenService'[m]
      /\ fed'.local.version = seen'[m].version \/ Outdated(m)'
  BY <1>3 DEF FedUnderway
<1>8. QED
  BY <1>2, <1>3, <1>5, <1>6, <1>7 DEF FedUnderway

\* A step of the loop over m.
LEMMA FedWorks ==
  ASSUME TypeOK, TypeOK', PassInv, WorkInv, [Next]_vars, FedStep \/ FedFault,
         NEW m \in Monitors, fed.key = m, seen[m].exists, inside[m] \in {NoProm, Primary},
         sm[m].exists => seen[m].version <= sm[m].version,
         sm'[m].exists => seen[m].version <= sm'[m].version,
         FedUnderway(m), m \notin fedQueue'
  PROVE  IF fed'.key = m THEN FedUnderway(m)' ELSE FedDone(m)'
<1> USE MonitorsAssumption
<1>1. fed.key # NoKey /\ fed.key \in Monitors
  OBVIOUS
<1>2. UNCHANGED <<seen, seenService, seenProm, mode>> /\ fed.list = seenProm
      /\ fed.service = seenService[m] /\ fed.service \in Nat /\ mode # "unknown"
  BY <1>1, FedGoes DEF FedUnderway, WorkInv, TypeOK
<1>3. ~Restart
  BY <1>2 DEF Restart
<1>4. UNCHANGED <<platform, inside>>
  BY <1>3, ModeSteps
<1>5. (Unseen(m) => Unseen(m)') /\ (Outdated(m) => Outdated(m)')
  BY <1>2, UnseenStays
<1>6. \A p \in Proms : LabelDone(p, m) => LabelDone(p, m)'
  BY <1>2, <1>5 DEF LabelDone
<1>7. seen'[m] = seen[m] /\ seenService'[m] = seenService[m]
      /\ (fed.local.version = seen[m].version \/ Outdated(m)')
  BY <1>2, <1>5 DEF FedUnderway
<1> SUFFICES ASSUME NEW h \in Proms, h = Here
             PROVE  IF fed'.key = m THEN FedUnderway(m)' ELSE FedDone(m)'
  BY <1>1, HereIn
<1>8. ASSUME NEW q \in Proms \ {h} PROVE Complete(q, m) => Complete(q, m)'
  <2>1. /\ CopyDone(q, m) => CopyDone(q, m)'
        /\ \A x \in Dependents : CopyDone(q, m) /\ DependentDone(x, q, m) => DependentDone(x, q, m)'
    BY <1>2, <1>3, <1>5, CompleteStays
  <2>2. QED
    BY <2>1 DEF Complete
<1>9. ~FedReturn(TRUE)
  BY <1>1 DEF FedReturn
<1>10. ASSUME CanLabel(m), Labels(m, h, fed.local), fed.left = fed.left
       PROVE  LabelDone(h, m)' /\ (sm'[m].version = seen[m].version \/ Outdated(m)')
  <2>1. /\ sm[m].exists
        /\ \/ sm'[m] = sm[m] /\ seen[m].release = h
           \/ sm'[m].exists /\ sm'[m].version = sm[m].version /\ sm'[m].release = h
              /\ seen[m].release # h
    BY <1>10, LabelsSteps DEF CanLabel
  <2>2. LabelDone(h, m)'
    BY <1>7, <2>1 DEF LabelDone, Unseen
  <2>3. sm'[m].exists /\ seen[m].version <= sm'[m].version
        /\ sm'[m].version \in Nat /\ seen[m].version \in Nat
    BY <2>1 DEF TypeOK, Monitor
  <2>4. QED
    BY <1>7, <2>2, <2>3 DEF Outdated
<1>11. CASE fed.step = "label"
  <2>1. /\ mode # "federated" /\ fed.left = {Here} /\ h = DefaultPrometheus(seenProm)
    BY <1>1, <1>11 DEF WorkInv, FedUnderway
  <2>2. \A o, f : NextProm(o, f) => FedReturn(fed.failed \/ f)
    BY <2>1 DEF NextProm, Retries
  <2>3. FedLabel \/ NextProm(fed.local, TRUE)
    BY <1>11 DEF FedStep, FedReject, FedCopy, FedService, FedEndpoints, FedSecret, FedFault, At, Mine
  <2>4. ASSUME NEW o, NextProm(o, TRUE) PROVE FALSE
    <3>1. FedReturn(fed.failed \/ TRUE)
      BY <2>2, <2>4
    <3>2. QED
      BY <1>9, <3>1
  <2>5. CanLabel(m) /\ Labels(m, h, fed.local) /\ NextProm(sm'[m], FALSE)
    BY <2>3, <2>4 DEF FedLabel
  <2>6. LabelDone(h, m)'
    BY <1>10, <2>5
  <2>7. fed' = FedIdle
    BY <2>2, <2>5 DEF FedReturn
  <2>8. DefaultPrometheus(seenProm)' = h /\ mode' # "federated"
    BY <1>2, <1>4, <2>1 DEF DefaultPrometheus
  <2>9. FedDone(m)'
    BY <2>6, <2>8 DEF FedDone
  <2>10. QED
    BY <1>1, <2>7, <2>9, IdleTypes
<1>12. CASE fed.step # "label"
  <2>1. mode = "federated"
    BY <1>1, <1>12 DEF WorkInv
  <2>2. ASSUME NextProm(fed.local, TRUE) PROVE IF fed'.key = m THEN FedUnderway(m)' ELSE FedDone(m)'
    <3>1. PICK o : o = fed.local
      OBVIOUS
    <3>2. NextProm(o, TRUE) /\ (o.version = seen[m].version \/ Outdated(m)')
      BY <1>7, <2>2, <3>1
    <3>3. QED
      BY <1>2, <1>6, <1>7, <1>8, <1>12, <2>1, <3>2, PromDone
  <2>3. CASE FedLabel
    <3>1. h = Primary
      BY <1>12, <2>3 DEF FedLabel, At
    <3>2. CASE CanLabel(m)
      <4>1. PICK o : o = sm'[m]
        OBVIOUS
      <4>2. Labels(m, h, fed.local) /\ NextProm(o, FALSE)
        BY <2>3, <3>2, <4>1 DEF FedLabel
      <4>3. LabelDone(h, m)' /\ (o.version = seen[m].version \/ Outdated(m)')
        BY <1>10, <3>2, <4>1, <4>2
      <4>4. QED
        BY <1>2, <1>6, <1>7, <1>8, <1>12, <2>1, <3>1, <4>2, <4>3, PromDone
    <3>3. CASE ~CanLabel(m)
      BY <2>2, <2>3, <3>3 DEF FedLabel
    <3>4. QED
      BY <3>2, <3>3
  <2>4. CASE FedReject
    BY <1>1, <2>4 DEF FedReject, Mine, Misplaced
  <2>5. CASE FedCopy
    <3>1. fed.step = "turn" /\ h # Primary /\ NextStep("service", FALSE)
      BY <2>5 DEF FedCopy, Mine, At
    <3>2. copy' = [copy EXCEPT ![h][m] = [version |-> fed.local.version, owner |-> fed.list[h]]]
      BY <2>5 DEF FedCopy, Owner
    <3>3. [version |-> fed.local.version, owner |-> fed.list[h]] \in Copy
      BY <1>1, HereIn DEF TypeOK, Monitor, Copy
    <3>4. copy'[h][m] = [version |-> fed.local.version, owner |-> fed.list[h]]
      BY <3>2, <3>3 DEF TypeOK
    <3>5. fed.local.version # 0
      BY <1>1 DEF PassInv
    <3>6. CopyDone(h, m)'
      BY <1>2, <1>7, <3>4, <3>5 DEF CopyDone
    <3>7. "service" \in Dependents /\ "service" \notin {"endpoints", "secret"}
      BY DEF Dependents
    <3>8. QED
      BY <1>2, <1>5, <1>6, <1>7, <1>8, <1>12, <3>1, <3>6, <3>7, StepDone
  <2>6. ~fed.failed /\ fed.step # "turn" => CopyDone(h, m) /\ h # Primary
    BY <1>12 DEF FedUnderway
  <2>7. CASE FedService
    <3>1. fed.step = "service" /\ UNCHANGED copy /\ Depend("service", fed.service)
          /\ NextStep("endpoints", FALSE)
      BY <2>7 DEF FedService, At
    <3>2. "service" \in Dependents /\ "endpoints" \in Dependents
      BY DEF Dependents
    <3>3. ~fed.failed => CopyDone(h, m)' /\ DependentDone("service", h, m)'
      <4>1. PICK n \in Nat : n = fed.service
        BY <1>2
      <4>2. Depend("service", n) /\ n = seenService[m]
        BY <1>2, <3>1, <4>1
      <4>3. QED
        BY <1>2, <1>5, <1>7, <2>6, <3>1, <3>2, <4>2, DependDone
    <3>4. QED
      BY <1>2, <1>5, <1>6, <1>7, <1>8, <1>12, <2>6, <3>1, <3>2, <3>3, StepDone
  <2>8. ASSUME NEW s \in Dependents, NextStep(s, TRUE)
        PROVE  IF fed'.key = m THEN FedUnderway(m)' ELSE FedDone(m)'
    BY <1>2, <1>5, <1>6, <1>7, <1>8, <1>12, <2>8, StepDone
  <2>9. CASE FedEndpoints
    <3>1. "service" \in Dependents /\ "endpoints" \in Dependents /\ "secret" \in Dependents
      BY DEF Dependents
    <3>2. CASE NextStep("secret", TRUE)
      BY <2>8, <3>1, <3>2
    <3>3. CASE Depend("endpoints", fed.service) /\ NextStep("secret", FALSE)
      <4>1. fed.step = "endpoints" /\ UNCHANGED copy
        BY <2>9 DEF FedEndpoints, At
      <4>2. PICK n \in Nat : n = fed.service
        BY <1>2
      <4>3. Depend("endpoints", n) /\ n = seenService[m]
        BY <1>2, <3>3, <4>2
      <4>4. ~fed.failed => /\ CopyDone(h, m)' /\ DependentDone("endpoints", h, m)'
                           /\ DependentDone("service", h, m) => DependentDone("service", h, m)'
        BY <1>2, <1>5, <1>7, <2>6, <3>1, <4>1, <4>3, DependDone
      <4>5. ~fed.failed => DependentDone("service", h, m)
        BY <1>12, <4>1 DEF FedUnderway
      <4>6. QED
        BY <1>2, <1>5, <1>6, <1>7, <1>8, <1>12, <2>6, <3>1, <3>3, <4>1, <4>4, <4>5, StepDone
    <3>4. CASE FedReturn(TRUE)
      BY <1>9, <3>4
    <3>5. QED
      BY <2>9, <3>2, <3>3, <3>4 DEF FedEndpoints
  <2>10. CASE FedSecret
    <3>1. fed.step = "secret" /\ UNCHANGED copy /\ Depend("secret", 1) /\ NextProm(fed.local, FALSE)
      BY <2>10 DEF FedSecret, At
    <3>2. "secret" \in Dependents /\ 1 \in Nat
      BY DEF Dependents
    <3>3. ~fed.failed => /\ CopyDone(h, m)' /\ DependentDone("secret", h, m)'
                         /\ \A y \in Dependents : DependentDone(y, h, m) => DependentDone(y, h, m)'
      BY <1>2, <1>5, <1>7, <2>6, <3>1, <3>2, DependDone
    <3>4. ~fed.failed => DependentDone("service", h, m) /\ DependentDone("endpoints", h, m)
      BY <1>12, <3>1 DEF FedUnderway
    <3>5. ~fed.failed => Complete(h, m)' /\ h # Primary
      BY <2>6, <3>1, <3>3, <3>4 DEF Complete, Dependents
    <3>6. PICK o : o = fed.local
      OBVIOUS
    <3>7. NextProm(o, FALSE) /\ (o.version = seen[m].version \/ Outdated(m)')
      BY <1>7, <3>1, <3>6
    <3>8. QED
      BY <1>2, <1>6, <1>7, <1>8, <1>12, <2>1, <3>5, <3>7, PromDone
  <2>11. CASE FedFault
    <3>1. "endpoints" \in Dependents /\ "secret" \in Dependents
      BY DEF Dependents
    <3>2. \/ NextProm(fed.local, TRUE) \/ FedReturn(TRUE)
          \/ NextStep("endpoints", TRUE) \/ NextStep("secret", TRUE)
      BY <2>11 DEF FedFault
    <3>3. QED
      BY <1>9, <2>2, <2>8, <3>1, <3>2
  <2>12. QED
    BY <2>3, <2>4, <2>5, <2>7, <2>9, <2>10, <2>11 DEF FedStep
<1>13. QED
  BY <1>11, <1>12

\* What has been done of a federated monitor, or is under way, stays so until
\* something the watches tell puts it on the queue.
LEMMA NextFed ==
  ASSUME TypeOK, TypeOK', PassInv, WorkInv, [Next]_vars, NEW m \in Monitors, FedInv(m)
  PROVE  FedInv(m)'
<1> USE MonitorsAssumption
<1>1. seen'[m].exists /\ sm'[m].exists => seen'[m].version <= sm'[m].version
  BY NextVersion
<1> SUFFICES ASSUME seen'[m].exists, seen'[m].kind = "federated", m \notin fedQueue',
                    inside'[m] \in {NoProm, Primary}, ~Missable'
             PROVE  /\ mode' = "unknown" => Listed(seenProm)' = {}
                    /\ IF fed'.key = m THEN FedUnderway(m)' ELSE FedDone(m)'
  BY <1>1 DEF FedInv
<1>2. /\ seen'[m] = seen[m] /\ seenService'[m] = seenService[m] /\ ~Restart
      /\ seenProm' = seenProm \/ \E p \in Proms : DeleteProm(p)
      /\ m \notin fedQueue \/ FedStart(m)
  BY FedStill
<1>3. /\ UNCHANGED <<platform, inside>>
      /\ mode' = mode \/ mode = "unknown"
  BY <1>2, ModeSteps
<1>4. /\ Listed(seenProm)' = Listed(seenProm) /\ Listed(seenProm) \subseteq Proms
      /\ DefaultPrometheus(seenProm)' = DefaultPrometheus(seenProm) /\ ~Missable
  <2>1. Listed(seenProm') = Listed(seenProm) /\ ~Missable
    BY <1>2, <1>3, SeenPromStill
  <2>2. Listed(seenProm)' = Listed(seenProm)
    BY <2>1 DEF Listed
  <2>3. QED
    BY <1>3, <2>1, <2>2 DEF DefaultPrometheus, Listed
<1>5. Listed(seenProm) = {} => FedDone(m)'
  <2>1. Listed(seenProm) = {} => DefaultPrometheus(seenProm)' = NoProm
    BY <1>4, NoneListed
  <2>2. QED
    BY <1>4, <2>1 DEF FedDone
<1>6. /\ (Unseen(m) => Unseen(m)') /\ (Outdated(m) => Outdated(m)')
      /\ sm[m].exists => seen[m].version <= sm[m].version
      /\ sm'[m].exists => seen[m].version <= sm'[m].version
  BY <1>1, <1>2, UnseenStays DEF FedInv
<1>7. \A p \in Proms : LabelDone(p, m) => LabelDone(p, m)'
  BY <1>2, <1>6 DEF LabelDone
<1>8. CASE FedStart(m)
  <2> DEFINE p == DefaultPrometheus(seenProm)
             d == Detected
             works == [key |-> m, step |-> "turn", local |-> seen[m], left |-> Listed(seenProm),
                       list |-> seenProm, service |-> seenService[m], failed |-> FALSE]
  <2>1. /\ fed.key = NoKey /\ m \in fedQueue /\ UNCHANGED <<seen, seenProm, seenService>>
        /\ seen[m].exists /\ seen[m].kind = "federated"
    BY <1>2, <1>8 DEF FedStart, cacheVars
  <2>2. CASE Listed(seenProm) = {}
    <3>1. mode' = mode /\ fed' = fed
      BY <1>8, <2>2 DEF FedStart
    <3>2. QED
      BY <1>4, <1>5, <2>1, <2>2, <3>1
  <2>3. Listed(seenProm) # {} => d # "unknown"
    <3>1. Listed(seenProm) # {} => ~Undetected
      BY <1>8, <2>1 DEF FedStart
    <3>2. QED
      BY <1>4, <3>1, Decides
  <2>4. CASE Listed(seenProm) # {} /\ d = "federated"
    <3>1. mode' = "federated" /\ fed' = works
      BY <1>8, <2>1, <2>4 DEF FedStart
    <3>2. /\ fed'.key = m /\ fed'.step = "turn" /\ fed'.left = Listed(seenProm)
          /\ fed'.list = seenProm /\ fed'.service = seenService[m]
          /\ fed'.local.version = seen[m].version
      BY <3>1
    <3>3. FedUnderway(m)'
      BY <1>2, <1>4, <2>1, <3>2 DEF FedUnderway
    <3>4. QED
      BY <3>1, <3>2, <3>3
  <2>5. CASE Listed(seenProm) # {} /\ d \notin {"unknown", "federated"} /\ p # NoProm
    <3>1. mode' = d /\ fed' = [works EXCEPT !.step = "label", !.left = {p}]
      BY <1>8, <2>1, <2>5 DEF FedStart
    <3>2. /\ fed'.key = m /\ fed'.step = "label" /\ fed'.left = {p}
          /\ fed'.list = seenProm /\ fed'.service = seenService[m]
          /\ fed'.local.version = seen[m].version
      BY <3>1
    <3>3. FedUnderway(m)'
      BY <1>2, <1>4, <2>1, <3>2 DEF FedUnderway
    <3>4. QED
      BY <2>5, <3>1, <3>2, <3>3
  <2>6. CASE Listed(seenProm) # {} /\ d \notin {"unknown", "federated"} /\ p = NoProm
    <3>1. mode' = d /\ fed' = fed
      BY <1>8, <2>1, <2>6 DEF FedStart
    <3>2. DefaultPrometheus(seenProm)' \notin Listed(seenProm)'
      BY <1>4, <2>6
    <3>3. FedDone(m)'
      BY <2>6, <3>1, <3>2 DEF FedDone
    <3>4. QED
      BY <2>1, <2>6, <3>1, <3>3
  <2>7. QED
    BY <2>2, <2>3, <2>4, <2>5, <2>6
<1>9. CASE m \notin fedQueue /\ ~FedStart(m)
  <2>1. /\ mode = "unknown" => Listed(seenProm) = {}
        /\ IF fed.key = m THEN FedUnderway(m) ELSE FedDone(m)
    BY <1>2, <1>3, <1>4, <1>9 DEF FedInv
  <2>2. /\ mode' = "unknown" => Listed(seenProm)' = {}
        /\ mode' = mode \/ Listed(seenProm) = {}
    BY <1>3, <1>4, <2>1
  <2>3. CASE fed.key # m
    <3>1. fed'.key # m
      <4>1. ASSUME NEW n \in Monitors, FedStart(n) PROVE fed'.key # m
        BY <1>9, <2>3, <4>1 DEF FedStart
      <4>2. ASSUME NEW p \in Proms, DeleteProm(p) PROVE fed'.key = fed.key
        BY <4>2 DEF DeleteProm, TypeOK
      <4>3. CASE fed.key # NoKey /\ (FedStep \/ FedFault)
        BY <2>3, <4>3, FedGoes, IdleTypes
      <4>4. QED
        BY <1>2, <2>3, <4>1, <4>2, <4>3, FedSteps
    <3>2. ASSUME NEW q \in Proms PROVE Complete(q, m) => Complete(q, m)'
      <4>1. /\ CopyDone(q, m) => CopyDone(q, m)'
            /\ \A x \in Dependents :
                  CopyDone(q, m) /\ DependentDone(x, q, m) => DependentDone(x, q, m)'
        BY <1>2, <1>6, <2>3, CompleteStays
      <4>2. QED
        BY <4>1 DEF Complete
    <3>3. FedDone(m)'
      <4>1. mode' = mode => FedDone(m)'
        BY <1>4, <1>7, <2>1, <2>3, <3>2 DEF FedDone
      <4>2. QED
        BY <1>5, <2>2, <4>1
    <3>4. QED
      BY <2>2, <3>1, <3>3
  <2>4. CASE fed.key = m /\ (FedStep \/ FedFault)
    BY <1>2, <1>3, <1>6, <2>1, <2>2, <2>4, FedWorks
  <2>5. CASE fed.key = m /\ ~(FedStep \/ FedFault)
    <3>1. fed.key # NoKey
      BY <2>5
    <3>2. /\ fed'.key = fed.key /\ fed'.step = fed.step /\ fed'.left = fed.left
          /\ fed'.local = fed.local /\ fed'.service = fed.service /\ fed'.failed = fed.failed
          /\ fed.list = seenProm => fed'.list = seenProm'
      <4>1. ASSUME NEW p \in Proms, DeleteProm(p)
            PROVE  /\ fed'.key = fed.key /\ fed'.step = fed.step /\ fed'.left = fed.left
                   /\ fed'.local = fed.local /\ fed'.service = fed.service
                   /\ fed'.failed = fed.failed
                   /\ fed.list = seenProm => fed'.list = seenProm'
        BY <4>1 DEF DeleteProm, TypeOK
      <4>2. CASE ~\E p \in Proms : DeleteProm(p)
        <5>1. fed' = fed
          BY <1>2, <2>5, <3>1, <4>2, FedSteps DEF FedStart
        <5>2. QED
          BY <1>2, <4>2, <5>1
      <4>3. QED
        BY <4>1, <4>2
    <3>3. PICK h \in Proms : h = Here
      BY <3>1, HereIn
    <3>4. Here' = h
      BY <3>2, <3>3 DEF Here
    <3>5. ASSUME NEW q \in Proms
          PROVE  /\ CopyDone(q, m) => CopyDone(q, m)'
                 /\ \A x \in Dependents :
                       CopyDone(q, m) /\ DependentDone(x, q, m) => DependentDone(x, q, m)'
      BY <1>2, <1>6, <2>5, CompleteStays DEF FedStep
    <3>6. \A q \in Proms : Complete(q, m) => Complete(q, m)'
      BY <3>5 DEF Complete
    <3>7. fed.step # "label" /\ ~fed.failed =>
             /\ Primary \in Listed(seenProm) \ fed.left => LabelDone(Primary, m)'
             /\ \A q \in Listed(seenProm) \ (fed.left \cup {Primary}) : Complete(q, m)'
      BY <1>4, <1>7, <2>1, <2>5, <3>6 DEF FedUnderway
    <3>8. fed.step # "label" /\ ~fed.failed =>
             /\ fed.step # "turn" => CopyDone(h, m)' /\ h # Primary
             /\ fed.step \in {"endpoints", "secret"} => DependentDone("service", h, m)'
             /\ fed.step = "secret" => DependentDone("endpoints", h, m)'
      <4>1. "service" \in Dependents /\ "endpoints" \in Dependents
        BY DEF Dependents
      <4>2. fed.step # "label" /\ ~fed.failed =>
               /\ fed.step # "turn" => CopyDone(h, m) /\ h # Primary
               /\ fed.step \in {"endpoints", "secret"} => DependentDone("service", h, m)
               /\ fed.step = "secret" => DependentDone("endpoints", h, m)
        BY <2>1, <2>5, <3>3 DEF FedUnderway
      <4>3. QED
        BY <3>5, <4>1, <4>2
    <3>9. FedUnderway(m)'
      <4>1. /\ fed'.list = seenProm' /\ fed'.service = seenService'[m]
            /\ fed'.local.version = seen'[m].version \/ Outdated(m)'
            /\ fed'.step = "label" => fed'.left = {DefaultPrometheus(seenProm)'}
        BY <1>2, <1>4, <1>6, <2>1, <2>5, <3>2 DEF FedUnderway
      <4>2. fed'.step # "label" /\ ~fed'.failed =>
               /\ Primary \in Listed(seenProm)' \ fed'.left => LabelDone(Primary, m)'
               /\ \A q \in Listed(seenProm)' \ (fed'.left \cup {Primary}) : Complete(q, m)'
        BY <1>4, <3>2, <3>7
      <4>3. fed'.step # "label" /\ ~fed'.failed =>
               /\ fed'.step # "turn" => CopyDone(Here, m)' /\ Here' # Primary
               /\ fed'.step \in {"endpoints", "secret"} => DependentDone("service", Here, m)'
               /\ fed'.step = "secret" => DependentDone("endpoints", Here, m)'
        BY <3>2, <3>4, <3>8 DEF CopyDone, DependentDone
      <4>4. QED
        BY <4>1, <4>2, <4>3 DEF FedUnderway
    <3>10. QED
      BY <2>2, <2>5, <3>2, <3>9
  <2>6. QED
    BY <2>3, <2>4, <2>5
<1>10. QED
  BY <1>2, <1>8, <1>9

LEMMA InitRest == Init => RestInv
<1> SUFFICES ASSUME Init PROVE RestInv
  OBVIOUS
<1>1. fed.key = NoKey /\ mode = "unknown"
  BY IdleTypes DEF Init
<1>2. \A m \in Monitors : ~seen[m].exists
  <2>1. ~Absent.exists
    BY DEF Absent
  <2>2. QED
    BY <2>1, Zenon DEF Init
<1>3. QED
  BY <1>1, <1>2 DEF RestInv, WorkInv, AutoInv, FedInv

LEMMA NextRest == TypeOK /\ TypeOK' /\ PassInv /\ RestInv /\ [Next]_vars => RestInv'
<1> SUFFICES ASSUME TypeOK, TypeOK', PassInv, RestInv, [Next]_vars PROVE RestInv'
  OBVIOUS
<1>1. WorkInv'
  BY NextWork DEF RestInv
<1>2. ASSUME NEW m \in Monitors PROVE AutoInv(m)'
  BY NextAuto DEF RestInv
<1>3. ASSUME NEW m \in Monitors PROVE FedInv(m)'
  BY NextFed DEF RestInv
<1>4. QED
  BY <1>1, <1>2, <1>3 DEF RestInv


\* In every reachable state what a copy owns belongs to a copy that exists, and
\* a copy with a current owner has one: no step of a worker, of the informers
\* or of the garbage collector in any order takes a part of what is complete.
THEOREM OwnedInvariant == Spec => []Inv
<1>1. Init => Inv
  BY InitType, InitOwned, InitRest DEF Inv
<1>2. Inv /\ [Next]_vars => Inv'
  BY NextType, NextOwned, NextRest DEF Inv
<1>3. QED
  BY <1>1, <1>2, PTL DEF Spec

\* At rest the caches show what there is, so nothing is unseen or outdated.
LEMMA RestSees ==
  ASSUME TypeOK, NEW m \in Monitors, AtRest(m), sm[m].exists
  PROVE  /\ ~Unseen(m) /\ ~Outdated(m) /\ seen[m] = sm[m] /\ seenProm = Present
         /\ Listed(seenProm) = {p \in Proms : prom[p]}
         /\ m \notin autoQueue /\ m \notin fedQueue /\ auto.key # m /\ fed.key # m
<1>1. sm[m].version \in Nat
  BY DEF TypeOK, Monitor
<1>2. QED
  BY <1>1 DEF AtRest, Unseen, Outdated, Present, Listed

\* An auto monitor that AutoReconciler has come to rest about is scraped: by a
\* Prometheus that exists, may look into its namespace and asks for its label;
\* however its steps, the other worker's writes, faults and restarts of the
\* process and of the Prometheus objects interleaved.
THEOREM RestIsServed == Spec => []SettledIsServed
<1>1. Inv => SettledIsServed
  <2> SUFFICES ASSUME Inv, NEW m \in Monitors \ moved, AtRest(m), mode # "unknown", sm[m].exists,
                      sm[m].kind = "auto", AutoTarget(m, Present) # NoProm
               PROVE  sm[m].release # NoProm /\ prom[sm[m].release]
                      /\ SelectsNamespace(sm[m].release, m)
    BY DEF SettledIsServed, Served
  <2>1. /\ ~Unseen(m) /\ seen[m] = sm[m] /\ seenProm = Present
        /\ Listed(seenProm) = {p \in Proms : prom[p]} /\ m \notin autoQueue /\ auto.key # m
    BY RestSees DEF Inv
  <2>2. HasProm(m, seen[m], seenProm)
    <3>1. ~Missable
      BY <2>1 DEF Missable, Present, AutoTarget, DefaultPrometheus, Listed
    <3>2. QED
      BY <2>1, <3>1 DEF Inv, RestInv, AutoInv
  <2>3. QED
    BY <2>1, <2>2, MonitorsAssumption DEF HasProm
<1>2. QED
  BY <1>1, OwnedInvariant, PTL

\* A federated monitor at rest carries the label of the default Prometheus and,
\* in a federated cluster, is at every project Prometheus in its present
\* version, with its Service, Endpoints and Secret, owned by what exists.
THEOREM RestIsFederated == Spec => []SettledIsFederated
<1>1. Inv => SettledIsFederated
  <2> SUFFICES ASSUME Inv, NEW m \in Monitors, AtRest(m), mode # "unknown", Federated(m)
               PROVE  Labelled(m) /\ (mode = "federated" => Copied(m))
    BY DEF SettledIsFederated
  <2>1. sm[m].exists /\ sm[m].kind = "federated" /\ inside[m] \in {NoProm, Primary}
    BY DEF Federated
  <2>2. /\ ~Unseen(m) /\ ~Outdated(m) /\ seen[m] = sm[m] /\ seenProm = Present
        /\ Listed(seenProm) = {p \in Proms : prom[p]} /\ m \notin fedQueue /\ fed.key # m
        /\ seenService[m] = service[m]
    BY <2>1, RestSees DEF Inv, AtRest
  <2>3. CASE Missable
    <3>1. /\ platform = "openshift" /\ ~prom[Primary]
          /\ Primary \notin Listed(Present)
      BY <2>2, <2>3, MonitorsAssumption DEF Missable, Present
    <3>2. mode # "federated"
      BY <3>1 DEF Inv, RestInv, WorkInv
    <3>3. QED
      BY <3>1, <3>2 DEF Labelled, DefaultPrometheus
  <2> SUFFICES ASSUME ~Missable PROVE Labelled(m) /\ (mode = "federated" => Copied(m))
    BY <2>3
  <2>7. FedDone(m)
    BY <2>1, <2>2 DEF Inv, RestInv, FedInv
  <2>4. Labelled(m)
    <3>1. CASE mode = "federated"
      BY <2>2, <2>7, <3>1, MonitorsAssumption DEF FedDone, LabelDone, Labelled
    <3>2. CASE mode # "federated"
      <4>1. DefaultPrometheus(seenProm) # NoProm => DefaultPrometheus(seenProm) \in Listed(seenProm)
        BY ReadTypes DEF Inv, TypeOK
      <4>2. QED
        BY <2>2, <2>7, <3>2, <4>1 DEF FedDone, LabelDone, Labelled
    <3>3. QED
      BY <3>1, <3>2
  <2>5. ASSUME mode = "federated", NEW p \in Proms \ {Primary}, prom[p]
        PROVE  /\ copy[p][m] = [version |-> sm[m].version, owner |-> "now"]
               /\ deps[p][m].has["service"] = service[m]
               /\ deps[p][m].has["endpoints"] = service[m]
               /\ deps[p][m].mine = Dependents
    <3>1. Complete(p, m) /\ seenProm[p] = "now"
      BY <2>2, <2>5, <2>7 DEF FedDone, Present
    <3>2. copy[p][m].owner = "now" /\ copy[p][m].version = sm[m].version
      BY <2>2, <3>1 DEF Complete, CopyDone
    <3>3. copy[p][m] \in Copy /\ deps[p][m] \in Deps
      BY DEF Inv, TypeOK
    <3>4. copy[p][m] = [version |-> sm[m].version, owner |-> "now"]
      BY <3>2, <3>3 DEF Copy
    <3>5. \A x \in Dependents :
             x \in deps[p][m].mine /\ (x # "secret" => deps[p][m].has[x] = service[m])
      BY <2>2, <3>1 DEF Complete, DependentDone
    <3>6. deps[p][m].mine \subseteq Dependents
      BY <3>3 DEF Deps
    <3>7. QED
      BY <3>4, <3>5, <3>6 DEF Dependents
  <2>6. QED
    BY <2>4, <2>5 DEF Copied
<1>2. QED
  BY <1>1, OwnedInvariant, PTL

=============================================================================
