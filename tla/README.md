# A TLA+ verification of grafana-tools

This directory models the controllers of `src/pkg` in TLA+, checks the models
with TLC and proves their main invariants with TLAPS. Every definition is
translated from the Go source; `PROJECT.json` maps it to the lines it stands for.

## The system

Two processes run in a cluster, each a controller-runtime manager.

| process | wiring | what runs in it |
|---|---|---|
| monitoring operator | `apiserver/apiserver.go` | ClientOrg, Prometheus, Alertmanager, ServiceMonitor auto and federation reconcilers, Rancher token refresher, the DashboardGroup API |
| grafana operator | `cmds/server/grafana.go` | GrafanaDashboard, GrafanaDatasource and PersesDashboard reconcilers |

Neither elects a leader by default. They never call each other: they meet in the
objects of the API server. Outside the cluster stand the Grafana and Perses
servers, Rancher, and the *hub* (the platform API at which a Prometheus or a client
organisation is registered).

controller-runtime, used by all reconcilers, fixes most of what can interleave:
reads come from an informer cache that lags behind the API server; a key is never
handled by two workers at once, and an event for a key being handled queues it
again; an error queues the key again; a queue that dropped its content in a
restart is filled from the new list of the cache. A panic in a Reconcile is
recovered and counts as an error.

### Inventory

| component (`src/pkg/...`) | state it keeps | operations | interacts with | must hold |
|---|---|---|---|---|
| GrafanaDashboard reconciler (`controllers/openviz/grafanadashboard_controller.go`) | finalizer, status (phase, observed generation, recorded dashboard and state) of the object | finalize, mark, resolve AppBinding, push model, record, fail, terminate, external delete, release; two watches with a filter | AppBinding and its secret, Grafana | a push only under the finalizer; at rest the newest model is in the right Grafana; deletion cleans up and ends |
| GrafanaDatasource reconciler (`grafanadatasource_controller.go`) | finalizer, status (phase, reason, observed generation, datasource number) | finalize, mark, create or update, record, fail, terminate, delete by number, release | AppBinding, Grafana | nobody else's datasource is written or deleted; a status that says Current is true; deletion cleans up |
| PersesDashboard reconciler (`persesdashboard_controller.go`, `perses/`) | finalizer, status | finalize, mark, resolve, post, record, fail, terminate, delete by name, release; two watches with a filter | AppBinding, Perses | a post only under the finalizer; at rest the dashboard is in the right Perses; one broken AppBinding does not hold up others |
| ClientOrg reconciler (`controllers/namespace`, `controllers/clientorg`) | finalizer and cleaned-up annotation of a namespace; its `-monitoring` namespace with marker, AppBindings, secrets, dashboard copies | fresh read, finalizer, registration of two backends, marker, copies; teardown by deletion or by label | hub, detector, trickster ServiceAccount, dashboards | marker is honest; registrations and copies are under the finalizer; deletion ends |
| Prometheus reconciler (`controllers/prometheus`) | finalizer and external labels; marker on a rolebinding; presets; AppBindings | label, finalize, access objects, preset, register two backends, bind, stamp; cleanup | hub, detector, ace-info, Rancher token | registration for the present state and token; one default; cleanup before the finalizer goes |
| Prometheus detector (`detector/prometheus.go`) | its decision, shared by the controllers of the process and kept until restart | detect, IsDefault, Federated, DefaultPrometheus | Prometheus objects, listed at the API server | one default Prometheus |
| Rancher token (`rancherutil`, `controllers/ranchertoken`) | token, next token and their cluster state in a secret; a delayed requeue | find the token, renew it before it expires | Rancher, cluster state | a reader finds a token with a day left; renewals come to rest; few tokens are leaked |
| ServiceMonitor auto controller (`controllers/servicemonitor/auto_controller.go`) | selector labels of a ServiceMonitor | give it the labels of a Prometheus that may select it | detector | at rest it is scraped |
| ServiceMonitor federation controller (`federation_controller.go`) | selector labels; copies of ServiceMonitor, Service, Endpoints, Secret per project Prometheus, with owners | label for the default Prometheus, copy for the others | detector, the auto controller (same labels), garbage collector | at rest every project Prometheus has complete copies whose owners exist |
| Alertmanager reconciler and detector (`controllers/alertmanager`, `detector/alertmanager.go`) | AlertmanagerConfig, selector of the Alertmanager | discover the inbox agent, write the config | detector | the inbox gets the alerts of the right Alertmanager |
| Hub client (`controllers/prometheus/client.go`) | none | Register, Unregister, and the same for Perses | hub | - |
| DashboardGroup API (`registry/ui/dashboardgroup`) | none | resolve dashboards, render URLs | dashboards | - |

The hard behaviours are the interleavings of a Reconcile with edits, deletions and
changes of what it read before (the caches lag, and several facts are read twice);
retries after a call that took effect or half of it; restarts between two calls;
markers and numbers that outlive what they stand for; two workers that write one
object; and objects that must eventually go. `PROJECT.json` lists them as hazards,
each at its line.

## The modules

```
FinalizerContract <--- INSTANCE --- GrafanaDashboard      <- MCGrafanaDashboard
                   \--------------- GrafanaDatasource     <- MCGrafanaDatasource
                   \--------------- ClientOrg
                   \--------------- PrometheusController  <- MCPrometheusController
                                    PersesDashboard       <- MCPersesDashboard
                                    RancherToken
                                    ServiceMonitors       <- MCServiceMonitors
```

`<Component>Proofs` extends its component and holds its theorems; there is one for
each of the eight modules on the left and in the middle. The modules are separate
specifications because the components meet only in objects whose other side each
module has as an action of its own: the Rancher token and the cluster state change
under `PrometheusController`, the default Prometheus comes and goes under
`ClientOrg`. The two ServiceMonitor controllers share labels, caches and detector
and are composed in one module.

**FinalizerContract** is the abstract specification of the finalizers of the
repository: take the finalizer, create the outside object under it, remove
the outside object, give the finalizer up. Whoever implements it never leaves the
outside object behind (`NothingLeftBehind`, a theorem).

**GrafanaDashboard**. `obj` is the object at the API server, `seen` the cached one;
`binding`/`bound` the same for AppBindings (abstracted to the Grafana they point
at), `remote[g][d]` the generation of `d`'s model in Grafana `g`, 0 for none. The
steps of the worker (`pc`) are the calls of the code in their order:

| action | code |
|---|---|
| `Start`, `FirstStep` | the cached read and the branches at the top of `Reconcile` |
| `Finalize` | `CreateOrPatch` of the finalizer, its "create" branch included |
| `MarkProcessing`, `MarkTerminating`, `Record`, `MarkFailed` | the four status patches; `MergeStatus` is the merge patch computed against the cached copy |
| `Resolve`, `Push`, `ReadOrg` | `setDashboard`: `GetGrafana`/`GrafanaState`, a second resolution in `NewGrafanaClient` with `SetDashboard`, `GetCurrentOrg` |
| `Cleanup`, `Release` | `deleteExternalDashboard`, the plain patch that drops the finalizer |
| `Deliver`, `Filter`, `DeliverBinding`, `AppHandler`, `Resync` | the predicate of `For`, the map function of `Watches(AppBinding)`, the resync |
| `ApiFault`, `GrafanaFault`, `Restart` | a failing call at any step (a push may have taken effect), a restart |

**GrafanaDatasource**. The same shape, against a Grafana that numbers its
datasources: `remote[g]` is the sequence of them, with owner and generation, and
one that is nobody's of the operator's comes first. `Mark` is the patch that already
sets the observed generation; `Sync` is `createOrUpdateDatasource` (`PostAccepted`,
`PutAccepted` say when Grafana answers 200), `Record` the two status patches, which
differ in the generation they record (`Created`, `Updated`), `Cleanup` the DELETE by
the number in the status. There is no predicate: every event enqueues (`Deliver`).

**PersesDashboard**. Like `GrafanaDashboard`, with the differences that matter:
`Takes` and `Posted` are the POST whose 409 counts as success, `Cleanup` deletes by
name wherever the AppBinding points now, `AppHandler` skips only the dashboard whose
AppBinding does not resolve, and a failure comes back by `RequeueAfter`.

**ClientOrg**. One client-org namespace `ns` with its cached copy, its monitoring
namespace `mon`, the registrations `hub`, and the worker. `FreshRead` is the
uncached read, `EnsureFinalizer` ... `CopyDashboards` the path of an active
organisation with `registerBackends` inside it (`Register`, `Bind`, `Authorize`
per backend, then `Stamp`), `Unregister`, `Sweep`, `RemoveFinalizer`,
`MarkCleanedUp` the teardown. `HubFault` and `ApiFault` say for each call whether
the error is collected, dropped or returned.

**PrometheusController**. All Prometheus objects `prom`, their cached copies, the
detector (`mode`, `Detected`, `IsDefault`), the marker on the rolebinding, the
presets, the AppBindings with the uid of their owner (so that garbage collection
is a step), the hub, and one worker that runs `EnsureLabels`, `AddFinalizer`,
`EnsureAccess`, `CreatePreset`, `Register`/`Bind`/`Authorize` per backend and
`Stamp`, or `CleanupPreset`, `Unregister`, `RemoveFinalizer`. The detector decides from
`Existing`, the objects at the API server: it lists an `UnstructuredList`, and the
manager leaves `Cache.Unstructured` off (`apiserver.go:160`), so the list bypasses the
cache. All controllers of the process share it (`apiserver.go:191`), so it may also
decide between two reconciles of this one (`Detect`). An empty list is an error and
the key is retried; OpenShift's missing Prometheus is not, and the key is dropped.

**RancherToken**. `secret` and its cached copy `seen` hold the numbers of a primary
and a next token and the cluster state of the latter; `expiry[t]` is the day a token
ends and `now` the day. `FindToken` is the lookup, shared with the Prometheus
reconciler; `Start` is the reconcile up to the decision of `processToken`, `Decide` that decision, `Create`
and `Store` the two calls of `RenewToken`, `due`/`Timer` the delayed requeue (of two
the queue keeps the earlier), `Exit` the `os.Exit` of a refresher that finds no
token, `LookupPanics` the dereference of a token that could not be decoded. `FindToken`
drops the errors of its own two lookups at Rancher, so a failing one is no retry
(`LookupFault`): without the next token the reconcile goes on with the primary, and may
issue and store a token over a next one that lasts. `Tick`
lets time pass only when the operator rests or has nothing it can do.

**ServiceMonitors**. `sm`/`seen` are the ServiceMonitors users create, `prom` and
`seenProm` the Prometheus objects (the cache may show a former object of the name),
`copy[p][m]` and `deps[p][m]` what was copied to `p`'s namespace, with owners. Each
controller has a queue and a worker. Both choose from the cached Prometheus objects,
but ask the detector first, which decides from those that exist (`Detected`, `Detect`).

| action | code |
|---|---|
| `AutoStart`, `AutoLabel` | `AutoReconciler.Reconcile` up to the choice (`HasProm`, `AutoTarget`), `updateServiceMonitorLabels` |
| `FedStart`, `FedLabel`, `FedReject` | `FederationReconciler.Reconcile` up to the loop; the default Prometheus; the `return nil` for a misplaced monitor |
| `FedCopy`, `FedService`, `FedEndpoints`, `FedSecret` | the four copies, each with its owner reference; `FedEndpoints` has the panic of `ServicePortForName` |
| `FedFault`, `AutoFault`, `Restart` | a failing call (the loop goes on with the next, and returns the aggregate), a restart |
| `DeliverMonitor`, `DeliverService`, `DeliverProm`, `Resync` | the watches of both controllers with their predicates and map functions |
| `Catchup`, `Collect` | external: the Endpoints controller and the CA secret's issuer, the garbage collector |

### What is abstracted

* A dashboard's model is its generation; `addDashboardID`, `replaceDatasource` and
  `updateDatasourceVariable` only decide whether a generation can be prepared, the
  server whether it is accepted. Titles and names are taken as unique, so a push
  lands on the dashboard of the same object.
* An informer delivers the newest version of an object: versions in between may be
  skipped, which the API server's watch cache also does. The reconcilers compare
  only the newest version they see.
* In `GrafanaDashboard`, `GrafanaDatasource` and `PersesDashboard` a name is used
  once, except that the code itself may create the object anew (`Finalize`).
  `ClientOrg` and `PrometheusController` do let users create the name again, and
  `ServiceMonitors` does so for Prometheus objects.
* `GrafanaDatasource`: AppBindings are read from the cache and not watched, so only
  their cached state is kept.
* `ClientOrg`: one organisation (the workers share nothing two namespaces write);
  the dashboard copies are one object; reads of the monitoring namespace, the
  trickster rolebinding and the Prometheus objects are taken as fresh; nothing in
  the repository sets the registration label by which the trickster ServiceAccount
  is watched, so that event may occur (`TricksterEvent`) and is never relied on.
* `PrometheusController`: reads of the rolebinding, presets, AppBindings and the
  service are taken as fresh; the state hash and the token are the cache's. `Ns[p]`
  is the namespace of the Prometheus and of its service. One worker, as
  `MaxConcurrentReconciles` is left at 1.
* `RancherToken`: days instead of instants, one of them being `renewalOffset`; a
  reconcile takes no time. The secret is never deleted, and Rancher is asked only for
  tokens it knows.
* `ServiceMonitors`: a Prometheus' selector is one label with its name; a monitor has
  one Service and one CA Secret; contents are versions; a selector of namespaces
  matches its project. Names of copies do not clash with monitors of the target
  namespace.
* A hub client is configured, and no second replica of an operator runs.

## The runs

Every module with an inductive invariant has a run that checks it as `Inv`: the
types and the named parts (`FinalizerInv`, `MarkerInv`, `GuardInv`, `UidInv`,
`TokenInv`, `NumberInv`, `CopiesAreOwned`, `PassInv`) the proofs rest on.

| run | shows |
|---|---|
| `GrafanaDashboardFaults` | One dashboard, two Grafanas, three generations of which the second is refused, one change of AppBinding or secret, one failed call, one restart: `Inv`; a push only under the finalizer; the contract until the first disturbance; and, up to the first restart, `SettledIsSynced` and `Converges`. |
| `GrafanaDashboardTwo` | Two dashboards, one of which does not resolve and so suppresses AppBinding events for both: `Converges` still holds, by the resync alone. |
| `GrafanaDatasource` | One datasource, two Grafanas, three generations, one change of AppBinding, one failed call, one restart, one resync: `Inv`; `NeverForeign`; `StatusIsHonest`, an update that says Current is true; the contract and `Converges` while undisturbed. |
| `PersesDashboard` | Two dashboards, one of which has no AppBinding at first, and any two of: an edit, a change of AppBinding, a failure or restart: `Inv`; `PostNeedsFinalizer`; `BindingEventRequeues`, an AppBinding's event brings back its failed and stale dashboards whatever the other's AppBinding does; `SettledIsPresent` and `Converges`. |
| `ClientOrgFaults` | One organisation, two cluster states, one failure of the hub and one of the API server, one restart, one AppBinding, monitoring namespace or Prometheus removed: the marker is honest (`StampedMeansRegistered`), an active organisation ends up provisioned, a deleted one goes. |
| `ClientOrgCrash` | One label change, the namespace created twice, one failed API call, one restart: the contract for registrations and copies together, and an organisation labelled `terminating` loses its copies. |
| `PrometheusStandalone` | One Prometheus registered by an old release, deleted up to twice and created again, a state change, one failure of each kind, one restart: `Inv`, registrations under the finalizer, the contract. |
| `PrometheusFederated` | The federated Prometheus and one of a project on Rancher, a token rotation, one failure of each kind and a restart: at rest, and eventually, each is registered for the present state and token and the default one has its bindings; the marker is honest. |
| `PrometheusOpenShift` | The user workload Prometheus and another one that is there first, two deletions, one failure of the hub, one restart: the other is left alone; whenever the detector decides anew it takes no other for the default one, so the contract holds of both; a deleted one goes, unless its preset was gone before the Reconcile that is to delete it. |
| `RancherToken` | Six days, tokens of an administrator that end on day 2, day 4 or never, issued ones that live three days; one change of cluster state, one replaced primary, one resync, one failed call or lookup, one restart: at rest a reader finds more than a day, what it finds never gets shorter-lived, renewals come to rest, and the leaked tokens are those that disturbances explain. |
| `ServiceMonitors` | One monitor, the system and a project Prometheus, on OpenShift and on Rancher, and any two of: relabel, edit, delete, change of the Service, Prometheus created or deleted, namespace moved, failed call, restart. At rest an auto monitor is scraped and a federated one labelled and copied whole, under owners that exist; both eventually. |
| `GrafanaDashboardOrphan` | a violation, see *Findings* |

### Bounds

Each bound is a constant `Max...`, used in the guard of the action it limits. One
fault, one restart and one change of each input are enough for every hazard in the
list: each needs one disturbance between two given calls, and TLC tries all pairs
of calls. Two generations after the first make an edit that supersedes a pending
one; two cluster states and two tokens make a marker that is stale; two lives of a
name make a copy that shows the previous object. `MaxRebinds` is 1 on purpose: an
AppBinding that is changed and changed back within one reconcile (ABA) does break
`SettledIsSynced` and `SettledIsPresent`, see below. `MaxEvents = 2` in
`PersesDashboard` and `ServiceMonitors` takes every pair of disturbances; the safety
properties of the latter were also checked with three. In `RancherToken` a token
must end, be renewed and end again: with a life of three days, one of them the
offset, six days do. `CHECK_DEADLOCK FALSE` everywhere: an operator with
nothing to do and users who do nothing is a legal end.

### Fairness

* Informers deliver (WF): a watch that breaks is re-established and re-listed.
* A running Reconcile goes on (WF on `Step`): calls have timeouts, and failing is
  a bounded action of its own. The Perses client has none; `PersesDashboard` assumes
  that Perses answers or the connection breaks.
* `Start` of a key: SF where several keys compete, since the work queue is first in
  first out and starves none; WF where there is one key. `AutoStart` and `FedStart`
  are SF for the same reason.
* `Resync`: WF in `GrafanaDashboard`, `PersesDashboard` (`SyncPeriod` is set to 10
  minutes) and `ServiceMonitors` (the default of controller-runtime, ten hours), SF
  in `ClientOrg`. In `GrafanaDatasource`, `RancherToken` and `PrometheusController`
  convergence is checked *without* it.
* The delayed requeue of the token refresher fires (WF on `Timer`).
* The cluster finishes deletions, garbage collection and Endpoints (WF).
* Users, faults, restarts, the clock and the trickster ServiceAccount owe nothing.

## Findings

`GrafanaDashboardOrphan`: a failure after the push (`grafanadashboard_controller.go:341`)
records no uid, so the deletion skips Grafana (line 264) and drops the finalizer,
which the comment at line 105 says happens after the external dashboard is deleted.

### Other deviations the models show

They need no definition of their own; the bound or formula to try is given, where
the model has the step.

GrafanaDashboard:

| where | what | how to see it |
|---|---|---|
| `grafanadashboard_controller.go:175` | returns nil for the whole AppBinding event when *any* dashboard's AppBinding does not resolve | `GrafanaDashboardTwo` with a property like `BindingEventRequeues` for the stale dashboards |
| `:359` | the generation recorded as observed is the one re-read at patch time; an edit in between is lost when a restart drops the queued key | drop `crashes = 0` from `SettledIsSynced` |
| `:323` | the AppBinding is read twice; changed in between and back again, the model is in the other Grafana | `MaxRebinds = 2` and `SettledIsSynced` without `rebinds <= 1` |
| `:346` | the phase is not sent when the cached copy still shows Current; the object rests in Processing | the invariant `Quiet => (Synced(d) => obj[d].phase = "Current")` for a `d` that exists and resolves |
| `:116` | the object is created again when the cache lost it before the finalizer was added; the datasource and Perses reconcilers do the same | the property that an object that has gone stays gone |

GrafanaDatasource (`grafanadatasource_controller.go`):

| where | what | how to see it |
|---|---|---|
| `:117` | the generation is marked observed before the sync, so a sync that failed is skipped when it is retried | `Converges` without `faults = 0` |
| `:192` | the creation marks the cached copy's generation observed; an edit it overlaps is lost | `StatusIsHonest` without the condition on `reason` |
| `:117`, `:192` | when the sync fails and then the patch that would say so, the status keeps `Current` and the observed generation of a spec that was never pushed | `StatusIsHonest` with `MaxFaults = 2` and without `faults <= 1` |
| `:117` | an edit whose sync a restart cuts off is observed and never pushed | `StatusIsHonest` without `crashes = 0` |
| `:192` | the number is lost with a failed patch or a restart: Grafana refuses the next POST, and the deletion leaves the datasource | `ImplementsContractUndisturbed` without `faults = 0` |
| `deleteExternalDatasource` | a DELETE whose answer was lost is answered 404 when retried: the finalizer stays | `Converges` without `faults = 0` |
| status | the number is kept when the AppBinding moves: the next update or deletion hits another Grafana's datasource of that number | `NeverForeign` without `rebinds' = 0`, two datasources, two generations and no faults |

PersesDashboard:

| where | what | how to see it |
|---|---|---|
| `perses/handlers.go:148` | 409 is success and nothing is ever PUT: an edited model does not reach Perses | `Present` with `remote[p][d] = obj[d].generation` |
| `perses/client.go:119` | no timeout: a Perses that does not answer holds the only worker | drop `WF_vars(Step)` |
| `persesdashboard_controller.go:266`, `:283` | the AppBinding is read twice (ABA, as above) | `MaxRebinds = 2`, `SettledIsPresent` without `rebinds <= 1` |
| `deleteExternalDashboard` | a POST that took effect but was not recorded leaves the dashboard behind, as in `GrafanaDashboardOrphan`; so does an AppBinding that moved, the deletion going where it points now | an invariant that an absent object's name is in no server |
| model names | two objects whose models carry one name share a dashboard: one edits nothing, either deletes it | not in the model |

ClientOrg:

| where | what | how to see it |
|---|---|---|
| `namespace/backend.go` (marker), `namespace_controller.go:108` | relabelled `terminating` and back, an organisation is not registered again: marker and AppBindings survived the teardown | `ClientOrgCrash` with `MaxLabels = 2`, `MaxLives = 1`, `ActiveIsProvisioned` |
| `namespace_controller.go:130` | the finalizer is computed from the cached copy, not from the one just read: relabelled twice, the namespace is registered without finalizer | `ClientOrgCrash` with `MaxLabels = 2`, `ImplementsFinalizerContract` |
| `:108` | the cleaned-up annotation of the first teardown suppresses the second | `ClientOrgCrash` with `MaxLabels = 3`, `TerminatedIsSwept` |
| `:83` | without the label nobody removes the finalizer | drop `ns.label = ""` from `DeletionCompletes` |
| `detector/prometheus.go:106` | an operator started after the last Prometheus was removed is never ready, so a deleted organisation stays | drop `~(ready \/ prometheus)` from `DeletionCompletes` |
| `backend.go:231` | a failed write of the auth secret is dropped and never repeated | the property that `mon.auth[b]` eventually holds |
| `helpers.go:76` | the monitoring namespace is left to its owner; `controllers/README.md:142` has it deleted before the finalizer goes | the code has no such call |

PrometheusController:

| where | what | how to see it |
|---|---|---|
| `prometheus_controller.go:549` | the retry of a deletion stumbles over the preset it has already deleted and never removes the finalizer | drop `PresetGone(p)` from `DeletionCompletes` |
| `:440` | a Prometheus deleted and created again finds the marker of its predecessor and is not registered | `PrometheusStandalone` with `SettledIsRegistered` |
| `:440` | a removed AppBinding is not noticed while the marker is current | `PrometheusFederated` with `MaxDrops = 1`, `SettledIsRegistered` |
| `detector/prometheus.go:112` | the detector finds a single Prometheus; one that is created later is a default one as well, until a restart | two Prometheus objects on `"plain"`, `OneDefault` |
| `detector/prometheus.go:86` | Rancher's own Prometheus is missing when the detector decides, or decides anew after a restart: a project's Prometheus is taken for standalone | `PrometheusFederated` with `MaxDeletes = 2`, `ImplementsFinalizerContract` |
| `rancherutil/rancher.go:76` | a lookup of the next token that fails has this reconcile register and stamp with the primary's token, and nothing queues it again | not in the module: there the token is read or the reconcile fails |
| `:432` | the marker of an old release is replaced by the present token without registering | a legacy marker on Rancher, `SettledIsRegistered` |

RancherToken:

| where | what | how to see it |
|---|---|---|
| `rancherutil/rancher.go:76` | a failed lookup of the next token is dropped: a primary that ends soon, or never, is renewed over a next token that lasts, and that one is leaked | `LeaksAreAccounted` without `faults` |
| `:77` | the primary's decode error is dropped at line 70; when the next token is alive its expiry is compared with that of a nil token | the invariant `HasNext(secret, state) => ~LookupPanics(secret, state)` |

ServiceMonitors (mostly what the code never does, so what the properties leave out):

| where | what |
|---|---|
| `federation_controller.go` | a source that is deleted or relabelled leaves its copies |
| `:259` | sources of one name in two namespaces share a copy, which may also overwrite a monitor of the target namespace |
| `:377` | ports are added to a copied Service and never removed |
| `:177` | a misplaced monitor ends the loop with nil and drops the errors of the Prometheus objects before it |
| `:190` | after a failed `copyServiceMonitor` the target is nil and `copyService` panics; the retry comes from the recovered panic (`FedFault`) |
| `ServicePortForName` | Endpoints that name a port the cached Service does not have panic (`FedEndpoints`) |
| listing of Services | `NamespaceSelector.Any` is ignored, though the watch honours it |
| watches | Endpoints, Secrets, namespaces and the copies are not watched: only the resync repairs them |
| `detector/prometheus.go:86` | a project Prometheus that exists before the system one decides for standalone, until a restart |
| `detector/prometheus.go:106` | while OpenShift's Prometheus is missing a monitor is dropped without an error, even if the cache still shows the former one; the event of the next one brings it back |
| `auto_controller.go:211` | a monitor deleted during a reconcile is created anew by `CreateOrPatch` (`Labels`, second disjunct) |

## What is proved

All theorems hold for every value of the constants that satisfies the module's
assumption (`DashboardAssumption`, `ClientOrgAssumption`, `PrometheusAssumption`,
`TokenAssumption`, `DatasourceAssumption`, `PersesAssumption`,
`MonitorsAssumption`): they type the constants and require no particular number of
objects, no bound and no platform. Beyond types, `TokenAssumption` has
`Offset < TTL`, as 24 hours are less than the life of an issued token,
`MonitorsAssumption` a `Rank` that tells the Prometheus objects apart, as their
namespaces and names do, and `PrometheusAssumption` a `Legacy` marker that is no
number of a cluster state. Theorems of `ClientOrg` and `PrometheusController` have
hypotheses of their own, named below with the deviation each one excludes.

Every `Inv` is inductive and the conjunction of named parts; `Spec => []Inv` is the
theorem `...Invariant` of the module (`OwnedInvariant` for `ServiceMonitors`), and the
other theorems follow from it.

* **`FinalizerContract`**: `ContractLeavesNothing`, every implementation of the
  contract leaves nothing behind.
* **The finalizer** (`PushIsGuarded`, `TerminatingStays`,
  `GrafanaWrittenUnderFinalizer`, `PostIsGuarded`, `RegistrationIsGuarded`). That an
  outside write needs the finalizer is not inductive: the worker acts on a copy.
  `FinalizerInv` adds what makes the stale copy harmless: a cached finalizer is still
  there unless the cache already shows the deletion; a cached deletion is real; and
  the step of the worker agrees with both. Where a name can be created again
  (`PrometheusController`) it also says that a new object gets no finalizer while its
  predecessor is being torn down. (`TerminatingIsFinal` and `WritesUnderFinalizer` are
  stated for the theorems only; no run checks them.)
* **`GrafanaDashboard`**: `RestIsSynced` and `UndisturbedImplementsContract`.
  `SyncInv` says what cache, API server and worker's copy agree on: what a status has
  observed has been in the cache (`CopyInv`), an edit the worker's copy lacks is
  already on the queue (`WorkInv`), and while one AppBinding has changed once the
  Grafana it points at is recorded or aimed at only by those who have seen the change
  (`MoveInv`). Then whatever ends without having pushed the newest model puts its key
  back (`RestInv`). For the refinement, `TraceInv`: undisturbed, what is in Grafana is
  recorded in the status or is about to be, so the deletion finds it.
* **`GrafanaDatasource`**: `NothingForeignTouched`, `StatusTellsTheTruth`,
  `UndisturbedImplementsContract`. `NumberInv` says that as long as no reference has
  moved every number in status, cache and worker is of a datasource the object owns;
  it holds through lost answers because a number enters the status only from an answer
  and Grafana never reuses one. `SyncInv` adds what the worker knows at its steps, so
  that a patch computed against the cached copy leaves out only what the server has,
  and that a recorded datasource is there until the worker deletes it. `HonestInv`
  then says which status fields an unfinished or failed sync may leave; `TraceInv` is
  the same as above.
* **`PersesDashboard`**: `RestIsPresence`, `EventRequeues`. `PresenceInv` follows the
  Perses a status may name from the AppBinding (`PlaceInv`) through Resolve, Post and
  Record (`ResolvedInv`).
* **`ClientOrg`**: `MarkerIsHonest`, the marker is stamped only when both backends hold
  the state it names. `MarkerInv` says, per step of `registerBackends`, which
  backends are registered with the chosen state or were so by the marker, unless an
  error was collected. `UndisturbedImplementsContract` and `OrgImplementsContract` are
  the refinement of `FinalizerContract`, for any number of lives, restarts, failed calls
  of the API server and dropped objects. It needs that the hub has not failed (a failed
  unregistration is logged and forgotten) and that the label has changed once at most
  (a second change meets the finalizer of the cached copy): `Undisturbed`. The first
  theorem asks this of each step, the second of the bounds. Their invariant is
  `GuardInv`: a cached finalizer is real, or belongs to an organisation that both cache
  and API server show as going; the worker provides only under the finalizer
  (`Provided`) and withdraws only from one that is going (`Going`).
* **`PrometheusController`**, the marker: `MarkerIsHonest` and `OthersAreLeftAlone`, both
  under `LegacyNs = {}`: over the marker of an old release the code writes a new one
  without registering, and such a marker only exists where an old release has run. The
  reasons are `RegisteringInv` (the backends behind the worker hold what it has chosen,
  in a context that cannot move before it stamps) and `OpenShiftInv` (the detector
  decides nothing but OpenShift there, so the worker is never at another Prometheus).
* **`PrometheusController`**, the refinement of `FinalizerContract`:
  `LoneImplementsContract` for at most one Prometheus (`Alone`, as in
  `PrometheusStandalone`), with no further hypothesis (`LoneInv`);
  `PlacedImplementsContract` for any number of them, while the detector keeps to one
  verdict `m` under which no two share a context (`OwnContext(m)`);
  `OpenShiftImplementsContract`, where it has no other verdict. After a restart the
  detector may decide otherwise, and then a Prometheus is unregistered where it was not
  registered, which is why the verdict is a hypothesis. `PlaceInv` says that everyone is
  registered in the own context only, under the finalizer, and taken from there before
  it is released; with contexts apart a step then changes one Prometheus' registrations.
* **`PrometheusController`, one default**: `OneDefaultUnlessSingleton`, as long as the
  detector does not take a Prometheus for the only one; `OneDefaultOnOpenShift`, where
  it never does; `OneDefaultOnRancher`, where it cannot while Rancher's own Prometheus,
  there from the start, is not deleted. No run checks `OneDefault`: where these hold the
  detector has no choice, elsewhere it fails. It compares uids, so the proof needs
  that no two Prometheus objects ever share one in object, cache or worker's copy
  (`UidInv`); `BindingInv` adds that an AppBinding's uid is nobody's but the primary's.
  `LegacyIsPrimary`: the AppBindings an old release left are the primary's.
* **`PrometheusController` at rest**: `RestIsRegistered` and `RestIsRegisteredWhereFirm`
  prove `SettledIsRegistered` for any number of Prometheus objects, states, tokens,
  failures and restarts. `SettlingInv(m)` is the invariant: state and token only grow,
  the worker has chosen no newer ones and registers only over an older marker
  (`ChoiceInv`), so a marker becomes fresh only by being stamped and its owner is not
  registered anew while it is; a fresh marker is true and who has none is on the queue or
  with a worker that read the present values (`DueInv`); `ObjectsInv` and `BoundInv` say
  what the AppBindings are at each step. Each hypothesis excludes a deviation listed
  above: `deletes = 0` (a Prometheus created again finds its predecessor's marker),
  `drops = 0` (a removed AppBinding goes unnoticed), `LegacyNs = {}`, and `Apart(m)` with
  one verdict `m`: own namespaces and contexts, and a detector that does not change its
  mind. In the second theorem the constants grant the last (`Firm`: OpenShift, Rancher
  with its own Prometheus from the start, or one Prometheus): `VerdictInv` shows that the
  detector then comes to `Verdict` only. `PrometheusFederated` is an instance of it.
* **`RancherToken`**: `FreshInTime`, `NeverShortens`, `LeaksArePaid`. A token in the
  secret lives at most `TTL`, one about to be stored exactly `TTL` (so it is no worse
  than any it replaces), and at rest the timer fires `Offset` before the best token
  ends, so a day cannot pass unnoticed (`TokenInv`).
  For the leaked tokens `LeakInv` counts what is still at stake as well (`Stake`): a
  primary not seen yet, a timer about to ask once too often, a next token that is bound
  to be replaced while it lasts, a reconcile that is repeated over the old copy, one
  under way for another state. Undisturbed no step raises the sum of both, and a
  disturbance, a lookup whose error is dropped among them (`StakeLookup`), raises it by
  two at most (`LeakStep`); `CopyInv` says how old the copy behind it can be. That a
  renewal under way was due is not part of it: after a dropped error it need not be.
* **`ServiceMonitors`**: `OwnedInvariant`, `RestIsServed`, `RestIsFederated`. What a
  copy owns belongs to a copy that exists and is there (`CopiesAreOwned`), because what
  a pass copies, or may create anew, was there when it began (`PassInv`). `RestInv`
  holds, per monitor, what the last pass decided with the Prometheus objects that are
  cached now (`AutoInv`) and what it has copied or, for the monitor in hand, is through
  with (`FedInv`), up to what the cache still has to tell of it (`Unseen`, `Outdated`):
  the two workers may overwrite each other's label, but only where the cache does not
  show it yet, and then an event is on its way. What a pass decided is tied to the cached
  Prometheus objects except where the detector, which looks at those that exist, may have
  found OpenShift's one missing (`Missable`): the cache does not show the present one
  yet, and its event will bring the monitor back. The loop visits the Prometheus objects
  by `First`; that the choice exists for every non-empty set is `FirstIn`, by the least
  element of the ranks.

Each proof has one lemma per group of actions and one step per action. TLC checks each
`Inv` in a run; `BindingInv`, `PlaceInv(m)` and `SettlingInv(m)`, which hold under
hypotheses, were checked before they were proved, as invariants of
`PrometheusFederated` and `PrometheusOpenShift` with more deletions and drops (the
constraint `mode \in {"unknown", "federated"}` stating the hypothesis of `PlaceInv`), and
`ImplementsContractUndisturbed` of `ClientOrg` with `MaxLabels = 2`, `MaxLives = 3` and a
failing hub.

**Only model-checked**: liveness under fairness (`Converges`, `Settles`,
`DeletionCompletes`, `ActiveIsProvisioned`, `TerminatedIsSwept`), which TLAPS does not
reach. Every invariant, action property and refinement of a passing run is stated by a
theorem, with the hypotheses above.

## Not modelled

* The Alertmanager reconciler and detector: one object written from the inbox
  agent's Service, with no finalizer, status or worker state; no order of its steps
  matters to the result.
* The DashboardGroup API: a read-only view.
* The Grafana `ClientBuilder` (`grafana/builder.go`): it has no caller.
* Of the API server, flags, scheme and TLS set-up; what matters of it (leader
  election, resync, workers) is in the fairness and the environment's actions.
* Parts of modelled components: see the notes in `PROJECT.json`.

## Plan

1. done: `FinalizerContract`, `GrafanaDashboard`, `ClientOrg`, `PrometheusController`.
2. done: `RancherToken`, `GrafanaDatasource`, `PersesDashboard`, `ServiceMonitors`,
   each with the proof of its inductive invariant.
3. `ClientOrg` with dashboard copies of their own: same-name sources, per-copy errors,
   a lagging copy of the monitoring namespace.
4. `PrometheusController` with the shared preset of several Prometheus objects as a
   property, and the reads now taken as fresh as cached ones.
5. The Alertmanager detector and the service lookup of the Prometheus detector as
   pure operators against a definition.
6. done: `SettledIsRegistered`, `OneDefault` (theorems only) and the refinements of `ClientOrg` and
   `PrometheusController` under hypotheses that exclude the deviations.
