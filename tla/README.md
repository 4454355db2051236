# Verification of the ShieldX platform

TLA+ models of the ShieldX tenant platform, the TLC runs that check them on
small instances, and TLAPS proofs of the results that hold for every instance.
Paths are relative to the repository root (`internal/...`, `cmd/...`).

    tlc -workers 2 -config controller_one.cfg MCTenantController
    tlapm TenantControllerProofs.tla

and likewise for the other runs of section 3 and the other seven modules whose
names end in `Proofs`.

## 1. The system

ShieldX is a Kubernetes operator with two command-line companions.

| Component | Source | State it keeps | Operations |
|---|---|---|---|
| Tenant reconciler | `internal/controller/tenant_controller.go:62-251, 395-409` | none of its own: Tenants, Namespaces, ResourceQuotas, NetworkPolicies in the API server; informer caches and a work queue in the manager | `Reconcile`: get the Tenant, `ensureNamespace`, `ensureResourceQuota`, `ensureNetworkPolicy`, then make the Tenant a dependent of the Namespace |
| Signature scanner | same file, `:253-393` | the progress of one scan, on the stack | `Start` (ticker), `scanAndEnforcePodImages`: list Tenants, list pods, verify images, delete pods, notify |
| Image verification | `internal/webhook/verifyimage/verify.go` | a temporary key file while it runs | `VerifyImageSignature`, `buildCosignCheckOpts` |
| dotenv loader | `internal/config/dotenv/dotenv.go` | the process environment | `Load` |
| Telegram notifications | `internal/webhook/notify/telegram.go` | none | `SendMessageTelegram` |
| Admission webhook | `internal/webhook/v1alpha1/tenant_webhook.go` | none; a handler in progress | `Default`, `ValidateCreate/Update/Delete`: all admit, two send a message first |
| Imperative provisioning | `internal/webhook/k8s/pool.go`, run by `cmd/shieldctl`, `cmd/k8s-demo` | none of its own: Namespace, quota, policy, Secret in the API server | the network flags, `CreateReconciliation`, `DeleleteReconciliation` |
| Manager process | `cmd/main.go` | the leader lease | set-up, probes, webhook, caches, election, renewal, termination, crash, restart |
| API types | `api/v1alpha1` | the Tenant object | |
| Deep copy, manifests, e2e tests | `api/v1alpha1/zz_generated.deepcopy.go`, `config`, `test` | | |

How they interact:

* The reconciler reads through the manager's caches and writes to the API
  server. A write comes back as a watch event, which updates a cache and queues
  the Tenant that controls the object (`Owns`, `:404-406`) or the Tenant itself
  (`For`, `:403`). One worker takes Tenants from the queue.
* Every object `Reconcile` makes has the Tenant as its controlling owner, and
  the Tenant gets the Namespace as a (non-controlling) owner (`:219-247`). The
  ownership graph is therefore a cycle, on which the garbage collector and the
  namespace controller act on their own.
* The scanner is a `Runnable` of the same manager. It shares the caches with the
  reconciler and nothing else, and calls image verification (registry, Rekor, a
  temporary key file) and Telegram.
* Every Telegram message loads the `.env` files into the process environment
  again (`telegram.go:46`), which is where verification takes its key from.
* The webhook server runs in every replica of the manager, the reconciler and
  the scanner in the one that leads. The API server waits for the webhook before
  it stores a Tenant, and the webhook for Telegram.
* `shieldctl` and `k8s-demo` are independent client processes. They neither lock
  nor own anything: they issue plain `Create` and `Delete` calls, on a Namespace
  of the same name as the reconciler's for a Tenant of that name. The
  NetworkPolicies of both then apply to the same pods. `ensureNamespace` takes
  control of such a Namespace (`:77-84`), so that it is collected with the Tenant.

Hard behaviours: stale caches; events that arrive in any order, during the
work on the object they concern, or not at all after a watch broke; optimistic
concurrency; partial failure of a sequence of calls; crash and restart between
two calls; collection racing with re-creation; pods replaced under their name
between listing, judging and deleting; competing clients; errors replaced on the
error path itself; nested time-outs; a lease that outlives its holder.

What makes each component correct:

* Reconciler: no wake-up is lost; drift is repaired; deleted objects come back
  or are collected with their Tenant; nothing of somebody else's is taken over;
  only the right Tenant ever controls an object; the controller comes to rest;
  one failing Tenant does not starve another.
* Scanner: a scan removes the non-compliant pods and no others; each once; in
  the end none survives; what is removed is what was judged.
* Provisioning: what is in a tenant's Namespace is of one client's making, unless
  the Namespace was taken away under another; a deletion that reports success
  leaves nothing; a creation that reports success is complete; the network is as
  open as was asked, beside the reconciler's default-deny.
* Verification: an image passes only if the configured key verifies it, always
  does when it can; no way out of it forgets the key file; the environment's
  sources keep their precedence, whoever loads them.
* Webhook and notifications: no answer of Telegram, and no silence, decides an
  admission; no Tenant comes or goes by a request that is intercepted before the
  message was tried.
* Manager: one active replica at a time, and always one again.

## 2. Modules

### TenantController

`Reconcile` call by call, with what it runs against.

| In the model | In the code |
|---|---|
| `tenant`, `ns`, `child` | the API server's Tenants, Namespaces, and quotas and policies (`child["quota"]`, `child["netpol"]`) |
| `seenTenant`, `seenNs`, `seenChild` | the manager's informer caches |
| `wakeNs`, `wakeChild` | the Tenants that events not yet delivered will queue |
| `queue` | the work queue (a set: it deduplicates) |
| `pc`, `cur`, `snap` | the worker: the call it will make, the request, the copy of the Tenant that `r.Get` returned |
| `ReconcileGet` | taking a request, `:159-174` |
| `EnsureNamespace`, `EnsureResourceQuota`, `EnsureNetworkPolicy` | one `CreateOrUpdate` each: cached read, mutation with `SetControllerReference`, write. The two child functions differ only in their object and share `EnsureChild` |
| `LinkTenant` | `:190-251`: the isolation test, the cached get, the bare re-creation, the owner reference, the update with its conflict |
| `SyncTenant`, `SyncNs`, `SyncChild` | `SetupWithManager`'s `For` and `Owns` |
| `RestartManager` | `cmd/main.go`: a new leader lists everything |
| `GC...`, `EmptyNamespace`, `FinalizeNamespace`, `CanControl` | external: Kubernetes' garbage collector and namespace controller, controller-runtime's `SetControllerReference` |
| `CreateTenant` ... `DeleteChild`, `ApiError` | users and failing calls, at most `MaxDisruptions` in all |

Abstractions. Each object's `resourceVersion` is the object's content: an update
computed from a copy that differs from the live object is a Conflict. Quota and
policy specs are `"desired"` or `"drifted"`, the labels of a Namespace one bit. A
UID is the least number that nothing mentions any more, so that TLC's state space
is finite without limiting how often objects are re-created. A cache takes all
the events it missed in one step (an intermediate version it never shows is one
the worker could only have seen earlier); the Tenants those events concern
are all queued. A call that takes effect and loses its answer is the call
followed by `ApiError`. `Requeue: true`, an error and a conflict all put the
Tenant back into the queue: the back-off is time, which the model has none of.

The scope of the CRD is a parameter. `HomeOf[t] = Cluster` is a cluster-scoped
Tenant; anything else is the namespace it lives in, as with the CRD that is
shipped (`config/crd/bases/platform.shieldx.io_tenants.yaml:15`, `scope:
Namespaced`). `SetControllerReference` refuses a namespaced owner for a
cluster-scoped object, so the shipped CRD is a different system from the one the
code is written for; both are checked.

### TenantLifecycle and TenantRefinement

`TenantLifecycle` is what the owner of a Tenant is promised, without caches, queue
or calls: a Tenant is absent, being provisioned, provisioned, blocked by somebody
else's Namespace, or leaving; it lists the moves the platform makes by itself
and counts those of users and faults as disruptions. `TenantRefinement` computes the
stage from the API server's objects (`StageOf`) and states that `TenantController`
implements it (`KeepsLifecycle`): for instance, no step of a worker, an informer or
a collector takes a Tenant out of "provisioned". Two parts of the mapping are
not obvious. A Tenant that is gone is "leaving" as long as something still has it
as its controller. A Tenant whose reference to its Namespace dangles is not
"provisioned", even if a new Namespace is complete: the collector may still take it
(`Doomed`), which is how `TenantController` and `README.md:335` come to differ.

### TenantResync

The same controller when watches break. The client library re-lists: the caches
catch up, but an object that was created and deleted in the gap leaves no event
(`RelistNamespaces`, `RelistChildren`). What repairs that is the periodic resync of
the caches (`Resync`), for which `cmd/main.go` leaves the default of ten hours.
The module starts from a Tenant that a former manager has provisioned: until
objects exist there is nothing a gap can hide, and the way there is
`TenantController`'s. Users only delete and take over what there is.

### SignatureScanner

One scan, step by step. `StartScan`, `NextTenant`, `NextPod`, `VerifyImage`,
`DeletePod`, `Notify`, `EndTenant`, `EndScan` follow `Start` and the three nested
loops of `scanAndEnforcePodImages`; `pc` is where the scan is, `target` the pod as it
was listed, `removed` the pod that its deletion hit. Around it `pods` change: they are
created (with a fresh UID, also under a name that was used before), terminated and
removed; `seenIsolation` and `seenPods` are the caches that the two listings read,
each behind for as long as it likes; `signed` is what the key verifies and may change
when a tag is moved; `outage` stands for an unreachable registry or Rekor, or an
unusable key. `isolation` has a value `"odd"` for text that is `"namespace"` only once
trimmed and lower-cased, which is what `:304` does. `log`, `clean` and `before` are
history variables for the properties: what this scan enforced, whether anything
disturbed it, and the pods at its start, which are remembered only as long as nothing
does.

### ImageVerification

`VerifyImageSignature` with `buildCosignCheckOpts`, a call that can fail to a step,
and the environment it runs in. `ChooseKey` to `VerifySignatures` follow
`verify.go:39-131`; `temp` is the temporary key file. Every error from `CreateTemp`'s
success on, and the verdict, `Leave` for `"cleanup"`: that is the three calls of
`cleanup` in `buildCosignCheckOpts` and the defer of `VerifyImageSignature`. `CleanUp`
removes the file there; `RemoveFails` does not, since the error of `os.Remove` is
ignored (`:53`). `Restart` kills a call wherever it is, and a volume mounted at `/tmp`
then keeps the file, unless the pod goes too. `left` counts the files that are there
without a call, and `unremoved`, for the property only, the removals that failed and
the calls that were killed with a file. The deadline of ten seconds is `Expire`: from
then on the calls that use the network fail. `BeginLoad`, `LoadFile`, `SetVariable`,
`EndLoad` are `dotenv.Load`: `main` runs it once before anything else, and every
goroutine that sends a message runs it again, so the loads interleave with each other
and with the call that reads its key. godotenv decides what to set from the
environment as it is when a file is read, and sets a variable at a time. Of the values
a variable can have the model keeps what the code tells apart (`Environment`): one of
three places for `ENV_FILE`, a key or junk, `"true"` or something else; unset is not
the same as empty. The branch that reads a key file named by `COSIGN_PUB_KEY`
(`:72-79`) is dead, because the built-in key is not empty, and is left out; `BuiltIn`
is not a key, as the text at `:23` is not one. Cosign's own check is external:
`Accepts`.

### TenantAdmission

A request of a user, or of a controller that repeats it until it succeeds, on its way
through the mutating webhook (`Default`), the validating one (`ValidateCreate`,
`ValidateUpdate`, `ValidateDelete`) and into the store. `webhook` is the configuration
that is installed, of which the repository has several: which operations each webhook
intercepts, and how long the API server waits. A request that none intercepts goes
straight to the store. The API server waits for `limit` ticks, the handler for
Telegram `TelegramTimeout`; one tick is the five seconds of `SendMessageTelegram`'s
client, and time passes only while a handler waits. The handler does not look at its
context and goes on after the API server has given up. `SendMessageTelegram` may also
return at once, without having asked Telegram anything, for want of credentials
(`telegram.go:50-53`) or of a request (`:64-68`); the handler allows the request then
as well. `tried` are the requests for which it was called. `failurePolicy=fail` is
`ConnectionFails` and `Timeout`. A crash loses the handlers in progress. A dry run
stores nothing, but sends its message.

### Manager

Replicas of `cmd/main.go`: set-up, then probes, webhook server, caches and election
in the order in which `mgr.Start` starts them, then work, then the end by loss of
the lease, by SIGTERM or by a crash. The lease is client-go's, external, with
controller-runtime's settings that `main` leaves alone: 15 s, to be renewed within
10 s, not given back at the end (`main.go:183` is a comment). The identity it is
held under is new in each process, so that a restarted replica has to wait for its own
lease. Outages and lost answers are faults. A tick is five seconds; clocks
are taken to run at one rate, and a process to notice its own deadlines. A renewal
is idealised: the write and its answer are one step, unless the answer is lost, so
that an answer that is late and lets the leader count from a later moment than the
lease does is not in the model, and the retry period is left out.

### ShieldctlProvisioning

Several client processes, each one `CreateReconciliation` or
`DeleleteReconciliation`, on one tenant. An action is one API call.
`ReturnNotified` is the error path of `CreateReconciliation`: the handler declares
a new `err` with what `SendMessageTelegram` returned and returns that. The two
callers differ in what they do with it: `shieldctl create`
(`cmd/shieldctl/main.go:155-158`) ignores the result, `k8s-demo`
(`cmd/k8s-demo/main.go:56-60`) prints success when it is nil. `maker` and `object`
record which client made what, `undisturbed` whether anything was created
since a client began, and `stranded` the clients that were at work when the Namespace
began to go away: they go on by name, possibly in the Namespace of another. These are
for the properties only. The quantities of a `create` may not parse; those that
`k8s-demo` is compiled with (`cmd/k8s-demo/main.go:16-23`) do.

### TenantTraffic

Both builders over one Namespace: the clients of `ShieldctlProvisioning`, now with
their network flags, and the reconciler, whose steps are taken whole here because
`TenantController` has them call by call. The Tenant comes and goes (`CreateTenant`,
`DeleteTenant`: a user, or the collector after its Namespace), and `copy` is what
`Reconcile` has read of it: it may be of a former Tenant. `ReconcileNamespace` is both
branches of `ensureNamespace`: `MakeNamespace`, and `AdoptFound`, which takes control of
a Namespace that is there, a client's included. `holder` is its controller, and
`CollectNamespace` the garbage collector, which takes the Namespace of a Tenant that is
gone under whatever client is at work in it. The flags become rules as
`cmd/shieldctl/main.go` parses and `CreateNetworkPolicy` converts them
(`TenantNetworkPolicy`), with the API server's defaults for what they leave out;
k8s-demo has its own, compiled in. `Admits` is what Kubernetes makes of the
policies that are there: they add up. A pod and a selector are sets of labels, and a
pod of another namespace is `Outside`.

### MC and proof modules

`MC<module>` defines the values of the constants of a module;
`MCTenantController` serves `TenantRefinement` and `TenantResync` too.
`<module>Proofs` holds the proofs about a module, `TenantControllerProofs` those
about `TenantResync` as well; `TenantRefinementProofs` builds on
`TenantControllerProofs`, `TenantTrafficProofs` on `ShieldctlProvisioningProofs`. A
definition that a comment calls a mutant is a
plausible mistake in the definition after it; it is used by nothing, and
substituted for that definition it must break a property.

## 3. Runs

Deadlock is checked in `manager`. Elsewhere users, faults and disruptions are
bounded by a budget that they need not use, and when it is used up and the
controllers are at rest, every client is done or every request served, the system
really has nothing to do.

| Run | Instance | Properties | Distinct states |
|---|---|---|---|
| `controller_one` | cluster-scoped; 1 Tenant, 1 Namespace, 3 disruptions, Namespaces of others with and without a controller | `TypeOK`, `NoLostWakeup`, `ForeignUntouched`, `Quiescence`, `KeepsLifecycle`, `LeavesNothingHalfDone`, `UnhinderedGetsThrough` | 229,000 |
| `controller_two` | cluster-scoped; 2 Tenants, 2 Namespaces, 2 disruptions | `Convergence` | 168,000 |
| `controller_resync` | cluster-scoped; 1 Tenant, 3 disruptions, broken watches | `Convergence`, `Calm`, `LifecycleSteps` | 163,000 |
| `controller_acceptance` | CRD as shipped; 1 Tenant | `NamespaceAppears` is violated | (counterexample) |
| `controller_hand_deleted` | cluster-scoped; 1 Tenant that no user deletes, 2 disruptions | `HandDeletedComesBack` is violated | (counterexample) |
| `scanner` | 2 Tenants, 2 pods, 2 images, 1 disruption | `TypeOK`, `QuietScanExact`, `OnceAPod`, `EventuallyEnforced` | 805,000 |
| `scanner_wrong_pod` | 1 Tenant | `RemovesTheJudged` is violated | (counterexample) |
| `provisioning` | 2 clients, creating or deleting, 4 sets of flags, the reconciler, a Tenant that comes and goes, 1 fault | `TrafficTypeOK`, `SoleBuilder`, `OnlyMakersReport`, `DeleteSound`, `NothingFromOutside`, `JustWhatWasAsked` | 1,282,000 |
| `provisioning_demo` | 1 `k8s-demo`, 1 failing call | `NilMeansProvisioned` is violated | (counterexample) |
| `verification` | 2 images, 2 keys, 3 files, 2 senders, 1 fault | `TypeOK`, `NoKeyFileLeft`, `NilMeansSigned`, `Precedence`, `SignedImageVerifies`, `NeverOverrides` | 3,465,000 |
| `admission` | 2 requests of users, 1 of a controller, 4 webhook configurations with time-outs of 5, 10 and 15 s, 2 crashes | `TypeOK`, `TelegramNeverDecides`, `ControllersGetThrough`, `Announced` | 467,000 |
| `manager` | 3 replicas, 3 faults | `TypeOK`, `AtMostOneActive`, `TakesOver` | 121,000 |

What they show:

* `NoLostWakeup`: when the caches have caught up with everything `Reconcile` reads
  for a Tenant, that Tenant is queued, being worked on, or completely provisioned.
  This is the property that the choice of watches, of results and of error
  returns exists for. With the watch on the quota and policy removed, it fails.
* `Convergence` and `Quiescence`: after the last disruption everything settles for
  good. The ownership cycle gives two outcomes to "a user deletes the Namespace":
  it is re-created (the comment at `:90`) or the Tenant is collected with it
  (`:215`), depending on whether the collector sees the Tenant's dangling
  reference before `LinkTenant` replaces it. Both outcomes are stable and
  complete: there is no endless chase and no half-provisioned rest.
* `KeepsLifecycle` is the refinement: whatever the worker, the caches and the
  collectors do between two disruptions is a move of `TenantLifecycle`.
  `LeavesNothingHalfDone` is the abstract liveness through the same mapping, and does
  not wait for the last disruption: a Tenant leaves "provisioning" and
  "leaving" again after each.
* `UnhinderedGetsThrough`: a call of `Reconcile` turns back only for a copy that is out of
  date, a Namespace that is somebody else's or one that is going away. Drift and the
  remains of a former Tenant of that name are not in the way; a reconciler that
  created its quota and policy in place of ensuring them would fail it.
* `controller_two`: one worker, one Tenant whose namespace name is held by
  another controller and that can only fail; the other one still converges.
* `controller_resync`: when an object came and went without an event, the resync
  still makes everything converge; without it, it does not. `Calm` is the
  counterpart: the endless Reconciles of a resync, and the endless retries of
  a blocked Tenant, stop writing, so that a stale cache does not make a Tenant
  go on writing its quota and policy into somebody else's Namespace. `LifecycleSteps` is
  the step part of `KeepsLifecycle`, from a provisioned Tenant on: caches that
  missed something make no other moves than those that are merely late.
* `ForeignUntouched`: in spite of the stale cache that `CreateOrUpdate` decides
  from, the Conflict protects a foreign Namespace from the write.
* `QuietScanExact` compares the pods at the end of an undisturbed scan with those at
  its start; it is what a wrong `continue` or `break` in the loops would break.
  `OnceAPod` and `EventuallyEnforced` hold under disturbance too.
* `SoleBuilder`: as long as all creating clients do so with isolation `"namespace"`,
  `Create` of the Namespace acts as the lock: whatever fails, is interrupted, deleted,
  adopted or collected, quota, policy and Secret are of the client that made the
  Namespace. The exception is a client whose Namespace went away while it was
  at work (`stranded`): nothing tells it, and it goes on in whatever Namespace has the
  name by then.
  `OnlyMakersReport`: with any isolation, where no client deletes, one that comes to list
  the operator's pods, and under which the Namespace did not go away, has made everything
  itself. What `CreateReconciliation` returns does not say so (finding 4); that it
  got that far does.
  `DeleteSound`: a nil from `DeleleteReconciliation` can be trusted, unlike one from
  `CreateReconciliation`, unless a client or the reconciler created something
  meanwhile.
* `JustWhatWasAsked` and `NothingFromOutside`: where default-deny is in force, the pods
  talk exactly as the flags of the run that made the second policy say; a pod that
  either policy isolates exchanges nothing with another namespace. Default-deny keeps the
  omitted policy types of the flags from meaning "everything"; a second policy cannot
  be overruled by the first.
* `provisioning_demo`: one client alone, whose arguments are in order, and one call
  that fails.
* `NoKeyFileLeft`: a verification leaves its key file behind only where the removal
  fails or the manager is killed. An error handler without its `cleanup()` would show.
* `NilMeansSigned`: of all the ways in which a verification can fail, none ends
  in a nil. `Precedence` compares the interleaved loads, file by file and variable
  by variable, with a reference definition. `NeverOverrides` holds because the
  files do not change while they are loaded: godotenv looks and sets in two steps,
  and with two versions of a file the second load could replace what the first
  set in between. In a container they do not change.
* `TelegramNeverDecides` and `ControllersGetThrough` hold when the API server waits
  longer for the webhook than the webhook does for Telegram, as with the default
  of ten seconds and the fifteen of `setup/webhook`; the run covers five seconds too,
  where they are vacuous and `Announced` still has to hold. `Announced` is about
  `SendMessageTelegram` having been called, for that attempt of that request; whether it
  got a message out is another matter, and of a request that the installed
  configuration does not intercept it says nothing (section 5).
* `AtMostOneActive` covers the leader that is cut off, the one that is stopping and the
  one whose renewal took effect without an answer.

Bounds and why they are enough. Three disruptions are enough for the sequences that
are hard for the reconciler: create, delete and re-create a Tenant; create a Tenant,
delete its Namespace and have somebody else take the name; any of these with a restart
or a failing call in between. Caches, queue, collection and re-creation are not
bounded. Namespaces of one Tenant are independent of those of another except for the
worker they share, which `controller_two` is for. Six UIDs are never exhausted
(`Least` takes one that is not in use). For the scanner two pods ever created allow a
replacement under a name, and two images a pod with a good and a bad one in either
order; the second Tenant gives the loops something to go on with. The two Tenants, and
the two images, can change places: of initial states that differ in nothing else the
run takes one (`InitUpToRenaming`), which, unlike TLC's symmetry, is sound for
liveness. Two clients allow two creations, or a creation and a deletion, to race, with
the reconciler as the third builder; one fault fails or interrupts one of them, or
lets a creation succeed without an answer. The Tenant comes and goes without a bound.
The flags of a client do nothing for its course but parse or not, and the policies in
a state are by the flags of one client: the run does not combine each job with each
set of flags (`InitWithFewFlags`). The proofs are for any number of all of these. A
failing call ends a verification, save for Rekor's when the log is waived, and so do a
failing removal and a restart: one fault shows each of them. Two senders and `main`
let three loads interleave. Two crashes allow one during the repetition that follows
the other. Three replicas and three faults allow the successor of a leader that was
cut off to fail as well.

### Fairness

`TenantController!Fairness`: weak fairness of every call of the worker, of every
informer, of the collector and of the namespace controller - each is a loop
that runs as long as the manager or the cluster does. Strong fairness of
`ReconcileGet(t)`, because the work queue is FIFO with a back-off that is
bounded: a queued Tenant is passed over only finitely often while the single
worker keeps returning to `"idle"`; weak fairness would not say so, since
`ReconcileGet(t)` is disabled while another Tenant is worked on. Nothing is
assumed of `Disruption`, and the budget makes it finite: `Convergence` and
`Quiescence` are about what happens once things stop going wrong, the only time
they can hold. `ResyncSpec` adds the ticker of the resync; no watch is bound to
break.

`SignatureScanner!FairSpec`: weak fairness of the scan as a whole (the ticker ticks,
every call has a timeout) and of each pod's cache. One disjunct is enough, since the
scan is a single goroutine and its sets only shrink.

`TenantAdmission!FairSpec`: each request is served (every wait has an end), a
controller submits and repeats, time passes, the deployment restarts the
manager. Nothing is assumed of users and crashes.

`Manager!FairSpec`: a replica is started again and comes up, a leader that can renew
does, one that cannot gives up in time, a stopping one ends with its grace period
at the latest, outages end, time passes. Faults are not fair.

## 4. Proofs

### TenantControllerProofs

For all sets of Tenants, Namespaces and UIDs, all `HomeOf`, any number of
disruptions:

| Theorem | Statement | Argument |
|---|---|---|
| `TypeCorrect` | `Spec => []TypeOK` | `TypeOK` is inductive; one step per action |
| `OwnershipHolds` | `Spec => []OwnershipSound` | from `OwnershipInv`, below |
| `ShippedInert` | no Tenant is cluster-scoped `=>` `Spec => []Inert` | from `TypeOK`, ownership and `Inert` itself: the only way past `pc = "namespace"` is a `CanControl` that is false |
| `ForeignLeftAlone` | `Spec => ForeignUntouched` | every step that writes a Namespace either found no live one, or found one that `CanControl` accepted, or changes only its phase |
| `NoWakeupLost` | `Spec => []NoLostWakeup` | from `WakeupInv`, below |
| `UpToDateSuffices` | `Spec => UnhinderedGetsThrough` | from `OwnershipInv` and `ChildHeld`: a quota or policy is always held by some Tenant, which by ownership is one of this name, so that `CanControl` accepts it |

and, with `TenantResync`'s broken watches:

| Theorem | Statement | Argument |
|---|---|---|
| `GapsKeepTypes` | `EveryNameTaken => (ResyncSpec => []TypeOK)` | a re-list and a resync keep the types, the rest are steps of `Next` (`ResyncSteps`) |
| `GapsKeepOwnership` | `ClusterScoped`, `EveryNameTaken => (ResyncSpec => []OwnershipSound)` | `OwnershipInv` again: a cache takes over what is live, whose owners are sound |
| `GapsLeaveForeignAlone` | `EveryNameTaken => (ResyncSpec => ForeignUntouched)` | neither a re-list nor a resync writes an object |
| `ResyncMakesGood` | `EveryNameTaken => (ResyncSpec => ...)`: `WakeupInv` holds at first; it excludes a lost wake-up; each `Resync` establishes it; each step but `Relist` keeps it | from `HeardInv`, below |

`EveryNameTaken` and `ClusterScoped` are about the cluster that `ResyncInit` starts
from: each namespace name is a Tenant's, and each Tenant has a Namespace it can own.

They rest on the assumptions the module names: `TenantKeys` (a Tenant's key maps
to a namespace name, and no two Tenants of one home map to the same one),
`Uids`, `Bounds`, `Sentinels` and `NoneIsNoObject` (`None` and `Foreign` are not
objects or UIDs). TLC evaluates them in every run of `MCTenantController`.

`OwnershipSound` says of objects in the API server and in the caches that whoever
controls them is cluster-scoped and maps to that namespace. It is not inductive:
`EnsureChild` writes into `NsOf[cur]` with `cur` as the owner, and
`SetControllerReference` accepts that also for a Tenant that lives in this very
namespace (`HomeOf[cur] = NsOf[cur]`). That never happens, because such a Tenant
does not get past `ensureNamespace`. `OwnershipInv` therefore adds `PastNamespace`: at
`"quota"`, `"netpol"` and `"link"` the worker's Tenant is cluster-scoped, which
`EnsureNamespace` establishes on each way to `"quota"`. The invariant is split into
`NsSound` and `ChildSound` for live and cached objects; the caches only ever copy
live objects. `OwnershipSound` and `Inert` (the shipped CRD's system does nothing but
fail) are proved and need no run.

`NoLostWakeup` speaks of a Tenant for which the caches have caught up; to be
inductive the invariant has to say what holds until then. `WakeupInv` says, beside
`TypeOK`: a cache that is behind has an event coming for the controllers of both the
version it shows and the live one (`Lag`); each thing that `Reconcile` ensures for
a Tenant is as it should be for the copy of the Tenant that the manager has, or an
event for that Tenant is coming (`Placed`, `Linked`, `Filled`). The last holds for every
Tenant that is neither queued nor worked on (`Rest`), and for the worker's own Tenant
for the calls that lie behind `pc` (`Progress`), unless it was queued again. The step
that matters is a write from a stale copy: it either changes nothing that is
live, or is a Conflict, or makes an event for the Tenant itself, because the
object then has it as its controller. The theorem needs nothing of the CRD's
scope: a Tenant that cannot own anything never leaves the queue for good.

When a watch breaks, `WakeupInv` breaks with it: an event is dropped, and a Tenant
may be left behind that nothing will queue. `HeardInv` is what no gap can break: the
types, `Lag` (a re-list drops the events of a cache, but then that cache is not behind),
and `Copied`, that a worker whose Tenant is not queued again has the copy that the
cache has. It is enough for a resync to restore `WakeupInv` in one step, since a resync
queues all the Tenants the manager knows, the worker's included. How long it takes
after that is `Convergence`, which TLC checks.

### TenantRefinementProofs

| Theorem | Statement | Argument |
|---|---|---|
| `LifecycleKept` | every Tenant is cluster-scoped `=>` `(Spec => KeepsLifecycle)` | `RefinementInv`, below; the first state maps to `TenantLifecycle`'s, each action to a move or a stutter |

The scope is a hypothesis (`ClusterScoped`) since the stages are those of a Tenant that
can own its Namespace; of the shipped CRD there is `ShippedInert`. The proof looks at
the step of one Tenant's stage by the step's actor: a worker's write, a cache or the
queue (which the stage does not mention), the collectors, a disruption. That no
worker takes a Tenant out of "provisioned" is the hard part, because the worker may
hold a copy of an earlier Tenant of that name and read old caches. `RefinementInv`
adds to `OwnershipInv` what excludes it (`Past`): nothing is yet controlled by an
incarnation of a Tenant that the manager has not seen, or for which the worker still
holds an earlier copy (`Incarnation`); and a Tenant is linked to a Namespace only
once the cache shows that Namespace (`LinkSeen`), so that a later `LinkTenant` does not
replace the reference by an older one.

`GapsKeepLifecycle` is the step part of it for broken watches, under `ClusterScoped` and
`EveryNameTaken`: `ResyncSpec => LifecycleSteps`. A re-list and a resync do not change a
stage; `RefinementInv` holds in `ResyncInit`, and a re-list keeps it, because a cache that
shows what is live shows every Namespace that a Tenant may be linked to.

### ShieldctlProvisioningProofs

For any number of clients, jobs and faults, from `ProvisioningConstants`:

| Theorem | Statement | Argument |
|---|---|---|
| `TypeCorrect` | `Spec => []TypeOK` | `TypeOK` is inductive |
| `OneBuilder` | `Spec => []SoleBuilder` | from `BuilderInv`, below |
| `MakersReport` | `Spec => []OnlyMakersReport` | from `MadeInv`: what a client has made by the call it is at (`Made`) is still there, unless it is stranded. Every step of the others only adds to what is in a Namespace that is not going away (`Grows`), or is the one that strands the client |
| `DeletionSound` | `Spec => []DeleteSound` | from `DeleteInv`: for each deleting client that no creation has crossed, what it has deleted so far is still absent (`Cleared`) |

`SoleBuilder` says of the objects, if every creating client builds in a Namespace of
its own making (`Builders`), that they are of the Namespace's maker or of a stranded
client. It is not inductive: a client at `"netpol"` in a Namespace that another one made
would break it. `BuilderInv` adds that a client that is at work and not stranded is the
maker of the Namespace, which is active, and that nothing is in a Namespace that is not
there. Jobs do not change, so that `Builders` holds throughout or never (`KeepsJobs`), and
the theorem needs no assumption on them. Both the hypothesis and the exception are
needed: with isolation `"cluster"` no Namespace is created, so there is no lock, and a
Namespace that went and came back under a stalled client is somebody else's.

### TenantTrafficProofs

The same beside the reconciler, and the network, for all labels and flags, from
`ProvisioningConstants` and `TrafficConstants`:

| Theorem | Statement | Argument |
|---|---|---|
| `TrafficTypeCorrect` | `TrafficSpec => []TrafficTypeOK` | the types of both, and `Housed`: no policy and no controller without a Namespace, since a client makes a policy only in a Namespace (`ClientHouses`) and a Namespace goes when it is empty |
| `NoOtherNamespace` | `TrafficSpec => []NothingFromOutside` | holds in every state: each rule of each policy has exactly one peer, without a namespace selector (`RulesOfPolicies`) |
| `AsAsked` | `TrafficSpec => []JustWhatWasAsked` | likewise; `TypesAsAsked` is the case analysis on the omitted policy types |
| `OneBuilderBeside`, `MakersReportBeside`, `DeletionSoundBeside` | `TrafficSpec => []SoleBuilder`, `[]OnlyMakersReport`, `[]DeleteSound` | `BuilderInv`, `MadeInv` and `DeleteInv` again: a step of the traffic is one of the clients' or keeps what the invariants mention (`StepOfTraffic`). The reconciler's Namespace has no client as its maker and counts as a creation; adopting one changes nothing that the clients see; collecting one strands those at work in it, as a client's deletion does |

### ManagerProofs

For any number of replicas and any durations, from `ManagerConstants`, of which
`RenewDeadline < LeaseDuration` is the one that matters:

| Theorem | Statement | Argument |
|---|---|---|
| `TypeCorrect` | `Spec => []TypeOK` | `TypeOK` is inductive; it says that only a process in the election holds the lease |
| `OneActive` | `Spec => []AtMostOneActive` | from `LeaseHeld`: a leader holds the lease, and the lease is no older than what the leader has heard. A candidate then finds the lease run out only when no leader is left (`LeaderKeepsLease`) |

### SignatureScannerProofs

For any Tenants, pods, images and number of disruptions, from `ScannerConstants` and
`NoneIsNoPod`:

| Theorem | Statement | Argument |
|---|---|---|
| `TypeCorrect` | `Spec => []TypeOK` | `TypeOK` is inductive |
| `ReportedOnce` | no two Tenants share a namespace `=>` `(Spec => []OnceAPod)` | from `OnceInv`: the pods that are listed or in hand have keys of their own (`OneListing`), and neither they nor the namespaces still to be listed are those of a pod already reported (`NotAgain`) |
| `QuietScan` | `Spec => []QuietScanExact` | from `QuietInv`: as long as nothing disturbs the scan, a pod it has to remove is ahead of one of its loops until it is gone (`NoneEscapes`), and what it holds is still what it listed (`QuietWorld`, `QuietLists`) |

The hypothesis of `ReportedOnce` (`OwnNamespaces`) holds of cluster-scoped Tenants, whose
names are their namespaces. With the CRD as shipped, two Tenants of one name in two
namespaces would have the scan visit one namespace twice, and a pod whose deletion
fails would be reported at each visit.

### ImageVerificationProofs

For any images, keys, files and number of goroutines that load them, from
`VerificationConstants` (`PodEnv` and the files' contents are environments, the built-in
key is no key) and `Sentinels`:

| Theorem | Statement | Argument |
|---|---|---|
| `TypeCorrect` | `Spec => []TypeOK` | from `LoadInv` and `CallInv` |
| `NothingOverridden` | `Spec => NeverOverrides` | from `LoadInv`, below |
| `LoadedInOrder` | `Spec => []Precedence` | likewise |
| `KeyFileRemoved` | `Spec => []NoKeyFileLeft` | from `KeyFile`, a part of `CallInv`: a call has a file just between making it and the end of its cleanup, so that one that ends without cleanup has none |
| `NilIsSound` | `Spec => []NilMeansSigned` | from `CallInv`: the key of a call is the built-in one or the environment's, and past `LoadKey` it is a key; a call that waives the log was told to by an environment that still says so, since a running process keeps what it has |
| `SignedVerifies` | `TmpWritable => (Spec => []SignedImageVerifies)` | from `CallInv`: the file has its key in it when it is loaded, and a call that expired counts as faulty |

None of the properties of the loads is inductive: two goroutines may have decided to
set the same variable, and what the second one sets then replaces what the first
one did. `LoadsAgree` says why that does no harm. `Ending(l, e)` is what `l`'s load makes
of the environment if nobody interferes: what it is about to set, then what is there,
then the first of the files still to come that has the variable. The invariant is that
all loads in progress end with the same environment: main's with `Loaded(podEnv)`, a
later one with `Loaded(Loaded(podEnv))`. It holds because `ENV_FILE` is settled by main's
load (`EnvFileSettled`: where it was not set then, no later load finds it), so that all
later loads read the same files. `TmpWritable` is the hypothesis of `SignedVerifies`
because a container with a read-only file system verifies nothing (section 5).

### TenantAdmissionProofs

For any requests, time-outs and number of crashes, from `AdmissionConstants`:

| Theorem | Statement | Argument |
|---|---|---|
| `TypeCorrect` | `Spec => []TypeOK` | `TypeOK` is inductive |
| `TelegramHasNoSay` | `Spec => []TelegramNeverDecides` | from `WaitedTogether`: a request and its handler have waited equally long, so that the request never waits longer than the handler's client does |
| `NothingUnannounced` | `Spec => Announced` | from `TriedFirst`: an intercepted request is admitted only after its handler began, and a handler that began, unless it is an update's, has called `SendMessageTelegram`; a request that is repeated starts without either |

Model-checked only: liveness (`Convergence`, `Quiescence`, `Calm`,
`LeavesNothingHalfDone`, `EventuallyEnforced`, `ControllersGetThrough`, `TakesOver`),
which is under fairness and beyond the prover. Every safety and action property that a
passing run checks is proved.

## 5. Findings

1. `controller_acceptance`. With the CRD as shipped, `Reconcile` fails in
   `ensureNamespace` (`tenant_controller.go:83`) for every Tenant, before anything
   is created, and is retried for ever. `README.md:559` promises that creating a
   Tenant makes its namespace appear, and `tenant_controller_test.go:77` expects
   `Reconcile` to succeed for a Tenant in namespace `default`.
2. `controller_hand_deleted`. A Namespace that is deleted by hand is not always
   re-created, as `README.md:335` and the comment at `tenant_controller.go:90` say:
   the owner reference of `:231` lets the garbage collector take its Tenant first.
3. `scanner_wrong_pod`. The scanner deletes by name, without the UID as a
   precondition, after verifying for up to ten seconds (`:334`): a pod re-created
   under the name is removed in place of the one that was judged.
4. `provisioning_demo`. A failed `CreateReconciliation` returns nil when its failure
   notice was delivered (`pool.go:193` and the handlers after it), and `k8s-demo`
   reports success.

Observed while modelling, without a document that clearly says otherwise. Of the
reconciler and the scanner:

* A Namespace exists for a moment before its default-deny policy.
* Quota and policy can be written, from a stale cache, into a Namespace that has
  been replaced by somebody else's (but not for ever: `Calm`).
* A Tenant that is re-created under its name may find the old Namespace
  terminating, link itself to it and be collected with it.
* Quota and policy are ensured for Tenants of every isolation, though `:190` says
  that only namespace-isolated ones are managed.
* The notice "Deleted pod ..." is sent also when the deletion failed (`:335-350`).
* An outage of the registry counts as a failed signature.
* A Namespace that `shieldctl` made is adopted for a Tenant of that name and collected
  with it, under the client if it is still at work. The client goes on by name: if
  another has made the Namespace again by then, its objects end up there (`stranded`).
* `config/rbac/role.yaml` grants the manager nothing on quotas and policies;
  `setup/role/above.yaml` does.

Of verification:

* The built-in key (`verify.go:21-27`) is not a key: without `COSIGN_PUB_KEY_PEM`
  no image verifies, and the branch for `COSIGN_PUB_KEY` cannot be reached.
* The manager's key file stays in `/tmp` when it is killed during a verification, or when
  the removal fails; nobody removes it later.
* `config/manager/manager.yaml:93` makes the root file system read-only, and no
  writable `/tmp` is mounted: `TmpWritable` is FALSE there, `CreateTemp` fails, and
  no image verifies.

Of admission, the manager and provisioning:

* A `timeoutSeconds` of 5, which `docs/WEBHOOK_RUNBOOK.md:797` allows, is Telegram's
  own time-out: a silent Telegram then denies the request.
* `setup/webhook/ValidatingWebhookConfiguration.yaml:14`, which `setup/Document.md`
  section 3 applies, intercepts `CREATE` and `UPDATE`, and nothing in the
  namespace `shieldx-platform-system`; `docs/WEBHOOK_RUNBOOK.md:227` has the same two
  operations. Tenants are deleted there without `ValidateDelete`, and in that
  namespace created without `ValidateCreate`: no message is tried.
  `config/webhook/manifests.yaml:50` has `DELETE`. Once kustomize has prefixed that
  configuration's name, the two have the same one, so that the one applied last counts.
* Without a chat or a token `SendMessageTelegram` returns before it contacts Telegram, and
  the request is allowed.
* A dry run sends its message, although the webhook is declared free of side
  effects.
* A replica is ready before its webhook serves (`main.go:211` checks nothing of it).
* Default-deny also denies traffic within the namespace, which the template at
  `README.md:98` allows.
* `shieldctl create` ignores the result of `CreateReconciliation`; quota flags that
  are left out do not parse, so that the creation stops after the Namespace.

The models have all of these behaviours.

## 6. Not modelled

* Deep-copy functions (generated), manifests and the e2e harness. The manifests
  enter as parameters (`HomeOf`, `LeaderElect`, `Configuration`, `TmpWritable`).
* Of Telegram, the request itself and what its credentials are; of the manager, TLS and
  metrics options, which are read once and keep no state of the Tenants; of the
  API types, the fields that no code acts on (tier, owners, status).
* Quantities of quotas: they parse or not. The JSON of a rule: it parses, to the
  labels it names, or not; a run with one that does not is refused before it creates
  anything.
* What a failed or interrupted deletion of `shieldctl` leaves: `DeleteSound` is about
  deletions that report success.
* That a scan goes on after one failed listing or deletion is in the model, but no
  property depends on it: a later scan makes up for it.
* Time, except in `TenantAdmission` and `Manager`: back-off, the scan interval and
  the deadlines are orderings only.
* A leader that is suspended beyond its lease acts on it for a moment when it
  wakes up: the API server does not check leases, and client-go cannot help it.
* Files that change while they are loaded (see `NeverOverrides`).

## 7. Plan

What could still be proved, in this order:

1. That a Reconcile brings its Tenant nearer to `Provisioned`. `UnhinderedGetsThrough`
   is the half of it that says that no call turns back; the other is that what the
   calls behind `pc` ensured is still so at its end, as long as nothing disturbs it.
   The two together are the safety part of `Convergence`.
2. `OnlyMakersReport` with deletions by clients too, for the runs that none has crossed:
   `stranded` says so of the Namespace already, not of the objects in it.
