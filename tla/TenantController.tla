-------------------------- MODULE TenantController --------------------------
(***************************************************************************)
(* The Tenant controller of internal/controller/tenant_controller.go with  *)
(* the parts of Kubernetes it runs against: the API server's objects, the  *)
(* manager's informer caches and work queue, the garbage collector and the *)
(* namespace controller.                                                   *)
(*                                                                         *)
(* Reconcile reads the caches and writes the API server, one call at a     *)
(* time; pc is the call it is about to make.  A cache lags behind the API  *)
(* server until the watch delivers the events it has missed, all at once,  *)
(* which also queues the Tenants those events concern.  A resourceVersion  *)
(* is abstracted to the content of the object: an update computed from a   *)
(* copy that differs from the live object is the API server's Conflict.    *)
(***************************************************************************)
EXTENDS Naturals

CONSTANTS
    Tenant,         \* Tenant keys: a namespace and a name
    Namespace,      \* namespace names the Tenants map to
    NsOf,           \* Tenant key -> "tenant-" + its name
    HomeOf,         \* Tenant key -> the namespace it lives in, or Cluster
    Cluster,        \* the home of a Tenant when the CRD is cluster-scoped
    TenantUid,      \* UIDs the API server can give to Tenants
    NsUid,          \* UIDs the API server can give to Namespaces
    Intruders,      \* controllers a Namespace made by somebody else may have
    MaxDisruptions, \* bound on user actions, API errors and restarts
    None,           \* no object, no reference
    Foreign         \* a controller that is not a Tenant

ASSUME TenantKeys ==
    /\ NsOf \in [Tenant -> Namespace]
    /\ DOMAIN HomeOf = Tenant
    /\ \A s, t \in Tenant : NsOf[s] = NsOf[t] /\ HomeOf[s] = HomeOf[t] => s = t
ASSUME Uids == TenantUid \subseteq Nat /\ NsUid \subseteq Nat
ASSUME Bounds == MaxDisruptions \in Nat /\ Intruders \subseteq {None, Foreign}
ASSUME Sentinels ==
    /\ None \notin Tenant \cup TenantUid \cup NsUid
    /\ None # Foreign /\ {None, Foreign} \cap [tenant : Tenant, uid : TenantUid] = {}

VARIABLES
    tenant, ns, child,               \* the API server's objects
    seenTenant, seenNs, seenChild,   \* the manager's caches of them
    wakeNs, wakeChild,               \* Tenants the undelivered events concern
    queue,                           \* Tenants waiting for Reconcile
    pc, cur, snap,                   \* the worker: next call, its Tenant, its copy
    disruptions                      \* how much of the budget is used

api   == <<tenant, ns, child>>
cache == <<seenTenant, seenNs, seenChild>>
wake  == <<wakeNs, wakeChild>>
work  == <<queue, pc, cur, snap>>
vars  == <<api, cache, wake, work, disruptions>>

Kind      == {"quota", "netpol"}
Isolation == {"namespace", "cluster"}

Ctrl      == {None, Foreign} \cup [tenant : Tenant, uid : TenantUid]
TenantObj == [uid : TenantUid, isolation : Isolation, nsRef : NsUid \cup {None}]
NsObj     == [uid : NsUid, phase : {"Active", "Terminating"},
              labelled : BOOLEAN, ctrl : Ctrl]
ChildObj  == [spec : {"desired", "drifted"}, ctrl : Ctrl]

ASSUME NoneIsNoObject == None \notin TenantObj \cup NsObj \cup ChildObj

TenantMap == [Tenant -> TenantObj \cup {None}]
NsMap     == [Namespace -> NsObj \cup {None}]
ChildMap  == [Kind -> [Namespace -> ChildObj \cup {None}]]

\* Every variable has its type, and the worker holds a copy of its Tenant
\* exactly while it runs Reconcile's calls.
TypeOK ==
    /\ tenant \in TenantMap /\ seenTenant \in TenantMap
    /\ ns \in NsMap /\ seenNs \in NsMap
    /\ child \in ChildMap /\ seenChild \in ChildMap
    /\ wakeNs \in [Namespace -> SUBSET Tenant]
    /\ wakeChild \in [Kind -> [Namespace -> SUBSET Tenant]]
    /\ queue \subseteq Tenant
    /\ pc \in {"idle", "namespace", "quota", "netpol", "link"}
    /\ pc = "idle" => cur = None /\ snap = None
    /\ pc # "idle" => cur \in Tenant /\ snap \in TenantObj
    /\ disruptions \in 0..MaxDisruptions

-----------------------------------------------------------------------------
(* Owner references.                                                       *)

Owner(t, u) == [tenant |-> t, uid |-> u]

\* The Tenants that an event on object o wakes up.
OwnersOf(o) ==
    IF o = None THEN {} ELSE IF o.ctrl \in {None, Foreign} THEN {} ELSE {o.ctrl.tenant}

\* Mutant: an existing controller is displaced.
CanDisplace(t, objNs, ctrl) == HomeOf[t] \in {Cluster, objNs}

\* SetControllerReference accepts t as the controller of an object whose
\* namespace is objNs: a namespaced owner cannot own a cluster-scoped object,
\* nor one of another namespace, and another controller is not displaced.
CanControl(t, objNs, ctrl) ==
    /\ HomeOf[t] \in {Cluster, objNs}
    /\ ctrl \in {None} \cup [tenant : {t}, uid : TenantUid]

\* UIDs are never reused while something still mentions them; of the others
\* the least is as good as any.
NsUidsInUse ==
    {o.uid : o \in {ns[n] : n \in Namespace} \ {None}}
      \cup {o.uid : o \in {seenNs[n] : n \in Namespace} \ {None}}
      \cup {o.nsRef : o \in ({tenant[t] : t \in Tenant}
                      \cup {seenTenant[t] : t \in Tenant} \cup {snap}) \ {None}}

CtrlUids(objects) == {o.ctrl.uid : o \in {p \in objects \ {None} : p.ctrl \notin {None, Foreign}}}

TenantUidsInUse ==
    {o.uid : o \in ({tenant[t] : t \in Tenant}
              \cup {seenTenant[t] : t \in Tenant} \cup {snap}) \ {None}}
      \cup (UNION {CtrlUids({ns[n], seenNs[n]} \cup {child[k][n] : k \in Kind}
                             \cup {seenChild[k][n] : k \in Kind}) : n \in Namespace})

Least(u, uids, inUse) ==
    u \in uids \ inUse /\ \A v \in uids : v < u => v \in inUse

\* A Namespace that somebody other than Reconcile makes, with controller c.
PlainNs(u, c) == [uid |-> u, phase |-> "Active", labelled |-> FALSE, ctrl |-> c]

\* The manager starts on a cluster without Tenants, whose caches it has filled;
\* a Namespace with a Tenant's name may exist already.
Init ==
    /\ tenant = [t \in Tenant |-> None] /\ seenTenant = tenant
    /\ \/ ns = [n \in Namespace |-> None]
       \/ \E n \in Namespace, c \in Intruders, u \in NsUid :
            /\ Least(u, NsUid, {})
            /\ ns = [m \in Namespace |-> IF m = n THEN PlainNs(u, c) ELSE None]
    /\ seenNs = ns
    /\ child = [k \in Kind |-> [n \in Namespace |-> None]] /\ seenChild = child
    /\ wakeNs = [n \in Namespace |-> {}]
    /\ wakeChild = [k \in Kind |-> [n \in Namespace |-> {}]]
    /\ queue = {}
    /\ pc = "idle" /\ cur = None /\ snap = None
    /\ disruptions = 0

\* A write to the API server is an event for the watch.
PutNs(n, o) ==
    /\ ns' = [ns EXCEPT ![n] = o]
    /\ wakeNs' = [wakeNs EXCEPT ![n] = @ \cup OwnersOf(ns[n]) \cup OwnersOf(o)]

PutChild(k, n, o) ==
    /\ child' = [child EXCEPT ![k][n] = o]
    /\ wakeChild' = [wakeChild EXCEPT ![k][n] = @ \cup OwnersOf(child[k][n]) \cup OwnersOf(o)]

sameNs    == <<ns, wakeNs>>
sameChild == <<child, wakeChild>>

-----------------------------------------------------------------------------
(* The worker: one Reconcile at a time, one call per step.                 *)

\* Mutant: the copy of the last Tenant is kept.
DoneKeepingCopy == pc' = "idle" /\ cur' = None /\ UNCHANGED snap

Done == pc' = "idle" /\ cur' = None /\ snap' = None

\* Mutant: an error is retried on the spot.
RetryInPlace == pc' = "namespace" /\ UNCHANGED <<queue, cur, snap>>

\* An error or Requeue: true puts the Tenant back into the queue.
Requeue == Done /\ queue' = queue \cup {cur}

\* Mutant: a finished Reconcile asks for another.
SucceedRequeue == Done /\ queue' = queue \cup {cur}

Succeed == Done /\ UNCHANGED queue
GoTo(step) == pc' = step /\ UNCHANGED <<queue, cur, snap>>

\* Take a Tenant from the queue and get it; a Tenant not found is done.
ReconcileGet(t) ==
    /\ pc = "idle" /\ t \in queue
    /\ queue' = queue \ {t}
    /\ IF seenTenant[t] = None
         THEN UNCHANGED <<pc, cur, snap>>
         ELSE pc' = "namespace" /\ cur' = t /\ snap' = seenTenant[t]
    /\ UNCHANGED <<api, cache, wake, disruptions>>

\* What ensureNamespace wants of the Namespace it found, uid and phase kept.
WantedNs(o) == [o EXCEPT !.labelled = TRUE, !.ctrl = Owner(cur, snap.uid)]

EnsureNamespace ==
    LET n == NsOf[cur] seen == seenNs[n] IN
    /\ pc = "namespace"
    /\ \/ /\ seen = None /\ CanControl(cur, Cluster, None) /\ ns[n] = None
          /\ \E u \in NsUid : Least(u, NsUid, NsUidsInUse)
               /\ PutNs(n, [uid |-> u, phase |-> "Active", labelled |-> TRUE,
                            ctrl |-> Owner(cur, snap.uid)])
          /\ GoTo("quota")
       \/ /\ seen # None /\ CanControl(cur, Cluster, seen.ctrl)
          /\ seen = WantedNs(seen)
          /\ GoTo("quota") /\ UNCHANGED sameNs
       \/ /\ seen # None /\ CanControl(cur, Cluster, seen.ctrl)
          /\ seen # WantedNs(seen) /\ ns[n] = seen
          /\ PutNs(n, WantedNs(seen))
          /\ GoTo("quota")
       \/ /\ IF seen = None
               THEN ~CanControl(cur, Cluster, None) \/ ns[n] # None
               ELSE ~CanControl(cur, Cluster, seen.ctrl)
                      \/ (seen # WantedNs(seen) /\ ns[n] # seen)
          /\ Requeue /\ UNCHANGED sameNs
    /\ UNCHANGED <<tenant, sameChild, cache, disruptions>>

\* Mutant: an existing object is replaced, whatever it contains.
ReplaceChild(k, next) ==
    LET n == NsOf[cur] IN
    /\ pc = k
    /\ \/ /\ seenChild[k][n] # None
          /\ PutChild(k, n, None) /\ Requeue
       \/ /\ seenChild[k][n] = None /\ child[k][n] = None /\ ns[n] # None
          /\ PutChild(k, n, [spec |-> "desired", ctrl |-> Owner(cur, snap.uid)])
          /\ GoTo(next)
    /\ UNCHANGED <<tenant, sameNs, cache, disruptions>>

\* Mutant: the object is created, whether or not there is one.
CreateChild(k, next) ==
    LET n == NsOf[cur]
        admitted == child[k][n] = None /\ ns[n] # None /\ ns[n].phase = "Active"
    IN
    /\ pc = k
    /\ \/ /\ admitted /\ CanControl(cur, n, None)
          /\ PutChild(k, n, [spec |-> "desired", ctrl |-> Owner(cur, snap.uid)])
          /\ GoTo(next)
       \/ /\ ~admitted \/ ~CanControl(cur, n, None)
          /\ Requeue /\ UNCHANGED sameChild
    /\ UNCHANGED <<tenant, sameNs, cache, disruptions>>

\* ensureResourceQuota and ensureNetworkPolicy differ only in the object.
EnsureChild(k, next) ==
    LET n == NsOf[cur]
        seen == seenChild[k][n]
        want == [spec |-> "desired", ctrl |-> Owner(cur, snap.uid)]
        ctrl == IF seen = None THEN None ELSE seen.ctrl
        admitted == /\ ns[n] # None /\ ns[n].phase = "Active"
                    /\ child[k][n] = None
        write == CanControl(cur, n, ctrl)
                   /\ IF seen = None THEN admitted ELSE child[k][n] = seen
    IN
    /\ pc = k
    /\ \/ /\ seen = want /\ CanControl(cur, n, ctrl)
          /\ GoTo(next) /\ UNCHANGED sameChild
       \/ /\ seen # want /\ write
          /\ PutChild(k, n, want)
          /\ GoTo(next)
       \/ /\ IF seen = want THEN ~CanControl(cur, n, ctrl) ELSE ~write
          /\ Requeue /\ UNCHANGED sameChild
    /\ UNCHANGED <<tenant, sameNs, cache, disruptions>>

EnsureResourceQuota == EnsureChild("quota", "netpol")
EnsureNetworkPolicy == EnsureChild("netpol", "link")

\* The rest of Reconcile: only a "namespace" Tenant goes on; a Namespace the
\* cache does not have is created bare; the Tenant is made a dependent of the
\* Namespace, by an update from the copy taken at the start.
LinkTenant ==
    LET n == NsOf[cur] seen == seenNs[n] IN
    /\ pc = "link"
    /\ \/ /\ snap.isolation # "namespace"
          /\ Succeed /\ UNCHANGED <<tenant, sameNs>>
       \/ /\ snap.isolation = "namespace" /\ seen = None
          /\ IF ns[n] = None
               THEN \E u \in NsUid : Least(u, NsUid, NsUidsInUse)
                      /\ PutNs(n, PlainNs(u, None))
               ELSE UNCHANGED sameNs
          /\ Requeue /\ UNCHANGED tenant
       \/ /\ snap.isolation = "namespace" /\ seen # None /\ snap.nsRef = seen.uid
          /\ Succeed /\ UNCHANGED <<tenant, sameNs>>
       \/ /\ snap.isolation = "namespace" /\ seen # None /\ snap.nsRef # seen.uid
          /\ IF tenant[cur] = snap
               THEN tenant' = [tenant EXCEPT ![cur] = [snap EXCEPT !.nsRef = seen.uid]]
               ELSE UNCHANGED tenant
          /\ Requeue /\ UNCHANGED sameNs
    /\ UNCHANGED <<sameChild, cache, disruptions>>

-----------------------------------------------------------------------------
(* The manager's informers.                                                *)

\* For(Tenant): an event on a Tenant queues it.
SyncTenant(t) ==
    /\ seenTenant[t] # tenant[t]
    /\ seenTenant' = [seenTenant EXCEPT ![t] = tenant[t]]
    /\ queue' = queue \cup {t}
    /\ UNCHANGED <<api, seenNs, seenChild, wake, pc, cur, snap, disruptions>>

\* Mutant: the Namespace is not watched for its owner.
SyncNsQuietly(n) ==
    /\ seenNs[n] # ns[n] \/ wakeNs[n] # {}
    /\ seenNs' = [seenNs EXCEPT ![n] = ns[n]]
    /\ wakeNs' = [wakeNs EXCEPT ![n] = {}]
    /\ UNCHANGED <<api, seenTenant, seenChild, wakeChild, work, disruptions>>

\* Owns(Namespace): an event queues the controllers the object had before and after.
SyncNs(n) ==
    /\ seenNs[n] # ns[n] \/ wakeNs[n] # {}
    /\ seenNs' = [seenNs EXCEPT ![n] = ns[n]]
    /\ queue' = queue \cup wakeNs[n] /\ wakeNs' = [wakeNs EXCEPT ![n] = {}]
    /\ UNCHANGED <<api, seenTenant, seenChild, wakeChild, pc, cur, snap, disruptions>>

\* Mutant: the quota and the policy are not watched for their owner.
SyncChildQuietly(k, n) ==
    /\ seenChild[k][n] # child[k][n] \/ wakeChild[k][n] # {}
    /\ seenChild' = [seenChild EXCEPT ![k][n] = child[k][n]]
    /\ wakeChild' = [wakeChild EXCEPT ![k][n] = {}]
    /\ UNCHANGED <<api, seenTenant, seenNs, wakeNs, work, disruptions>>

\* Owns(ResourceQuota), Owns(NetworkPolicy).
SyncChild(k, n) ==
    /\ seenChild[k][n] # child[k][n] \/ wakeChild[k][n] # {}
    /\ seenChild' = [seenChild EXCEPT ![k][n] = child[k][n]]
    /\ queue' = queue \cup wakeChild[k][n]
    /\ wakeChild' = [wakeChild EXCEPT ![k][n] = {}]
    /\ UNCHANGED <<api, seenTenant, seenNs, wakeNs, pc, cur, snap, disruptions>>

-----------------------------------------------------------------------------
(* Kubernetes' own controllers.                                            *)

\* Some object has that UID; the garbage collector looks at nothing else.
Lives(o, u) == o # None /\ o.uid = u

\* The Tenant that object o names as its controller no longer exists.
Orphaned(o) ==
    /\ o # None /\ o.ctrl \notin {None, Foreign}
    /\ ~Lives(tenant[o.ctrl.tenant], o.ctrl.uid)

GCNamespace(n) ==
    /\ Orphaned(ns[n]) /\ ns[n].phase = "Active"
    /\ PutNs(n, [ns[n] EXCEPT !.phase = "Terminating"])
    /\ UNCHANGED <<tenant, sameChild, cache, work, disruptions>>

GCChild(k, n) ==
    /\ Orphaned(child[k][n])
    /\ PutChild(k, n, None)
    /\ UNCHANGED <<tenant, sameNs, cache, work, disruptions>>

\* A Tenant linked to a Namespace that is gone is a dependent without owner.
GCTenant(t) ==
    /\ tenant[t] # None /\ tenant[t].nsRef # None
    /\ ~Lives(ns[NsOf[t]], tenant[t].nsRef)
    /\ tenant' = [tenant EXCEPT ![t] = None]
    /\ UNCHANGED <<ns, child, wake, cache, work, disruptions>>

\* The namespace controller empties a terminating Namespace, then removes it.
EmptyNamespace(k, n) ==
    /\ ns[n] # None /\ ns[n].phase = "Terminating" /\ child[k][n] # None
    /\ PutChild(k, n, None)
    /\ UNCHANGED <<tenant, sameNs, cache, work, disruptions>>

FinalizeNamespace(n) ==
    /\ ns[n] # None /\ ns[n].phase = "Terminating"
    /\ \A k \in Kind : child[k][n] = None
    /\ PutNs(n, None)
    /\ UNCHANGED <<tenant, sameChild, cache, work, disruptions>>

-----------------------------------------------------------------------------
(* Disruptions: users, failing calls and restarts, within the budget.      *)

Disrupt == disruptions < MaxDisruptions /\ disruptions' = disruptions + 1

CreateTenant(t) ==
    /\ Disrupt /\ tenant[t] = None
    /\ \E i \in Isolation, u \in TenantUid :
         /\ Least(u, TenantUid, TenantUidsInUse)
         /\ tenant' = [tenant EXCEPT ![t] = [uid |-> u, isolation |-> i, nsRef |-> None]]
    /\ UNCHANGED <<ns, child, wake, cache, work>>

DeleteTenant(t) ==
    /\ Disrupt /\ tenant[t] # None
    /\ tenant' = [tenant EXCEPT ![t] = None]
    /\ UNCHANGED <<ns, child, wake, cache, work>>

EditTenant(t) ==
    /\ Disrupt /\ tenant[t] # None
    /\ \E i \in Isolation \ {tenant[t].isolation} :
         tenant' = [tenant EXCEPT ![t].isolation = i]
    /\ UNCHANGED <<ns, child, wake, cache, work>>

\* A Namespace of that name made by somebody else, possibly with a controller.
CreateNamespace(n) ==
    /\ Disrupt /\ ns[n] = None
    /\ \E c \in Intruders, u \in NsUid :
         /\ Least(u, NsUid, NsUidsInUse)
         /\ PutNs(n, PlainNs(u, c))
    /\ UNCHANGED <<tenant, sameChild, cache, work>>

DeleteNamespace(n) ==
    /\ Disrupt /\ ns[n] # None /\ ns[n].phase = "Active"
    /\ PutNs(n, [ns[n] EXCEPT !.phase = "Terminating"])
    /\ UNCHANGED <<tenant, sameChild, cache, work>>

StripLabel(n) ==
    /\ Disrupt /\ ns[n] # None /\ ns[n].labelled
    /\ PutNs(n, [ns[n] EXCEPT !.labelled = FALSE])
    /\ UNCHANGED <<tenant, sameChild, cache, work>>

DriftChild(k, n) ==
    /\ Disrupt /\ child[k][n] # None /\ child[k][n].spec = "desired"
    /\ PutChild(k, n, [child[k][n] EXCEPT !.spec = "drifted"])
    /\ UNCHANGED <<tenant, sameNs, cache, work>>

DeleteChild(k, n) ==
    /\ Disrupt /\ child[k][n] # None
    /\ PutChild(k, n, None)
    /\ UNCHANGED <<tenant, sameNs, cache, work>>

\* The call the worker is about to make fails.  A call that takes effect and
\* whose answer is lost is the call followed by this step.
ApiError ==
    /\ Disrupt /\ pc # "idle"
    /\ Requeue
    /\ UNCHANGED <<api, cache, wake>>

\* A crash or a change of leader: a new manager lists everything, which queues
\* every Tenant there is and every Tenant that controls something.
RestartManager ==
    /\ Disrupt
    /\ seenTenant' = tenant /\ seenNs' = ns /\ seenChild' = child
    /\ wakeNs' = [n \in Namespace |-> {}]
    /\ wakeChild' = [k \in Kind |-> [n \in Namespace |-> {}]]
    /\ queue' = {t \in Tenant : tenant[t] # None}
                  \cup (UNION {OwnersOf(ns[n]) : n \in Namespace})
                  \cup (UNION {OwnersOf(child[k][n]) : k \in Kind, n \in Namespace})
    /\ Done
    /\ UNCHANGED api

-----------------------------------------------------------------------------

Reconcile ==
    \/ \E t \in Tenant : ReconcileGet(t)
    \/ EnsureNamespace \/ EnsureResourceQuota \/ EnsureNetworkPolicy
    \/ LinkTenant

Informers ==
    \/ \E t \in Tenant : SyncTenant(t)
    \/ \E n \in Namespace : SyncNs(n) \/ \E k \in Kind : SyncChild(k, n)

Kubernetes ==
    \/ \E t \in Tenant : GCTenant(t)
    \/ \E n \in Namespace :
         \/ GCNamespace(n) \/ FinalizeNamespace(n)
         \/ \E k \in Kind : GCChild(k, n) \/ EmptyNamespace(k, n)

Disruption ==
    \/ \E t \in Tenant : CreateTenant(t) \/ DeleteTenant(t) \/ EditTenant(t)
    \/ \E n \in Namespace :
         \/ CreateNamespace(n) \/ DeleteNamespace(n) \/ StripLabel(n)
         \/ \E k \in Kind : DriftChild(k, n) \/ DeleteChild(k, n)
    \/ ApiError \/ RestartManager

Next == Reconcile \/ Informers \/ Kubernetes \/ Disruption

Spec == Init /\ [][Next]_vars

\* The worker keeps taking requests, every watch delivers, and Kubernetes'
\* controllers keep running; nobody is bound to disrupt anything.
Fairness ==
    /\ WF_vars(EnsureNamespace) /\ WF_vars(EnsureResourceQuota)
    /\ WF_vars(EnsureNetworkPolicy) /\ WF_vars(LinkTenant)
    /\ \A t \in Tenant :
         SF_vars(ReconcileGet(t)) /\ WF_vars(SyncTenant(t)) /\ WF_vars(GCTenant(t))
    /\ \A n \in Namespace :
         /\ WF_vars(SyncNs(n)) /\ WF_vars(GCNamespace(n)) /\ WF_vars(FinalizeNamespace(n))
         /\ \A k \in Kind :
              WF_vars(SyncChild(k, n)) /\ WF_vars(GCChild(k, n)) /\ WF_vars(EmptyNamespace(k, n))

FairSpec == Spec /\ Fairness

-----------------------------------------------------------------------------
(* Properties.                                                             *)

\* Everything Reconcile ensures for t is in place (the Namespace may already
\* be terminating: Reconcile does not look).
Provisioned(t) ==
    LET n == NsOf[t] own == Owner(t, tenant[t].uid) IN
    /\ ns[n] # None /\ ns[n].labelled /\ ns[n].ctrl = own
    /\ \A k \in Kind : child[k][n] = [spec |-> "desired", ctrl |-> own]
    /\ tenant[t].isolation = "namespace" => tenant[t].nsRef = ns[n].uid

\* The caches agree with the API server on everything Reconcile reads for t.
InSync(t) ==
    LET n == NsOf[t] IN
    /\ seenTenant[t] = tenant[t] /\ seenNs[n] = ns[n] /\ t \notin wakeNs[n]
    /\ \A k \in Kind : seenChild[k][n] = child[k][n] /\ t \notin wakeChild[k][n]

\* No wake-up is lost (Reconcile's results, SetupWithManager's watches): once
\* the caches have caught up, a Tenant that is neither queued nor being worked
\* on has everything Reconcile ensures.
NoLostWakeup ==
    \A t \in Tenant :
        tenant[t] # None /\ InSync(t) /\ t \notin queue /\ cur # t => Provisioned(t)

\* Whatever Reconcile, user edits and collection do to each other, an object is
\* controlled only by a Tenant that maps to the object's namespace.
OwnershipSound ==
    \A n \in Namespace :
        \A o \in {ns[n], seenNs[n]} \cup {child[k][n] : k \in Kind}
                  \cup {seenChild[k][n] : k \in Kind} :
            \A t \in OwnersOf(o) : NsOf[t] = n /\ HomeOf[t] = Cluster

\* A live Namespace that another controller holds is never taken over or
\* relabelled by ensureNamespace, however stale the cache it worked from.
ForeignUntouched ==
    [][\A n \in Namespace :
         ns[n] # None /\ ns[n].ctrl = Foreign /\ ns'[n] # None
           => ns'[n].ctrl = Foreign /\ (ns'[n].labelled => ns[n].labelled)]_vars

\* The worker's copy and the caches are up to date for its Tenant, and its
\* Namespace is neither held by another controller nor going away.
Unhindered ==
    /\ pc # "idle" /\ HomeOf[cur] = Cluster
    /\ LET n == NsOf[cur] IN
         /\ snap = tenant[cur] /\ seenNs[n] = ns[n]
         /\ \A k \in Kind : seenChild[k][n] = child[k][n]
         /\ ns[n] = None => pc = "namespace"
         /\ ns[n] # None => ns[n].phase = "Active" /\ ns[n].ctrl # Foreign

\* Then no call of Reconcile turns back, whatever it finds there: drift, objects
\* of nobody's or of a former Tenant of that name.  What fails otherwise fails for
\* a copy that is behind, and the event that brings it up to date queues the Tenant.
UnhinderedGetsThrough ==
    [][Unhindered =>
         /\ EnsureNamespace \/ EnsureResourceQuota \/ EnsureNetworkPolicy => pc' # "idle"
         /\ LinkTenant /\ snap.isolation = "namespace" => tenant'[cur].nsRef = ns[NsOf[cur]].uid]_vars

\* A Tenant is settled: everything is in place and lasts, or the Tenant is gone
\* and so is everything it controlled.
Settled(t) ==
    LET n == NsOf[t] IN
    IF tenant[t] # None
      THEN Provisioned(t) /\ ns[n].phase = "Active"
      ELSE t \notin OwnersOf(ns[n]) /\ \A k \in Kind : t \notin OwnersOf(child[k][n])

\* Somebody else's controller holds t's namespace name: Reconcile cannot win.
Blocked(t) == ns[NsOf[t]] # None /\ ns[NsOf[t]].ctrl = Foreign

\* After the last disruption the cluster converges, whatever was deleted,
\* edited or lost before: drift is repaired, deleted objects come back, a
\* deleted Tenant's objects are collected, and a Tenant whose Reconcile can
\* only fail does not keep the others from it.
Convergence == <>[](\A t \in Tenant : Blocked(t) \/ Settled(t))

\* Reconcile does not wake itself up for ever: its own writes and its
\* Requeue: true come to an end, and only a blocked Tenant is still retried.
Quiescence == <>[](\A t \in Tenant : Blocked(t) \/ (t \notin queue /\ cur # t))

\* With the CRD namespaced, as it is shipped, Reconcile never gets past
\* ensureNamespace: no object ever has a Tenant as its controller, no quota or
\* policy exists, no Tenant is linked.
Inert ==
    /\ \A n \in Namespace : OwnersOf(ns[n]) = {} /\ \A k \in Kind : child[k][n] = None
    /\ \A t \in Tenant : tenant[t] # None => tenant[t].nsRef = None
    /\ pc \in {"idle", "namespace"}

\* "Create a Tenant and its namespace appears" (README.md, acceptance): a
\* Tenant that is not deleted gets its Namespace.
NamespaceAppears ==
    \A t \in Tenant : tenant[t] # None ~> (tenant[t] = None \/ ns[NsOf[t]] # None)

\* Behaviours in which no user deletes a Tenant.
KeptSpec == Init /\ [][Next /\ \A t \in Tenant : ~DeleteTenant(t)]_vars /\ Fairness

\* "Controller will re-create namespace automatically" (README.md, a Namespace
\* deleted by hand): a Tenant's Namespace that is being deleted comes back.
HandDeletedComesBack ==
    \A t \in Tenant :
        tenant[t] # None /\ ns[NsOf[t]] # None /\ ns[NsOf[t]].phase = "Terminating"
          ~> ns[NsOf[t]] # None /\ ns[NsOf[t]].phase = "Active"
=============================================================================
