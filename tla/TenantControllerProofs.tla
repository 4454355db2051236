----------------------- MODULE TenantControllerProofs -----------------------
(***************************************************************************)
(* Proofs about TenantController, for any Tenants, Namespaces, UIDs and    *)
(* number of disruptions: type correctness, ownership, what the shipped    *)
(* (namespaced) CRD makes of the controller, that a Namespace of somebody  *)
(* else's is left alone, and that no wake-up is lost.                      *)
(***************************************************************************)
EXTENDS TenantResync, TLAPS

\* The Tenants an event wakes up are Tenants.
LEMMA OwnersType ==
    ASSUME NEW o \in NsObj \cup ChildObj \cup {None}
    PROVE  OwnersOf(o) \subseteq Tenant
BY DEF OwnersOf, NsObj, ChildObj, Ctrl

\* Writing a well-typed Namespace keeps the Namespaces and their events typed.
LEMMA PutNsType ==
    ASSUME TypeOK, NEW n \in Namespace, NEW o \in NsObj \cup {None}, PutNs(n, o)
    PROVE  ns' \in NsMap /\ wakeNs' \in [Namespace -> SUBSET Tenant]
<1>1. ns \in NsMap /\ wakeNs \in [Namespace -> SUBSET Tenant]
    BY DEF TypeOK
<1>2. ns[n] \in NsObj \cup {None}
    BY <1>1 DEF NsMap
<1>3. OwnersOf(ns[n]) \subseteq Tenant /\ OwnersOf(o) \subseteq Tenant
    BY <1>2, OwnersType
<1> QED BY <1>1, <1>3 DEF PutNs, NsMap

\* The same of a quota or a policy.
LEMMA PutChildType ==
    ASSUME TypeOK, NEW k \in Kind, NEW n \in Namespace, NEW o \in ChildObj \cup {None},
           PutChild(k, n, o)
    PROVE  child' \in ChildMap /\ wakeChild' \in [Kind -> [Namespace -> SUBSET Tenant]]
<1>1. child \in ChildMap /\ wakeChild \in [Kind -> [Namespace -> SUBSET Tenant]]
    BY DEF TypeOK
<1>2. child[k][n] \in ChildObj \cup {None}
    BY <1>1 DEF ChildMap
<1>3. OwnersOf(child[k][n]) \subseteq Tenant /\ OwnersOf(o) \subseteq Tenant
    BY <1>2, OwnersType
<1> QED BY <1>1, <1>3 DEF PutChild, ChildMap

LEMMA InitType == Init => TypeOK
<1> SUFFICES ASSUME Init PROVE TypeOK
    OBVIOUS
<1>1. ns \in NsMap
    <2>1. CASE ns = [n \in Namespace |-> None]
        BY <2>1 DEF NsMap
    <2>2. ASSUME NEW n \in Namespace, NEW c \in Intruders, NEW u \in NsUid,
                 ns = [m \in Namespace |-> IF m = n THEN PlainNs(u, c) ELSE None]
          PROVE  ns \in NsMap
        BY <2>2, Bounds DEF NsMap, NsObj, PlainNs, Ctrl
    <2> QED BY <2>1, <2>2 DEF Init
<1> QED BY <1>1, Bounds DEF Init, TypeOK, TenantMap, NsMap, ChildMap

-----------------------------------------------------------------------------
(* Type correctness, one lemma per group of actions.                       *)

LEMMA GetType == ASSUME TypeOK, NEW t \in Tenant, ReconcileGet(t) PROVE TypeOK'
BY DEF TypeOK, TenantMap, ReconcileGet, api, cache, wake

LEMMA EnsureNamespaceType == ASSUME TypeOK, EnsureNamespace PROVE TypeOK'
<1> DEFINE n == NsOf[cur]
           seen == seenNs[n]
<1>1. pc = "namespace" /\ cur \in Tenant /\ snap \in TenantObj /\ n \in Namespace
    BY TenantKeys DEF EnsureNamespace, TypeOK
<1>2. seen \in NsObj \cup {None}
    BY <1>1 DEF TypeOK, NsMap
<1>3. Owner(cur, snap.uid) \in Ctrl
    BY <1>1 DEF Owner, Ctrl, TenantObj
<1>4. ASSUME NEW o \in NsObj \cup {None}, PutNs(n, o) PROVE
        ns' \in NsMap /\ wakeNs' \in [Namespace -> SUBSET Tenant]
    BY <1>1, <1>4, PutNsType
<1>5. ns' \in NsMap /\ wakeNs' \in [Namespace -> SUBSET Tenant]
    <2>1. ASSUME NEW u \in NsUid,
                 PutNs(n, [uid |-> u, phase |-> "Active", labelled |-> TRUE,
                           ctrl |-> Owner(cur, snap.uid)])
          PROVE  ns' \in NsMap /\ wakeNs' \in [Namespace -> SUBSET Tenant]
        BY <2>1, <1>3, <1>4 DEF NsObj
    <2>2. ASSUME seen # None, PutNs(n, WantedNs(seen))
          PROVE  ns' \in NsMap /\ wakeNs' \in [Namespace -> SUBSET Tenant]
        BY <2>2, <1>2, <1>3, <1>4 DEF NsObj, WantedNs
    <2>3. CASE UNCHANGED sameNs
        BY <2>3 DEF TypeOK, sameNs
    <2> QED BY <2>1, <2>2, <2>3 DEF EnsureNamespace
<1>6. GoTo("quota") \/ Requeue
    BY DEF EnsureNamespace
<1> QED BY <1>1, <1>5, <1>6 DEF EnsureNamespace, TypeOK, GoTo, Requeue, Done, sameChild, cache

LEMMA EnsureChildType ==
    ASSUME TypeOK, NEW k \in Kind, NEW next \in {"netpol", "link"}, EnsureChild(k, next)
    PROVE  TypeOK'
<1> DEFINE n == NsOf[cur]
           want == [spec |-> "desired", ctrl |-> Owner(cur, snap.uid)]
<1>1. pc = k /\ pc # "idle" /\ cur \in Tenant /\ snap \in TenantObj /\ n \in Namespace
    BY TenantKeys DEF EnsureChild, TypeOK, Kind
<1>2. want \in ChildObj
    BY <1>1 DEF Owner, Ctrl, TenantObj, ChildObj
<1>3. child' \in ChildMap /\ wakeChild' \in [Kind -> [Namespace -> SUBSET Tenant]]
    <2>1. CASE PutChild(k, n, want)
        BY <2>1, <1>1, <1>2, PutChildType
    <2>2. CASE UNCHANGED sameChild
        BY <2>2 DEF TypeOK, sameChild
    <2> QED BY <2>1, <2>2 DEF EnsureChild
<1>4. GoTo(next) \/ Requeue
    BY DEF EnsureChild
<1> QED BY <1>1, <1>3, <1>4 DEF EnsureChild, TypeOK, GoTo, Requeue, Done, sameNs, cache

LEMMA LinkTenantType == ASSUME TypeOK, LinkTenant PROVE TypeOK'
<1> DEFINE n == NsOf[cur]
<1>1. pc = "link" /\ cur \in Tenant /\ snap \in TenantObj /\ n \in Namespace
    BY TenantKeys DEF LinkTenant, TypeOK
<1>2. seenNs[n] \in NsObj \cup {None}
    BY <1>1 DEF TypeOK, NsMap
<1>3. ns' \in NsMap /\ wakeNs' \in [Namespace -> SUBSET Tenant]
    <2>1. ASSUME NEW u \in NsUid, PutNs(n, PlainNs(u, None))
          PROVE  ns' \in NsMap /\ wakeNs' \in [Namespace -> SUBSET Tenant]
        BY <2>1, <1>1, PutNsType DEF PlainNs, NsObj, Ctrl
    <2>2. CASE UNCHANGED sameNs
        BY <2>2 DEF TypeOK, sameNs
    <2> QED BY <2>1, <2>2 DEF LinkTenant
<1>4. tenant' \in TenantMap
    <2>1. ASSUME seenNs[n] # None,
                 tenant' = [tenant EXCEPT ![cur] = [snap EXCEPT !.nsRef = seenNs[n].uid]]
          PROVE  tenant' \in TenantMap
        BY <2>1, <1>1, <1>2 DEF TypeOK, TenantMap, TenantObj, NsObj
    <2>2. CASE UNCHANGED tenant
        BY <2>2 DEF TypeOK
    <2> QED BY <2>1, <2>2 DEF LinkTenant
<1>5. Succeed \/ Requeue
    BY DEF LinkTenant
<1> QED BY <1>1, <1>3, <1>4, <1>5 DEF LinkTenant, TypeOK, Succeed, Requeue, Done, sameChild, cache

LEMMA InformersType == ASSUME TypeOK, Informers PROVE TypeOK'
<1>1. ASSUME NEW t \in Tenant, SyncTenant(t) PROVE TypeOK'
    BY <1>1 DEF SyncTenant, TypeOK, TenantMap, api, wake
<1>2. ASSUME NEW n \in Namespace, SyncNs(n) PROVE TypeOK'
    BY <1>2 DEF SyncNs, TypeOK, NsMap, api
<1>3. ASSUME NEW n \in Namespace, NEW k \in Kind, SyncChild(k, n) PROVE TypeOK'
    BY <1>3 DEF SyncChild, TypeOK, ChildMap, api
<1> QED BY <1>1, <1>2, <1>3 DEF Informers

\* What an action does that only writes Namespace n.
LEMMA NsWriteType ==
    ASSUME TypeOK, NEW n \in Namespace, NEW o \in NsObj \cup {None}, PutNs(n, o),
           UNCHANGED <<tenant, sameChild, cache, work>>, disruptions' \in 0..MaxDisruptions
    PROVE  TypeOK'
<1>1. ns' \in NsMap /\ wakeNs' \in [Namespace -> SUBSET Tenant]
    BY PutNsType
<1> QED BY <1>1 DEF TypeOK, sameChild, cache, work

\* What an action does that only writes the quota or policy of Namespace n.
LEMMA ChildWriteType ==
    ASSUME TypeOK, NEW k \in Kind, NEW n \in Namespace, NEW o \in ChildObj \cup {None},
           PutChild(k, n, o),
           UNCHANGED <<tenant, sameNs, cache, work>>, disruptions' \in 0..MaxDisruptions
    PROVE  TypeOK'
<1>1. child' \in ChildMap /\ wakeChild' \in [Kind -> [Namespace -> SUBSET Tenant]]
    BY PutChildType
<1> QED BY <1>1 DEF TypeOK, sameNs, cache, work

\* What an action does that only writes Tenant t.
LEMMA TenantWriteType ==
    ASSUME TypeOK, NEW t \in Tenant, NEW o \in TenantObj \cup {None},
           tenant' = [tenant EXCEPT ![t] = o],
           UNCHANGED <<ns, child, wake, cache, work>>, disruptions' \in 0..MaxDisruptions
    PROVE  TypeOK'
BY DEF TypeOK, TenantMap, wake, cache, work

LEMMA KubernetesType == ASSUME TypeOK, Kubernetes PROVE TypeOK'
<1>0. disruptions \in 0..MaxDisruptions
    BY DEF TypeOK
<1>1. ASSUME NEW t \in Tenant, GCTenant(t) PROVE TypeOK'
    BY <1>0, <1>1, TenantWriteType DEF GCTenant
<1>2. ASSUME NEW n \in Namespace, GCNamespace(n) PROVE TypeOK'
    <2>1. ns[n] \in NsObj
        BY <1>2 DEF GCNamespace, Orphaned, TypeOK, NsMap
    <2>2. [ns[n] EXCEPT !.phase = "Terminating"] \in NsObj
        BY <2>1 DEF NsObj
    <2> QED BY <1>0, <1>2, <2>2, NsWriteType DEF GCNamespace
<1>3. ASSUME NEW n \in Namespace, FinalizeNamespace(n) PROVE TypeOK'
    BY <1>0, <1>3, NsWriteType DEF FinalizeNamespace
<1>4. ASSUME NEW n \in Namespace, NEW k \in Kind, GCChild(k, n) \/ EmptyNamespace(k, n)
      PROVE  TypeOK'
    BY <1>0, <1>4, ChildWriteType DEF GCChild, EmptyNamespace
<1> QED BY <1>1, <1>2, <1>3, <1>4 DEF Kubernetes

LEMMA DisruptionType == ASSUME TypeOK, Disruption PROVE TypeOK'
<1>0. ASSUME Disrupt PROVE disruptions' \in 0..MaxDisruptions
    BY <1>0, Bounds DEF Disrupt, TypeOK
<1>1. ASSUME NEW t \in Tenant, CreateTenant(t) PROVE TypeOK'
    <2>1. PICK i \in Isolation, u \in TenantUid :
            tenant' = [tenant EXCEPT ![t] = [uid |-> u, isolation |-> i, nsRef |-> None]]
        BY <1>1 DEF CreateTenant
    <2>2. [uid |-> u, isolation |-> i, nsRef |-> None] \in TenantObj
        BY DEF TenantObj
    <2> QED BY <1>0, <1>1, <2>1, <2>2, TenantWriteType DEF CreateTenant
<1>2. ASSUME NEW t \in Tenant, DeleteTenant(t) PROVE TypeOK'
    BY <1>0, <1>2, TenantWriteType DEF DeleteTenant
<1>3. ASSUME NEW t \in Tenant, EditTenant(t) PROVE TypeOK'
    <2>1. tenant[t] \in TenantObj
        BY <1>3 DEF EditTenant, TypeOK, TenantMap
    <2>2. PICK i \in Isolation : tenant' = [tenant EXCEPT ![t] = [tenant[t] EXCEPT !.isolation = i]]
        BY <1>3 DEF EditTenant
    <2>3. [tenant[t] EXCEPT !.isolation = i] \in TenantObj
        BY <2>1 DEF TenantObj
    <2> QED BY <1>0, <1>3, <2>2, <2>3, TenantWriteType DEF EditTenant
<1>4. ASSUME NEW n \in Namespace, CreateNamespace(n) PROVE TypeOK'
    <2>1. PICK c \in Intruders, u \in NsUid : PutNs(n, PlainNs(u, c))
        BY <1>4 DEF CreateNamespace
    <2>2. PlainNs(u, c) \in NsObj
        BY Bounds DEF PlainNs, NsObj, Ctrl
    <2> QED BY <1>0, <1>4, <2>1, <2>2, NsWriteType DEF CreateNamespace
<1>5. ASSUME NEW n \in Namespace, DeleteNamespace(n) \/ StripLabel(n) PROVE TypeOK'
    <2>1. ns[n] \in NsObj
        BY <1>5 DEF DeleteNamespace, StripLabel, TypeOK, NsMap
    <2>2. /\ [ns[n] EXCEPT !.phase = "Terminating"] \in NsObj
          /\ [ns[n] EXCEPT !.labelled = FALSE] \in NsObj
        BY <2>1 DEF NsObj
    <2> QED BY <1>0, <1>5, <2>2, NsWriteType DEF DeleteNamespace, StripLabel
<1>6. ASSUME NEW n \in Namespace, NEW k \in Kind, DriftChild(k, n) \/ DeleteChild(k, n)
      PROVE  TypeOK'
    <2>1. child[k][n] \in ChildObj
        BY <1>6 DEF DriftChild, DeleteChild, TypeOK, ChildMap
    <2>2. [child[k][n] EXCEPT !.spec = "drifted"] \in ChildObj
        BY <2>1 DEF ChildObj
    <2> QED BY <1>0, <1>6, <2>2, ChildWriteType DEF DriftChild, DeleteChild
<1>7. ASSUME ApiError PROVE TypeOK'
    BY <1>0, <1>7 DEF ApiError, TypeOK, Requeue, Done, api, cache, wake
<1>8. ASSUME RestartManager PROVE TypeOK'
    <2>1. \A n \in Namespace : OwnersOf(ns[n]) \subseteq Tenant
        BY OwnersType DEF TypeOK, NsMap
    <2>2. \A k \in Kind, n \in Namespace : OwnersOf(child[k][n]) \subseteq Tenant
        BY OwnersType DEF TypeOK, ChildMap
    <2>3. queue' \subseteq Tenant
        BY <1>8, <2>1, <2>2 DEF RestartManager
    <2> QED BY <1>0, <1>8, <2>3 DEF RestartManager, TypeOK, Done, api
<1> QED BY <1>1, <1>2, <1>3, <1>4, <1>5, <1>6, <1>7, <1>8 DEF Disruption

LEMMA NextType == TypeOK /\ [Next]_vars => TypeOK'
<1> SUFFICES ASSUME TypeOK, [Next]_vars PROVE TypeOK'
    OBVIOUS
<1>1. CASE Reconcile
    <2>1. CASE EnsureResourceQuota \/ EnsureNetworkPolicy
        BY <2>1, EnsureChildType DEF EnsureResourceQuota, EnsureNetworkPolicy, Kind
    <2> QED BY <1>1, <2>1, GetType, EnsureNamespaceType, LinkTenantType DEF Reconcile
<1>2. CASE UNCHANGED vars
    BY <1>2 DEF TypeOK, vars, api, cache, wake, work
<1> QED BY <1>1, <1>2, InformersType, KubernetesType, DisruptionType DEF Next

\* Every state of the controller and of what it runs against is well typed.
THEOREM TypeCorrect == Spec => []TypeOK
BY InitType, NextType, PTL DEF Spec

-----------------------------------------------------------------------------
(* Ownership.  OwnershipSound is not inductive: that a quota or policy is   *)
(* only written for a cluster-scoped Tenant is known because ensureNamespace *)
(* has succeeded for it, which the invariant has to remember.               *)

Sound(n, o) == \A t \in OwnersOf(o) : NsOf[t] = n /\ HomeOf[t] = Cluster

NsSound    == \A n \in Namespace : Sound(n, ns[n]) /\ Sound(n, seenNs[n])
ChildSound == \A k \in Kind, n \in Namespace : Sound(n, child[k][n]) /\ Sound(n, seenChild[k][n])
PastNamespace == pc \in {"quota", "netpol", "link"} => HomeOf[cur] = Cluster

OwnershipInv == TypeOK /\ NsSound /\ ChildSound /\ PastNamespace

LEMMA OwnershipInvSound == OwnershipInv => OwnershipSound
BY DEF OwnershipInv, OwnershipSound, NsSound, ChildSound, Sound

\* Marking a Namespace or editing an object changes nobody's ownership.
LEMMA SameOwners ==
    ASSUME NEW o, o # None
    PROVE  /\ o \in NsObj => /\ OwnersOf([o EXCEPT !.phase = "Terminating"]) \subseteq OwnersOf(o)
                             /\ OwnersOf([o EXCEPT !.labelled = FALSE]) \subseteq OwnersOf(o)
           /\ o \in ChildObj => OwnersOf([o EXCEPT !.spec = "drifted"]) \subseteq OwnersOf(o)
BY DEF OwnersOf, NsObj, ChildObj

\* Writing a Namespace that is soundly owned keeps every one soundly owned.
LEMMA PutNsSound ==
    ASSUME TypeOK, NsSound, NEW n \in Namespace, NEW o, Sound(n, o), PutNs(n, o),
           UNCHANGED seenNs
    PROVE  NsSound'
<1>1. ns \in NsMap
    BY DEF TypeOK
<1>2. \A m \in Namespace : ns'[m] = IF m = n THEN o ELSE ns[m]
    BY <1>1 DEF PutNs, NsMap
<1>4. ASSUME NEW m \in Namespace PROVE Sound(m, ns'[m]) /\ Sound(m, seenNs'[m])
    BY <1>2 DEF NsSound
<1> QED BY <1>4 DEF NsSound, Sound, OwnersOf

LEMMA PutChildSound ==
    ASSUME TypeOK, ChildSound, NEW k \in Kind, NEW n \in Namespace, NEW o, Sound(n, o),
           PutChild(k, n, o), UNCHANGED seenChild
    PROVE  ChildSound'
<1>1. child \in ChildMap
    BY DEF TypeOK
<1>2. \A j \in Kind, m \in Namespace :
        child'[j][m] = IF j = k /\ m = n THEN o ELSE child[j][m]
    BY <1>1 DEF PutChild, ChildMap
<1>4. ASSUME NEW j \in Kind, NEW m \in Namespace
      PROVE  Sound(m, child'[j][m]) /\ Sound(m, seenChild'[j][m])
    BY <1>2 DEF ChildSound
<1> QED BY <1>4 DEF ChildSound, Sound, OwnersOf

LEMMA NothingWritten ==
    ASSUME NsSound, ChildSound, UNCHANGED <<ns, child, seenNs, seenChild>>
    PROVE  NsSound' /\ ChildSound'
BY DEF NsSound, ChildSound, Sound, OwnersOf

LEMMA InitOwnership == Init => OwnershipInv
<1> SUFFICES ASSUME Init PROVE OwnershipInv
    OBVIOUS
<1>1. \A n \in Namespace : OwnersOf(ns[n]) = {}
    <2>1. CASE ns = [n \in Namespace |-> None]
        BY <2>1 DEF OwnersOf
    <2>2. ASSUME NEW n \in Namespace, NEW c \in Intruders, NEW u \in NsUid,
                 ns = [m \in Namespace |-> IF m = n THEN PlainNs(u, c) ELSE None]
          PROVE  \A m \in Namespace : OwnersOf(ns[m]) = {}
        BY <2>2, Bounds DEF OwnersOf, PlainNs
    <2> QED BY <2>1, <2>2 DEF Init
<1>2. NsSound
    BY <1>1 DEF Init, NsSound, Sound
<1>3. ChildSound
    BY DEF Init, ChildSound, Sound, OwnersOf
<1> QED BY <1>2, <1>3, InitType DEF Init, OwnershipInv, PastNamespace

LEMMA ReconcileOwnership == ASSUME OwnershipInv, Reconcile PROVE OwnershipInv'
<1>0. TypeOK /\ NsSound /\ ChildSound /\ PastNamespace /\ TypeOK'
    BY NextType DEF OwnershipInv, Next
<1>1. ASSUME NEW t \in Tenant, ReconcileGet(t) PROVE OwnershipInv'
    <2>1. PastNamespace'
        BY <1>1 DEF ReconcileGet, PastNamespace
    <2> QED BY <1>0, <1>1, <2>1, NothingWritten DEF ReconcileGet, OwnershipInv, api, cache
<1>2. ASSUME EnsureNamespace PROVE OwnershipInv'
    <2>1. cur \in Tenant /\ NsOf[cur] \in Namespace
        BY <1>0, <1>2, TenantKeys DEF EnsureNamespace, TypeOK
    <2>2. \A c : CanControl(cur, Cluster, c) => HomeOf[cur] = Cluster
        BY DEF CanControl
    <2>3. ASSUME NEW o, OwnersOf(o) \subseteq {cur}, HomeOf[cur] = Cluster PROVE Sound(NsOf[cur], o)
        BY <2>3 DEF Sound
    <2>4. ASSUME NEW u PROVE
            OwnersOf([uid |-> u, phase |-> "Active", labelled |-> TRUE,
                      ctrl |-> Owner(cur, snap.uid)]) \subseteq {cur}
        BY DEF OwnersOf, Owner
    <2>5. ASSUME seenNs[NsOf[cur]] # None
          PROVE  OwnersOf(WantedNs(seenNs[NsOf[cur]])) \subseteq {cur}
        <3>1. seenNs[NsOf[cur]] \in NsObj
            BY <1>0, <2>1, <2>5 DEF TypeOK, NsMap
        <3> QED BY <3>1 DEF OwnersOf, Owner, WantedNs, NsObj
    <2>6. NsSound'
        <3>1. CASE UNCHANGED sameNs
            BY <1>0, <1>2, <3>1 DEF EnsureNamespace, NsSound, Sound, OwnersOf, sameNs, cache
        <3>2. ASSUME NEW o, PutNs(NsOf[cur], o), OwnersOf(o) \subseteq {cur}, HomeOf[cur] = Cluster
              PROVE  NsSound'
            BY <1>0, <1>2, <2>1, <2>3, <3>2, PutNsSound DEF EnsureNamespace, cache
        <3> QED BY <1>2, <2>2, <2>4, <2>5, <3>1, <3>2 DEF EnsureNamespace
    <2>7. ChildSound'
        BY <1>0, <1>2 DEF EnsureNamespace, ChildSound, Sound, OwnersOf, sameChild, cache
    <2>8. PastNamespace'
        BY <1>2, <2>2 DEF EnsureNamespace, PastNamespace, GoTo, Requeue, Done
    <2> QED BY <1>0, <2>6, <2>7, <2>8 DEF OwnershipInv
<1>3. ASSUME NEW k \in Kind, NEW next \in {"netpol", "link"}, EnsureChild(k, next)
      PROVE  OwnershipInv'
    <2>1. cur \in Tenant /\ NsOf[cur] \in Namespace /\ HomeOf[cur] = Cluster
        BY <1>0, <1>3, TenantKeys DEF EnsureChild, TypeOK, PastNamespace, Kind
    <2>2. Sound(NsOf[cur], [spec |-> "desired", ctrl |-> Owner(cur, snap.uid)])
        BY <2>1 DEF Sound, OwnersOf, Owner
    <2>6. UNCHANGED <<ns, seenNs, seenChild>>
        BY <1>3 DEF EnsureChild, sameNs, cache
    <2>3. ChildSound'
        <3>1. CASE UNCHANGED sameChild
            BY <1>0, <2>6, <3>1 DEF ChildSound, Sound, OwnersOf, sameChild
        <3>2. CASE PutChild(k, NsOf[cur], [spec |-> "desired", ctrl |-> Owner(cur, snap.uid)])
            BY <1>0, <2>6, <2>1, <2>2, <3>2, PutChildSound
        <3> QED BY <1>3, <3>1, <3>2 DEF EnsureChild
    <2>4. NsSound'
        BY <1>0, <2>6 DEF NsSound, Sound, OwnersOf
    <2>5. PastNamespace'
        BY <1>3, <2>1 DEF EnsureChild, PastNamespace, GoTo, Requeue, Done
    <2> QED BY <1>0, <2>3, <2>4, <2>5 DEF OwnershipInv
<1>4. ASSUME LinkTenant PROVE OwnershipInv'
    <2>1. NsOf[cur] \in Namespace
        BY <1>0, <1>4, TenantKeys DEF LinkTenant, TypeOK
    <2>2. \A u : Sound(NsOf[cur], PlainNs(u, None))
        BY DEF Sound, OwnersOf, PlainNs
    <2>3. NsSound'
        <3>1. CASE UNCHANGED sameNs
            BY <1>0, <1>4, <3>1 DEF LinkTenant, NsSound, Sound, OwnersOf, sameNs, cache
        <3>2. ASSUME NEW u \in NsUid, PutNs(NsOf[cur], PlainNs(u, None)) PROVE NsSound'
            BY <1>0, <1>4, <2>1, <2>2, <3>2, PutNsSound DEF LinkTenant, cache
        <3> QED BY <1>4, <3>1, <3>2 DEF LinkTenant
    <2>4. ChildSound'
        BY <1>0, <1>4 DEF LinkTenant, ChildSound, Sound, OwnersOf, sameChild, cache
    <2>5. PastNamespace'
        BY <1>4 DEF LinkTenant, PastNamespace, Succeed, Requeue, Done
    <2> QED BY <1>0, <2>3, <2>4, <2>5 DEF OwnershipInv
<1> QED BY <1>1, <1>2, <1>3, <1>4
        DEF Reconcile, EnsureResourceQuota, EnsureNetworkPolicy, Kind

LEMMA InformersOwnership == ASSUME OwnershipInv, Informers PROVE OwnershipInv'
<1>0. TypeOK /\ NsSound /\ ChildSound /\ PastNamespace /\ TypeOK'
    BY NextType DEF OwnershipInv, Next
<1>1. PastNamespace'
    BY <1>0 DEF Informers, SyncTenant, SyncNs, SyncChild, PastNamespace
<1>2. ASSUME NEW t \in Tenant, SyncTenant(t) PROVE NsSound' /\ ChildSound'
    BY <1>0, <1>2, NothingWritten DEF SyncTenant, api
<1>3. ASSUME NEW n \in Namespace, SyncNs(n) PROVE NsSound' /\ ChildSound'
    <2>1. \A m \in Namespace : seenNs'[m] = IF m = n THEN ns[m] ELSE seenNs[m]
        BY <1>0, <1>3 DEF SyncNs, TypeOK, NsMap
    <2>2. UNCHANGED <<ns, child, seenChild>>
        BY <1>3 DEF SyncNs, api
    <2> QED BY <1>0, <2>1, <2>2 DEF NsSound, ChildSound, Sound, OwnersOf
<1>4. ASSUME NEW n \in Namespace, NEW k \in Kind, SyncChild(k, n) PROVE NsSound' /\ ChildSound'
    <2>1. \A j \in Kind, m \in Namespace :
            seenChild'[j][m] = IF j = k /\ m = n THEN child[j][m] ELSE seenChild[j][m]
        BY <1>0, <1>4 DEF SyncChild, TypeOK, ChildMap
    <2>2. UNCHANGED <<ns, child, seenNs>>
        BY <1>4 DEF SyncChild, api
    <2> QED BY <1>0, <2>1, <2>2 DEF NsSound, ChildSound, Sound, OwnersOf
<1> QED BY <1>0, <1>1, <1>2, <1>3, <1>4 DEF Informers, OwnershipInv

\* The rest of the system writes Tenants, one Namespace or one child, never for
\* another owner, or loses the manager's state.
LEMMA OthersOwnership == ASSUME OwnershipInv, Kubernetes \/ Disruption PROVE OwnershipInv'
<1>0. TypeOK /\ NsSound /\ ChildSound /\ PastNamespace /\ TypeOK'
    BY NextType DEF OwnershipInv, Next
<1>1. ASSUME NEW n \in Namespace, NEW o, PutNs(n, o),
             UNCHANGED <<tenant, sameChild, cache, work>>,
             OwnersOf(o) = {} \/ (ns[n] # None /\ OwnersOf(o) \subseteq OwnersOf(ns[n]))
      PROVE  OwnershipInv'
    <2>1. Sound(n, o)
        BY <1>0, <1>1 DEF NsSound, Sound
    <2>2. NsSound'
        BY <1>0, <1>1, <2>1, PutNsSound DEF cache
    <2>3. ChildSound' /\ PastNamespace'
        BY <1>0, <1>1 DEF ChildSound, Sound, OwnersOf, PastNamespace, sameChild, cache, work
    <2> QED BY <1>0, <2>2, <2>3 DEF OwnershipInv
<1>2. ASSUME NEW k \in Kind, NEW n \in Namespace, NEW o, PutChild(k, n, o),
             UNCHANGED <<tenant, sameNs, cache, work>>,
             OwnersOf(o) = {} \/ OwnersOf(o) \subseteq OwnersOf(child[k][n])
      PROVE  OwnershipInv'
    <2>1. Sound(n, o)
        BY <1>0, <1>2 DEF ChildSound, Sound
    <2>2. ChildSound'
        BY <1>0, <1>2, <2>1, PutChildSound DEF cache
    <2>3. NsSound' /\ PastNamespace'
        BY <1>0, <1>2 DEF NsSound, Sound, OwnersOf, PastNamespace, sameNs, cache, work
    <2> QED BY <1>0, <2>2, <2>3 DEF OwnershipInv
<1>3. ASSUME UNCHANGED <<ns, child, wake, cache, work>> PROVE OwnershipInv'
    <2>1. PastNamespace'
        BY <1>0, <1>3 DEF PastNamespace, work
    <2> QED BY <1>0, <1>3, <2>1, NothingWritten DEF OwnershipInv, cache
<1>4. OwnersOf(None) = {}
    BY DEF OwnersOf
<1>5. CASE Kubernetes
    <2>1. ASSUME NEW n \in Namespace, GCNamespace(n) PROVE OwnershipInv'
        <3>1. ns[n] # None /\ ns[n] \in NsObj
            BY <1>0, <2>1 DEF GCNamespace, Orphaned, TypeOK, NsMap
        <3> QED BY <1>1, <2>1, <3>1, SameOwners DEF GCNamespace
    <2>2. ASSUME NEW n \in Namespace, FinalizeNamespace(n) PROVE OwnershipInv'
        BY <1>1, <1>4, <2>2 DEF FinalizeNamespace
    <2>3. ASSUME NEW n \in Namespace, NEW k \in Kind, GCChild(k, n) \/ EmptyNamespace(k, n)
          PROVE  OwnershipInv'
        BY <1>2, <1>4, <2>3 DEF GCChild, EmptyNamespace
    <2>4. ASSUME NEW t \in Tenant, GCTenant(t) PROVE OwnershipInv'
        BY <1>3, <2>4 DEF GCTenant
    <2> QED BY <1>5, <2>1, <2>2, <2>3, <2>4 DEF Kubernetes
<1>6. CASE Disruption
    <2>1. ASSUME NEW t \in Tenant, CreateTenant(t) \/ DeleteTenant(t) \/ EditTenant(t)
          PROVE  OwnershipInv'
        BY <1>3, <2>1 DEF CreateTenant, DeleteTenant, EditTenant
    <2>2. ASSUME NEW n \in Namespace, CreateNamespace(n) PROVE OwnershipInv'
        <3>1. \A c \in Intruders : \A u : OwnersOf(PlainNs(u, c)) = {}
            BY Bounds DEF OwnersOf, PlainNs
        <3> QED BY <1>1, <2>2, <3>1 DEF CreateNamespace
    <2>3. ASSUME NEW n \in Namespace, DeleteNamespace(n) \/ StripLabel(n) PROVE OwnershipInv'
        <3>1. ns[n] # None /\ ns[n] \in NsObj
            BY <1>0, <2>3 DEF DeleteNamespace, StripLabel, TypeOK, NsMap
        <3> QED BY <1>1, <2>3, <3>1, SameOwners DEF DeleteNamespace, StripLabel
    <2>4. ASSUME NEW n \in Namespace, NEW k \in Kind, DriftChild(k, n) \/ DeleteChild(k, n)
          PROVE  OwnershipInv'
        <3>1. child[k][n] # None /\ child[k][n] \in ChildObj
            BY <1>0, <2>4 DEF DriftChild, DeleteChild, TypeOK, ChildMap
        <3> QED BY <1>2, <1>4, <2>4, <3>1, SameOwners DEF DriftChild, DeleteChild
    <2>5. ASSUME ApiError PROVE OwnershipInv'
        <3>1. PastNamespace'
            BY <2>5 DEF ApiError, Requeue, Done, PastNamespace
        <3> QED BY <1>0, <2>5, <3>1, NothingWritten DEF ApiError, OwnershipInv, api, cache
    <2>6. ASSUME RestartManager PROVE OwnershipInv'
        <3>1. PastNamespace'
            BY <2>6 DEF RestartManager, Done, PastNamespace
        <3>2. NsSound' /\ ChildSound'
            BY <1>0, <2>6 DEF RestartManager, NsSound, ChildSound, Sound, OwnersOf, api
        <3> QED BY <1>0, <3>1, <3>2 DEF OwnershipInv
    <2> QED BY <1>6, <2>1, <2>2, <2>3, <2>4, <2>5, <2>6 DEF Disruption
<1> QED BY <1>5, <1>6

LEMMA NextOwnership == OwnershipInv /\ [Next]_vars => OwnershipInv'
<1> SUFFICES ASSUME OwnershipInv, [Next]_vars PROVE OwnershipInv'
    OBVIOUS
<1>1. CASE UNCHANGED vars
    <2>1. TypeOK' /\ PastNamespace'
        BY <1>1, NextType DEF OwnershipInv, PastNamespace, vars, work
    <2> QED BY <1>1, <2>1, NothingWritten DEF OwnershipInv, vars, api, cache
<1> QED BY <1>1, ReconcileOwnership, InformersOwnership, OthersOwnership DEF Next

\* An object is only ever controlled by the cluster-scoped Tenant whose
\* namespace it belongs to, in the API server and in the caches.
THEOREM OwnershipHolds == Spec => []OwnershipSound
BY NextOwnership, InitOwnership, OwnershipInvSound, PTL DEF Spec

-----------------------------------------------------------------------------
(* The shipped CRD: no Tenant is cluster-scoped.                           *)

LEMMA InitInert == Init => Inert
<1> SUFFICES ASSUME Init PROVE Inert
    OBVIOUS
<1>1. \A n \in Namespace : OwnersOf(ns[n]) = {}
    <2>1. CASE ns = [n \in Namespace |-> None]
        BY <2>1 DEF OwnersOf
    <2>2. ASSUME NEW n \in Namespace, NEW c \in Intruders, NEW u \in NsUid,
                 ns = [m \in Namespace |-> IF m = n THEN PlainNs(u, c) ELSE None]
          PROVE  \A m \in Namespace : OwnersOf(ns[m]) = {}
        BY <2>2, Bounds DEF OwnersOf, PlainNs
    <2> QED BY <2>1, <2>2 DEF Init
<1> QED BY <1>1 DEF Init, Inert

\* Inert is inductive (with the types): ensureNamespace can only fail, so the
\* calls after it are never made.
LEMMA NextInert ==
    ASSUME \A t \in Tenant : HomeOf[t] # Cluster, TypeOK, Inert, [Next]_vars
    PROVE  Inert'
<1>1. ASSUME UNCHANGED <<tenant, ns, child>>, pc' \in {pc, "idle"} PROVE Inert'
    BY <1>1 DEF Inert, OwnersOf
<1>2. ASSUME NEW n \in Namespace, NEW o, PutNs(n, o), UNCHANGED <<tenant, child, pc>>,
             OwnersOf(o) \subseteq OwnersOf(ns[n])
      PROVE  Inert'
    <2>1. \A m \in Namespace : ns'[m] = IF m = n THEN o ELSE ns[m]
        BY <1>2 DEF PutNs, TypeOK, NsMap
    <2> QED BY <1>2, <2>1 DEF Inert, OwnersOf
<1>3. ASSUME NEW k \in Kind, NEW n \in Namespace, PutChild(k, n, None), UNCHANGED <<tenant, ns, pc>>
      PROVE  Inert'
    <2>1. \A j \in Kind, m \in Namespace :
            child'[j][m] = IF j = k /\ m = n THEN None ELSE child[j][m]
        BY <1>3 DEF PutChild, TypeOK, ChildMap
    <2> QED BY <1>3, <2>1 DEF Inert, OwnersOf
<1>4. ASSUME NEW t \in Tenant, NEW o, tenant' = [tenant EXCEPT ![t] = o],
             o = None \/ o.nsRef = None, UNCHANGED <<ns, child, pc>>
      PROVE  Inert'
    <2>1. \A s \in Tenant : tenant'[s] = IF s = t THEN o ELSE tenant[s]
        BY <1>4 DEF TypeOK, TenantMap
    <2> QED BY <1>4, <2>1 DEF Inert, OwnersOf
<1>5. OwnersOf(None) = {}
    BY DEF OwnersOf
<1>6. CASE Reconcile
    <2>1. ASSUME NEW t \in Tenant, ReconcileGet(t) PROVE Inert'
        <3>1. pc' \in {pc, "namespace"}
            BY <2>1 DEF ReconcileGet
        <3> QED BY <2>1, <3>1 DEF ReconcileGet, Inert, OwnersOf, api
    <2>2. ASSUME EnsureNamespace PROVE Inert'
        <3>1. \A c : ~CanControl(cur, Cluster, c)
            BY <2>2 DEF EnsureNamespace, TypeOK, CanControl
        <3> QED BY <1>1, <2>2, <3>1 DEF EnsureNamespace, Requeue, Done, sameNs, sameChild
    <2>3. ~EnsureResourceQuota /\ ~EnsureNetworkPolicy /\ ~LinkTenant
        BY DEF EnsureResourceQuota, EnsureNetworkPolicy, EnsureChild, LinkTenant, Inert
    <2> QED BY <1>6, <2>1, <2>2, <2>3 DEF Reconcile
<1>7. CASE Informers
    BY <1>1, <1>7 DEF Informers, SyncTenant, SyncNs, SyncChild, api
<1>8. CASE Kubernetes
    <2>1. \A n \in Namespace : ~GCNamespace(n)
        BY DEF GCNamespace, Orphaned, Inert, OwnersOf
    <2>2. ASSUME NEW n \in Namespace, FinalizeNamespace(n) PROVE Inert'
        BY <1>2, <1>5, <2>2 DEF FinalizeNamespace, sameChild, work
    <2>3. ASSUME NEW n \in Namespace, NEW k \in Kind, GCChild(k, n) \/ EmptyNamespace(k, n)
          PROVE  Inert'
        BY <1>3, <2>3 DEF GCChild, EmptyNamespace, sameNs, work
    <2>4. ASSUME NEW t \in Tenant, GCTenant(t) PROVE Inert'
        BY <1>4, <2>4 DEF GCTenant, work
    <2> QED BY <1>8, <2>1, <2>2, <2>3, <2>4 DEF Kubernetes
<1>9. CASE Disruption
    <2>1. ASSUME NEW t \in Tenant, CreateTenant(t) \/ DeleteTenant(t) PROVE Inert'
        BY <1>4, <2>1 DEF CreateTenant, DeleteTenant, work
    <2>2. ASSUME NEW t \in Tenant, EditTenant(t) PROVE Inert'
        <3>1. tenant[t] \in TenantObj /\ tenant[t].nsRef = None
            BY <2>2 DEF EditTenant, TypeOK, TenantMap, Inert
        <3>2. PICK i \in Isolation : tenant' = [tenant EXCEPT ![t] = [tenant[t] EXCEPT !.isolation = i]]
            BY <2>2 DEF EditTenant
        <3>3. [tenant[t] EXCEPT !.isolation = i].nsRef = None
            BY <3>1 DEF TenantObj
        <3> QED BY <1>4, <2>2, <3>2, <3>3 DEF EditTenant, work
    <2>3. ASSUME NEW n \in Namespace, CreateNamespace(n) PROVE Inert'
        <3>1. \A c \in Intruders : \A u : OwnersOf(PlainNs(u, c)) = {}
            BY Bounds DEF OwnersOf, PlainNs
        <3> QED BY <1>2, <2>3, <3>1 DEF CreateNamespace, sameChild, work
    <2>4. ASSUME NEW n \in Namespace, DeleteNamespace(n) \/ StripLabel(n) PROVE Inert'
        <3>1. ns[n] # None /\ ns[n] \in NsObj
            BY <2>4 DEF DeleteNamespace, StripLabel, TypeOK, NsMap
        <3> QED BY <1>2, <2>4, <3>1, SameOwners DEF DeleteNamespace, StripLabel, sameChild, work
    <2>5. \A n \in Namespace, k \in Kind : ~DriftChild(k, n) /\ ~DeleteChild(k, n)
        BY DEF DriftChild, DeleteChild, Inert
    <2>6. ASSUME ApiError PROVE Inert'
        BY <1>1, <2>6 DEF ApiError, Requeue, Done, api
    <2>7. ASSUME RestartManager PROVE Inert'
        BY <1>1, <2>7 DEF RestartManager, Done, api
    <2> QED BY <1>9, <2>1, <2>2, <2>3, <2>4, <2>5, <2>6, <2>7 DEF Disruption
<1>10. CASE UNCHANGED vars
    BY <1>1, <1>10 DEF vars, api, work
<1> QED BY <1>6, <1>7, <1>8, <1>9, <1>10 DEF Next

\* With the CRD as shipped the controller provisions nothing, for any number of
\* Tenants and whatever happens around it.
THEOREM ShippedInert ==
    ASSUME \A t \in Tenant : HomeOf[t] # Cluster
    PROVE  Spec => []Inert
<1>1. TypeOK /\ Inert /\ [Next]_vars => Inert'
    BY NextInert
<1> QED BY <1>1, InitInert, TypeCorrect, PTL DEF Spec

-----------------------------------------------------------------------------
(* A Namespace another controller holds.                                   *)

LEMMA ForeignStep ==
    ASSUME TypeOK, [Next]_vars, NEW n \in Namespace,
           ns[n] # None, ns[n].ctrl = Foreign, ns'[n] # None
    PROVE  ns'[n].ctrl = Foreign /\ (ns'[n].labelled => ns[n].labelled)
<1>0. ns \in NsMap /\ ns[n] \in NsObj
    BY DEF TypeOK, NsMap
<1>1. ASSUME NEW m \in Namespace, NEW o, PutNs(m, o),
             m = n => o = None \/ (o.ctrl = Foreign /\ (o.labelled => ns[n].labelled))
      PROVE  ns'[n].ctrl = Foreign /\ (ns'[n].labelled => ns[n].labelled)
    BY <1>0, <1>1 DEF PutNs, NsMap
<1>2. CASE UNCHANGED ns
    BY <1>2
<1>3. CASE EnsureNamespace
    <2>1. cur \in Tenant /\ NsOf[cur] \in Namespace
        BY <1>3, TenantKeys DEF EnsureNamespace, TypeOK
    <2>2. ~CanControl(cur, Cluster, Foreign)
        BY <2>1, Sentinels DEF CanControl
    <2>3. ASSUME NEW o, PutNs(NsOf[cur], o) PROVE NsOf[cur] # n \/ UNCHANGED ns
        BY <1>3, <2>2 DEF EnsureNamespace, sameNs
    <2> QED BY <1>1, <1>2, <1>3, <2>1, <2>3 DEF EnsureNamespace, sameNs
<1>4. CASE LinkTenant
    <2>1. cur \in Tenant /\ NsOf[cur] \in Namespace
        BY <1>4, TenantKeys DEF LinkTenant, TypeOK
    <2>2. CASE NsOf[cur] = n
        BY <1>2, <1>4, <2>2 DEF LinkTenant, sameNs
    <2> QED BY <1>1, <1>2, <1>4, <2>1, <2>2 DEF LinkTenant, sameNs
<1>5. CASE Kubernetes
    BY <1>0, <1>1, <1>2, <1>5
       DEF Kubernetes, GCTenant, GCNamespace, FinalizeNamespace, GCChild, EmptyNamespace, sameNs,
           Orphaned, NsObj
<1>6. CASE Disruption
    <2>1. ASSUME NEW m \in Namespace, CreateNamespace(m)
          PROVE  ns'[n].ctrl = Foreign /\ (ns'[n].labelled => ns[n].labelled)
        BY <1>0, <2>1 DEF CreateNamespace, PutNs, NsMap
    <2>2. ASSUME NEW m \in Namespace, DeleteNamespace(m) \/ StripLabel(m)
          PROVE  ns'[n].ctrl = Foreign /\ (ns'[n].labelled => ns[n].labelled)
        <3>1. m = n => /\ [ns[m] EXCEPT !.phase = "Terminating"].ctrl = Foreign
                       /\ [ns[m] EXCEPT !.phase = "Terminating"].labelled => ns[n].labelled
                       /\ [ns[m] EXCEPT !.labelled = FALSE].ctrl = Foreign
                       /\ [ns[m] EXCEPT !.labelled = FALSE].labelled => ns[n].labelled
            BY <1>0 DEF NsObj
        <3>2. CASE DeleteNamespace(m)
            BY <1>1, <3>1, <3>2 DEF DeleteNamespace
        <3>3. CASE StripLabel(m)
            <4> DEFINE o == [ns[m] EXCEPT !.labelled = FALSE]
            <4>1. PutNs(m, o)
                BY <3>3 DEF StripLabel
            <4>2. m = n => o.ctrl = Foreign /\ (o.labelled => ns[n].labelled)
                BY <3>1
            <4> HIDE DEF o
            <4> QED BY <1>1, <4>1, <4>2
        <3> QED BY <2>2, <3>2, <3>3
    <2>3. ASSUME NEW t \in Tenant, CreateTenant(t) \/ DeleteTenant(t) \/ EditTenant(t)
          PROVE  UNCHANGED ns
        BY <2>3 DEF CreateTenant, DeleteTenant, EditTenant
    <2>4. ASSUME NEW m \in Namespace, NEW k \in Kind, DriftChild(k, m) \/ DeleteChild(k, m)
          PROVE  UNCHANGED ns
        BY <2>4 DEF DriftChild, DeleteChild, sameNs
    <2>5. ApiError \/ RestartManager => UNCHANGED ns
        BY DEF ApiError, RestartManager, api
    <2> QED BY <1>2, <1>6, <2>1, <2>2, <2>3, <2>4, <2>5 DEF Disruption
<1> QED BY <1>2, <1>3, <1>4, <1>5, <1>6
        DEF Next, Reconcile, ReconcileGet, EnsureResourceQuota, EnsureNetworkPolicy, EnsureChild,
            Informers, SyncTenant, SyncNs, SyncChild, vars, api, sameNs

\* However stale its caches, the controller never takes over or relabels a
\* Namespace that another controller holds.
THEOREM ForeignLeftAlone == Spec => ForeignUntouched
<1>1. TypeOK /\ [Next]_vars =>
        [\A n \in Namespace :
           ns[n] # None /\ ns[n].ctrl = Foreign /\ ns'[n] # None
             => ns'[n].ctrl = Foreign /\ (ns'[n].labelled => ns[n].labelled)]_vars
    BY ForeignStep
<1> QED BY <1>1, TypeCorrect, PTL DEF Spec, ForeignUntouched

-----------------------------------------------------------------------------
(* No wake-up is lost.  What a Reconcile has ensured stays so or has left an *)
(* event for its Tenant: every object it ensures is controlled by that       *)
(* Tenant, and a write wakes the controllers before and after.               *)

\* A cache that is behind has an event coming for the controllers of both versions.
NsLag(n)       == seenNs[n] # ns[n] => OwnersOf(seenNs[n]) \cup OwnersOf(ns[n]) \subseteq wakeNs[n]
ChildLag(k, n) == seenChild[k][n] # child[k][n] =>
                    OwnersOf(seenChild[k][n]) \cup OwnersOf(child[k][n]) \subseteq wakeChild[k][n]

Lag == \A n \in Namespace : NsLag(n) /\ \A k \in Kind : ChildLag(k, n)

\* The Namespace, the link to it, a quota or policy: as Reconcile wants them for
\* copy s of Tenant t, or an event is coming for t.
Placed(t, s) ==
    LET o == ns[NsOf[t]] IN
    t \in wakeNs[NsOf[t]] \/ (o # None /\ o.labelled /\ o.ctrl = Owner(t, s.uid))
Linked(t, s) ==
    s.isolation = "namespace" => t \in wakeNs[NsOf[t]] \/ s.nsRef = ns[NsOf[t]].uid
Filled(k, t, s) ==
    \/ t \in wakeChild[k][NsOf[t]]
    \/ child[k][NsOf[t]] = [spec |-> "desired", ctrl |-> Owner(t, s.uid)]

\* The worker has the cached copy of its Tenant, and has ensured what lies behind
\* its pc, or its Tenant is queued again.
Progress ==
    pc # "idle" /\ cur \notin queue =>
        /\ snap = seenTenant[cur]
        /\ pc # "namespace" => Placed(cur, snap)
        /\ pc \in {"netpol", "link"} => Filled("quota", cur, snap)
        /\ pc = "link" => Filled("netpol", cur, snap)

\* A Tenant the manager knows and does not work on has everything.
Rest ==
    \A t \in Tenant : t \notin queue /\ cur # t /\ seenTenant[t] # None =>
        /\ Placed(t, seenTenant[t]) /\ Linked(t, seenTenant[t])
        /\ \A k \in Kind : Filled(k, t, seenTenant[t])

WakeupInv == TypeOK /\ Lag /\ Progress /\ Rest

LEMMA WakeupEnough == WakeupInv => NoLostWakeup
<1> SUFFICES ASSUME WakeupInv, NEW t \in Tenant, tenant[t] # None, InSync(t),
                    t \notin queue, cur # t
             PROVE  Provisioned(t)
    BY DEF NoLostWakeup
<1>1. /\ Placed(t, tenant[t]) /\ Linked(t, tenant[t])
      /\ \A k \in Kind : Filled(k, t, tenant[t])
    BY DEF WakeupInv, Rest, InSync
<1> QED BY <1>1 DEF InSync, Provisioned, Placed, Linked, Filled

-----------------------------------------------------------------------------
(* What the steps that write do to the events.                             *)

\* A Namespace, a quota or a policy that changes wakes its controllers.
NsStep ==
    \A n \in Namespace :
        /\ wakeNs[n] \subseteq wakeNs'[n]
        /\ ns'[n] = ns[n] \/ OwnersOf(ns[n]) \cup OwnersOf(ns'[n]) \subseteq wakeNs'[n]
ChildStep ==
    \A n \in Namespace, k \in Kind :
        /\ wakeChild[k][n] \subseteq wakeChild'[k][n]
        /\ \/ child'[k][n] = child[k][n]
           \/ OwnersOf(child[k][n]) \cup OwnersOf(child'[k][n]) \subseteq wakeChild'[k][n]

LEMMA PutNsStep ==
    ASSUME TypeOK, (\E n \in Namespace : \E o : PutNs(n, o)) \/ UNCHANGED sameNs
    PROVE  NsStep
<1>1. ASSUME NEW n \in Namespace, NEW o, PutNs(n, o) PROVE NsStep
    <2>1. \A m \in Namespace :
            /\ ns'[m] = IF m = n THEN o ELSE ns[m]
            /\ wakeNs'[m] = IF m = n THEN wakeNs[n] \cup OwnersOf(ns[n]) \cup OwnersOf(o)
                                     ELSE wakeNs[m]
        BY <1>1 DEF PutNs, TypeOK, NsMap
    <2> QED BY <2>1 DEF NsStep
<1>2. CASE UNCHANGED sameNs
    BY <1>2 DEF NsStep, sameNs
<1> QED BY <1>1, <1>2

LEMMA PutChildStep ==
    ASSUME TypeOK, (\E k \in Kind, n \in Namespace : \E o : PutChild(k, n, o)) \/ UNCHANGED sameChild
    PROVE  ChildStep
<1>1. ASSUME NEW k \in Kind, NEW n \in Namespace, NEW o, PutChild(k, n, o) PROVE ChildStep
    <2>1. \A j \in Kind, m \in Namespace :
            /\ child'[j][m] = IF j = k /\ m = n THEN o ELSE child[j][m]
            /\ wakeChild'[j][m] =
                 IF j = k /\ m = n
                   THEN wakeChild[k][n] \cup OwnersOf(child[k][n]) \cup OwnersOf(o)
                   ELSE wakeChild[j][m]
        BY <1>1 DEF PutChild, TypeOK, ChildMap
    <2> QED BY <2>1 DEF ChildStep
<1>2. CASE UNCHANGED sameChild
    BY <1>2 DEF ChildStep, sameChild
<1> QED BY <1>1, <1>2

\* Such a step keeps what is in place, but for an event.
LEMMA KeepsPlaced ==
    ASSUME NsStep, NEW t \in Tenant, NEW s \in TenantObj, Placed(t, s)
    PROVE  Placed(t, s)' /\ (Linked(t, s) => Linked(t, s)')
<1>1. NsOf[t] \in Namespace
    BY TenantKeys
<1>2. Owner(t, s.uid) \notin {None, Foreign} /\ Owner(t, s.uid).tenant = t
    BY Sentinels DEF Owner, TenantObj
<1>3. t \in OwnersOf(ns[NsOf[t]]) \/ t \in wakeNs[NsOf[t]]
    BY <1>2 DEF Placed, OwnersOf
<1> QED BY <1>1, <1>3 DEF NsStep, Placed, Linked

LEMMA KeepsFilled ==
    ASSUME ChildStep, NEW t \in Tenant, NEW k \in Kind, NEW s \in TenantObj, Filled(k, t, s)
    PROVE  Filled(k, t, s)'
<1>1. NsOf[t] \in Namespace
    BY TenantKeys
<1>2. /\ Owner(t, s.uid) \notin {None, Foreign} /\ Owner(t, s.uid).tenant = t
      /\ [spec |-> "desired", ctrl |-> Owner(t, s.uid)] # None
    <2>1. Owner(t, s.uid) \in [tenant : Tenant, uid : TenantUid]
        BY DEF Owner, TenantObj
    <2>2. [spec |-> "desired", ctrl |-> Owner(t, s.uid)] \in ChildObj
        BY <2>1 DEF ChildObj, Ctrl
    <2> QED BY <2>1, <2>2, Sentinels, NoneIsNoObject DEF Owner
<1>3. t \in OwnersOf(child[k][NsOf[t]]) \/ t \in wakeChild[k][NsOf[t]]
    BY <1>2 DEF Filled, OwnersOf
<1> QED BY <1>1, <1>3 DEF ChildStep, Filled

\* A step that only writes, and leaves an event for each write.
LEMMA KeepsLag == ASSUME Lag, NsStep, ChildStep, UNCHANGED cache PROVE Lag'
<1>1. ASSUME NEW n \in Namespace PROVE NsLag(n)'
    BY <1>1 DEF Lag, NsLag, NsStep, cache
<1>2. ASSUME NEW n \in Namespace, NEW k \in Kind PROVE ChildLag(k, n)'
    BY <1>2 DEF Lag, ChildLag, ChildStep, cache
<1> QED BY <1>1, <1>2 DEF Lag

LEMMA KeepsRest ==
    ASSUME TypeOK, NsStep, ChildStep, UNCHANGED cache, NEW t \in Tenant, seenTenant[t] # None,
           Placed(t, seenTenant[t]), Linked(t, seenTenant[t]),
           \A k \in Kind : Filled(k, t, seenTenant[t])
    PROVE  /\ Placed(t, seenTenant[t])' /\ Linked(t, seenTenant[t])'
           /\ \A k \in Kind : Filled(k, t, seenTenant[t])'
<1>1. seenTenant[t] \in TenantObj /\ seenTenant' = seenTenant
    BY DEF TypeOK, TenantMap, cache
<1>2. \A k \in Kind : Filled(k, t, seenTenant[t])'
    BY <1>1, KeepsFilled DEF Filled
<1>3. Placed(t, seenTenant[t])' /\ Linked(t, seenTenant[t])'
    BY <1>1, KeepsPlaced DEF Placed, Linked
<1> QED BY <1>2, <1>3

\* Steps of anybody but the manager: they write and leave the worker alone.
LEMMA OutsideWakeup ==
    ASSUME WakeupInv, TypeOK', NsStep, ChildStep, UNCHANGED <<cache, work>>
    PROVE  WakeupInv'
<1>1. TypeOK /\ Lag /\ Progress /\ Rest
    BY DEF WakeupInv
<1>2. Lag'
    BY <1>1, KeepsLag DEF cache
<1>3. Progress'
    <2>1. CASE pc = "idle" \/ cur \in queue
        BY <2>1 DEF Progress, work
    <2>2. CASE pc # "idle" /\ cur \notin queue
        <3>1. cur \in Tenant /\ snap \in TenantObj /\ UNCHANGED <<snap, cur, pc, queue, seenTenant>>
            BY <1>1, <2>2 DEF TypeOK, work, cache
        <3>2. Placed(cur, snap) => Placed(cur, snap)'
            BY <3>1, KeepsPlaced DEF Placed
        <3>3. \A k \in Kind : Filled(k, cur, snap) => Filled(k, cur, snap)'
            BY <3>1, KeepsFilled DEF Filled
        <3> QED BY <1>1, <2>2, <3>1, <3>2, <3>3 DEF Progress, Kind
    <2> QED BY <2>1, <2>2
<1>4. Rest'
    <2> SUFFICES ASSUME NEW t \in Tenant, t \notin queue', cur' # t, seenTenant'[t] # None
                 PROVE  /\ Placed(t, seenTenant[t])' /\ Linked(t, seenTenant[t])'
                        /\ \A k \in Kind : Filled(k, t, seenTenant[t])'
        BY DEF Rest
    <2> QED BY <1>1, KeepsRest DEF Rest, work, cache
<1> QED BY <1>2, <1>3, <1>4 DEF WakeupInv

\* Steps of the worker, which leave the caches alone.  Others are at rest as they
\* were; the worker's own Tenant is requeued, goes on, or is done with.
LEMMA WorkerWakeup ==
    ASSUME WakeupInv, TypeOK', NsStep, ChildStep, UNCHANGED cache, cur \in Tenant,
           \/ Requeue
           \/ queue' = queue /\ cur' = cur /\ Progress'
           \/ /\ Succeed
              /\ \A t \in Tenant : t = cur /\ t \notin queue =>
                   /\ Placed(t, seenTenant[t])' /\ Linked(t, seenTenant[t])'
                   /\ \A k \in Kind : Filled(k, t, seenTenant[t])'
    PROVE  WakeupInv'
<1>1. TypeOK /\ Lag /\ Rest
    BY DEF WakeupInv
<1>2. Lag'
    BY <1>1, KeepsLag
<1>3. Progress'
    BY DEF Requeue, Succeed, Done, Progress
<1>4. Rest'
    <2> SUFFICES ASSUME NEW t \in Tenant, t \notin queue', cur' # t, seenTenant'[t] # None
                 PROVE  /\ Placed(t, seenTenant[t])' /\ Linked(t, seenTenant[t])'
                        /\ \A k \in Kind : Filled(k, t, seenTenant[t])'
        BY DEF Rest
    <2>1. CASE t # cur
        <3>1. t \notin queue /\ seenTenant[t] # None
            BY DEF Requeue, Succeed, Done, cache
        <3> QED BY <1>1, <2>1, <3>1, KeepsRest DEF Rest
    <2>2. CASE t = cur
        <3>1. Succeed /\ t = cur /\ t \notin queue
            BY <2>2 DEF Requeue, Succeed, Done
        <3> QED BY <3>1 DEF Requeue
    <2> QED BY <2>1, <2>2
<1> QED BY <1>2, <1>3, <1>4 DEF WakeupInv

-----------------------------------------------------------------------------
(* The worker's steps.                                                     *)

LEMMA GetWakeup == ASSUME WakeupInv, NEW t \in Tenant, ReconcileGet(t) PROVE WakeupInv'
<1>1. TypeOK /\ Lag /\ Rest /\ TypeOK' /\ UNCHANGED <<api, cache, wake>>
    BY GetType DEF WakeupInv, ReconcileGet
<1>2. Lag'
    BY <1>1 DEF Lag, NsLag, ChildLag, api, cache, wake
<1>3. Progress'
    BY <1>1 DEF ReconcileGet, Progress, cache
<1>4. Rest'
    <2> SUFFICES ASSUME NEW s \in Tenant, s \notin queue', cur' # s, seenTenant'[s] # None
                 PROVE  /\ Placed(s, seenTenant[s])' /\ Linked(s, seenTenant[s])'
                        /\ \A k \in Kind : Filled(k, s, seenTenant[s])'
        BY DEF Rest
    <2>1. s # t /\ s \notin queue /\ cur # s
        BY <1>1, Sentinels DEF ReconcileGet, TypeOK, cache
    <2> QED BY <1>1, <2>1 DEF Rest, Placed, Linked, Filled, api, cache, wake
<1> QED BY <1>1, <1>2, <1>3, <1>4 DEF WakeupInv

LEMMA NamespaceWakeup == ASSUME WakeupInv, EnsureNamespace PROVE WakeupInv'
<1> DEFINE n == NsOf[cur]
           seen == seenNs[n]
           own == Owner(cur, snap.uid)
<1>1. TypeOK /\ Lag /\ Progress /\ TypeOK'
    BY EnsureNamespaceType DEF WakeupInv
<1>2. pc = "namespace" /\ cur \in Tenant /\ snap \in TenantObj /\ n \in Namespace
    BY <1>1, TenantKeys DEF EnsureNamespace, TypeOK
<1>3. own \notin {None, Foreign} /\ own.tenant = cur /\ own \in Ctrl
    BY <1>2, Sentinels DEF Owner, TenantObj, Ctrl
<1>4. NsStep /\ ChildStep /\ UNCHANGED cache
    <2>1. (\E m \in Namespace : \E o : PutNs(m, o)) \/ UNCHANGED sameNs
        BY <1>2 DEF EnsureNamespace
    <2>2. UNCHANGED sameChild /\ UNCHANGED cache
        BY DEF EnsureNamespace
    <2> QED BY <1>1, <2>1, <2>2, PutNsStep, PutChildStep
<1>5. ASSUME GoTo("quota"), Placed(cur, snap)' PROVE WakeupInv'
    <2>1. Progress'
        BY <1>1, <1>2, <1>4, <1>5 DEF Progress, GoTo, Placed, cache
    <2> QED BY <1>1, <1>2, <1>4, <1>5, <2>1, WorkerWakeup DEF GoTo
<1>6. ASSUME NEW o \in NsObj, o.labelled, o.ctrl = own, PutNs(n, o), GoTo("quota")
      PROVE  WakeupInv'
    <2>1. ns'[n] = o /\ o # None
        BY <1>1, <1>2, <1>6, NoneIsNoObject DEF PutNs, TypeOK, NsMap
    <2>2. Placed(cur, snap)'
        BY <1>6, <2>1 DEF Placed, GoTo
    <2> QED BY <1>5, <1>6, <2>2
<1>7. ASSUME NEW u \in NsUid,
             PutNs(n, [uid |-> u, phase |-> "Active", labelled |-> TRUE, ctrl |-> own]),
             GoTo("quota")
      PROVE  WakeupInv'
    <2> DEFINE o == [uid |-> u, phase |-> "Active", labelled |-> TRUE, ctrl |-> own]
    <2>1. o \in NsObj /\ o.labelled /\ o.ctrl = own
        BY <1>3 DEF NsObj
    <2> QED BY <1>6, <1>7, <2>1
<1>8. ASSUME seen # None, PutNs(n, WantedNs(seen)), GoTo("quota") PROVE WakeupInv'
    <2>1. seen \in NsObj
        BY <1>1, <1>2, <1>8 DEF TypeOK, NsMap
    <2>2. WantedNs(seen) \in NsObj /\ WantedNs(seen).labelled /\ WantedNs(seen).ctrl = own
        BY <1>3, <2>1 DEF WantedNs, NsObj
    <2> QED BY <1>6, <1>8, <2>2
<1>9. ASSUME seen # None, seen = WantedNs(seen), GoTo("quota"), UNCHANGED sameNs
      PROVE  WakeupInv'
    <2>1. seen \in NsObj
        BY <1>1, <1>2, <1>9 DEF TypeOK, NsMap
    <2>2. seen.labelled /\ seen.ctrl = own
        BY <1>3, <1>9, <2>1 DEF WantedNs, NsObj
    <2>3. cur \in OwnersOf(seen)
        BY <1>3, <1>9, <2>2 DEF OwnersOf
    <2>4. seen = ns[n] \/ cur \in wakeNs[n]
        BY <1>1, <1>2, <2>3 DEF Lag, NsLag
    <2>5. Placed(cur, snap)'
        BY <1>9, <2>2, <2>4 DEF Placed, GoTo, sameNs
    <2> QED BY <1>5, <1>9, <2>5
<1>10. CASE Requeue
    BY <1>1, <1>2, <1>4, <1>10, WorkerWakeup
<1> QED BY <1>7, <1>8, <1>9, <1>10 DEF EnsureNamespace

LEMMA ChildWakeup ==
    ASSUME WakeupInv, EnsureResourceQuota \/ EnsureNetworkPolicy PROVE WakeupInv'
<1>0. \/ EnsureChild("quota", "netpol")
      \/ EnsureChild("netpol", "link")
    BY DEF EnsureResourceQuota, EnsureNetworkPolicy
<1> SUFFICES ASSUME NEW k \in Kind, NEW next \in {"netpol", "link"}, EnsureChild(k, next),
                    k = "quota" <=> next = "netpol"
             PROVE  WakeupInv'
    BY <1>0 DEF Kind
<1> DEFINE n == NsOf[cur]
           seen == seenChild[k][n]
           want == [spec |-> "desired", ctrl |-> Owner(cur, snap.uid)]
<1>1. TypeOK /\ Lag /\ Progress /\ TypeOK'
    BY EnsureChildType DEF WakeupInv
<1>2. pc = k /\ pc # "idle" /\ cur \in Tenant /\ snap \in TenantObj /\ n \in Namespace
    BY <1>1, TenantKeys DEF EnsureChild, TypeOK, Kind
<1>3. want \in ChildObj /\ want # None /\ OwnersOf(want) = {cur}
    <2>1. Owner(cur, snap.uid) \in [tenant : Tenant, uid : TenantUid]
        BY <1>2 DEF Owner, TenantObj
    <2>2. want \in ChildObj
        BY <2>1 DEF ChildObj, Ctrl
    <2> QED BY <2>1, <2>2, Sentinels, NoneIsNoObject DEF OwnersOf, Owner
<1>4. NsStep /\ ChildStep /\ UNCHANGED cache
    <2>1. (\E j \in Kind, m \in Namespace : \E o : PutChild(j, m, o)) \/ UNCHANGED sameChild
        BY <1>2 DEF EnsureChild
    <2>2. UNCHANGED sameNs /\ UNCHANGED cache
        BY DEF EnsureChild
    <2> QED BY <1>1, <2>1, <2>2, PutNsStep, PutChildStep
<1>5. ASSUME GoTo(next), Filled(k, cur, snap)' PROVE WakeupInv'
    <2>1. UNCHANGED <<queue, cur, snap, seenTenant>> /\ pc' = next
        BY <1>4, <1>5 DEF GoTo, cache
    <2>2. ASSUME cur \notin queue
          PROVE  /\ snap = seenTenant[cur] /\ Placed(cur, snap)
                 /\ k = "netpol" => Filled("quota", cur, snap)
        BY <1>1, <1>2, <2>2 DEF Progress, Kind
    <2>3. Placed(cur, snap) => Placed(cur, snap)'
        BY <1>2, <1>4, KeepsPlaced, <2>1 DEF Placed
    <2>4. Filled("quota", cur, snap) => Filled("quota", cur, snap)'
        BY <1>2, <1>4, KeepsFilled, <2>1 DEF Filled, Kind
    <2>5. Progress'
        <3>1. CASE k = "quota"
            BY <1>5, <2>1, <2>2, <2>3, <3>1 DEF Progress, Kind, Filled
        <3>2. CASE k = "netpol"
            BY <1>5, <2>1, <2>2, <2>3, <2>4, <3>2 DEF Progress, Kind, Filled
        <3> QED BY <3>1, <3>2 DEF Kind
    <2> QED BY <1>1, <1>2, <1>4, <2>1, <2>5, WorkerWakeup
<1>6. ASSUME PutChild(k, n, want), GoTo(next) PROVE WakeupInv'
    <2>1. child'[k][n] = want
        BY <1>1, <1>2, <1>6 DEF PutChild, TypeOK, ChildMap
    <2>2. Filled(k, cur, snap)'
        BY <1>6, <2>1 DEF Filled, GoTo
    <2> QED BY <1>5, <1>6, <2>2
<1>7. ASSUME seen = want, GoTo(next), UNCHANGED sameChild PROVE WakeupInv'
    <2>1. seen = child[k][n] \/ cur \in wakeChild[k][n]
        BY <1>1, <1>2, <1>3, <1>7 DEF Lag, ChildLag
    <2>2. Filled(k, cur, snap)'
        BY <1>7, <2>1 DEF Filled, GoTo, sameChild
    <2> QED BY <1>5, <1>7, <2>2
<1>8. CASE Requeue
    BY <1>1, <1>2, <1>4, <1>8, WorkerWakeup
<1> QED BY <1>6, <1>7, <1>8 DEF EnsureChild

LEMMA LinkWakeup == ASSUME WakeupInv, LinkTenant PROVE WakeupInv'
<1> DEFINE n == NsOf[cur]
           seen == seenNs[n]
<1>1. TypeOK /\ Lag /\ Progress /\ TypeOK'
    BY LinkTenantType DEF WakeupInv
<1>2. pc = "link" /\ cur \in Tenant /\ snap \in TenantObj /\ n \in Namespace
    BY <1>1, TenantKeys DEF LinkTenant, TypeOK
<1>3. NsStep /\ ChildStep /\ UNCHANGED cache /\ UNCHANGED sameChild
    <2>1. (\E m \in Namespace : \E o : PutNs(m, o)) \/ UNCHANGED sameNs
        BY <1>2 DEF LinkTenant
    <2>2. UNCHANGED sameChild /\ UNCHANGED cache
        BY DEF LinkTenant
    <2> QED BY <1>1, <2>1, <2>2, PutNsStep, PutChildStep
<1>4. ASSUME Succeed, UNCHANGED sameNs,
             snap.isolation # "namespace" \/ (seen # None /\ snap.nsRef = seen.uid)
      PROVE  WakeupInv'
    <2>1. ASSUME NEW t \in Tenant, t = cur, t \notin queue
          PROVE  /\ Placed(t, seenTenant[t])' /\ Linked(t, seenTenant[t])'
                 /\ \A k \in Kind : Filled(k, t, seenTenant[t])'
        <3>1. /\ snap = seenTenant[cur] /\ Placed(cur, snap)
              /\ \A k \in Kind : Filled(k, cur, snap)
            BY <1>1, <1>2, <2>1 DEF Progress, Kind
        <3>2. Linked(cur, snap)
            <4>1. CASE cur \in wakeNs[n] \/ snap.isolation # "namespace"
                BY <4>1 DEF Linked
            <4>2. CASE cur \notin wakeNs[n] /\ snap.nsRef = seen.uid
                <5>1. ns[n] # None /\ ns[n].ctrl = Owner(cur, snap.uid)
                    BY <3>1, <4>2 DEF Placed
                <5>2. cur \in OwnersOf(ns[n])
                    BY <1>2, <5>1, Sentinels DEF OwnersOf, Owner, TenantObj
                <5>3. seen = ns[n]
                    BY <1>1, <1>2, <4>2, <5>2 DEF Lag, NsLag
                <5> QED BY <4>2, <5>3 DEF Linked
            <4> QED BY <1>4, <4>1, <4>2
        <3>3. UNCHANGED <<ns, wakeNs, child, wakeChild, seenTenant>>
            BY <1>3, <1>4 DEF sameNs, sameChild, cache
        <3> QED BY <2>1, <3>1, <3>2, <3>3 DEF Placed, Linked, Filled
    <2> QED BY <1>1, <1>2, <1>3, <1>4, <2>1, WorkerWakeup
<1>5. CASE Requeue
    BY <1>1, <1>2, <1>3, <1>5, WorkerWakeup
<1> QED BY <1>4, <1>5 DEF LinkTenant

-----------------------------------------------------------------------------
(* The informers turn the events for a Tenant into its place in the queue.  *)

LEMMA SyncWakeup ==
    ASSUME WakeupInv, TypeOK', Lag', UNCHANGED <<api, seenTenant, pc, cur, snap>>,
           queue \subseteq queue',
           \A n \in Namespace : wakeNs[n] \subseteq wakeNs'[n] \cup queue',
           \A n \in Namespace, k \in Kind : wakeChild[k][n] \subseteq wakeChild'[k][n] \cup queue'
    PROVE  WakeupInv'
<1>0. TypeOK /\ Progress /\ Rest
    BY DEF WakeupInv
<1>1. ASSUME NEW t \in Tenant, NEW s, t \notin queue'
      PROVE  /\ Placed(t, s) => t \in wakeNs'[NsOf[t]]
                                  \/ /\ ns'[NsOf[t]] # None /\ ns'[NsOf[t]].labelled
                                     /\ ns'[NsOf[t]].ctrl = Owner(t, s.uid)
             /\ Linked(t, s) => (s.isolation = "namespace" =>
                                   t \in wakeNs'[NsOf[t]] \/ s.nsRef = ns'[NsOf[t]].uid)
             /\ \A k \in Kind : Filled(k, t, s) =>
                  \/ t \in wakeChild'[k][NsOf[t]]
                  \/ child'[k][NsOf[t]] = [spec |-> "desired", ctrl |-> Owner(t, s.uid)]
    BY <1>1, TenantKeys DEF Placed, Linked, Filled, api
<1>2. Progress'
    <2>1. CASE pc = "idle" \/ cur \in queue'
        BY <2>1 DEF Progress
    <2>2. CASE pc # "idle" /\ cur \notin queue'
        <3>1. cur \in Tenant /\ cur \notin queue
            BY <1>0, <2>2 DEF TypeOK
        <3>2. /\ Placed(cur, snap) => Placed(cur, snap)'
              /\ \A k \in Kind : Filled(k, cur, snap) => Filled(k, cur, snap)'
            BY <1>1, <2>2, <3>1 DEF Placed, Filled
        <3> QED BY <1>0, <2>2, <3>1, <3>2 DEF Progress, Kind
    <2> QED BY <2>1, <2>2
<1>3. Rest'
    <2> SUFFICES ASSUME NEW t \in Tenant, t \notin queue', cur' # t, seenTenant'[t] # None
                 PROVE  /\ Placed(t, seenTenant[t])' /\ Linked(t, seenTenant[t])'
                        /\ \A k \in Kind : Filled(k, t, seenTenant[t])'
        BY DEF Rest
    <2>1. /\ Placed(t, seenTenant[t]) /\ Linked(t, seenTenant[t])
          /\ \A k \in Kind : Filled(k, t, seenTenant[t])
        BY <1>0 DEF Rest
    <2> QED BY <1>1, <2>1 DEF Placed, Linked, Filled
<1> QED BY <1>2, <1>3 DEF WakeupInv

LEMMA InformersWakeup == ASSUME WakeupInv, Informers PROVE WakeupInv'
<1>0. TypeOK /\ Lag /\ Progress /\ Rest /\ TypeOK'
    BY InformersType DEF WakeupInv
<1>1. ASSUME NEW t \in Tenant, SyncTenant(t) PROVE WakeupInv'
    <2>1. /\ UNCHANGED <<api, seenNs, seenChild, wake, pc, cur, snap>>
          /\ queue' = queue \cup {t}
          /\ \A s \in Tenant : s # t => seenTenant'[s] = seenTenant[s]
        BY <1>0, <1>1 DEF SyncTenant, TypeOK, TenantMap
    <2>2. Lag'
        BY <1>0, <2>1 DEF Lag, NsLag, ChildLag, api, wake
    <2>3. Progress'
        BY <1>0, <2>1 DEF Progress, Placed, Filled, api, wake, TypeOK
    <2>4. Rest'
        <3> SUFFICES ASSUME NEW s \in Tenant, s \notin queue', cur' # s, seenTenant'[s] # None
                     PROVE  /\ Placed(s, seenTenant[s])' /\ Linked(s, seenTenant[s])'
                            /\ \A k \in Kind : Filled(k, s, seenTenant[s])'
            BY DEF Rest
        <3>1. s # t /\ s \notin queue /\ cur # s
            BY <2>1
        <3> QED BY <1>0, <2>1, <3>1 DEF Rest, Placed, Linked, Filled, api, wake
    <2> QED BY <1>0, <2>2, <2>3, <2>4 DEF WakeupInv
<1>2. ASSUME NEW n \in Namespace, SyncNs(n) PROVE WakeupInv'
    <2>1. \A m \in Namespace :
            /\ seenNs'[m] = IF m = n THEN ns[n] ELSE seenNs[m]
            /\ wakeNs'[m] = IF m = n THEN {} ELSE wakeNs[m]
        BY <1>0, <1>2 DEF SyncNs, TypeOK, NsMap
    <2>2. /\ UNCHANGED <<api, seenTenant, seenChild, wakeChild, pc, cur, snap>>
          /\ queue' = queue \cup wakeNs[n]
        BY <1>2 DEF SyncNs
    <2>3. Lag'
        BY <1>0, <2>1, <2>2 DEF Lag, NsLag, ChildLag, api
    <2> QED BY <1>0, <2>1, <2>2, <2>3, SyncWakeup
<1>3. ASSUME NEW n \in Namespace, NEW k \in Kind, SyncChild(k, n) PROVE WakeupInv'
    <2>1. \A m \in Namespace, j \in Kind :
            /\ seenChild'[j][m] = IF j = k /\ m = n THEN child[k][n] ELSE seenChild[j][m]
            /\ wakeChild'[j][m] = IF j = k /\ m = n THEN {} ELSE wakeChild[j][m]
        BY <1>0, <1>3 DEF SyncChild, TypeOK, ChildMap
    <2>2. /\ UNCHANGED <<api, seenTenant, seenNs, wakeNs, pc, cur, snap>>
          /\ queue' = queue \cup wakeChild[k][n]
        BY <1>3 DEF SyncChild
    <2>3. Lag'
        BY <1>0, <2>1, <2>2 DEF Lag, NsLag, ChildLag, api
    <2> QED BY <1>0, <2>1, <2>2, <2>3, SyncWakeup
<1> QED BY <1>1, <1>2, <1>3 DEF Informers

-----------------------------------------------------------------------------
(* Everybody else.                                                         *)

LEMMA KubernetesWakeup == ASSUME WakeupInv, Kubernetes PROVE WakeupInv'
<1>1. TypeOK /\ TypeOK'
    BY KubernetesType DEF WakeupInv
<1>2. (\E n \in Namespace : \E o : PutNs(n, o)) \/ UNCHANGED sameNs
    BY DEF Kubernetes, GCTenant, GCNamespace, FinalizeNamespace, GCChild, EmptyNamespace,
           sameNs, wake
<1>3. (\E k \in Kind, n \in Namespace : \E o : PutChild(k, n, o)) \/ UNCHANGED sameChild
    BY DEF Kubernetes, GCTenant, GCNamespace, FinalizeNamespace, GCChild, EmptyNamespace,
           sameChild, wake
<1>4. UNCHANGED <<cache, work>>
    BY DEF Kubernetes, GCTenant, GCNamespace, FinalizeNamespace, GCChild, EmptyNamespace
<1> QED BY <1>1, <1>2, <1>3, <1>4, PutNsStep, PutChildStep, OutsideWakeup

LEMMA DisruptionWakeup == ASSUME WakeupInv, Disruption PROVE WakeupInv'
<1>1. TypeOK /\ TypeOK'
    BY DisruptionType DEF WakeupInv
<1>2. ASSUME ApiError PROVE WakeupInv'
    <2>1. /\ Requeue /\ UNCHANGED cache /\ UNCHANGED sameNs /\ UNCHANGED sameChild
          /\ cur \in Tenant
        BY <1>1, <1>2 DEF ApiError, TypeOK, api, wake, sameNs, sameChild
    <2> QED BY <1>1, <2>1, PutNsStep, PutChildStep, WorkerWakeup
<1>3. ASSUME RestartManager PROVE WakeupInv'
    <2>1. Lag'
        BY <1>3 DEF RestartManager, Lag, NsLag, ChildLag, api
    <2>2. Progress'
        BY <1>3 DEF RestartManager, Done, Progress
    <2>3. Rest'
        BY <1>3 DEF RestartManager, Rest, api
    <2> QED BY <1>1, <2>1, <2>2, <2>3 DEF WakeupInv
<1>4. CASE ~ApiError /\ ~RestartManager
    <2>1. (\E n \in Namespace : \E o : PutNs(n, o)) \/ UNCHANGED sameNs
        BY <1>4 DEF Disruption, CreateTenant, DeleteTenant, EditTenant, CreateNamespace,
                    DeleteNamespace, StripLabel, DriftChild, DeleteChild, sameNs, wake
    <2>2. (\E k \in Kind, n \in Namespace : \E o : PutChild(k, n, o)) \/ UNCHANGED sameChild
        BY <1>4 DEF Disruption, CreateTenant, DeleteTenant, EditTenant, CreateNamespace,
                    DeleteNamespace, StripLabel, DriftChild, DeleteChild, sameChild, wake
    <2>3. UNCHANGED <<cache, work>>
        BY <1>4 DEF Disruption, CreateTenant, DeleteTenant, EditTenant, CreateNamespace,
                    DeleteNamespace, StripLabel, DriftChild, DeleteChild
    <2> QED BY <1>1, <2>1, <2>2, <2>3, PutNsStep, PutChildStep, OutsideWakeup
<1> QED BY <1>2, <1>3, <1>4

LEMMA InitWakeup == Init => WakeupInv
BY InitType DEF Init, WakeupInv, Lag, NsLag, ChildLag, Progress, Rest

LEMMA NextWakeup == WakeupInv /\ [Next]_vars => WakeupInv'
<1> SUFFICES ASSUME WakeupInv, [Next]_vars PROVE WakeupInv'
    OBVIOUS
<1>1. CASE UNCHANGED vars
    <2>1. TypeOK' /\ UNCHANGED <<cache, work, sameNs, sameChild>>
        BY <1>1, NextType DEF WakeupInv, vars, api, wake, sameNs, sameChild
    <2> QED BY <2>1, PutNsStep, PutChildStep, OutsideWakeup DEF WakeupInv
<1>2. CASE Reconcile
    BY <1>2, GetWakeup, NamespaceWakeup, ChildWakeup, LinkWakeup DEF Reconcile
<1> QED BY <1>1, <1>2, InformersWakeup, KubernetesWakeup, DisruptionWakeup DEF Next

\* Whatever the order of writes, events, failures and restarts, a Tenant that the
\* controller has let go of, with nothing more to hear about it, has everything
\* Reconcile ensures: no error result and no watch leaves it behind.
THEOREM NoWakeupLost == Spec => []NoLostWakeup
BY NextWakeup, InitWakeup, WakeupEnough, PTL DEF Spec

-----------------------------------------------------------------------------
(* A Reconcile with up-to-date copies.  It turns back only before an object   *)
(* that it may not control; a quota or policy always has a Tenant as its      *)
(* controller, and by ownership one that shares its key with the worker's.    *)

ChildHeld ==
    \A k \in Kind, n \in Namespace : child[k][n] # None => child[k][n].ctrl \notin {None, Foreign}

LEMMA PutChildHeld ==
    ASSUME TypeOK, ChildHeld, NEW k \in Kind, NEW n \in Namespace, NEW o, PutChild(k, n, o),
           o # None => o.ctrl \notin {None, Foreign}
    PROVE  ChildHeld'
<1>1. \A j \in Kind, m \in Namespace : child'[j][m] = IF j = k /\ m = n THEN o ELSE child[j][m]
    BY DEF PutChild, TypeOK, ChildMap
<1> QED BY <1>1 DEF ChildHeld

LEMMA NextHeld == ASSUME TypeOK, ChildHeld, [Next]_vars PROVE ChildHeld'
<1>1. CASE UNCHANGED child
    BY <1>1 DEF ChildHeld
<1>2. ASSUME NEW k \in Kind, NEW next \in {"netpol", "link"}, EnsureChild(k, next)
      PROVE  ChildHeld'
    <2>1. pc # "idle" /\ cur \in Tenant /\ snap \in TenantObj /\ NsOf[cur] \in Namespace
        BY <1>2, TenantKeys DEF EnsureChild, TypeOK, Kind
    <2> DEFINE want == [spec |-> "desired", ctrl |-> Owner(cur, snap.uid)]
    <2>2. want.ctrl \notin {None, Foreign}
        BY <2>1, Sentinels DEF Owner, TenantObj
    <2>3. PutChild(k, NsOf[cur], want) \/ UNCHANGED child
        BY <1>2 DEF EnsureChild, sameChild
    <2> HIDE DEF want
    <2> QED BY <1>1, <2>1, <2>2, <2>3, PutChildHeld
<1>3. ASSUME NEW k \in Kind, NEW n \in Namespace,
             \/ GCChild(k, n) \/ EmptyNamespace(k, n)
             \/ DriftChild(k, n) \/ DeleteChild(k, n)
      PROVE  ChildHeld'
    <2>1. child[k][n] # None => child[k][n] \in ChildObj
        BY DEF TypeOK, ChildMap
    <2> DEFINE o == [child[k][n] EXCEPT !.spec = "drifted"]
    <2>2. child[k][n] # None => o.ctrl = child[k][n].ctrl
        BY <2>1 DEF ChildObj
    <2>3. PutChild(k, n, None) \/ (child[k][n] # None /\ PutChild(k, n, o))
        BY <1>3 DEF GCChild, EmptyNamespace, DriftChild, DeleteChild
    <2> HIDE DEF o
    <2> QED BY <2>2, <2>3, PutChildHeld DEF ChildHeld
<1>4. CASE Reconcile
    BY <1>1, <1>2, <1>4
       DEF Reconcile, ReconcileGet, EnsureNamespace, EnsureResourceQuota, EnsureNetworkPolicy,
           LinkTenant, Kind, api, sameChild
<1>5. CASE Informers
    BY <1>1, <1>5 DEF Informers, SyncTenant, SyncNs, SyncChild, api
<1>6. CASE Kubernetes
    BY <1>1, <1>3, <1>6 DEF Kubernetes, GCTenant, GCNamespace, FinalizeNamespace, sameChild
<1>7. CASE Disruption
    <2>1. ASSUME NEW t \in Tenant, CreateTenant(t) \/ DeleteTenant(t) \/ EditTenant(t)
          PROVE  UNCHANGED child
        BY <2>1 DEF CreateTenant, DeleteTenant, EditTenant
    <2>2. ASSUME NEW n \in Namespace, CreateNamespace(n) \/ DeleteNamespace(n) \/ StripLabel(n)
          PROVE  UNCHANGED child
        BY <2>2 DEF CreateNamespace, DeleteNamespace, StripLabel, sameChild
    <2>3. ApiError \/ RestartManager => UNCHANGED child
        BY DEF ApiError, RestartManager, api
    <2> QED BY <1>1, <1>3, <1>7, <2>1, <2>2, <2>3 DEF Disruption
<1>8. CASE UNCHANGED vars
    BY <1>1, <1>8 DEF vars, api
<1> QED BY <1>4, <1>5, <1>6, <1>7, <1>8 DEF Next

\* Who controls an object that is soundly owned has the key of the Tenant whose
\* namespace it is in.
LEMMA MayControl ==
    ASSUME NEW t \in Tenant, HomeOf[t] = Cluster, NEW o \in NsObj \cup ChildObj,
           o # None, o.ctrl # Foreign, Sound(NsOf[t], o)
    PROVE  \A place \in {Cluster, NsOf[t]} : CanControl(t, place, o.ctrl)
<1>1. o.ctrl \in Ctrl
    BY DEF NsObj, ChildObj
<1>2. CASE o.ctrl = None
    BY <1>2 DEF CanControl
<1>3. CASE o.ctrl # None
    <2>1. o.ctrl \in [tenant : Tenant, uid : TenantUid]
        BY <1>1, <1>3 DEF Ctrl
    <2>2. NsOf[o.ctrl.tenant] = NsOf[t] /\ HomeOf[o.ctrl.tenant] = HomeOf[t]
        BY <1>3 DEF Sound, OwnersOf
    <2>3. o.ctrl.tenant = t
        BY <2>1, <2>2, TenantKeys
    <2>4. o.ctrl \in [tenant : {t}, uid : TenantUid]
        BY <2>1, <2>3
    <2> QED BY <2>4 DEF CanControl
<1> QED BY <1>2, <1>3

LEMMA UnhinderedStep ==
    ASSUME OwnershipInv, ChildHeld, Unhindered
    PROVE  /\ EnsureNamespace \/ EnsureResourceQuota \/ EnsureNetworkPolicy => pc' # "idle"
           /\ LinkTenant /\ snap.isolation = "namespace" =>
                tenant'[cur].nsRef = ns[NsOf[cur]].uid
<1> DEFINE n == NsOf[cur]
<1>1. TypeOK /\ NsSound /\ ChildSound
    BY DEF OwnershipInv
<1>2. /\ cur \in Tenant /\ n \in Namespace /\ HomeOf[cur] = Cluster
      /\ snap = tenant[cur] /\ seenNs[n] = ns[n] /\ snap \in TenantObj
      /\ \A k \in Kind : seenChild[k][n] = child[k][n]
      /\ ns[n] = None => pc = "namespace"
      /\ ns[n] # None => ns[n].phase = "Active" /\ ns[n].ctrl # Foreign
    BY <1>1, TenantKeys DEF Unhindered, TypeOK
<1>3. ns[n] = None \/ CanControl(cur, Cluster, ns[n].ctrl)
    BY <1>1, <1>2, MayControl DEF TypeOK, NsMap, NsSound
<1>4. ASSUME NEW k \in Kind PROVE child[k][n] = None \/ CanControl(cur, n, child[k][n].ctrl)
    BY <1>1, <1>2, MayControl DEF TypeOK, ChildMap, ChildSound, ChildHeld
<1>5. CanControl(cur, Cluster, None) /\ CanControl(cur, n, None)
    BY <1>2 DEF CanControl
<1>6. ASSUME EnsureNamespace PROVE pc' # "idle"
    <2>1. GoTo("quota")
        BY <1>2, <1>3, <1>5, <1>6 DEF EnsureNamespace
    <2> QED BY <2>1 DEF GoTo
<1>7. ASSUME NEW k \in Kind, NEW next \in {"netpol", "link"}, EnsureChild(k, next)
      PROVE  pc' # "idle"
    <2>1. ns[n] # None /\ ns[n].phase = "Active"
        BY <1>2, <1>7 DEF EnsureChild, Kind
    <2>2. GoTo(next)
        BY <1>2, <1>4, <1>5, <1>7, <2>1 DEF EnsureChild
    <2> QED BY <2>2 DEF GoTo
<1>8. ASSUME LinkTenant, snap.isolation = "namespace" PROVE tenant'[cur].nsRef = ns[n].uid
    <2>1. seenNs[n] # None
        BY <1>2, <1>8 DEF LinkTenant
    <2>2. [snap EXCEPT !.nsRef = ns[n].uid].nsRef = ns[n].uid
        BY <1>2 DEF TenantObj
    <2>3. CASE snap.nsRef = seenNs[n].uid
        BY <1>2, <1>8, <2>1, <2>3 DEF LinkTenant
    <2>4. CASE snap.nsRef # seenNs[n].uid
        <3>1. tenant' = [tenant EXCEPT ![cur] = [snap EXCEPT !.nsRef = ns[n].uid]]
            BY <1>2, <1>8, <2>1, <2>4 DEF LinkTenant
        <3> QED BY <1>1, <1>2, <2>2, <3>1 DEF TypeOK, TenantMap
    <2> QED BY <2>3, <2>4
<1> QED BY <1>6, <1>7, <1>8 DEF EnsureResourceQuota, EnsureNetworkPolicy, Kind

\* With copies that are up to date a Reconcile gets everything it is for, over
\* drift, objects of nobody's and those of a former Tenant of its name: it turns
\* back only for a copy that is behind (whose event queues its Tenant,
\* NoWakeupLost), a failing call, a Namespace that is another controller's, or
\* one that is going away.
THEOREM UpToDateSuffices == Spec => UnhinderedGetsThrough
<1>1. Init => OwnershipInv /\ ChildHeld
    BY InitOwnership DEF Init, ChildHeld
<1>2. OwnershipInv /\ ChildHeld /\ [Next]_vars => OwnershipInv' /\ ChildHeld'
    BY NextOwnership, NextHeld DEF OwnershipInv
<1>3. OwnershipInv /\ ChildHeld =>
        [Unhindered =>
           /\ EnsureNamespace \/ EnsureResourceQuota \/ EnsureNetworkPolicy => pc' # "idle"
           /\ LinkTenant /\ snap.isolation = "namespace" =>
                tenant'[cur].nsRef = ns[NsOf[cur]].uid]_vars
    BY UnhinderedStep
<1> QED BY <1>1, <1>2, <1>3, PTL DEF Spec, UnhinderedGetsThrough

-----------------------------------------------------------------------------
(* Watches that break.  A re-listing brings a cache up to date and drops its *)
(* undelivered events, a resync queues Tenants; neither writes an object.    *)

\* The CRD as README.md has it (the shipped one is namespaced: ShippedInert), and
\* a Tenant for every namespace name, as on the cluster ResyncInit starts from.
ClusterScoped == \A t \in Tenant : HomeOf[t] = Cluster
EveryNameTaken == \A n \in Namespace : \E t \in Tenant : NsOf[t] = n

LEMMA ResyncSteps == ResyncNext => Next \/ Relist \/ Resync
BY DEF ResyncNext, Next, Meddling, Disruption

\* A provisioned Tenant's objects are its own.
LEMMA ResyncInitParts ==
    ASSUME EveryNameTaken, ResyncInit
    PROVE  /\ tenant \in TenantMap /\ ns \in NsMap /\ child \in ChildMap
           /\ \A n \in Namespace :
                /\ OwnersOf(ns[n]) \subseteq {t \in Tenant : NsOf[t] = n}
                /\ \A k \in Kind : OwnersOf(child[k][n]) \subseteq {t \in Tenant : NsOf[t] = n}
<1>1. PICK u \in TenantUid, v \in NsUid, i \in Isolation : AllProvisioned(u, v, i)
    BY DEF ResyncInit
<1>2. \A n \in Namespace : TenantOf(n) \in Tenant /\ NsOf[TenantOf(n)] = n
    BY DEF EveryNameTaken, TenantOf
<1>3. ASSUME NEW n \in Namespace
      PROVE  /\ ns[n] = [uid |-> v, phase |-> "Active", labelled |-> TRUE,
                         ctrl |-> Owner(TenantOf(n), u)]
             /\ \A k \in Kind : child[k][n] = [spec |-> "desired", ctrl |-> Owner(TenantOf(n), u)]
    BY <1>1 DEF AllProvisioned
<1>4. ASSUME NEW n \in Namespace
      PROVE  /\ ns[n] \in NsObj /\ \A k \in Kind : child[k][n] \in ChildObj
             /\ OwnersOf(ns[n]) \subseteq {TenantOf(n)}
             /\ \A k \in Kind : OwnersOf(child[k][n]) \subseteq {TenantOf(n)}
    <2> DEFINE own == Owner(TenantOf(n), u)
    <2>1. own \in Ctrl /\ own.tenant = TenantOf(n)
        BY <1>2 DEF Owner, Ctrl
    <2> HIDE DEF own
    <2>2. ns[n] = [uid |-> v, phase |-> "Active", labelled |-> TRUE, ctrl |-> own]
        BY <1>3 DEF own
    <2>3. ns[n] \in NsObj /\ ns[n].ctrl = own
        BY <2>1, <2>2 DEF NsObj
    <2>4. \A k \in Kind : child[k][n] = [spec |-> "desired", ctrl |-> own]
        BY <1>3 DEF own
    <2>5. \A k \in Kind : child[k][n] \in ChildObj /\ child[k][n].ctrl = own
        BY <2>1, <2>4 DEF ChildObj
    <2> QED BY <2>1, <2>3, <2>5 DEF OwnersOf
<1>5. tenant \in TenantMap
    BY <1>1 DEF AllProvisioned, TenantMap, TenantObj
<1>6. ns \in NsMap
    <2>1. ns = [n \in Namespace |-> ns[n]]
        BY <1>1 DEF AllProvisioned
    <2> QED BY <1>4, <2>1 DEF NsMap
<1>7. child \in ChildMap
    <2>1. child = [k \in Kind |-> [n \in Namespace |-> child[k][n]]]
        BY <1>1 DEF AllProvisioned
    <2> QED BY <1>4, <2>1 DEF ChildMap
<1> QED BY <1>2, <1>4, <1>5, <1>6, <1>7

LEMMA ResyncInitType == EveryNameTaken /\ ResyncInit => TypeOK
<1> SUFFICES ASSUME EveryNameTaken, ResyncInit PROVE TypeOK
    OBVIOUS
<1>1. tenant \in TenantMap /\ ns \in NsMap /\ child \in ChildMap
    BY ResyncInitParts
<1> QED BY <1>1, Bounds DEF ResyncInit, TypeOK

LEMMA ListedType ==
    ASSUME NEW objects, objects \subseteq NsObj \cup ChildObj \cup {None}
    PROVE  ListedOwners(objects) \subseteq Tenant
BY OwnersType DEF ListedOwners

\* What a re-listing and a resync do, in terms of types.
LEMMA GapType == ASSUME TypeOK, Relist \/ Resync PROVE TypeOK'
<1>1. /\ ns \in NsMap /\ seenNs \in NsMap /\ child \in ChildMap /\ seenChild \in ChildMap
      /\ disruptions \in 0..MaxDisruptions /\ queue \subseteq Tenant
    BY DEF TypeOK
<1>2. Disrupt => disruptions' \in 0..MaxDisruptions
    BY <1>1, Bounds DEF Disrupt
<1>3. CASE RelistNamespaces
    <2>1. UNION {{ns[n], seenNs[n]} : n \in Namespace} \subseteq NsObj \cup ChildObj \cup {None}
        BY <1>1 DEF NsMap
    <2>2. queue' \subseteq Tenant
        BY <1>1, <1>3, <2>1, ListedType DEF RelistNamespaces
    <2>3. /\ seenNs' \in NsMap /\ wakeNs' \in [Namespace -> SUBSET Tenant]
          /\ disruptions' \in 0..MaxDisruptions
        BY <1>1, <1>2, <1>3 DEF RelistNamespaces
    <2> QED BY <1>3, <2>2, <2>3 DEF RelistNamespaces, TypeOK, api
<1>4. ASSUME NEW k \in Kind, RelistChildren(k) PROVE TypeOK'
    <2>1. UNION {{child[k][n], seenChild[k][n]} : n \in Namespace}
            \subseteq NsObj \cup ChildObj \cup {None}
        BY <1>1 DEF ChildMap
    <2>2. queue' \subseteq Tenant
        BY <1>1, <1>4, <2>1, ListedType DEF RelistChildren
    <2>3. /\ seenChild' \in ChildMap
          /\ wakeChild' \in [Kind -> [Namespace -> SUBSET Tenant]]
          /\ disruptions' \in 0..MaxDisruptions
        BY <1>1, <1>2, <1>4 DEF RelistChildren, TypeOK, ChildMap
    <2> QED BY <1>4, <2>2, <2>3 DEF RelistChildren, TypeOK, api
<1>5. CASE Resync
    <2>1. {seenNs[n] : n \in Namespace} \subseteq NsObj \cup ChildObj \cup {None}
        BY <1>1 DEF NsMap
    <2>2. UNION {{seenChild[k][n] : k \in Kind} : n \in Namespace}
            \subseteq NsObj \cup ChildObj \cup {None}
        BY <1>1 DEF ChildMap
    <2>3. queue' \subseteq Tenant
        BY <1>1, <1>5, <2>1, <2>2, ListedType DEF Resync
    <2> QED BY <1>5, <2>3 DEF Resync, TypeOK, api, cache, wake
<1> QED BY <1>3, <1>4, <1>5 DEF Relist

LEMMA ResyncNextType == TypeOK /\ [ResyncNext]_vars => TypeOK'
BY NextType, GapType, ResyncSteps

\* Types are kept also when watches break.
THEOREM GapsKeepTypes ==
    ASSUME EveryNameTaken
    PROVE  ResyncSpec => []TypeOK
BY ResyncInitType, ResyncNextType, PTL DEF ResyncSpec

\* A cache takes over what the API server has, whose owners are sound.
LEMMA GapOwnership == ASSUME OwnershipInv, Relist \/ Resync PROVE OwnershipInv'
<1>1. TypeOK /\ NsSound /\ ChildSound /\ PastNamespace /\ TypeOK'
    BY GapType DEF OwnershipInv
<1>2. UNCHANGED <<ns, child, pc, cur>>
    BY DEF Relist, RelistNamespaces, RelistChildren, Resync, api
<1>3. \A n \in Namespace : seenNs'[n] \in {ns[n], seenNs[n]}
    BY DEF Relist, RelistNamespaces, RelistChildren, Resync, cache
<1>4. \A k \in Kind, n \in Namespace : seenChild'[k][n] \in {child[k][n], seenChild[k][n]}
    <2>1. CASE UNCHANGED seenChild
        BY <2>1
    <2>2. ASSUME NEW k \in Kind, RelistChildren(k)
          PROVE  \A j \in Kind : seenChild'[j] \in {child[j], seenChild[j]}
        BY <1>1, <2>2 DEF RelistChildren, TypeOK, ChildMap
    <2> QED BY <2>1, <2>2 DEF Relist, RelistNamespaces, Resync, cache
<1>5. NsSound'
    BY <1>1, <1>2, <1>3 DEF NsSound, Sound, OwnersOf
<1>6. ChildSound'
    BY <1>1, <1>2, <1>4 DEF ChildSound, Sound, OwnersOf
<1> QED BY <1>1, <1>2, <1>5, <1>6 DEF OwnershipInv, PastNamespace

LEMMA ResyncOwnership ==
    /\ ClusterScoped /\ EveryNameTaken /\ ResyncInit => OwnershipInv
    /\ OwnershipInv /\ [ResyncNext]_vars => OwnershipInv'
<1>1. ASSUME ClusterScoped, EveryNameTaken, ResyncInit PROVE OwnershipInv
    <2>1. NsSound /\ ChildSound
        BY <1>1, ResyncInitParts DEF ClusterScoped, ResyncInit, NsSound, ChildSound, Sound
    <2> QED BY <1>1, <2>1, ResyncInitType DEF ResyncInit, OwnershipInv, PastNamespace
<1>2. OwnershipInv /\ [ResyncNext]_vars => OwnershipInv'
    BY NextOwnership, GapOwnership, ResyncSteps
<1> QED BY <1>1, <1>2

\* Nor does what a cache missed let a Tenant control what is not its own: neither
\* the objects of another Tenant, nor those of a Namespace that somebody else
\* made while nobody was looking.
THEOREM GapsKeepOwnership ==
    ASSUME ClusterScoped, EveryNameTaken
    PROVE  ResyncSpec => []OwnershipSound
<1>1. ResyncInit => OwnershipInv
    BY ResyncOwnership
<1>2. OwnershipInv /\ [ResyncNext]_vars => OwnershipInv'
    BY ResyncOwnership
<1> QED BY <1>1, <1>2, OwnershipInvSound, PTL DEF ResyncSpec

\* A Namespace of somebody else's that appeared during a gap is not taken over.
THEOREM GapsLeaveForeignAlone ==
    ASSUME EveryNameTaken
    PROVE  ResyncSpec => ForeignUntouched
<1>1. TypeOK /\ [ResyncNext]_vars =>
        [\A n \in Namespace :
           ns[n] # None /\ ns[n].ctrl = Foreign /\ ns'[n] # None
             => ns'[n].ctrl = Foreign /\ (ns'[n].labelled => ns[n].labelled)]_vars
    <2>1. Relist \/ Resync => UNCHANGED ns
        BY DEF Relist, RelistNamespaces, RelistChildren, Resync, api
    <2> QED BY <2>1, ForeignStep, ResyncSteps
<1> QED BY <1>1, GapsKeepTypes, PTL DEF ResyncSpec, ForeignUntouched

-----------------------------------------------------------------------------
(* What a gap breaks is Rest: a Tenant may be left behind.  What it leaves   *)
(* intact is enough for a resync to set it right.                            *)

Copied == pc # "idle" /\ cur \notin queue => snap = seenTenant[cur]

HeardInv == TypeOK /\ Lag /\ Copied

\* A step that writes, or lets go of the work, and leaves the caches alone.
Writing ==
    \/ EnsureNamespace \/ EnsureResourceQuota \/ EnsureNetworkPolicy \/ LinkTenant
    \/ Kubernetes
    \/ Disruption /\ ~RestartManager

\* What is written leaves events.
LEMMA WritingSteps == ASSUME TypeOK, Writing PROVE NsStep /\ ChildStep /\ UNCHANGED cache
<1>1. pc # "idle" => NsOf[cur] \in Namespace
    BY TenantKeys DEF TypeOK
<1>2. CASE EnsureNamespace \/ LinkTenant
    <2>1. (\E n \in Namespace : \E o : PutNs(n, o)) \/ UNCHANGED sameNs
        BY <1>1, <1>2 DEF EnsureNamespace, LinkTenant
    <2>2. UNCHANGED sameChild /\ UNCHANGED cache
        BY <1>2 DEF EnsureNamespace, LinkTenant
    <2> QED BY <2>1, <2>2, PutNsStep, PutChildStep
<1>3. ASSUME NEW k \in Kind, NEW next \in {"netpol", "link"}, EnsureChild(k, next)
      PROVE  NsStep /\ ChildStep /\ UNCHANGED cache
    <2>0. pc # "idle"
        BY <1>3 DEF EnsureChild, Kind
    <2>1. (\E j \in Kind, n \in Namespace : \E o : PutChild(j, n, o)) \/ UNCHANGED sameChild
        BY <1>1, <1>3, <2>0 DEF EnsureChild
    <2>2. UNCHANGED sameNs /\ UNCHANGED cache
        BY <1>3 DEF EnsureChild
    <2> QED BY <2>1, <2>2, PutNsStep, PutChildStep
<1>4. CASE Kubernetes
    <2>1. (\E n \in Namespace : \E o : PutNs(n, o)) \/ UNCHANGED sameNs
        BY <1>4 DEF Kubernetes, GCTenant, GCNamespace, FinalizeNamespace, GCChild,
                    EmptyNamespace, sameNs, wake
    <2>2. (\E k \in Kind, n \in Namespace : \E o : PutChild(k, n, o)) \/ UNCHANGED sameChild
        BY <1>4 DEF Kubernetes, GCTenant, GCNamespace, FinalizeNamespace, GCChild,
                    EmptyNamespace, sameChild, wake
    <2>3. UNCHANGED cache
        BY <1>4 DEF Kubernetes, GCTenant, GCNamespace, FinalizeNamespace, GCChild, EmptyNamespace
    <2> QED BY <2>1, <2>2, <2>3, PutNsStep, PutChildStep
<1>5. CASE Disruption /\ ~RestartManager
    <2>1. (\E n \in Namespace : \E o : PutNs(n, o)) \/ UNCHANGED sameNs
        BY <1>5 DEF Disruption, CreateTenant, DeleteTenant, EditTenant, CreateNamespace,
                    DeleteNamespace, StripLabel, DriftChild, DeleteChild, ApiError,
                    sameNs, wake, api
    <2>2. (\E k \in Kind, n \in Namespace : \E o : PutChild(k, n, o)) \/ UNCHANGED sameChild
        BY <1>5 DEF Disruption, CreateTenant, DeleteTenant, EditTenant, CreateNamespace,
                    DeleteNamespace, StripLabel, DriftChild, DeleteChild, ApiError,
                    sameChild, wake, api
    <2>3. UNCHANGED cache
        BY <1>5 DEF Disruption, CreateTenant, DeleteTenant, EditTenant, CreateNamespace,
                    DeleteNamespace, StripLabel, DriftChild, DeleteChild, ApiError
    <2> QED BY <2>1, <2>2, <2>3, PutNsStep, PutChildStep
<1> QED BY <1>2, <1>3, <1>4, <1>5 DEF Writing, EnsureResourceQuota, EnsureNetworkPolicy, Kind

\* The queue loses no Tenant by it, and the worker gets no other one.
LEMMA WritingKeepsCopy == ASSUME TypeOK, Writing, Copied PROVE Copied'
<1>1. UNCHANGED seenTenant
    BY WritingSteps DEF cache
<1>2. ASSUME \/ pc' = "idle"
             \/ pc # "idle" /\ UNCHANGED <<queue, cur, snap>>
             \/ UNCHANGED work
      PROVE  Copied'
    BY <1>1, <1>2 DEF Copied, work
<1>3. CASE EnsureNamespace \/ EnsureResourceQuota \/ EnsureNetworkPolicy \/ LinkTenant
    <2>1. pc # "idle" /\ (Requeue \/ Succeed \/ UNCHANGED <<queue, cur, snap>>)
        BY <1>3 DEF EnsureNamespace, EnsureResourceQuota, EnsureNetworkPolicy, EnsureChild,
                    LinkTenant, GoTo
    <2> QED BY <1>2, <2>1 DEF Requeue, Succeed, Done
<1>4. CASE Kubernetes
    BY <1>2, <1>4 DEF Kubernetes, GCTenant, GCNamespace, FinalizeNamespace, GCChild,
                      EmptyNamespace
<1>5. CASE Disruption /\ ~RestartManager
    BY <1>2, <1>5 DEF Disruption, CreateTenant, DeleteTenant, EditTenant, CreateNamespace,
                      DeleteNamespace, StripLabel, DriftChild, DeleteChild, ApiError, Requeue, Done
<1> QED BY <1>3, <1>4, <1>5 DEF Writing

\* A cache that takes over the newest version is not behind.
LEMMA ListedLag ==
    ASSUME TypeOK, Lag, UNCHANGED <<ns, child>>,
           \A n \in Namespace :
               /\ UNCHANGED <<seenNs[n], wakeNs[n]>> \/ seenNs'[n] = ns[n]
               /\ \A k \in Kind : \/ UNCHANGED <<seenChild[k][n], wakeChild[k][n]>>
                                  \/ seenChild'[k][n] = child[k][n]
    PROVE  Lag'
<1>1. ASSUME NEW n \in Namespace PROVE NsLag(n)'
    BY DEF Lag, NsLag, OwnersOf
<1>2. ASSUME NEW n \in Namespace, NEW k \in Kind PROVE ChildLag(k, n)'
    BY DEF Lag, ChildLag, OwnersOf
<1> QED BY <1>1, <1>2 DEF Lag

LEMMA ListingKeepsHeard ==
    ASSUME HeardInv, TypeOK', Informers \/ RestartManager \/ Relist \/ Resync
    PROVE  HeardInv'
<1>1. TypeOK /\ Lag /\ Copied
    BY DEF HeardInv
<1>2. UNCHANGED <<ns, child>>
    BY DEF Informers, SyncTenant, SyncNs, SyncChild, RestartManager, Relist, RelistNamespaces,
           RelistChildren, Resync, api
<1>3. \A n \in Namespace : UNCHANGED <<seenNs[n], wakeNs[n]>> \/ seenNs'[n] = ns[n]
    <2>1. ASSUME NEW m \in Namespace, SyncNs(m)
          PROVE  \A n \in Namespace : UNCHANGED <<seenNs[n], wakeNs[n]>> \/ seenNs'[n] = ns[n]
        BY <1>1, <2>1 DEF SyncNs, TypeOK, NsMap
    <2> QED BY <2>1 DEF Informers, SyncTenant, SyncChild, RestartManager, Relist,
                        RelistNamespaces, RelistChildren, Resync, cache, wake
<1>4. \A k \in Kind, n \in Namespace : \/ UNCHANGED <<seenChild[k][n], wakeChild[k][n]>>
                                       \/ seenChild'[k][n] = child[k][n]
    <2> DEFINE heard(k, n) == \/ UNCHANGED <<seenChild[k][n], wakeChild[k][n]>>
                              \/ seenChild'[k][n] = child[k][n]
    <2>1. ASSUME NEW j \in Kind, RelistChildren(j)
          PROVE  \A k \in Kind, n \in Namespace : heard(k, n)
        <3>1. seenChild'[j] = child[j] /\ \A k \in Kind \ {j} : UNCHANGED <<seenChild[k], wakeChild[k]>>
            BY <1>1, <2>1 DEF RelistChildren, TypeOK, ChildMap
        <3> QED BY <3>1
    <2>2. ASSUME NEW j \in Kind, NEW m \in Namespace, SyncChild(j, m)
          PROVE  \A k \in Kind, n \in Namespace : heard(k, n)
        BY <1>1, <2>2 DEF SyncChild, TypeOK, ChildMap
    <2> QED BY <2>1, <2>2 DEF Informers, SyncTenant, SyncNs, RestartManager, Relist,
                        RelistNamespaces, Resync, cache, wake
<1>5. Copied'
    <2>1. ASSUME NEW t \in Tenant, SyncTenant(t) PROVE Copied'
        BY <1>1, <2>1 DEF SyncTenant, Copied, TypeOK, TenantMap
    <2>2. CASE RestartManager
        BY <2>2 DEF RestartManager, Done, Copied
    <2>3. ASSUME UNCHANGED <<seenTenant, pc, cur, snap>>, queue \subseteq queue' PROVE Copied'
        BY <1>1, <2>3 DEF Copied
    <2> QED BY <2>1, <2>2, <2>3 DEF Informers, SyncNs, SyncChild, Relist, RelistNamespaces,
                                    RelistChildren, Resync, cache
<1>6. Lag'
    BY <1>1, <1>2, <1>3, <1>4, ListedLag
<1> QED BY <1>5, <1>6 DEF HeardInv

LEMMA ResyncNextHeard == HeardInv /\ [ResyncNext]_vars => HeardInv'
<1> SUFFICES ASSUME HeardInv, [ResyncNext]_vars PROVE HeardInv'
    OBVIOUS
<1>1. TypeOK /\ Lag /\ Copied /\ TypeOK'
    BY ResyncNextType DEF HeardInv
<1>2. CASE Writing
    <2>1. Lag'
        BY <1>1, <1>2, WritingSteps, KeepsLag
    <2> QED BY <1>1, <1>2, <2>1, WritingKeepsCopy DEF HeardInv
<1>3. ASSUME NEW t \in Tenant, ReconcileGet(t) PROVE HeardInv'
    <2>1. Lag'
        BY <1>1, <1>3 DEF ReconcileGet, Lag, NsLag, ChildLag, OwnersOf, api, cache, wake
    <2>2. Copied'
        BY <1>1, <1>3 DEF ReconcileGet, Copied, cache
    <2> QED BY <1>1, <2>1, <2>2 DEF HeardInv
<1>4. CASE UNCHANGED vars
    BY <1>1, <1>4 DEF HeardInv, Lag, NsLag, ChildLag, OwnersOf, Copied, vars, api, cache, wake, work
<1> QED BY <1>1, <1>2, <1>3, <1>4, ListingKeepsHeard, ResyncSteps
        DEF Next, Reconcile, Writing

LEMMA ResyncHeals == ASSUME HeardInv, Resync PROVE WakeupInv'
<1>1. TypeOK /\ Copied /\ TypeOK' /\ Lag'
    BY GapType, ListingKeepsHeard DEF HeardInv
<1>2. /\ UNCHANGED <<seenTenant, pc, cur, snap>> /\ queue \subseteq queue'
      /\ \A t \in Tenant : seenTenant[t] # None => t \in queue'
    BY DEF Resync, cache
<1>3. Progress'
    <2>1. pc # "idle" /\ cur \notin queue => seenTenant[cur] # None
        BY <1>1, NoneIsNoObject DEF Copied, TypeOK
    <2> QED BY <1>1, <1>2, <2>1 DEF Progress, TypeOK
<1>4. Rest'
    BY <1>2 DEF Rest
<1> QED BY <1>1, <1>3, <1>4 DEF WakeupInv

LEMMA ResyncInitHeard == EveryNameTaken /\ ResyncInit => WakeupInv /\ HeardInv
BY ResyncInitType
   DEF ResyncInit, WakeupInv, HeardInv, Lag, NsLag, ChildLag, Progress, Rest, Copied

\* What a gap in a watch makes the controller miss, the next resync makes good:
\* WakeupInv, which excludes a lost wake-up, holds until the first gap and from
\* each resync until the next gap, whatever else happens and whatever was missed
\* before.
THEOREM ResyncMakesGood ==
    ASSUME EveryNameTaken
    PROVE  ResyncSpec => /\ WakeupInv /\ [](WakeupInv => NoLostWakeup)
                         /\ [][/\ Resync => WakeupInv'
                               /\ WakeupInv /\ ~Relist => WakeupInv']_vars
<1>1. ResyncInit => HeardInv /\ WakeupInv
    BY ResyncInitHeard
<1>2. WakeupInv => NoLostWakeup
    BY WakeupEnough
<1>3. HeardInv /\ [ResyncNext]_vars =>
        [/\ Resync => WakeupInv'
         /\ WakeupInv /\ ~Relist => WakeupInv']_vars
    <2>1. Resync /\ HeardInv => WakeupInv'
        BY ResyncHeals
    <2>2. WakeupInv /\ [Next]_vars => WakeupInv'
        BY NextWakeup
    <2> QED BY <2>1, <2>2, ResyncSteps
<1> QED BY <1>1, <1>2, <1>3, ResyncNextHeard, PTL DEF ResyncSpec
=============================================================================
