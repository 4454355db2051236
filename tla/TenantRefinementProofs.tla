----------------------- MODULE TenantRefinementProofs -----------------------
(***************************************************************************)
(* With a cluster-scoped CRD, TenantController implements TenantLifecycle, *)
(* for any Tenants, Namespaces, UIDs and number of disruptions: the first  *)
(* state maps to the abstract one's, and every step to an abstract step or *)
(* to none.                                                                *)
(***************************************************************************)
EXTENDS TenantRefinement, TenantControllerProofs

-----------------------------------------------------------------------------
(* What the refinement needs to know of the past.  A provisioned Tenant must *)
(* stay so while a Reconcile works from old copies: the worker cannot hold a *)
(* copy of an earlier Tenant of that name once the present one owns anything, *)
(* and its cache cannot lag behind the Namespace the Tenant is linked to.    *)

Nowhere(own) ==
    \A n \in Namespace :
        /\ ns[n] # None => ns[n].ctrl # own
        /\ \A k \in Kind : child[k][n] # None => child[k][n].ctrl # own

\* Nothing is controlled by an incarnation of t that the manager has not seen, or
\* while the worker still runs for an earlier one.
Incarnation(t) ==
    tenant[t] # None =>
        LET u == tenant[t].uid IN
        /\ seenTenant[t] = None \/ seenTenant[t].uid # u =>
              Nowhere(Owner(t, u)) /\ (cur = t => snap.uid # u)
        /\ cur = t /\ snap.uid # u => Nowhere(Owner(t, u))

LinkSeen(t) ==
    LET n == NsOf[t] IN
    tenant[t] # None /\ ns[n] # None /\ tenant[t].nsRef = ns[n].uid
      => seenNs[n] # None /\ seenNs[n].uid = ns[n].uid

Past == \A t \in Tenant : Incarnation(t) /\ LinkSeen(t)

RefinementInv == OwnershipInv /\ Past

\* What a write does: a Namespace keeps its UID or has a new one, an object has
\* its controller of before or the worker's Tenant, a Tenant is the one of before.
UidStep ==
    \A n \in Namespace : ns'[n] # None =>
        (ns[n] # None /\ ns'[n].uid = ns[n].uid) \/ ns'[n].uid \notin NsUidsInUse
OwnerStep ==
    \A own \in [tenant : Tenant, uid : TenantUid] :
        \/ pc # "idle" /\ own = Owner(cur, snap.uid)
        \/ Nowhere(own) => Nowhere(own)'
TenantStep ==
    \A t \in Tenant : tenant'[t] # None =>
        /\ tenant[t] # None /\ tenant'[t].uid = tenant[t].uid
        /\ \/ tenant'[t].nsRef = tenant[t].nsRef
           \/ seenNs[NsOf[t]] # None /\ tenant'[t].nsRef = seenNs[NsOf[t]].uid

LEMMA WriteKeepsPast ==
    ASSUME TypeOK, Past, UidStep, OwnerStep, TenantStep, UNCHANGED <<seenTenant, seenNs>>,
           UNCHANGED <<cur, snap>> \/ cur' = None
    PROVE  Past'
<1> SUFFICES ASSUME NEW t \in Tenant PROVE Incarnation(t)' /\ LinkSeen(t)'
    BY DEF Past
<1>1. Incarnation(t) /\ LinkSeen(t) /\ NsOf[t] \in Namespace
    BY TenantKeys DEF Past
<1>2. LinkSeen(t)'
    <2> SUFFICES ASSUME tenant'[t] # None, ns'[NsOf[t]] # None,
                        tenant'[t].nsRef = ns'[NsOf[t]].uid
                 PROVE  seenNs[NsOf[t]] # None /\ seenNs[NsOf[t]].uid = ns'[NsOf[t]].uid
        BY DEF LinkSeen
    <2>1. CASE tenant'[t].nsRef # tenant[t].nsRef
        BY <2>1 DEF TenantStep
    <2>2. CASE tenant'[t].nsRef = tenant[t].nsRef
        <3>1. tenant[t] # None
            BY DEF TenantStep
        <3>2. tenant[t].nsRef \in NsUidsInUse
            BY <3>1 DEF NsUidsInUse
        <3>3. ns[NsOf[t]] # None /\ ns'[NsOf[t]].uid = ns[NsOf[t]].uid
            BY <1>1, <2>2, <3>2 DEF UidStep
        <3> QED BY <1>1, <2>2, <3>1, <3>3 DEF LinkSeen
    <2> QED BY <2>1, <2>2
<1>3. Incarnation(t)'
    <2> SUFFICES ASSUME tenant'[t] # None PROVE Incarnation(t)'
        BY DEF Incarnation
    <2>1. tenant[t] # None /\ tenant[t].uid \in TenantUid /\ tenant'[t].uid = tenant[t].uid
        BY DEF TenantStep, TypeOK, TenantMap, TenantObj
    <2> SUFFICES ASSUME NEW u \in TenantUid, tenant[t].uid = u PROVE Incarnation(t)'
        BY <2>1
    <2> DEFINE own == Owner(t, u)
    <2>2. own \in [tenant : Tenant, uid : TenantUid]
        BY DEF Owner
    <2>3. cur' = t => cur = t /\ snap' = snap
        BY Sentinels
    <2>4. CASE Nowhere(own) => Nowhere(own)'
        BY <1>1, <2>1, <2>3, <2>4 DEF Incarnation, Nowhere
    <2>5. CASE pc # "idle" /\ own = Owner(cur, snap.uid)
        <3>1. cur = t /\ snap.uid = u
            BY <2>5 DEF Owner
        <3>2. seenTenant[t] # None /\ seenTenant[t].uid = u
            BY <1>1, <2>1, <3>1 DEF Incarnation
        <3> QED BY <2>1, <2>3, <3>1, <3>2 DEF Incarnation
    <2> QED BY <2>2, <2>4, <2>5 DEF OwnerStep
<1> QED BY <1>2, <1>3

LEMMA PutNsPast ==
    ASSUME TypeOK, NEW n \in Namespace, NEW o, PutNs(n, o), UNCHANGED child,
           o # None =>
             /\ (ns[n] # None /\ o.uid = ns[n].uid) \/ o.uid \notin NsUidsInUse
             /\ \/ o.ctrl \in {None, Foreign}
                \/ ns[n] # None /\ o.ctrl = ns[n].ctrl
                \/ pc # "idle" /\ o.ctrl = Owner(cur, snap.uid)
    PROVE  UidStep /\ OwnerStep
<1>1. \A m \in Namespace : ns'[m] = IF m = n THEN o ELSE ns[m]
    BY DEF PutNs, TypeOK, NsMap
<1>2. UidStep
    BY <1>1 DEF UidStep
<1>3. OwnerStep
    <2> SUFFICES ASSUME NEW own \in [tenant : Tenant, uid : TenantUid], Nowhere(own),
                        ~(pc # "idle" /\ own = Owner(cur, snap.uid))
                 PROVE  Nowhere(own)'
        BY DEF OwnerStep
    <2>1. own \notin {None, Foreign}
        BY Sentinels
    <2> QED BY <1>1, <2>1 DEF Nowhere
<1> QED BY <1>2, <1>3

LEMMA PutChildPast ==
    ASSUME TypeOK, NEW k \in Kind, NEW n \in Namespace, NEW o, PutChild(k, n, o), UNCHANGED ns,
           o # None => \/ child[k][n] # None /\ o.ctrl = child[k][n].ctrl
                       \/ pc # "idle" /\ o.ctrl = Owner(cur, snap.uid)
    PROVE  UidStep /\ OwnerStep
<1>1. \A j \in Kind, m \in Namespace :
        child'[j][m] = IF j = k /\ m = n THEN o ELSE child[j][m]
    BY DEF PutChild, TypeOK, ChildMap
<1>2. UidStep
    BY DEF UidStep
<1>3. OwnerStep
    BY <1>1 DEF OwnerStep, Nowhere
<1> QED BY <1>2, <1>3

LEMMA NothingPut == UNCHANGED <<ns, child>> => UidStep /\ OwnerStep
BY DEF UidStep, OwnerStep, Nowhere

LEMMA SameTenants == UNCHANGED tenant => TenantStep
BY DEF TenantStep

LEMMA InitPast == Init => Past
BY DEF Init, Past, Incarnation, LinkSeen

LEMMA EnsurePast ==
    ASSUME TypeOK, Past, EnsureNamespace \/ EnsureResourceQuota \/ EnsureNetworkPolicy
    PROVE  Past'
<1> DEFINE n == NsOf[cur]
<1>1. cur \in Tenant /\ snap \in TenantObj /\ pc # "idle" /\ n \in Namespace
    BY TenantKeys
       DEF EnsureNamespace, EnsureResourceQuota, EnsureNetworkPolicy, EnsureChild, TypeOK
<1>2. ASSUME UidStep /\ OwnerStep, UNCHANGED <<tenant, cache>>, GoTo("quota") \/ GoTo("netpol")
                                                        \/ GoTo("link") \/ Requeue
      PROVE  Past'
    <2>1. UNCHANGED <<cur, snap>> \/ cur' = None
        BY <1>2 DEF GoTo, Requeue, Done
    <2> QED BY <1>2, <2>1, SameTenants, WriteKeepsPast DEF cache
<1>3. CASE EnsureNamespace
    <2> DEFINE seen == seenNs[n]
    <2>1. UNCHANGED <<tenant, child, cache>> /\ (GoTo("quota") \/ Requeue)
        BY <1>3 DEF EnsureNamespace, sameChild
    <2>2. UidStep /\ OwnerStep
        <3>1. ASSUME NEW u \in NsUid, Least(u, NsUid, NsUidsInUse),
                     PutNs(n, [uid |-> u, phase |-> "Active", labelled |-> TRUE,
                               ctrl |-> Owner(cur, snap.uid)])
              PROVE  UidStep /\ OwnerStep
            <4> DEFINE o == [uid |-> u, phase |-> "Active", labelled |-> TRUE,
                             ctrl |-> Owner(cur, snap.uid)]
            <4>1. o.uid \notin NsUidsInUse /\ o.ctrl = Owner(cur, snap.uid)
                BY <3>1 DEF Least
            <4>2. PutNs(n, o)
                BY <3>1
            <4> HIDE DEF o
            <4> QED BY <1>1, <2>1, <4>1, <4>2, PutNsPast
        <3>2. ASSUME seen # None, ns[n] = seen, PutNs(n, WantedNs(seen))
              PROVE  UidStep /\ OwnerStep
            <4>1. seen \in NsObj
                BY <1>1, <3>2 DEF TypeOK, NsMap
            <4>2. WantedNs(seen).uid = seen.uid /\ WantedNs(seen).ctrl = Owner(cur, snap.uid)
                BY <4>1 DEF WantedNs, NsObj
            <4> QED BY <1>1, <2>1, <3>2, <4>2, PutNsPast
        <3>3. CASE UNCHANGED sameNs
            BY <2>1, <3>3, NothingPut DEF sameNs
        <3> QED BY <1>3, <3>1, <3>2, <3>3 DEF EnsureNamespace
    <2> QED BY <1>2, <2>1, <2>2
<1>4. ASSUME NEW k \in Kind, NEW next \in {"netpol", "link"}, EnsureChild(k, next) PROVE Past'
    <2>1. UNCHANGED <<tenant, ns, cache>> /\ (GoTo(next) \/ Requeue)
        BY <1>4 DEF EnsureChild, sameNs
    <2>2. UidStep /\ OwnerStep
        <3>1. CASE UNCHANGED sameChild
            BY <2>1, <3>1, NothingPut DEF sameChild
        <3>2. CASE PutChild(k, n, [spec |-> "desired", ctrl |-> Owner(cur, snap.uid)])
            BY <1>1, <2>1, <3>2, PutChildPast
        <3> QED BY <1>4, <3>1, <3>2 DEF EnsureChild
    <2> QED BY <1>2, <2>1, <2>2
<1> QED BY <1>3, <1>4 DEF EnsureResourceQuota, EnsureNetworkPolicy, Kind

LEMMA LinkPast == ASSUME TypeOK, Past, LinkTenant PROVE Past'
<1> DEFINE n == NsOf[cur]
           seen == seenNs[n]
<1>1. cur \in Tenant /\ snap \in TenantObj /\ pc # "idle" /\ n \in Namespace
    BY TenantKeys DEF LinkTenant, TypeOK
<1>2. UNCHANGED <<child, cache>> /\ cur' = None
    BY DEF LinkTenant, Succeed, Requeue, Done, sameChild
<1>3. UidStep /\ OwnerStep
    <2>1. ASSUME NEW u \in NsUid, Least(u, NsUid, NsUidsInUse), PutNs(n, PlainNs(u, None))
          PROVE  UidStep /\ OwnerStep
        BY <1>1, <1>2, <2>1, PutNsPast DEF PlainNs, Least
    <2>2. CASE UNCHANGED sameNs
        BY <1>2, <2>2, NothingPut DEF sameNs
    <2> QED BY <2>1, <2>2 DEF LinkTenant
<1>4. TenantStep
    <2>1. ASSUME seen # None, tenant[cur] = snap,
                 tenant' = [tenant EXCEPT ![cur] = [snap EXCEPT !.nsRef = seen.uid]]
          PROVE  TenantStep
        <3> DEFINE o == [snap EXCEPT !.nsRef = seen.uid]
        <3>1. o.uid = snap.uid /\ o.nsRef = seen.uid
            BY <1>1 DEF TenantObj
        <3>2. \A t \in Tenant : tenant'[t] = IF t = cur THEN o ELSE tenant[t]
            BY <1>1, <2>1 DEF TypeOK, TenantMap
        <3>3. snap # None
            BY <1>1, NoneIsNoObject
        <3> HIDE DEF o
        <3> QED BY <2>1, <3>1, <3>2, <3>3 DEF TenantStep
    <2>2. CASE UNCHANGED tenant
        BY <2>2, SameTenants
    <2> QED BY <2>1, <2>2 DEF LinkTenant
<1> QED BY <1>2, <1>3, <1>4, WriteKeepsPast DEF cache

LEMMA ManagerPast ==
    ASSUME TypeOK, Past, (\E t \in Tenant : ReconcileGet(t)) \/ Informers \/ RestartManager
    PROVE  Past'
<1>1. UNCHANGED <<tenant, ns, child>>
    BY DEF ReconcileGet, Informers, SyncTenant, SyncNs, SyncChild, RestartManager, api
<1>2. \A own : Nowhere(own)' <=> Nowhere(own)
    BY <1>1 DEF Nowhere
<1>3. ASSUME UNCHANGED <<seenTenant, cur, snap>> PROVE \A t \in Tenant : Incarnation(t)'
    BY <1>1, <1>3 DEF Past, Incarnation, Nowhere, Owner
<1>4. ASSUME UNCHANGED seenNs PROVE \A t \in Tenant : LinkSeen(t)'
    BY <1>1, <1>4 DEF Past, LinkSeen
<1>5. ASSUME NEW t \in Tenant, ReconcileGet(t) PROVE Past'
    <2>1. ASSUME NEW s \in Tenant PROVE Incarnation(s)'
        <3>1. Incarnation(s)
            BY DEF Past
        <3>2. UNCHANGED seenTenant
            BY <1>5 DEF ReconcileGet, cache
        <3>3. CASE UNCHANGED <<cur, snap>>
            BY <1>3, <3>2, <3>3
        <3>4. CASE cur' = t /\ snap' = seenTenant[t] /\ seenTenant[t] # None
            BY <1>1, <3>1, <3>2, <3>4 DEF Incarnation, Nowhere, Owner
        <3> QED BY <1>5, <3>3, <3>4 DEF ReconcileGet
    <2> QED BY <1>4, <1>5, <2>1 DEF Past, ReconcileGet, cache
<1>6. ASSUME NEW t \in Tenant, SyncTenant(t) PROVE Past'
    <2>1. ASSUME NEW s \in Tenant PROVE Incarnation(s)'
        <3>1. Incarnation(s) /\ UNCHANGED <<cur, snap>>
            BY <1>6 DEF Past, SyncTenant
        <3>2. seenTenant'[s] = IF s = t THEN tenant[s] ELSE seenTenant[s]
            BY <1>6 DEF SyncTenant, TypeOK, TenantMap
        <3> QED BY <1>1, <3>1, <3>2 DEF Incarnation, Nowhere, Owner
    <2> QED BY <1>4, <1>6, <2>1 DEF Past, SyncTenant
<1>7. ASSUME NEW n \in Namespace, SyncNs(n) PROVE Past'
    <2>1. \A m \in Namespace : seenNs'[m] = IF m = n THEN ns[n] ELSE seenNs[m]
        BY <1>7 DEF SyncNs, TypeOK, NsMap
    <2>2. \A t \in Tenant : LinkSeen(t)'
        BY <1>1, <2>1, TenantKeys DEF Past, LinkSeen
    <2> QED BY <1>3, <1>7, <2>2 DEF Past, SyncNs
<1>8. ASSUME NEW n \in Namespace, NEW k \in Kind, SyncChild(k, n) PROVE Past'
    BY <1>3, <1>4, <1>8 DEF Past, SyncChild
<1>9. ASSUME RestartManager PROVE Past'
    <2>1. \A t \in Tenant : Incarnation(t)'
        BY <1>1, <1>9, Sentinels DEF RestartManager, Done, Incarnation
    <2>2. \A t \in Tenant : LinkSeen(t)'
        BY <1>1, <1>9, TenantKeys DEF RestartManager, LinkSeen
    <2> QED BY <2>1, <2>2 DEF Past
<1> QED BY <1>5, <1>6, <1>7, <1>8, <1>9 DEF Informers

LEMMA KubernetesPast == ASSUME TypeOK, Past, Kubernetes PROVE Past'
<1>1. UNCHANGED <<cache, cur, snap>>
    BY DEF Kubernetes, GCTenant, GCNamespace, FinalizeNamespace, GCChild, EmptyNamespace, work
<1>2. ASSUME NEW t \in Tenant, GCTenant(t) PROVE Past'
    <2>1. TenantStep
        BY <1>2 DEF GCTenant, TypeOK, TenantMap, TenantStep
    <2>2. UidStep /\ OwnerStep
        BY <1>2, NothingPut DEF GCTenant
    <2> QED BY <1>1, <2>1, <2>2, WriteKeepsPast DEF cache
<1>3. ASSUME UidStep /\ OwnerStep, UNCHANGED tenant PROVE Past'
    BY <1>1, <1>3, SameTenants, WriteKeepsPast DEF cache
<1>4. ASSUME NEW n \in Namespace, GCNamespace(n) PROVE Past'
    <2>1. ns[n] # None /\ ns[n] \in NsObj
        BY <1>4 DEF GCNamespace, Orphaned, TypeOK, NsMap
    <2>2. LET o == [ns[n] EXCEPT !.phase = "Terminating"] IN o.uid = ns[n].uid /\ o.ctrl = ns[n].ctrl
        BY <2>1 DEF NsObj
    <2> QED BY <1>3, <1>4, <2>1, <2>2, PutNsPast DEF GCNamespace, sameChild
<1>5. ASSUME NEW n \in Namespace, FinalizeNamespace(n) PROVE Past'
    BY <1>3, <1>5, PutNsPast DEF FinalizeNamespace, sameChild
<1>6. ASSUME NEW n \in Namespace, NEW k \in Kind, GCChild(k, n) \/ EmptyNamespace(k, n)
      PROVE  Past'
    BY <1>3, <1>6, PutChildPast DEF GCChild, EmptyNamespace, sameNs
<1> QED BY <1>2, <1>4, <1>5, <1>6 DEF Kubernetes

LEMMA CtrlUidsHas ==
    ASSUME NEW objects, NEW o \in objects, o # None, o.ctrl \notin {None, Foreign}
    PROVE  o.ctrl.uid \in CtrlUids(objects)
BY DEF CtrlUids

LEMMA CreatePast == ASSUME TypeOK, Past, NEW t \in Tenant, CreateTenant(t) PROVE Past'
<1>1. PICK i \in Isolation, u \in TenantUid :
        /\ u \notin TenantUidsInUse
        /\ tenant' = [tenant EXCEPT ![t] = [uid |-> u, isolation |-> i, nsRef |-> None]]
    BY DEF CreateTenant, Least
<1>2. UNCHANGED <<ns, child, seenTenant, seenNs, cur, snap>>
    BY DEF CreateTenant, cache, work
<1>3. \A s \in Tenant :
        tenant'[s] = IF s = t THEN [uid |-> u, isolation |-> i, nsRef |-> None] ELSE tenant[s]
    BY <1>1 DEF TypeOK, TenantMap
<1>4. seenTenant[t] # None => seenTenant[t].uid # u
    BY <1>1 DEF TenantUidsInUse
<1>5. cur = t => snap.uid # u
    <2> SUFFICES ASSUME cur = t PROVE snap.uid # u
        OBVIOUS
    <2>1. snap \in TenantObj
        BY Sentinels DEF TypeOK
    <2> QED BY <1>1, <2>1, NoneIsNoObject DEF TenantUidsInUse
<1>6. Nowhere(Owner(t, u))
    <2>0. Owner(t, u) \notin {None, Foreign} /\ Owner(t, u).uid = u
        BY Sentinels DEF Owner
    <2>1. ASSUME NEW n \in Namespace,
                 NEW o \in {ns[n], seenNs[n]} \cup {child[k][n] : k \in Kind}
                              \cup {seenChild[k][n] : k \in Kind},
                 o # None
          PROVE  o.ctrl # Owner(t, u)
        <3>1. o.ctrl = Owner(t, u) =>
                u \in CtrlUids({ns[n], seenNs[n]} \cup {child[k][n] : k \in Kind}
                                \cup {seenChild[k][n] : k \in Kind})
            BY <2>0, <2>1, CtrlUidsHas
        <3>2. CtrlUids({ns[n], seenNs[n]} \cup {child[k][n] : k \in Kind}
                       \cup {seenChild[k][n] : k \in Kind}) \subseteq TenantUidsInUse
            BY DEF TenantUidsInUse
        <3> QED BY <1>1, <3>1, <3>2
    <2> QED BY <2>1 DEF Nowhere
<1>7. ASSUME NEW s \in Tenant PROVE Incarnation(s)' /\ LinkSeen(s)'
    <2>1. CASE s # t
        BY <1>2, <1>3, <2>1 DEF Past, Incarnation, LinkSeen, Nowhere
    <2>2. CASE s = t
        <3>1. tenant'[t].uid = u /\ tenant'[t].nsRef = None
            BY <1>3
        <3>2. Incarnation(t)'
            BY <1>2, <1>4, <1>5, <1>6, <3>1 DEF Incarnation, Nowhere
        <3>3. LinkSeen(t)'
            <4>1. NsOf[t] \in Namespace
                BY TenantKeys
            <4>2. ns[NsOf[t]] # None => ns[NsOf[t]].uid # None
                BY <4>1, Sentinels DEF TypeOK, NsMap, NsObj
            <4> QED BY <1>2, <3>1, <4>2 DEF LinkSeen
        <3> QED BY <2>2, <3>2, <3>3
    <2> QED BY <2>1, <2>2
<1> QED BY <1>7 DEF Past

LEMMA DisruptionPast == ASSUME TypeOK, Past, Disruption PROVE Past'
<1>1. ASSUME UNCHANGED <<cache, work>>, UidStep, OwnerStep, TenantStep PROVE Past'
    BY <1>1, WriteKeepsPast DEF cache, work
<1>2. ASSUME NEW t \in Tenant, CreateTenant(t) PROVE Past'
    BY <1>2, CreatePast
<1>3. ASSUME NEW t \in Tenant, DeleteTenant(t) PROVE Past'
    <2>1. TenantStep
        BY <1>3 DEF DeleteTenant, TypeOK, TenantMap, TenantStep
    <2> QED BY <1>1, <1>3, <2>1, NothingPut DEF DeleteTenant
<1>4. ASSUME NEW t \in Tenant, EditTenant(t) PROVE Past'
    <2>1. tenant[t] # None /\ tenant[t] \in TenantObj
        BY <1>4 DEF EditTenant, TypeOK, TenantMap
    <2>2. PICK i \in Isolation : tenant' = [tenant EXCEPT ![t] = [tenant[t] EXCEPT !.isolation = i]]
        BY <1>4 DEF EditTenant
    <2> DEFINE o == [tenant[t] EXCEPT !.isolation = i]
    <2>3. o.uid = tenant[t].uid /\ o.nsRef = tenant[t].nsRef
        BY <2>1 DEF TenantObj
    <2>4. \A s \in Tenant : tenant'[s] = IF s = t THEN o ELSE tenant[s]
        BY <2>2 DEF TypeOK, TenantMap
    <2> HIDE DEF o
    <2>5. TenantStep
        BY <2>1, <2>3, <2>4 DEF TenantStep
    <2> QED BY <1>1, <1>4, <2>5, NothingPut DEF EditTenant
<1>5. ASSUME NEW n \in Namespace, CreateNamespace(n) PROVE Past'
    <2>1. PICK c \in Intruders, u \in NsUid : u \notin NsUidsInUse /\ PutNs(n, PlainNs(u, c))
        BY <1>5 DEF CreateNamespace, Least
    <2>2. UidStep /\ OwnerStep
        BY <1>5, <2>1, Bounds, PutNsPast DEF CreateNamespace, sameChild, PlainNs
    <2> QED BY <1>1, <1>5, <2>2, SameTenants DEF CreateNamespace
<1>6. ASSUME NEW n \in Namespace, DeleteNamespace(n) \/ StripLabel(n) PROVE Past'
    <2>1. ns[n] # None /\ ns[n] \in NsObj
        BY <1>6 DEF DeleteNamespace, StripLabel, TypeOK, NsMap
    <2> DEFINE marked == [ns[n] EXCEPT !.phase = "Terminating"]
               stripped == [ns[n] EXCEPT !.labelled = FALSE]
    <2>2. /\ marked.uid = ns[n].uid /\ marked.ctrl = ns[n].ctrl
          /\ stripped.uid = ns[n].uid /\ stripped.ctrl = ns[n].ctrl
        BY <2>1 DEF NsObj
    <2>3. UNCHANGED <<tenant, sameChild, cache, work>> /\ (PutNs(n, marked) \/ PutNs(n, stripped))
        BY <1>6 DEF DeleteNamespace, StripLabel
    <2> HIDE DEF marked, stripped
    <2>4. UidStep /\ OwnerStep
        BY <2>1, <2>2, <2>3, PutNsPast DEF sameChild
    <2> QED BY <1>1, <2>3, <2>4, SameTenants
<1>7. ASSUME NEW n \in Namespace, NEW k \in Kind, DriftChild(k, n) \/ DeleteChild(k, n)
      PROVE  Past'
    <2>1. child[k][n] # None /\ child[k][n] \in ChildObj
        BY <1>7 DEF DriftChild, DeleteChild, TypeOK, ChildMap
    <2> DEFINE o == [child[k][n] EXCEPT !.spec = "drifted"]
    <2>2. o.ctrl = child[k][n].ctrl
        BY <2>1 DEF ChildObj
    <2>3. UNCHANGED <<tenant, sameNs, cache, work>> /\ (PutChild(k, n, o) \/ PutChild(k, n, None))
        BY <1>7 DEF DriftChild, DeleteChild
    <2> HIDE DEF o
    <2>4. UidStep /\ OwnerStep
        BY <2>1, <2>2, <2>3, PutChildPast DEF sameNs
    <2> QED BY <1>1, <2>3, <2>4, SameTenants
<1>8. ASSUME ApiError PROVE Past'
    <2>1. UNCHANGED <<tenant, ns, child, seenTenant, seenNs>> /\ cur' = None
        BY <1>8 DEF ApiError, Requeue, Done, api, cache
    <2> QED BY <2>1, NothingPut, SameTenants, WriteKeepsPast
<1> QED BY <1>2, <1>3, <1>4, <1>5, <1>6, <1>7, <1>8, ManagerPast DEF Disruption

LEMMA NextRefinement == RefinementInv /\ [Next]_vars => RefinementInv'
<1> SUFFICES ASSUME RefinementInv, [Next]_vars PROVE RefinementInv'
    OBVIOUS
<1>1. TypeOK /\ Past /\ OwnershipInv'
    BY NextOwnership DEF RefinementInv, OwnershipInv
<1>2. CASE UNCHANGED vars
    <2>1. UNCHANGED <<tenant, ns, child, seenTenant, seenNs, cur, snap>>
        BY <1>2 DEF vars, api, cache, work
    <2> QED BY <1>1, <2>1, NothingPut, SameTenants, WriteKeepsPast DEF RefinementInv
<1> QED BY <1>1, <1>2, EnsurePast, LinkPast, ManagerPast, KubernetesPast, DisruptionPast
        DEF RefinementInv, Next, Reconcile

-----------------------------------------------------------------------------
(* The stages.  Ownership ties what a Tenant's stage depends on to its own  *)
(* Namespace, and with a cluster-scoped CRD a Namespace to one Tenant.     *)

\* t, or a former Tenant of its name, controls something of its Namespace.
HoldsHere(t) ==
    \/ t \in OwnersOf(ns[NsOf[t]])
    \/ \E k \in Kind : t \in OwnersOf(child[k][NsOf[t]])

LEMMA HoldsIsHere ==
    ASSUME NEW t \in Tenant
    PROVE  /\ OwnershipInv => (Holds(t) <=> HoldsHere(t))
           /\ OwnershipInv' => (Holds(t)' <=> HoldsHere(t)')
<1>1. OwnershipInv => (Holds(t) <=> HoldsHere(t))
    BY TenantKeys DEF OwnershipInv, NsSound, ChildSound, Sound, Holds, HoldsHere
<1>2. OwnershipInv' => (Holds(t)' <=> HoldsHere(t)')
    BY TenantKeys DEF OwnershipInv, NsSound, ChildSound, Sound, Holds, HoldsHere, OwnersOf
<1> QED BY <1>1, <1>2

LEMMA SameStage ==
    ASSUME OwnershipInv, OwnershipInv', NEW t \in Tenant,
           tenant'[t] = tenant[t], ns'[NsOf[t]] = ns[NsOf[t]],
           \A k \in Kind : child'[k][NsOf[t]] = child[k][NsOf[t]]
    PROVE  StageOf(t)' = StageOf(t)
<1>1. HoldsHere(t)' <=> HoldsHere(t)
    BY DEF HoldsHere, OwnersOf
<1>2. Holds(t)' <=> Holds(t)
    BY <1>1, HoldsIsHere DEF HoldsHere, Holds
<1>3. tenant[t] # None => (Settled(t)' <=> Settled(t))
    BY DEF Settled, Provisioned
<1>4. (Blocked(t)' <=> Blocked(t)) /\ (Doomed(t)' <=> Doomed(t))
    BY DEF Blocked, Doomed, Lives
<1> QED BY <1>2, <1>3, <1>4 DEF StageOf

\* What a step of the platform, and what a disruption, may make of a stage.
Moved(a, b) ==
    \/ a = b
    \/ a = "provisioning" /\ b \in {"provisioned", "leaving", "absent"}
    \/ a = "blocked" /\ b \in {"provisioning", "leaving", "absent"}
    \/ a = "leaving" /\ b = "absent"
    \/ a = "absent" /\ b = "leaving"
Shaken(a, b) == b = "provisioned" => a \in {"provisioning", "provisioned"}

LifecycleStep == [Lifecycle!Next]_(Lifecycle!vars)

LEMMA OneStage ==
    ASSUME NEW t \in Tenant, \A s \in Tenant \ {t} : StageOf(s)' = StageOf(s),
           \/ UNCHANGED disruptions /\ Moved(StageOf(t), StageOf(t)')
           \/ disruptions' = disruptions + 1 /\ Shaken(StageOf(t), StageOf(t)')
    PROVE  LifecycleStep
<1> DEFINE stage == [s \in Tenant |-> StageOf(s)]
           b == StageOf(t)'
<1>1. stage' = [stage EXCEPT ![t] = b] /\ stage[t] = StageOf(t)
    OBVIOUS
<1>2. StageOf(t) \in Lifecycle!Stage /\ b \in Lifecycle!Stage
    BY DEF StageOf, Lifecycle!Stage
<1>3. CASE b = StageOf(t)
    <2>1. UNCHANGED stage
        BY <1>3
    <2> QED BY <2>1 DEF LifecycleStep, Lifecycle!Next, Lifecycle!Disrupt, Lifecycle!vars
<1>4. CASE UNCHANGED disruptions /\ Moved(StageOf(t), b) /\ b # StageOf(t)
    <2>1. \/ Lifecycle!Provision(t) \/ Lifecycle!Unblock(t) \/ Lifecycle!Collect(t)
          \/ Lifecycle!Depart(t) \/ Lifecycle!Straggle(t)
        BY <1>1, <1>4 DEF Moved, Lifecycle!Provision, Lifecycle!Unblock, Lifecycle!Collect,
              Lifecycle!Depart, Lifecycle!Straggle, Lifecycle!Move
    <2> QED BY <2>1 DEF LifecycleStep, Lifecycle!Next
<1>5. CASE disruptions' = disruptions + 1 /\ Shaken(StageOf(t), b) /\ b # StageOf(t)
    <2>1. b = "provisioned" => stage[t] = "provisioning"
        BY <1>1, <1>5 DEF Shaken
    <2>2. Lifecycle!Disrupt
        BY <1>1, <1>2, <1>5, <2>1 DEF Lifecycle!Disrupt
    <2> QED BY <2>2 DEF LifecycleStep, Lifecycle!Next
<1> QED BY <1>3, <1>4, <1>5

LEMMA NoStage ==
    ASSUME \A t \in Tenant : StageOf(t)' = StageOf(t),
           UNCHANGED disruptions \/ disruptions' = disruptions + 1
    PROVE  LifecycleStep
BY DEF LifecycleStep, Lifecycle!Next, Lifecycle!Disrupt, Lifecycle!vars

\* A write to one Tenant.
LEMMA TenantWriteStage ==
    ASSUME OwnershipInv, OwnershipInv', NEW t \in Tenant,
           \A s \in Tenant \ {t} : tenant'[s] = tenant[s], UNCHANGED <<ns, child>>,
           \/ UNCHANGED disruptions /\ Moved(StageOf(t), StageOf(t)')
           \/ disruptions' = disruptions + 1 /\ Shaken(StageOf(t), StageOf(t)')
    PROVE  LifecycleStep
<1>1. \A s \in Tenant \ {t} : StageOf(s)' = StageOf(s)
    BY SameStage
<1> QED BY <1>1, OneStage

\* A write to one Namespace, or to something in it.
LEMMA NamespaceWriteStage ==
    ASSUME ClusterScoped, OwnershipInv, OwnershipInv', NEW n \in Namespace, UNCHANGED tenant,
           \A m \in Namespace \ {n} :
               ns'[m] = ns[m] /\ \A k \in Kind : child'[k][m] = child[k][m],
           \/ /\ UNCHANGED disruptions
              /\ \A t \in Tenant : NsOf[t] = n => Moved(StageOf(t), StageOf(t)')
           \/ /\ disruptions' = disruptions + 1
              /\ \A t \in Tenant : NsOf[t] = n => Shaken(StageOf(t), StageOf(t)')
    PROVE  LifecycleStep
<1>1. \A t \in Tenant : NsOf[t] \in Namespace
    BY TenantKeys
<1>2. \A t \in Tenant : NsOf[t] # n => StageOf(t)' = StageOf(t)
    BY <1>1, SameStage
<1>3. ASSUME NEW t \in Tenant, NsOf[t] = n PROVE LifecycleStep
    <2>1. \A s \in Tenant \ {t} : NsOf[s] # n
        BY <1>3, TenantKeys DEF ClusterScoped
    <2> QED BY <1>2, <1>3, <2>1, OneStage
<1>4. CASE \A t \in Tenant : NsOf[t] # n
    BY <1>2, <1>4, NoStage
<1> QED BY <1>3, <1>4

LEMMA PutNsWrites ==
    ASSUME TypeOK, NEW n \in Namespace, NEW o, PutNs(n, o)
    PROVE  ns'[n] = o /\ \A m \in Namespace \ {n} : ns'[m] = ns[m]
BY DEF PutNs, TypeOK, NsMap

LEMMA PutChildWrites ==
    ASSUME TypeOK, NEW k \in Kind, NEW n \in Namespace, NEW o, PutChild(k, n, o)
    PROVE  /\ child'[k][n] = o
           /\ \A m \in Namespace \ {n} : \A j \in Kind : child'[j][m] = child[j][m]
           /\ \A j \in Kind \ {k} : child'[j][n] = child[j][n]
BY DEF PutChild, TypeOK, ChildMap

\* What StageOf says of a Tenant that exists, and of one that does not.
LEMMA Stages ==
    ASSUME NEW t \in Tenant
    PROVE  /\ tenant[t] = None => StageOf(t) = IF Holds(t) THEN "leaving" ELSE "absent"
           /\ tenant[t] # None =>
                /\ Blocked(t) => StageOf(t) = "blocked"
                /\ ~Blocked(t) => StageOf(t) \in {"provisioned", "provisioning"}
                /\ StageOf(t) = "provisioned" => Settled(t) /\ ~Doomed(t)
           /\ tenant'[t] = None => StageOf(t)' = IF Holds(t)' THEN "leaving" ELSE "absent"
           /\ tenant'[t] # None =>
                /\ Blocked(t)' => StageOf(t)' = "blocked"
                /\ ~Blocked(t)' => StageOf(t)' \in {"provisioned", "provisioning"}
                /\ ~Blocked(t)' /\ Settled(t)' /\ ~Doomed(t)' => StageOf(t)' = "provisioned"
                /\ StageOf(t)' = "provisioned" => Settled(t)' /\ ~Doomed(t)'
BY DEF StageOf

\* Who controls something of Namespace t's name holds it, before and after a step.
LEMMA OwnersHold ==
    ASSUME NEW t \in Tenant, NEW k \in Kind
    PROVE  /\ OwnershipInv /\ (t \in OwnersOf(ns[NsOf[t]]) \/ t \in OwnersOf(child[k][NsOf[t]]))
                => Holds(t)
           /\ OwnershipInv' /\ (t \in OwnersOf(ns'[NsOf[t]]) \/ t \in OwnersOf(child'[k][NsOf[t]]))
                => Holds(t)'
<1>1. HoldsHere(t)' <=> \/ t \in OwnersOf(ns'[NsOf[t]])
                        \/ \E j \in Kind : t \in OwnersOf(child'[j][NsOf[t]])
    BY DEF HoldsHere, OwnersOf
<1> QED BY <1>1, HoldsIsHere DEF HoldsHere

\* The worker's Tenant as the API server has it, once it owns anything.
LEMMA CurrentCopy ==
    ASSUME Past, NEW t \in Tenant, cur = t, tenant[t] # None, ~Nowhere(Owner(t, tenant[t].uid))
    PROVE  snap.uid = tenant[t].uid
BY DEF Past, Incarnation

LEMMA EnsureNamespaceStage ==
    ASSUME ClusterScoped, RefinementInv, RefinementInv', EnsureNamespace
    PROVE  LifecycleStep
<1> DEFINE n == NsOf[cur]
           seen == seenNs[n]
           own == Owner(cur, snap.uid)
<1>1. TypeOK /\ OwnershipInv /\ OwnershipInv' /\ Past /\ UNCHANGED <<tenant, child, disruptions>>
    BY DEF RefinementInv, OwnershipInv, EnsureNamespace, sameChild
<1>2. cur \in Tenant /\ snap \in TenantObj /\ n \in Namespace
    BY <1>1, TenantKeys DEF EnsureNamespace, TypeOK
<1>3. own \notin {None, Foreign} /\ own.tenant = cur
    BY <1>2, Sentinels DEF Owner, TenantObj
<1>4. CASE UNCHANGED sameNs
    <2>1. \A t \in Tenant : StageOf(t)' = StageOf(t)
        BY <1>1, <1>4, SameStage DEF sameNs
    <2> QED BY <1>1, <2>1, NoStage
<1>5. ASSUME NEW o, PutNs(n, o), o # None, o.ctrl = own,
             ns[n] = None \/ (seen # None /\ ns[n] = seen /\ o = WantedNs(seen) /\ seen # o
                                /\ seen.ctrl # Foreign)
      PROVE  LifecycleStep
    <2>1. ns'[n] = o /\ \A m \in Namespace \ {n} : ns'[m] = ns[m]
        BY <1>1, <1>2, <1>5, PutNsWrites
    <2>2. ASSUME NEW t \in Tenant, NsOf[t] = n PROVE Moved(StageOf(t), StageOf(t)')
        <3>1. t = cur
            BY <1>2, <2>2, TenantKeys DEF ClusterScoped
        <3>2. CASE tenant[t] = None
            <4>1. t \in OwnersOf(ns'[n])
                BY <1>3, <1>5, <2>1, <3>1 DEF OwnersOf
            <4>2. Holds(t)'
                BY <1>1, <2>2, <4>1, OwnersHold DEF Kind
            <4> QED BY <1>1, <3>2, <4>2, Stages DEF Moved
        <3>3. CASE tenant[t] # None
            <4>1. ~Blocked(t)
                BY <1>5, <2>2 DEF Blocked
            <4>2. ~Blocked(t)'
                BY <1>3, <1>5, <2>1, <2>2 DEF Blocked
            <4>3. ~Provisioned(t)
                <5> SUFFICES ASSUME Provisioned(t) PROVE FALSE
                    OBVIOUS
                <5>1. /\ ns[n] # None /\ ns[n].labelled /\ ns[n].ctrl = Owner(t, tenant[t].uid)
                      /\ ns[n] \in NsObj
                    BY <1>1, <1>2, <2>2 DEF Provisioned, TypeOK, NsMap
                <5>2. snap.uid = tenant[t].uid
                    BY <1>1, <1>2, <3>1, <3>3, <5>1, CurrentCopy DEF Nowhere
                <5>3. WantedNs(ns[n]) = ns[n]
                    BY <3>1, <5>1, <5>2 DEF WantedNs, NsObj
                <5> QED BY <1>5, <5>1, <5>3
            <4>4. StageOf(t) = "provisioning"
                BY <3>3, <4>1, <4>3, Stages DEF Settled
            <4>5. StageOf(t)' \in {"provisioned", "provisioning"}
                BY <1>1, <3>3, <4>2, Stages
            <4> QED BY <4>4, <4>5 DEF Moved
        <3> QED BY <3>2, <3>3
    <2> QED BY <1>1, <1>2, <2>1, <2>2, NamespaceWriteStage
<1>6. ASSUME NEW u \in NsUid, ns[n] = None,
             PutNs(n, [uid |-> u, phase |-> "Active", labelled |-> TRUE, ctrl |-> own])
      PROVE  LifecycleStep
    <2> DEFINE o == [uid |-> u, phase |-> "Active", labelled |-> TRUE, ctrl |-> own]
    <2>1. o.ctrl = own
        OBVIOUS
    <2>2. o # None
        <3>1. own \in Ctrl
            BY <1>2 DEF Ctrl, Owner, TenantObj
        <3>2. o \in NsObj
            BY <3>1 DEF NsObj
        <3> QED BY <3>2, NoneIsNoObject
    <2> HIDE DEF o
    <2> QED BY <1>5, <1>6, <2>1, <2>2 DEF o
<1>7. ASSUME seen # None, CanControl(cur, Cluster, seen.ctrl), seen # WantedNs(seen), ns[n] = seen,
             PutNs(n, WantedNs(seen))
      PROVE  LifecycleStep
    <2>1. seen \in NsObj
        BY <1>1, <1>2, <1>7 DEF TypeOK, NsMap
    <2>2. own \in Ctrl
        BY <1>2 DEF Ctrl, Owner, TenantObj
    <2>3. WantedNs(seen) \in NsObj /\ WantedNs(seen).ctrl = own
        BY <2>1, <2>2 DEF WantedNs, NsObj
    <2>4. seen.ctrl # Foreign
        BY <1>2, <1>7, Sentinels DEF CanControl
    <2> QED BY <1>5, <1>7, <2>3, <2>4, NoneIsNoObject
<1> QED BY <1>4, <1>6, <1>7 DEF EnsureNamespace

LEMMA EnsureChildStage ==
    ASSUME ClusterScoped, RefinementInv, RefinementInv', NEW k \in Kind,
           NEW next \in {"netpol", "link"}, EnsureChild(k, next)
    PROVE  LifecycleStep
<1> DEFINE n == NsOf[cur]
           seen == seenChild[k][n]
           want == [spec |-> "desired", ctrl |-> Owner(cur, snap.uid)]
<1>1. TypeOK /\ OwnershipInv /\ OwnershipInv' /\ Past /\ UNCHANGED <<tenant, ns, disruptions>>
    BY DEF RefinementInv, OwnershipInv, EnsureChild, sameNs
<1>2. cur \in Tenant /\ snap \in TenantObj /\ n \in Namespace
    BY <1>1, TenantKeys DEF EnsureChild, TypeOK, Kind
<1>3. want # None /\ OwnersOf(want) = {cur}
    <2>1. Owner(cur, snap.uid) \in [tenant : Tenant, uid : TenantUid]
        BY <1>2 DEF Owner, TenantObj
    <2>2. want \in ChildObj
        BY <2>1 DEF ChildObj, Ctrl
    <2> QED BY <2>1, <2>2, Sentinels, NoneIsNoObject DEF OwnersOf, Owner
<1>4. CASE UNCHANGED sameChild
    <2>1. \A t \in Tenant : StageOf(t)' = StageOf(t)
        BY <1>1, <1>4, SameStage DEF sameChild
    <2> QED BY <1>1, <2>1, NoStage
<1>5. ASSUME PutChild(k, n, want), child[k][n] # want PROVE LifecycleStep
    <2>1. /\ child'[k][n] = want
          /\ \A m \in Namespace \ {n} : \A j \in Kind : child'[j][m] = child[j][m]
        BY <1>1, <1>2, <1>5, PutChildWrites
    <2>2. ASSUME NEW t \in Tenant, NsOf[t] = n PROVE Moved(StageOf(t), StageOf(t)')
        <3>1. t = cur
            BY <1>2, <2>2, TenantKeys DEF ClusterScoped
        <3>2. CASE tenant[t] = None
            <4>1. t \in OwnersOf(child'[k][n])
                BY <1>3, <2>1, <3>1
            <4>2. Holds(t)'
                BY <1>1, <2>2, <4>1, OwnersHold
            <4> QED BY <1>1, <3>2, <4>2, Stages DEF Moved
        <3>3. CASE tenant[t] # None
            <4>1. Blocked(t)' <=> Blocked(t)
                BY <1>1 DEF Blocked
            <4>2. ~Provisioned(t)
                <5> SUFFICES ASSUME Provisioned(t) PROVE FALSE
                    OBVIOUS
                <5>1. /\ ns[n] # None /\ ns[n].ctrl = Owner(t, tenant[t].uid)
                      /\ child[k][n] = [spec |-> "desired", ctrl |-> Owner(t, tenant[t].uid)]
                    BY <2>2 DEF Provisioned
                <5>2. snap.uid = tenant[t].uid
                    BY <1>1, <1>2, <3>1, <3>3, <5>1, CurrentCopy DEF Nowhere
                <5> QED BY <1>5, <3>1, <5>1, <5>2
            <4> QED BY <1>1, <3>3, <4>1, <4>2, Stages DEF Moved, Settled
        <3> QED BY <3>2, <3>3
    <2> QED BY <1>1, <1>2, <2>1, <2>2, NamespaceWriteStage
<1>6. CASE PutChild(k, n, want) /\ seen # want /\
           (IF seen = None THEN child[k][n] = None ELSE child[k][n] = seen)
    BY <1>3, <1>5, <1>6
<1> QED BY <1>4, <1>6 DEF EnsureChild

LEMMA LinkStage ==
    ASSUME ClusterScoped, RefinementInv, RefinementInv', LinkTenant
    PROVE  LifecycleStep
<1> DEFINE n == NsOf[cur]
           seen == seenNs[n]
<1>1. TypeOK /\ OwnershipInv /\ OwnershipInv' /\ Past /\ UNCHANGED <<child, disruptions>>
    BY DEF RefinementInv, OwnershipInv, LinkTenant, sameChild
<1>2. cur \in Tenant /\ snap \in TenantObj /\ n \in Namespace /\ snap # None
    BY <1>1, TenantKeys, NoneIsNoObject DEF LinkTenant, TypeOK
<1>3. CASE UNCHANGED <<tenant, ns>>
    <2>1. \A t \in Tenant : StageOf(t)' = StageOf(t)
        BY <1>1, <1>3, SameStage
    <2> QED BY <1>1, <2>1, NoStage
<1>4. ASSUME NEW u \in NsUid, ns[n] = None, PutNs(n, PlainNs(u, None)), UNCHANGED tenant
      PROVE  LifecycleStep
    <2>1. ns'[n] = PlainNs(u, None) /\ \A m \in Namespace \ {n} : ns'[m] = ns[m]
        BY <1>1, <1>2, <1>4, PutNsWrites
    <2>2. ns'[n].ctrl = None /\ OwnersOf(ns'[n]) = {} /\ OwnersOf(ns[n]) = {}
        BY <1>4, <2>1 DEF PlainNs, OwnersOf
    <2>3. ASSUME NEW t \in Tenant, NsOf[t] = n PROVE StageOf(t)' = StageOf(t)
        <3>1. HoldsHere(t)' <=> HoldsHere(t)
            BY <1>1, <2>2, <2>3 DEF HoldsHere, OwnersOf
        <3>2. ~Blocked(t) /\ ~Blocked(t)'
            BY <1>4, <2>2, <2>3, Sentinels DEF Blocked
        <3>3. tenant[t] # None => ~Provisioned(t)
            BY <1>4, <2>3 DEF Provisioned
        <3>4. tenant'[t] # None => ~Provisioned(t)'
            <4> SUFFICES ASSUME tenant'[t] # None PROVE ~Provisioned(t)'
                OBVIOUS
            <4>1. tenant'[t].uid \in TenantUid
                BY <1>1, <1>4 DEF TypeOK, TenantMap, TenantObj
            <4>2. Owner(t, tenant'[t].uid) # None
                BY <4>1, Sentinels DEF Owner
            <4> QED BY <2>2, <2>3, <4>2 DEF Provisioned
        <3> QED BY <1>1, <1>4, <3>1, <3>2, <3>3, <3>4, HoldsIsHere, Stages DEF Settled
    <2> QED BY <1>1, <1>2, <1>4, <2>1, <2>3, NamespaceWriteStage DEF Moved
<1>5. ASSUME snap.isolation = "namespace", seen # None, snap.nsRef # seen.uid, tenant[cur] = snap,
             tenant' = [tenant EXCEPT ![cur] = [snap EXCEPT !.nsRef = seen.uid]], UNCHANGED ns
      PROVE  LifecycleStep
    <2>1. tenant'[cur] = [snap EXCEPT !.nsRef = seen.uid]
            /\ \A s \in Tenant \ {cur} : tenant'[s] = tenant[s]
        BY <1>1, <1>2, <1>5 DEF TypeOK, TenantMap
    <2>2. tenant'[cur] # None
        <3>1. tenant' \in TenantMap /\ seen \in NsObj
            BY <1>1, <1>2, <1>5 DEF OwnershipInv, TypeOK, NsMap
        <3>2. [snap EXCEPT !.nsRef = seen.uid] \in TenantObj
            BY <1>2, <3>1 DEF TenantObj, NsObj
        <3> QED BY <2>1, <3>2, NoneIsNoObject
    <2>3. ~Provisioned(cur)
        <3> SUFFICES ASSUME Provisioned(cur) PROVE FALSE
            OBVIOUS
        <3>1. ns[n] # None /\ tenant[cur].nsRef = ns[n].uid
            BY <1>5 DEF Provisioned
        <3>2. seen.uid = ns[n].uid
            BY <1>1, <1>2, <1>5, <3>1 DEF Past, LinkSeen
        <3> QED BY <1>5, <3>1, <3>2
    <2>4. ASSUME NEW t \in Tenant, t = cur PROVE LifecycleStep
        <3>1. (Blocked(t)' <=> Blocked(t)) /\ tenant[t] # None /\ tenant'[t] # None
            BY <1>2, <1>5, <2>2, <2>4 DEF Blocked
        <3>2. Moved(StageOf(t), StageOf(t)')
            BY <2>3, <2>4, <3>1, Stages DEF Moved, Settled
        <3> QED BY <1>1, <1>5, <2>1, <2>4, <3>2, TenantWriteStage
    <2> QED BY <1>2, <2>4
<1> QED BY <1>3, <1>4, <1>5 DEF LinkTenant, sameNs

\* A Namespace is marked for deletion or loses its label: whoever it provided for
\* is no longer provisioned, nothing else changes.
LEMMA SpoilNamespace ==
    ASSUME OwnershipInv, OwnershipInv', NEW t \in Tenant, UNCHANGED <<tenant, child>>,
           LET o == ns[NsOf[t]] p == ns'[NsOf[t]] IN
             o # None /\ p # None /\ p.ctrl = o.ctrl /\ (p.phase # "Active" \/ ~p.labelled)
    PROVE  \/ StageOf(t)' = StageOf(t)
           \/ StageOf(t) = "provisioned" /\ StageOf(t)' = "provisioning"
<1>1. HoldsHere(t)' <=> HoldsHere(t)
    BY DEF HoldsHere, OwnersOf
<1>2. Blocked(t)' <=> Blocked(t)
    BY DEF Blocked
<1>3. tenant'[t] # None => ~Settled(t)'
    BY DEF Settled, Provisioned
<1> QED BY <1>1, <1>2, <1>3, HoldsIsHere, Stages

\* A quota or policy is removed or drifts.
LEMMA SpoilChild ==
    ASSUME OwnershipInv, OwnershipInv', NEW t \in Tenant, NEW k \in Kind, UNCHANGED <<tenant, ns>>,
           LET o == child[k][NsOf[t]] p == child'[k][NsOf[t]] IN
             p = None \/ (p.spec = "drifted" /\ OwnersOf(p) \subseteq OwnersOf(o)),
           \A j \in Kind \ {k} : child'[j][NsOf[t]] = child[j][NsOf[t]]
    PROVE  \/ StageOf(t)' = StageOf(t)
           \/ StageOf(t) = "provisioned" /\ StageOf(t)' = "provisioning"
           \/ StageOf(t) = "leaving" /\ StageOf(t)' = "absent"
<1>1. \A j \in Kind : OwnersOf(child'[j][NsOf[t]]) \subseteq OwnersOf(child[j][NsOf[t]])
    BY DEF OwnersOf
<1>2. HoldsHere(t)' => HoldsHere(t)
    BY <1>1 DEF HoldsHere, OwnersOf
<1>3. Blocked(t)' <=> Blocked(t)
    BY DEF Blocked
<1>4. tenant'[t] # None => ~Settled(t)'
    <2>1. child'[k][NsOf[t]] # [spec |-> "desired", ctrl |-> Owner(t, tenant'[t].uid)]
                \/ tenant'[t] = None
        <3> SUFFICES ASSUME tenant'[t] # None,
                            child'[k][NsOf[t]] = [spec |-> "desired", ctrl |-> Owner(t, tenant'[t].uid)]
                     PROVE  FALSE
            OBVIOUS
        <3>1. tenant'[t].uid \in TenantUid
            BY DEF OwnershipInv, TypeOK, TenantMap, TenantObj
        <3>2. Owner(t, tenant'[t].uid) \in Ctrl
            BY <3>1 DEF Owner, Ctrl
        <3>3. child'[k][NsOf[t]] \in ChildObj
            BY <3>2 DEF ChildObj
        <3> QED BY <3>3, NoneIsNoObject
    <2> QED BY <2>1 DEF Settled, Provisioned
<1> QED BY <1>2, <1>3, <1>4, HoldsIsHere, Stages

\* With an orphaned object in its Namespace a Tenant is not provisioned.
LEMMA OrphanSpoils ==
    ASSUME TypeOK, NEW t \in Tenant, NEW k \in Kind, tenant[t] # None,
           Orphaned(ns[NsOf[t]]) \/ Orphaned(child[k][NsOf[t]])
    PROVE  ~Provisioned(t)
<1> SUFFICES ASSUME Provisioned(t) PROVE FALSE
    OBVIOUS
<1>1. /\ ns[NsOf[t]].ctrl = Owner(t, tenant[t].uid)
      /\ child[k][NsOf[t]].ctrl = Owner(t, tenant[t].uid)
    BY DEF Provisioned
<1>2. /\ Owner(t, tenant[t].uid).tenant = t /\ Owner(t, tenant[t].uid).uid = tenant[t].uid
    BY DEF Owner
<1>3. Lives(tenant[t], tenant[t].uid)
    BY DEF Lives
<1> QED BY <1>1, <1>2, <1>3 DEF Orphaned

LEMMA KubernetesStage ==
    ASSUME ClusterScoped, RefinementInv, RefinementInv', Kubernetes
    PROVE  LifecycleStep
<1>1. TypeOK /\ OwnershipInv /\ OwnershipInv' /\ UNCHANGED disruptions
    BY DEF RefinementInv, OwnershipInv, Kubernetes, GCTenant, GCNamespace, FinalizeNamespace,
           GCChild, EmptyNamespace
<1>2. ASSUME NEW t \in Tenant, GCTenant(t) PROVE LifecycleStep
    <2>1. tenant'[t] = None /\ \A s \in Tenant \ {t} : tenant'[s] = tenant[s]
        BY <1>1, <1>2 DEF GCTenant, TypeOK, TenantMap
    <2>2. StageOf(t) \in {"provisioning", "blocked"}
        BY <1>2, Stages DEF GCTenant, Doomed
    <2>3. StageOf(t)' \in {"leaving", "absent"}
        BY <2>1, Stages
    <2> QED BY <1>1, <1>2, <2>1, <2>2, <2>3, TenantWriteStage DEF GCTenant, Moved
<1>3. ASSUME NEW n \in Namespace, GCNamespace(n) PROVE LifecycleStep
    <2> DEFINE o == [ns[n] EXCEPT !.phase = "Terminating"]
    <2>1. ns[n] # None /\ ns[n] \in NsObj /\ Orphaned(ns[n])
        BY <1>1, <1>3 DEF GCNamespace, Orphaned, TypeOK, NsMap
    <2>2. o \in NsObj /\ o # None /\ o.ctrl = ns[n].ctrl /\ o.phase # "Active"
        BY <2>1, NoneIsNoObject DEF NsObj
    <2>3. PutNs(n, o) /\ UNCHANGED <<tenant, child>>
        BY <1>3 DEF GCNamespace, sameChild
    <2> HIDE DEF o
    <2>4. ns'[n] = o /\ \A m \in Namespace \ {n} : ns'[m] = ns[m]
        BY <1>1, <2>3, PutNsWrites
    <2>5. ASSUME NEW t \in Tenant, NsOf[t] = n PROVE Moved(StageOf(t), StageOf(t)')
        <3>1. StageOf(t) # "provisioned"
            BY <1>1, <2>1, <2>5, OrphanSpoils, Stages DEF Settled, Kind
        <3> QED BY <1>1, <2>1, <2>2, <2>3, <2>4, <2>5, <3>1, SpoilNamespace DEF Moved
    <2> QED BY <1>1, <2>3, <2>4, <2>5, NamespaceWriteStage
<1>4. ASSUME NEW n \in Namespace, FinalizeNamespace(n) PROVE LifecycleStep
    <2>1. /\ ns[n] # None /\ ns[n].phase = "Terminating" /\ \A k \in Kind : child[k][n] = None
          /\ ns'[n] = None /\ \A m \in Namespace \ {n} : ns'[m] = ns[m]
          /\ UNCHANGED <<tenant, child>>
        BY <1>1, <1>4, PutNsWrites DEF FinalizeNamespace, sameChild
    <2>2. ASSUME NEW t \in Tenant, NsOf[t] = n PROVE Moved(StageOf(t), StageOf(t)')
        <3>1. CASE tenant[t] = None
            BY <2>1, <3>1, Stages DEF Moved
        <3>2. CASE tenant[t] # None
            <4>1. ~Settled(t) /\ ~Settled(t)' /\ ~Blocked(t)'
                BY <2>1, <2>2, <3>2 DEF Settled, Provisioned, Blocked
            <4> QED BY <2>1, <3>2, <4>1, Stages DEF Moved
        <3> QED BY <3>1, <3>2
    <2> QED BY <1>1, <2>1, <2>2, NamespaceWriteStage
<1>5. ASSUME NEW n \in Namespace, NEW k \in Kind, GCChild(k, n) \/ EmptyNamespace(k, n)
      PROVE  LifecycleStep
    <2>1. PutChild(k, n, None) /\ UNCHANGED <<tenant, ns>>
        BY <1>5 DEF GCChild, EmptyNamespace, sameNs
    <2>2. /\ child'[k][n] = None
          /\ \A m \in Namespace \ {n} : \A j \in Kind : child'[j][m] = child[j][m]
          /\ \A j \in Kind \ {k} : child'[j][n] = child[j][n]
        BY <1>1, <2>1, PutChildWrites
    <2>3. ASSUME NEW t \in Tenant, NsOf[t] = n PROVE Moved(StageOf(t), StageOf(t)')
        <3>1. tenant[t] # None => ~Settled(t)
            <4>1. CASE GCChild(k, n)
                BY <1>1, <2>3, <4>1, OrphanSpoils DEF GCChild, Settled
            <4>2. CASE EmptyNamespace(k, n)
                BY <2>3, <4>2 DEF EmptyNamespace, Settled
            <4> QED BY <1>5, <4>1, <4>2
        <3>2. StageOf(t) # "provisioned"
            BY <3>1, Stages
        <3> QED BY <1>1, <2>1, <2>2, <2>3, <3>2, SpoilChild DEF Moved
    <2> QED BY <1>1, <2>1, <2>2, <2>3, NamespaceWriteStage
<1> QED BY <1>2, <1>3, <1>4, <1>5 DEF Kubernetes

LEMMA DisruptionStage ==
    ASSUME ClusterScoped, RefinementInv, RefinementInv', Disruption
    PROVE  LifecycleStep
<1>0. disruptions' = disruptions + 1
    <2>1. Disruption => Disrupt
        <3>1. \A t \in Tenant : CreateTenant(t) \/ DeleteTenant(t) \/ EditTenant(t) => Disrupt
            BY DEF CreateTenant, DeleteTenant, EditTenant
        <3>2. \A n \in Namespace :
                CreateNamespace(n) \/ DeleteNamespace(n) \/ StripLabel(n) => Disrupt
            BY DEF CreateNamespace, DeleteNamespace, StripLabel
        <3>3. \A n \in Namespace, k \in Kind : DriftChild(k, n) \/ DeleteChild(k, n) => Disrupt
            BY DEF DriftChild, DeleteChild
        <3>4. ApiError \/ RestartManager => Disrupt
            BY DEF ApiError, RestartManager
        <3> QED BY <3>1, <3>2, <3>3, <3>4 DEF Disruption
    <2> QED BY <2>1 DEF Disrupt
<1>1. TypeOK /\ OwnershipInv /\ OwnershipInv' /\ TypeOK' /\ Past /\ disruptions' = disruptions + 1
    BY <1>0 DEF RefinementInv, OwnershipInv
<1>2. ASSUME NEW t \in Tenant, CreateTenant(t) PROVE LifecycleStep
    <2>1. PICK i \in Isolation, u \in TenantUid :
            /\ u \notin TenantUidsInUse
            /\ tenant' = [tenant EXCEPT ![t] = [uid |-> u, isolation |-> i, nsRef |-> None]]
        BY <1>2 DEF CreateTenant, Least
    <2>2. /\ tenant'[t].uid = u /\ UNCHANGED <<ns, child>>
          /\ \A s \in Tenant \ {t} : tenant'[s] = tenant[s]
        BY <1>1, <1>2, <2>1 DEF CreateTenant, TypeOK, TenantMap
    <2>3. ~Provisioned(t)'
        <3> SUFFICES ASSUME Provisioned(t)' PROVE FALSE
            OBVIOUS
        <3>1. ns[NsOf[t]] # None /\ ns[NsOf[t]].ctrl = Owner(t, u) /\ NsOf[t] \in Namespace
            BY <2>2, TenantKeys DEF Provisioned
        <3> DEFINE S == {ns[NsOf[t]], seenNs[NsOf[t]]} \cup {child[k][NsOf[t]] : k \in Kind}
                          \cup {seenChild[k][NsOf[t]] : k \in Kind}
        <3>2. u \in CtrlUids(S)
            <4>1. Owner(t, u) \notin {None, Foreign} /\ Owner(t, u).uid = u
                BY Sentinels DEF Owner
            <4> QED BY <3>1, <4>1, CtrlUidsHas
        <3>3. CtrlUids(S) \subseteq TenantUidsInUse
            BY <3>1 DEF TenantUidsInUse
        <3> QED BY <2>1, <3>2, <3>3
    <2>4. StageOf(t)' # "provisioned"
        BY <2>3, Stages DEF Settled
    <2> QED BY <1>1, <2>2, <2>4, TenantWriteStage DEF Shaken
<1>3. ASSUME NEW t \in Tenant, DeleteTenant(t) PROVE LifecycleStep
    <2>1. /\ tenant'[t] = None /\ UNCHANGED <<ns, child>>
          /\ \A s \in Tenant \ {t} : tenant'[s] = tenant[s]
        BY <1>1, <1>3 DEF DeleteTenant, TypeOK, TenantMap
    <2>2. StageOf(t)' # "provisioned"
        BY <2>1, Stages
    <2> QED BY <1>1, <2>1, <2>2, TenantWriteStage DEF Shaken
<1>4. ASSUME NEW t \in Tenant, EditTenant(t) PROVE LifecycleStep
    <2>1. tenant[t] # None /\ UNCHANGED <<ns, child>>
        BY <1>4 DEF EditTenant
    <2>2. \A s \in Tenant \ {t} : tenant'[s] = tenant[s]
        BY <1>1, <1>4 DEF EditTenant, TypeOK, TenantMap
    <2>3. Blocked(t)' <=> Blocked(t)
        BY <2>1 DEF Blocked
    <2>4. tenant'[t] # None
        <3>1. tenant[t] \in TenantObj
            BY <1>1, <2>1 DEF TypeOK, TenantMap
        <3>2. \A i \in Isolation : [tenant[t] EXCEPT !.isolation = i] \in TenantObj
            BY <3>1 DEF TenantObj
        <3> QED BY <1>1, <1>4, <3>2, NoneIsNoObject DEF EditTenant, TypeOK, TenantMap
    <2>5. Shaken(StageOf(t), StageOf(t)')
        BY <2>1, <2>3, <2>4, Stages DEF Shaken
    <2> QED BY <1>1, <2>1, <2>2, <2>5, TenantWriteStage
<1>5. ASSUME NEW n \in Namespace, CreateNamespace(n) PROVE LifecycleStep
    <2>1. PICK c \in Intruders, u \in NsUid : PutNs(n, PlainNs(u, c))
        BY <1>5 DEF CreateNamespace
    <2>2. /\ ns'[n] = PlainNs(u, c) /\ UNCHANGED <<tenant, child>>
          /\ \A m \in Namespace \ {n} : ns'[m] = ns[m]
        BY <1>1, <1>5, <2>1, PutNsWrites DEF CreateNamespace, sameChild
    <2>3. ~ns'[n].labelled
        BY <2>2 DEF PlainNs
    <2>4. ASSUME NEW t \in Tenant, NsOf[t] = n PROVE Shaken(StageOf(t), StageOf(t)')
        <3>1. tenant'[t] # None => ~Settled(t)'
            BY <2>3, <2>4 DEF Settled, Provisioned
        <3> QED BY <3>1, Stages DEF Shaken
    <2> QED BY <1>1, <2>2, <2>4, NamespaceWriteStage
<1>6. ASSUME NEW n \in Namespace, DeleteNamespace(n) \/ StripLabel(n) PROVE LifecycleStep
    <2> DEFINE marked == [ns[n] EXCEPT !.phase = "Terminating"]
               stripped == [ns[n] EXCEPT !.labelled = FALSE]
    <2>1. ns[n] # None /\ ns[n] \in NsObj
        BY <1>1, <1>6 DEF DeleteNamespace, StripLabel, TypeOK, NsMap
    <2>2. /\ marked \in NsObj /\ marked # None /\ marked.ctrl = ns[n].ctrl /\ marked.phase # "Active"
          /\ stripped \in NsObj /\ stripped # None /\ stripped.ctrl = ns[n].ctrl /\ ~stripped.labelled
        BY <2>1, NoneIsNoObject DEF NsObj
    <2>3. (PutNs(n, marked) \/ PutNs(n, stripped)) /\ UNCHANGED <<tenant, child>>
        BY <1>6 DEF DeleteNamespace, StripLabel, sameChild
    <2> HIDE DEF marked, stripped
    <2>4. ns'[n] \in {marked, stripped} /\ \A m \in Namespace \ {n} : ns'[m] = ns[m]
        BY <1>1, <2>3, PutNsWrites
    <2>5. ASSUME NEW t \in Tenant, NsOf[t] = n PROVE Shaken(StageOf(t), StageOf(t)')
        BY <1>1, <2>1, <2>2, <2>3, <2>4, <2>5, SpoilNamespace DEF Shaken
    <2> QED BY <1>1, <2>3, <2>4, <2>5, NamespaceWriteStage
<1>7. ASSUME NEW n \in Namespace, NEW k \in Kind, DriftChild(k, n) \/ DeleteChild(k, n)
      PROVE  LifecycleStep
    <2> DEFINE o == [child[k][n] EXCEPT !.spec = "drifted"]
    <2>1. child[k][n] # None /\ child[k][n] \in ChildObj
        BY <1>1, <1>7 DEF DriftChild, DeleteChild, TypeOK, ChildMap
    <2>2. o.spec = "drifted" /\ OwnersOf(o) \subseteq OwnersOf(child[k][n])
        BY <2>1, SameOwners DEF ChildObj
    <2>3. (PutChild(k, n, o) \/ PutChild(k, n, None)) /\ UNCHANGED <<tenant, ns>>
        BY <1>7 DEF DriftChild, DeleteChild, sameNs
    <2> HIDE DEF o
    <2>4. /\ child'[k][n] \in {o, None}
          /\ \A m \in Namespace \ {n} : \A j \in Kind : child'[j][m] = child[j][m]
          /\ \A j \in Kind \ {k} : child'[j][n] = child[j][n]
        BY <1>1, <2>3, PutChildWrites
    <2>5. ASSUME NEW t \in Tenant, NsOf[t] = n PROVE Shaken(StageOf(t), StageOf(t)')
        BY <1>1, <2>2, <2>3, <2>4, <2>5, SpoilChild DEF Shaken
    <2> QED BY <1>1, <2>3, <2>4, <2>5, NamespaceWriteStage
<1>8. ASSUME ApiError \/ RestartManager PROVE LifecycleStep
    <2>1. \A t \in Tenant : StageOf(t)' = StageOf(t)
        BY <1>1, <1>8, SameStage DEF ApiError, RestartManager, api
    <2> QED BY <1>1, <2>1, NoStage
<1> QED BY <1>2, <1>3, <1>4, <1>5, <1>6, <1>7, <1>8 DEF Disruption

LEMMA StepRefines ==
    ASSUME ClusterScoped, RefinementInv, RefinementInv', [Next]_vars
    PROVE  LifecycleStep
<1>1. CASE UNCHANGED <<api, disruptions>>
    <2>1. \A t \in Tenant : StageOf(t)' = StageOf(t)
        BY <1>1, SameStage DEF RefinementInv, api
    <2> QED BY <1>1, <2>1, NoStage
<1>2. CASE Informers \/ (\E t \in Tenant : ReconcileGet(t)) \/ UNCHANGED vars
    BY <1>1, <1>2 DEF Informers, SyncTenant, SyncNs, SyncChild, ReconcileGet, vars
<1>3. CASE EnsureResourceQuota \/ EnsureNetworkPolicy
    BY <1>3, EnsureChildStage DEF EnsureResourceQuota, EnsureNetworkPolicy, Kind
<1> QED BY <1>2, <1>3, EnsureNamespaceStage, LinkStage, KubernetesStage, DisruptionStage
        DEF Next, Reconcile

LEMMA InitRefines == Init => Lifecycle!Init
<1> SUFFICES ASSUME Init PROVE Lifecycle!Init
    OBVIOUS
<1>1. TypeOK /\ OwnershipInv
    BY InitOwnership DEF OwnershipInv
<1>2. ASSUME NEW t \in Tenant PROVE ~Holds(t)
    <2>1. ~HoldsHere(t)
        <3>1. OwnersOf(ns[NsOf[t]]) = {}
            BY InitInert, TenantKeys DEF Inert
        <3>2. \A k \in Kind : child[k][NsOf[t]] = None
            BY TenantKeys DEF Init
        <3> QED BY <3>1, <3>2 DEF HoldsHere, OwnersOf
    <2> QED BY <1>1, <2>1, HoldsIsHere
<1>3. \A t \in Tenant : StageOf(t) = "absent"
    BY <1>2, Stages DEF Init
<1> QED BY <1>3 DEF Init, Lifecycle!Init

\* With a cluster-scoped CRD the controller keeps the lifecycle it promises: no
\* step of its own, of an informer or of a collector takes a provisioned Tenant
\* out of "provisioned", brings a deleted one back, or provisions a name that
\* somebody else holds; what a user, a failing call or a restart does, it does to
\* one Tenant.
THEOREM LifecycleKept ==
    ASSUME ClusterScoped
    PROVE  Spec => KeepsLifecycle
<1>1. Init => RefinementInv
    BY InitOwnership, InitPast DEF RefinementInv
<1>2. RefinementInv /\ RefinementInv' /\ [Next]_vars => [Lifecycle!Next]_(Lifecycle!vars)
    BY StepRefines DEF LifecycleStep
<1> QED BY <1>1, <1>2, InitRefines, NextRefinement, PTL DEF Spec, KeepsLifecycle, Lifecycle!Spec

-----------------------------------------------------------------------------
(* Watches that break (TenantResync).                                      *)

LEMMA GapPast == ASSUME TypeOK, Past, Relist \/ Resync PROVE Past'
<1>1. UNCHANGED <<tenant, ns, child, seenTenant, cur, snap>>
    BY DEF Relist, RelistNamespaces, RelistChildren, Resync, api, cache
<1>2. UNCHANGED seenNs \/ seenNs' = ns
    BY DEF Relist, RelistNamespaces, RelistChildren, Resync, cache
<1>3. ASSUME NEW t \in Tenant PROVE Incarnation(t)'
    BY <1>1 DEF Past, Incarnation, Nowhere, Owner
<1>4. ASSUME NEW t \in Tenant PROVE LinkSeen(t)'
    BY <1>1, <1>2 DEF Past, LinkSeen
<1> QED BY <1>3, <1>4 DEF Past

LEMMA ResyncRefinement ==
    /\ ClusterScoped /\ EveryNameTaken /\ ResyncInit => RefinementInv
    /\ RefinementInv /\ [ResyncNext]_vars => RefinementInv'
<1>1. ASSUME ClusterScoped, EveryNameTaken, ResyncInit PROVE RefinementInv
    <2>1. OwnershipInv
        BY <1>1, ResyncOwnership
    <2>2. Past
        BY <1>1, Sentinels, TenantKeys DEF ResyncInit, Past, Incarnation, LinkSeen
    <2> QED BY <2>1, <2>2 DEF RefinementInv
<1>2. ASSUME RefinementInv, [ResyncNext]_vars PROVE RefinementInv'
    <2>1. CASE Relist \/ Resync
        BY <1>2, <2>1, GapPast, GapOwnership DEF RefinementInv, OwnershipInv
    <2> QED BY <1>2, <2>1, NextRefinement, ResyncSteps
<1> QED BY <1>1, <1>2

\* Also while watches break, and whatever they hid, no step of the platform takes
\* a provisioned Tenant out of "provisioned", brings a deleted one back, or
\* provisions a name that somebody else holds: a gap can delay what Reconcile has
\* to do, and cannot make it do anything else.
THEOREM GapsKeepLifecycle ==
    ASSUME ClusterScoped, EveryNameTaken
    PROVE  ResyncSpec => LifecycleSteps
<1>1. ResyncInit => RefinementInv
    BY ResyncRefinement
<1>2. RefinementInv /\ [ResyncNext]_vars => RefinementInv'
    BY ResyncRefinement
<1>3. RefinementInv /\ RefinementInv' /\ [ResyncNext]_vars => [Lifecycle!Next]_(Lifecycle!vars)
    <2> SUFFICES ASSUME RefinementInv, RefinementInv', [ResyncNext]_vars PROVE LifecycleStep
        BY DEF LifecycleStep
    <2>1. CASE Relist \/ Resync
        <3>1. UNCHANGED disruptions \/ disruptions' = disruptions + 1
            BY <2>1 DEF Relist, RelistNamespaces, RelistChildren, Resync, Disrupt
        <3>2. \A t \in Tenant : StageOf(t)' = StageOf(t)
            BY <2>1, SameStage DEF Relist, RelistNamespaces, RelistChildren, Resync, RefinementInv, api
        <3> QED BY <3>1, <3>2, NoStage
    <2> QED BY <2>1, StepRefines, ResyncSteps
<1> QED BY <1>1, <1>2, <1>3, PTL DEF ResyncSpec, LifecycleSteps
=============================================================================
