--------------------------- MODULE TenantResync ---------------------------
(***************************************************************************)
(* TenantController with watches that break.  The client library re-lists: *)
(* the cache catches up, but what was created and deleted meanwhile leaves *)
(* no event.  Against that stands only the periodic resync of the caches   *)
(* (every ten hours, as cmd/main.go does not set a period), which queues   *)
(* whatever the caches hold.                                               *)
(***************************************************************************)
EXTENDS TenantController

\* The Tenants a listing of objects queues, of those before and those after.
ListedOwners(objects) == UNION {OwnersOf(o) : o \in objects}

\* A gap matters only where the cache is behind, and not for Tenants: a Tenant
\* that came and went without an event needs no Reconcile.
RelistNamespaces ==
    /\ Disrupt
    /\ \E n \in Namespace : seenNs[n] # ns[n] \/ wakeNs[n] # {}
    /\ seenNs' = ns /\ wakeNs' = [n \in Namespace |-> {}]
    /\ queue' = queue \cup ListedOwners(UNION {{ns[n], seenNs[n]} : n \in Namespace})
    /\ UNCHANGED <<api, seenTenant, seenChild, wakeChild, pc, cur, snap>>

RelistChildren(k) ==
    /\ Disrupt
    /\ \E n \in Namespace : seenChild[k][n] # child[k][n] \/ wakeChild[k][n] # {}
    /\ seenChild' = [seenChild EXCEPT ![k] = child[k]]
    /\ wakeChild' = [wakeChild EXCEPT ![k] = [n \in Namespace |-> {}]]
    /\ queue' = queue \cup ListedOwners(UNION {{child[k][n], seenChild[k][n]} : n \in Namespace})
    /\ UNCHANGED <<api, seenTenant, seenNs, wakeNs, pc, cur, snap>>

\* Mutant: the resync is switched off.
NoResync == UNCHANGED vars

Resync ==
    /\ queue' = queue \cup {t \in Tenant : seenTenant[t] # None}
                  \cup ListedOwners({seenNs[n] : n \in Namespace})
                  \cup ListedOwners(UNION {{seenChild[k][n] : k \in Kind} : n \in Namespace})
    /\ UNCHANGED <<api, cache, wake, pc, cur, snap, disruptions>>

\* The Tenant whose namespace name n is.
TenantOf(n) == CHOOSE t \in Tenant : NsOf[t] = n

\* Every Tenant has all that Reconcile ensures (a UID is compared only with that
\* of an object of the same name).
AllProvisioned(u, v, i) ==
    /\ tenant = [t \in Tenant |-> [uid |-> u, isolation |-> i,
                   nsRef |-> IF i = "namespace" THEN v ELSE None]]
    /\ ns = [n \in Namespace |-> [uid |-> v, phase |-> "Active", labelled |-> TRUE,
               ctrl |-> Owner(TenantOf(n), u)]]
    /\ child = [k \in Kind |-> [n \in Namespace |->
                  [spec |-> "desired", ctrl |-> Owner(TenantOf(n), u)]]]

\* The manager starts where a former one has provisioned every Tenant.
ResyncInit ==
    /\ \E u \in TenantUid, v \in NsUid, i \in Isolation :
         Least(u, TenantUid, {}) /\ Least(v, NsUid, {}) /\ AllProvisioned(u, v, i)
    /\ seenTenant = tenant /\ seenNs = ns /\ seenChild = child
    /\ wakeNs = [n \in Namespace |-> {}]
    /\ wakeChild = [k \in Kind |-> [n \in Namespace |-> {}]]
    /\ queue = Tenant
    /\ pc = "idle" /\ cur = None /\ snap = None
    /\ disruptions = 0

Relist == RelistNamespaces \/ \E k \in Kind : RelistChildren(k)

\* What a gap can hide: objects deleted and made by users.
Meddling ==
    \/ \E t \in Tenant : DeleteTenant(t)
    \/ \E n \in Namespace :
         \/ CreateNamespace(n) \/ DeleteNamespace(n)
         \/ \E k \in Kind : DeleteChild(k, n)

ResyncNext == Reconcile \/ Informers \/ Kubernetes \/ Meddling \/ Relist \/ Resync

\* The ticker of the resync keeps ticking; no watch is bound to break.
ResyncSpec == ResyncInit /\ [][ResyncNext]_vars /\ Fairness /\ WF_vars(Resync)

-----------------------------------------------------------------------------

\* Although a resync starts a Reconcile of every Tenant again and again, and a
\* blocked Tenant is retried for ever, in the end none of them writes anything:
\* a Tenant does not even go on writing into a Namespace that has become
\* somebody else's.
Calm == <>[][UNCHANGED api]_vars
=============================================================================
