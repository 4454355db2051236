-------------------------- MODULE SignatureScanner --------------------------
(***************************************************************************)
(* The periodic signature scan of internal/controller/tenant_controller.go *)
(* (Start, scanAndEnforcePodImages): list the Tenants, list the pods of    *)
(* each namespace-isolated one, verify every image, delete the pods that   *)
(* fail and tell Telegram.                                                 *)
(*                                                                         *)
(* Listing reads the manager's caches, verifying an image takes up to ten   *)
(* seconds, deleting is by name: pods come, go and are replaced under the  *)
(* same name between these steps.  pc is the step the scan is at.          *)
(***************************************************************************)
EXTENDS Naturals

CONSTANTS
    Tenant,         \* Tenants
    PodKey,         \* namespace/name of the pods there can be
    NsOf,           \* Tenant -> "tenant-" + its name
    PodNs,          \* pod key -> its namespace
    Image,          \* image references
    MaxPods,        \* bound on the pods ever created (they are the UIDs)
    MaxDisruptions, \* bound on everything else the surroundings do
    None

ASSUME ScannerConstants ==
    /\ DOMAIN NsOf = Tenant /\ DOMAIN PodNs = PodKey
    /\ MaxPods \in Nat /\ MaxDisruptions \in Nat
    /\ None \notin Nat

VARIABLES
    isolation,      \* spec.isolation of every Tenant
    pods,
    seenIsolation, seenPods, \* the manager's caches of both
    signed,         \* images whose signature the key verifies
    outage,         \* the registry, Rekor or the key file cannot be reached
    pc, todoTenants, todoPods, target, todoImages, removed,  \* the scan
    log,            \* history: what this scan enforced
    clean, before,  \* history: nothing disturbed this scan; pods at its start
    made, disruptions

scan    == <<pc, todoTenants, todoPods, target, todoImages, removed>>
history == <<log, clean, before>>
world   == <<isolation, pods, signed, outage, made, disruptions>>
cached  == <<seenIsolation, seenPods>>
vars    == <<world, cached, scan, history>>

\* "odd" is any text that is "namespace" once trimmed and lower-cased.
IsolationText == {"namespace", "odd", "other"}
Normalised(i) == IF i = "odd" THEN "namespace" ELSE i

Uid == 1..MaxPods
Pod == [uid : Uid, images : (SUBSET Image) \ {{}}, terminating : BOOLEAN]
Listed == [key : PodKey, pod : Pod]
NoPods   == [k \in PodKey |-> None]

ASSUME NoneIsNoPod == None \notin Pod \cup Listed

\* Every variable has its type, and the scan has a pod in hand just between
\* taking it up and leaving it.
TypeOK ==
    /\ {isolation, seenIsolation} \subseteq [Tenant -> IsolationText]
    /\ \A m \in {pods, seenPods, before} : m \in [PodKey -> Pod \cup {None}]
    /\ signed \subseteq Image /\ {outage, clean} \subseteq BOOLEAN
    /\ pc \in {"wait", "tenants", "pods", "verify", "delete", "notify"}
    /\ todoTenants \subseteq Tenant /\ todoPods \subseteq Listed
    /\ target \in Listed \cup {None} /\ todoImages \subseteq Image
    /\ removed \in Uid \cup {None}
    /\ log \subseteq [key : PodKey, uid : Uid, removed : Uid \cup {None}]
    /\ pc \in {"verify", "delete", "notify"} <=> target # None
    /\ made \in 0..MaxPods /\ disruptions \in 0..MaxDisruptions

\* The manager starts, its caches filled, next to whatever Tenants there are.
Init ==
    /\ isolation \in [Tenant -> IsolationText] /\ seenIsolation = isolation
    /\ pods = NoPods /\ seenPods = NoPods /\ before = NoPods
    /\ signed \in SUBSET Image /\ outage = FALSE
    /\ pc = "wait" /\ todoTenants = {} /\ todoPods = {} /\ target = None
    /\ todoImages = {} /\ removed = None
    /\ log = {} /\ clean = FALSE
    /\ made = 0 /\ disruptions = 0

Enforced(t) == Normalised(isolation[t]) = "namespace"
Managed(n)  == \E t \in Tenant : NsOf[t] = n /\ Enforced(t)

\* VerifyImageSignature: every way of not verifying is an error.
Verifies(i) == i \in signed /\ ~outage

-----------------------------------------------------------------------------
(* The scan.                                                               *)

\* A tick (the first scan comes at once): list the Tenants.
StartScan ==
    /\ pc = "wait"
    /\ todoTenants' = {t \in Tenant : Normalised(seenIsolation[t]) = "namespace"}
    /\ pc' = "tenants" /\ log' = {}
    /\ clean' = (seenIsolation = isolation /\ seenPods = pods /\ ~outage)
    /\ before' = IF clean' THEN pods ELSE NoPods
    /\ UNCHANGED <<world, cached, todoPods, target, todoImages, removed>>

\* The pods of a Tenant's namespace that are not already being deleted.
PodsToCheck(t) ==
    {l \in [key : {k \in PodKey : PodNs[k] = NsOf[t]}, pod : {seenPods[k] : k \in PodKey} \ {None}] :
        l.pod = seenPods[l.key] /\ ~l.pod.terminating}

NextTenant(t) ==
    /\ pc = "tenants" /\ t \in todoTenants
    /\ todoTenants' = todoTenants \ {t}
    /\ todoPods' = PodsToCheck(t) /\ pc' = "pods"
    /\ UNCHANGED <<world, cached, target, todoImages, removed, history>>

\* Mutant: Start scans once and has no loop.
ScanOnce ==
    /\ pc = "tenants" /\ todoTenants = {} /\ pc' = "stopped"
    /\ UNCHANGED <<world, cached, todoTenants, todoPods, target, todoImages, removed, history>>

EndScan ==
    /\ pc = "tenants" /\ todoTenants = {} /\ pc' = "wait"
    /\ log' = {}
    /\ UNCHANGED <<world, cached, todoTenants, todoPods, target, todoImages, removed, clean, before>>

NextPod(l) ==
    /\ pc = "pods" /\ l \in todoPods
    /\ todoPods' = todoPods \ {l}
    /\ target' = l /\ todoImages' = l.pod.images /\ pc' = "verify"
    /\ UNCHANGED <<world, cached, todoTenants, removed, history>>

EndTenant ==
    /\ pc = "pods" /\ todoPods = {} /\ pc' = "tenants"
    /\ UNCHANGED <<world, cached, todoTenants, todoPods, target, todoImages, removed, history>>

\* Mutant: one verified image is enough.
VerifyAny(i) ==
    /\ pc = "verify" /\ i \in todoImages
    /\ todoImages' = IF Verifies(i) THEN {} ELSE todoImages \ {i}
    /\ pc' = IF Verifies(i) THEN "verify" ELSE "delete"
    /\ UNCHANGED <<world, cached, todoTenants, todoPods, target, removed, history>>

VerifyImage(i) ==
    /\ pc = "verify" /\ i \in todoImages
    /\ todoImages' = todoImages \ {i}
    /\ pc' = IF Verifies(i) THEN "verify" ELSE "delete"
    /\ UNCHANGED <<world, cached, todoTenants, todoPods, target, removed, history>>

\* Mutant: the pod of the last deletion is kept.
LeaveKeepingPod == pc' = "pods" /\ todoImages' = {} /\ removed' = None /\ UNCHANGED target

\* Leave the current pod for the next one.
LeavePod == pc' = "pods" /\ target' = None /\ todoImages' = {} /\ removed' = None

PodVerified ==
    /\ pc = "verify" /\ todoImages = {}
    /\ LeavePod
    /\ UNCHANGED <<world, cached, todoTenants, todoPods, history>>

\* Delete by name with grace period 0: whatever pod has the name now is gone
\* at once; a pod already gone is as good as deleted.
DeletePod ==
    LET victim == pods[target.key] IN
    /\ pc = "delete" /\ pc' = "notify"
    /\ pods' = [pods EXCEPT ![target.key] = None]
    /\ removed' = IF victim = None THEN None ELSE victim.uid
    /\ UNCHANGED <<isolation, signed, outage, made, disruptions, cached,
                   todoTenants, todoPods, target, todoImages, history>>

\* Mutant: no break after the notice.
NotifyWithoutBreak ==
    /\ pc = "notify" /\ pc' = "verify"
    /\ log' = log \cup {[key |-> target.key, uid |-> target.pod.uid, removed |-> removed]}
    /\ UNCHANGED <<world, cached, todoTenants, todoPods, target, todoImages, removed, clean, before>>

\* The notice goes out whatever became of the deletion, if Telegram takes it;
\* then the pod's other images are not looked at.
Notify ==
    /\ pc = "notify"
    /\ log' = log \cup {[key |-> target.key, uid |-> target.pod.uid, removed |-> removed]}
    /\ LeavePod
    /\ UNCHANGED <<world, cached, todoTenants, todoPods, clean, before>>

-----------------------------------------------------------------------------
(* The surroundings.                                                       *)

SyncPod(k) ==
    /\ seenPods[k] # pods[k]
    /\ seenPods' = [seenPods EXCEPT ![k] = pods[k]]
    /\ UNCHANGED <<world, seenIsolation, scan, history>>

SyncTenant(t) ==
    /\ seenIsolation[t] # isolation[t]
    /\ seenIsolation' = [seenIsolation EXCEPT ![t] = isolation[t]]
    /\ UNCHANGED <<world, seenPods, scan, history>>

Disturb == clean' = FALSE /\ before' = NoPods /\ UNCHANGED log
Disrupt == disruptions < MaxDisruptions /\ disruptions' = disruptions + 1 /\ Disturb

CreatePod(k) ==
    /\ pods[k] = None /\ made < MaxPods /\ made' = made + 1
    /\ \E images \in (SUBSET Image) \ {{}} :
         pods' = [pods EXCEPT ![k] =
                    [uid |-> made + 1, images |-> images, terminating |-> FALSE]]
    /\ Disturb
    /\ UNCHANGED <<isolation, signed, outage, disruptions, cached, scan>>

\* A user's delete is graceful: the kubelet removes the pod later.
TerminatePod(k) ==
    /\ pods[k] # None /\ ~pods[k].terminating /\ Disrupt
    /\ pods' = [pods EXCEPT ![k].terminating = TRUE]
    /\ UNCHANGED <<isolation, signed, outage, made, cached, scan>>

RemovePod(k) ==
    /\ pods[k] # None /\ pods[k].terminating
    /\ pods' = [pods EXCEPT ![k] = None] /\ Disturb
    /\ UNCHANGED <<isolation, signed, outage, made, disruptions, cached, scan>>

EditTenant(t) ==
    /\ Disrupt
    /\ \E i \in IsolationText \ {isolation[t]} : isolation' = [isolation EXCEPT ![t] = i]
    /\ UNCHANGED <<pods, signed, outage, made, cached, scan>>

\* An image is signed, or its tag is moved to content that is not.
MoveTag(i) ==
    /\ Disrupt
    /\ signed' = IF i \in signed THEN signed \ {i} ELSE signed \cup {i}
    /\ UNCHANGED <<isolation, pods, outage, made, cached, scan>>

BeginOutage ==
    /\ ~outage /\ outage' = TRUE /\ Disrupt
    /\ UNCHANGED <<isolation, pods, signed, made, cached, scan>>

EndOutage ==
    /\ outage /\ outage' = FALSE /\ Disturb
    /\ UNCHANGED <<isolation, pods, signed, made, disruptions, cached, scan>>

\* Listing the Tenants fails: no scan until the next tick.
ListTenantsFails ==
    /\ pc = "wait" /\ Disrupt
    /\ UNCHANGED <<isolation, pods, signed, outage, made, cached, scan>>

\* Listing a Tenant's pods fails: the scan goes on with the next Tenant.
ListPodsFails(t) ==
    /\ pc = "tenants" /\ t \in todoTenants /\ todoTenants' = todoTenants \ {t}
    /\ Disrupt
    /\ UNCHANGED <<isolation, pods, signed, outage, made, cached,
                   pc, todoPods, target, todoImages, removed>>

DeleteFails ==
    /\ pc = "delete" /\ pc' = "notify" /\ Disrupt
    /\ UNCHANGED <<isolation, pods, signed, outage, made, cached, removed,
                   todoTenants, todoPods, target, todoImages>>

\* The manager crashes or loses the lease; the next one fills its caches afresh.
RestartManager ==
    /\ Disrupt /\ LeavePod /\ seenIsolation' = isolation /\ seenPods' = pods
    /\ UNCHANGED <<isolation, pods, signed, outage, made>>
    /\ todoTenants' = {} /\ todoPods' = {}

-----------------------------------------------------------------------------

Scan ==
    \/ StartScan \/ EndScan \/ EndTenant \/ PodVerified \/ DeletePod \/ Notify
    \/ \E t \in Tenant : NextTenant(t)
    \/ \E l \in todoPods : NextPod(l)
    \/ \E i \in Image : VerifyImage(i)

Surroundings ==
    \/ \E k \in PodKey : SyncPod(k) \/ CreatePod(k) \/ TerminatePod(k) \/ RemovePod(k)
    \/ \E t \in Tenant : SyncTenant(t) \/ EditTenant(t) \/ ListPodsFails(t)
    \/ \E i \in Image : MoveTag(i)
    \/ BeginOutage \/ EndOutage \/ ListTenantsFails \/ DeleteFails \/ RestartManager

Next == Scan \/ Surroundings

Spec == Init /\ [][Next]_vars

\* The ticker keeps ticking, every call of a scan returns, the watches deliver.
Fairness ==
    /\ WF_vars(Scan)
    /\ \A k \in PodKey : WF_vars(SyncPod(k))
    /\ \A t \in Tenant : WF_vars(SyncTenant(t))

FairSpec == Spec /\ Fairness

-----------------------------------------------------------------------------
(* Properties.                                                             *)

\* Pod p, at key k, is one the scan exists to remove.
NonCompliant(k, p) ==
    /\ p # None /\ Managed(PodNs[k]) /\ ~p.terminating
    /\ \E i \in p.images : i \notin signed

Offends(u) == \E k \in PodKey : NonCompliant(k, pods[k]) /\ pods[k].uid = u

\* A scan that nothing disturbs, from caches that were current, removes exactly
\* the non-compliant pods of the managed namespaces (scanAndEnforcePodImages):
\* none escapes through a continue or break, and nothing else is touched.
QuietScanExact ==
    clean => \A k \in PodKey :
        IF NonCompliant(k, before[k])
          THEN pods[k] \in {before[k], None} /\ (pc = "wait" => pods[k] = None)
          ELSE pods[k] = before[k]

\* "One failing image is enough [...] don't spam": a scan enforces and reports
\* a pod once, however many of its images fail.
OnceAPod ==
    \A x, y \in log : x.key = y.key /\ x.uid = y.uid => x = y

\* Enforcement happens: a non-compliant pod does not run for ever, in spite of
\* stale listings, failing calls, other Tenants' failures and restarts.
EventuallyEnforced ==
    \A u \in Uid : Offends(u) ~> ~Offends(u)

\* What the scan removes is the pod whose image failed ("deleted non-compliant
\* pod (signature verification failed)").
RemovesTheJudged ==
    \A x \in log : x.removed \in {None, x.uid}
=============================================================================
