----------------------- MODULE SignatureScannerProofs -----------------------
(***************************************************************************)
(* Proofs about SignatureScanner, for any Tenants, pods, images and number *)
(* of disruptions: type correctness, what an undisturbed scan removes, and *)
(* that a scan reports a pod once.                                         *)
(***************************************************************************)
EXTENDS SignatureScanner, TLAPS

PodMap    == [PodKey -> Pod \cup {None}]
Isolation == [Tenant -> IsolationText]

USE DEF cached

LEMMA NextType == TypeOK /\ [Next]_vars => TypeOK'
<1> SUFFICES ASSUME TypeOK, [Next]_vars PROVE TypeOK'
    OBVIOUS
<1>0. /\ pods \in PodMap /\ seenPods \in PodMap /\ before \in PodMap /\ NoPods \in PodMap
      /\ isolation \in Isolation /\ seenIsolation \in Isolation
      /\ outage \in BOOLEAN /\ clean \in BOOLEAN
    BY DEF TypeOK, PodMap, NoPods, Isolation
<1>1. ASSUME pods' \in PodMap, seenPods' \in PodMap, before' \in PodMap,
             outage' \in BOOLEAN, clean' \in BOOLEAN,
             isolation' \in Isolation, seenIsolation' \in Isolation, signed' \subseteq Image,
             pc' \in {"wait", "tenants", "pods", "verify", "delete", "notify"},
             todoTenants' \subseteq Tenant, todoPods' \subseteq Listed,
             target' \in Listed \cup {None}, todoImages' \subseteq Image,
             removed' \in Uid \cup {None},
             log' \subseteq [key : PodKey, uid : Uid, removed : Uid \cup {None}],
             pc' \in {"verify", "delete", "notify"} <=> target' # None,
             made' \in 0..MaxPods, disruptions' \in 0..MaxDisruptions
      PROVE  TypeOK'
    BY <1>1 DEF TypeOK, PodMap, Isolation
<1>2. CASE UNCHANGED vars
    BY <1>2, <1>0, <1>1 DEF vars, world, scan, history, TypeOK
<1>3. ASSUME Disturb PROVE clean' \in BOOLEAN /\ before' \in PodMap /\ UNCHANGED log
    BY <1>0, <1>3 DEF Disturb
<1>4. ASSUME Disrupt
      PROVE  /\ clean' \in BOOLEAN /\ before' \in PodMap /\ UNCHANGED log
             /\ disruptions' \in 0..MaxDisruptions
    BY <1>3, <1>4, ScannerConstants DEF Disrupt, TypeOK
<1>5. CASE Scan
    <2>1. ASSUME UNCHANGED <<world, cached>>,
                 before' \in PodMap, clean' \in BOOLEAN,
                 pc' \in {"wait", "tenants", "pods", "verify", "delete", "notify"},
                 todoTenants' \subseteq Tenant, todoPods' \subseteq Listed,
                 target' \in Listed \cup {None}, todoImages' \subseteq Image,
                 removed' \in Uid \cup {None},
                 log' \subseteq [key : PodKey, uid : Uid, removed : Uid \cup {None}],
                 pc' \in {"verify", "delete", "notify"} <=> target' # None
          PROVE  TypeOK'
        BY <1>0, <1>1, <2>1 DEF world, TypeOK
    <2>2. CASE StartScan
        BY <1>0, <2>1, <2>2 DEF StartScan, TypeOK
    <2>3. CASE EndScan
        BY <1>0, <2>1, <2>3 DEF EndScan, TypeOK
    <2>4. CASE EndTenant
        BY <1>0, <2>1, <2>4 DEF EndTenant, TypeOK, history
    <2>5. CASE PodVerified
        BY <1>0, <2>1, <2>5 DEF PodVerified, LeavePod, TypeOK, history
    <2>6. CASE DeletePod
        <3>1. target \in Listed /\ target.key \in PodKey
            BY <2>6 DEF DeletePod, TypeOK, Listed
        <3>2. pods[target.key] \in Pod \cup {None} /\ pods' \in PodMap
            BY <1>0, <2>6, <3>1 DEF DeletePod, PodMap
        <3>3. removed' \in Uid \cup {None}
            BY <2>6, <3>2 DEF DeletePod, Pod
        <3>4. pc' \in {"verify", "delete", "notify"} /\ target' # None
            BY <2>6 DEF DeletePod, TypeOK
        <3> QED BY <1>0, <1>1, <2>6, <3>2, <3>3, <3>4 DEF DeletePod, TypeOK, history
    <2>7. CASE Notify
        <3>1. target \in Listed /\ target.key \in PodKey /\ target.pod.uid \in Uid
            BY <2>7 DEF Notify, TypeOK, Listed, Pod
        <3>2. log' \subseteq [key : PodKey, uid : Uid, removed : Uid \cup {None}]
            BY <2>7, <3>1 DEF Notify, TypeOK
        <3> QED BY <1>0, <2>1, <2>7, <3>2 DEF Notify, LeavePod, TypeOK
    <2>8. ASSUME NEW t \in Tenant, NextTenant(t) PROVE TypeOK'
        <3>1. PodsToCheck(t) \subseteq Listed
            BY <1>0 DEF PodsToCheck, Listed, PodMap
        <3> QED BY <1>0, <2>1, <2>8, <3>1 DEF NextTenant, TypeOK, history
    <2>9. ASSUME NEW l \in todoPods, NextPod(l) PROVE TypeOK'
        <3>1. l \in Listed /\ l # None /\ l.pod.images \subseteq Image
            BY NoneIsNoPod DEF TypeOK, Listed, Pod
        <3> QED BY <1>0, <2>1, <2>9, <3>1 DEF NextPod, TypeOK, history
    <2>10. ASSUME NEW i \in Image, VerifyImage(i) PROVE TypeOK'
        BY <1>0, <2>1, <2>10 DEF VerifyImage, TypeOK, history
    <2> QED BY <1>5, <2>2, <2>3, <2>4, <2>5, <2>6, <2>7, <2>8, <2>9, <2>10 DEF Scan
<1>6. CASE Surroundings
    <2>1. ASSUME UNCHANGED <<scan, log>>, pods' \in PodMap, seenPods' \in PodMap,
                 before' \in PodMap, outage' \in BOOLEAN, clean' \in BOOLEAN,
                 isolation' \in Isolation, seenIsolation' \in Isolation, signed' \subseteq Image,
                 made' \in 0..MaxPods, disruptions' \in 0..MaxDisruptions
          PROVE  TypeOK'
        BY <1>1, <2>1 DEF scan, TypeOK
    <2>2. ASSUME NEW k \in PodKey, SyncPod(k) PROVE TypeOK'
        <3>1. seenPods' \in PodMap
            BY <1>0, <2>2 DEF SyncPod, PodMap
        <3> QED BY <1>0, <2>1, <2>2, <3>1 DEF SyncPod, world, history, TypeOK
    <2>14. ASSUME NEW t \in Tenant, SyncTenant(t) PROVE TypeOK'
        <3>1. seenIsolation' \in Isolation
            BY <1>0, <2>14 DEF SyncTenant, Isolation
        <3> QED BY <1>0, <2>1, <2>14, <3>1 DEF SyncTenant, world, history, TypeOK
    <2>3. ASSUME NEW k \in PodKey, CreatePod(k) PROVE TypeOK'
        <3>1. PICK images \in (SUBSET Image) \ {{}} :
                pods' = [pods EXCEPT ![k] =
                           [uid |-> made + 1, images |-> images, terminating |-> FALSE]]
            BY <2>3 DEF CreatePod
        <3>2. made + 1 \in Uid /\ made' \in 0..MaxPods
            BY <2>3, ScannerConstants DEF CreatePod, TypeOK, Uid
        <3>3. [uid |-> made + 1, images |-> images, terminating |-> FALSE] \in Pod
            BY <3>2 DEF Pod
        <3>4. pods' \in PodMap
            BY <1>0, <3>1, <3>3 DEF PodMap
        <3> QED BY <1>0, <1>3, <2>1, <2>3, <3>2, <3>4 DEF CreatePod, TypeOK
    <2>4. ASSUME NEW k \in PodKey, TerminatePod(k) PROVE TypeOK'
        <3>1. pods[k] \in Pod
            BY <1>0, <2>4 DEF TerminatePod, PodMap
        <3>2. [pods[k] EXCEPT !.terminating = TRUE] \in Pod
            BY <3>1 DEF Pod
        <3>3. pods' \in PodMap
            BY <1>0, <2>4, <3>2 DEF TerminatePod, PodMap
        <3> QED BY <1>0, <1>4, <2>1, <2>4, <3>3 DEF TerminatePod, TypeOK
    <2>5. ASSUME NEW k \in PodKey, RemovePod(k) PROVE TypeOK'
        <3>1. pods' \in PodMap
            BY <1>0, <2>5 DEF RemovePod, PodMap
        <3> QED BY <1>0, <1>3, <2>1, <2>5, <3>1 DEF RemovePod, TypeOK
    <2>6. ASSUME NEW t \in Tenant, EditTenant(t) PROVE TypeOK'
        BY <1>0, <1>4, <2>1, <2>6 DEF EditTenant, Isolation, TypeOK
    <2>7. ASSUME NEW i \in Image, MoveTag(i) PROVE TypeOK'
        BY <1>0, <1>4, <2>1, <2>7 DEF MoveTag, TypeOK
    <2>8. CASE BeginOutage
        BY <1>0, <1>4, <2>1, <2>8 DEF BeginOutage, TypeOK
    <2>9. CASE EndOutage
        BY <1>0, <1>3, <2>1, <2>9 DEF EndOutage, TypeOK
    <2>10. CASE ListTenantsFails
        BY <1>0, <1>4, <2>1, <2>10 DEF ListTenantsFails, TypeOK
    <2>11. ASSUME NEW t \in Tenant, ListPodsFails(t) PROVE TypeOK'
        BY <1>0, <1>1, <1>4, <2>11 DEF ListPodsFails, TypeOK
    <2>12. CASE DeleteFails
        BY <1>0, <1>1, <1>4, <2>12 DEF DeleteFails, TypeOK
    <2>13. CASE RestartManager
        BY <1>0, <1>1, <1>4, <2>13 DEF RestartManager, LeavePod, TypeOK
    <2> QED BY <1>6, <2>2, <2>3, <2>4, <2>5, <2>6, <2>7, <2>8, <2>9, <2>10, <2>11, <2>12, <2>13,
               <2>14
            DEF Surroundings
<1> QED BY <1>2, <1>5, <1>6 DEF Next

LEMMA InitType == Init => TypeOK
<1> SUFFICES ASSUME Init PROVE TypeOK
    OBVIOUS
<1>1. \A m \in {pods, seenPods, before} : m \in [PodKey -> Pod \cup {None}]
    BY DEF Init, NoPods
<1>2. {outage, clean} \subseteq BOOLEAN /\ {isolation, seenIsolation} \subseteq Isolation
    BY DEF Init, Isolation
<1>3. made \in 0..MaxPods /\ disruptions \in 0..MaxDisruptions
    BY ScannerConstants DEF Init
<1> QED BY <1>1, <1>2, <1>3 DEF Init, TypeOK, Isolation

\* Every state of the scan and its surroundings is well typed.
THEOREM TypeCorrect == Spec => []TypeOK
BY InitType, NextType, PTL DEF Spec

-----------------------------------------------------------------------------
(* A scan reports a pod once.  Namespaces are listed one after the other and *)
(* each key once, so that a pod reported is on no list still to come; this   *)
(* takes Tenants with namespaces of their own.                             *)

OwnNamespaces == \A s, t \in Tenant : NsOf[s] = NsOf[t] => s = t

\* The pods listed and not done with.
Judged == todoPods \cup ({target} \ {None})

Listless ==
    /\ pc \in {"wait", "tenants"} => todoPods = {}
    /\ pc = "wait" => todoTenants = {}

OneListing == target \notin todoPods /\ \A l, m \in Judged : l.key = m.key => l = m

\* No Tenant still to be listed has the namespace of a pod listed or reported,
\* and no pod still listed is one reported.
NotAgain ==
    /\ \A l \in Judged, t \in todoTenants : PodNs[l.key] # NsOf[t]
    /\ \A x \in log :
         /\ \A l \in Judged : x.key # l.key
         /\ \A t \in todoTenants : PodNs[x.key] # NsOf[t]

OnceInv ==
    /\ TypeOK /\ Listless /\ OneListing /\ NotAgain
    /\ \A x, y \in log : x.key = y.key => x = y

LEMMA ListlessStep == TypeOK /\ Listless /\ [Next]_vars => Listless'
<1> SUFFICES ASSUME TypeOK, Listless, [Next]_vars PROVE Listless'
    OBVIOUS
<1>1. CASE UNCHANGED scan
    BY <1>1 DEF Listless, scan
<1>2. CASE Scan
    BY <1>2 DEF Scan, StartScan, EndScan, EndTenant, PodVerified, DeletePod, Notify, NextTenant,
                NextPod, VerifyImage, LeavePod, Listless
<1>3. CASE Surroundings
    <2>1. CASE DeleteFails
        BY <2>1 DEF DeleteFails, Listless
    <2>2. CASE RestartManager
        BY <2>2 DEF RestartManager, LeavePod, Listless
    <2>3. ASSUME NEW t \in Tenant, ListPodsFails(t) PROVE Listless'
        BY <2>3 DEF ListPodsFails, Listless
    <2>4. CASE UNCHANGED scan
        BY <1>1, <2>4
    <2> QED BY <1>3, <2>1, <2>2, <2>3, <2>4
            DEF Surroundings, SyncPod, SyncTenant, CreatePod, TerminatePod, RemovePod, EditTenant,
                MoveTag, BeginOutage, EndOutage, ListTenantsFails
<1>4. CASE UNCHANGED vars
    BY <1>1, <1>4 DEF vars
<1> QED BY <1>2, <1>3, <1>4 DEF Next

\* What the surroundings, and the steps that only look at images or fail, do to
\* the lists: nothing, or they drop some of them.
LEMMA ShorterLists ==
    ASSUME OnceInv, TypeOK', Listless', todoTenants' \subseteq todoTenants,
           todoPods' \subseteq todoPods, target' \in {target, None}, log' \in {log, {}}
    PROVE  OnceInv'
<1>1. Judged' \subseteq Judged
    BY DEF Judged
<1>2. OneListing'
    <2>1. target' \notin todoPods'
        BY NoneIsNoPod DEF OnceInv, OneListing, TypeOK
    <2> QED BY <1>1, <2>1 DEF OnceInv, OneListing
<1>3. NotAgain'
    BY <1>1 DEF OnceInv, NotAgain
<1> QED BY <1>2, <1>3 DEF OnceInv

LEMMA NextOnce == ASSUME OwnNamespaces, OnceInv, [Next]_vars PROVE OnceInv'
<1>1. TypeOK' /\ Listless' /\ TypeOK /\ Listless
    BY NextType, ListlessStep DEF OnceInv
<1>2. ASSUME NEW t \in Tenant, NextTenant(t) PROVE OnceInv'
    <2>1. /\ todoTenants' = todoTenants \ {t} /\ t \in todoTenants
          /\ todoPods' = PodsToCheck(t) /\ target' = None /\ UNCHANGED log
        BY <1>1, <1>2 DEF NextTenant, TypeOK, history
    <2>2. \A l \in todoPods' : PodNs[l.key] = NsOf[t] /\ l \in Listed /\ l.pod = seenPods[l.key]
        BY <1>1, <2>1 DEF PodsToCheck, TypeOK
    <2>3. Judged' = todoPods'
        BY <2>1 DEF Judged
    <2>4. OneListing'
        <3>1. target' \notin todoPods'
            BY <1>1, <2>1, NoneIsNoPod DEF TypeOK
        <3>2. \A l, m \in todoPods' : l.key = m.key => l = m
            BY <2>2 DEF Listed
        <3> QED BY <2>3, <3>1, <3>2 DEF OneListing
    <2>5. NotAgain'
        <3>1. \A s \in todoTenants' : s \in Tenant /\ NsOf[s] # NsOf[t]
            BY <1>1, <2>1 DEF TypeOK, OwnNamespaces
        <3> QED BY <2>1, <2>2, <2>3, <3>1 DEF OnceInv, NotAgain
    <2> QED BY <1>1, <2>1, <2>4, <2>5 DEF OnceInv
<1>3. ASSUME NEW l \in todoPods, NextPod(l) PROVE OnceInv'
    <2>1. /\ todoPods' = todoPods \ {l} /\ target' = l /\ UNCHANGED <<log, todoTenants>>
        BY <1>3 DEF NextPod, history
    <2>2. Judged' \subseteq Judged
        BY <2>1 DEF Judged
    <2>3. OneListing' /\ NotAgain'
        BY <2>1, <2>2 DEF OnceInv, OneListing, NotAgain
    <2> QED BY <1>1, <2>1, <2>3 DEF OnceInv
<1>4. CASE Notify
    <2> DEFINE x == [key |-> target.key, uid |-> target.pod.uid, removed |-> removed]
    <2>1. /\ log' = log \cup {x} /\ target' = None /\ UNCHANGED <<todoPods, todoTenants>>
          /\ target \in Judged /\ target # None
        BY <1>1, <1>4 DEF Notify, LeavePod, TypeOK, Judged
    <2>2. Judged' = todoPods
        BY <1>1, <2>1, NoneIsNoPod DEF Judged, TypeOK
    <2>3. \A l \in todoPods : l.key # target.key
        BY <2>1 DEF OnceInv, OneListing, Judged
    <2>4. \A y \in log : y.key # target.key
        BY <2>1 DEF OnceInv, NotAgain
    <2>5. x.key = target.key
        OBVIOUS
    <2> HIDE DEF x
    <2>6. OneListing'
        BY <1>1, <2>1, <2>2, NoneIsNoPod DEF OnceInv, OneListing, Judged, TypeOK
    <2>7. NotAgain'
        BY <2>1, <2>2, <2>3, <2>5 DEF OnceInv, NotAgain, Judged
    <2>8. \A y, z \in log' : y.key = z.key => y = z
        BY <2>1, <2>4, <2>5 DEF OnceInv
    <2> QED BY <1>1, <2>6, <2>7, <2>8 DEF OnceInv
<1>5. CASE StartScan
    <2>1. log' = {} /\ todoPods' = {} /\ target' = None
        BY <1>1, <1>5 DEF StartScan, Listless, TypeOK
    <2> QED BY <1>1, <2>1 DEF OnceInv, OneListing, NotAgain, Judged
<1>6. CASE EndScan \/ EndTenant \/ PodVerified \/ DeletePod \/ \E i \in Image : VerifyImage(i)
    BY <1>1, <1>6, ShorterLists
       DEF EndScan, EndTenant, PodVerified, DeletePod, VerifyImage, LeavePod, history
<1>7. CASE Surroundings
    <2>1. CASE RestartManager
        BY <1>1, <2>1, ShorterLists DEF RestartManager, LeavePod, Disrupt, Disturb
    <2>2. CASE ~RestartManager
        <3>1. todoTenants' \subseteq todoTenants /\ UNCHANGED <<todoPods, target, log>>
            BY <1>7, <2>2
               DEF Surroundings, SyncPod, SyncTenant, CreatePod, TerminatePod, RemovePod, EditTenant,
                   MoveTag, BeginOutage, EndOutage, ListTenantsFails, ListPodsFails, DeleteFails, scan,
                   history, Disrupt, Disturb
        <3> QED BY <1>1, <3>1, ShorterLists
    <2> QED BY <2>1, <2>2
<1>8. CASE UNCHANGED vars
    BY <1>1, <1>8, ShorterLists DEF vars, scan, history
<1> QED BY <1>2, <1>3, <1>4, <1>5, <1>6, <1>7, <1>8 DEF Next, Scan

\* When no two Tenants share a namespace, as cluster-scoped ones cannot, a scan
\* reports a pod once, whatever fails, restarts or is replaced meanwhile.
THEOREM ReportedOnce ==
    ASSUME OwnNamespaces
    PROVE  Spec => []OnceAPod
<1>1. Init => OnceInv
    BY InitType DEF Init, OnceInv, Listless, OneListing, NotAgain, Judged
<1>2. OnceInv => OnceAPod
    BY DEF OnceInv, OnceAPod
<1>3. OnceInv /\ [Next]_vars => OnceInv'
    BY NextOnce
<1> QED BY <1>1, <1>2, <1>3, PTL DEF Spec

-----------------------------------------------------------------------------
(* An undisturbed scan.  A pod of the start it is to remove is still ahead on *)
(* its lists until it is removed, and nothing but such pods is ever removed.  *)

\* What is still ahead of the scan for key k, listed as pod p.
Ahead(k, p) ==
    \/ \E t \in todoTenants : NsOf[t] = PodNs[k]
    \/ [key |-> k, pod |-> p] \in todoPods
    \/ /\ target = [key |-> k, pod |-> p]
       /\ \/ pc = "verify" /\ \E i \in todoImages : i \notin signed
          \/ pc = "delete"

QuietWorld ==
    /\ ~outage
    /\ \A k \in PodKey :
         /\ pods[k] # before[k] => pods[k] = None /\ NonCompliant(k, before[k])
         /\ seenPods[k] \in {before[k], pods[k]}

QuietLists ==
    /\ \A t \in todoTenants : Enforced(t)
    /\ \A l \in Judged :
         l.pod = before[l.key] /\ Managed(PodNs[l.key]) /\ ~l.pod.terminating
    /\ pc = "verify" => todoImages \subseteq target.pod.images
    /\ pc = "delete" => NonCompliant(target.key, target.pod)

NoneEscapes ==
    \A k \in PodKey :
        NonCompliant(k, before[k]) /\ pods[k] = before[k] => Ahead(k, before[k])

QuietInv == TypeOK /\ Listless /\ (clean => QuietWorld /\ QuietLists /\ NoneEscapes)

LEMMA QuietEnough == QuietInv => QuietScanExact
<1> SUFFICES ASSUME QuietInv, clean, NEW k \in PodKey
             PROVE  IF NonCompliant(k, before[k])
                      THEN pods[k] \in {before[k], None} /\ (pc = "wait" => pods[k] = None)
                      ELSE pods[k] = before[k]
    BY DEF QuietScanExact
<1>1. pods[k] # before[k] => pods[k] = None /\ NonCompliant(k, before[k])
    BY DEF QuietInv, QuietWorld
<1>2. ASSUME NonCompliant(k, before[k]), pc = "wait", pods[k] = before[k] PROVE FALSE
    <2>1. target = None /\ todoPods = {} /\ todoTenants = {}
        BY <1>2 DEF QuietInv, TypeOK, Listless
    <2>2. [key |-> k, pod |-> before[k]] \in Listed
        BY <1>2 DEF QuietInv, TypeOK, NonCompliant, Listed
    <2>3. target # [key |-> k, pod |-> before[k]]
        BY <2>1, <2>2, NoneIsNoPod
    <2> QED BY <1>2, <2>1, <2>3 DEF QuietInv, NoneEscapes, Ahead
<1> QED BY <1>1, <1>2

\* A step that leaves the pods, the Tenants and the signatures as they are.
LEMMA SameWorld ==
    ASSUME QuietWorld, UNCHANGED <<world, before>>,
           \A k \in PodKey : seenPods'[k] \in {seenPods[k], pods[k]}
    PROVE  /\ QuietWorld'
           /\ \A t : Enforced(t)' <=> Enforced(t)
           /\ \A n : Managed(n)' <=> Managed(n)
           /\ \A k, p : NonCompliant(k, p)' <=> NonCompliant(k, p)
BY DEF QuietWorld, world, Enforced, Managed, NonCompliant

LEMMA StartQuiet == ASSUME QuietInv, TypeOK', Listless', StartScan PROVE QuietInv'
<1> SUFFICES ASSUME clean' PROVE (QuietWorld /\ QuietLists /\ NoneEscapes)'
    BY DEF QuietInv
<1>1. /\ seenPods = pods /\ ~outage /\ before' = pods /\ UNCHANGED <<world, cached>>
      /\ todoTenants' = {t \in Tenant : Enforced(t)} /\ pc' = "tenants"
      /\ target' = None /\ todoPods' = {}
    BY DEF StartScan, Enforced, QuietInv, TypeOK, Listless
<1>2. Judged' = {}
    BY <1>1 DEF Judged
<1>3. QuietWorld'
    BY <1>1 DEF QuietWorld, world
<1>4. QuietLists'
    BY <1>1, <1>2 DEF QuietLists, Enforced, world
<1>5. NoneEscapes'
    BY <1>1 DEF NoneEscapes, NonCompliant, Managed, Enforced, Ahead, world
<1> QED BY <1>3, <1>4, <1>5

LEMMA ListQuiet ==
    ASSUME QuietInv, TypeOK', Listless', NEW t \in Tenant, NextTenant(t) PROVE QuietInv'
<1> SUFFICES ASSUME clean' PROVE (QuietWorld /\ QuietLists /\ NoneEscapes)'
    BY DEF QuietInv
<1>1. /\ UNCHANGED <<world, cached, before, clean>> /\ pc = "tenants" /\ t \in todoTenants
      /\ todoTenants' = todoTenants \ {t} /\ todoPods' = PodsToCheck(t) /\ pc' = "pods"
      /\ target = None /\ target' = None /\ todoPods = {}
    BY DEF NextTenant, history, QuietInv, TypeOK, Listless
<1>2. QuietWorld /\ QuietLists /\ NoneEscapes /\ TypeOK
    BY <1>1 DEF QuietInv
<1>3. /\ QuietWorld' /\ \A s : Enforced(s)' <=> Enforced(s)
      /\ \A n : Managed(n)' <=> Managed(n)
      /\ \A k, p : NonCompliant(k, p)' <=> NonCompliant(k, p)
    BY <1>1, <1>2, SameWorld
<1>4. QuietLists'
    <2>1. ASSUME NEW l \in Judged' PROVE l.pod = before[l.key] /\ Managed(PodNs[l.key])
                                           /\ ~l.pod.terminating
        <3>1. /\ l.key \in PodKey /\ PodNs[l.key] = NsOf[t] /\ l.pod = seenPods[l.key]
              /\ l.pod # None /\ ~l.pod.terminating
            BY <1>1, <2>1 DEF Judged, PodsToCheck
        <3>2. l.pod = before[l.key]
            BY <1>2, <3>1 DEF QuietWorld
        <3>3. Managed(PodNs[l.key])
            BY <1>1, <1>2, <3>1 DEF Managed, QuietLists
        <3> QED BY <3>1, <3>2, <3>3
    <2> QED BY <1>1, <1>2, <1>3, <2>1 DEF QuietLists
<1>5. NoneEscapes'
    <2> SUFFICES ASSUME NEW k \in PodKey, NonCompliant(k, before[k]), pods[k] = before[k]
                 PROVE  Ahead(k, before[k])'
        BY <1>1, <1>3 DEF NoneEscapes, world
    <2>1. [key |-> k, pod |-> before[k]] # None
        BY <1>2, NoneIsNoPod DEF TypeOK, NonCompliant, Listed
    <2>2. PICK s \in todoTenants : NsOf[s] = PodNs[k]
        BY <1>1, <1>2, <2>1 DEF NoneEscapes, Ahead
    <2>3. CASE s # t
        BY <1>1, <2>2, <2>3 DEF Ahead
    <2>4. CASE s = t
        <3>1. seenPods[k] = before[k] /\ before[k] # None /\ ~before[k].terminating
            BY <1>2 DEF QuietWorld, NonCompliant
        <3>2. [key |-> k, pod |-> before[k]] \in PodsToCheck(t)
            BY <2>2, <2>4, <3>1 DEF PodsToCheck
        <3> QED BY <1>1, <3>2 DEF Ahead
    <2> QED BY <2>3, <2>4
<1> QED BY <1>3, <1>4, <1>5

LEMMA NextPodQuiet ==
    ASSUME QuietInv, TypeOK', Listless', NEW l \in todoPods, NextPod(l) PROVE QuietInv'
<1> SUFFICES ASSUME clean' PROVE (QuietWorld /\ QuietLists /\ NoneEscapes)'
    BY DEF QuietInv
<1>1. /\ UNCHANGED <<world, cached, before, clean, todoTenants>> /\ pc = "pods"
      /\ todoPods' = todoPods \ {l} /\ pc' = "verify" /\ todoImages' = l.pod.images
      /\ target = None /\ target' = l
    BY DEF NextPod, history, QuietInv, TypeOK
<1>2. QuietWorld /\ QuietLists /\ NoneEscapes /\ TypeOK
    BY <1>1 DEF QuietInv
<1>3. /\ QuietWorld' /\ \A s : Enforced(s)' <=> Enforced(s)
      /\ \A n : Managed(n)' <=> Managed(n)
      /\ \A k, p : NonCompliant(k, p)' <=> NonCompliant(k, p)
    BY <1>1, <1>2, SameWorld
<1>4. QuietLists'
    <2>1. Judged' \subseteq Judged
        BY <1>1 DEF Judged
    <2> QED BY <1>1, <1>2, <1>3, <2>1 DEF QuietLists
<1>5. NoneEscapes'
    <2> SUFFICES ASSUME NEW k \in PodKey, NonCompliant(k, before[k]), pods[k] = before[k]
                 PROVE  Ahead(k, before[k])'
        BY <1>1, <1>3 DEF NoneEscapes, world
    <2>1. Ahead(k, before[k])
        BY <1>2 DEF NoneEscapes
    <2>2. CASE l = [key |-> k, pod |-> before[k]]
        BY <1>1, <2>2 DEF Ahead, NonCompliant, world
    <2>3. CASE l # [key |-> k, pod |-> before[k]]
        BY <1>1, <2>1, <2>3 DEF Ahead
    <2> QED BY <2>2, <2>3
<1> QED BY <1>3, <1>4, <1>5

LEMMA VerifyQuiet ==
    ASSUME QuietInv, TypeOK', Listless', NEW i \in Image, VerifyImage(i) PROVE QuietInv'
<1> SUFFICES ASSUME clean' PROVE (QuietWorld /\ QuietLists /\ NoneEscapes)'
    BY DEF QuietInv
<1>1. /\ UNCHANGED <<world, cached, before, clean, todoTenants, todoPods, target>>
      /\ pc = "verify" /\ i \in todoImages /\ todoImages' = todoImages \ {i}
      /\ pc' = IF Verifies(i) THEN "verify" ELSE "delete"
    BY DEF VerifyImage, history
<1>2. QuietWorld /\ QuietLists /\ NoneEscapes /\ TypeOK
    BY <1>1 DEF QuietInv
<1>3. /\ QuietWorld' /\ \A s : Enforced(s)' <=> Enforced(s)
      /\ \A n : Managed(n)' <=> Managed(n)
      /\ \A k, p : NonCompliant(k, p)' <=> NonCompliant(k, p)
    BY <1>1, <1>2, SameWorld
<1>4. Verifies(i) <=> i \in signed
    BY <1>2 DEF Verifies, QuietWorld
<1>5. QuietLists'
    <2>1. Judged' = Judged /\ target \in Judged
        BY <1>1, <1>2 DEF Judged, TypeOK
    <2>2. pc' = "delete" => NonCompliant(target.key, target.pod)
        <3>1. target \in Listed /\ target.pod # None
            BY <1>1, <1>2, NoneIsNoPod DEF TypeOK, Listed
        <3> QED BY <1>1, <1>2, <1>4, <2>1, <3>1 DEF QuietLists, NonCompliant
    <2> QED BY <1>1, <1>2, <1>3, <2>1, <2>2 DEF QuietLists
<1>6. NoneEscapes'
    <2> SUFFICES ASSUME NEW k \in PodKey, NonCompliant(k, before[k]), pods[k] = before[k]
                 PROVE  Ahead(k, before[k])'
        BY <1>1, <1>3 DEF NoneEscapes, world
    <2>1. Ahead(k, before[k])
        BY <1>2 DEF NoneEscapes
    <2> QED BY <1>1, <1>4, <2>1 DEF Ahead, world
<1> QED BY <1>3, <1>5, <1>6

LEMMA DeleteQuiet == ASSUME QuietInv, TypeOK', Listless', DeletePod PROVE QuietInv'
<1> SUFFICES ASSUME clean' PROVE (QuietWorld /\ QuietLists /\ NoneEscapes)'
    BY DEF QuietInv
<1>1. /\ UNCHANGED <<isolation, signed, outage, cached, before, clean, todoTenants, todoPods, target>>
      /\ pc = "delete" /\ pc' = "notify" /\ pods' = [pods EXCEPT ![target.key] = None]
    BY DEF DeletePod, history
<1>2. QuietWorld /\ QuietLists /\ NoneEscapes /\ TypeOK
    BY <1>1 DEF QuietInv
<1>3. target \in Listed /\ target \in Judged /\ target.key \in PodKey
    BY <1>1, <1>2 DEF TypeOK, Listed, Judged
<1>4. \A k \in PodKey : pods'[k] = IF k = target.key THEN None ELSE pods[k]
    BY <1>1, <1>2 DEF TypeOK
<1>5. /\ \A s : Enforced(s)' <=> Enforced(s)
      /\ \A n : Managed(n)' <=> Managed(n)
      /\ \A k, p : NonCompliant(k, p)' <=> NonCompliant(k, p)
    BY <1>1 DEF Enforced, Managed, NonCompliant
<1>6. NonCompliant(target.key, before[target.key])
    BY <1>1, <1>2, <1>3 DEF QuietLists
<1>7. QuietWorld'
    BY <1>1, <1>2, <1>4, <1>5, <1>6 DEF QuietWorld
<1>8. QuietLists'
    <2>1. Judged' = Judged
        BY <1>1 DEF Judged
    <2> QED BY <1>1, <1>2, <1>5, <2>1 DEF QuietLists
<1>9. NoneEscapes'
    <2> SUFFICES ASSUME NEW k \in PodKey, NonCompliant(k, before[k]), pods'[k] = before[k]
                 PROVE  Ahead(k, before[k])'
        BY <1>1, <1>5 DEF NoneEscapes
    <2>1. k # target.key
        BY <1>4 DEF NonCompliant
    <2>2. Ahead(k, before[k])
        BY <1>2, <1>4, <2>1 DEF NoneEscapes
    <2> QED BY <1>1, <2>1, <2>2 DEF Ahead
<1> QED BY <1>7, <1>8, <1>9

\* The steps that are done with a pod, a Tenant or the scan, and the cache's.
LEMMA LeaveQuiet ==
    ASSUME QuietInv, TypeOK', Listless',
           \/ EndScan \/ EndTenant \/ PodVerified \/ Notify \/ UNCHANGED vars
           \/ \E k \in PodKey : SyncPod(k)
           \/ \E t \in Tenant : SyncTenant(t)
    PROVE  QuietInv'
<1> SUFFICES ASSUME clean' PROVE (QuietWorld /\ QuietLists /\ NoneEscapes)'
    BY DEF QuietInv
<1>1. UNCHANGED <<world, before, clean, todoTenants, todoPods>>
    BY DEF EndScan, EndTenant, PodVerified, Notify, SyncPod, SyncTenant, vars, history, scan
<1>2. QuietWorld /\ QuietLists /\ NoneEscapes /\ TypeOK
    BY <1>1 DEF QuietInv
<1>3. \A k \in PodKey : seenPods'[k] \in {seenPods[k], pods[k]}
    BY <1>2 DEF EndScan, EndTenant, PodVerified, Notify, SyncPod, SyncTenant, vars, TypeOK
<1>4. /\ QuietWorld' /\ \A s : Enforced(s)' <=> Enforced(s)
      /\ \A n : Managed(n)' <=> Managed(n)
      /\ \A k, p : NonCompliant(k, p)' <=> NonCompliant(k, p)
    BY <1>1, <1>2, <1>3, SameWorld
<1>5. \/ UNCHANGED <<pc, target, todoImages>>
      \/ /\ target' = None /\ pc' \notin {"verify", "delete"}
         /\ pc = "verify" => todoImages = {}
         /\ pc # "delete"
    BY <1>2 DEF EndScan, EndTenant, PodVerified, Notify, SyncPod, SyncTenant, vars, scan,
       LeavePod, TypeOK
<1>6. QuietLists'
    <2>1. Judged' \subseteq Judged
        BY <1>1, <1>5 DEF Judged
    <2> QED BY <1>1, <1>2, <1>4, <1>5, <2>1 DEF QuietLists
<1>7. NoneEscapes'
    <2> SUFFICES ASSUME NEW k \in PodKey, NonCompliant(k, before[k]), pods[k] = before[k]
                 PROVE  Ahead(k, before[k])'
        BY <1>1, <1>4 DEF NoneEscapes, world
    <2>1. Ahead(k, before[k])
        BY <1>2 DEF NoneEscapes
    <2> QED BY <1>1, <1>5, <2>1 DEF Ahead, world
<1> QED BY <1>4, <1>6, <1>7

LEMMA NextQuiet == QuietInv /\ [Next]_vars => QuietInv'
<1> SUFFICES ASSUME QuietInv, [Next]_vars PROVE QuietInv'
    OBVIOUS
<1>1. TypeOK' /\ Listless'
    BY NextType, ListlessStep DEF QuietInv
<1>2. CASE Scan
    BY <1>1, <1>2, StartQuiet, ListQuiet, NextPodQuiet, VerifyQuiet, DeleteQuiet, LeaveQuiet
       DEF Scan, QuietInv, TypeOK
<1>3. CASE Surroundings
    <2>1. CASE (\E k \in PodKey : SyncPod(k)) \/ (\E t \in Tenant : SyncTenant(t))
        BY <1>1, <2>1, LeaveQuiet
    <2>2. CASE clean' = FALSE
        BY <1>1, <2>2 DEF QuietInv
    <2> QED BY <1>3, <2>1, <2>2
            DEF Surroundings, CreatePod, TerminatePod, RemovePod, EditTenant, ListPodsFails, MoveTag,
                BeginOutage, EndOutage, ListTenantsFails, DeleteFails, RestartManager, Disrupt,
                Disturb
<1>4. CASE UNCHANGED vars
    BY <1>1, <1>4, LeaveQuiet
<1> QED BY <1>2, <1>3, <1>4 DEF Next

\* A scan that nothing disturbs removes exactly the non-compliant pods of the
\* managed namespaces, however many Tenants, pods and images there are.
THEOREM QuietScan == Spec => []QuietScanExact
<1>1. Init => QuietInv
    BY InitType DEF Init, QuietInv, Listless
<1> QED BY <1>1, NextQuiet, QuietEnough, PTL DEF Spec
=============================================================================
