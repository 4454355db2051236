------------------------ MODULE TenantTrafficProofs ------------------------
(***************************************************************************)
(* Proofs about TenantTraffic, for any labels, flags, clients and faults.  *)
(***************************************************************************)
EXTENDS TenantTraffic, ShieldctlProvisioningProofs

\* Of the two policies, each rule has a peer, and the rules are those of the flags.
LEMMA RulesOfPolicies ==
    ASSUME NEW p \in Policies, NEW d \in Direction, NEW rule \in p[d]
    PROVE  \E c \in {object["netpol"]} \ {None} :
              /\ p = TenantNetworkPolicy(flags[c])
              /\ \E i \in DOMAIN flags[c][d] : rule = {flags[c][d][i]}
<1>1. CASE p = DefaultDeny
  BY <1>1 DEF DefaultDeny, Direction
<1>2. ASSUME NEW c \in {object["netpol"]} \ {None}, p = TenantNetworkPolicy(flags[c])
      PROVE  \E i \in DOMAIN flags[c][d] : rule = {flags[c][d][i]}
  <2>1. p[d] = Rules(flags[c][d])
    <3>1. CASE d = "Ingress"
      BY <1>2, <3>1 DEF TenantNetworkPolicy
    <3>2. CASE d = "Egress"
      BY <1>2, <3>2 DEF TenantNetworkPolicy
    <3>3. QED
      BY <3>1, <3>2 DEF Direction
  <2>2. QED
    BY <2>1 DEF Rules, Peers
<1>3. QED
  BY <1>1, <1>2 DEF Policies

\* Whatever the flags and whoever built the Namespace, what CreateNetworkPolicy
\* and ensureNetworkPolicy write never lets another namespace in or out.
THEOREM NoOtherNamespace == TrafficSpec => []NothingFromOutside
<1>1. NothingFromOutside
  <2> SUFFICES ASSUME NEW pod \in Pod, NEW d \in Direction,
                      Selecting(Policies, pod, d) # {},
                      Admits(Selecting(Policies, pod, d), d, Outside)
               PROVE  FALSE
    BY DEF NothingFromOutside
  <2>1. PICK p \in Selecting(Policies, pod, d) : \E rule \in p[d] : Names(rule, Outside)
    BY DEF Admits
  <2>2. PICK rule \in p[d] : Names(rule, Outside)
    BY <2>1
  <2>3. p \in Policies
    BY DEF Selecting
  <2>4. rule # {}
    BY <2>3, RulesOfPolicies
  <2>5. QED
    BY <2>2, <2>4 DEF Names
<1>2. QED
  BY <1>1, PTL

\* The flags' policy applies to a pod in a direction just when they say so.
LEMMA TypesAsAsked ==
    ASSUME NEW f, NEW pod, NEW d \in Direction
    PROVE  LET p == TenantNetworkPolicy(f) IN
             d \in p.policyTypes /\ p.podSelector \subseteq pod
               <=> /\ f.podSelector \subseteq pod
                   /\ \/ d \in f.policyTypes
                      \/ f.policyTypes = {} /\ (d = "Egress" => f.Egress # <<>>)
<1>1. CASE f.policyTypes # {}
  BY <1>1 DEF TenantNetworkPolicy
<1>2. CASE f.policyTypes = {}
  BY <1>2 DEF TenantNetworkPolicy, Direction
<1>3. QED
  BY <1>1, <1>2

\* Beside default-deny, the policy of CreateNetworkPolicy admits exactly the
\* traffic its flags name, for any labels and any flags: neither hides the other.
THEOREM AsAsked == TrafficSpec => []JustWhatWasAsked
<1>1. JustWhatWasAsked
  <2> SUFFICES ASSUME deny = "wanted", NEW pod \in Pod, NEW other \in Pod,
                      NEW d \in Direction, NEW selecting,
                      selecting = Selecting(Policies, pod, d)
               PROVE  Admits(selecting, d, other) <=>
                        object["netpol"] # None
                          /\ Asked(flags[object["netpol"]], pod, d, other)
    BY DEF JustWhatWasAsked
  <2> DEFINE c == object["netpol"]
             mine == TenantNetworkPolicy(flags[c])
  <2>1. DefaultDeny \in selecting
    BY DEF Selecting, Policies, DefaultDeny
  <2>2. other # Outside
    BY TrafficConstants DEF Pod
  <2>3. ASSUME Admits(selecting, d, other) PROVE c # None /\ Asked(flags[c], pod, d, other)
    <3>a. PICK p \in selecting : \E rule \in p[d] : Names(rule, other)
      BY <2>1, <2>3 DEF Admits
    <3>1. PICK rule \in p[d] : Names(rule, other)
      BY <3>a
    <3>2. p \in Policies /\ d \in p.policyTypes /\ p.podSelector \subseteq pod
      BY DEF Selecting
    <3>3. /\ c # None /\ p = mine
          /\ \E i \in DOMAIN flags[c][d] : rule = {flags[c][d][i]}
      BY <3>2, RulesOfPolicies
    <3>4. \E i \in DOMAIN flags[c][d] : flags[c][d][i] \subseteq other
      BY <3>1, <3>3 DEF Names
    <3>5. QED
      BY <3>2, <3>3, <3>4, TypesAsAsked DEF Asked
  <2>4. ASSUME c # None, Asked(flags[c], pod, d, other) PROVE Admits(selecting, d, other)
    <3>1. PICK i \in DOMAIN flags[c][d] : flags[c][d][i] \subseteq other
      BY <2>4 DEF Asked
    <3>2. mine \in Policies
      BY <2>4 DEF Policies
    <3>3. mine \in selecting
      BY <2>4, <3>2, TypesAsAsked DEF Asked, Selecting
    <3>4. {flags[c][d][i]} \in mine[d]
      <4>1. CASE d = "Ingress"
        BY <4>1 DEF TenantNetworkPolicy, Rules, Peers
      <4>2. CASE d = "Egress"
        BY <4>2 DEF TenantNetworkPolicy, Rules, Peers
      <4>3. QED
        BY <4>1, <4>2 DEF Direction
    <3>5. Names({flags[c][d][i]}, other)
      BY <2>2, <3>1 DEF Names
    <3>6. QED
      BY <3>3, <3>4, <3>5 DEF Admits
  <2>5. QED
    BY <2>3, <2>4
<1>2. QED
  BY <1>1, PTL

-----------------------------------------------------------------------------
(* Both builders together keep what each client relies on.                 *)

\* What a step of the composition is for the clients: one of theirs, a creation by
\* the reconciler, the end of the Namespace with its Tenant, or nothing.
LEMMA StepOfTraffic ==
    ASSUME TrafficNext
    PROVE  \/ [Next]_vars
           \/ \E c \in Client : Refuse(c)
           \/ MakeNamespace \/ ReconcilePolicy \/ CollectNamespace
<1>1. \A c \in Client : Shieldctl(c) => Next
  BY DEF Shieldctl, Next
<1>2. Empty \/ Finalize => Next
  BY DEF Empty, Finalize, NamespaceController, Next
<1>3. SyncTenant \/ AdoptFound \/ Edit \/ LosePolicy \/ CreateTenant \/ DeleteTenant
        => UNCHANGED vars
  BY DEF SyncTenant, AdoptFound, Edit, LosePolicy, CreateTenant, DeleteTenant
<1>4. QED
  BY <1>1, <1>2, <1>3 DEF TrafficNext, ReconcileNamespace

LEMMA TrafficKeepsType == ASSUME TypeOK, [TrafficNext]_allVars PROVE TypeOK'
<1>1. ASSUME NEW c \in Client, Refuse(c) PROVE TypeOK'
  BY <1>1, ReturnType DEF Refuse, TypeOK
<1>2. CASE MakeNamespace
  BY <1>2, CreatedType DEF MakeNamespace, TypeOK
<1>3. CASE ReconcilePolicy
  BY <1>3, CreatedType DEF ReconcilePolicy, TypeOK
<1>4. CASE CollectNamespace
  BY <1>4 DEF CollectNamespace, Ended, AtWork, TypeOK
<1>5. CASE UNCHANGED allVars
  BY <1>5, NextType DEF allVars
<1>6. QED
  BY <1>1, <1>2, <1>3, <1>4, <1>5, NextType, StepOfTraffic

\* Nothing is in a Namespace that is not there, and nothing knows a Tenant that is not.
Housed ==
    /\ ns = Absent => deny = "absent" /\ object["netpol"] = None /\ holder = "nobody"
    /\ "tenant" \in {copy, holder} => tenant

\* A client makes objects only where the Namespace is, and does not end one.
LEMMA ClientHouses ==
    ASSUME TypeOK, NEW c \in Client, ClientStep(c) \/ ClientFault(c)
    PROVE  ns' = Absent => ns = Absent /\ object'["netpol"] \in {object["netpol"], None}
<1>1. CASE Start(c) \/ Report(c) \/ NoClientset(c) \/ DeleteFails(c) \/ Kill(c)
  BY <1>1 DEF Start, Report, NoClientset, DeleteFails, Kill
<1>2. CASE CreateNamespace(c)
  BY <1>2 DEF CreateNamespace, Absent
<1>3. CASE DeleteNamespace(c)
  BY <1>3 DEF DeleteNamespace, Absent, TypeOK
<1>4. ASSUME NEW k \in Kind, CreateObject(c, k)
      PROVE  ns' = Absent => ns = Absent /\ object'["netpol"] \in {object["netpol"], None}
  BY <1>4 DEF CreateObject, Absent
<1>5. ASSUME NEW k \in Kind, DeleteObject(c, k)
      PROVE  ns' = Absent => ns = Absent /\ object'["netpol"] \in {object["netpol"], None}
  BY <1>5 DEF DeleteObject, TypeOK, Kind
<1>6. CASE CreateFails(c)
  BY <1>6 DEF CreateFails, Absent
<1>7. QED
  BY <1>1, <1>2, <1>3, <1>4, <1>5, <1>6 DEF ClientStep, ClientFault

LEMMA TrafficTypeStep ==
    ASSUME TrafficTypeOK, [TrafficNext]_allVars
    PROVE  TrafficTypeOK'
<1>1. TypeOK /\ TypeOK' /\ Housed
  BY TrafficKeepsType DEF TrafficTypeOK, Housed
<1>2. /\ flags' \in [Client -> Flags \cup {DemoPolicy}] /\ tenant' \in BOOLEAN
      /\ copy' \in {"none", "tenant", "former"} /\ holder' \in {"nobody", "tenant", "former"}
      /\ deny' \in {"absent", "wanted", "edited"}
  <2>1. UNCHANGED traffic
          => /\ flags' \in [Client -> Flags \cup {DemoPolicy}] /\ tenant' \in BOOLEAN
             /\ copy' \in {"none", "tenant", "former"} /\ holder' \in {"nobody", "tenant", "former"}
             /\ deny' \in {"absent", "wanted", "edited"}
    BY DEF TrafficTypeOK, traffic
  <2>2. UNCHANGED traffic \/ SyncTenant \/ MakeNamespace \/ AdoptFound \/ ReconcilePolicy
          \/ Edit \/ LosePolicy \/ CreateTenant \/ DeleteTenant \/ Finalize
    BY DEF TrafficNext, Refuse, Shieldctl, ReconcileNamespace, CollectNamespace, Empty, allVars
  <2>3. QED
    BY <2>1, <2>2 DEF TrafficTypeOK, SyncTenant, MakeNamespace, AdoptFound, ReconcilePolicy,
       Edit, LosePolicy, CreateTenant, DeleteTenant, Finalize
<1>3. Housed'
  <2>1. ASSUME NEW c \in Client, Shieldctl(c) PROVE Housed'
    BY <1>1, <2>1, ClientHouses DEF Housed, Shieldctl, traffic, Absent
  <2>2. CASE Empty \/ Finalize
    BY <1>1, <2>2 DEF Housed, Empty, Finalize, traffic, FinalizeNamespace, EmptyNamespace,
       Absent, TypeOK, Kind
  <2>3. ASSUME NEW c \in Client, Refuse(c) PROVE Housed'
    BY <1>1, <2>3 DEF Housed, Refuse, traffic, Absent
  <2>4. CASE MakeNamespace
    BY <1>1, <2>4 DEF Housed, MakeNamespace, Absent
  <2>5. CASE ReconcilePolicy
    BY <1>1, <2>5 DEF Housed, ReconcilePolicy, Absent
  <2>6. CASE CollectNamespace
    BY <1>1, <2>6 DEF Housed, CollectNamespace, traffic, Absent, TypeOK
  <2>7. CASE SyncTenant \/ AdoptFound \/ Edit \/ LosePolicy \/ CreateTenant \/ DeleteTenant
    BY <1>1, <2>7 DEF Housed, SyncTenant, AdoptFound, Edit, LosePolicy, CreateTenant,
       DeleteTenant, vars, Absent
  <2>8. CASE UNCHANGED allVars
    BY <1>1, <2>8 DEF Housed, allVars, vars, traffic, Absent
  <2>9. QED
    BY <2>1, <2>2, <2>3, <2>4, <2>5, <2>6, <2>7, <2>8 DEF TrafficNext, ReconcileNamespace
<1>4. QED
  BY <1>1, <1>2, <1>3 DEF TrafficTypeOK, Housed

\* Every reachable state of the composition is well typed, no policy of either
\* builder outlives the Namespace it is in, and what the reconciler has a copy of
\* or holds the Namespace for is there or was.
THEOREM TrafficTypeCorrect == TrafficSpec => []TrafficTypeOK
<1>1. TrafficInit => TrafficTypeOK
  BY InitType DEF TrafficInit, TrafficTypeOK, Init, Kind
<1>2. TrafficTypeOK /\ [TrafficNext]_allVars => TrafficTypeOK'
  BY TrafficTypeStep
<1>3. QED
  BY <1>1, <1>2, PTL DEF TrafficSpec

LEMMA TrafficDelete ==
    ASSUME DeleteInv, [TrafficNext]_allVars
    PROVE  DeleteInv'
<1>1. TypeOK /\ TypeOK'
  BY TrafficKeepsType DEF DeleteInv
<1>2. ASSUME NEW c \in Client, Refuse(c) PROVE DeleteInv'
  BY <1>1, <1>2, ReturnKeeps, StepDelete DEF Refuse
<1>3. CASE MakeNamespace
  BY <1>1, <1>3, CreatedDelete DEF MakeNamespace
<1>4. CASE ReconcilePolicy
  <2>1. CASE Created
    BY <1>1, <2>1, CreatedDelete
  <2>2. CASE UNCHANGED undisturbed
    BY <1>1, <1>4, <2>2, OthersCleared DEF ReconcilePolicy, DeleteInv
  <2>3. QED
    BY <1>4, <2>1, <2>2 DEF ReconcilePolicy
<1>5. CASE CollectNamespace
  <2>1. ns.phase = "Active"
    BY <1>5 DEF CollectNamespace
  <2>2. QED
    BY <1>1, <1>5, <2>1, OthersCleared DEF CollectNamespace, DeleteInv
<1>6. CASE UNCHANGED allVars
  BY <1>6, NextDelete DEF allVars
<1>7. QED
  BY <1>1, <1>2, <1>3, <1>4, <1>5, <1>6, NextDelete, StepOfTraffic

\* A deletion that reports success, and that neither a client nor the reconciler
\* crossed with a creation, has left nothing, also beside a live Tenant.
THEOREM DeletionSoundBeside == TrafficSpec => []DeleteSound
<1>1. TrafficInit => DeleteInv
  BY InitDelete DEF TrafficInit
<1>2. DeleteInv /\ [TrafficNext]_allVars => DeleteInv'
  BY TrafficDelete
<1>3. DeleteInv => DeleteSound
  BY DEF DeleteInv, Cleared, DeleteSound
<1>4. QED
  BY <1>1, <1>2, <1>3, PTL DEF TrafficSpec

LEMMA TrafficBuilder ==
    ASSUME Builders, BuilderInv, [TrafficNext]_allVars
    PROVE  BuilderInv'
<1>1. TypeOK /\ TypeOK'
  BY TrafficKeepsType DEF BuilderInv
<1>2. ASSUME NEW c \in Client, Refuse(c) PROVE BuilderInv'
  BY <1>1, <1>2, EndedBuilder DEF Refuse
<1>3. CASE MakeNamespace
  <2>1. ns = Absent /\ ns'.phase = "Active" /\ UNCHANGED <<object, job, stranded, pc>>
    BY <1>3 DEF MakeNamespace
  <2>2. QED
    BY <1>1, <2>1, FoundBuilder
<1>4. CASE ReconcilePolicy
  BY <1>1, <1>4, OthersBuilder DEF ReconcilePolicy
<1>5. CASE CollectNamespace
  <2>1. ns'.phase = "Terminating" /\ ns'.maker = ns.maker
    BY <1>1, <1>5 DEF CollectNamespace, TypeOK
  <2>2. QED
    BY <1>1, <1>5, <2>1, EndBuilder DEF CollectNamespace
<1>6. CASE UNCHANGED allVars
  BY <1>6, NextBuilder DEF allVars
<1>7. QED
  BY <1>1, <1>2, <1>3, <1>4, <1>5, <1>6, NextBuilder, StepOfTraffic

LEMMA TrafficJobsStay == [TrafficNext]_allVars => UNCHANGED job
<1>1. [TrafficNext]_allVars => UNCHANGED job \/ [Next]_vars
  BY StepOfTraffic DEF Refuse, MakeNamespace, ReconcilePolicy, CollectNamespace, allVars, vars
<1>2. QED
  BY <1>1, JobsStay

LEMMA TrafficKeepsJobs == [TrafficNext]_allVars /\ Builders' => Builders
  BY TrafficJobsStay DEF Builders, Builds, Creating

\* Creating the Namespace remains the lock beside a reconciler that may create it
\* as well, takes control of one that a client made, and has it collected with the
\* Tenant: only a client under which that happens meets the objects of another.
THEOREM OneBuilderBeside == TrafficSpec => []SoleBuilder
<1> DEFINE Inv == TypeOK /\ (Builders => BuilderInv)
<1>1. TrafficInit => Inv
  BY InitType, InitBuilder DEF TrafficInit
<1>2. Inv /\ [TrafficNext]_allVars => Inv'
  BY TrafficKeepsType, TrafficBuilder, TrafficKeepsJobs
<1>3. Inv => SoleBuilder
  BY DEF BuilderInv, SoleBuilder, Builders
<1>4. QED
  BY <1>1, <1>2, <1>3, PTL DEF TrafficSpec

LEMMA TrafficMade ==
    ASSUME NobodyDeletes, MadeInv, [TrafficNext]_allVars
    PROVE  MadeInv'
<1>1. TypeOK /\ TypeOK'
  BY TrafficKeepsType DEF MadeInv
<1>2. ASSUME NEW c \in Client, Refuse(c) PROVE MadeInv'
  BY <1>1, <1>2, ReturnEnds, EndMade DEF Refuse, Grows
<1>3. CASE MakeNamespace
  BY <1>1, <1>3, StepMade DEF MakeNamespace, Grows, Absent
<1>4. CASE ReconcilePolicy
  BY <1>1, <1>4, StepMade DEF ReconcilePolicy, Grows
<1>5. CASE CollectNamespace
  BY <1>1, <1>5, StrandMade DEF CollectNamespace
<1>6. CASE UNCHANGED allVars
  BY <1>6, NextMade DEF allVars
<1>7. QED
  BY <1>1, <1>2, <1>3, <1>4, <1>5, <1>6, NextMade, StepOfTraffic

\* Beside the reconciler too, whoever gets to the report has made all of the
\* tenant, but for a Namespace the reconciler may have made for it; unless the
\* Namespace was collected under it.
THEOREM MakersReportBeside == TrafficSpec => []OnlyMakersReport
<1> DEFINE Inv == TypeOK /\ (NobodyDeletes => MadeInv)
<1>1. TrafficInit => Inv
  BY InitType, InitMade DEF TrafficInit
<1>2. [TrafficNext]_allVars /\ NobodyDeletes' => NobodyDeletes
  BY TrafficJobsStay DEF NobodyDeletes, Creating
<1>3. Inv /\ [TrafficNext]_allVars => Inv'
  BY <1>2, TrafficKeepsType, TrafficMade
<1>4. Inv => OnlyMakersReport
  BY DEF MadeInv, Made, NobodyDeletes, OnlyMakersReport, Kind
<1>5. QED
  BY <1>1, <1>3, <1>4, PTL DEF TrafficSpec
=============================================================================
