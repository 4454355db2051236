--------------------------- MODULE TenantTraffic ---------------------------
(***************************************************************************)
(* The Namespace tenant-<name> in the hands of both its builders:          *)
(* shieldctl (ShieldctlProvisioning), which puts the NetworkPolicy of its  *)
(* flags into it, and the reconciler, which keeps default-deny there when  *)
(* there is a Tenant of that name.  NetworkPolicies add up: what the pods  *)
(* of the tenant may say to whom follows from both.  The reconciler also   *)
(* takes control of the Namespace, whoever made it: with the Tenant it is  *)
(* collected.                                                              *)
(*                                                                         *)
(* The reconciler's steps are taken whole here, for a write goes through   *)
(* only where its copy of the object is up to date; its copy of the Tenant *)
(* may be out of date.  TenantController has the steps call by call.       *)
(***************************************************************************)
EXTENDS ShieldctlProvisioning, Sequences

CONSTANTS
    Label,      \* a pod and a selector are sets of labels
    Flags,      \* the network flags a run may be given
    Malformed,  \* a rule that is not JSON
    Outside     \* a pod of another namespace

Direction == {"Ingress", "Egress"}
Pod       == SUBSET Label

\* --np-pod-selector, --np-policy-types, --np-ingress-from and --np-egress-to:
\* a rule is the pods it names.
NetworkFlags == [podSelector : SUBSET Label, policyTypes : SUBSET Direction,
                 Ingress : Seq({Malformed} \cup SUBSET Label),
                 Egress : Seq({Malformed} \cup SUBSET Label)]

ASSUME TrafficConstants ==
    /\ Flags \subseteq NetworkFlags
    /\ \A pod \in SUBSET Label : pod # Malformed /\ pod # Outside

\* What k8s-demo is compiled with.
DemoPolicy ==
    [podSelector |-> {"app=backend", "tenant=payment"}, policyTypes |-> Direction,
     Ingress |-> <<{"app=frontend", "tenant=payment"}>>,
     Egress |-> <<{"app=db", "tenant=payment"}>>]

VARIABLES
    flags,      \* client -> the flags it was started with
    tenant,     \* there is a Tenant of that name
    copy,       \* the Tenant that Reconcile reads
    holder,     \* the controller of the Namespace
    deny        \* the reconciler's policy in it

traffic == <<flags, tenant, copy, holder, deny>>
allVars == <<vars, traffic>>

\* The added variables have their types, what is not there has no policies and no
\* controller, and nothing knows a Tenant that there never was.
TrafficTypeOK ==
    /\ TypeOK
    /\ flags \in [Client -> Flags \cup {DemoPolicy}]
    /\ tenant \in BOOLEAN
    /\ copy \in {"none", "tenant", "former"} /\ holder \in {"nobody", "tenant", "former"}
    /\ deny \in {"absent", "wanted", "edited"}
    /\ ns = Absent => deny = "absent" /\ object["netpol"] = None /\ holder = "nobody"
    /\ "tenant" \in {copy, holder} => tenant

-----------------------------------------------------------------------------
(* Network policies.                                                       *)

\* json.Unmarshal of every rule, before anything is created.
Parses(f) ==
    \A d \in Direction : \A i \in DOMAIN f[d] : f[d][i] # Malformed

\* Mutant: an empty selector is not written down as a peer.
PeersOmitting(selector) == IF selector = {} THEN {} ELSE {selector}

\* The peers of a rule: one, by its labels, in the namespace of the policy.
Peers(selector) == {selector}

\* Mutant: the rules of a direction share the peer of the last of them.
RulesSharing(selectors) ==
    {Peers(selectors[Len(selectors)]) : i \in DOMAIN selectors}

Rules(selectors) == {Peers(selectors[i]) : i \in DOMAIN selectors}

\* CreateNetworkPolicy.  Without policy types the API server fills in Ingress,
\* and Egress if there are rules for it.
TenantNetworkPolicy(f) ==
    [podSelector |-> f.podSelector,
     policyTypes |-> IF f.policyTypes # {} THEN f.policyTypes
                     ELSE {"Ingress"} \cup (IF f.Egress = <<>> THEN {} ELSE {"Egress"}),
     Ingress |-> Rules(f.Ingress), Egress |-> Rules(f.Egress)]

\* ensureNetworkPolicy: every pod, both directions, no rule.
DefaultDeny == [podSelector |-> {}, policyTypes |-> Direction, Ingress |-> {}, Egress |-> {}]

Policies ==
    {DefaultDeny : x \in {deny} \cap {"wanted"}}
      \cup {TenantNetworkPolicy(flags[c]) : c \in {object["netpol"]} \ {None}}

\* Kubernetes: a pod that some policy selects for a direction is isolated in it,
\* and then only what some rule of such a policy names passes.  A rule without
\* peers names everybody; a peer without a namespace selector, only pods of the
\* policy's namespace.
Selecting(policies, pod, d) == {p \in policies : d \in p.policyTypes /\ p.podSelector \subseteq pod}

Names(rule, other) ==
    rule = {} \/ (other # Outside /\ \E peer \in rule : peer \subseteq other)

Admits(selecting, d, other) ==
    selecting = {} \/ \E p \in selecting : \E rule \in p[d] : Names(rule, other)

-----------------------------------------------------------------------------
(* Behaviour.                                                              *)

TrafficInit ==
    /\ Init
    /\ flags \in [Client -> Flags \cup {DemoPolicy}]
    /\ \A c \in Client : job[c].op # "create" <=> flags[c] = DemoPolicy
    /\ tenant \in BOOLEAN /\ copy = "none"
    /\ holder = "nobody" /\ deny = "absent"

\* RunE of shieldctl tenant create: no rule that does not parse gets any further.
Refuse(c) ==
    /\ pc[c] = "start" /\ Creating(c) /\ ~Parses(flags[c])
    /\ Return(c, "error")
    /\ UNCHANGED <<ns, object, job, undisturbed, stranded, faults, traffic>>

Shieldctl(c) ==
    /\ ClientStep(c) \/ ClientFault(c)
    /\ pc[c] = "start" /\ Creating(c) => Parses(flags[c])
    /\ UNCHANGED traffic

SyncTenant ==
    /\ copy' = IF tenant THEN "tenant" ELSE "none"
    /\ UNCHANGED <<vars, flags, tenant, holder, deny>>

\* Created, for a Tenant; or plain, by line 204, where the first was deleted again.
MakeNamespace ==
    /\ copy # "none" /\ ns = Absent
    /\ ns' = [phase |-> "Active", maker |-> None] /\ Created
    /\ holder' \in {copy, "nobody"}
    /\ UNCHANGED <<object, job, pc, result, stranded, faults, flags, tenant, copy, deny>>

\* Found, whoever made it and even if it is going away: labelled, and taken control
\* of from nobody or from another Tenant of that name.
AdoptFound ==
    /\ copy # "none" /\ ns # Absent
    /\ holder' = copy
    /\ UNCHANGED <<vars, flags, tenant, copy, deny>>

ReconcileNamespace == MakeNamespace \/ AdoptFound

\* Created, or put right.
ReconcilePolicy ==
    /\ copy # "none" /\ ns # Absent
    /\ deny = "absent" => ns.phase = "Active"
    /\ deny' = "wanted"
    /\ IF deny = "absent" THEN Created ELSE UNCHANGED undisturbed
    /\ UNCHANGED <<ns, object, job, pc, result, stranded, faults, flags, tenant, copy, holder>>

\* Somebody opens default-deny.
Edit ==
    /\ deny = "wanted" /\ deny' = "edited"
    /\ UNCHANGED <<vars, flags, tenant, copy, holder>>

\* It is deleted: by a user, with its Tenant, or with its Namespace.
LosePolicy ==
    /\ deny # "absent" /\ deny' = "absent"
    /\ UNCHANGED <<vars, flags, tenant, copy, holder>>

CreateTenant ==
    /\ ~tenant /\ tenant' = TRUE
    /\ UNCHANGED <<vars, flags, copy, holder, deny>>

\* By a user; or by the garbage collector, when the Namespace it is linked to is
\* gone, though there may be another of that name by now.
DeleteTenant ==
    /\ tenant /\ tenant' = FALSE
    /\ copy' = IF copy = "tenant" THEN "former" ELSE copy
    /\ holder' = IF holder = "tenant" THEN "former" ELSE holder
    /\ UNCHANGED <<vars, flags, deny>>

\* The garbage collector takes the Namespace of a Tenant that is gone.
CollectNamespace ==
    /\ holder = "former" /\ ns.phase = "Active"
    /\ ns' = [ns EXCEPT !.phase = "Terminating"] /\ Ended
    /\ UNCHANGED <<object, job, pc, result, undisturbed, faults, traffic>>

\* Mutant: a Namespace is gone before all of it is.
FinalizeEarly == FinalizeNamespace /\ holder' = "nobody" /\ UNCHANGED <<flags, tenant, copy, deny>>

Finalize ==
    /\ FinalizeNamespace /\ deny = "absent"
    /\ holder' = "nobody"
    /\ UNCHANGED <<flags, tenant, copy, deny>>

Empty == (\E k \in Kind : EmptyNamespace(k)) /\ UNCHANGED traffic

TrafficNext ==
    \/ \E c \in Client : Refuse(c) \/ Shieldctl(c)
    \/ SyncTenant \/ ReconcileNamespace \/ ReconcilePolicy
    \/ Edit \/ LosePolicy \/ CreateTenant \/ DeleteTenant
    \/ CollectNamespace \/ Empty \/ Finalize

TrafficSpec == TrafficInit /\ [][TrafficNext]_allVars

-----------------------------------------------------------------------------
(* Properties.                                                             *)

\* "It only supports selecting Pods by labels, implicitly within the same
\* namespace": whatever the flags, and whoever built the Namespace, a pod that is
\* isolated in a direction exchanges nothing with another namespace in it.
NothingFromOutside ==
    LET policies == Policies IN
    \A pod \in Pod, d \in Direction :
      LET selecting == Selecting(policies, pod, d) IN
      selecting # {} => ~Admits(selecting, d, Outside)

\* Beside default-deny, the pods of the tenant talk exactly as the flags of the
\* run that created the second policy say: neither policy hides the other.
Asked(f, pod, d, other) ==
    /\ f.podSelector \subseteq pod
    /\ \/ d \in f.policyTypes
       \/ f.policyTypes = {} /\ (d = "Egress" => f.Egress # <<>>)
    /\ \E i \in DOMAIN f[d] : f[d][i] \subseteq other

JustWhatWasAsked ==
    deny = "wanted" =>
      LET policies == Policies IN
      \A pod \in Pod, d \in Direction :
        LET selecting == Selecting(policies, pod, d) IN
        \A other \in Pod :
          Admits(selecting, d, other) <=>
            object["netpol"] # None /\ Asked(flags[object["netpol"]], pod, d, other)
=============================================================================
