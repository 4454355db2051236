----------------------- MODULE ShieldctlProvisioning -----------------------
(***************************************************************************)
(* Imperative provisioning of one tenant: CreateReconciliation and         *)
(* DeleleteReconciliation of internal/webhook/k8s/pool.go, as run by       *)
(* shieldctl and by k8s-demo.  Each client is a process of its own making  *)
(* one API call after another; nothing locks the tenant, nothing is        *)
(* updated in place, and a client can be interrupted between two calls.    *)
(***************************************************************************)
EXTENDS Naturals

CONSTANTS
    Client,     \* runs of shieldctl or k8s-demo
    Jobs,       \* what such a run may have been started for
    MaxFaults,  \* bound on failing API calls and interrupted clients
    None

\* A creating job has its isolation and whether its quantities parse: those that
\* k8s-demo is compiled with do.
Job == [op : {"create"}, isolation : {"namespace", "cluster"}, parses : BOOLEAN]
         \cup [op : {"demo"}, isolation : {"namespace"}, parses : {TRUE}]
         \cup [op : {"delete"}]

ASSUME ProvisioningConstants ==
    Jobs \subseteq Job /\ MaxFaults \in Nat /\ None \notin Client

VARIABLES
    ns,      \* the tenant's Namespace: its phase and who made it
    object,  \* who made its quota, network policy and owners Secret
    job, pc, result,
    undisturbed,  \* history: nothing was created since this client began
    stranded,     \* history: who was creating when its Namespace began to go away
    faults

vars == <<ns, object, job, pc, result, undisturbed, stranded, faults>>

Kind   == {"quota", "netpol", "secret"}
Absent == [phase |-> "Absent", maker |-> None]

\* Every variable has its type, and a client has a result exactly when done.
TypeOK ==
    /\ ns \in [phase : {"Absent", "Active", "Terminating"}, maker : Client \cup {None}]
    /\ object \in [Kind -> Client \cup {None}]
    /\ job \in [Client -> Jobs]
    /\ pc \in [Client -> {"start", "namespace", "report", "done"} \cup Kind]
    /\ result \in [Client -> {"none", "nil", "error", "killed"}]
    /\ undisturbed \in [Client -> BOOLEAN] /\ stranded \subseteq Client
    /\ faults \in 0..MaxFaults
    /\ \A c \in Client : pc[c] = "done" <=> result[c] # "none"

Init ==
    /\ ns = Absent /\ object = [k \in Kind |-> None]
    /\ job \in [Client -> Jobs]
    /\ pc = [c \in Client |-> "start"] /\ result = [c \in Client |-> "none"]
    /\ undisturbed = [c \in Client |-> FALSE] /\ stranded = {}
    /\ faults = 0

Creating(c) == job[c].op # "delete"
GoTo(c, step) == pc' = [pc EXCEPT ![c] = step] /\ UNCHANGED result
Return(c, r)  == pc' = [pc EXCEPT ![c] = "done"] /\ result' = [result EXCEPT ![c] = r]

\* What SendMessageTelegram may return: it depends on the network alone.
Telegram == {"nil", "error"}

\* The error handlers of CreateReconciliation: err is shadowed by what Telegram
\* answers, so the notice going through turns the failure into nil.
ReturnNotified(c) == \E r \in Telegram : Return(c, r)

Fault == faults < MaxFaults /\ faults' = faults + 1
Created == undisturbed' = [c \in Client |-> FALSE]

\* The clients between their first and their last object: Active becomes Terminating.
AtWork == {c \in Client : Creating(c) /\ pc[c] \in Kind \cup {"report"}}
Ended  == stranded' = stranded \cup AtWork

-----------------------------------------------------------------------------

\* GetClientset; the Namespace is only for isolation "namespace".
Start(c) ==
    /\ pc[c] = "start"
    /\ \/ ~Creating(c) /\ GoTo(c, "netpol")
       \/ Creating(c) /\ job[c].isolation = "namespace" /\ GoTo(c, "namespace")
       \/ Creating(c) /\ job[c].isolation # "namespace" /\ GoTo(c, "quota")
    /\ undisturbed' = [undisturbed EXCEPT ![c] = TRUE]
    /\ UNCHANGED <<ns, object, job, stranded, faults>>

NoClientset(c) ==
    /\ pc[c] = "start" /\ Fault /\ Return(c, "error")
    /\ UNCHANGED <<ns, object, job, undisturbed, stranded>>

\* Mutant: a Namespace that exists already is taken for one's own.
AdoptNamespace(c) ==
    /\ pc[c] = "namespace" /\ Creating(c) /\ GoTo(c, "quota")
    /\ IF ns = Absent
         THEN ns' = [phase |-> "Active", maker |-> c] /\ Created
         ELSE UNCHANGED <<ns, undisturbed>>
    /\ UNCHANGED <<object, job, stranded, faults>>

CreateNamespace(c) ==
    /\ pc[c] = "namespace" /\ Creating(c)
    /\ IF ns = Absent
         THEN /\ ns' = [phase |-> "Active", maker |-> c] /\ Created
              /\ GoTo(c, "quota")
         ELSE ReturnNotified(c) /\ UNCHANGED <<ns, undisturbed>>
    /\ UNCHANGED <<object, job, stranded, faults>>

After == [quota |-> "netpol", netpol |-> "secret", secret |-> "report"]

\* Mutant: an object that exists already is as good as made.
CreateObjectOrFind(c, k) ==
    /\ pc[c] = k /\ Creating(c)
    /\ IF (k = "quota" => job[c].parses) /\ ns.phase = "Active"
         THEN /\ object' = [object EXCEPT ![k] = IF @ = None THEN c ELSE @] /\ Created
              /\ GoTo(c, After[k])
         ELSE ReturnNotified(c) /\ UNCHANGED <<object, undisturbed>>
    /\ UNCHANGED <<ns, job, stranded, faults>>

\* CreateResource, CreateNetworkPolicy, CreateSecret: refused by the API server
\* when the object exists or the Namespace is not there to take it.
CreateObject(c, k) ==
    /\ pc[c] = k /\ Creating(c)
    /\ IF /\ k = "quota" => job[c].parses
          /\ ns.phase = "Active" /\ object[k] = None
         THEN /\ object' = [object EXCEPT ![k] = c] /\ Created
              /\ GoTo(c, After[k])
         ELSE ReturnNotified(c) /\ UNCHANGED <<object, undisturbed>>
    /\ UNCHANGED <<ns, job, stranded, faults>>

\* All is created; the operator's pods are listed and sent to Telegram, one by
\* one, and the first that does not go through is returned as the error.
Report(c) ==
    /\ pc[c] = "report" /\ Creating(c)
    /\ \E r \in Telegram \cup {"error"} : Return(c, r)
    /\ UNCHANGED <<ns, object, job, undisturbed, stranded, faults>>

\* A creating call fails, or takes effect and its answer is lost.
CreateFails(c) ==
    /\ pc[c] \in Kind \cup {"namespace"} /\ Creating(c) /\ Fault
    /\ ReturnNotified(c)
    /\ \/ UNCHANGED <<ns, object, undisturbed>>
       \/ /\ pc[c] = "namespace" /\ ns = Absent
          /\ ns' = [phase |-> "Active", maker |-> c] /\ Created
          /\ UNCHANGED object
       \/ /\ pc[c] # "namespace" /\ ns.phase = "Active" /\ object[pc[c]] = None
          /\ pc[c] = "quota" => job[c].parses
          /\ object' = [object EXCEPT ![pc[c]] = c] /\ Created
          /\ UNCHANGED ns
    /\ UNCHANGED <<job, stranded>>

Before == [netpol |-> "quota", quota |-> "secret", secret |-> "namespace"]

\* The deletions of DeleleteReconciliation: what is not there is fine.
DeleteObject(c, k) ==
    /\ pc[c] = k /\ ~Creating(c)
    /\ object' = [object EXCEPT ![k] = None]
    /\ GoTo(c, Before[k])
    /\ UNCHANGED <<ns, job, undisturbed, stranded, faults>>

DeleteNamespace(c) ==
    /\ pc[c] = "namespace" /\ ~Creating(c)
    /\ IF ns.phase = "Active"
         THEN ns' = [ns EXCEPT !.phase = "Terminating"] /\ Ended
         ELSE UNCHANGED <<ns, stranded>>
    /\ Return(c, "nil")
    /\ UNCHANGED <<object, job, undisturbed, faults>>

\* Mutant: the failing deletion is returned as Telegram's answer, as in
\* CreateReconciliation.
DeleteFailsNotified(c) ==
    /\ pc[c] \in Kind \cup {"namespace"} /\ ~Creating(c) /\ Fault
    /\ ReturnNotified(c)
    /\ UNCHANGED <<ns, object, job, undisturbed, stranded>>

\* A failing deletion ends the run with its error, whatever Telegram answers.
DeleteFails(c) ==
    /\ pc[c] \in Kind \cup {"namespace"} /\ ~Creating(c) /\ Fault
    /\ Return(c, "error")
    /\ UNCHANGED <<ns, object, job, undisturbed, stranded>>

\* The process is interrupted between two calls.
Kill(c) ==
    /\ pc[c] # "done" /\ Fault /\ Return(c, "killed")
    /\ UNCHANGED <<ns, object, job, undisturbed, stranded>>

\* Kubernetes' namespace controller.
EmptyNamespace(k) ==
    /\ ns.phase = "Terminating" /\ object[k] # None
    /\ object' = [object EXCEPT ![k] = None]
    /\ UNCHANGED <<ns, job, pc, result, undisturbed, stranded, faults>>

FinalizeNamespace ==
    /\ ns.phase = "Terminating" /\ \A k \in Kind : object[k] = None
    /\ ns' = Absent
    /\ UNCHANGED <<object, job, pc, result, undisturbed, stranded, faults>>

-----------------------------------------------------------------------------

ClientStep(c) ==
    \/ Start(c) \/ CreateNamespace(c) \/ Report(c) \/ DeleteNamespace(c)
    \/ \E k \in Kind : CreateObject(c, k) \/ DeleteObject(c, k)

ClientFault(c) == NoClientset(c) \/ CreateFails(c) \/ DeleteFails(c) \/ Kill(c)

NamespaceController == FinalizeNamespace \/ \E k \in Kind : EmptyNamespace(k)

Next ==
    \/ \E c \in Client : ClientStep(c) \/ ClientFault(c)
    \/ NamespaceController

Spec == Init /\ [][Next]_vars

-----------------------------------------------------------------------------
(* Properties.                                                             *)

Builds(c) == Creating(c) /\ job[c].isolation = "namespace"

\* When every creating client builds in a Namespace of its own making, an object in
\* it is of the client that made it, whatever fails, is interrupted, deletes or
\* races: creating the Namespace is the only lock there is.  The exception is a
\* client whose Namespace was deleted while it was at work: it goes on by name.
SoleBuilder ==
    (\A c \in Client : Creating(c) => Builds(c)) =>
      \A k \in Kind : object[k] \in {None, ns.maker} \cup stranded

\* Where no client deletes the tenant, one that comes to list the operator's pods,
\* and under which the Namespace did not go away, has made all of the tenant itself:
\* an error of CreateReconciliation, though it may be returned as nil, lets no run
\* go on, and runs that race for the tenant are never both there.
OnlyMakersReport ==
    (\A c \in Client : Creating(c)) =>
      \A c \in Client \ stranded : pc[c] = "report" =>
        /\ ns.phase = "Active" /\ \A k \in Kind : object[k] = c
        /\ job[c].isolation = "namespace" => ns.maker = c

\* A deletion that reports success and was not crossed by a creation has left
\* nothing that is not going away (DeleleteReconciliation's result).
DeleteSound ==
    \A c \in Client :
        ~Creating(c) /\ result[c] = "nil" /\ undisturbed[c]
          => ns.phase # "Active" /\ \A k \in Kind : object[k] = None

\* "Reconciliation succeeded" (k8s-demo): when CreateReconciliation returns nil
\* to the one client there is, the tenant is provisioned.
NilMeansProvisioned ==
    \A c \in Client :
        Creating(c) /\ result[c] = "nil"
          => ns.phase = "Active" /\ \A k \in Kind : object[k] # None
=============================================================================
