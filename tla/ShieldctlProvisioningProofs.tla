-------------------- MODULE ShieldctlProvisioningProofs --------------------
(***************************************************************************)
(* Proofs about ShieldctlProvisioning, for any number of clients, jobs and *)
(* faults: type correctness, that a tenant has one builder, that a         *)
(* deletion that reports success can be trusted, and that a client that    *)
(* gets to its report has made the tenant.                                 *)
(***************************************************************************)
EXTENDS ShieldctlProvisioning, TLAPS

\* A client that returns or goes on keeps the control state well typed.
LEMMA ReturnType ==
    ASSUME TypeOK, NEW c \in Client, NEW r \in {"nil", "error", "killed"}, Return(c, r)
    PROVE  /\ pc' \in [Client -> {"start", "namespace", "report", "done"} \cup Kind]
           /\ result' \in [Client -> {"none", "nil", "error", "killed"}]
           /\ \A d \in Client : pc'[d] = "done" <=> result'[d] # "none"
BY DEF TypeOK, Return

LEMMA ReturnNotifiedType ==
    ASSUME TypeOK, NEW c \in Client, ReturnNotified(c)
    PROVE  /\ pc' \in [Client -> {"start", "namespace", "report", "done"} \cup Kind]
           /\ result' \in [Client -> {"none", "nil", "error", "killed"}]
           /\ \A d \in Client : pc'[d] = "done" <=> result'[d] # "none"
<1>1. PICK r \in {"nil", "error"} : Return(c, r)
    BY DEF ReturnNotified, Telegram
<1> QED BY <1>1, ReturnType

LEMMA GoToType ==
    ASSUME TypeOK, NEW c \in Client, pc[c] # "done",
           NEW step \in {"start", "namespace", "report"} \cup Kind, GoTo(c, step)
    PROVE  /\ pc' \in [Client -> {"start", "namespace", "report", "done"} \cup Kind]
           /\ result' \in [Client -> {"none", "nil", "error", "killed"}]
           /\ \A d \in Client : pc'[d] = "done" <=> result'[d] # "none"
BY DEF TypeOK, GoTo, Kind

\* A creation clears the record of everybody.
LEMMA CreatedType ==
    ASSUME Created
    PROVE  undisturbed' \in [Client -> BOOLEAN] /\ \A c \in Client : ~undisturbed'[c]
BY DEF Created

LEMMA InitType == Init => TypeOK
BY ProvisioningConstants DEF Init, TypeOK, Absent, Kind

-----------------------------------------------------------------------------
(* Type correctness.                                                       *)

LEMMA ClientStepType ==
    ASSUME TypeOK, NEW c \in Client, ClientStep(c)
    PROVE  TypeOK'
<1>1. CASE Start(c)
    <2>1. pc[c] # "done"
        BY <1>1 DEF Start
    <2>2. PICK step \in {"netpol", "namespace", "quota"} : GoTo(c, step)
        BY <1>1 DEF Start
    <2> QED BY <1>1, <2>1, <2>2, GoToType DEF Start, TypeOK, Kind
<1>2. CASE CreateNamespace(c)
    <2>1. CASE ns = Absent
        <3>1. ns' = [phase |-> "Active", maker |-> c] /\ Created /\ GoTo(c, "quota")
            BY <1>2, <2>1 DEF CreateNamespace
        <3>2. pc[c] # "done" /\ UNCHANGED <<object, job, stranded, faults>>
            BY <1>2 DEF CreateNamespace
        <3>3. ns' \in [phase : {"Absent", "Active", "Terminating"}, maker : Client \cup {None}]
            BY <3>1
        <3>4. /\ pc' \in [Client -> {"start", "namespace", "report", "done"} \cup Kind]
              /\ result' \in [Client -> {"none", "nil", "error", "killed"}]
              /\ \A d \in Client : pc'[d] = "done" <=> result'[d] # "none"
            BY <3>1, <3>2, GoToType DEF Kind
        <3> QED BY <3>1, <3>2, <3>3, <3>4, CreatedType DEF TypeOK
    <2>2. CASE ns # Absent
        BY <1>2, <2>2, ReturnNotifiedType DEF CreateNamespace, TypeOK
    <2> QED BY <2>1, <2>2
<1>3. CASE Report(c)
    <2>1. PICK r \in {"nil", "error"} : Return(c, r)
        BY <1>3 DEF Report, Telegram
    <2> QED BY <1>3, <2>1, ReturnType DEF Report, TypeOK
<1>4. CASE DeleteNamespace(c)
    <2>1. stranded' \subseteq Client
        BY <1>4 DEF DeleteNamespace, Ended, AtWork, TypeOK
    <2> QED BY <1>4, <2>1, ReturnType DEF DeleteNamespace, TypeOK
<1>5. ASSUME NEW k \in Kind, CreateObject(c, k) PROVE TypeOK'
    <2>1. CASE /\ k = "quota" => job[c].parses
               /\ ns.phase = "Active" /\ object[k] = None
        <3>1. After[k] \in {"report"} \cup Kind /\ pc[c] # "done"
            BY <1>5 DEF CreateObject, After, Kind
        <3>2. object' = [object EXCEPT ![k] = c] /\ Created /\ GoTo(c, After[k])
            BY <1>5, <2>1 DEF CreateObject
        <3>3. object' \in [Kind -> Client \cup {None}]
            BY <3>2 DEF TypeOK
        <3>4. UNCHANGED <<ns, job, stranded, faults>>
            BY <1>5 DEF CreateObject
        <3>5. /\ pc' \in [Client -> {"start", "namespace", "report", "done"} \cup Kind]
              /\ result' \in [Client -> {"none", "nil", "error", "killed"}]
              /\ \A d \in Client : pc'[d] = "done" <=> result'[d] # "none"
            BY <3>1, <3>2, GoToType
        <3> QED BY <3>2, <3>3, <3>4, <3>5, CreatedType DEF TypeOK
    <2>2. CASE ~(/\ k = "quota" => job[c].parses
                 /\ ns.phase = "Active" /\ object[k] = None)
        BY <1>5, <2>2, ReturnNotifiedType DEF CreateObject, TypeOK
    <2> QED BY <2>1, <2>2
<1>6. ASSUME NEW k \in Kind, DeleteObject(c, k) PROVE TypeOK'
    <2>1. Before[k] \in {"namespace"} \cup Kind /\ pc[c] # "done"
        BY <1>6 DEF DeleteObject, Before, Kind
    <2> QED BY <1>6, <2>1, GoToType DEF DeleteObject, TypeOK
<1> QED BY <1>1, <1>2, <1>3, <1>4, <1>5, <1>6 DEF ClientStep

LEMMA ClientFaultType ==
    ASSUME TypeOK, NEW c \in Client, ClientFault(c)
    PROVE  TypeOK'
<1>1. Fault => faults' \in 0..MaxFaults
    BY ProvisioningConstants DEF Fault, TypeOK
<1>2. CASE NoClientset(c)
    BY <1>1, <1>2, ReturnType DEF NoClientset, TypeOK
<1>3. CASE CreateFails(c)
    <2>1. /\ pc' \in [Client -> {"start", "namespace", "report", "done"} \cup Kind]
          /\ result' \in [Client -> {"none", "nil", "error", "killed"}]
          /\ \A d \in Client : pc'[d] = "done" <=> result'[d] # "none"
        BY <1>3, ReturnNotifiedType DEF CreateFails
    <2>2. faults' \in 0..MaxFaults /\ UNCHANGED <<job, stranded>>
        BY <1>1, <1>3 DEF CreateFails
    <2>3. undisturbed' \in [Client -> BOOLEAN]
        BY <1>3, CreatedType DEF CreateFails, TypeOK
    <2>4. ns' \in [phase : {"Absent", "Active", "Terminating"}, maker : Client \cup {None}]
        BY <1>3 DEF CreateFails, TypeOK
    <2>5. object' \in [Kind -> Client \cup {None}]
        BY <1>3 DEF CreateFails, TypeOK
    <2> QED BY <2>1, <2>2, <2>3, <2>4, <2>5 DEF TypeOK
<1>4. CASE DeleteFails(c)
    BY <1>1, <1>4, ReturnType DEF DeleteFails, TypeOK
<1>5. CASE Kill(c)
    BY <1>1, <1>5, ReturnType DEF Kill, TypeOK
<1> QED BY <1>2, <1>3, <1>4, <1>5 DEF ClientFault

LEMMA NextType == ASSUME TypeOK, [Next]_vars PROVE TypeOK'
<1>1. ASSUME NEW k \in Kind, EmptyNamespace(k) PROVE TypeOK'
    BY <1>1 DEF EmptyNamespace, TypeOK
<1>2. CASE FinalizeNamespace
    BY <1>2 DEF FinalizeNamespace, TypeOK, Absent
<1>3. CASE UNCHANGED vars
    BY <1>3 DEF vars, TypeOK
<1> QED BY <1>1, <1>2, <1>3, ClientStepType, ClientFaultType DEF Next, NamespaceController

\* Every reachable state is well typed.
THEOREM TypeCorrect == Spec => []TypeOK
<1> QED BY InitType, NextType, PTL DEF Spec

-----------------------------------------------------------------------------
(* One builder.                                                            *)

\* A creating client past its Namespace is the one that made it, or stranded.
BuilderInv ==
    /\ TypeOK
    /\ ns.phase = "Absent" => ns = Absent /\ \A k \in Kind : object[k] = None
    /\ \A k \in Kind : object[k] \in {None, ns.maker} \cup stranded
    /\ \A c \in AtWork \ stranded : ns.phase = "Active" /\ ns.maker = c

Builders == \A c \in Client : Creating(c) => Builds(c)

LEMMA InitBuilder == Init => BuilderInv
BY InitType DEF Init, BuilderInv, AtWork, Absent, Kind

\* Nothing is made, and nobody gets past a Namespace.
LEMMA OthersBuilder ==
    ASSUME BuilderInv, TypeOK', UNCHANGED <<ns, job, stranded>>,
           \A k \in Kind : object'[k] \in {object[k], None},
           \A d \in Client : pc'[d] = pc[d] \/ d \notin AtWork'
    PROVE  BuilderInv'
BY DEF BuilderInv, AtWork, Creating, Absent

\* What a client makes in the Namespace is its own, and it is there rightly or stranded.
LEMMA ExtendBuilder ==
    ASSUME BuilderInv, TypeOK', NEW c \in Client, NEW k \in Kind, pc[c] = k, Creating(c),
           ns.phase = "Active", object' = [object EXCEPT ![k] = c],
           UNCHANGED <<ns, job, stranded>>, \A d \in Client \ {c} : pc'[d] = pc[d]
    PROVE  BuilderInv'
<1>1. c \in {ns.maker} \cup stranded
    BY DEF BuilderInv, AtWork
<1>2. \A l \in Kind : object'[l] = IF l = k THEN c ELSE object[l]
    BY DEF BuilderInv, TypeOK
<1>3. \A d \in AtWork' : d \in AtWork
    BY DEF AtWork, Creating
<1> QED BY <1>1, <1>2, <1>3 DEF BuilderInv

\* The Namespace is only made where there is none, when nobody else is past it.
LEMMA FoundBuilder ==
    ASSUME BuilderInv, TypeOK', ns = Absent, ns'.phase = "Active",
           UNCHANGED <<object, job, stranded>>,
           \A d \in Client : pc'[d] = pc[d] \/ d \notin AtWork' \/ d = ns'.maker
    PROVE  BuilderInv'
BY DEF BuilderInv, AtWork, Creating, Absent

\* Whoever is at work in a Namespace that begins to go away is stranded.
LEMMA EndBuilder ==
    ASSUME BuilderInv, TypeOK', Ended, ns'.phase = "Terminating", ns'.maker = ns.maker,
           UNCHANGED <<object, job>>, \A d \in Client : pc'[d] = pc[d] \/ d \notin AtWork'
    PROVE  BuilderInv'
BY DEF BuilderInv, AtWork, Creating, Ended

LEMMA ReturnEnds ==
    ASSUME TypeOK, NEW c \in Client, NEW r, Return(c, r) \/ ReturnNotified(c)
    PROVE  pc'[c] = "done" /\ \A d \in Client \ {c} : pc'[d] = pc[d]
BY DEF TypeOK, Return, ReturnNotified

LEMMA EndedBuilder ==
    ASSUME BuilderInv, TypeOK', NEW c \in Client, NEW r, Return(c, r) \/ ReturnNotified(c),
           UNCHANGED <<ns, object, job, stranded>>
    PROVE  BuilderInv'
<1>1. pc'[c] = "done" /\ \A d \in Client \ {c} : pc'[d] = pc[d]
    BY ReturnEnds DEF BuilderInv
<1>2. c \notin AtWork'
    BY <1>1 DEF AtWork, Kind
<1> QED BY <1>1, <1>2, OthersBuilder

LEMMA GoToKeeps ==
    ASSUME TypeOK, NEW c \in Client, NEW step, GoTo(c, step)
    PROVE  /\ pc'[c] = step /\ result' = result
           /\ \A d \in Client \ {c} : pc'[d] = pc[d]
BY DEF TypeOK, GoTo

LEMMA NextBuilder ==
    ASSUME Builders, BuilderInv, [Next]_vars
    PROVE  BuilderInv'
<1>1. TypeOK /\ TypeOK'
    BY NextType DEF BuilderInv
<1>2. \A c \in Client : Creating(c) => job[c].isolation = "namespace"
    BY DEF Builders, Builds
<1>3. ASSUME NEW c \in Client, ClientStep(c) PROVE BuilderInv'
    <2>1. CASE Start(c)
        <3>1. UNCHANGED <<ns, object, job, stranded>>
            BY <2>1 DEF Start
        <3>2. \A d \in Client \ {c} : pc'[d] = pc[d]
            BY <1>1, <2>1, GoToKeeps DEF Start
        <3>3. Creating(c) => pc'[c] = "namespace"
            BY <1>1, <1>2, <2>1, GoToKeeps DEF Start
        <3>4. c \notin AtWork'
            BY <3>1, <3>3 DEF AtWork, Creating, Kind
        <3> QED BY <1>1, <3>1, <3>2, <3>4, OthersBuilder
    <2>2. CASE CreateNamespace(c)
        <3>1. UNCHANGED <<object, job, stranded>>
            BY <2>2 DEF CreateNamespace
        <3>2. CASE ns = Absent
            <4>1. ns' = [phase |-> "Active", maker |-> c] /\ GoTo(c, "quota")
                BY <2>2, <3>2 DEF CreateNamespace
            <4>2. \A d \in Client \ {c} : pc'[d] = pc[d]
                BY <1>1, <4>1, GoToKeeps
            <4> QED BY <1>1, <3>1, <3>2, <4>1, <4>2, FoundBuilder
        <3>3. CASE ns # Absent
            BY <1>1, <2>2, <3>1, <3>3, EndedBuilder DEF CreateNamespace
        <3> QED BY <3>2, <3>3
    <2>3. CASE Report(c)
        BY <1>1, <2>3, EndedBuilder DEF Report
    <2>4. ASSUME NEW k \in Kind, CreateObject(c, k) PROVE BuilderInv'
        <3>1. CASE ns.phase = "Active" /\ object' = [object EXCEPT ![k] = c] /\ GoTo(c, After[k])
            <4>1. \A d \in Client \ {c} : pc'[d] = pc[d]
                BY <1>1, <3>1, GoToKeeps
            <4>2. pc[c] = k /\ Creating(c) /\ UNCHANGED <<ns, job, stranded>>
                BY <2>4 DEF CreateObject
            <4> QED BY <1>1, <3>1, <4>1, <4>2, ExtendBuilder
        <3>2. CASE ReturnNotified(c) /\ UNCHANGED object
            BY <1>1, <2>4, <3>2, EndedBuilder DEF CreateObject
        <3> QED BY <2>4, <3>1, <3>2 DEF CreateObject
    <2>5. ASSUME NEW k \in Kind, DeleteObject(c, k) PROVE BuilderInv'
        <3>1. /\ UNCHANGED <<ns, job, stranded>> /\ ~Creating(c)
              /\ \A l \in Kind : object'[l] \in {object[l], None}
            BY <1>1, <2>5 DEF DeleteObject, TypeOK
        <3>2. \A d \in Client \ {c} : pc'[d] = pc[d]
            BY <1>1, <2>5, GoToKeeps DEF DeleteObject
        <3>3. c \notin AtWork'
            BY <3>1 DEF AtWork, Creating
        <3> QED BY <1>1, <3>1, <3>2, <3>3, OthersBuilder
    <2>6. CASE DeleteNamespace(c)
        <3>1. Return(c, "nil") /\ UNCHANGED <<object, job>>
            BY <2>6 DEF DeleteNamespace
        <3>2. CASE ns.phase = "Active"
            <4>1. Ended /\ ns'.phase = "Terminating" /\ ns'.maker = ns.maker
                BY <1>1, <2>6, <3>2 DEF DeleteNamespace, TypeOK
            <4>2. \A d \in Client : pc'[d] = pc[d] \/ d \notin AtWork'
                BY <1>1, <3>1, ReturnEnds DEF AtWork, Kind
            <4> QED BY <1>1, <3>1, <4>1, <4>2, EndBuilder
        <3>3. CASE ns.phase # "Active"
            BY <1>1, <2>6, <3>1, <3>3, EndedBuilder DEF DeleteNamespace
        <3> QED BY <3>2, <3>3
    <2> QED BY <1>3, <2>1, <2>2, <2>3, <2>4, <2>5, <2>6 DEF ClientStep
<1>4. ASSUME NEW c \in Client, ClientFault(c) PROVE BuilderInv'
    <2>1. CASE NoClientset(c) \/ DeleteFails(c) \/ Kill(c)
        BY <1>1, <2>1, EndedBuilder DEF NoClientset, DeleteFails, Kill
    <2>2. CASE CreateFails(c)
        <3>1. /\ UNCHANGED <<job, stranded>> /\ pc[c] \in Kind \cup {"namespace"}
              /\ Creating(c) /\ ReturnNotified(c)
            BY <2>2 DEF CreateFails
        <3>2. pc'[c] = "done" /\ \A d \in Client \ {c} : pc'[d] = pc[d]
            BY <1>1, <3>1, ReturnEnds
        <3>3. CASE UNCHANGED <<ns, object>>
            BY <1>1, <3>1, <3>3, EndedBuilder
        <3>4. CASE ns = Absent /\ ns' = [phase |-> "Active", maker |-> c] /\ UNCHANGED object
            BY <1>1, <3>1, <3>2, <3>4, FoundBuilder
        <3>5. CASE /\ pc[c] # "namespace" /\ ns.phase = "Active"
                   /\ object' = [object EXCEPT ![pc[c]] = c] /\ UNCHANGED ns
            BY <1>1, <3>1, <3>2, <3>5, ExtendBuilder
        <3> QED BY <2>2, <3>3, <3>4, <3>5 DEF CreateFails
    <2> QED BY <1>4, <2>1, <2>2 DEF ClientFault
<1>5. ASSUME NEW k \in Kind, EmptyNamespace(k) PROVE BuilderInv'
    <2>1. \A l \in Kind : object'[l] \in {object[l], None}
        BY <1>1, <1>5 DEF EmptyNamespace, TypeOK
    <2> QED BY <1>1, <1>5, <2>1, OthersBuilder DEF EmptyNamespace
<1>6. CASE FinalizeNamespace
    BY <1>1, <1>6 DEF FinalizeNamespace, BuilderInv, AtWork, Creating, Absent
<1>7. CASE UNCHANGED vars
    BY <1>1, <1>7 DEF vars, BuilderInv, AtWork, Creating
<1> QED BY <1>3, <1>4, <1>5, <1>6, <1>7 DEF Next, NamespaceController

\* What a client was started for stays.
LEMMA JobsStay == [Next]_vars => UNCHANGED job
BY DEF Next, ClientStep, ClientFault, Start, CreateNamespace, Report, DeleteNamespace,
       CreateObject, DeleteObject, NoClientset, CreateFails, DeleteFails, Kill,
       NamespaceController, FinalizeNamespace, EmptyNamespace, vars

LEMMA KeepsJobs == [Next]_vars /\ Builders' => Builders
BY JobsStay DEF Builders, Builds, Creating

\* However many clients create and delete a tenant at once, and whatever fails, what
\* is in its Namespace is of the client that made it or of one whose own Namespace
\* was deleted under it: creating the Namespace is the lock.
THEOREM OneBuilder == Spec => []SoleBuilder
<1> DEFINE Inv == TypeOK /\ (Builders => BuilderInv)
<1>1. Init => Inv
    BY InitType, InitBuilder
<1>2. Inv /\ [Next]_vars => Inv'
    BY NextType, NextBuilder, KeepsJobs
<1>3. Inv => SoleBuilder
    BY DEF BuilderInv, SoleBuilder, Builders
<1> QED BY <1>1, <1>2, <1>3, PTL DEF Spec

-----------------------------------------------------------------------------
(* Deletions that report success.                                          *)

\* What a deleting client that no creation has crossed has left behind it.
Cleared(c) ==
    ~Creating(c) /\ undisturbed[c] =>
        /\ pc[c] \in {"quota", "secret", "namespace"} => object["netpol"] = None
        /\ pc[c] \in {"secret", "namespace"} => object["quota"] = None
        /\ pc[c] = "namespace" => object["secret"] = None
        /\ result[c] = "nil" => ns.phase # "Active" /\ \A k \in Kind : object[k] = None

DeleteInv == TypeOK /\ \A c \in Client : Cleared(c)

LEMMA InitDelete == Init => DeleteInv
BY InitType DEF Init, DeleteInv, Cleared

LEMMA CreatedDelete ==
    ASSUME TypeOK', Created
    PROVE  DeleteInv'
BY CreatedType DEF DeleteInv, Cleared

\* Nothing was made; client d has not moved.
LEMMA OthersCleared ==
    ASSUME DeleteInv, NEW d \in Client, pc'[d] = pc[d], result'[d] = result[d],
           UNCHANGED job, undisturbed'[d] = undisturbed[d],
           \A k \in Kind : object'[k] \in {object[k], None},
           ns'.phase = "Active" => ns.phase = "Active"
    PROVE  Cleared(d)'
BY DEF DeleteInv, Cleared, Creating, Kind

LEMMA ReturnKeeps ==
    ASSUME TypeOK, NEW c \in Client, NEW r \in {"error", "killed"}, Return(c, r)
    PROVE  /\ pc'[c] = "done" /\ result'[c] = r
           /\ \A d \in Client \ {c} : pc'[d] = pc[d] /\ result'[d] = result[d]
BY DEF TypeOK, Return

LEMMA NotifiedKeeps ==
    ASSUME TypeOK, NEW c \in Client, ReturnNotified(c) \/ \E r : Return(c, r)
    PROVE  \A d \in Client \ {c} : pc'[d] = pc[d] /\ result'[d] = result[d]
BY DEF TypeOK, Return, ReturnNotified

\* Only client c moved, and it creates, or gave up, or has cleared what it should.
LEMMA StepDelete ==
    ASSUME DeleteInv, TypeOK', NEW c \in Client, UNCHANGED job,
           \A d \in Client \ {c} :
               pc'[d] = pc[d] /\ result'[d] = result[d] /\ undisturbed'[d] = undisturbed[d],
           \A k \in Kind : object'[k] \in {object[k], None},
           ns'.phase = "Active" => ns.phase = "Active",
           Creating(c) \/ Cleared(c)'
    PROVE  DeleteInv'
<1>1. ASSUME NEW d \in Client PROVE Cleared(d)'
    <2>1. CASE d # c
        BY <2>1, OthersCleared
    <2>2. CASE d = c
        BY <2>2 DEF Cleared, Creating
    <2> QED BY <2>1, <2>2
<1> QED BY <1>1 DEF DeleteInv

LEMMA NextDelete ==
    ASSUME DeleteInv, [Next]_vars
    PROVE  DeleteInv'
<1>1. TypeOK /\ TypeOK'
    BY NextType DEF DeleteInv
<1>2. ASSUME NEW c \in Client, ClientStep(c) PROVE DeleteInv'
    <2>1. CASE Start(c)
        <3>1. /\ result'[c] = "none" /\ \A d \in Client \ {c} :
                   pc'[d] = pc[d] /\ result'[d] = result[d] /\ undisturbed'[d] = undisturbed[d]
            BY <1>1, <2>1 DEF Start, GoTo, TypeOK
        <3>2. ~Creating(c) => pc'[c] = "netpol"
            BY <1>1, <2>1 DEF Start, GoTo, TypeOK
        <3>3. Creating(c) \/ Cleared(c)'
            BY <2>1, <3>1, <3>2 DEF Cleared, Start
        <3> QED BY <1>1, <2>1, <3>1, <3>3, StepDelete DEF Start
    <2>2. CASE CreateNamespace(c)
        <3>1. CASE Created
            BY <1>1, <3>1, CreatedDelete
        <3>2. CASE ReturnNotified(c) /\ UNCHANGED <<ns, undisturbed>>
            BY <1>1, <2>2, <3>2, NotifiedKeeps, StepDelete DEF CreateNamespace
        <3> QED BY <2>2, <3>1, <3>2 DEF CreateNamespace
    <2>3. CASE Report(c)
        <3>1. Creating(c) \/ Cleared(c)'
            BY <2>3 DEF Report
        <3> QED BY <1>1, <2>3, <3>1, NotifiedKeeps, StepDelete DEF Report
    <2>4. ASSUME NEW k \in Kind, CreateObject(c, k) PROVE DeleteInv'
        <3>1. CASE Created
            BY <1>1, <3>1, CreatedDelete
        <3>2. CASE ReturnNotified(c) /\ UNCHANGED <<object, undisturbed>>
            BY <1>1, <2>4, <3>2, NotifiedKeeps, StepDelete DEF CreateObject
        <3> QED BY <2>4, <3>1, <3>2 DEF CreateObject
    <2>5. ASSUME NEW k \in Kind, DeleteObject(c, k) PROVE DeleteInv'
        <3>1. /\ pc'[c] = Before[k] /\ result' = result /\ result[c] = "none"
              /\ \A d \in Client \ {c} : pc'[d] = pc[d]
            BY <1>1, <2>5, GoToKeeps DEF DeleteObject, TypeOK, Kind
        <3>2. Cleared(c)'
            BY <1>1, <2>5, <3>1 DEF DeleteObject, DeleteInv, Cleared, Creating, Before, Kind, TypeOK
        <3>3. \A l \in Kind : object'[l] \in {object[l], None}
            BY <1>1, <2>5 DEF DeleteObject, TypeOK
        <3> QED BY <1>1, <2>5, <3>1, <3>2, <3>3, StepDelete DEF DeleteObject
    <2>6. CASE DeleteNamespace(c)
        <3>1. ns'.phase # "Active"
            BY <1>1, <2>6 DEF DeleteNamespace, TypeOK
        <3>2. pc'[c] = "done"
            BY <1>1, <2>6 DEF DeleteNamespace, Return, TypeOK
        <3>3. Cleared(c)'
            BY <2>6, <3>1, <3>2 DEF DeleteNamespace, DeleteInv, Cleared, Creating, Kind
        <3> QED BY <1>1, <2>6, <3>1, <3>3, NotifiedKeeps, StepDelete DEF DeleteNamespace
    <2> QED BY <1>2, <2>1, <2>2, <2>3, <2>4, <2>5, <2>6 DEF ClientStep
<1>3. ASSUME NEW c \in Client, ClientFault(c) PROVE DeleteInv'
    <2>1. ASSUME NEW r \in {"error", "killed"}, Return(c, r),
                 UNCHANGED <<ns, object, job, undisturbed>>
          PROVE  DeleteInv'
        <3>1. Cleared(c)'
            BY <1>1, <2>1, ReturnKeeps DEF Cleared
        <3> QED BY <1>1, <2>1, <3>1, ReturnKeeps, StepDelete
    <2>2. CASE CreateFails(c)
        <3>1. CASE Created
            BY <1>1, <3>1, CreatedDelete
        <3>2. CASE UNCHANGED <<ns, object, undisturbed>>
            BY <1>1, <2>2, <3>2, NotifiedKeeps, StepDelete DEF CreateFails
        <3> QED BY <2>2, <3>1, <3>2 DEF CreateFails
    <2> QED BY <1>3, <2>1, <2>2 DEF ClientFault, NoClientset, DeleteFails, Kill
<1>4. CASE NamespaceController
    <2>1. /\ \A k \in Kind : object'[k] \in {object[k], None}
          /\ ns'.phase = "Active" => ns.phase = "Active"
        BY <1>1, <1>4 DEF NamespaceController, EmptyNamespace, FinalizeNamespace, TypeOK, Absent
    <2>2. UNCHANGED <<job, pc, result, undisturbed>>
        BY <1>4 DEF NamespaceController, EmptyNamespace, FinalizeNamespace
    <2> QED BY <1>1, <2>1, <2>2, OthersCleared DEF DeleteInv
<1>5. CASE UNCHANGED vars
    BY <1>1, <1>5 DEF vars, DeleteInv, Cleared, Creating
<1> QED BY <1>2, <1>3, <1>4, <1>5 DEF Next

\* A deletion that no creation crossed and that reports success has left nothing
\* but a Namespace going away, whatever other clients deleted, failed at or
\* were interrupted in.
THEOREM DeletionSound == Spec => []DeleteSound
<1>1. DeleteInv /\ [Next]_vars => DeleteInv'
    BY NextDelete
<1>2. DeleteInv => DeleteSound
    BY DEF DeleteInv, Cleared, DeleteSound
<1> QED BY <1>1, <1>2, InitDelete, PTL DEF Spec
-----------------------------------------------------------------------------
(* Runs that get to the end.                                               *)

\* What client c has made by the call it is at is still there.
Made(c) ==
    /\ pc[c] \in {"netpol", "secret", "report"} => ns.phase = "Active" /\ object["quota"] = c
    /\ pc[c] \in {"secret", "report"} => object["netpol"] = c
    /\ pc[c] = "report" => object["secret"] = c
    /\ pc[c] \in Kind \cup {"report"} /\ job[c].isolation = "namespace"
         => ns.phase = "Active" /\ ns.maker = c

MadeInv == TypeOK /\ \A c \in Client \ stranded : Made(c)

NobodyDeletes == \A c \in Client : Creating(c)

LEMMA InitMade == Init => MadeInv
BY InitType DEF Init, MadeInv, Made, Absent, Kind

\* Nothing that is in a Namespace that is not going away is replaced or lost.
Grows ==
    ns.phase = "Active" =>
        ns' = ns /\ \A k \in Kind : object[k] # None => object'[k] = object[k]

\* Whoever moves has made what it should have.
LEMMA StepMade ==
    ASSUME MadeInv, TypeOK', UNCHANGED <<job, stranded>>, Grows,
           \A d \in Client \ stranded : pc'[d] = pc[d] \/ Made(d)'
    PROVE  MadeInv'
<1>1. ASSUME NEW d \in Client \ stranded, pc'[d] = pc[d] PROVE Made(d)'
    BY <1>1, ProvisioningConstants DEF MadeInv, Made, Grows, Kind
<1> QED BY <1>1 DEF MadeInv

\* A run that is over owes nothing.
LEMMA EndMade ==
    ASSUME MadeInv, TypeOK', NEW c \in Client, UNCHANGED <<job, stranded>>, Grows,
           pc'[c] = "done", \A d \in Client \ {c} : pc'[d] = pc[d]
    PROVE  MadeInv'
<1>1. Made(c)'
    BY DEF Made, Kind
<1> QED BY <1>1, StepMade

\* Nor do those that are stranded when the Namespace begins to go away, and nobody
\* else has made anything.
LEMMA StrandMade ==
    ASSUME NobodyDeletes, MadeInv, TypeOK', Ended, UNCHANGED <<job, pc>>
    PROVE  MadeInv'
<1>1. ASSUME NEW d \in Client \ stranded' PROVE Made(d)'
    <2>1. pc'[d] \notin Kind \cup {"report"}
        BY DEF NobodyDeletes, Ended, AtWork
    <2> QED BY <2>1 DEF Made, Kind
<1> QED BY <1>1 DEF MadeInv

LEMMA NextMade ==
    ASSUME NobodyDeletes, MadeInv, [Next]_vars
    PROVE  MadeInv'
<1>1. TypeOK /\ TypeOK'
    BY NextType DEF MadeInv
<1>2. \A c \in Client : Creating(c)
    BY DEF NobodyDeletes
<1>3. ASSUME NEW c \in Client, ClientStep(c) PROVE MadeInv'
    <2>1. CASE Start(c)
        <3>1. /\ \A d \in Client \ {c} : pc'[d] = pc[d]
              /\ pc'[c] = IF job[c].isolation = "namespace" THEN "namespace" ELSE "quota"
            BY <1>1, <1>2, <2>1, GoToKeeps DEF Start
        <3>2. UNCHANGED <<job, stranded>> /\ Grows
            BY <2>1 DEF Start, Grows
        <3>3. Made(c)'
            BY <3>1, <3>2 DEF Made, Kind
        <3> QED BY <1>1, <3>1, <3>2, <3>3, StepMade
    <2>2. CASE CreateNamespace(c)
        <3>1. UNCHANGED <<job, object, stranded>>
            BY <2>2 DEF CreateNamespace
        <3>2. CASE ns = Absent
            <4>1. ns' = [phase |-> "Active", maker |-> c] /\ GoTo(c, "quota")
                BY <2>2, <3>2 DEF CreateNamespace
            <4>2. pc'[c] = "quota" /\ \A d \in Client \ {c} : pc'[d] = pc[d]
                BY <1>1, <4>1, GoToKeeps
            <4>3. Made(c)' /\ Grows
                BY <3>1, <3>2, <4>1, <4>2 DEF Made, Grows, Absent
            <4> QED BY <1>1, <3>1, <4>2, <4>3, StepMade
        <3>3. CASE ns # Absent
            <4>1. ReturnNotified(c) /\ UNCHANGED ns
                BY <2>2, <3>3 DEF CreateNamespace
            <4> QED BY <1>1, <3>1, <4>1, ReturnEnds, EndMade DEF Grows
        <3> QED BY <3>2, <3>3
    <2>3. CASE Report(c)
        <3>1. (\E r : Return(c, r)) /\ UNCHANGED <<ns, object, job, stranded>>
            BY <2>3 DEF Report
        <3> QED BY <1>1, <3>1, ReturnEnds, EndMade DEF Grows
    <2>4. ASSUME NEW k \in Kind, CreateObject(c, k) PROVE MadeInv'
        <3>1. pc[c] = k /\ UNCHANGED <<ns, job, stranded>>
            BY <2>4 DEF CreateObject
        <3>2. CASE /\ ns.phase = "Active" /\ object[k] = None
                   /\ object' = [object EXCEPT ![k] = c] /\ GoTo(c, After[k])
            <4>1. pc'[c] = After[k] /\ \A d \in Client \ {c} : pc'[d] = pc[d]
                BY <1>1, <3>2, GoToKeeps
            <4>2. \A l \in Kind : object'[l] = IF l = k THEN c ELSE object[l]
                BY <1>1, <3>2 DEF TypeOK
            <4>3. Grows
                BY <3>1, <3>2, <4>2 DEF Grows
            <4>4. c \notin stranded => Made(c)'
                BY <3>1, <3>2, <4>1, <4>2 DEF MadeInv, Made, After, Kind
            <4> QED BY <1>1, <3>1, <4>1, <4>3, <4>4, StepMade
        <3>3. CASE ReturnNotified(c) /\ UNCHANGED object
            BY <1>1, <3>1, <3>3, ReturnEnds, EndMade DEF Grows
        <3> QED BY <2>4, <3>2, <3>3 DEF CreateObject
    <2> QED BY <1>2, <1>3, <2>1, <2>2, <2>3, <2>4
            DEF ClientStep, DeleteNamespace, DeleteObject
<1>4. ASSUME NEW c \in Client, ClientFault(c) PROVE MadeInv'
    <2>1. UNCHANGED <<job, stranded>> /\ ((\E r : Return(c, r)) \/ ReturnNotified(c))
        BY <1>4 DEF ClientFault, NoClientset, CreateFails, DeleteFails, Kill
    <2>2. Grows
        <3>1. CASE NoClientset(c) \/ DeleteFails(c) \/ Kill(c)
            BY <3>1 DEF NoClientset, DeleteFails, Kill, Grows
        <3>2. CASE CreateFails(c)
            BY <1>1, <3>2 DEF CreateFails, Grows, Absent, TypeOK, Kind
        <3> QED BY <1>4, <3>1, <3>2 DEF ClientFault
    <2> QED BY <1>1, <2>1, <2>2, ReturnEnds, EndMade
<1>5. CASE NamespaceController
    <2>1. UNCHANGED <<job, stranded, pc>> /\ Grows
        BY <1>5 DEF NamespaceController, FinalizeNamespace, EmptyNamespace, Grows
    <2> QED BY <1>1, <2>1, StepMade
<1>6. CASE UNCHANGED vars
    BY <1>1, <1>6 DEF vars, MadeInv, Made
<1> QED BY <1>3, <1>4, <1>5, <1>6 DEF Next

\* Among any number of runs that create one tenant, and whatever fails, whoever
\* gets to the report has made all of it, unless its Namespace went away.
THEOREM MakersReport == Spec => []OnlyMakersReport
<1> DEFINE Inv == TypeOK /\ (NobodyDeletes => MadeInv)
<1>1. Init => Inv
    BY InitType, InitMade
<1>2. [Next]_vars /\ NobodyDeletes' => NobodyDeletes
    BY JobsStay DEF NobodyDeletes, Creating
<1>3. Inv /\ [Next]_vars => Inv'
    BY <1>2, NextType, NextMade
<1>4. Inv => OnlyMakersReport
    BY DEF MadeInv, Made, NobodyDeletes, OnlyMakersReport, Kind
<1> QED BY <1>1, <1>3, <1>4, PTL DEF Spec
=============================================================================
