-------------------------- MODULE TenantLifecycle --------------------------
(***************************************************************************)
(* What the Tenant controller promises of a Tenant, without caches, queues *)
(* or API calls: the stages a Tenant goes through and what may move it     *)
(* from one to the next.  A user, a failing call or a restart is a         *)
(* disruption and is counted; everything else is the platform's own work.  *)
(***************************************************************************)
EXTENDS Naturals

CONSTANT Tenant

VARIABLES
    stage,          \* Tenant -> where it is in its life
    disruptions     \* how many disruptions there have been

vars == <<stage, disruptions>>

Stage == {
    "absent",       \* no such Tenant, nothing that it controls
    "provisioning", \* it exists, something of what it is due is missing
    "provisioned",  \* it has all it is due, and nothing dooms it
    "blocked",      \* it exists, its namespace name is held by somebody else
    "leaving"}      \* it is gone, something that it controlled is still there

Init == stage = [t \in Tenant |-> "absent"] /\ disruptions = 0

\* A disruption takes one Tenant to any stage, to "provisioned" only by asking
\* less of the platform for a Tenant that was being provisioned.
Disrupt ==
    /\ disruptions' = disruptions + 1
    /\ \/ UNCHANGED stage
       \/ \E t \in Tenant, s \in Stage :
            /\ s = "provisioned" => stage[t] = "provisioning"
            /\ stage' = [stage EXCEPT ![t] = s]

Move(t, from, to) ==
    stage[t] \in from /\ stage' = [stage EXCEPT ![t] = to] /\ UNCHANGED disruptions

\* What was missing is there.
Provision(t) == Move(t, {"provisioning"}, "provisioned")

\* The Namespace of somebody else is gone.
Unblock(t) == Move(t, {"blocked"}, "provisioning")

\* A Tenant whose Namespace went away may be collected with it.
Collect(t) == Move(t, {"provisioning", "blocked"}, "leaving")

\* The last object of a Tenant that is gone is collected.
Depart(t) == Move(t, {"leaving", "provisioning", "blocked"}, "absent")

\* A Reconcile that began before its Tenant was deleted still creates something.
Straggle(t) == Move(t, {"absent"}, "leaving")

Next ==
    \/ Disrupt
    \/ \E t \in Tenant :
         Provision(t) \/ Unblock(t) \/ Collect(t) \/ Depart(t) \/ Straggle(t)

Spec == Init /\ [][Next]_vars

-----------------------------------------------------------------------------

\* Nothing stays half done: a Tenant leaves "provisioning" and "leaving" again,
\* whatever happened to it before.
NothingHalfDone ==
    \A t \in Tenant, s \in {"provisioning", "leaving"} :
        stage[t] = s ~> stage[t] # s
=============================================================================
