------------------------- MODULE TenantRefinement -------------------------
(***************************************************************************)
(* TenantController implements TenantLifecycle: the stage of a Tenant as a *)
(* function of the API server's objects.                                   *)
(***************************************************************************)
EXTENDS TenantController

\* t, or a former Tenant of its name, controls something.
Holds(t) ==
    \E n \in Namespace :
        \/ t \in OwnersOf(ns[n])
        \/ \E k \in Kind : t \in OwnersOf(child[k][n])

\* The garbage collector may still collect t for a Namespace that is gone.
Doomed(t) == tenant[t].nsRef # None /\ ~Lives(ns[NsOf[t]], tenant[t].nsRef)

StageOf(t) ==
    IF tenant[t] = None THEN IF Holds(t) THEN "leaving" ELSE "absent"
    ELSE IF Blocked(t) THEN "blocked"
    ELSE IF Settled(t) /\ ~Doomed(t) THEN "provisioned"
    ELSE "provisioning"

Lifecycle == INSTANCE TenantLifecycle WITH stage <- [t \in Tenant |-> StageOf(t)]

\* The controller keeps the lifecycle: in particular no step of Reconcile, of
\* an informer or of a collector ever takes a provisioned Tenant out of
\* "provisioned", brings a deleted one back, or provisions a name that somebody
\* else holds.
KeepsLifecycle == Lifecycle!Spec

\* The same from wherever a manager starts.
LifecycleSteps == [][Lifecycle!Next]_(Lifecycle!vars)

\* A Tenant is not left half provisioned or half collected, also while things
\* still go wrong.
LeavesNothingHalfDone == Lifecycle!NothingHalfDone
=============================================================================
