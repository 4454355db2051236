------------------------------ MODULE Manager ------------------------------
(***************************************************************************)
(* The manager process of cmd/main.go, in several replicas: it is set up,  *)
(* serves its probes and the webhook, and runs the reconciler and the      *)
(* scanner when it leads.  The lease that decides who leads is the one of  *)
(* client-go, used with controller-runtime's settings, which main() leaves *)
(* alone.                                                                  *)
(*                                                                         *)
(* Time passes in ticks, for everybody alike: clocks are taken to run at   *)
(* one rate, and a process to notice its own deadlines.                    *)
(***************************************************************************)
EXTENDS Naturals

CONSTANTS
    Replica,        \* pods of the Deployment
    LeaderElect,    \* --leader-elect
    LeaseDuration,  \* a lease not renewed for so long is free
    RenewDeadline,  \* a leader that has not renewed for so long gives up
    MaxFaults,      \* bound on failures, rollouts and outages
    None

ASSUME ManagerConstants ==
    /\ LeaderElect \in BOOLEAN /\ MaxFaults \in Nat /\ None \notin Replica
    /\ {LeaseDuration, RenewDeadline} \subseteq Nat
    /\ RenewDeadline < LeaseDuration

VARIABLES
    phase,  \* replica -> how far main() has come
    lease,  \* who holds it, and how long ago it was last renewed
    own,    \* replica -> how long ago it last heard that it had renewed
    cut,    \* replicas that do not reach the API server
    faults

vars == <<phase, lease, own, cut, faults>>

Phase == {"down", "setup", "probes", "serving", "candidate", "active", "stopping"}

Leading(r) == phase[r] \in {"active", "stopping"}

\* A leader has heard of a renewal within its deadline, and only a process that is
\* in the election or has won it holds the lease.
TypeOK ==
    /\ phase \in [Replica -> Phase]
    /\ lease \in [holder : Replica \cup {None}, age : 0..LeaseDuration]
    /\ own \in [Replica -> 0..RenewDeadline]
    /\ cut \subseteq Replica
    /\ faults \in 0..MaxFaults
    /\ \A r \in Replica : lease.holder = r => phase[r] \in {"candidate", "active", "stopping"}

Init ==
    /\ phase = [r \in Replica |-> "down"]
    /\ lease = [holder |-> None, age |-> LeaseDuration]
    /\ own = [r \in Replica |-> 0]
    /\ cut = {}
    /\ faults = 0

Enter(r, p) == phase' = [phase EXCEPT ![r] = p]
Fault       == faults < MaxFaults /\ faults' = faults + 1

\* Mutant: the lease is held in the pod's name.
ExitKeepingName(r) == Enter(r, "down") /\ UNCHANGED lease

\* The process is gone, and with it the identity the lease is held under; the
\* lease itself is left to run out (no LeaderElectionReleaseOnCancel).
Exit(r) ==
    /\ Enter(r, "down")
    /\ lease' = IF lease.holder = r THEN [lease EXCEPT !.holder = None] ELSE lease

-----------------------------------------------------------------------------
(* One replica.                                                            *)

Boot(r) ==
    /\ phase[r] = "down" /\ Enter(r, "setup")
    /\ UNCHANGED <<lease, own, cut, faults>>

\* NewManager, the reconciler with the scanner, the webhook, the two checks.
Setup(r) ==
    /\ phase[r] = "setup" /\ r \notin cut /\ Enter(r, "probes")
    /\ UNCHANGED <<lease, own, cut, faults>>

\* mgr.Start serves the probes before the webhook, and the webhook, on every
\* replica, before the caches are filled and the election entered.
ServeWebhook(r) ==
    /\ phase[r] = "probes" /\ Enter(r, "serving")
    /\ UNCHANGED <<lease, own, cut, faults>>

SyncCaches(r) ==
    /\ phase[r] = "serving" /\ r \notin cut
    /\ Enter(r, IF LeaderElect THEN "candidate" ELSE "active")
    /\ UNCHANGED <<lease, own, cut, faults>>

\* Any error on the way ends in os.Exit(1).
StartFails(r) ==
    /\ phase[r] \in {"setup", "probes", "serving"} /\ Fault /\ Exit(r)
    /\ UNCHANGED <<own, cut>>

\* A candidate takes a lease that has run out, or one it holds without having
\* been told.
Elect(r) ==
    /\ phase[r] = "candidate" /\ r \notin cut
    /\ lease.holder = r \/ lease.age = LeaseDuration
    /\ Enter(r, "active")
    /\ lease' = [holder |-> r, age |-> 0]
    /\ own' = [own EXCEPT ![r] = 0]
    /\ UNCHANGED <<cut, faults>>

Renew(r) ==
    /\ LeaderElect /\ Leading(r) /\ r \notin cut /\ lease.holder = r
    /\ lease' = [lease EXCEPT !.age = 0]
    /\ own' = [own EXCEPT ![r] = 0]
    /\ UNCHANGED <<phase, cut, faults>>

\* The answer to an election or a renewal is lost.
AnswerLost(r) ==
    /\ LeaderElect /\ r \notin cut /\ Fault
    /\ \/ Leading(r) /\ lease.holder = r
       \/ phase[r] = "candidate" /\ lease.age = LeaseDuration
    /\ lease' = [holder |-> r, age |-> 0]
    /\ UNCHANGED <<phase, own, cut>>

\* "leader election lost": Start returns at once, and main() exits.
LoseLease(r) ==
    /\ LeaderElect /\ Leading(r) /\ own[r] = RenewDeadline
    /\ Exit(r)
    /\ UNCHANGED <<own, cut, faults>>

\* Mutant: LeaderElectionReleaseOnCancel, with work still to be ended.
TerminateReleasing(r) ==
    /\ phase[r] \notin {"down", "stopping"} /\ Fault
    /\ IF phase[r] = "active"
         THEN Enter(r, "stopping") /\ lease' = [holder |-> None, age |-> LeaseDuration]
         ELSE Exit(r)
    /\ UNCHANGED <<own, cut>>

\* SIGTERM, at a rollout: the reconciler and the scanner, if they run, are asked
\* to end, and waited for.
Terminate(r) ==
    /\ phase[r] \notin {"down", "stopping"} /\ Fault
    /\ IF phase[r] = "active" THEN Enter(r, "stopping") /\ UNCHANGED lease ELSE Exit(r)
    /\ UNCHANGED <<own, cut>>

\* Mutant: the process outlives its manager.
StoppedStaying(r) ==
    /\ phase[r] = "stopping" /\ Enter(r, "stopping")
    /\ UNCHANGED <<lease, own, cut, faults>>

\* They have ended, or the pod's grace period has; the program ends with them.
Stopped(r) ==
    /\ phase[r] = "stopping" /\ Exit(r)
    /\ UNCHANGED <<own, cut, faults>>

Crash(r) ==
    /\ phase[r] # "down" /\ Fault /\ Exit(r)
    /\ UNCHANGED <<own, cut>>

-----------------------------------------------------------------------------
(* The network and time.                                                   *)

Cut(r) ==
    /\ r \notin cut /\ Fault /\ cut' = cut \cup {r}
    /\ UNCHANGED <<phase, lease, own>>

Heal(r) ==
    /\ r \in cut /\ cut' = cut \ {r}
    /\ UNCHANGED <<phase, lease, own, faults>>

\* A leader that can renews between two ticks, and one that cannot gives up
\* before its deadline is over.
Tick ==
    /\ \A r \in Replica : LeaderElect /\ Leading(r) =>
         own[r] < RenewDeadline /\ (own[r] > 0 => r \in cut)
    /\ lease' = [lease EXCEPT !.age = IF @ < LeaseDuration THEN @ + 1 ELSE @]
    /\ own' = [r \in Replica |-> IF LeaderElect /\ Leading(r) THEN own[r] + 1 ELSE own[r]]
    /\ UNCHANGED <<phase, cut, faults>>

-----------------------------------------------------------------------------

Start(r) == Boot(r) \/ Setup(r) \/ ServeWebhook(r) \/ SyncCaches(r) \/ Elect(r)

Next ==
    \/ \E r \in Replica : Start(r) \/ Renew(r) \/ LoseLease(r) \/ Stopped(r)
    \/ \E r \in Replica : StartFails(r) \/ AnswerLost(r) \/ Terminate(r) \/ Crash(r)
    \/ \E r \in Replica : Cut(r) \/ Heal(r)
    \/ Tick

Spec == Init /\ [][Next]_vars

\* The process runs and is restarted, gives up in time and, asked to stop, is
\* killed after a grace period at the latest; outages end.
FairSpec ==
    /\ Spec /\ WF_vars(Tick)
    /\ \A r \in Replica :
         /\ WF_vars(Start(r)) /\ WF_vars(Renew(r)) /\ WF_vars(LoseLease(r))
         /\ WF_vars(Stopped(r)) /\ WF_vars(Heal(r))

-----------------------------------------------------------------------------
(* Properties.                                                             *)

\* "Enabling this will ensure there is only one active controller manager": the
\* reconciler and the scanner never run in two replicas at once, not even while
\* one of them is still stopping.
AtMostOneActive ==
    LeaderElect => \A r, q \in Replica : Leading(r) /\ Leading(q) => r = q

\* Whatever crashes, is rolled out or cut off, the Tenants have an active manager
\* again, although a lease is never given back.
TakesOver == []<>(\E r \in Replica : phase[r] = "active")
=============================================================================
