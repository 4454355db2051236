--------------------------- MODULE ManagerProofs ---------------------------
(***************************************************************************)
(* Proofs about Manager, for any number of replicas, faults and any        *)
(* durations with RenewDeadline < LeaseDuration.                           *)
(***************************************************************************)
EXTENDS Manager, TLAPS

LEMMA InitType == Init => TypeOK
  BY ManagerConstants DEF Init, TypeOK, Phase

LEMMA NextType == TypeOK /\ [Next]_vars => TypeOK'
<1> SUFFICES ASSUME TypeOK, [Next]_vars PROVE TypeOK'
  OBVIOUS
<1> USE ManagerConstants DEF TypeOK, Phase, Enter, Fault
<1>1. ASSUME NEW r \in Replica, Start(r) PROVE TypeOK'
  BY <1>1 DEF Start, Boot, Setup, ServeWebhook, SyncCaches, Elect
<1>2. ASSUME NEW r \in Replica, Renew(r) PROVE TypeOK'
  BY <1>2 DEF Renew, Leading
<1>3. ASSUME NEW r \in Replica, LoseLease(r) PROVE TypeOK'
  BY <1>3 DEF LoseLease, Leading, Exit
<1>4. ASSUME NEW r \in Replica, Stopped(r) PROVE TypeOK'
  BY <1>4 DEF Stopped, Exit
<1>5. ASSUME NEW r \in Replica, StartFails(r) PROVE TypeOK'
  BY <1>5 DEF StartFails, Exit
<1>6. ASSUME NEW r \in Replica, AnswerLost(r) PROVE TypeOK'
  BY <1>6 DEF AnswerLost, Leading
<1>7. ASSUME NEW r \in Replica, Terminate(r) PROVE TypeOK'
  BY <1>7 DEF Terminate, Exit
<1>8. ASSUME NEW r \in Replica, Crash(r) PROVE TypeOK'
  BY <1>8 DEF Crash, Exit
<1>9. ASSUME NEW r \in Replica, Cut(r) \/ Heal(r) PROVE TypeOK'
  BY <1>9 DEF Cut, Heal
<1>10. ASSUME Tick PROVE TypeOK'
  BY <1>10 DEF Tick, Leading
<1>11. CASE UNCHANGED vars
  BY <1>11 DEF vars
<1>12. QED
  BY <1>1, <1>2, <1>3, <1>4, <1>5, <1>6, <1>7, <1>8, <1>9, <1>10, <1>11 DEF Next

\* Every reachable state of the replicas, their lease and their clocks is well
\* typed; in particular no leader of cmd/main.go outlives its renewal deadline.
THEOREM TypeCorrect == Spec => []TypeOK
  BY InitType, NextType, PTL DEF Spec

-----------------------------------------------------------------------------

\* A leader holds the lease, and the lease is at least as fresh as it thinks.
LeaseHeld ==
    LeaderElect => \A r \in Replica :
        Leading(r) => lease.holder = r /\ lease.age <= own[r]

LEMMA InitHeld == Init => LeaseHeld
  BY DEF Init, LeaseHeld, Leading

\* Nobody can take a lease that a leader goes by: the leader would have given up.
LEMMA LeaderKeepsLease ==
    ASSUME TypeOK, LeaseHeld, LeaderElect, NEW r \in Replica, Leading(r)
    PROVE  lease.age # LeaseDuration
  BY ManagerConstants DEF TypeOK, LeaseHeld

LEMMA ExitHeld ==
    ASSUME TypeOK, LeaseHeld, NEW r \in Replica, Exit(r), UNCHANGED own
    PROVE  LeaseHeld'
  BY ManagerConstants DEF TypeOK, LeaseHeld, Exit, Enter, Leading

LEMMA NextHeld == TypeOK /\ LeaseHeld /\ [Next]_vars => LeaseHeld'
<1> SUFFICES ASSUME TypeOK, LeaseHeld, [Next]_vars PROVE LeaseHeld'
  OBVIOUS
<1>1. ASSUME NEW r \in Replica, Boot(r) \/ Setup(r) \/ ServeWebhook(r) \/ SyncCaches(r)
      PROVE  LeaseHeld'
  BY <1>1 DEF Boot, Setup, ServeWebhook, SyncCaches, Enter, TypeOK, LeaseHeld, Leading
<1>2. ASSUME NEW r \in Replica, Elect(r) PROVE LeaseHeld'
  <2>1. ASSUME LeaderElect, NEW q \in Replica, Leading(q) PROVE FALSE
    <3>1. lease.holder = q
      BY <2>1 DEF LeaseHeld
    <3>2. q # r
      BY <1>2, <2>1 DEF Elect, Leading
    <3>3. lease.age = LeaseDuration
      BY <1>2, <3>1, <3>2 DEF Elect
    <3>4. QED
      BY <2>1, <3>3, LeaderKeepsLease
  <2>2. QED
    BY <1>2, <2>1 DEF Elect, Enter, TypeOK, LeaseHeld, Leading
<1>3. ASSUME NEW r \in Replica, Renew(r) PROVE LeaseHeld'
  BY <1>3 DEF Renew, TypeOK, LeaseHeld, Leading
<1>4. ASSUME NEW r \in Replica, AnswerLost(r) PROVE LeaseHeld'
  <2>1. CASE Leading(r) /\ lease.holder = r
    BY <1>4, <2>1 DEF AnswerLost, TypeOK, LeaseHeld, Leading
  <2>2. CASE phase[r] = "candidate" /\ lease.age = LeaseDuration
    BY <1>4, <2>2, LeaderKeepsLease DEF AnswerLost, LeaseHeld, Leading
  <2>3. QED
    BY <1>4, <2>1, <2>2 DEF AnswerLost
<1>5. ASSUME NEW r \in Replica, LoseLease(r) \/ Stopped(r) \/ StartFails(r) \/ Crash(r)
      PROVE  LeaseHeld'
  BY <1>5, ExitHeld DEF LoseLease, Stopped, StartFails, Crash
<1>6. ASSUME NEW r \in Replica, Terminate(r) PROVE LeaseHeld'
  <2>1. CASE phase[r] = "active"
    BY <1>6, <2>1 DEF Terminate, Enter, TypeOK, LeaseHeld, Leading
  <2>2. CASE phase[r] # "active"
    BY <1>6, <2>2, ExitHeld DEF Terminate
  <2>3. QED
    BY <2>1, <2>2
<1>7. ASSUME NEW r \in Replica, Cut(r) \/ Heal(r) PROVE LeaseHeld'
  BY <1>7 DEF Cut, Heal, LeaseHeld, Leading
<1>8. ASSUME Tick PROVE LeaseHeld'
  BY <1>8, ManagerConstants DEF Tick, TypeOK, LeaseHeld, Leading
<1>9. CASE UNCHANGED vars
  BY <1>9 DEF vars, LeaseHeld, Leading
<1>10. QED
  BY <1>1, <1>2, <1>3, <1>4, <1>5, <1>6, <1>7, <1>8, <1>9 DEF Next, Start

LEMMA HeldMeansOne == LeaseHeld => AtMostOneActive
  BY DEF LeaseHeld, AtMostOneActive

\* With --leader-elect the reconciler and the scanner run in one replica at most,
\* whatever crashes, is cut off, rolled out or loses answers, as long as a leader
\* gives up before its lease runs out.
THEOREM OneActive == Spec => []AtMostOneActive
<1>1. Init => TypeOK /\ LeaseHeld
  BY InitType, InitHeld
<1>2. TypeOK /\ LeaseHeld /\ [Next]_vars => (TypeOK /\ LeaseHeld)'
  BY NextType, NextHeld
<1>3. QED
  BY <1>1, <1>2, HeldMeansOne, PTL DEF Spec
=============================================================================
