----------------------- MODULE TenantAdmissionProofs -----------------------
(***************************************************************************)
(* Theorems about the admission of Tenants.  That Telegram does not decide *)
(* rests on the API server and the handler having waited equally long, and *)
(* that nothing is stored unannounced on an intercepted request being      *)
(* admitted only by a handler of that attempt, which has tried to send     *)
(* its message before it answers.                                          *)
(***************************************************************************)
EXTENDS TenantAdmission, TLAPS

\* From its submission to its verdict a request has been waited for exactly as
\* long as its handler, if there is one, has been waiting for Telegram, and so
\* never longer than SendMessageTelegram's client waits.
WaitedTogether ==
    \A r \in Request :
        /\ req[r].at = "mutating" => age[r] = 0
        /\ req[r].at = "validating" =>
             /\ handler[r] = "none" => age[r] = 0
             /\ handler[r] = "sending" => age[r] = wait[r]
             /\ age[r] <= TelegramTimeout

\* A handler that has begun, unless it is an update's, has called
\* SendMessageTelegram, and an intercepted request is admitted only after its
\* handler has begun.
TriedFirst ==
    \A r \in Request :
        /\ handler[r] # "none" /\ req[r].op # "update" => r \in tried
        /\ req[r].at = "admitted" /\ req[r].op \in webhook.validates => handler[r] # "none"

AdmissionInv == TypeOK /\ WaitedTogether /\ TelegramNeverDecides /\ TriedFirst

-----------------------------------------------------------------------------

Requests == [Request -> [op : Op, dryRun : BOOLEAN, at : Place,
                         cause : {"none", "down", "timeout", "state"}]]

\* Moving one request, or denying it, leaves the others and what it asks alone.
LEMMA Moved ==
    ASSUME req \in Requests, NEW r \in Request, NEW place \in Place, At(r, place)
    PROVE  /\ req' \in Requests /\ req'[r].at = place /\ req'[r].op = req[r].op
           /\ \A s \in Request \ {r} : req'[s] = req[s]
BY DEF Requests, At

LEMMA Denied ==
    ASSUME req \in Requests, NEW r \in Request,
           NEW why \in {"down", "timeout", "state"}, Deny(r, why)
    PROVE  /\ req' \in Requests /\ req'[r].at = "denied" /\ req'[r].op = req[r].op
           /\ req'[r].cause = why
           /\ \A s \in Request \ {r} : req'[s] = req[s]
BY DEF Requests, Deny, Place

LEMMA Renewed ==
    ASSUME req \in Requests, NEW r \in Request,
           req' = [req EXCEPT ![r].at = "new", ![r].cause = "none"]
    PROVE  /\ req' \in Requests /\ req'[r].at = "new" /\ req'[r].op = req[r].op
           /\ \A s \in Request \ {r} : req'[s] = req[s]
BY DEF Requests, Place

\* What a step leaves of the type invariant to be shown.
LEMMA TypeKept ==
    ASSUME TypeOK, stored' \in BOOLEAN, up' \in BOOLEAN, webhook' = webhook,
           crashes' \in 0..MaxCrashes, req' \in Requests,
           age' \in [Request -> 0..limit], handler' \in [Request -> Handler],
           wait' \in [Request -> 0..TelegramTimeout], tried' \subseteq Request,
           \A r \in Request : req'[r].at \in {"new", "mutating"} => handler'[r] = "none"
    PROVE  TypeOK'
BY DEF TypeOK, Requests, limit

LEMMA TypeParts ==
    ASSUME TypeOK
    PROVE  /\ stored \in BOOLEAN /\ up \in BOOLEAN /\ req \in Requests
           /\ age \in [Request -> 0..limit] /\ handler \in [Request -> Handler]
           /\ wait \in [Request -> 0..TelegramTimeout] /\ tried \subseteq Request
           /\ webhook \in Configuration /\ crashes \in 0..MaxCrashes
           /\ limit \in Nat \ {0}
           /\ \A r \in Request : req[r].at \in {"new", "mutating"} => handler[r] = "none"
BY AdmissionConstants DEF TypeOK, Requests, limit

LEMMA InitInv == Init => AdmissionInv
<1> SUFFICES ASSUME Init PROVE AdmissionInv
  OBVIOUS
<1>1. TypeOK
  BY AdmissionConstants DEF Init, TypeOK, Op, Place, Handler, limit
<1>2. WaitedTogether /\ TelegramNeverDecides /\ TriedFirst
  BY AdmissionConstants DEF Init, WaitedTogether, TelegramNeverDecides, TriedFirst
<1> QED  BY <1>1, <1>2 DEF AdmissionInv

LEMMA NextInv == AdmissionInv /\ [Next]_vars => AdmissionInv'
<1> SUFFICES ASSUME AdmissionInv, [Next]_vars PROVE AdmissionInv'
  OBVIOUS
<1> USE AdmissionConstants DEF AdmissionInv, limit
<1>t. TypeOK
  OBVIOUS
<1>1. ASSUME NEW r \in Request, Submit(r) PROVE AdmissionInv'
  <2>0. req' \in Requests /\ age' \in [Request -> 0..limit]
    BY <1>1, Moved, <1>t, TypeParts DEF Submit, Onward, Place
  <2>1. TypeOK'
    BY <1>1, <2>0, <1>t, TypeParts, TypeKept DEF Submit, Onward, At, Requests
  <2>2. (WaitedTogether /\ TelegramNeverDecides /\ TriedFirst)'
    BY <1>1 DEF TypeOK, Submit, Onward, Applicable, At, WaitedTogether, TelegramNeverDecides, TriedFirst
  <2> QED  BY <2>1, <2>2
<1>2. ASSUME NEW r \in Request, Repeat(r) PROVE AdmissionInv'
  <2>1. TypeOK'
    <3>1. req' \in Requests /\ \A s \in Request \ {r} : req'[s] = req[s]
      BY <1>2, <1>t, TypeParts, Renewed DEF Repeat
    <3>2. handler' \in [Request -> Handler] /\ handler'[r] = "none"
      BY <1>2, <1>t, TypeParts DEF Repeat, Handler
    <3>3. \A s \in Request \ {r} : handler'[s] = handler[s]
      BY <1>2, <1>t, TypeParts DEF Repeat
    <3> QED  BY <1>2, <3>1, <3>2, <3>3, <1>t, TypeParts, TypeKept DEF Repeat
  <2>2. (WaitedTogether /\ TelegramNeverDecides /\ TriedFirst)'
    BY <1>2 DEF TypeOK, Repeat, WaitedTogether, TelegramNeverDecides, TriedFirst
  <2> QED  BY <2>1, <2>2
<1>3. ASSUME NEW r \in Request, ConnectionFails(r) PROVE AdmissionInv'
  <2>1. TypeOK'
    BY <1>3, Denied, <1>t, TypeParts, TypeKept DEF ConnectionFails, Place
  <2>2. (WaitedTogether /\ TelegramNeverDecides /\ TriedFirst)'
    BY <1>3 DEF TypeOK, ConnectionFails, Deny, WaitedTogether, TelegramNeverDecides, TriedFirst
  <2> QED  BY <2>1, <2>2
<1>4. ASSUME NEW r \in Request, Accept(r) PROVE AdmissionInv'
  <2>1. TypeOK'
    BY <1>4, Moved, <1>t, TypeParts, TypeKept DEF Accept, Place
  <2>2. (WaitedTogether /\ TelegramNeverDecides /\ TriedFirst)'
    BY <1>4 DEF TypeOK, Accept, At, WaitedTogether, TelegramNeverDecides, TriedFirst
  <2> QED  BY <2>1, <2>2
\* The one denial that is not for a state or a server that is down: under the
\* proviso it does not happen, since the time-out is past the waiting.
<1>5. ASSUME NEW r \in Request, Timeout(r) PROVE AdmissionInv'
  <2>1. TypeOK'
    BY <1>5, Denied, <1>t, TypeParts, TypeKept DEF Timeout, Place
  <2>2. ~(limit > TelegramTimeout)
    BY <1>5, <1>t, TypeParts DEF Timeout, WaitedTogether
  <2>3. (WaitedTogether /\ TelegramNeverDecides /\ TriedFirst)'
    BY <1>5, <2>2 DEF TypeOK, Timeout, Deny, WaitedTogether, TelegramNeverDecides, TriedFirst
  <2> QED  BY <2>1, <2>3
<1>6. ASSUME NEW r \in Request, Store(r) PROVE AdmissionInv'
  <2>s. stored' \in BOOLEAN
    BY <1>6, <1>t, TypeParts DEF Store
  <2>0. /\ req' \in Requests
        /\ req'[r].at = "done" \/ (req'[r].at = "denied" /\ req'[r].cause = "state")
        /\ req'[r].op = req[r].op /\ \A s \in Request \ {r} : req'[s] = req[s]
    <3>t. req \in Requests /\ "done" \in Place
      BY <1>t, TypeParts DEF Place
    <3>1. CASE At(r, "done")
      BY <3>1, <3>t, Moved
    <3>2. CASE Deny(r, "state")
      BY <3>2, Denied, <1>t, TypeParts
    <3> QED  BY <1>6, <3>1, <3>2 DEF Store
  <2>1. TypeOK'
    BY <1>6, <2>s, <2>0, <1>t, TypeParts, TypeKept DEF Store
  <2>2. (WaitedTogether /\ TelegramNeverDecides /\ TriedFirst)'
    BY <1>6, <2>0 DEF Store, WaitedTogether, TelegramNeverDecides, TriedFirst
  <2> QED  BY <2>1, <2>2
<1>7. ASSUME NEW r \in Request, Default(r) PROVE AdmissionInv'
  <2>1. TypeOK'
    BY <1>7, Moved, <1>t, TypeParts, TypeKept DEF Default, Onward, Place
  <2>2. (WaitedTogether /\ TelegramNeverDecides /\ TriedFirst)'
    BY <1>7 DEF TypeOK, Default, Onward, At, WaitedTogether, TelegramNeverDecides, TriedFirst
  <2> QED  BY <2>1, <2>2
<1>8. ASSUME NEW r \in Request, ValidateCreate(r) \/ ValidateDelete(r) PROVE AdmissionInv'
  <2>1. TypeOK'
    BY <1>8, <1>t, TypeParts, TypeKept DEF ValidateCreate, ValidateDelete, Reached, SendMessageTelegram, Handler
  <2>2. (WaitedTogether /\ TelegramNeverDecides /\ TriedFirst)'
    BY <1>8 DEF TypeOK, ValidateCreate, ValidateDelete, Reached, SendMessageTelegram,
                WaitedTogether, TelegramNeverDecides, TriedFirst
  <2> QED  BY <2>1, <2>2
<1>9. ASSUME NEW r \in Request, ValidateUpdate(r) PROVE AdmissionInv'
  <2>1. TypeOK'
    BY <1>9, <1>t, TypeParts, TypeKept DEF ValidateUpdate, Reached, Handler
  <2>2. (WaitedTogether /\ TelegramNeverDecides /\ TriedFirst)'
    BY <1>9 DEF TypeOK, ValidateUpdate, Reached,
                WaitedTogether, TelegramNeverDecides, TriedFirst
  <2> QED  BY <2>1, <2>2
<1>10. ASSUME NEW r \in Request, TelegramReturns(r) PROVE AdmissionInv'
  <2>1. TypeOK'
    BY <1>10, <1>t, TypeParts, TypeKept DEF TelegramReturns, Handler
  <2>2. (WaitedTogether /\ TelegramNeverDecides /\ TriedFirst)'
    BY <1>10 DEF TypeOK, TelegramReturns, WaitedTogether, TelegramNeverDecides, TriedFirst
  <2> QED  BY <2>1, <2>2
\* Both clocks of a request move together, and only while its handler sends.
<1>11. CASE Tick
  <2>1. age' \in [Request -> 0..limit] /\ wait' \in [Request -> 0..TelegramTimeout]
    <3>1. ASSUME NEW r \in Request, req[r].at = "validating" PROVE age[r] + 1 \in 0..limit
      BY <1>11, <3>1, <1>t, TypeParts DEF Tick
    <3>2. ASSUME NEW r \in Request, handler[r] = "sending"
          PROVE  wait[r] + 1 \in 0..TelegramTimeout
      BY <1>11, <3>2, <1>t, TypeParts DEF Tick
    <3> QED  BY <1>11, <3>1, <3>2, <1>t, TypeParts DEF Tick
  <2>2. TypeOK'
    BY <1>11, <2>1, <1>t, TypeParts, TypeKept DEF Tick
  <2>3. WaitedTogether'
    <3> SUFFICES ASSUME NEW r \in Request
                 PROVE  /\ req[r].at = "mutating" => age'[r] = 0
                        /\ req[r].at = "validating" =>
                             /\ handler[r] = "none" => age'[r] = 0
                             /\ handler[r] = "sending" => age'[r] = wait'[r]
                             /\ age'[r] <= TelegramTimeout
      BY <1>11 DEF Tick, WaitedTogether
    <3>1. req[r].at # "mutating" /\ (req[r].at = "validating" => handler[r] = "sending")
      BY <1>11 DEF Tick
    <3>2. CASE req[r].at = "validating"
      <4>1. /\ age'[r] = age[r] + 1 /\ wait'[r] = wait[r] + 1 /\ wait[r] < TelegramTimeout
            /\ age[r] = wait[r] /\ wait[r] \in Nat
        BY <1>11, <3>1, <3>2, <1>t, TypeParts DEF Tick, WaitedTogether
      <4> QED  BY <3>1, <4>1
    <3> QED  BY <3>1, <3>2
  <2> QED  BY <1>11, <2>2, <2>3 DEF Tick, TelegramNeverDecides, TriedFirst
<1>12. CASE Crash
  <2>0. /\ handler' \in [Request -> Handler] /\ crashes' \in 0..MaxCrashes
        /\ \A r \in Request : handler[r] = "none" => handler'[r] = "none"
    BY <1>12, <1>t, TypeParts DEF Crash, Handler
  <2>1. TypeOK'
    BY <1>12, <2>0, <1>t, TypeParts, TypeKept DEF Crash
  <2>2. (WaitedTogether /\ TelegramNeverDecides /\ TriedFirst)'
    BY <1>12 DEF TypeOK, Crash, WaitedTogether, TelegramNeverDecides, TriedFirst
  <2> QED  BY <2>1, <2>2
<1>13. CASE Recover
  <2>1. TypeOK'
    BY <1>13, <1>t, TypeParts, TypeKept DEF Recover
  <2>2. (WaitedTogether /\ TelegramNeverDecides /\ TriedFirst)'
    BY <1>13 DEF Recover, WaitedTogether, TelegramNeverDecides, TriedFirst
  <2> QED  BY <2>1, <2>2
<1>14. CASE UNCHANGED vars
  BY <1>14 DEF vars, TypeOK, WaitedTogether, TelegramNeverDecides, TriedFirst
<1> QED  BY <1>1, <1>2, <1>3, <1>4, <1>5, <1>6, <1>7, <1>8, <1>9, <1>10, <1>11, <1>12, <1>13, <1>14
         DEF Next, Step

LEMMA Invariance == Spec => []AdmissionInv
BY InitInv, NextInv, PTL DEF Spec

-----------------------------------------------------------------------------

\* A request, its handler and their clocks stay within their types: the API
\* server never waits past its time-out, the handler never past Telegram's.
THEOREM TypeCorrect == Spec => []TypeOK
<1>1. AdmissionInv => TypeOK
  BY DEF AdmissionInv
<1> QED  BY <1>1, Invariance, PTL

\* Whatever Telegram does, and however requests, crashes and repetitions
\* interleave, no request is denied because its handler waited for Telegram,
\* provided that the configured time-out exceeds the client's ("Don't block the
\* admission request if Telegram is down/misconfigured").
THEOREM TelegramHasNoSay == Spec => []TelegramNeverDecides
<1>1. AdmissionInv => TelegramNeverDecides
  BY DEF AdmissionInv
<1> QED  BY <1>1, Invariance, PTL

\* No Tenant is created or deleted by a request that the validating webhook
\* intercepts, before its handler has called SendMessageTelegram for that attempt,
\* in spite of repetitions and of crashes of the webhook server (failurePolicy=fail,
\* ValidateCreate and ValidateDelete), whatever configuration is installed.
THEOREM NothingUnannounced == Spec => Announced
<1> DEFINE A == \A r \in Request :
                  stored' # stored /\ req'[r].at = "done" /\ req[r].at = "admitted"
                    => r \in tried \/ req[r].op \notin webhook.validates
<1>1. ASSUME AdmissionInv, Next PROVE A
  <2> SUFFICES ASSUME NEW r \in Request, stored' # stored,
                      req'[r].at = "done", req[r].at = "admitted",
                      req[r].op \in webhook.validates
               PROVE  r \in tried
    OBVIOUS
  <2>1. PICK s \in Request : Store(s)
    BY <1>1 DEF Next, Step, Submit, Repeat, ConnectionFails, Accept, Timeout, Default,
                ValidateCreate, ValidateUpdate, ValidateDelete, SendMessageTelegram,
                TelegramReturns, Tick, Crash, Recover
  <2>2. s = r
    BY <1>1, <2>1 DEF AdmissionInv, TypeOK, Store, At, Deny
  <2>3. req[r].op # "update"
    BY <1>1, <2>1, <2>2 DEF AdmissionInv, TypeOK, Op, Store, Applicable
  <2> QED  BY <1>1, <2>3 DEF AdmissionInv, TriedFirst
<1>2. AdmissionInv /\ [Next]_vars => [A]_vars
  BY <1>1
<1>3. Spec => [][A]_vars
  BY <1>2, Invariance, PTL DEF Spec
<1> QED  BY <1>3 DEF Announced
=============================================================================
