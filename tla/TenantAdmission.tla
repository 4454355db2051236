-------------------------- MODULE TenantAdmission --------------------------
(***************************************************************************)
(* The admission of Tenants: the webhook handlers of                       *)
(* internal/webhook/v1alpha1/tenant_webhook.go between an API server that  *)
(* waits for them so long and no longer, and Telegram, which they call.    *)
(*                                                                         *)
(* A request passes the mutating and then the validating webhook, as far   *)
(* as the installed configuration has them intercept it, and is stored.    *)
(* Both fail closed.  Time passes in ticks and only while somebody waits   *)
(* for Telegram: what the properties say of deadlines is about Telegram    *)
(* alone.                                                                  *)
(***************************************************************************)
EXTENDS Naturals

CONSTANTS
    User, Controller,   \* requests: of users, once each; of the manager and the
                        \* garbage collector, which repeat them until they succeed
    Configuration,      \* what webhook configurations may be installed: timeoutSeconds
                        \* and the operations that each webhook intercepts
    TelegramTimeout,    \* of SendMessageTelegram's http.Client
    MaxCrashes          \* bound on crashes of the manager

Request == User \cup Controller
Op      == {"create", "update", "delete"}

ASSUME AdmissionConstants ==
    /\ User \cap Controller = {}
    /\ Configuration \subseteq [timeout : Nat \ {0}, mutates : SUBSET Op, validates : SUBSET Op]
    /\ TelegramTimeout \in Nat \ {0}
    /\ MaxCrashes \in Nat

VARIABLES
    stored,     \* the Tenant exists
    req,        \* request -> what it asks, where it is, what became of it
    age,        \* request -> how long the API server has waited for the webhook
    handler,    \* request -> the handler of the validating webhook
    wait,       \* request -> how long the handler has waited for Telegram
    tried,      \* requests for which the handler has called SendMessageTelegram
    up,         \* the webhook server is serving
    webhook,    \* the configuration that is installed
    crashes

vars == <<stored, req, age, handler, wait, tried, up, webhook, crashes>>

limit   == webhook.timeout
Place   == {"new", "mutating", "validating", "admitted", "done", "denied"}
Handler == {"none", "sending", "allows", "lost"}

\* Nobody waits longer than its timeout, and a handler runs only for a request
\* that has come as far as the validating webhook.
TypeOK ==
    /\ {stored, up} \subseteq BOOLEAN /\ webhook \in Configuration /\ crashes \in 0..MaxCrashes
    /\ req \in [Request -> [op : Op, dryRun : BOOLEAN, at : Place,
                            cause : {"none", "down", "timeout", "state"}]]
    /\ age \in [Request -> 0..limit]
    /\ handler \in [Request -> Handler] /\ wait \in [Request -> 0..TelegramTimeout]
    /\ tried \subseteq Request
    /\ \A r \in Request : req[r].at \in {"new", "mutating"} => handler[r] = "none"

Init ==
    /\ stored \in BOOLEAN
    /\ req \in [Request -> [op : Op, dryRun : BOOLEAN, at : {"new"}, cause : {"none"}]]
    /\ \A r \in Controller : req[r].op # "create" /\ ~req[r].dryRun
    /\ age = [r \in Request |-> 0] /\ wait = age
    /\ handler = [r \in Request |-> "none"]
    /\ tried = {}
    /\ up = TRUE /\ webhook \in Configuration /\ crashes = 0

\* The request makes sense for the Tenant as it is stored.
Applicable(r) == stored = (req[r].op # "create")

At(r, place) == req' = [req EXCEPT ![r].at = place]
Deny(r, why) == req' = [req EXCEPT ![r].at = "denied", ![r].cause = why]

-----------------------------------------------------------------------------
(* The API server.                                                         *)

\* Where a request goes when the mutating webhook has nothing to say to it.
Onward(r) == IF req[r].op \in webhook.validates THEN "validating" ELSE "admitted"

Submit(r) ==
    /\ req[r].at = "new" /\ Applicable(r)
    /\ At(r, IF req[r].op \in webhook.mutates THEN "mutating" ELSE Onward(r))
    /\ age' = [age EXCEPT ![r] = 0]
    /\ UNCHANGED <<stored, handler, wait, tried, up, webhook, crashes>>

\* Mutant: the answer to the last attempt is kept for the next.
RepeatKeepingAnswer(r) ==
    /\ r \in Controller /\ req[r].at = "denied" /\ handler[r] # "sending"
    /\ req' = [req EXCEPT ![r].at = "new", ![r].cause = "none"]
    /\ UNCHANGED <<stored, age, handler, wait, tried, up, webhook, crashes>>

\* A controller asks again, after a back-off that outlasts the last handler.
Repeat(r) ==
    /\ r \in Controller /\ req[r].at = "denied" /\ handler[r] # "sending"
    /\ req' = [req EXCEPT ![r].at = "new", ![r].cause = "none"]
    /\ handler' = [handler EXCEPT ![r] = "none"] /\ tried' = tried \ {r}
    /\ UNCHANGED <<stored, age, wait, up, webhook, crashes>>

\* Mutant: failurePolicy=ignore.
ConnectionIgnored(r) ==
    /\ \/ req[r].at = "mutating" /\ ~up
       \/ req[r].at = "validating" /\ handler[r] = "none" /\ ~up
       \/ req[r].at = "validating" /\ handler[r] = "lost"
    /\ At(r, "admitted")
    /\ UNCHANGED <<stored, age, handler, wait, tried, up, webhook, crashes>>

\* The connection is refused, or breaks: the failure policy denies.
ConnectionFails(r) ==
    /\ \/ req[r].at = "mutating" /\ ~up
       \/ req[r].at = "validating" /\ handler[r] = "none" /\ ~up
       \/ req[r].at = "validating" /\ handler[r] = "lost"
    /\ Deny(r, "down")
    /\ UNCHANGED <<stored, age, handler, wait, tried, up, webhook, crashes>>

Accept(r) ==
    /\ req[r].at = "validating"
    /\ handler[r] = "allows"
    /\ At(r, "admitted")
    /\ UNCHANGED <<stored, age, handler, wait, tried, up, webhook, crashes>>

\* The handler is not told, and would not listen: it ignores its context.
Timeout(r) ==
    /\ req[r].at = "validating" /\ age[r] = limit
    /\ Deny(r, "timeout")
    /\ UNCHANGED <<stored, age, handler, wait, tried, up, webhook, crashes>>

\* A dry run ends here; a request that has been overtaken is turned down.
Store(r) ==
    /\ req[r].at = "admitted"
    /\ IF Applicable(r) THEN At(r, "done") ELSE Deny(r, "state")
    /\ stored' = IF Applicable(r) /\ ~req[r].dryRun THEN req[r].op # "delete" ELSE stored
    /\ UNCHANGED <<age, handler, wait, tried, up, webhook, crashes>>

-----------------------------------------------------------------------------
(* The webhook server.                                                     *)

\* Default: nothing is changed.
Default(r) ==
    /\ req[r].at = "mutating" /\ up
    /\ At(r, Onward(r))
    /\ UNCHANGED <<stored, age, handler, wait, tried, up, webhook, crashes>>

Reached(r) == req[r].at = "validating" /\ up /\ handler[r] = "none"

\* Telegram is asked to take a message, or is not, for want of credentials.
SendMessageTelegram(r) ==
    /\ \/ handler' = [handler EXCEPT ![r] = "sending"] /\ wait' = [wait EXCEPT ![r] = 0]
       \/ handler' = [handler EXCEPT ![r] = "allows"] /\ UNCHANGED wait
    /\ tried' = tried \cup {r}
    /\ UNCHANGED <<stored, req, age, up, webhook, crashes>>

ValidateCreate(r) == Reached(r) /\ req[r].op = "create" /\ SendMessageTelegram(r)

ValidateDelete(r) == Reached(r) /\ req[r].op = "delete" /\ SendMessageTelegram(r)

ValidateUpdate(r) ==
    /\ Reached(r) /\ req[r].op = "update"
    /\ handler' = [handler EXCEPT ![r] = "allows"]
    /\ UNCHANGED <<stored, req, age, wait, tried, up, webhook, crashes>>

\* Mutant: the message is sent again when it fails.
TelegramRetries(r) ==
    /\ handler[r] = "sending"
    /\ \/ handler' = [handler EXCEPT ![r] = "allows"] /\ UNCHANGED wait
       \/ wait' = [wait EXCEPT ![r] = 0] /\ UNCHANGED handler
    /\ UNCHANGED <<stored, req, age, tried, up, webhook, crashes>>

\* SendMessageTelegram returns, by the end of its timeout; whether Telegram took
\* the message or not, and whatever it said, the handler allows the request.
TelegramReturns(r) ==
    /\ handler[r] = "sending"
    /\ handler' = [handler EXCEPT ![r] = "allows"]
    /\ UNCHANGED <<stored, req, age, wait, tried, up, webhook, crashes>>

\* Waiting for Telegram takes time; everything else takes none.
Tick ==
    /\ \E r \in Request : handler[r] = "sending"
    /\ \A r \in Request :
         /\ req[r].at = "validating" => handler[r] = "sending" /\ age[r] < limit
         /\ handler[r] = "sending" => wait[r] < TelegramTimeout
         /\ req[r].at \notin {"mutating", "admitted"}
    /\ age' = [r \in Request |-> IF req[r].at = "validating" THEN age[r] + 1 ELSE age[r]]
    /\ wait' = [r \in Request |-> IF handler[r] = "sending" THEN wait[r] + 1 ELSE wait[r]]
    /\ UNCHANGED <<stored, req, handler, tried, up, webhook, crashes>>

\* The manager dies, and its handlers with it; it is started again.
Crash ==
    /\ up /\ crashes < MaxCrashes
    /\ up' = FALSE /\ crashes' = crashes + 1
    /\ handler' = [r \in Request |-> IF handler[r] = "sending" THEN "lost" ELSE handler[r]]
    /\ UNCHANGED <<stored, req, age, wait, tried, webhook>>

Recover ==
    /\ ~up /\ up' = TRUE
    /\ UNCHANGED <<stored, req, age, handler, wait, tried, webhook, crashes>>

-----------------------------------------------------------------------------

Step(r) ==
    \/ Repeat(r) \/ ConnectionFails(r) \/ Accept(r) \/ Timeout(r) \/ Store(r)
    \/ Default(r) \/ ValidateCreate(r) \/ ValidateUpdate(r) \/ ValidateDelete(r)
    \/ TelegramReturns(r)

Next ==
    \/ \E r \in Request : Submit(r) \/ Step(r)
    \/ Tick \/ Crash \/ Recover

Spec == Init /\ [][Next]_vars

\* Requests are served and repeated, the deployment restarts the manager.
FairSpec ==
    /\ Spec /\ WF_vars(Tick) /\ WF_vars(Recover)
    /\ \A r \in Request : WF_vars(Step(r))
    /\ \A r \in Controller : WF_vars(Submit(r))

-----------------------------------------------------------------------------
(* Properties.                                                             *)

\* "Don't block the admission request if Telegram is down/misconfigured": a
\* request is denied for the webhook's sake only when the webhook is down,
\* provided the webhook is waited for longer than the webhook waits for Telegram.
TelegramNeverDecides ==
    limit > TelegramTimeout =>
      \A r \in Request : req[r].at = "denied" => req[r].cause \in {"down", "state"}

\* No Tenant comes or goes unannounced by a request that the validating webhook
\* intercepts: for that attempt of it the handler has called SendMessageTelegram
\* before, although the message may fail, credentials may be missing and the
\* manager may die at any time (failurePolicy=fail, and the order of ValidateCreate
\* and ValidateDelete).
Announced ==
    [][\A r \in Request :
         stored' # stored /\ req'[r].at = "done" /\ req[r].at = "admitted"
           => r \in tried \/ req[r].op \notin webhook.validates]_vars

\* What the garbage collector or the reconciler asks for is done in the end, or
\* needs no doing any more, in spite of crashes, denials and slow messages, under
\* the same proviso.
ControllersGetThrough ==
    \A r \in Controller :
        limit > TelegramTimeout /\ req[r].at \notin {"new", "done"}
          ~> req[r].at = "done" \/ (req[r].at = "new" /\ ~Applicable(r))
=============================================================================
