------------------------ MODULE MCTenantAdmission ------------------------
(* Constant values for model-checking TenantAdmission. *)
EXTENDS TenantAdmission

CONSTANTS alice, bob, collector

Users   == {alice, bob}
Manager == {collector}

Changes == {"create", "update"}

\* In ticks of 5 s: config/webhook/manifests.yaml, with the default time-out; what
\* setup/webhook/ValidatingWebhookConfiguration.yaml makes of it, outside the
\* namespace it excludes and in it; and docs/WEBHOOK_RUNBOOK.md, with the shortest
\* time-out it recommends.
Configurations ==
    {[timeout |-> 2, mutates |-> Changes, validates |-> Op],
     [timeout |-> 3, mutates |-> Changes, validates |-> Changes],
     [timeout |-> 3, mutates |-> Changes, validates |-> {}],
     [timeout |-> 1, mutates |-> Changes, validates |-> Changes]}
===========================================================================
