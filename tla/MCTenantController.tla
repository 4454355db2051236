------------------------ MODULE MCTenantController ------------------------
(* Constant values for model-checking TenantController and its extensions. *)
EXTENDS TenantRefinement, TenantResync

CONSTANTS acme, blue, tenantA, tenantB, default

MCUids == 1..6

OneTenant    == {acme}
TwoTenants   == {acme, blue}
OneNs        == {tenantA}
TwoNs        == {tenantA, tenantB}

\* Cluster-scoped CRD: a Tenant's name is its key.
OneNsOf      == [t \in OneTenant |-> tenantA]
OneHome      == [t \in OneTenant |-> Cluster]
TwoNsOf      == [t \in TwoTenants |-> IF t = acme THEN tenantA ELSE tenantB]
TwoHome      == [t \in TwoTenants |-> Cluster]

\* Namespaced CRD, as shipped.
ShippedOneHome == [t \in OneTenant |-> default]

NobodyElse   == {}
AnybodyElse  == {None, Foreign}
===========================================================================
