------------------------ MODULE MCSignatureScanner ------------------------
(* Constant values for model-checking SignatureScanner. *)
EXTENDS SignatureScanner

CONSTANTS acme, blue, podA, podB, tenantA, tenantB, app, sidecar

TwoTenants == {acme, blue}
TwoNsOf    == [t \in TwoTenants |-> IF t = acme THEN tenantA ELSE tenantB]
TwoPods    == {podA, podB}
TwoPodNs   == [k \in TwoPods |-> IF k = podB THEN tenantB ELSE tenantA]
TwoImages  == {app, sidecar}

\* The two Tenants, with their namespaces and pods, can change places, and so can
\* the two images: of the initial states that differ in nothing else, one is
\* enough, for the properties do not tell them apart.
InitUpToRenaming ==
    /\ Init
    /\ signed # {sidecar}
    /\ <<isolation[acme], isolation[blue]>> \notin
           {<<"other", "namespace">>, <<"other", "odd">>, <<"odd", "namespace">>}

SpecUpToRenaming == InitUpToRenaming /\ [][Next]_vars /\ Fairness

OneTenant == {acme}
OneNsOf   == [t \in OneTenant |-> tenantA]
OnePod    == {podA}
OnePodNs  == [k \in OnePod |-> tenantA]
OneImage  == {app}
===========================================================================
