--------------------------- MODULE MCTenantTraffic ---------------------------
(* Constant values for model-checking TenantTraffic: flags that differ in      *)
(* everything the conversion looks at.                                         *)
EXTENDS TenantTraffic, TLC

CONSTANTS one, two

TwoRuns  == {one, two}
Symmetry == Permutations(TwoRuns)

Creates == [op : {"create"}, isolation : {"namespace"}, parses : BOOLEAN]
             \cup [op : {"create"}, isolation : {"cluster"}, parses : {TRUE}]
Demo    == [op : {"demo"}, isolation : {"namespace"}, parses : {TRUE}]
AnyJob  == Creates \cup Demo \cup [op : {"delete"}]

Labels == {"app=backend", "app=frontend", "tenant=payment"}

Backend  == {"app=backend"}
Frontend == {"app=frontend"}
Payment  == {"tenant=payment"}

FlagsOf(selector, types, ingress, egress) ==
    [podSelector |-> selector, policyTypes |-> types, Ingress |-> ingress, Egress |-> egress]

\* Ingress alone by default.
IngressRules == FlagsOf({}, {}, <<Frontend, Payment>>, <<>>)

\* Both directions by default, with an empty selector among the rules.
BothRules == FlagsOf(Backend, {}, <<{}>>, <<Payment, Frontend \cup Backend>>)

NotJSON == FlagsOf(Backend, Direction, <<Frontend, Malformed>>, <<Payment>>)

SomeFlags == {IngressRules, BothRules, NotJSON}

\* The course of a run depends on its flags only in whether they parse, and the
\* policies in a state on the flags of one run: each job need not be combined
\* with each set of flags.
FlagsOfJob(j) ==
    IF j.isolation = "cluster" THEN {IngressRules, NotJSON}
    ELSE IF j.parses THEN {BothRules} ELSE {IngressRules}

InitWithFewFlags ==
    /\ TrafficInit
    /\ \A c \in Client : job[c].op = "create" => flags[c] \in FlagsOfJob(job[c])

SpecWithFewFlags == InitWithFewFlags /\ [][TrafficNext]_allVars
=============================================================================
