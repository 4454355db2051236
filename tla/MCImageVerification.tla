----------------------- MODULE MCImageVerification -----------------------
(* Constant values for model-checking ImageVerification. *)
EXTENDS ImageVerification

CONSTANTS app, tool, odd, keyA, keyB, webhook1, webhook2

Images    == {app, tool}
OddImages == {odd}
Keys      == {keyA, keyB}

\* app is signed by one key and logged, tool by the other and not logged.
Signatures   == [i \in Images |-> IF i = app THEN {keyA} ELSE {keyB}]
InTheLog     == {app}

Vars(file, pem, tlog) ==
    [v \in Var |-> CASE v = "ENV_FILE" -> file
                     [] v = "COSIGN_PUB_KEY_PEM" -> pem
                     [] v = "COSIGN_IGNORE_TLOG" -> tlog]

\* No key, an empty one, a good one and junk, from the Secret.
PodEnvs   == {Vars(Unset, k, Unset) : k \in {Unset, Empty, keyB, "junk"}}
               \cup {Vars("extra", Unset, Unset),
                     Vars("cwd", Unset, Unset), Vars("notify", Unset, Unset)}
DotEnvs   == {Vars("extra", Unset, "true"), Vars(Unset, keyA, Unset), Vars(Unset, keyB, "true")}

TwoSenders  == {webhook1, webhook2}
===========================================================================
