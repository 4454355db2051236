------------------------- MODULE ImageVerification -------------------------
(***************************************************************************)
(* VerifyImageSignature of internal/webhook/verifyimage/verify.go and the  *)
(* process environment it takes its key from, which dotenv.Load of         *)
(* internal/config/dotenv fills from files.                                *)
(*                                                                         *)
(* One goroutine, the scanner's, verifies.  main loads the files once at   *)
(* the start; after that every Telegram message loads them again, from as  *)
(* many goroutines as there are admission requests.                        *)
(*                                                                         *)
(* The last resort of buildCosignCheckOpts, a key file named by            *)
(* COSIGN_PUB_KEY, is left out: the built-in key is not empty, so that     *)
(* branch is dead.                                                         *)
(***************************************************************************)
EXTENDS Naturals, SequencesExt

CONSTANTS
    Image,          \* well-formed image references
    Malformed,      \* empty ones, signature artifacts, unparsable ones
    Key,            \* public keys
    SignedBy,       \* Image -> the keys that signed it
    Logged,         \* the images whose signature is in the transparency log
    PodEnv,         \* the environments the process may be started with
    Contents,       \* what the .env files may contain
    Sender,         \* goroutines that send Telegram messages, main excepted
    TmpWritable,    \* os.CreateTemp can create files in this container
    MaxFaults,      \* bound on failing calls and restarts
    Unset, Empty, None

Var  == {"ENV_FILE", "COSIGN_PUB_KEY_PEM", "COSIGN_IGNORE_TLOG"}
File == {"extra", "cwd", "notify"}

\* What a variable can say: "junk" is any text that says nothing.
Text == File \cup Key \cup {"true", "junk"}

Environment ==
    {e \in [Var -> Text \cup {Unset, Empty}] :
        /\ e["ENV_FILE"] \in File \cup {Unset, Empty}
        /\ e["COSIGN_PUB_KEY_PEM"] \in Key \cup {"junk", Unset, Empty}}

\* A dotenv.Load in progress: the files to come, and what the last one adds.
Load == [todo : Seq(File), sets : UNION {[D -> Text \cup {Empty}] : D \in SUBSET Var}]

\* defaultCosignPublicKeyPEM: text between PEM markers, but not a key.
BuiltIn == "built-in"

ASSUME VerificationConstants ==
    /\ SignedBy \in [Image -> SUBSET Key] /\ Logged \subseteq Image
    /\ TmpWritable \in BOOLEAN /\ MaxFaults \in Nat
    /\ PodEnv \cup Contents \subseteq Environment
    /\ BuiltIn \notin Key

ASSUME Sentinels ==
    /\ None \notin Image \cup Key \cup Contents \cup Load
    /\ Unset \notin Text \cup {Empty}

VARIABLES
    podEnv, files,  \* the container's environment; its .env files
    env,            \* the process environment
    up,             \* main has gone past dotenv.Load
    load,           \* goroutine -> what its dotenv.Load has still to do
    call,           \* the verification in progress
    temp,           \* the temporary key file of that verification
    last,           \* the last verification that returned
    left,           \* the number of key files in /tmp whose verification is over
    unremoved,      \* history: how often a removal failed or a call was killed before it
    faults

ending == <<last, left, unremoved>>
vars   == <<podEnv, files, env, up, load, call, temp, ending, faults>>

Loader == Sender \cup {"main"}

Steps  == {"key", "create", "write", "close", "load", "rekor", "verify", "cleanup"}
NoCall == [step |-> "idle", image |-> None, key |-> None, ignoreTlog |-> FALSE,
           expired |-> FALSE, faulty |-> FALSE, ok |-> FALSE]

\* A call has an image exactly while it is in progress, and a key from the
\* choice of it on.
TypeOK ==
    /\ podEnv \in PodEnv /\ env \in Environment
    /\ files \in [File -> Contents \cup {None}]
    /\ up \in BOOLEAN /\ temp \in {None, "empty", "written"}
    /\ load \in [Loader -> Load \cup {None}]
    /\ call.step \in Steps \cup {"idle"}
    /\ (call.step = "idle") <=> (call.image = None)
    /\ call.step \in Steps \ {"key"} => call.key \in Key \cup {BuiltIn, "junk"}
    /\ left \in Nat /\ unremoved \in Nat /\ faults \in 0..MaxFaults

Init ==
    /\ podEnv \in PodEnv /\ env = podEnv
    /\ files \in [File -> Contents \cup {None}]
    /\ up = FALSE /\ load = [l \in Loader |-> None]
    /\ call = NoCall /\ temp = None /\ last = NoCall
    /\ left = 0 /\ unremoved = 0 /\ faults = 0

-----------------------------------------------------------------------------
(* dotenv.Load: the files in order, a variable at a time.                  *)

\* The first place: $ENV_FILE if it is set, else <cwd>/.env.
Named(e) == IF e["ENV_FILE"] \in {Unset, Empty} THEN "cwd" ELSE e["ENV_FILE"]

\* Mutant: the file that is named comes last.
NamedLast(e) == <<"cwd", "notify">> \o (IF Named(e) = "extra" THEN <<"extra">> ELSE <<>>)

\* That place, then the two under the working directory, each once.
Candidates(e) ==
    CASE Named(e) = "extra"  -> <<"extra", "cwd", "notify">>
      [] Named(e) = "cwd"    -> <<"cwd", "notify">>
      [] Named(e) = "notify" -> <<"notify", "cwd">>

BeginLoad(l) ==
    /\ load[l] = None /\ up = (l # "main")
    /\ load' = [load EXCEPT ![l] = [todo |-> Candidates(env), sets |-> <<>>]]
    /\ UNCHANGED <<podEnv, files, env, up, call, temp, ending, faults>>

\* Mutant: godotenv.Overload.
Overrides(f, e) == [v \in {w \in Var : f[w] # Unset} |-> f[v]]

\* What godotenv.Load takes from file f: what the environment has not got when
\* it looks, present but empty variables included.
Additions(f, e) == [v \in {w \in Var : f[w] # Unset /\ e[w] = Unset} |-> f[v]]

LoadFile(l) ==
    /\ load[l] # None /\ load[l].sets = <<>> /\ load[l].todo # <<>>
    /\ LET f == files[Head(load[l].todo)] IN
         load' = [load EXCEPT ![l] =
                    [todo |-> Tail(@.todo),
                     sets |-> IF f = None THEN <<>> ELSE Additions(f, env)]]
    /\ UNCHANGED <<podEnv, files, env, up, call, temp, ending, faults>>

SetVariable(l, v) ==
    /\ load[l] # None /\ v \in DOMAIN load[l].sets
    /\ env' = [env EXCEPT ![v] = load[l].sets[v]]
    /\ load' = [load EXCEPT ![l].sets = [w \in DOMAIN @ \ {v} |-> @[w]]]
    /\ UNCHANGED <<podEnv, files, up, call, temp, ending, faults>>

EndLoad(l) ==
    /\ load[l] # None /\ load[l].sets = <<>> /\ load[l].todo = <<>>
    /\ load' = [load EXCEPT ![l] = None] /\ up' = TRUE
    /\ UNCHANGED <<podEnv, files, env, call, temp, ending, faults>>

-----------------------------------------------------------------------------
(* VerifyImageSignature, a call that can fail per step.                    *)

Fault     == faults < MaxFaults /\ faults' = faults + 1
Works(ok) == IF ok THEN UNCHANGED faults ELSE Fault
Faulty    == [call EXCEPT !.faulty = TRUE]

sameProcess == UNCHANGED <<podEnv, files, env, up, load>>

\* On to the next call; and out, by way of the cleanup.
Goto(step)   == call' = [call EXCEPT !.step = step] /\ UNCHANGED ending
Leave(c, ok) ==
    /\ call' = [c EXCEPT !.step = "cleanup", !.ok = ok]
    /\ UNCHANGED <<temp, ending>>

\* The call is over; the file it has not removed stays.
Forgotten == left + (IF temp = None THEN 0 ELSE 1)
Return(c) == call' = NoCall /\ last' = c /\ temp' = None

BeginVerify(i) ==
    /\ up /\ call.step = "idle"
    /\ IF i \in Malformed
         THEN last' = NoCall /\ UNCHANGED <<call, left, unremoved>>
         ELSE call' = [NoCall EXCEPT !.step = "key", !.image = i] /\ UNCHANGED ending
    /\ sameProcess /\ UNCHANGED <<temp, faults>>

\* Mutant: no default key.
ChooseConfigured ==
    /\ call.step = "key"
    /\ call' = [call EXCEPT !.step = "create", !.key = env["COSIGN_PUB_KEY_PEM"]]
    /\ sameProcess /\ UNCHANGED <<temp, ending, faults>>

ChooseKey ==
    /\ call.step = "key"
    /\ call' = [call EXCEPT !.step = "create",
                  !.key = IF env["COSIGN_PUB_KEY_PEM"] \in {Unset, Empty}
                            THEN BuiltIn ELSE env["COSIGN_PUB_KEY_PEM"]]
    /\ sameProcess /\ UNCHANGED <<temp, ending, faults>>

\* Without a file there is nothing to clean up.
CreateTemp(ok) ==
    /\ call.step = "create" /\ Works(ok)
    /\ IF ok /\ TmpWritable
         THEN Goto("write") /\ temp' = "empty"
         ELSE /\ Return(IF ok THEN call ELSE Faulty)
              /\ left' = Forgotten /\ UNCHANGED unremoved
    /\ sameProcess

WriteKey(ok) ==
    /\ call.step = "write" /\ Works(ok)
    /\ IF ok THEN Goto("close") /\ temp' = "written" ELSE Leave(Faulty, FALSE)
    /\ sameProcess

\* Mutant: the cleanup is deferred where the file is made, before it is read.
CloseAndRemove(ok) ==
    /\ call.step = "close" /\ Works(ok)
    /\ IF ok THEN Goto("load") /\ temp' = None ELSE Leave(Faulty, FALSE)
    /\ sameProcess

CloseFile(ok) ==
    /\ call.step = "close" /\ Works(ok)
    /\ IF ok THEN Goto("load") /\ UNCHANGED temp ELSE Leave(Faulty, FALSE)
    /\ sameProcess

\* Mutant: a key that cannot be loaded is returned as an error at once.
LoadKeyOrReturn(ok) ==
    /\ call.step = "load" /\ Works(ok)
    /\ IF ok /\ call.key \in Key /\ temp = "written"
         THEN Goto("rekor") /\ UNCHANGED temp
         ELSE /\ Return(IF ok THEN call ELSE Faulty)
              /\ left' = Forgotten /\ UNCHANGED unremoved
    /\ sameProcess

LoadKey(ok) ==
    /\ call.step = "load" /\ Works(ok)
    /\ IF ok /\ call.key \in Key /\ temp = "written"
         THEN Goto("rekor") /\ UNCHANGED temp
         ELSE Leave(IF ok THEN call ELSE Faulty, FALSE)
    /\ sameProcess

\* Mutant: without Rekor's keys the log is never asked.
GetRekorOptional(ok) ==
    /\ call.step = "rekor"
    /\ call' = [call EXCEPT !.step = "verify", !.ignoreTlog = ~ok]
    /\ UNCHANGED <<temp, ending>>

\* Rekor's keys, or an explicit wish to do without them.
GetRekor(ok) ==
    /\ call.step = "rekor"
    /\ IF ok \/ env["COSIGN_IGNORE_TLOG"] = "true"
         THEN /\ call' = [call EXCEPT !.step = "verify", !.ignoreTlog = ~ok,
                            !.faulty = @ \/ ~ok]
              /\ UNCHANGED <<temp, ending>>
         ELSE Leave(Faulty, FALSE)

RekorAnswers(ok) ==
    /\ Works(ok) /\ ~call.expired
    /\ GetRekor(ok)
    /\ sameProcess

\* cosign.VerifyImageSignatures accepts the image.
Accepts(c) ==
    /\ c.key \in SignedBy[c.image]
    /\ c.image \in Logged \/ c.ignoreTlog

VerifySignatures(ok) ==
    /\ call.step = "verify" /\ ~call.expired /\ Works(ok)
    /\ IF ok THEN Leave(call, Accepts(call)) ELSE Leave(Faulty, FALSE)
    /\ sameProcess

\* The ten seconds are over: what still needs the network fails.
Expire ==
    /\ Fault /\ call.step \in Steps \ {"cleanup"} /\ ~call.expired
    /\ call' = [call EXCEPT !.expired = TRUE, !.faulty = TRUE]
    /\ sameProcess /\ UNCHANGED <<temp, ending>>

Expired ==
    /\ call.expired
    /\ \/ GetRekor(FALSE)
       \/ call.step = "verify" /\ Leave(call, FALSE)
    /\ sameProcess /\ UNCHANGED faults

\* cleanup of buildCosignCheckOpts, by its own error handlers or by the defer.
CleanUp ==
    /\ call.step = "cleanup" /\ Return(call)
    /\ sameProcess /\ UNCHANGED <<left, unremoved, faults>>

\* The error of os.Remove is ignored.
RemoveFails ==
    /\ call.step = "cleanup" /\ Fault /\ Return(call)
    /\ left' = Forgotten /\ unremoved' = unremoved + 1
    /\ sameProcess

\* The container is started afresh, possibly with a rotated key; a volume at /tmp
\* survives that, but not the pod.
Restart ==
    /\ Fault /\ up
    /\ podEnv' \in PodEnv /\ env' = podEnv'
    /\ up' = FALSE /\ load' = [l \in Loader |-> None]
    /\ call' = NoCall /\ temp' = None /\ last' = NoCall
    /\ left' \in {Forgotten, 0}
    /\ unremoved' = IF temp = None THEN unremoved ELSE unremoved + 1
    /\ UNCHANGED files

-----------------------------------------------------------------------------

Dotenv ==
    \E l \in Loader :
        \/ BeginLoad(l) \/ LoadFile(l) \/ EndLoad(l)
        \/ \E v \in Var : SetVariable(l, v)

Verify ==
    \/ \E i \in Image \cup Malformed : BeginVerify(i)
    \/ ChooseKey \/ Expire \/ Expired \/ CleanUp \/ RemoveFails
    \/ \E ok \in BOOLEAN :
        \/ CreateTemp(ok) \/ WriteKey(ok) \/ CloseFile(ok) \/ LoadKey(ok)
        \/ RekorAnswers(ok) \/ VerifySignatures(ok)

Next == Dotenv \/ Verify \/ Restart

Spec == Init /\ [][Next]_vars

-----------------------------------------------------------------------------
(* Properties.                                                             *)

\* Every way out of a verification removes its key file: the three error handlers of
\* buildCosignCheckOpts that call cleanup, and the defer on all later returns.  What
\* is left is left by removals that failed and by calls that were killed.
NoKeyFileLeft == left <= unremoved

\* A nil from VerifyImageSignature means that the configured key signed the
\* image and that the log has it, unless the operator waived the log: neither
\* a failing Rekor nor a key that came from elsewhere is enough.
NilMeansSigned ==
    last.ok =>
        /\ last.key = env["COSIGN_PUB_KEY_PEM"]
        /\ last.key \in SignedBy[last.image]
        /\ last.image \in Logged \/ env["COSIGN_IGNORE_TLOG"] = "true"

\* What a load from environment e ends with: for each variable the first place
\* that has it.
Loaded(e) ==
    LET has(f, v) == files[f] # None /\ files[f][v] # Unset
    IN [v \in Var |->
          IF e[v] # Unset            THEN e[v]
          ELSE IF has(Named(e), v)   THEN files[Named(e)][v]
          ELSE IF has("cwd", v)      THEN files["cwd"][v]
          ELSE IF has("notify", v)   THEN files["notify"][v]
          ELSE Unset]

\* Whoever loads the files, and however their loads interleave, the container's
\* environment goes before $ENV_FILE, that before <cwd>/.env, that before the
\* notify directory's; an ENV_FILE that a file sets counts from the next load.
Precedence ==
    up /\ (\A l \in Loader : load[l] = None)
      => env \in {Loaded(podEnv), Loaded(Loaded(podEnv))}

\* dotenv.Load "never overrides variables already present in the process
\* environment": a running process keeps the key it has.
NeverOverrides ==
    [][\A v \in Var : up /\ up' /\ env[v] # Unset => env'[v] = env[v]]_vars

\* A configured key verifies what it signed when nothing fails ("Preferred path:
\* load the PEM content from an env var injected by Kubernetes").
SignedImageVerifies ==
    last.key \in Key /\ ~last.faulty /\ Accepts(last) => last.ok
=============================================================================
