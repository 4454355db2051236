---------------------- MODULE ImageVerificationProofs ----------------------
(***************************************************************************)
(* Theorems about VerifyImageSignature and dotenv.Load, for any images,    *)
(* keys, files and number of goroutines that load them.                    *)
(*                                                                         *)
(* What concurrent loads end with rests on their agreement: from wherever  *)
(* each of them is, all end with the same environment.  What a nil or a    *)
(* failed verification means rests on the key of a running process being   *)
(* there to stay.                                                          *)
(***************************************************************************)
EXTENDS ImageVerification, TLAPS

Value == Text \cup {Unset, Empty}

Has(fs, f, v) == fs[f] # None /\ fs[f][v] # Unset

\* Variable v as the first of at most three files has it.
FirstIn(fs, todo, v) ==
    IF Len(todo) >= 1 /\ Has(fs, todo[1], v) THEN fs[todo[1]][v]
    ELSE IF Len(todo) >= 2 /\ Has(fs, todo[2], v) THEN fs[todo[2]][v]
    ELSE IF Len(todo) >= 3 /\ Has(fs, todo[3], v) THEN fs[todo[3]][v]
    ELSE Unset

\* With what l has still to do, undisturbed, its environment becomes goal.
Ending(l, goal) ==
    \A v \in Var :
        /\ v \in DOMAIN load[l].sets => load[l].sets[v] = goal[v]
        /\ v \notin DOMAIN load[l].sets /\ env[v] # Unset => env[v] = goal[v]
        /\ v \notin DOMAIN load[l].sets /\ env[v] = Unset => FirstIn(files, load[l].todo, v) = goal[v]

\* What main's load ends with, and the later ones.
First  == Loaded(podEnv)
Second == Loaded(First)
Goal   == IF up THEN Second ELSE First

\* All loads in progress agree, whatever they have read and when.
LoadsAgree ==
    /\ \A l \in Loader : load[l] # None =>
         /\ up <=> l # "main"
         /\ Len(load[l].todo) <= 3
         /\ Ending(l, Goal)
    /\ ~up /\ load["main"] = None => env = podEnv
    /\ up => \A v \in Var : env[v] \in {First[v], Second[v]}
    /\ up /\ (\A l \in Loader : load[l] = None) => env \in {First, Second}

\* The part of the type invariant that loads touch.
ProcessType ==
    /\ podEnv \in PodEnv /\ env \in Environment
    /\ files \in [File -> Contents \cup {None}]
    /\ up \in BOOLEAN /\ load \in [Loader -> Load \cup {None}]

LoadInv == ProcessType /\ LoadsAgree

-----------------------------------------------------------------------------
(* Facts about files, environments and loads.                              *)

LEMMA PartialEnv ==
    ASSUME NEW D \in SUBSET Var, NEW s \in [D -> Text \cup {Empty}]
    PROVE  s \in UNION {[E -> Text \cup {Empty}] : E \in SUBSET Var}
OBVIOUS

LEMMA LoadParts ==
    ASSUME NEW x \in Load
    PROVE  /\ x.todo \in Seq(File) /\ DOMAIN x.sets \subseteq Var
           /\ x.sets \in [DOMAIN x.sets -> Text \cup {Empty}]
           /\ x = [todo |-> x.todo, sets |-> x.sets] /\ x # None
BY Sentinels DEF Load

LEMMA FileType ==
    ASSUME files \in [File -> Contents \cup {None}], NEW f \in File, files[f] # None
    PROVE  files[f] \in Environment
BY VerificationConstants

LEMMA LoadedType ==
    ASSUME files \in [File -> Contents \cup {None}], NEW e \in Environment
    PROVE  /\ Loaded(e) \in Environment
           /\ \A v \in Var : e[v] # Unset => Loaded(e)[v] = e[v]
<1>1. Named(e) \in File
    BY DEF Named, Environment, File
<1>2. {"cwd", "notify"} \subseteq File
    BY DEF File
<1>3. Loaded(e) \in [Var -> Value]
    BY <1>1, <1>2, FileType DEF Loaded, Environment, Value
<1>4. Loaded(e)["ENV_FILE"] \in File \cup {Unset, Empty}
    BY <1>1, <1>2, FileType DEF Loaded, Environment, Var
<1>5. Loaded(e)["COSIGN_PUB_KEY_PEM"] \in Key \cup {"junk", Unset, Empty}
    BY <1>1, <1>2, FileType DEF Loaded, Environment, Var
<1>6. \A v \in Var : e[v] # Unset => Loaded(e)[v] = e[v]
    BY DEF Loaded
<1> QED  BY <1>3, <1>4, <1>5, <1>6 DEF Environment, Value

LEMMA CandidateFiles ==
    ASSUME NEW e \in Environment
    PROVE  Candidates(e) \in Seq(File) /\ Len(Candidates(e)) <= 3
<1>1. Named(e) \in {"extra", "cwd", "notify"}
    BY DEF Named, Environment, File
<1>2. {"extra", "cwd", "notify"} = File
    BY DEF File
<1> QED  BY <1>1, <1>2 DEF Candidates

\* The first of the candidates that has a variable is where Loaded takes it from.
LEMMA CandidatesFind ==
    ASSUME NEW e \in Environment, NEW v \in Var, e[v] = Unset
    PROVE  FirstIn(files, Candidates(e), v) = Loaded(e)[v]
<1>1. Named(e) \in {"extra", "cwd", "notify"}
    BY DEF Named, Environment, File
<1>2. CASE Named(e) = "extra"
    <2>1. Candidates(e) = <<"extra", "cwd", "notify">>
        BY <1>2 DEF Candidates
    <2> QED  BY <1>2, <2>1 DEF FirstIn, Loaded, Has
<1>3. CASE Named(e) = "cwd"
    <2>1. Candidates(e) = <<"cwd", "notify">>
        BY <1>3 DEF Candidates
    <2> QED  BY <1>3, <2>1 DEF FirstIn, Loaded, Has
<1>4. CASE Named(e) = "notify"
    <2>1. Candidates(e) = <<"notify", "cwd">>
        BY <1>4 DEF Candidates
    <2> QED  BY <1>4, <2>1 DEF FirstIn, Loaded, Has
<1> QED  BY <1>1, <1>2, <1>3, <1>4

\* ENV_FILE is settled by main's load: what has not got it then never gets it.
LEMMA EnvFileSettled ==
    ASSUME ProcessType
    PROVE  Second["ENV_FILE"] = First["ENV_FILE"]
<1>1. podEnv \in Environment /\ "ENV_FILE" \in Var
    BY VerificationConstants DEF ProcessType, Var
<1>2. First \in Environment
    BY <1>1, LoadedType DEF ProcessType, First
<1>3. CASE First["ENV_FILE"] # Unset
    BY <1>1, <1>2, <1>3, LoadedType DEF ProcessType, Second
<1>4. CASE First["ENV_FILE"] = Unset
    <2>1. podEnv["ENV_FILE"] = Unset
        BY <1>1, <1>4, LoadedType DEF ProcessType, First
    <2>2. ~Has(files, "cwd", "ENV_FILE") /\ ~Has(files, "notify", "ENV_FILE")
        BY <1>1, <1>4, <2>1 DEF First, Loaded, Has, Named
    <2>3. Named(First) = "cwd"
        BY <1>4 DEF Named
    <2> QED  BY <1>1, <1>4, <2>2, <2>3 DEF Second, Loaded, Has
<1> QED  BY <1>3, <1>4

-----------------------------------------------------------------------------
(* Loads, one step at a time.                                              *)

LEMMA GoalType == ProcessType => First \in Environment /\ Second \in Environment
BY LoadedType, VerificationConstants DEF ProcessType, First, Second

LEMMA GoalKept ==
    ASSUME UNCHANGED <<podEnv, files>>
    PROVE  First' = First /\ Second' = Second
BY DEF First, Second, Loaded

LEMMA BeginKeeps ==
    ASSUME LoadInv, NEW l \in Loader, BeginLoad(l)
    PROVE  LoadInv'
<1> USE DEF LoadInv
<1>1. env \in Environment /\ podEnv \in Environment
    BY VerificationConstants DEF ProcessType
<1>2. Candidates(env) \in Seq(File) /\ Len(Candidates(env)) <= 3
    BY <1>1, CandidateFiles
<1>3. [todo |-> Candidates(env), sets |-> <<>>] \in Load
    <2>1. <<>> \in [{} -> Text \cup {Empty}]
        OBVIOUS
    <2> QED  BY <1>2, <2>1, PartialEnv DEF Load
<1>4. /\ load'[l] = [todo |-> Candidates(env), sets |-> <<>>]
      /\ \A k \in Loader \ {l} : load'[k] = load[k]
      /\ load' \in [Loader -> Load \cup {None}]
    BY <1>3 DEF BeginLoad, ProcessType
<1>5. ProcessType'
    BY <1>4 DEF BeginLoad, ProcessType
<1>6. First' = First /\ Second' = Second /\ Goal' = Goal
    BY GoalKept DEF BeginLoad, Goal
<1>7. \A v \in Var : /\ env[v] # Unset => env[v] = Goal[v]
                     /\ env[v] = Unset => FirstIn(files, Candidates(env), v) = Goal[v]
    <2>1. CASE ~up
        <3>1. env = podEnv /\ Goal = Loaded(env)
            BY <2>1 DEF BeginLoad, LoadsAgree, Goal, First
        <3> QED  BY <1>1, <3>1, CandidatesFind, LoadedType DEF ProcessType
    <2>2. CASE up
        <3>1. /\ \A v \in Var : env[v] \in {First[v], Second[v]}
              /\ First \in Environment /\ Second = Loaded(First) /\ Goal = Second
            BY <2>2, GoalType DEF LoadsAgree, Goal, Second
        <3>2. \A v \in Var : First[v] # Unset => Second[v] = First[v]
            BY <3>1, LoadedType DEF ProcessType
        <3>3. env["ENV_FILE"] = First["ENV_FILE"]
            BY <3>1, EnvFileSettled DEF Var
        <3>4. Candidates(env) = Candidates(First)
            BY <3>3 DEF Candidates, Named
        <3>5. \A v \in Var : First[v] = Unset => FirstIn(files, Candidates(First), v) = Second[v]
            BY <3>1, CandidatesFind
        <3>6. ASSUME NEW v \in Var, env[v] = Unset PROVE First[v] = Unset
            BY <3>1, <3>2, <3>6
        <3> QED  BY <3>1, <3>2, <3>4, <3>5, <3>6
    <2> QED  BY <2>1, <2>2 DEF ProcessType
<1>8. Ending(l, Goal)'
    <2>1. load'[l].todo = Candidates(env) /\ DOMAIN load'[l].sets = {}
        BY <1>4
    <2>2. env' = env /\ files' = files
        BY DEF BeginLoad
    <2> QED  BY <1>6, <1>7, <2>1, <2>2 DEF Ending
<1>9. ASSUME NEW k \in Loader \ {l}, load[k] # None
      PROVE  (up <=> k # "main")' /\ Len(load[k].todo)' <= 3 /\ Ending(k, Goal)'
    BY <1>4, <1>6, <1>9 DEF BeginLoad, LoadsAgree, Ending
<1>10. load'[l] # None
    BY <1>3, <1>4, LoadParts
<1>11. LoadsAgree'
    BY <1>2, <1>4, <1>6, <1>8, <1>9, <1>10 DEF BeginLoad, LoadsAgree, Loader
<1> QED  BY <1>5, <1>11

LEMMA AdditionsType ==
    ASSUME NEW f \in Environment, NEW e \in Environment
    PROVE  /\ Additions(f, e) \in UNION {[D -> Text \cup {Empty}] : D \in SUBSET Var}
           /\ DOMAIN Additions(f, e) = {v \in Var : f[v] # Unset /\ e[v] = Unset}
           /\ \A v \in DOMAIN Additions(f, e) : Additions(f, e)[v] = f[v]
<1> DEFINE D == {v \in Var : f[v] # Unset /\ e[v] = Unset}
<1>1. Additions(f, e) = [v \in D |-> f[v]]
    BY DEF Additions
<1>2. [v \in D |-> f[v]] \in [D -> Text \cup {Empty}]
    BY DEF Environment
<1> QED  BY <1>1, <1>2, PartialEnv

LEMMA LoadFileKeeps ==
    ASSUME LoadInv, NEW l \in Loader, LoadFile(l)
    PROVE  LoadInv'
<1> USE DEF LoadInv
<1> DEFINE todo == load[l].todo
           f    == files[Head(todo)]
           new  == IF f = None THEN <<>> ELSE Additions(f, env)
<1>1. /\ todo \in Seq(File) /\ todo # <<>> /\ load[l].sets = <<>> /\ load[l] # None
      /\ load[l] \in Load
    BY LoadParts DEF LoadFile, ProcessType
<1>2. Head(todo) \in File /\ Head(todo) = todo[1] /\ Tail(todo) \in Seq(File)
    BY <1>1
<1>3. f # None => f \in Environment
    BY <1>2, FileType DEF ProcessType
<1>4. /\ new \in UNION {[D -> Text \cup {Empty}] : D \in SUBSET Var}
      /\ DOMAIN new = {v \in Var : Has(files, todo[1], v) /\ env[v] = Unset}
      /\ \A v \in DOMAIN new : new[v] = files[todo[1]][v]
    <2>1. CASE f = None
        <3>1. <<>> \in [{} -> Text \cup {Empty}] /\ DOMAIN <<>> = {}
            OBVIOUS
        <3>2. <<>> \in UNION {[D -> Text \cup {Empty}] : D \in SUBSET Var}
            BY <3>1, PartialEnv
        <3> QED  BY <1>2, <2>1, <3>1, <3>2 DEF Has
    <2>2. CASE f # None
        <3>1. /\ new = Additions(f, env) /\ f = files[todo[1]] /\ f \in Environment
              /\ env \in Environment
            BY <1>2, <1>3, <2>2 DEF ProcessType
        <3>2. \A v \in Var : Has(files, todo[1], v) <=> f[v] # Unset
            BY <2>2, <3>1 DEF Has
        <3> HIDE DEF new, f
        <3>3. /\ new \in UNION {[D -> Text \cup {Empty}] : D \in SUBSET Var}
              /\ DOMAIN new = {v \in Var : f[v] # Unset /\ env[v] = Unset}
              /\ \A v \in DOMAIN new : new[v] = f[v]
            BY <3>1, AdditionsType
        <3> QED  BY <3>1, <3>2, <3>3
    <2> QED  BY <2>1, <2>2
<1>5. [todo |-> Tail(todo), sets |-> new] \in Load
    BY <1>2, <1>4 DEF Load
<1>6. /\ load'[l] = [todo |-> Tail(todo), sets |-> new] /\ load'[l] # None
      /\ \A k \in Loader \ {l} : load'[k] = load[k]
      /\ load' \in [Loader -> Load \cup {None}]
    BY <1>1, <1>5, LoadParts DEF LoadFile, ProcessType
<1>7. ProcessType'
    BY <1>6 DEF LoadFile, ProcessType
<1>8. First' = First /\ Second' = Second /\ Goal' = Goal
    BY GoalKept DEF LoadFile, Goal
<1> HIDE DEF new, f, todo
<1>9. Ending(l, Goal) /\ Len(todo) <= 3
    BY <1>1 DEF LoadsAgree, todo
<1>10. Ending(l, Goal)'
    <2> SUFFICES ASSUME NEW v \in Var
                 PROVE  /\ v \in DOMAIN new => new[v] = Goal[v]
                        /\ v \notin DOMAIN new /\ env[v] # Unset => env[v] = Goal[v]
                        /\ v \notin DOMAIN new /\ env[v] = Unset => FirstIn(files, Tail(todo), v) = Goal[v]
        BY <1>6, <1>8 DEF LoadFile, Ending
    <2>1. /\ env[v] # Unset => env[v] = Goal[v]
          /\ env[v] = Unset => FirstIn(files, todo, v) = Goal[v]
        BY <1>1, <1>9 DEF Ending, todo
    <2>2. Has(files, todo[1], v) => FirstIn(files, todo, v) = files[todo[1]][v]
        BY <1>1 DEF FirstIn
    <2>3. ~Has(files, todo[1], v) => FirstIn(files, Tail(todo), v) = FirstIn(files, todo, v)
        BY <1>1, <1>9 DEF FirstIn
    <2> QED  BY <1>4, <2>1, <2>2, <2>3
<1>11. ASSUME NEW k \in Loader \ {l}, load[k] # None
       PROVE  (up <=> k # "main")' /\ Len(load[k].todo)' <= 3 /\ Ending(k, Goal)'
    <2>1. (up <=> k # "main") /\ Len(load[k].todo) <= 3 /\ Ending(k, Goal)
        BY <1>11 DEF LoadsAgree
    <2>2. UNCHANGED <<files, env, up>> /\ load'[k] = load[k]
        BY <1>6 DEF LoadFile
    <2> QED  BY <1>8, <2>1, <2>2 DEF Ending
<1>12. Len(load'[l].todo) <= 3
    BY <1>1, <1>6, <1>9
<1>13. LoadsAgree'
    BY <1>1, <1>6, <1>8, <1>10, <1>11, <1>12 DEF LoadFile, LoadsAgree, Loader
<1> QED  BY <1>7, <1>13

\* What another goroutine sets is what this one would end with as well.
LEMMA SetVariableKeeps ==
    ASSUME LoadInv, NEW l \in Loader, NEW v \in Var, SetVariable(l, v)
    PROVE  LoadInv' /\ env'[v] = Goal[v]
<1> USE DEF LoadInv
<1> DEFINE sets == load[l].sets
           rest == [w \in DOMAIN sets \ {v} |-> sets[w]]
<1>1. /\ load[l] # None /\ load[l] \in Load /\ v \in DOMAIN sets
      /\ DOMAIN sets \subseteq Var /\ sets \in [DOMAIN sets -> Text \cup {Empty}]
      /\ load[l].todo \in Seq(File) /\ load[l] = [todo |-> load[l].todo, sets |-> sets]
    BY LoadParts DEF SetVariable, ProcessType
<1>2. rest \in [DOMAIN sets \ {v} -> Text \cup {Empty}]
    BY <1>1
<1>3. [todo |-> load[l].todo, sets |-> rest] \in Load
    BY <1>1, <1>2, PartialEnv DEF Load
<1>4. /\ load'[l] = [todo |-> load[l].todo, sets |-> rest] /\ load'[l] # None
      /\ \A k \in Loader \ {l} : load'[k] = load[k]
      /\ load' \in [Loader -> Load \cup {None}]
    BY <1>1, <1>3, LoadParts DEF SetVariable, ProcessType
<1>5. Ending(l, Goal) /\ (up <=> l # "main")
    BY <1>1 DEF LoadsAgree
<1>6. /\ env' = [env EXCEPT ![v] = sets[v]] /\ sets[v] = Goal[v] /\ sets[v] # Unset
    BY <1>1, <1>5, Sentinels DEF SetVariable, Ending
<1>7. Goal \in Environment /\ env \in Environment
    BY GoalType DEF ProcessType, Goal
<1>8. env' \in Environment /\ env'[v] = Goal[v] /\ \A w \in Var \ {v} : env'[w] = env[w]
    <2>1. env \in [Var -> Value] /\ Goal \in [Var -> Value]
        BY <1>7 DEF Environment, Value
    <2>2. env' \in [Var -> Value] /\ env'[v] = Goal[v] /\ \A w \in Var \ {v} : env'[w] = env[w]
        BY <1>6, <2>1
    <2>3. \A w \in Var : env'[w] \in {env[w], Goal[w]}
        BY <2>2
    <2>4. /\ env'["ENV_FILE"] \in File \cup {Unset, Empty}
          /\ env'["COSIGN_PUB_KEY_PEM"] \in Key \cup {"junk", Unset, Empty}
        BY <1>7, <2>3 DEF Environment, Var
    <2> QED  BY <2>2, <2>4 DEF Environment, Value
<1>9. ProcessType'
    BY <1>4, <1>8 DEF SetVariable, ProcessType
<1>10. First' = First /\ Second' = Second /\ Goal' = Goal /\ files' = files
    BY GoalKept DEF SetVariable, Goal
<1>11. /\ DOMAIN load'[l].sets = DOMAIN sets \ {v} /\ load'[l].todo = load[l].todo
       /\ \A w \in DOMAIN sets \ {v} : load'[l].sets[w] = sets[w]
    BY <1>4
<1> HIDE DEF rest
<1>12. Ending(l, Goal)'
    <2> SUFFICES ASSUME NEW w \in Var
                 PROVE  /\ w \in DOMAIN sets \ {v} => sets[w] = Goal[w]
                        /\ w \notin DOMAIN sets \ {v} /\ env'[w] # Unset => env'[w] = Goal[w]
                        /\ w \notin DOMAIN sets \ {v} /\ env'[w] = Unset =>
                             FirstIn(files, load[l].todo, w) = Goal[w]
        BY <1>10, <1>11 DEF Ending
    <2>1. CASE w = v
        BY <1>6, <1>8, <2>1
    <2>2. CASE w # v
        BY <1>5, <1>8, <2>2 DEF Ending
    <2> QED  BY <2>1, <2>2
<1>13. ASSUME NEW k \in Loader \ {l}, load[k] # None
       PROVE  (up <=> k # "main")' /\ Len(load[k].todo)' <= 3 /\ Ending(k, Goal)'
    <2>1. Ending(k, Goal) /\ (up <=> k # "main") /\ Len(load[k].todo) <= 3
        BY <1>13 DEF LoadsAgree
    <2>2. Ending(k, Goal)'
        BY <1>4, <1>6, <1>8, <1>10, <2>1 DEF Ending
    <2> QED  BY <1>4, <2>1, <2>2 DEF SetVariable
<1>14. up => \A w \in Var : env'[w] \in {First[w], Second[w]}
    BY <1>8 DEF LoadsAgree, Goal
<1>15. up' = up /\ Len(load[l].todo) <= 3
    BY <1>1 DEF SetVariable, LoadsAgree
<1>16. LoadsAgree'
    BY <1>1, <1>4, <1>5, <1>10, <1>11, <1>12, <1>13, <1>14, <1>15 DEF LoadsAgree, Loader
<1> QED  BY <1>8, <1>9, <1>16

LEMMA EndKeeps ==
    ASSUME LoadInv, NEW l \in Loader, EndLoad(l)
    PROVE  LoadInv'
<1> USE DEF LoadInv
<1>1. /\ load[l] # None /\ load[l].todo = <<>> /\ DOMAIN load[l].sets = {}
      /\ up' = TRUE /\ load' = [load EXCEPT ![l] = None]
      /\ UNCHANGED <<podEnv, files, env>>
    BY DEF EndLoad
<1>2. load'[l] = None /\ \A k \in Loader \ {l} : load'[k] = load[k]
    BY <1>1 DEF ProcessType
<1>3. ProcessType'
    BY <1>1 DEF ProcessType
<1>4. First' = First /\ Second' = Second /\ Goal' = Second
    BY <1>1, GoalKept DEF Goal
<1>5. env = Goal
    <2>1. Ending(l, Goal)
        BY <1>1 DEF LoadsAgree
    <2>2. \A v \in Var : FirstIn(files, load[l].todo, v) = Unset
        BY <1>1 DEF FirstIn
    <2>3. \A v \in Var : env[v] = Goal[v]
        BY <1>1, <2>1, <2>2 DEF Ending
    <2> QED  BY <2>3, GoalType DEF ProcessType, Goal, Environment
<1>6. ASSUME NEW k \in Loader \ {l}, load[k] # None
      PROVE  (up <=> k # "main")' /\ Len(load[k].todo)' <= 3 /\ Ending(k, Goal)'
    <2>1. up /\ k # "main" /\ Len(load[k].todo) <= 3 /\ Ending(k, Goal)
        BY <1>1, <1>6 DEF LoadsAgree, ProcessType
    <2> QED  BY <1>1, <1>2, <1>4, <2>1 DEF Ending, Goal
<1>7. env' \in {First, Second}
    BY <1>1, <1>5 DEF ProcessType, Goal
<1>8. LoadsAgree'
    BY <1>1, <1>2, <1>4, <1>6, <1>7 DEF LoadsAgree, Loader
<1> QED  BY <1>3, <1>8

LEMMA RestartKeeps ==
    ASSUME LoadInv, Restart
    PROVE  LoadInv'
<1>1. /\ podEnv' \in PodEnv /\ env' = podEnv' /\ up' = FALSE
      /\ load' = [l \in Loader |-> None] /\ UNCHANGED files
    BY DEF Restart
<1>2. ProcessType'
    BY <1>1, VerificationConstants DEF LoadInv, ProcessType
<1>3. LoadsAgree'
    BY <1>1 DEF LoadsAgree
<1> QED  BY <1>2, <1>3 DEF LoadInv

LEMMA LoadInvInit == Init => LoadInv
BY VerificationConstants DEF Init, LoadInv, ProcessType, LoadsAgree

\* A verification, and whatever befalls it, touches no environment.
LEMMA VerifyOnly == Verify => sameProcess
BY DEF Verify, BeginVerify, ChooseKey, CreateTemp, WriteKey, CloseFile, LoadKey, RekorAnswers,
       VerifySignatures, Expire, Expired, CleanUp, RemoveFails

LEMMA LoadInvSame == LoadInv /\ sameProcess => LoadInv'
<1> SUFFICES ASSUME LoadInv, sameProcess PROVE LoadInv'
    OBVIOUS
<1>1. UNCHANGED <<podEnv, files, env, up, load>> /\ First' = First /\ Goal' = Goal
    BY GoalKept DEF sameProcess, Goal
<1>2. Second' = Second
    BY <1>1, GoalKept
<1>3. ProcessType'
    BY <1>1 DEF LoadInv, ProcessType
<1>4. \A l \in Loader : Ending(l, Goal) => Ending(l, Goal)'
    BY <1>1 DEF Ending
<1>5. LoadsAgree'
    BY <1>1, <1>2, <1>4 DEF LoadInv, LoadsAgree
<1> QED  BY <1>3, <1>5 DEF LoadInv

LEMMA LoadInvNext == LoadInv /\ [Next]_vars => LoadInv'
<1> SUFFICES ASSUME LoadInv, [Next]_vars PROVE LoadInv'
    OBVIOUS
<1>1. CASE Dotenv
    BY <1>1, BeginKeeps, LoadFileKeeps, SetVariableKeeps, EndKeeps DEF Dotenv
<1>2. CASE Restart
    BY <1>2, RestartKeeps
<1>3. CASE Verify
    BY <1>3, VerifyOnly, LoadInvSame
<1>4. CASE UNCHANGED vars
    BY <1>4, LoadInvSame DEF vars, sameProcess
<1> QED  BY <1>1, <1>2, <1>3, <1>4 DEF Next

\* Nothing that a running process has is set again, to whatever value.
LEMMA RunningKeeps ==
    ASSUME LoadInv, [Next]_vars, up, up', NEW v \in Var, env[v] # Unset
    PROVE  env'[v] = env[v]
<1>1. ASSUME NEW l \in Loader, NEW w \in Var, SetVariable(l, w) PROVE env'[v] = env[v]
    <2>1. env \in Environment /\ First \in Environment /\ Goal = Second
        BY GoalType DEF LoadInv, ProcessType, Goal
    <2>2. CASE w # v
        BY <1>1, <2>2 DEF SetVariable
    <2>3. CASE w = v
        <3>1. env'[v] = Second[v] /\ env[v] \in {First[v], Second[v]}
            BY <1>1, <2>1, <2>3, SetVariableKeeps DEF LoadInv, LoadsAgree
        <3>2. First[v] # Unset => Second[v] = First[v]
            BY <2>1, LoadedType DEF LoadInv, ProcessType, Second
        <3> QED  BY <3>1, <3>2
    <2> QED  BY <2>2, <2>3
<1>2. CASE Verify
    BY <1>2, VerifyOnly DEF sameProcess
<1> QED  BY <1>1, <1>2 DEF Next, Dotenv, BeginLoad, LoadFile, EndLoad, Restart, vars

LEMMA LoadInvariance == Spec => []LoadInv
BY LoadInvInit, LoadInvNext, PTL DEF Spec

\* dotenv.Load "never overrides variables already present in the process
\* environment": loads that run at once, from files that set ENV_FILE and from
\* the file it names, never change what a running process has.
THEOREM NothingOverridden == Spec => NeverOverrides
<1> DEFINE A == \A v \in Var : up /\ up' /\ env[v] # Unset => env'[v] = env[v]
<1>1. LoadInv /\ [Next]_vars => [A]_vars
    BY RunningKeeps
<1>2. Spec => [][A]_vars
    BY <1>1, LoadInvariance, PTL DEF Spec
<1> QED  BY <1>2 DEF NeverOverrides

\* Whatever number of goroutines load the files, and however their steps
\* interleave, they leave the environment of one undisturbed load, or of two.
THEOREM LoadedInOrder == Spec => []Precedence
<1>1. LoadInv => Precedence
    BY DEF LoadInv, LoadsAgree, Precedence, First, Second
<1> QED  BY <1>1, LoadInvariance, PTL

-----------------------------------------------------------------------------
(* Verifications.                                                          *)

PEM  == env["COSIGN_PUB_KEY_PEM"]
TLog == env["COSIGN_IGNORE_TLOG"]

Call ==
    [step : Steps \cup {"idle"}, image : Image \cup {None},
     key : Key \cup {BuiltIn, "junk", None},
     ignoreTlog : BOOLEAN, expired : BOOLEAN, faulty : BOOLEAN, ok : BOOLEAN]

CallType ==
    /\ call \in Call
    /\ (call.step = "idle") <=> (call.image = None)
    /\ call.step \in Steps \ {"key"} => call.key \in Key \cup {BuiltIn, "junk"}
    /\ temp \in {None, "empty", "written"} /\ faults \in 0..MaxFaults
    /\ left \in Nat /\ unremoved \in Nat

\* A call runs in a process that is up, its key is that process's own unless it
\* is the built-in one, and a call that waives the log was told to.  A call that
\* is about to return nil has seen its image accepted.
CallSound ==
    /\ call.step # "idle" => up
    /\ call.step \in Steps \ {"key"} => call.key \in {BuiltIn, PEM}
    /\ call.step \in {"rekor", "verify"} => call.key \in Key
    /\ call.ignoreTlog => call.step \in {"verify", "cleanup"} /\ TLog = "true"
    /\ call.expired => call.faulty
    /\ call.ok => call.step = "cleanup" /\ call.key \in Key /\ Accepts(call)

\* Once closed, the key file has the key in it, until it is read; and no call
\* has a key file but between its creation and the cleanup.
KeyFile ==
    /\ NoKeyFileLeft
    /\ call.step \in {"close", "load"} => temp = "written"
    /\ temp # None => call.step \in Steps \ {"key", "create"}

\* What a nil says is of the process that returned it.
Verdict ==
    /\ last.ok => up /\ last.key \in Key
    /\ NilMeansSigned

CallInv == CallType /\ CallSound /\ KeyFile /\ Verdict

\* How a call ends, whatever it was, if the key files are accounted for: in nil
\* only if the image was accepted.
LEMMA ReturnKeeps ==
    ASSUME CallInv, VerificationConstants, NEW c, Return(c), sameProcess, up,
           c.ok => c = call, faults' \in 0..MaxFaults,
           left' \in Nat, unremoved' \in Nat, left' <= unremoved'
    PROVE  CallInv'
<1>1. /\ call' = NoCall /\ temp' = None /\ last' = c
      /\ env' = env /\ up' = up
    BY DEF Return, sameProcess
<1>2. CallType'
    BY <1>1 DEF CallType, Call, NoCall, Steps
<1>3. CallSound' /\ KeyFile'
    BY <1>1 DEF NoCall, CallSound, KeyFile, NoKeyFileLeft, Steps
<1>4. Verdict'
    <2>1. CASE c.ok
        <3>1. /\ call.key \in Key /\ call.key = PEM
              /\ call.ignoreTlog => TLog = "true"
              /\ call.key \in SignedBy[call.image]
              /\ call.image \in Logged \/ call.ignoreTlog
            BY <2>1 DEF CallInv, CallSound, Accepts, VerificationConstants, Steps
        <3> QED  BY <1>1, <2>1, <3>1 DEF Verdict, NilMeansSigned, PEM, TLog
    <2>2. CASE ~c.ok
        BY <1>1, <2>2 DEF Verdict, NilMeansSigned
    <2> QED  BY <2>1, <2>2
<1> QED  BY <1>2, <1>3, <1>4 DEF CallInv

\* A step within a call: the verdict is the last one's still.
LEMMA VerdictKept ==
    ASSUME Verdict, sameProcess, UNCHANGED last
    PROVE  Verdict'
BY DEF Verdict, NilMeansSigned, sameProcess

\* On the way out of a call, by way of the cleanup.
LEMMA LeaveKeeps ==
    ASSUME CallInv, VerificationConstants, NEW c \in {call, Faulty}, NEW ok \in BOOLEAN,
           Leave(c, ok), sameProcess, up, faults' \in 0..MaxFaults,
           call.step \in {"write", "close", "load", "rekor", "verify"},
           ok => c = call /\ call.key \in Key /\ Accepts(call)
    PROVE  CallInv'
<1>1. /\ call' = [c EXCEPT !.step = "cleanup", !.ok = ok]
      /\ UNCHANGED <<temp, last, left, unremoved, env, up>>
    BY DEF Leave, ending, sameProcess
<1>2. /\ c \in Call /\ c.image = call.image /\ c.key = call.key
      /\ c.ignoreTlog = call.ignoreTlog /\ (call.expired => c.faulty) /\ c.expired = call.expired
    BY DEF Faulty, CallInv, CallType, CallSound, Call
<1>3. /\ call' \in Call /\ call'.step = "cleanup" /\ call'.ok = ok /\ call'.image = c.image
      /\ call'.key = c.key /\ call'.ignoreTlog = c.ignoreTlog
      /\ call'.expired = c.expired /\ call'.faulty = c.faulty
    BY <1>1, <1>2 DEF Call, Steps
<1>4. CallType'
    BY <1>1, <1>2, <1>3 DEF CallInv, CallType, Steps
<1>5. ok => Accepts(call')
    BY <1>2, <1>3 DEF Accepts
<1>6. CallSound'
    BY <1>1, <1>2, <1>3, <1>5 DEF CallInv, CallSound, Steps, PEM, TLog
<1>7. KeyFile'
    BY <1>1, <1>3 DEF CallInv, KeyFile, NoKeyFileLeft, Steps
<1> QED  BY <1>1, <1>4, <1>6, <1>7, VerdictKept DEF CallInv

\* A step on to the next call, with the key file as that call expects it.
LEMMA GotoKeeps ==
    ASSUME CallInv, NEW step \in {"write", "close", "load", "rekor"}, Goto(step), sameProcess,
           faults' \in 0..MaxFaults, temp' \in {None, "empty", "written"},
           call.step \in {"create", "write", "close", "load"},
           step \in {"close", "load"} => temp' = "written",
           step = "rekor" => call.key \in Key
    PROVE  CallInv'
<1>1. /\ call' = [call EXCEPT !.step = step]
      /\ UNCHANGED <<last, left, unremoved, env, up>>
    BY DEF Goto, ending, sameProcess
<1>2. /\ call' \in Call /\ call'.step = step /\ call'.image = call.image
      /\ call'.key = call.key /\ call'.ignoreTlog = call.ignoreTlog
      /\ call'.expired = call.expired /\ call'.faulty = call.faulty /\ call'.ok = call.ok
    BY <1>1 DEF CallInv, CallType, Call, Steps
<1>3. CallType'
    BY <1>1, <1>2 DEF CallInv, CallType, Steps
<1>4. CallSound'
    BY <1>1, <1>2 DEF CallInv, CallSound, Steps, PEM, TLog
<1>5. KeyFile'
    BY <1>1, <1>2 DEF CallInv, KeyFile, NoKeyFileLeft, Steps
<1> QED  BY <1>1, <1>3, <1>4, <1>5, VerdictKept DEF CallInv

LEMMA GetRekorKeeps ==
    ASSUME LoadInv, CallInv, NEW ok \in BOOLEAN, GetRekor(ok), sameProcess,
           faults' \in 0..MaxFaults, call.expired => ~ok
    PROVE  CallInv'
<1> USE VerificationConstants
<1>1. call.step = "rekor" /\ up
    BY DEF GetRekor, CallInv, CallSound
<1>2. CASE ok \/ env["COSIGN_IGNORE_TLOG"] = "true"
    <2>1. /\ call' = [call EXCEPT !.step = "verify", !.ignoreTlog = ~ok, !.faulty = @ \/ ~ok]
          /\ UNCHANGED <<temp, last, left, unremoved, env, up>>
        BY <1>2 DEF GetRekor, ending, sameProcess
    <2>2. CallType'
        BY <1>1, <2>1 DEF CallInv, CallType, Call, Steps
    <2>3. CallSound'
        BY <1>1, <1>2, <2>1 DEF CallInv, CallType, Call, CallSound, Steps, PEM, TLog
    <2>4. KeyFile'
        BY <1>1, <2>1 DEF CallInv, CallType, Call, KeyFile, NoKeyFileLeft, Steps
    <2> QED  BY <2>1, <2>2, <2>3, <2>4, VerdictKept DEF CallInv
<1>3. CASE ~(ok \/ env["COSIGN_IGNORE_TLOG"] = "true")
    BY <1>1, <1>3, LeaveKeeps DEF GetRekor
<1> QED  BY <1>2, <1>3

LEMMA StepKeeps ==
    ASSUME LoadInv, CallInv, Verify
    PROVE  CallInv'
<1> USE VerificationConstants
<1>s. sameProcess
    BY VerifyOnly
<1>p. UNCHANGED <<env, up>>
    BY <1>s DEF sameProcess
<1>t. PEM \in Key \cup {"junk", Unset, Empty}
    BY DEF LoadInv, ProcessType, Environment, PEM
<1>u. call.step # "idle" => up
    BY DEF CallInv, CallSound
<1>f. /\ faults \in 0..MaxFaults /\ (Fault => faults' \in 0..MaxFaults)
      /\ \A ok \in BOOLEAN : Works(ok) => faults' \in 0..MaxFaults
    BY DEF CallInv, CallType, Fault, Works
<1>n. left \in Nat /\ unremoved \in Nat /\ left <= unremoved
    BY DEF CallInv, CallType, KeyFile, NoKeyFileLeft
<1>c. call \in {call, Faulty} /\ Faulty \in {call, Faulty} /\ FALSE \in BOOLEAN
    OBVIOUS
<1>1. ASSUME NEW i \in Image \cup Malformed, BeginVerify(i) PROVE CallInv'
    <2>1. CASE i \in Malformed
        BY <1>1, <1>p, <2>1 DEF BeginVerify, NoCall, CallInv, CallType, CallSound, KeyFile,
            NoKeyFileLeft, Verdict, NilMeansSigned, Accepts, PEM, TLog
    <2>2. CASE i \notin Malformed
        <3>1. /\ call' = [NoCall EXCEPT !.step = "key", !.image = i]
              /\ UNCHANGED <<temp, last, left, unremoved, faults>>
              /\ up /\ call.step = "idle" /\ i \in Image
            BY <1>1, <2>2 DEF BeginVerify, ending
        <3>2. CallType'
            BY <3>1, Sentinels DEF CallInv, CallType, Call, NoCall, Steps
        <3>3. CallSound' /\ KeyFile'
            BY <1>p, <3>1 DEF CallInv, CallSound, NoCall, KeyFile, NoKeyFileLeft, Steps
        <3> QED  BY <1>s, <3>1, <3>2, <3>3, VerdictKept DEF CallInv
    <2> QED  BY <2>1, <2>2
<1>2. CASE ChooseKey
    <2>1. /\ UNCHANGED <<temp, last, left, unremoved, faults>> /\ call.step = "key"
          /\ call' = [call EXCEPT !.step = "create",
                        !.key = IF PEM \in {Unset, Empty} THEN BuiltIn ELSE PEM]
        BY <1>2 DEF ChooseKey, PEM, ending
    <2>2. CallType'
        BY <1>t, <2>1, Sentinels DEF CallInv, CallType, Call, Steps, BuiltIn, Text
    <2>3. CallSound' /\ KeyFile'
        BY <1>p, <2>1 DEF CallInv, CallType, Call, CallSound, KeyFile, NoKeyFileLeft, Steps,
            PEM, TLog
    <2> QED  BY <1>s, <2>1, <2>2, <2>3, VerdictKept DEF CallInv
<1>3. ASSUME NEW ok \in BOOLEAN, CreateTemp(ok) PROVE CallInv'
    <2>1. CASE ok /\ TmpWritable
        BY <1>3, <1>f, <1>s, <2>1, GotoKeeps DEF CreateTemp
    <2>2. CASE ~(ok /\ TmpWritable)
        <3>1. temp = None /\ ~call.ok /\ ~Faulty.ok
            BY <1>3 DEF CreateTemp, Faulty, CallInv, CallType, CallSound, Call, KeyFile
        <3>2. left' = left /\ unremoved' = unremoved
            BY <1>3, <1>n, <2>2, <3>1 DEF CreateTemp, Forgotten
        <3>3. PICK c \in {call, Faulty} : Return(c)
            BY <1>3, <1>c, <2>2 DEF CreateTemp
        <3>4. call.step = "create" /\ faults' \in 0..MaxFaults
            BY <1>3, <1>f DEF CreateTemp
        <3> QED  BY <1>n, <1>s, <1>u, <3>1, <3>2, <3>3, <3>4, ReturnKeeps
    <2> QED  BY <2>1, <2>2
<1>4. ASSUME NEW ok \in BOOLEAN, WriteKey(ok) PROVE CallInv'
    <2>1. call.step = "write" /\ faults' \in 0..MaxFaults /\ up
        BY <1>4, <1>f, <1>u DEF WriteKey
    <2>2. CASE ok
        BY <1>4, <1>s, <2>1, <2>2, GotoKeeps DEF WriteKey
    <2>3. CASE ~ok
        BY <1>4, <1>c, <1>s, <2>1, <2>3, LeaveKeeps DEF WriteKey
    <2> QED  BY <2>2, <2>3
<1>5. ASSUME NEW ok \in BOOLEAN, CloseFile(ok) PROVE CallInv'
    <2>1. call.step = "close" /\ temp = "written" /\ faults' \in 0..MaxFaults /\ up
        BY <1>5, <1>f, <1>u DEF CloseFile, CallInv, KeyFile
    <2>2. CASE ok
        BY <1>5, <1>s, <2>1, <2>2, GotoKeeps DEF CloseFile
    <2>3. CASE ~ok
        BY <1>5, <1>c, <1>s, <2>1, <2>3, LeaveKeeps DEF CloseFile
    <2> QED  BY <2>2, <2>3
<1>6. ASSUME NEW ok \in BOOLEAN, LoadKey(ok) PROVE CallInv'
    <2>1. call.step = "load" /\ temp = "written" /\ faults' \in 0..MaxFaults /\ up
        BY <1>6, <1>f, <1>u DEF LoadKey, CallInv, KeyFile
    <2>2. CASE ok /\ call.key \in Key
        BY <1>6, <1>s, <2>1, <2>2, GotoKeeps DEF LoadKey
    <2>3. CASE ~(ok /\ call.key \in Key)
        <3>1. PICK c \in {call, Faulty} : Leave(c, FALSE)
            BY <1>6, <1>c, <2>3 DEF LoadKey
        <3> QED  BY <1>c, <1>s, <2>1, <3>1, LeaveKeeps
    <2> QED  BY <2>2, <2>3
<1>7. ASSUME NEW ok \in BOOLEAN, RekorAnswers(ok) PROVE CallInv'
    BY <1>7, <1>f, <1>s, GetRekorKeeps DEF RekorAnswers
<1>8. ASSUME NEW ok \in BOOLEAN, VerifySignatures(ok) PROVE CallInv'
    <2>1. call.step = "verify" /\ call.key \in Key /\ faults' \in 0..MaxFaults /\ up
        BY <1>8, <1>f, <1>u DEF VerifySignatures, CallInv, CallSound
    <2>2. CASE ok
        <3>1. Leave(call, Accepts(call)) /\ Accepts(call) \in BOOLEAN
            BY <1>8, <2>2 DEF VerifySignatures, Accepts
        <3> QED  BY <1>c, <1>s, <2>1, <3>1, LeaveKeeps
    <2>3. CASE ~ok
        BY <1>8, <1>c, <1>s, <2>1, <2>3, LeaveKeeps DEF VerifySignatures
    <2> QED  BY <2>2, <2>3
<1>9. CASE CleanUp \/ RemoveFails
    <2>1. call.step = "cleanup" /\ Return(call) /\ faults' \in 0..MaxFaults
        BY <1>9, <1>f DEF CleanUp, RemoveFails
    <2>2. left' \in Nat /\ unremoved' \in Nat /\ left' <= unremoved'
        BY <1>9, <1>n DEF CleanUp, RemoveFails, Forgotten
    <2> QED  BY <1>s, <1>u, <2>1, <2>2, ReturnKeeps
<1>11. CASE Expire
    <2>1. /\ call' = [call EXCEPT !.expired = TRUE, !.faulty = TRUE]
          /\ UNCHANGED <<temp, last, left, unremoved>> /\ call.step \in Steps \ {"cleanup"}
        BY <1>11 DEF Expire, ending
    <2>2. CallType'
        BY <1>11, <1>f, <2>1 DEF Expire, CallInv, CallType, Call
    <2>3. CallSound' /\ KeyFile'
        BY <1>p, <2>1 DEF CallInv, CallType, Call, CallSound, KeyFile, NoKeyFileLeft, PEM, TLog
    <2> QED  BY <1>s, <2>1, <2>2, <2>3, VerdictKept DEF CallInv
<1>12. CASE Expired
    <2>1. CASE GetRekor(FALSE)
        BY <1>12, <1>f, <1>s, <2>1, GetRekorKeeps DEF Expired
    <2>2. CASE call.step = "verify" /\ Leave(call, FALSE)
        BY <1>12, <1>c, <1>f, <1>s, <1>u, <2>2, LeaveKeeps DEF Expired
    <2> QED  BY <1>12, <2>1, <2>2 DEF Expired
<1> QED  BY <1>1, <1>2, <1>3, <1>4, <1>5, <1>6, <1>7, <1>8, <1>9, <1>11, <1>12 DEF Verify

\* A load changes neither the key of a running process nor its waiver.
LEMMA DotenvKeepsCall ==
    ASSUME LoadInv, CallInv, Dotenv
    PROVE  CallInv'
<1>1. UNCHANGED <<call, temp, last, left, unremoved, faults>> /\ (up => up')
    <2>1. UNCHANGED <<call, temp, ending, faults>> /\ (up' = up \/ up' = TRUE)
        BY DEF Dotenv, BeginLoad, LoadFile, SetVariable, EndLoad
    <2>2. up \in BOOLEAN
        BY DEF LoadInv, ProcessType
    <2> QED  BY <2>1, <2>2 DEF ending
<1>2. ASSUME up, PEM # Unset PROVE PEM' = PEM
    BY <1>1, <1>2, RunningKeeps DEF PEM, Next, Var
<1>3. ASSUME up, TLog # Unset PROVE TLog' = TLog
    BY <1>1, <1>3, RunningKeeps DEF TLog, Next, Var
<1>4. CallType' /\ KeyFile'
    BY <1>1 DEF CallInv, CallType, KeyFile, NoKeyFileLeft
<1>k. Unset \notin Key /\ Unset # "true"
    BY Sentinels DEF Text
<1>5. CallSound'
    <2>1. (call.step # "idle" => up)'
        BY <1>1 DEF CallInv, CallSound
    <2>2. (call.step \in Steps \ {"key"} => call.key \in {BuiltIn, PEM})'
        <3>1. call.step \in Steps \ {"key"} => call.key = BuiltIn \/ call.key # Unset
            BY Sentinels DEF CallInv, CallType, Text
        <3> QED  BY <1>1, <1>2, <3>1 DEF CallInv, CallSound, Steps
    <2>3. (call.ignoreTlog => call.step \in {"verify", "cleanup"} /\ TLog = "true")'
        BY <1>1, <1>3, <1>k DEF CallInv, CallSound
    <2>4. Accepts(call)' <=> Accepts(call)
        BY <1>1 DEF Accepts
    <2> QED  BY <1>1, <2>1, <2>2, <2>3, <2>4 DEF CallInv, CallSound
<1>6. Verdict'
    <2>1. CASE last.ok
        <3>1. up /\ PEM \in Key
            BY <2>1 DEF CallInv, Verdict, NilMeansSigned, PEM
        <3> QED  BY <1>1, <1>2, <1>3, <1>k, <2>1, <3>1
                 DEF CallInv, Verdict, NilMeansSigned, PEM, TLog
    <2>2. CASE ~last.ok
        BY <1>1, <2>2 DEF Verdict, NilMeansSigned
    <2> QED  BY <2>1, <2>2
<1> QED  BY <1>4, <1>5, <1>6 DEF CallInv

LEMMA RestartKeepsCall ==
    ASSUME CallInv, Restart
    PROVE  CallInv'
<1>1. /\ left \in Nat /\ unremoved \in Nat /\ left <= unremoved /\ faults \in 0..MaxFaults
      /\ Fault /\ call' = NoCall /\ temp' = None /\ last' = NoCall
      /\ left' \in {Forgotten, 0}
      /\ unremoved' = IF temp = None THEN unremoved ELSE unremoved + 1
    BY DEF Restart, CallInv, CallType, KeyFile, NoKeyFileLeft
<1>2. left' \in Nat /\ unremoved' \in Nat /\ left' <= unremoved'
    BY <1>1 DEF Forgotten
<1>3. CallType'
    BY <1>1, <1>2, VerificationConstants DEF Fault, NoCall, CallType, Call, Steps
<1> QED  BY <1>1, <1>2, <1>3 DEF NoCall, CallInv, CallSound, KeyFile, NoKeyFileLeft,
            Verdict, NilMeansSigned, Steps

LEMMA CallInvInit == Init => CallInv
BY VerificationConstants DEF Init, NoCall, CallInv, CallType, Call,
   CallSound, KeyFile, NoKeyFileLeft, Verdict, NilMeansSigned, Steps

LEMMA CallInvNext == LoadInv /\ CallInv /\ [Next]_vars => CallInv'
<1> SUFFICES ASSUME LoadInv, CallInv, [Next]_vars PROVE CallInv'
    OBVIOUS
<1>1. CASE UNCHANGED vars
    BY <1>1 DEF vars, ending, CallInv, CallType, CallSound, KeyFile, NoKeyFileLeft, Verdict,
       NilMeansSigned, Accepts, PEM, TLog
<1> QED  BY <1>1, StepKeeps, DotenvKeepsCall, RestartKeepsCall DEF Next

LEMMA CallInvariance == Spec => []CallInv
BY CallInvInit, CallInvNext, LoadInvariance, PTL DEF Spec

\* The process, its files, its loads and the verification in progress keep to
\* their types; a call past the choice of its key has one.
THEOREM TypeCorrect == Spec => []TypeOK
<1>1. LoadInv /\ CallInv => TypeOK
    BY DEF LoadInv, ProcessType, CallInv, CallType, Call, TypeOK
<1> QED  BY <1>1, LoadInvariance, CallInvariance, PTL

\* Whichever call of buildCosignCheckOpts or after it fails, and whenever the
\* deadline expires, the verification does not end before the cleanup of its
\* temporary key file: a file in /tmp is one whose removal failed, or whose
\* verification was killed.
THEOREM KeyFileRemoved == Spec => []NoKeyFileLeft
<1>1. CallInv => NoKeyFileLeft
    BY DEF CallInv, KeyFile
<1> QED  BY <1>1, CallInvariance, PTL

\* A nil from VerifyImageSignature: the key that the process still has signed
\* the image, and the log has it or the operator waived the log.
THEOREM NilIsSound == Spec => []NilMeansSigned
<1>1. CallInv => NilMeansSigned
    BY DEF CallInv, Verdict
<1> QED  BY <1>1, CallInvariance, PTL

\* A call that leaves with a key and without a failure leaves with the verdict
\* its image deserves.
LeavesFairly ==
    /\ call.step = "cleanup" /\ call.key \in Key /\ ~call.faulty /\ Accepts(call) => call.ok
    /\ SignedImageVerifies

\* Where temporary files can be created, a verification with a configured key
\* in which nothing failed returns nil for what it accepts: the only failures of
\* its own are those of the key and of the image.
THEOREM SignedVerifies == ASSUME TmpWritable PROVE Spec => []SignedImageVerifies
<1>1. None \notin Key
    BY Sentinels
<1>2. Init => LeavesFairly
    BY <1>1 DEF Init, NoCall, LeavesFairly, SignedImageVerifies
<1>3. ASSUME CallInv, LeavesFairly, [Next]_vars PROVE LeavesFairly'
    <2>f. call \in Call /\ Faulty \in Call /\ Faulty.faulty /\ Faulty.step = call.step
        BY <1>3 DEF Faulty, CallInv, CallType, Call
    <2>1. ASSUME UNCHANGED last, call' = call \/ call'.step # "cleanup" PROVE LeavesFairly'
        BY <1>3, <2>1 DEF LeavesFairly, SignedImageVerifies, Accepts
    <2>2. ASSUME call' = NoCall, last' = NoCall PROVE LeavesFairly'
        BY <1>1, <2>2 DEF NoCall, LeavesFairly, SignedImageVerifies
    <2>3. ASSUME NEW c, Return(c), c.key \in Key /\ ~c.faulty /\ Accepts(c) => c.ok
          PROVE  LeavesFairly'
        <3>1. last' = c /\ call' = NoCall
            BY <2>3 DEF Return
        <3> QED  BY <2>3, <3>1 DEF NoCall, LeavesFairly, SignedImageVerifies, Accepts
    <2>4. ASSUME NEW c \in Call, NEW ok \in BOOLEAN, Leave(c, ok),
                 c.key \in Key /\ ~c.faulty /\ Accepts(c) => ok
          PROVE  LeavesFairly'
        <3>1. call' = [c EXCEPT !.step = "cleanup", !.ok = ok] /\ UNCHANGED last
            BY <2>4 DEF Leave, ending
        <3>2. /\ call'.ok = ok /\ call'.key = c.key /\ call'.faulty = c.faulty
              /\ call'.image = c.image /\ call'.ignoreTlog = c.ignoreTlog
            BY <3>1 DEF Call
        <3> QED  BY <1>3, <2>4, <3>1, <3>2 DEF LeavesFairly, SignedImageVerifies, Accepts
    <2>5. ASSUME NEW step \in {"write", "close", "load", "rekor"}, Goto(step) PROVE LeavesFairly'
        <3>1. UNCHANGED last /\ call'.step = step
            BY <2>5, <2>f DEF Goto, ending, Call
        <3> QED  BY <2>1, <3>1
    <2>6. ASSUME NEW ok \in BOOLEAN, CreateTemp(ok) PROVE LeavesFairly'
        BY <2>3, <2>5, <2>6, <2>f DEF CreateTemp
    <2>7. ASSUME NEW ok \in BOOLEAN, WriteKey(ok) \/ CloseFile(ok) PROVE LeavesFairly'
        BY <2>4, <2>5, <2>7, <2>f DEF WriteKey, CloseFile
    <2>8. ASSUME NEW ok \in BOOLEAN, LoadKey(ok) PROVE LeavesFairly'
        <3>1. temp = "written"
            BY <1>3, <2>8 DEF LoadKey, CallInv, KeyFile
        <3> QED  BY <2>4, <2>5, <2>8, <2>f, <3>1 DEF LoadKey
    <2>9. ASSUME NEW ok \in BOOLEAN, VerifySignatures(ok) PROVE LeavesFairly'
        <3>1. Accepts(call) \in BOOLEAN
            BY DEF Accepts
        <3> QED  BY <2>4, <2>9, <2>f, <3>1 DEF VerifySignatures
    <2>10. ASSUME NEW ok \in BOOLEAN, GetRekor(ok) PROVE LeavesFairly'
        <3>1. CASE ok \/ env["COSIGN_IGNORE_TLOG"] = "true"
            <4>1. UNCHANGED last /\ call'.step = "verify"
                BY <2>10, <2>f, <3>1 DEF GetRekor, ending, Call
            <4> QED  BY <2>1, <4>1
        <3>2. CASE ~(ok \/ env["COSIGN_IGNORE_TLOG"] = "true")
            BY <2>4, <2>10, <2>f, <3>2 DEF GetRekor
        <3> QED  BY <3>1, <3>2
    <2>11. ASSUME NEW ok \in BOOLEAN, RekorAnswers(ok) PROVE LeavesFairly'
        BY <2>10, <2>11 DEF RekorAnswers
    <2>12. CASE Expired
        <3>1. call.faulty
            BY <1>3, <2>12 DEF Expired, CallInv, CallSound
        <3> QED  BY <2>4, <2>10, <2>12, <2>f, <3>1 DEF Expired
    <2>13. CASE CleanUp \/ RemoveFails
        BY <1>3, <2>3, <2>13 DEF CleanUp, RemoveFails, LeavesFairly
    <2>14. ASSUME NEW i \in Image \cup Malformed, BeginVerify(i) PROVE LeavesFairly'
        <3>1. CASE i \in Malformed
            <4>1. last' = NoCall /\ call' = call /\ call.step = "idle"
                BY <2>14, <3>1 DEF BeginVerify
            <4> QED  BY <1>1, <4>1 DEF NoCall, LeavesFairly, SignedImageVerifies
        <3>2. CASE i \notin Malformed
            <4>1. UNCHANGED last /\ call'.step = "key"
                BY <2>14, <3>2 DEF BeginVerify, ending, NoCall
            <4> QED  BY <2>1, <4>1
        <3> QED  BY <3>1, <3>2
    <2>15. CASE ChooseKey \/ Expire
        <3>1. UNCHANGED last /\ call'.step # "cleanup"
            BY <2>15, <2>f DEF ChooseKey, Expire, ending, Call
        <3> QED  BY <2>1, <3>1
    <2>16. CASE Dotenv \/ UNCHANGED vars
        <3>1. UNCHANGED <<call, last>>
            BY <2>16 DEF Dotenv, BeginLoad, LoadFile, SetVariable, EndLoad, vars, ending
        <3> QED  BY <2>1, <3>1
    <2>17. CASE Restart
        BY <2>2, <2>17 DEF Restart
    <2> QED  BY <1>3, <2>6, <2>7, <2>8, <2>9, <2>11, <2>12, <2>13, <2>14, <2>15, <2>16, <2>17
             DEF Next, Verify
<1>4. LeavesFairly => SignedImageVerifies
    BY DEF LeavesFairly
<1> QED  BY <1>2, <1>3, <1>4, CallInvariance, PTL DEF Spec
=============================================================================
