------------------------ MODULE SkbloomInstallProofs ------------------------
(* Proofs about SkbloomInstall, for any number of runs, clusters, profiles   *)
(* and ledgers, with crashes, torn ledgers and commands that fail unseen.    *)
EXTENDS SkbloomInstall, TLAPS

\* The steps before the services are none of them.
LEMMA PrologueIsSteps ==
    ASSUME NEW p \in Profile
    PROVE  prologue(p) \in Seq(Fixed)
<1>1. CASE IsSwarm(p)
  BY <1>1 DEF prologue, Fixed
<1>2. CASE ~IsSwarm(p) /\ p.tls
  BY <1>2 DEF prologue, Fixed
<1>3. CASE ~IsSwarm(p) /\ ~p.tls
  BY <1>3 DEF prologue, Fixed
<1> QED BY <1>1, <1>2, <1>3

\* A flow is a sequence of steps.
LEMMA FlowIsSteps ==
    ASSUME NEW p \in Profile
    PROVE  /\ flow(p) \in Seq(Step)
           /\ Len(flow(p)) = Len(prologue(p)) + Len(p.services) + 1
           /\ Len(flow(p)) \in Nat
           /\ \A i \in 1 .. Len(flow(p)) : flow(p)[i] \in Step
<1>1. p.services \in Seq(Step)
  BY SkbloomAssumption DEF Step
<1>2. <<"final-check">> \in Seq(Step)
  BY DEF Step, Fixed
<1>3. prologue(p) \in Seq(Step)
  BY PrologueIsSteps DEF Step
<1> QED BY <1>1, <1>2, <1>3 DEF flow

\* The services of a profile follow each other in its flow, and nothing else in
\* it is a service.
LEMMA FlowHasServices ==
    ASSUME NEW p \in Profile
    PROVE  /\ Len(prologue(p)) \in Nat
           /\ \A j \in 1 .. Len(p.services) :
                 /\ Len(prologue(p)) + j \in 1 .. Len(flow(p))
                 /\ flow(p)[Len(prologue(p)) + j] = p.services[j]
           /\ \A i \in 1 .. Len(flow(p)) : flow(p)[i] \in Service =>
                 i - Len(prologue(p)) \in 1 .. Len(p.services)
<1> DEFINE P == Len(prologue(p))
<1>1. /\ p.services \in Seq(Step) /\ prologue(p) \in Seq(Step) /\ P \in Nat
      /\ <<"final-check">> \in Seq(Step)
      /\ \A i \in 1 .. P : prologue(p)[i] \notin Service
      /\ "final-check" \notin Service
  <2>1. prologue(p) \in Seq(Fixed)
    BY PrologueIsSteps
  <2>2. \A i \in 1 .. P : prologue(p)[i] \in Fixed
    BY <2>1
  <2>3. p.services \in Seq(Step) /\ prologue(p) \in Seq(Step) /\ P \in Nat
    BY <2>1, SkbloomAssumption DEF Step
  <2> QED BY <2>2, <2>3, SkbloomAssumption DEF Step, Fixed
<1> DEFINE before == prologue(p) \o p.services
<1>2. before \in Seq(Step) /\ Len(before) = P + Len(p.services) /\ Len(p.services) \in Nat
  BY <1>1
<1>3. /\ \A i \in 1 .. P : before[i] = prologue(p)[i]
      /\ \A j \in 1 .. Len(p.services) : before[P + j] = p.services[j]
  BY <1>1
<1>4. /\ \A i \in 1 .. Len(before) : flow(p)[i] = before[i]
      /\ flow(p)[Len(before) + 1] = "final-check"
      /\ Len(flow(p)) = Len(before) + 1
  BY <1>1, <1>2 DEF flow
<1>5. ASSUME NEW i \in 1 .. Len(flow(p)), flow(p)[i] \in Service
      PROVE  i - P \in 1 .. Len(p.services)
  <2>1. i # Len(before) + 1
    BY <1>1, <1>4, <1>5
  <2>2. i \notin 1 .. P
    BY <1>1, <1>2, <1>3, <1>4, <1>5
  <2> HIDE DEF before
  <2> QED BY <1>1, <1>2, <1>4, <2>1, <2>2
<1> QED BY <1>1, <1>2, <1>3, <1>4, <1>5

\* Where a run is, its step and its ledger are what their names say.
LEMMA StepOfRun ==
    ASSUME TypeOK, NEW r \in Run
    PROVE  /\ prof[r] \in Profile /\ path(r) \in File
           /\ at[r] \in Nat \ {0}
           /\ Len(flow(prof[r])) \in Nat
           /\ at[r] <= Len(flow(prof[r])) => stepOf(r) \in Step
           /\ pc[r] = "run" => at[r] <= Len(flow(prof[r]))
<1>1. prof[r] \in Profile /\ at[r] \in Nat \ {0}
  BY DEF TypeOK
<1>2. path(r) \in File
  BY <1>1, SkbloomAssumption DEF path
<1>3. pc[r] = "run" => at[r] <= Len(flow(prof[r])) + 0
  BY DEF TypeOK
<1> QED BY <1>1, <1>2, <1>3, FlowIsSteps DEF stepOf

\* Nothing that a cluster shows, and no service that it has, goes away.
Grows ==
    \A c \in Cluster : /\ world[c] \subseteq world'[c]
                       /\ ready[c] \cup partly[c] \subseteq ready'[c] \cup partly'[c]

\* What the invariant says of the clusters alone.
WorldOK ==
    /\ world \in [Cluster -> SUBSET Step]
    /\ ready \in [Cluster -> SUBSET Service] /\ partly \in [Cluster -> SUBSET Service]
    /\ context \in (Cluster \ SwarmClusters) \cup {NoContext}
    /\ PodsOfDeploys

LEMMA WorldIsOK == SkbloomInv => WorldOK
  BY DEF SkbloomInv, TypeOK, WorldOK

LEMMA WorldStays ==
    ASSUME SkbloomInv, UNCHANGED worldVars
    PROVE  Grows /\ WorldOK'
<1>1. WorldOK
  BY WorldIsOK
<1> QED BY <1>1 DEF Grows, WorldOK, PodsOfDeploys, worldVars

\* Then what is deployed stays deployed.
LEMMA DeployedGrows ==
    ASSUME Grows
    PROVE  Deployed \subseteq Deployed'
BY DEF Grows, Deployed

\* A step that gets done, by its effect, its check or an unseen failure, leaves
\* the invariant alone if the step was a service only when some cluster has it.
LEMMA MarkDoneKeeps ==
    ASSUME SkbloomInv, NEW r \in Run, pc[r] # "idle", mark_done(r), Grows, WorldOK',
           at[r] <= Len(flow(prof[r])),
           Attain(r) \/ UNCHANGED attained,
           stepOf(r) \in Service => stepOf(r) \in Deployed'
    PROVE  SkbloomInv'
<1> USE DEF SkbloomInv, mark_done
<1>1. /\ prof[r] \in Profile /\ path(r) \in File /\ stepOf(r) \in Step
      /\ at[r] \in Nat \ {0} /\ Len(flow(prof[r])) \in Nat
  BY StepOfRun
<1>2. TypeOK'
  <2>1. memory' \in [Run -> SUBSET Step] /\ attained' \in [File -> SUBSET Service]
    BY <1>1 DEF TypeOK, Attain
  <2>2. /\ at' \in [Run -> Nat \ {0}]
        /\ pc' \in [Run -> {"idle", "open", "write", "check", "run"}]
    BY <1>1 DEF TypeOK
  <2>3. ASSUME NEW q \in Run
        PROVE  at'[q] <= Len(flow(prof'[q])) + IF pc'[q] = "run" THEN 0 ELSE 1
    <3>1. CASE q = r
      BY <1>1, <3>1 DEF TypeOK
    <3>2. CASE q # r
      BY <3>2 DEF TypeOK
    <3> QED BY <3>1, <3>2
  <2> QED BY <2>1, <2>2, <2>3 DEF TypeOK, WorldOK
<1>3. Deployed \subseteq Deployed'
  BY DeployedGrows
<1>4. LedgerSound'
  BY <1>1, <1>3 DEF LedgerSound, TypeOK, _load
<1>5. Progress'
  <2> SUFFICES ASSUME NEW q \in Run, pc'[q] # "idle", NEW j \in 1 .. at'[q] - 1
               PROVE  flow(prof'[q])[j] \in memory'[q]
    BY DEF Progress
  <2>1. CASE q # r
    BY <2>1 DEF Progress, TypeOK
  <2>2. CASE q = r
    <3>1. memory'[r] = memory[r] \cup {stepOf(r)} /\ at'[r] = at[r] + 1 /\ prof' = prof
      BY DEF TypeOK
    <3>2. CASE j = at[r]
      BY <2>2, <3>1, <3>2 DEF stepOf
    <3>3. CASE j # at[r]
      <4>1. j \in 1 .. at[r] - 1
        BY <1>1, <2>2, <3>1, <3>3
      <4> QED BY <2>2, <3>1, <4>1 DEF Progress
    <3> QED BY <3>2, <3>3
  <2> QED BY <2>1, <2>2
<1> QED BY <1>2, <1>4, <1>5 DEF WorldOK

\* A step that changes no ledger, takes nothing from the world, and moves one
\* run on or ends it.
LEMMA MoveKeeps ==
    ASSUME SkbloomInv, NEW r \in Run, UNCHANGED <<memory, file, attained>>, Grows, WorldOK',
           NEW c, NEW i \in Nat \ {0}, NEW o \in {"none", "complete", "failed"},
           c \in {"idle", "open", "write", "check", "run"},
           pc' = [pc EXCEPT ![r] = c], at' = [at EXCEPT ![r] = i],
           outcome' = [outcome EXCEPT ![r] = o], prof' = prof,
           mishaps' \in 0 .. MaxMishaps,
           i <= Len(flow(prof[r])) + IF c = "run" THEN 0 ELSE 1,
           c # "idle" => /\ pc[r] # "idle"
                         /\ i = at[r] \/ (i = at[r] + 1 /\ stepOf(r) \in memory[r])
    PROVE  SkbloomInv'
<1> USE DEF SkbloomInv
<1>1. TypeOK'
  BY DEF TypeOK, WorldOK
<1>2. LedgerSound'
  <2>1. Deployed \subseteq Deployed'
    BY DeployedGrows
  <2> QED BY <2>1 DEF LedgerSound, _load
<1>3. Progress'
  <2> SUFFICES ASSUME NEW q \in Run, pc'[q] # "idle", NEW j \in 1 .. at'[q] - 1
               PROVE  flow(prof'[q])[j] \in memory'[q]
    BY DEF Progress
  <2>1. CASE q # r
    BY <2>1 DEF Progress, TypeOK
  <2>2. CASE q = r
    <3>1. pc'[r] = c /\ at'[r] = i
      BY DEF TypeOK
    <3>2. CASE j = at[r]
      BY <2>2, <3>1, <3>2, StepOfRun DEF stepOf
    <3>3. CASE j # at[r]
      <4>1. j \in 1 .. at[r] - 1
        BY <2>2, <3>1, <3>3, StepOfRun
      <4> QED BY <2>2, <3>1, <4>1 DEF Progress
    <3> QED BY <3>2, <3>3
  <2> QED BY <2>1, <2>2
<1> QED BY <1>1, <1>2, <1>3 DEF WorldOK

\* A save, torn or whole, or a reset: the file holds nothing but what it may.
LEMMA SaveKeeps ==
    ASSUME SkbloomInv, NEW f \in File,
           NEW S \in {Absent, Torn} \cup SUBSET Step,
           S \notin {Absent, Torn} => S \cap Service \subseteq Deployed,
           file' = [file EXCEPT ![f] = S],
           UNCHANGED <<prof, memory, at, outcome, worldVars, attained>>,
           pc' \in [Run -> {"idle", "open", "write", "check", "run"}],
           \A r \in Run : /\ pc'[r] = "run" <=> pc[r] = "run"
                          /\ pc'[r] = "idle" <=> pc[r] = "idle",
           mishaps' \in 0 .. MaxMishaps
    PROVE  SkbloomInv'
<1> USE DEF SkbloomInv
<1>0. WorldOK' /\ Grows
  BY WorldStays
<1>1. TypeOK'
  BY <1>0 DEF TypeOK, WorldOK
<1>2. LedgerSound'
  BY <1>0, DeployedGrows DEF LedgerSound, _load, TypeOK
<1>3. Progress'
  BY DEF Progress
<1> QED BY <1>0, <1>1, <1>2, <1>3 DEF WorldOK

\* The initial states satisfy the invariant.
LEMMA InitInv == Init => SkbloomInv
<1> SUFFICES ASSUME Init PROVE SkbloomInv
  OBVIOUS
<1> DEFINE p0 == CHOOSE p \in Profile : TRUE
<1>1. p0 \in Profile
  BY SkbloomAssumption
<1>2. Len(flow(p0)) \in Nat
  BY <1>1, FlowIsSteps
<1>3. TypeOK
  <2>1. /\ world \in [Cluster -> SUBSET Step]
        /\ context \in (Cluster \ SwarmClusters) \cup {NoContext}
    BY DEF Init, Step, Fixed
  <2>2. mishaps \in 0 .. MaxMishaps
    BY SkbloomAssumption DEF Init
  <2> HIDE DEF p0
  <2>3. prof = [r \in Run |-> p0]
    BY DEF Init, p0
  <2> QED BY <1>1, <1>2, <2>1, <2>2, <2>3 DEF Init, TypeOK
<1>4. LedgerSound
  BY DEF Init, LedgerSound, _load
<1>5. Progress
  BY DEF Init, Progress
<1>6. PodsOfDeploys
  BY SkbloomAssumption DEF Init, PodsOfDeploys, Fixed
<1> QED BY <1>3, <1>4, <1>5, <1>6 DEF SkbloomInv

\* A run that starts has in memory what its ledger holds.
LEMMA StartInv ==
    ASSUME SkbloomInv, NEW r \in Run, NEW p \in Profile, Start(r, p)
    PROVE  SkbloomInv'
<1> USE DEF SkbloomInv, Start
<1>1. LedgerOf[p.cluster] \in File /\ Len(flow(p)) \in Nat
  BY SkbloomAssumption, FlowIsSteps
<1>2. _load(LedgerOf[p.cluster]) \in SUBSET Step
  BY <1>1 DEF _load, TypeOK
<1>0. WorldOK' /\ Grows
  BY WorldStays
<1>3. TypeOK'
  BY <1>0, <1>1, <1>2 DEF TypeOK, WorldOK
<1>4. LedgerSound'
  BY <1>0, <1>1, <1>2, DeployedGrows DEF LedgerSound, _load, TypeOK
<1>5. Progress'
  BY DEF Progress, TypeOK
<1> QED BY <1>0, <1>3, <1>4, <1>5 DEF WorldOK

\* A run that skips a step it has in memory.
LEMMA SkipInv ==
    ASSUME SkbloomInv, NEW r \in Run, Check(r), stepOf(r) \in memory[r]
    PROVE  SkbloomInv'
<1>t. TypeOK
  BY DEF SkbloomInv
<1>1. /\ pc[r] = "check" /\ at[r] <= Len(flow(prof[r]))
      /\ at' = [at EXCEPT ![r] = at[r] + 1]
      /\ UNCHANGED <<pc, prof, memory, outcome, file, worldVars, mishaps, attained>>
  BY DEF Check
<1>2. pc' = [pc EXCEPT ![r] = "check"] /\ outcome' = [outcome EXCEPT ![r] = outcome[r]]
  BY <1>t, <1>1 DEF TypeOK
<1>3. at[r] + 1 \in Nat \ {0} /\ at[r] + 1 <= Len(flow(prof[r])) + 1
  BY <1>t, <1>1, StepOfRun
<1>4. mishaps' \in 0 .. MaxMishaps /\ outcome[r] \in {"none", "complete", "failed"}
  BY <1>t, <1>1 DEF TypeOK
<1>5. Grows /\ WorldOK'
  BY <1>1, WorldStays
<1> HIDE DEF Grows, WorldOK
<1> QED BY <1>1, <1>2, <1>3, <1>4, <1>5, MoveKeeps

\* A run that sets out to perform its step.
LEMMA GoInv ==
    ASSUME SkbloomInv, NEW r \in Run, Check(r), stepOf(r) \notin memory[r],
           pc' = [pc EXCEPT ![r] = "run"]
    PROVE  SkbloomInv'
<1>t. TypeOK
  BY DEF SkbloomInv
<1>1. pc[r] = "check" /\ at[r] <= Len(flow(prof[r])) /\ pc'[r] = "run"
  BY <1>t DEF Check, TypeOK
<1>2. UNCHANGED <<prof, memory, at, outcome, file, worldVars, mishaps, attained>>
  BY <1>t, <1>1 DEF Check, mark_done, TypeOK
<1>3. at' = [at EXCEPT ![r] = at[r]] /\ outcome' = [outcome EXCEPT ![r] = outcome[r]]
  BY <1>t, <1>2 DEF TypeOK
<1>4. at[r] \in Nat \ {0} /\ Len(flow(prof[r])) \in Nat
  BY <1>t, StepOfRun
<1>5. at[r] <= Len(flow(prof[r])) + IF "run" = "run" THEN 0 ELSE 1
  BY <1>1, <1>4
<1>6. /\ Grows /\ WorldOK' /\ mishaps' \in 0 .. MaxMishaps
      /\ outcome[r] \in {"none", "complete", "failed"}
  BY <1>t, <1>2, WorldStays DEF TypeOK
<1>7. pc[r] # "idle"
  BY <1>1
<1> HIDE DEF Grows, WorldOK
<1> QED BY <1>2, <1>3, <1>4, <1>5, <1>6, <1>7, MoveKeeps

\* A run that ends.
LEMMA EndInv ==
    ASSUME SkbloomInv, NEW r \in Run, NEW o \in {"complete", "failed"}, Grows, WorldOK',
           outcome' = [outcome EXCEPT ![r] = o], pc' = [pc EXCEPT ![r] = "idle"],
           UNCHANGED <<prof, memory, at, file, attained>>,
           mishaps' \in 0 .. MaxMishaps
    PROVE  SkbloomInv'
<1>t. TypeOK
  BY DEF SkbloomInv
<1>1. at' = [at EXCEPT ![r] = at[r]]
  BY <1>t DEF TypeOK
<1>2. at[r] \in Nat \ {0} /\ at[r] <= Len(flow(prof[r])) + 1
  BY <1>t, StepOfRun DEF TypeOK
<1> QED BY <1>1, <1>2, MoveKeeps

\* The effect of a command adds its step to some cluster.
LEMMA EffectAdds ==
    ASSUME SkbloomInv, NEW r \in Run, pc[r] = "run", Applicable(r), Effect(r)
    PROVE  /\ \A c \in Cluster : world[c] \subseteq world'[c]
           /\ world' \in [Cluster -> SUBSET Step]
           /\ context' \in (Cluster \ SwarmClusters) \cup {NoContext}
           /\ stepOf(r) \notin Service =>
                 \A c \in Cluster : world'[c] \cap Service = world[c] \cap Service
           /\ stepOf(r) \in Service =>
                 /\ where(r) \in Cluster /\ (where(r) \in SwarmClusters <=> IsSwarm(prof[r]))
                 /\ world' = [world EXCEPT ![where(r)] = @ \cup {stepOf(r)}]
<1>t. TypeOK
  BY DEF SkbloomInv
<1>1. stepOf(r) \in Step /\ prof[r].cluster \in Cluster
  BY <1>t, StepOfRun, SkbloomAssumption
<1>2. CASE stepOf(r) \in {"bootstrap-cluster", "bootstrap-swarm"}
  <2>1. /\ world' = [world EXCEPT ![prof[r].cluster] = @ \cup {stepOf(r)}]
        /\ context' = IF IsSwarm(prof[r]) THEN context ELSE prof[r].cluster
        /\ stepOf(r) \notin Service
    BY <1>2, SkbloomAssumption DEF Effect, Fixed
  <2> QED BY <1>t, <1>1, <2>1 DEF TypeOK, IsSwarm
<1>3. CASE stepOf(r) \in {"preflight", "final-check"}
  <2>1. UNCHANGED <<world, context>> /\ stepOf(r) \notin Service
    BY <1>3, SkbloomAssumption DEF Effect, Fixed
  <2> QED BY <1>t, <2>1 DEF TypeOK
<1>4. CASE stepOf(r) \notin {"bootstrap-cluster", "bootstrap-swarm", "preflight", "final-check"}
  <2>1. where(r) \in Cluster /\ (where(r) \in SwarmClusters <=> IsSwarm(prof[r]))
    BY <1>t, <1>1, <1>4 DEF Applicable, where, IsSwarm, TypeOK
  <2>2. /\ world' = [world EXCEPT ![where(r)] = @ \cup {stepOf(r)}]
        /\ context' = context
    BY <1>4 DEF Effect
  <2> QED BY <1>t, <1>1, <2>1, <2>2 DEF TypeOK
<1> QED BY <1>2, <1>3, <1>4

\* A command that finishes: if it was a deploy, its cluster has the service.
LEMMA FinishesGrows ==
    ASSUME SkbloomInv, NEW r \in Run, pc[r] = "run", Applicable(r), Finishes(r)
    PROVE  /\ Grows /\ WorldOK'
           /\ stepOf(r) \in Service => stepOf(r) \in Deployed'
<1>w. WorldOK
  BY WorldIsOK
<1>1. Effect(r)
  BY DEF Finishes
<1>2. CASE OnK8s(r)
  <2>1. /\ ready' = [ready EXCEPT ![where(r)] = @ \cup {stepOf(r)}]
        /\ partly' = [partly EXCEPT ![where(r)] = @ \ {stepOf(r)}]
        /\ stepOf(r) \in Service /\ ~IsSwarm(prof[r])
    BY <1>2 DEF Finishes, OnK8s
  <2>2. stepOf(r) \in ready'[where(r)] /\ where(r) \notin SwarmClusters /\ where(r) \in Cluster
    BY <1>1, <1>w, <2>1, EffectAdds DEF WorldOK
  <2>3. Grows /\ WorldOK'
    BY <1>1, <1>w, <2>1, EffectAdds DEF Grows, WorldOK, PodsOfDeploys
  <2> QED BY <2>1, <2>2, <2>3 DEF Deployed
<1>3. CASE ~OnK8s(r)
  <2>1. UNCHANGED <<ready, partly>>
    BY <1>3 DEF Finishes
  <2>2. Grows /\ WorldOK'
    BY <1>1, <1>3, <1>w, <2>1, EffectAdds DEF Grows, WorldOK, PodsOfDeploys, OnK8s
  <2>3. ASSUME stepOf(r) \in Service PROVE stepOf(r) \in Deployed'
    <3>1. /\ where(r) \in Cluster /\ where(r) \in SwarmClusters
          /\ world' = [world EXCEPT ![where(r)] = @ \cup {stepOf(r)}]
      BY <1>1, <1>3, <2>3, EffectAdds DEF OnK8s
    <3>2. stepOf(r) \in ListedWith[stepOf(r)] \cap world'[where(r)]
      BY <1>w, <2>3, <3>1, SkbloomAssumption DEF WorldOK
    <3> QED BY <2>3, <3>1, <3>2 DEF Deployed
  <2> QED BY <2>2, <2>3
<1> QED BY <1>2, <1>3

\* A command that ends early may have had its effect.
LEMMA EndsEarlyGrows ==
    ASSUME SkbloomInv, NEW r \in Run, pc[r] = "run", EndsEarly(r)
    PROVE  Grows /\ WorldOK'
<1>1. CASE UNCHANGED worldVars
  BY <1>1, WorldStays
<1>2. CASE Applicable(r) /\ Finishes(r)
  BY <1>2, FinishesGrows
<1> QED BY <1>1, <1>2 DEF EndsEarly

\* So does one that has only been applied yet.
LEMMA ApplyInv ==
    ASSUME SkbloomInv, NEW r \in Run, Apply(r)
    PROVE  SkbloomInv'
<1>w. WorldOK
  BY WorldIsOK
<1>t. TypeOK
  BY DEF SkbloomInv
<1>1. /\ pc[r] = "run" /\ OnK8s(r) /\ Applicable(r) /\ Effect(r)
      /\ partly' = [partly EXCEPT ![where(r)] = @ \cup {stepOf(r)}]
      /\ UNCHANGED <<pc, prof, memory, at, outcome, file, ready, mishaps, attained>>
  BY DEF Apply, runVars
<1>2. Grows /\ WorldOK'
  BY <1>1, <1>w, EffectAdds DEF Grows, WorldOK, PodsOfDeploys, OnK8s
<1>3. /\ pc' = [pc EXCEPT ![r] = "run"] /\ at' = [at EXCEPT ![r] = at[r]]
      /\ outcome' = [outcome EXCEPT ![r] = outcome[r]]
      /\ mishaps' \in 0 .. MaxMishaps /\ outcome[r] \in {"none", "complete", "failed"}
  BY <1>t, <1>1 DEF TypeOK
<1>4. at[r] \in Nat \ {0} /\ at[r] <= Len(flow(prof[r])) + IF "run" = "run" THEN 0 ELSE 1
  BY <1>t, <1>1, StepOfRun
<1>5. pc[r] # "idle" /\ UNCHANGED <<memory, file, attained>> /\ prof' = prof
  BY <1>1
<1> HIDE DEF Grows, WorldOK
<1> QED BY <1>2, <1>3, <1>4, <1>5, MoveKeeps

\* Every step keeps the invariant.
LEMMA NextInv == SkbloomInv /\ [Next]_vars => SkbloomInv'
<1> SUFFICES ASSUME SkbloomInv, [Next]_vars PROVE SkbloomInv'
  OBVIOUS
<1>t. TypeOK
  BY DEF SkbloomInv
<1>1. CASE UNCHANGED vars
  <2>1. UNCHANGED <<pc, prof, memory, at, outcome, file, worldVars, mishaps, attained>>
    BY <1>1 DEF vars, runVars
  <2>2. WorldOK' /\ Grows
    BY <2>1, WorldStays
  <2>3. TypeOK'
    BY <1>t, <2>1, <2>2 DEF TypeOK, WorldOK
  <2>4. LedgerSound'
    BY <2>1, <2>2, DeployedGrows DEF SkbloomInv, LedgerSound, _load
  <2>5. Progress'
    BY <2>1 DEF SkbloomInv, Progress
  <2> QED BY <2>2, <2>3, <2>4, <2>5 DEF SkbloomInv, WorldOK
<1>2. ASSUME NEW r \in Run, NEW p \in Profile, Start(r, p) PROVE SkbloomInv'
  BY <1>2, StartInv
<1>3. ASSUME NEW r \in Run, SaveOpen(r) PROVE SkbloomInv'
  <2>1. path(r) \in File
    BY <1>t, StepOfRun
  <2> QED BY <1>3, <1>t, <2>1, SaveKeeps DEF SaveOpen, TypeOK
<1>4. ASSUME NEW r \in Run, SaveWrite(r) PROVE SkbloomInv'
  <2>1. path(r) \in File /\ memory[r] \in SUBSET Step
    BY <1>t, StepOfRun DEF TypeOK
  <2>2. memory[r] \cap Service \subseteq Deployed
    BY DEF SkbloomInv, LedgerSound
  <2>3. CASE file' = [file EXCEPT ![path(r)] = memory[r]]
    BY <1>4, <1>t, <2>1, <2>2, <2>3, SaveKeeps DEF SaveWrite, TypeOK
  <2>4. CASE file' = [file EXCEPT ![path(r)] = Torn]
    BY <1>4, <1>t, <2>1, <2>4, SaveKeeps DEF SaveWrite, TypeOK
  <2> QED BY <1>4, <2>3, <2>4 DEF SaveWrite
<1>5. ASSUME NEW f \in File, Reset(f) PROVE SkbloomInv'
  <2>1. mishaps' \in 0 .. MaxMishaps
    BY <1>5, <1>t, SkbloomAssumption DEF Reset, TypeOK
  <2> QED BY <1>5, <1>t, <2>1, SaveKeeps DEF Reset, runVars, TypeOK
<1>6. ASSUME NEW r \in Run, Check(r) PROVE SkbloomInv'
  <2>1. pc[r] # "idle" /\ at[r] <= Len(flow(prof[r]))
    BY <1>6 DEF Check
  <2>2. CASE stepOf(r) \in memory[r]
    BY <1>6, <1>t, <2>1, <2>2, StepOfRun, SkipInv DEF Check
  <2>3. CASE stepOf(r) \notin memory[r] /\ pc' = [pc EXCEPT ![r] = "run"]
    BY <1>6, <1>t, <2>1, <2>3, GoInv
  <2>4. CASE mark_done(r) /\ Attain(r) /\ Satisfied(r) /\ UNCHANGED worldVars
    <3>1. ASSUME stepOf(r) \in Service PROVE stepOf(r) \in Deployed
      <4>1. prof[r].cluster \in Cluster /\ stepOf(r) \notin Fixed
        BY <1>t, <3>1, StepOfRun, SkbloomAssumption
      <4>2. CASE IsSwarm(prof[r])
        <5>1. ListedWith[stepOf(r)] \cap world[prof[r].cluster] # {}
          BY <2>4, <3>1, <4>1, <4>2 DEF Satisfied, Fixed
        <5> QED BY <3>1, <4>1, <4>2, <5>1 DEF Deployed, IsSwarm
      <4>3. CASE ~IsSwarm(prof[r])
        <5>1. where(r) # NoContext /\ stepOf(r) \in world[where(r)]
          BY <2>4, <3>1, <4>1, <4>3 DEF Satisfied, Fixed
        <5>2. where(r) \in Cluster \ SwarmClusters
          BY <1>t, <4>3, <5>1 DEF where, TypeOK
        <5>3. stepOf(r) \in ready[where(r)] \cup partly[where(r)]
          BY <3>1, <5>1, <5>2 DEF SkbloomInv, PodsOfDeploys
        <5> QED BY <3>1, <5>2, <5>3 DEF Deployed
      <4> QED BY <4>2, <4>3
    <3>2. Grows /\ WorldOK'
      BY <2>4, WorldStays
    <3>3. stepOf(r) \in Service => stepOf(r) \in Deployed'
      BY <3>1, <3>2, DeployedGrows
    <3> HIDE DEF Grows, WorldOK
    <3> QED BY <2>1, <2>4, <3>2, <3>3, MarkDoneKeeps
  <2> QED BY <1>6, <2>2, <2>3, <2>4 DEF Check
<1>7. ASSUME NEW r \in Run, RunOk(r) PROVE SkbloomInv'
  <2>1. pc[r] # "idle" /\ at[r] <= Len(flow(prof[r])) /\ stepOf(r) \in Step
    BY <1>7, <1>t, StepOfRun DEF RunOk
  <2>2. Grows /\ WorldOK' /\ (stepOf(r) \in Service => stepOf(r) \in Deployed')
    BY <1>7, FinishesGrows DEF RunOk
  <2> QED BY <1>7, <2>1, <2>2, MarkDoneKeeps DEF RunOk
<1>8. ASSUME NEW r \in Run, RunSilentlyFails(r) PROVE SkbloomInv'
  <2>1. pc[r] # "idle" /\ at[r] <= Len(flow(prof[r]))
    BY <1>8, <1>t, StepOfRun DEF RunSilentlyFails
  <2>2. mark_done(r) /\ UNCHANGED <<worldVars, attained>> /\ stepOf(r) \notin Service
    BY <1>8 DEF RunSilentlyFails, Loud
  <2>3. Grows /\ WorldOK'
    BY <2>2, WorldStays
  <2> HIDE DEF Grows, WorldOK
  <2> QED BY <2>1, <2>2, <2>3, MarkDoneKeeps
<1>9. ASSUME NEW r \in Run, RunFails(r) PROVE SkbloomInv'
  <2>1. Grows /\ WorldOK'
    BY <1>9, WorldStays, EndsEarlyGrows DEF RunFails
  <2>2. mishaps' \in 0 .. MaxMishaps
    BY <1>9, <1>t DEF RunFails, TypeOK
  <2> QED BY <1>9, <2>1, <2>2, EndInv DEF RunFails, Leave
<1>10. ASSUME NEW r \in Run, Complete(r) PROVE SkbloomInv'
  <2>1. Grows /\ WorldOK'
    BY <1>10, WorldStays DEF Complete
  <2> QED BY <1>10, <1>t, <2>1, EndInv DEF Complete, Leave, TypeOK
<1>11. ASSUME NEW r \in Run, Crash(r) PROVE SkbloomInv'
  <2>1. mishaps' \in 0 .. MaxMishaps
    BY <1>11, <1>t, SkbloomAssumption DEF Crash, TypeOK
  <2>2. Grows /\ WorldOK'
    BY <1>11, WorldStays, EndsEarlyGrows DEF Crash
  <2> QED BY <1>11, <2>1, <2>2, EndInv DEF Crash, Leave
<1>12. ASSUME NEW r \in Run, Apply(r) PROVE SkbloomInv'
  BY <1>12, ApplyInv
<1> QED BY <1>1, <1>2, <1>3, <1>4, <1>5, <1>6, <1>7, <1>8, <1>9, <1>10, <1>11, <1>12
        DEF Next, Proceed

\* A deploy step is in a ledger, or in a run's memory of one, only if some
\* cluster has the service: on k8s rolled out, or with some pods up of a deploy
\* that was cut short or was under way when it was checked (steps.py:88-103,
\* flow.py:93-95).
THEOREM LedgersAreSound == Spec => []LedgerSound
<1>1. Init => SkbloomInv
  BY InitInv
<1>2. SkbloomInv /\ [Next]_vars => SkbloomInv'
  BY NextInv
<1>3. SkbloomInv => LedgerSound
  BY DEF SkbloomInv
<1> QED BY <1>1, <1>2, <1>3, PTL DEF Spec

\* The types are right, the ledgers sound, a run has every step it has passed in
\* memory, and a k8s cluster shows what rolled out or is half way there.
THEOREM SkbloomInvariant == Spec => []SkbloomInv
<1>1. Init => SkbloomInv
  BY InitInv
<1>2. SkbloomInv /\ [Next]_vars => SkbloomInv'
  BY NextInv
<1> QED BY <1>1, <1>2, PTL DEF Spec

\* With one cluster, and no service whose name is part of another's, a run
\* that reaches its end has every service in its cluster, rolled out or with some
\* pods up of a deploy that was cut short or was under way when it was checked.
THEOREM OneClusterComplete ==
    ASSUME NEW c \in Cluster, Cluster = {c},
           \A s \in Service : ListedWith[s] = {s}
    PROVE  Spec => []CompleteMeansDeployed
<1>1. Init => SkbloomInv
  BY InitInv
<1>2. SkbloomInv /\ [Next]_vars => SkbloomInv'
  BY NextInv
<1>3. SkbloomInv => CompleteMeansDeployed
  <2> SUFFICES ASSUME SkbloomInv, NEW r \in Run, pc[r] = "check",
                      at[r] > Len(flow(prof[r])),
                      NEW j \in 1 .. Len(prof[r].services)
               PROVE  /\ prof[r].services[j] \in world[prof[r].cluster]
                      /\ prof[r].cluster \notin SwarmClusters =>
                            prof[r].services[j] \in ready[prof[r].cluster] \cup partly[prof[r].cluster]
    BY DEF CompleteMeansDeployed
  <2>1. prof[r] \in Profile /\ at[r] \in Nat \ {0}
    BY DEF SkbloomInv, TypeOK
  <2>2. PICK i \in 1 .. Len(flow(prof[r])) : flow(prof[r])[i] = prof[r].services[j]
    BY <2>1, FlowHasServices
  <2>3. prof[r].services[j] \in memory[r]
    BY <2>1, <2>2, FlowIsSteps DEF SkbloomInv, Progress
  <2>4. prof[r].services[j] \in Service /\ prof[r].cluster = c
    BY <2>1, SkbloomAssumption
  <2>5. prof[r].services[j] \in Deployed
    BY <2>3, <2>4 DEF SkbloomInv, LedgerSound
  <2> QED BY <2>4, <2>5 DEF Deployed, SkbloomInv, PodsOfDeploys
<1> QED BY <1>1, <1>2, <1>3, PTL DEF Spec

-----------------------------------------------------------------------------
(* The refinement, where all runs install one profile.                      *)

\* One profile, which names no service twice.
OneFlow ==
    /\ Profile = {TheProfile}
    /\ \A i, j \in 1 .. Len(Deploys) : Deploys[i] = Deploys[j] => i = j

\* The number of deploys.
N == Len(Deploys)
isBeginning(S) == \E k \in 0 .. N : S = Beginnings[k]

\* What a ledger, or a run's memory of one, names of the services.
named(S) == S \cap Service

\* Whatever is saved over what, and whoever dies: the services that the ledger
\* and every run's memory name are a beginning of the profile's, and were attained.
InOrder ==
    /\ isBeginning(attained[TheLedger])
    /\ /\ isBeginning(named(_load(TheLedger)))
       /\ named(_load(TheLedger)) \subseteq attained[TheLedger]
    /\ \A r \in Run : /\ isBeginning(named(memory[r]))
                      /\ named(memory[r]) \subseteq attained[TheLedger]

LEMMA OneFlowFacts ==
    ASSUME OneFlow
    PROVE  /\ TheProfile \in Profile /\ N \in Nat /\ TheLedger \in File
           /\ \A i \in 1 .. N : Deploys[i] \in Service
<1>1. TheProfile \in Profile
  BY DEF OneFlow
<1>2. TheProfile.cluster \in Cluster /\ TheProfile.services \in Seq(Service)
  BY <1>1, SkbloomAssumption
<1> QED BY <1>1, <1>2, SkbloomAssumption DEF Deploys, TheLedger, N

\* A step is in a beginning exactly when its index is.
LEMMA InBeginning ==
    ASSUME OneFlow, NEW k \in 0 .. N, NEW i \in 1 .. N
    PROVE  Deploys[i] \in Beginnings[k] <=> i <= k
<1>1. Beginnings[k] = {Deploys[j] : j \in 1 .. k}
  BY DEF Beginnings, N
<1> QED BY <1>1, OneFlowFacts DEF OneFlow, N

LEMMA BeginningsGrow ==
    ASSUME OneFlow, NEW j \in 0 .. N, NEW k \in 0 .. N
    PROVE  Beginnings[j] \subseteq Beginnings[k] <=> j <= k
<1>1. ASSUME Beginnings[j] \subseteq Beginnings[k], j > k PROVE FALSE
  <2>1. Deploys[j] \in Beginnings[j] /\ Deploys[j] \notin Beginnings[k]
    BY <1>1, InBeginning, OneFlowFacts
  <2> QED BY <2>1, <1>1
<1>2. /\ Beginnings[j] = {Deploys[i] : i \in 1 .. j}
      /\ Beginnings[k] = {Deploys[i] : i \in 1 .. k}
  BY DEF Beginnings, N
<1>3. j <= k => Beginnings[j] \subseteq Beginnings[k]
  BY <1>2, OneFlowFacts
<1> QED BY <1>1, <1>3, OneFlowFacts

LEMMA NextBeginning ==
    ASSUME OneFlow, NEW k \in 0 .. N - 1
    PROVE  Beginnings[k] \cup {Deploys[k + 1]} = Beginnings[k + 1]
<1>1. k \in 0 .. N /\ k + 1 \in 0 .. N
  BY OneFlowFacts
<1>2. /\ Beginnings[k] = {Deploys[i] : i \in 1 .. k}
      /\ Beginnings[k + 1] = {Deploys[i] : i \in 1 .. k + 1}
  BY <1>1 DEF Beginnings, N
<1> QED BY <1>2, OneFlowFacts

LEMMA NoBeginning ==
    ASSUME OneFlow
    PROVE  Beginnings[0] = {} /\ isBeginning({})
<1>1. Beginnings[0] = {}
  BY OneFlowFacts DEF Beginnings, N
<1> QED BY <1>1, OneFlowFacts DEF isBeginning

\* beginning is the inverse of Beginnings.
LEMMA IndexOfBeginning ==
    ASSUME OneFlow, NEW S, isBeginning(S)
    PROVE  beginning(S) \in 0 .. N /\ S = Beginnings[beginning(S)]
<1>1. DOMAIN Beginnings = 0 .. N
  BY DEF Beginnings, N
<1> QED BY <1>1 DEF isBeginning, beginning

LEMMA BeginningIndex ==
    ASSUME OneFlow, NEW k \in 0 .. N
    PROVE  beginning(Beginnings[k]) = k
<1>1. isBeginning(Beginnings[k])
  BY DEF isBeginning
<1>2. beginning(Beginnings[k]) \in 0 .. N /\ Beginnings[k] = Beginnings[beginning(Beginnings[k])]
  BY <1>1, IndexOfBeginning
<1> QED BY <1>2, BeginningsGrow, OneFlowFacts

LEMMA BeginningOrder ==
    ASSUME OneFlow, NEW S, NEW T, isBeginning(S), isBeginning(T), S \subseteq T
    PROVE  beginning(S) <= beginning(T)
  BY IndexOfBeginning, BeginningsGrow

\* A run that gets a service done holds the services before it, and perhaps more.
LEMMA HeldSoFar ==
    ASSUME OneFlow, SkbloomInv, InOrder, NEW r \in Run, pc[r] # "idle",
           at[r] <= Len(flow(prof[r]))
    PROVE  /\ path(r) = TheLedger
           /\ stepOf(r) \in Service =>
                 \E k \in 0 .. N - 1 :
                    /\ stepOf(r) = Deploys[k + 1]
                    /\ stepOf(r) \in memory[r] \/ named(memory[r]) = Beginnings[k]
<1>1. prof[r] = TheProfile /\ at[r] \in Nat \ {0} /\ path(r) = TheLedger
  BY DEF OneFlow, SkbloomInv, TypeOK, path, TheLedger
<1> DEFINE P == Len(prologue(TheProfile))
           k == at[r] - P - 1
<1>2. SUFFICES ASSUME stepOf(r) \in Service
               PROVE  /\ k \in 0 .. N - 1 /\ stepOf(r) = Deploys[k + 1]
                      /\ stepOf(r) \in memory[r] \/ named(memory[r]) = Beginnings[k]
  BY <1>1
<1>3. at[r] \in 1 .. Len(flow(TheProfile)) /\ stepOf(r) = flow(TheProfile)[at[r]]
  BY <1>1, OneFlowFacts, FlowIsSteps DEF stepOf
<1>4. P \in Nat /\ at[r] - P \in 1 .. N
  BY <1>2, <1>3, OneFlowFacts, FlowHasServices DEF N, Deploys
<1>5. /\ k \in 0 .. N - 1 /\ k + 1 \in 1 .. N /\ k \in 0 .. N
      /\ at[r] = P + (k + 1) /\ stepOf(r) = Deploys[k + 1]
  <2>1. /\ k \in 0 .. N - 1 /\ k + 1 \in 1 .. N /\ k \in 0 .. N
        /\ at[r] = P + (k + 1)
    BY <1>1, <1>4, OneFlowFacts
  <2>2. flow(TheProfile)[P + (k + 1)] = TheProfile.services[k + 1]
    BY <2>1, OneFlowFacts, FlowHasServices DEF N, Deploys
  <2> QED BY <1>3, <2>1, <2>2 DEF Deploys
<1>6. PICK m \in 0 .. N : named(memory[r]) = Beginnings[m]
  BY DEF InOrder, isBeginning
<1>7. ASSUME stepOf(r) \notin memory[r] PROVE m = k
  <2>1. m < k + 1
    <3>1. Deploys[k + 1] \notin Beginnings[m]
      BY <1>2, <1>5, <1>6, <1>7 DEF named
    <3>2. k + 1 \in 1 .. N /\ k \in 0 .. N - 1 /\ m \in 0 .. N /\ N \in Nat
      BY <1>5, <1>6, OneFlowFacts
    <3> HIDE DEF k
    <3>3. ~(k + 1 <= m)
      BY <3>1, <3>2, InBeginning
    <3> QED BY <3>2, <3>3
  <2>2. ASSUME k > 0 PROVE k <= m
    <3>1. k \in 1 .. N /\ P + k \in 1 .. at[r] - 1
      <4>1. k \in Nat /\ k > 0 /\ k <= N - 1 /\ N \in Nat /\ P \in Nat /\ at[r] \in Nat
        BY <1>1, <1>4, <1>5, <2>2, OneFlowFacts
      <4>2. at[r] - 1 = P + k
        BY <1>1, <1>4
      <4> HIDE DEF k, P
      <4> QED BY <4>1, <4>2
    <3>2. flow(TheProfile)[P + k] = Deploys[k] /\ Deploys[k] \in Service
      <4>1. \A i \in 1 .. N : flow(TheProfile)[P + i] = Deploys[i] /\ Deploys[i] \in Service
        BY OneFlowFacts, FlowHasServices DEF N, Deploys
      <4> HIDE DEF k
      <4> QED BY <3>1, <4>1
    <3>3. Deploys[k] \in named(memory[r])
      BY <1>1, <3>1, <3>2 DEF SkbloomInv, Progress, named
    <3> QED BY <1>6, <3>1, <3>3, InBeginning
  <2> QED BY <1>5, <1>6, <2>1, <2>2, OneFlowFacts
<1> QED BY <1>5, <1>6, <1>7

\* Getting a step done that follows a beginning of what was attained: what was
\* attained is still a beginning, which has grown by one step or not at all.
LEMMA AttainedGrows ==
    ASSUME OneFlow, NEW A, isBeginning(A), NEW k \in 0 .. N - 1, Beginnings[k] \subseteq A
    PROVE  \/ A \cup {Deploys[k + 1]} = A
           \/ /\ A = Beginnings[k]
              /\ A \cup {Deploys[k + 1]} = Beginnings[k + 1]
<1>1. PICK p \in 0 .. N : A = Beginnings[p]
  BY DEF isBeginning
<1>2. k \in 0 .. N /\ k + 1 \in 1 .. N
  BY OneFlowFacts
<1>3. k <= p
  BY <1>1, <1>2, BeginningsGrow
<1>4. CASE k = p
  BY <1>1, <1>4, NextBeginning
<1>5. CASE k < p
  <2>1. Deploys[k + 1] \in A
    BY <1>1, <1>2, <1>5, InBeginning, OneFlowFacts
  <2> QED BY <2>1
<1> QED BY <1>3, <1>4, <1>5, <1>2, OneFlowFacts

\* Getting a step done: by its effect or its check, or by a failure that nobody
\* sees, which no service has.
GetsThrough(r) ==
    /\ pc[r] # "idle" /\ at[r] <= Len(flow(prof[r])) /\ mark_done(r)
    /\ Attain(r) \/ (stepOf(r) \notin Service /\ UNCHANGED attained)

\* What it does to memory and to what was attained.
LEMMA MarkedInOrder ==
    ASSUME OneFlow, SkbloomInv, InOrder, NEW r \in Run, GetsThrough(r)
    PROVE  /\ \/ attained'[TheLedger] = attained[TheLedger]
              \/ \E k \in 0 .. N - 1 : /\ attained[TheLedger] = Beginnings[k]
                                       /\ attained'[TheLedger] = Beginnings[k + 1]
           /\ InOrder'
<1> DEFINE A == attained[TheLedger]
<1>1. path(r) = TheLedger
  BY HeldSoFar DEF GetsThrough
<1>2. /\ memory' = [memory EXCEPT ![r] = @ \cup {stepOf(r)}]
      /\ file' = file
  BY DEF mark_done, GetsThrough
<1>3. /\ named(memory'[r]) = named(memory[r]) \cup ({stepOf(r)} \cap Service)
      /\ A' = A \cup ({stepOf(r)} \cap Service)
      /\ \A q \in Run \ {r} : named(memory'[q]) = named(memory[q])
  BY <1>1, <1>2, OneFlowFacts DEF GetsThrough, Attain, SkbloomInv, TypeOK, named
<1>4. /\ isBeginning(A) /\ isBeginning(named(memory[r])) /\ named(memory[r]) \subseteq A
      /\ \A q \in Run : isBeginning(named(memory[q])) /\ named(memory[q]) \subseteq A
  BY DEF InOrder
<1>5. /\ isBeginning(named(memory'[r])) /\ isBeginning(A')
      /\ \/ A' = A
         \/ \E k \in 0 .. N - 1 : A = Beginnings[k] /\ A' = Beginnings[k + 1]
  <2>1. CASE stepOf(r) \notin Service
    <3>1. named(memory'[r]) = named(memory[r]) /\ A' = A
      BY <1>3, <2>1
    <3> QED BY <1>4, <3>1
  <2>2. CASE stepOf(r) \in Service /\ stepOf(r) \in memory[r]
    <3>1. named(memory'[r]) = named(memory[r]) /\ A' = A
      BY <1>3, <1>4, <2>2 DEF named
    <3> QED BY <1>4, <3>1
  <2>3. CASE stepOf(r) \in Service /\ stepOf(r) \notin memory[r]
    <3>1. PICK k \in 0 .. N - 1 : /\ stepOf(r) = Deploys[k + 1]
                                  /\ named(memory[r]) = Beginnings[k]
      BY <2>3, HeldSoFar DEF GetsThrough
    <3>2. k + 1 \in 0 .. N
      BY OneFlowFacts
    <3>3. named(memory'[r]) = Beginnings[k + 1]
      BY <1>3, <2>3, <3>1, NextBeginning
    <3>4. \/ A \cup {Deploys[k + 1]} = A
          \/ A = Beginnings[k] /\ A \cup {Deploys[k + 1]} = Beginnings[k + 1]
      BY <1>4, <3>1, AttainedGrows
    <3>5. A' = A \cup {Deploys[k + 1]}
      BY <1>3, <2>3, <3>1
    <3> QED BY <1>4, <3>2, <3>3, <3>4, <3>5 DEF isBeginning
  <2> QED BY <2>1, <2>2, <2>3
<1>6. _load(TheLedger)' = _load(TheLedger)
  BY <1>2 DEF _load
<1>7. InOrder'
  <2>1. A \subseteq A' /\ named(memory'[r]) \subseteq A'
    BY <1>3, <1>4
  <2>2. \A q \in Run : isBeginning(named(memory'[q])) /\ named(memory'[q]) \subseteq A'
    BY <1>3, <1>4, <1>5, <2>1
  <2>3. isBeginning(named(_load(TheLedger)')) /\ named(_load(TheLedger)') \subseteq A'
    BY <1>6, <2>1 DEF InOrder
  <2> QED BY <1>5, <2>2, <2>3 DEF InOrder, isBeginning, Beginnings, N, named
<1> QED BY <1>5, <1>7

\* A step that attains nothing, saves what some run has in memory or nothing,
\* and gives a run what the ledger holds.
LEMMA SavedInOrder ==
    ASSUME OneFlow, InOrder, attained' = attained,
           _load(TheLedger)' \in {_load(TheLedger), {}} \cup {memory[q] : q \in Run},
           \A q \in Run : memory'[q] \in {memory[q], _load(TheLedger)}
    PROVE  InOrder'
<1> DEFINE good(S) == isBeginning(named(S)) /\ named(S) \subseteq attained[TheLedger]
<1>0. good({})
  BY NoBeginning DEF named
<1>1. good(_load(TheLedger)) /\ \A q \in Run : good(memory[q])
  BY DEF InOrder
<1>2. good(_load(TheLedger)') /\ \A q \in Run : good(memory'[q])
  BY <1>0, <1>1
<1>3. isBeginning(attained[TheLedger])
  BY DEF InOrder
<1> QED BY <1>2, <1>3 DEF InOrder, isBeginning, Beginnings, N, named

\* What a ledger holds once S has been written to file f.
LEMMA Written ==
    ASSUME OneFlow, TypeOK, NEW f \in File, NEW S, file' = [file EXCEPT ![f] = S]
    PROVE  _load(TheLedger)' \in {_load(TheLedger), {}, S}
  BY OneFlowFacts DEF TypeOK, _load

LEMMA InitInOrder == OneFlow /\ Init => InOrder
<1> SUFFICES ASSUME OneFlow, Init PROVE InOrder
  OBVIOUS
<1>1. attained[TheLedger] = {} /\ _load(TheLedger) = {} /\ \A r \in Run : memory[r] = {}
  BY OneFlowFacts DEF Init, _load
<1>2. \A r \in Run : named(memory[r]) = {}
  BY <1>1 DEF named
<1>3. named(_load(TheLedger)) = {}
  BY <1>1 DEF named
<1> QED BY <1>1, <1>2, <1>3, NoBeginning DEF InOrder

\* What a step is to the ledger, to memory and to what was attained.
LEMMA Kinds ==
    ASSUME SkbloomInv, [Next]_vars
    PROVE  \/ UNCHANGED vars
           \/ \E r \in Run :
                 \/ \E p \in Profile : Start(r, p)
                 \/ SaveOpen(r) \/ SaveWrite(r) \/ Complete(r)
                 \/ UNCHANGED <<file, memory, attained, outcome>>
                 \/ GetsThrough(r)
                 \/ /\ UNCHANGED <<file, memory, attained>>
                    /\ outcome' = [outcome EXCEPT ![r] = "failed"]
           \/ \E f \in File : Reset(f)
<1>t. TypeOK
  BY DEF SkbloomInv
<1>1. ASSUME NEW r \in Run, Check(r)
      PROVE  \/ UNCHANGED <<file, memory, attained, outcome>>
             \/ GetsThrough(r)
  BY <1>1 DEF Check, GetsThrough
<1>2. ASSUME NEW r \in Run, RunOk(r) \/ RunSilentlyFails(r)
      PROVE  GetsThrough(r)
  BY <1>2, <1>t, StepOfRun DEF RunOk, RunSilentlyFails, GetsThrough, Loud
<1>3. ASSUME NEW r \in Run, RunFails(r) \/ Crash(r)
      PROVE  /\ UNCHANGED <<file, memory, attained>>
             /\ outcome' = [outcome EXCEPT ![r] = "failed"]
  BY <1>3 DEF RunFails, Crash, Leave
<1>4. ASSUME NEW r \in Run, Apply(r) PROVE UNCHANGED <<file, memory, attained, outcome>>
  BY <1>4 DEF Apply, runVars
<1> QED BY <1>1, <1>2, <1>3, <1>4 DEF Next, Proceed

LEMMA NextInOrder ==
    OneFlow /\ SkbloomInv /\ InOrder /\ [Next]_vars => InOrder'
<1> SUFFICES ASSUME OneFlow, SkbloomInv, InOrder, [Next]_vars PROVE InOrder'
  OBVIOUS
<1>t. TypeOK
  BY DEF SkbloomInv
<1>1. ASSUME UNCHANGED <<file, memory, attained>> PROVE InOrder'
  <2>1. _load(TheLedger)' = _load(TheLedger)
    BY <1>1 DEF _load
  <2> QED BY <1>1, <2>1, SavedInOrder
<1>2. ASSUME NEW f \in File, NEW S, file' = [file EXCEPT ![f] = S],
             S = Torn \/ S = {} \/ \E q \in Run : S = memory[q],
             UNCHANGED <<memory, attained>>
      PROVE  InOrder'
  <2>1. _load(TheLedger)' \in {_load(TheLedger), {}, S}
    BY <1>2, <1>t, Written
  <2>2. S = Torn => _load(TheLedger)' \in {_load(TheLedger), {}}
    BY <1>2, <1>t, OneFlowFacts DEF TypeOK, _load
  <2> QED BY <1>2, <2>1, <2>2, SavedInOrder
<1>3. ASSUME NEW r \in Run, NEW p \in Profile, Start(r, p) PROVE InOrder'
  <2>1. LedgerOf[p.cluster] = TheLedger
    BY DEF OneFlow, TheLedger
  <2>2. \A q \in Run : memory'[q] \in {memory[q], _load(TheLedger)}
    BY <1>3, <1>t, <2>1 DEF Start, TypeOK
  <2>3. UNCHANGED <<file, attained>> /\ _load(TheLedger)' = _load(TheLedger)
    BY <1>3 DEF Start, _load
  <2> QED BY <2>2, <2>3, SavedInOrder
<1>4. ASSUME NEW r \in Run, SaveOpen(r) \/ SaveWrite(r) PROVE InOrder'
  <2>1. path(r) \in File
    BY <1>t, StepOfRun
  <2> QED BY <1>4, <2>1, <1>2 DEF SaveOpen, SaveWrite
<1>5. ASSUME NEW f \in File, Reset(f) PROVE InOrder'
  BY <1>5, <1>2 DEF Reset, runVars
<1>6. ASSUME NEW r \in Run, Complete(r) PROVE InOrder'
  BY <1>6, <1>1 DEF Complete, Leave
<1>7. ASSUME NEW r \in Run, GetsThrough(r) PROVE InOrder'
  BY <1>7, MarkedInOrder
<1>8. CASE UNCHANGED vars
  BY <1>8, <1>1 DEF vars, runVars
<1> QED BY <1>1, <1>3, <1>4, <1>5, <1>6, <1>7, <1>8, Kinds

LEMMA InitRefines == OneFlow /\ Init => Resumable!Init
<1> SUFFICES ASSUME OneFlow, Init PROVE Resumable!Init
  OBVIOUS
<1>1. attained[TheLedger] = {} /\ _load(TheLedger) = {} /\ \A r \in Run : outcome[r] # "complete"
  BY OneFlowFacts DEF Init, _load
<1>2. beginning({}) = 0
  BY NoBeginning, BeginningIndex, OneFlowFacts
<1>3. {} \cap Service = {}
  OBVIOUS
<1> QED BY <1>1, <1>2, <1>3 DEF Resumable!Init

\* Getting a service done is Perform or nothing, a start or an end that failed is
\* Begin or nothing, a save or a reset is Save, and the end of the loop Report.
LEMMA StepRefines ==
    OneFlow /\ SkbloomInv /\ InOrder /\ InOrder' /\ [Next]_vars
       => [Resumable!Next]_Resumable!vars
<1> SUFFICES ASSUME OneFlow, SkbloomInv, InOrder, InOrder', [Next]_vars
             PROVE  [Resumable!Next]_Resumable!vars
  OBVIOUS
<1> DEFINE done == attained[TheLedger]
           ledger == named(_load(TheLedger))
           complete == \E r \in Run : outcome[r] = "complete"
<1>t. TypeOK
  BY DEF SkbloomInv
<1>p. /\ beginning(done)' = beginning(done') /\ beginning(ledger)' = beginning(ledger')
      /\ Len(Deploys) = N /\ ledger = _load(TheLedger) \cap Service
      /\ ledger' = (_load(TheLedger) \cap Service)'
  BY DEF beginning, Beginnings, N, named
<1>1. ASSUME done' = done, ledger' = ledger, complete' <=> complete
      PROVE  [Resumable!Next]_Resumable!vars
  BY <1>1, <1>p DEF Resumable!vars
<1>2. ASSUME done' = done, ledger' = ledger, ~complete'
      PROVE  [Resumable!Next]_Resumable!vars
  BY <1>2, <1>p DEF Resumable!Begin, Resumable!Next
<1>3. ASSUME done' = done, UNCHANGED outcome
      PROVE  [Resumable!Next]_Resumable!vars
  <2>1. isBeginning(ledger') /\ isBeginning(done) /\ ledger' \subseteq done
    BY <1>3 DEF InOrder, isBeginning, Beginnings, N, named
  <2>2. beginning(ledger') \in 0 .. beginning(done)
    BY <2>1, IndexOfBeginning, BeginningOrder, OneFlowFacts
  <2> QED BY <2>2, <1>3, <1>p DEF Resumable!Save, Resumable!Next
<1>4. ASSUME NEW r \in Run, NEW o \in {"none", "failed"}, UNCHANGED <<file, attained>>,
             outcome' = [outcome EXCEPT ![r] = o]
      PROVE  [Resumable!Next]_Resumable!vars
  <2>1. ledger' = ledger /\ done' = done
    BY <1>4 DEF _load, named
  <2>2. complete' => complete
    BY <1>4, <1>t DEF TypeOK
  <2> QED BY <2>1, <2>2, <1>1, <1>2
<1>5. CASE UNCHANGED vars
  <2>1. ledger' = ledger /\ done' = done /\ (complete' <=> complete)
    BY <1>5 DEF vars, runVars, _load, named
  <2> QED BY <2>1, <1>1
<1>6. ASSUME NEW r \in Run, NEW p \in Profile, Start(r, p)
      PROVE  [Resumable!Next]_Resumable!vars
  BY <1>6, <1>4 DEF Start
<1>7. ASSUME NEW r \in Run, SaveOpen(r) \/ SaveWrite(r)
      PROVE  [Resumable!Next]_Resumable!vars
  BY <1>7, <1>3 DEF SaveOpen, SaveWrite
<1>8. ASSUME NEW f \in File, Reset(f) PROVE [Resumable!Next]_Resumable!vars
  BY <1>8, <1>3 DEF Reset, runVars
<1>9. ASSUME NEW r \in Run, Complete(r) PROVE [Resumable!Next]_Resumable!vars
  <2>1. /\ outcome'[r] = "complete" /\ UNCHANGED <<file, attained>>
        /\ pc[r] # "idle" /\ at[r] > Len(flow(prof[r]))
    BY <1>9, <1>t DEF Complete, Leave, TypeOK
  <2>2. /\ prof[r] = TheProfile /\ at[r] \in Nat \ {0}
        /\ at[r] - 1 >= Len(flow(TheProfile)) /\ Len(flow(TheProfile)) \in Nat
    BY <2>1, <1>t, OneFlowFacts, FlowIsSteps DEF OneFlow, TypeOK
  <2>3. \A i \in 1 .. N : Deploys[i] \in done
    <3> SUFFICES ASSUME NEW i \in 1 .. N PROVE Deploys[i] \in done
      OBVIOUS
    <3> DEFINE l == Len(prologue(TheProfile)) + i
    <3>1. l \in 1 .. Len(flow(TheProfile)) /\ flow(TheProfile)[l] = Deploys[i]
      BY OneFlowFacts, FlowHasServices DEF N, Deploys
    <3>2. l \in 1 .. at[r] - 1
      BY <2>2, <3>1
    <3>3. Deploys[i] \in named(memory[r])
      BY <2>1, <2>2, <3>1, <3>2, OneFlowFacts DEF SkbloomInv, Progress, named
    <3> QED BY <3>3 DEF InOrder
  <2>4. beginning(done) = N
    <3>1. beginning(done) \in 0 .. N /\ done = Beginnings[beginning(done)]
      BY IndexOfBeginning DEF InOrder
    <3>2. N > 0 => N <= beginning(done)
      BY <2>3, <3>1, InBeginning, OneFlowFacts
    <3> QED BY <3>1, <3>2, OneFlowFacts
  <2>5. ledger' = ledger /\ done' = done /\ complete'
    BY <2>1 DEF _load, named
  <2> QED BY <2>4, <2>5, <1>p DEF Resumable!Report, Resumable!Next
<1>10. ASSUME NEW r \in Run, GetsThrough(r)
       PROVE  [Resumable!Next]_Resumable!vars
  <2>1. ledger' = ledger /\ UNCHANGED outcome
    BY <1>10 DEF GetsThrough, mark_done, _load, named
  <2>2. CASE done' = done
    BY <2>1, <2>2, <1>1
  <2>3. ASSUME NEW k \in 0 .. N - 1, done = Beginnings[k], done' = Beginnings[k + 1]
        PROVE  [Resumable!Next]_Resumable!vars
    <3>1. k \in 0 .. N /\ k + 1 \in 0 .. N /\ k < N
      BY OneFlowFacts
    <3>2. beginning(done) = k /\ beginning(done') = k + 1
      BY <2>3, <3>1, BeginningIndex
    <3> QED BY <2>1, <3>1, <3>2, <1>p DEF Resumable!Perform, Resumable!Next
  <2> QED BY <1>10, <2>2, <2>3, MarkedInOrder
<1>11. ASSUME NEW r \in Run, UNCHANGED <<file, memory, attained>>,
              UNCHANGED outcome \/ outcome' = [outcome EXCEPT ![r] = "failed"]
       PROVE  [Resumable!Next]_Resumable!vars
  BY <1>11, <1>3, <1>4
<1> QED BY <1>5, <1>6, <1>7, <1>8, <1>9, <1>10, <1>11, Kinds

\* With one profile, the installer implements the resumable installer: its
\* services are deployed in order, the ledger never names one that was neither
\* deployed nor found running for it, whatever is lost or saved over, and the end
\* is reported only of all of them (steps.py:80-127).
THEOREM SkbloomImplements ==
    ASSUME OneFlow
    PROVE  Spec => ImplementsResumable
<1>1. Init => SkbloomInv /\ InOrder /\ Resumable!Init
  BY InitInv, InitInOrder, InitRefines
<1>2. SkbloomInv /\ InOrder /\ [Next]_vars => (SkbloomInv /\ InOrder)'
  BY NextInv, NextInOrder
<1>3. SkbloomInv /\ InOrder /\ InOrder' /\ [Next]_vars => [Resumable!Next]_Resumable!vars
  BY StepRefines
<1> QED BY <1>1, <1>2, <1>3, PTL DEF Spec, ImplementsResumable, Resumable!Spec
=============================================================================
