--------------------------- MODULE SkbloomInstall ---------------------------
(***************************************************************************)
(* v2/skbloom: the installer.  A run (`skbloom up` or `resume`, or one      *)
(* /api/up request of the threaded web server) reads the ledger of          *)
(* completed steps into its memory, saves it back with its meta data, and   *)
(* then goes through the steps of its profile's flow: skip what is done or  *)
(* satisfied, perform the rest, save the whole ledger after each.           *)
(*                                                                          *)
(* Abstracted: a step is its name, a ledger is the set of names it holds    *)
(* (absent, torn or complete), a cluster is the set of steps whose effect   *)
(* it shows.  k3d, helm, kubectl and docker are modelled by that set, by    *)
(* return codes, and by the current kube context.                           *)
(***************************************************************************)
EXTENDS Naturals, FiniteSets, Sequences

CONSTANTS
    Run,            \* processes or requests that install
    Cluster,        \* cluster names
    SwarmClusters,  \* those installed with platform = swarm
    Service,        \* deployed names; s stands for the step deploy:s
    Profile,        \* [cluster, services, tls] records a run may be given
    File,           \* ledger files
    LedgerOf,       \* the ledger file of every cluster's runs
    ListedWith,     \* ListedWith[n]: clusters, or services, with n in their name
    SilentFailures, \* can a command whose return code is ignored fail?
    Absent, Torn,   \* a ledger that does not exist, that does not parse
    NoContext,      \* no current kube context
    MaxMishaps      \* bound: crashes and resets

Fixed == {"preflight", "bootstrap-cluster", "bootstrap-swarm", "install-eso",
          "secret-backend", "local-tls", "final-check"}
Step == Fixed \cup Service

ASSUME SkbloomAssumption ==
    /\ SwarmClusters \subseteq Cluster
    /\ Service \cap Fixed = {}
    /\ Profile # {}
    /\ Profile \subseteq [cluster : Cluster, services : Seq(Service), tls : BOOLEAN]
    /\ LedgerOf \in [Cluster -> File]
    /\ \A c \in Cluster : ListedWith[c] \subseteq Cluster /\ c \in ListedWith[c]
    /\ \A s \in Service : ListedWith[s] \subseteq Service /\ s \in ListedWith[s]
    /\ SilentFailures \in BOOLEAN
    /\ \A S \in SUBSET Step : S \notin {Absent, Torn}
    /\ Absent # Torn
    /\ NoContext \notin Cluster
    /\ MaxMishaps \in Nat

VARIABLES
    pc,       \* idle; open and write: the two halves of a save; check; run
    prof,     \* the profile of every run
    memory,   \* StateStore._done of every run
    at,       \* index of the step it is at
    outcome,  \* what its last invocation reported: none, complete, failed
    file,     \* content of every ledger file
    world,    \* the steps whose effect each cluster shows: of a service, that a
              \* pod of it runs, or that docker lists its stack
    ready,    \* the services of each k8s cluster that have rolled out
    context,  \* the current kube context
    mishaps,  \* crashes and resets so far
    partly,   \* those with some pods up whose rollout no deploy has seen the end of
    attained  \* history: per ledger, the services deployed or found running

runVars == <<pc, prof, memory, at, outcome>>
worldVars == <<world, ready, partly, context>>
vars == <<runVars, file, worldVars, mishaps, attained>>

-----------------------------------------------------------------------------
IsSwarm(p) == p.cluster \in SwarmClusters

\* install_flow and _swarm_flow: the steps of a profile in order.
prologue(p) ==
    IF IsSwarm(p) THEN <<"preflight", "bootstrap-swarm">>
    ELSE <<"preflight", "bootstrap-cluster", "install-eso", "secret-backend">>
         \o IF p.tls THEN <<"local-tls">> ELSE <<>>

flow(p) == prologue(p) \o p.services \o <<"final-check">>

stepOf(r) == flow(prof[r])[at[r]]
path(r) == LedgerOf[prof[r].cluster]

TypeOK ==
    /\ pc \in [Run -> {"idle", "open", "write", "check", "run"}]
    /\ prof \in [Run -> Profile]
    /\ memory \in [Run -> SUBSET Step]
    /\ at \in [Run -> Nat \ {0}]
    /\ \A r \in Run : at[r] <= Len(flow(prof[r])) + IF pc[r] = "run" THEN 0 ELSE 1
    /\ outcome \in [Run -> {"none", "complete", "failed"}]
    /\ file \in [File -> {Absent, Torn} \cup SUBSET Step]
    /\ world \in [Cluster -> SUBSET Step]
    /\ ready \in [Cluster -> SUBSET Service] /\ partly \in [Cluster -> SUBSET Service]
    /\ context \in (Cluster \ SwarmClusters) \cup {NoContext}
    /\ mishaps \in 0 .. MaxMishaps
    /\ attained \in [File -> SUBSET Service]

\* Clusters may exist already; k3d leaves the context at one of them.
Init ==
    /\ pc = [r \in Run |-> "idle"]
    /\ prof = [r \in Run |-> CHOOSE p \in Profile : TRUE]
    /\ memory = [r \in Run |-> {}]
    /\ at = [r \in Run |-> 1]
    /\ outcome = [r \in Run |-> "none"]
    /\ file = [f \in File |-> Absent]
    /\ world \in [Cluster -> {{}, {"bootstrap-cluster"}}]
    /\ \A c \in SwarmClusters : world[c] = {}
    /\ ready = [c \in Cluster |-> {}] /\ partly = ready
    /\ LET existing == {c \in Cluster : world[c] # {}} IN
       context \in IF existing = {} THEN {NoContext} ELSE existing
    /\ mishaps = 0
    /\ attained = [f \in File |-> {}]

-----------------------------------------------------------------------------
(* The ledger: StateStore.                                                  *)

\* _load: no file, or one that does not parse, is an empty ledger.
_load(f) == IF file[f] \in {Absent, Torn} THEN {} ELSE file[f]

\* A run that cannot read its ledger gives up.
StartNeedsReadable(r, p) ==
    /\ pc[r] = "idle"
    /\ prof' = [prof EXCEPT ![r] = p]
    /\ at' = [at EXCEPT ![r] = 1]
    /\ IF file[LedgerOf[p.cluster]] = Torn
       THEN /\ outcome' = [outcome EXCEPT ![r] = "failed"]
            /\ UNCHANGED <<pc, memory>>
       ELSE /\ memory' = [memory EXCEPT ![r] = _load(LedgerOf[p.cluster])]
            /\ outcome' = [outcome EXCEPT ![r] = "none"]
            /\ pc' = [pc EXCEPT ![r] = "open"]
    /\ UNCHANGED <<file, worldVars, mishaps, attained>>

\* up, resume, /api/up: load the ledger; set_meta saves it at once.
Start(r, p) ==
    /\ pc[r] = "idle"
    /\ prof' = [prof EXCEPT ![r] = p]
    /\ memory' = [memory EXCEPT ![r] = _load(LedgerOf[p.cluster])]
    /\ at' = [at EXCEPT ![r] = 1]
    /\ outcome' = [outcome EXCEPT ![r] = "none"]
    /\ pc' = [pc EXCEPT ![r] = "open"]
    /\ UNCHANGED <<file, worldVars, mishaps, attained>>

\* _save, first half: write_text opens the file, which truncates it.
SaveOpen(r) ==
    /\ pc[r] = "open"
    /\ file' = [file EXCEPT ![path(r)] = Torn]
    /\ pc' = [pc EXCEPT ![r] = "write"]
    /\ UNCHANGED <<prof, memory, at, outcome, worldVars, mishaps, attained>>

\* _save, second half.  If another run has written since the truncation, a
\* shorter text leaves the tail of the longer one behind it.
SaveWrite(r) ==
    /\ pc[r] = "write"
    /\ \/ file' = [file EXCEPT ![path(r)] = memory[r]]
       \/ /\ file[path(r)] # Torn
          /\ file' = [file EXCEPT ![path(r)] = Torn]
    /\ pc' = [pc EXCEPT ![r] = "check"]
    /\ UNCHANGED <<prof, memory, at, outcome, worldVars, mishaps, attained>>

\* skbloom reset: an empty ledger, or half of one; the cluster is left alone.
Reset(f) ==
    /\ mishaps < MaxMishaps
    /\ mishaps' = mishaps + 1
    /\ \E S \in {Torn, {}} : file' = [file EXCEPT ![f] = S]
    /\ UNCHANGED <<runVars, worldVars, attained>>

-----------------------------------------------------------------------------
(* The world: what the commands of flow.py see and do.                      *)

\* kubectl and helm get no --context: they act on the current one.
where(r) == IF IsSwarm(prof[r]) THEN prof[r].cluster ELSE context

Exists(c) == world[c] \cap {"bootstrap-cluster", "bootstrap-swarm"} # {}

\* A check that cannot tell counts as satisfied.
SatisfiedOnError(r) ==
    stepOf(r) \notin {"preflight", "secret-backend", "final-check"}

\* The step's check; a step without one is never satisfied.  k3d's clusters
\* and docker's stacks are looked up by a bare substring match in a list, and a
\* service counts when "Running" occurs in the list of its pods and "0/" does
\* not: a pod with 1/2 containers up will do.
Satisfied(r) ==
    CASE stepOf(r) = "bootstrap-cluster" ->
            \E c \in ListedWith[prof[r].cluster] : Exists(c)
      [] stepOf(r) \in {"preflight", "secret-backend", "final-check"} -> FALSE
      [] stepOf(r) \in Service /\ IsSwarm(prof[r]) ->
            ListedWith[stepOf(r)] \cap world[prof[r].cluster] # {}
      [] OTHER -> where(r) # NoContext /\ stepOf(r) \in world[where(r)]

\* The steps whose command raises on a non-zero return code.
LoudNone == {}
Loud == Service

\* Can the step's command have its effect now?  ESO brings the kinds that
\* the store and the services' external secrets are made of.
Applicable(r) ==
    CASE stepOf(r) \in {"preflight", "final-check", "bootstrap-swarm"} -> TRUE
      [] stepOf(r) = "bootstrap-cluster" -> ~Exists(prof[r].cluster)
      [] OTHER -> /\ where(r) # NoContext /\ Exists(where(r))
                  /\ stepOf(r) = "secret-backend" => "install-eso" \in world[where(r)]
                  /\ stepOf(r) \in Service /\ ~IsSwarm(prof[r]) =>
                        "secret-backend" \in world[where(r)]

\* What it makes the cluster show.  k3d creates its own cluster and switches
\* the context to it.
Effect(r) ==
    CASE stepOf(r) \in {"preflight", "final-check"} -> UNCHANGED <<world, context>>
      [] stepOf(r) \in {"bootstrap-cluster", "bootstrap-swarm"} ->
            /\ world' = [world EXCEPT ![prof[r].cluster] = @ \cup {stepOf(r)}]
            /\ context' = IF IsSwarm(prof[r]) THEN context ELSE prof[r].cluster
      [] OTHER ->
            /\ world' = [world EXCEPT ![where(r)] = @ \cup {stepOf(r)}]
            /\ UNCHANGED context

OnK8s(r) == stepOf(r) \in Service /\ ~IsSwarm(prof[r])

\* A service of a k8s cluster is waited for until it has rolled out;
\* `docker stack deploy --detach=true` waits for nothing.
Finishes(r) ==
    /\ Effect(r)
    /\ ready' = IF OnK8s(r) THEN [ready EXCEPT ![where(r)] = @ \cup {stepOf(r)}] ELSE ready
    /\ partly' = IF OnK8s(r) THEN [partly EXCEPT ![where(r)] = @ \ {stepOf(r)}] ELSE partly

\* What a command that ends early has done or still does.
EndsEarly(r) == UNCHANGED worldVars \/ (Applicable(r) /\ Finishes(r))

-----------------------------------------------------------------------------
(* run_steps and iter_steps.                                                *)

\* mark_done: to memory now, to the file by the save that follows.
mark_done(r) ==
    /\ memory' = [memory EXCEPT ![r] = @ \cup {stepOf(r)}]
    /\ at' = [at EXCEPT ![r] = @ + 1]
    /\ pc' = [pc EXCEPT ![r] = "open"]
    /\ UNCHANGED <<prof, outcome, file, mishaps>>

Attain(r) == attained' = [attained EXCEPT ![path(r)] = @ \cup ({stepOf(r)} \cap Service)]

Leave(r, result) ==
    /\ outcome' = [outcome EXCEPT ![r] = result]
    /\ pc' = [pc EXCEPT ![r] = "idle"]
    /\ UNCHANGED <<prof, memory, at, file, attained>>

\* The head of the loop.  A check that cannot get its answer (the command
\* fails, or _safe_check catches its exception) is not satisfied.
Check(r) ==
    /\ pc[r] = "check"
    /\ at[r] <= Len(flow(prof[r]))
    /\ \/ /\ stepOf(r) \in memory[r]
          /\ at' = [at EXCEPT ![r] = @ + 1]
          /\ UNCHANGED <<pc, prof, memory, outcome, file, worldVars, mishaps, attained>>
       \/ /\ stepOf(r) \notin memory[r]
          /\ Satisfied(r)
          /\ mark_done(r) /\ Attain(r)
          /\ UNCHANGED worldVars
       \/ /\ stepOf(r) \notin memory[r]
          /\ pc' = [pc EXCEPT ![r] = "run"]
          /\ UNCHANGED <<prof, memory, at, outcome, file, worldVars, mishaps, attained>>

\* kubectl has applied the manifests, and the first pods come up.
Apply(r) ==
    /\ pc[r] = "run"
    /\ OnK8s(r) /\ Applicable(r)
    /\ stepOf(r) \notin ready[where(r)]
    /\ Effect(r)
    /\ partly' = [partly EXCEPT ![where(r)] = @ \cup {stepOf(r)}]
    /\ UNCHANGED <<runVars, file, ready, mishaps, attained>>

\* The step's commands succeed.
RunOk(r) ==
    /\ pc[r] = "run"
    /\ Applicable(r)
    /\ Finishes(r)
    /\ mark_done(r) /\ Attain(r)

\* A failed command nobody looks at: the step is marked done all the same.
RunSilentlyFails(r) ==
    /\ pc[r] = "run"
    /\ stepOf(r) \notin Loud
    /\ SilentFailures \/ ~Applicable(r)
    /\ mark_done(r)
    /\ UNCHANGED <<worldVars, attained>>

\* A failed step does not end the run.
RunFailsOn(r) ==
    /\ pc[r] = "run"
    /\ stepOf(r) \in Loud
    /\ at' = [at EXCEPT ![r] = @ + 1]
    /\ pc' = [pc EXCEPT ![r] = "check"]
    /\ UNCHANGED <<prof, memory, outcome, file, worldVars, mishaps, attained>>

\* The step raises (its rollout did not finish, a program is missing): the
\* run stops.  What it had applied stays, and may still come up.
RunFails(r) ==
    /\ pc[r] = "run"
    /\ Leave(r, "failed")
    /\ UNCHANGED mishaps
    /\ IF stepOf(r) \in Loud THEN EndsEarly(r) ELSE UNCHANGED worldVars

\* The loop ran to its end.
Complete(r) ==
    /\ pc[r] = "check"
    /\ at[r] > Len(flow(prof[r]))
    /\ Leave(r, "complete")
    /\ UNCHANGED <<worldVars, mishaps>>

\* The process dies, a save fails, or the browser goes away between events.
\* A command under way lives on and may have its effect.
Crash(r) ==
    /\ pc[r] # "idle"
    /\ mishaps < MaxMishaps
    /\ mishaps' = mishaps + 1
    /\ Leave(r, "failed")
    /\ IF pc[r] = "run" THEN EndsEarly(r) ELSE UNCHANGED worldVars

Proceed(r) ==
    \/ SaveOpen(r) \/ SaveWrite(r) \/ Check(r)
    \/ Apply(r) \/ RunOk(r) \/ RunSilentlyFails(r) \/ RunFails(r) \/ Complete(r)

Next ==
    \/ \E r \in Run : Proceed(r) \/ Crash(r) \/ \E p \in Profile : Start(r, p)
    \/ \E f \in File : Reset(f)

Spec == Init /\ [][Next]_vars

GetsDone(r, s) ==
    /\ at[r] <= Len(flow(prof[r]))
    /\ stepOf(r) = s /\ s \notin memory[r]
    /\ Check(r) \/ RunOk(r) \/ RunSilentlyFails(r)
    /\ s \in memory'[r]

\* A run keeps going (its commands end), the operator resumes what is not
\* complete, and a step that can get done does so if it is tried again and again.
FairSpec ==
    /\ Spec
    /\ \A r \in Run : WF_vars(Proceed(r)) /\ WF_vars(\E p \in Profile : Start(r, p))
    /\ \A r \in Run : \A s \in Step : SF_vars(GetsDone(r, s))

-----------------------------------------------------------------------------
(* Properties.                                                              *)

\* The services that some cluster has: in a swarm docker lists their stack, or
\* one of a longer name; on k8s they have rolled out, or a deploy that was cut
\* short, or is still under way, has brought up some of their pods.
Deployed ==
    {s \in Service : \E c \in Cluster :
        IF c \in SwarmClusters THEN ListedWith[s] \cap world[c] # {}
        ELSE s \in ready[c] \cup partly[c]}

\* A ledger, and a run's memory of it, names a deploy step only when some
\* cluster has that service, whoever saves over whom and wherever a run dies.
\* On k8s it has then rolled out (steps.py:88-103 with flow.py:183-186), but for
\* one that a check found with some pods up after a deploy that was cut short or
\* in the middle of another run's, and took for done (flow.py:93-95).
LedgerSound ==
    /\ \A f \in File : _load(f) \cap Service \subseteq Deployed
    /\ \A r \in Run : memory[r] \cap Service \subseteq Deployed

\* A run that reaches the end of its flow has every service of its profile in
\* its own cluster: rolled out, or with those pods up that a deploy cut short or
\* another run's deploy had got to when it was checked (cli.py:141, flow.py:183).
\* It holds when there is only one cluster and no service's name is part of
\* another's; with two the ledger or the kube context may be the other cluster's.
CompleteMeansDeployed ==
    \A r \in Run :
        pc[r] = "check" /\ at[r] > Len(flow(prof[r])) =>
            \A j \in 1 .. Len(prof[r].services) :
                LET s == prof[r].services[j]
                    c == prof[r].cluster
                IN  s \in world[c] /\ (c \notin SwarmClusters => s \in ready[c] \cup partly[c])

\* "fix the cause, then `skbloom resume` to continue from here" (cli.py:139):
\* an installation that is resumed whenever it stopped gets to its end.
ResumeCompletes == <>(\E r \in Run : outcome[r] = "complete")

\* Behind the two: types, a run has every step it has passed in memory, and a
\* k8s cluster shows just the services that rolled out or are half way there.
Progress ==
    \A r \in Run : pc[r] # "idle" =>
        \A j \in 1 .. at[r] - 1 : flow(prof[r])[j] \in memory[r]

PodsOfDeploys ==
    \A c \in Cluster \ SwarmClusters : world[c] \cap Service = ready[c] \cup partly[c]

SkbloomInv == TypeOK /\ LedgerSound /\ Progress /\ PodsOfDeploys

-----------------------------------------------------------------------------
(* With one profile, the installer implements ResumableSteps.               *)

\* The steps that notice when their command fails are those that deploy; of the
\* others the ledger says nothing (RunSilentlyFails).
TheProfile == CHOOSE p \in Profile : TRUE
TheLedger == LedgerOf[TheProfile.cluster]
Deploys == TheProfile.services
Beginnings == [k \in 0 .. Len(Deploys) |-> {Deploys[j] : j \in 1 .. k}]

\* The number of deploys in a beginning of them; one too many for other sets.
beginning(S) ==
    IF \E k \in DOMAIN Beginnings : S = Beginnings[k]
    THEN CHOOSE k \in DOMAIN Beginnings : S = Beginnings[k]
    ELSE Len(Deploys) + 1

Resumable == INSTANCE ResumableSteps WITH
    Flow <- Deploys,
    performed <- beginning(attained[TheLedger]),
    ledger <- beginning(_load(TheLedger) \cap Service),
    complete <- \E r \in Run : outcome[r] = "complete"

\* The services are taken in order, every ledger names a beginning of those that
\* a run with that ledger has deployed or found running, and success is reported
\* only of all of them (steps.py:80-127).
ImplementsResumable == Resumable!Spec
=============================================================================
