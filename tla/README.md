# Formal verification of skstacks

TLA+ models of the parts of this repository whose correctness depends on the
order of steps, on failures half way, and on who else runs at the same time;
TLC configurations that check them on small instances; and proofs that TLAPS
checks for every instance.

Most of the repository's 1441 files are Ansible roles, templates and documents:
declarations that another program executes. What is modelled here is the code
that keeps state and takes decisions of its own. Paths below are relative to
the repository root (`src/` in `PROJECT.json`).

## 1. Inventory

| Component | Code | State | Operations | What is hard |
|---|---|---|---|---|
| **skstacks-deploy** | `tools/skstacks_deploy.py` | run directory and record files, docker's Spec/PreviousSpec, sk-lock | lock, backup, snapshot, record, playbook, verify, judge, restore, report | several runs at once, timeouts, a playbook that fails half way, a rollback that is not to what was recorded |
| **skbloom** | `v2/skbloom` | one JSON ledger of completed steps, the cluster, the kube context | up/resume, reset, `/api/up`, status, scale, restart | crash in the middle of a save, two streams over one ledger, commands whose failure is not seen |
| **skwire** | `v2/skwire` | pack registry, plan and its hash, secret store, what every target was given | add, plan, approve, execute, rotate, staged bring-up | approve against a plan that changes, partial injection, rotation half way, two injectors in one file |
| **skwire chat** | `v2/skwire/{chat,conversation,catalog,pack,nextstep,redundancy,doctor,cli}.py`, `web/server.py`, `packs` | the server's catalog and registry, in memory and shared by its threads | chat, catalog, add, plan, next | a model's answer decides, threads that iterate over what others change, a restart forgets |
| **secrets** | `v2/secrets` | vault file, SOPS file, OpenBao/Vault, CapAuth store with a GnuPG fallback | get, set, delete, list, rotate, migrate | two writers of one file, swallowed decrypt errors, a fallback that splits the store, a migration half way |
| **skred** | `v2/skred` | findings of one scan | scope, scan, dedupe, rank, gate | a crashed scanner looks like a clean one |
| **skbackup** | `v1/ansible/optional/skbackup/src/skbackup` | lock file, ZFS snapshots, mounts, restic repository | backup, sync, check, predeploy | ownership of snapshots across crashes, cleanup order |
| **skfenceha** | `v1/ansible/core/skfenceha/src/config/skfenceha` | certificate file per node, dumped certificates | certs-watch poll loop, entrypoint | every node polls and writes one shared file |
| **skha** | `v1/ansible/core/skha` | VRRP state of every node, the floating address | keepalived check and notify | two masters, health check flapping |
| **skrender** | `v2/skrender` | none | descriptor to manifests | pure functions |
| **error-pages** | `v1/ansible/core/skfence*/src/error-pages/server.py` | page cache | HTTP handler | none to speak of |
| **provisioning scripts** | `v1/ansible/optional/{skmesh,skrac,sksso,skpulse,skfetch,skflow,skpatch-hosts}`, `v1/ansible/shared/src/authentik_portal_tile.py` | the configuration of the application they set up | look up, create, change, link, prune over HTTP | a lost answer, a rerun over half a configuration, two scripts on one object, changes by hand |
| **signer** | `v1/ansible/optional/skorch/src/gpg-signer/signer.py` | signing queue | HTTP handler | one request at a time |
| **roles, templates, manifests** | `v1/ansible`, `v2/{core,cloud,...}` | none in this repository | executed by Ansible, Docker, Kubernetes | out of scope: no control flow of their own |

How they meet: an operator deploys v1 services with skstacks-deploy, which runs
the Ansible playbooks of `v1/ansible`; v2 stacks are installed by skbloom, which
renders descriptors with skrender and leaves keys to skwire and the secrets
backends; the roles run the provisioning scripts against the applications they
have just deployed, and run them again on every deploy; skbackup runs on the storage hosts from cron and before a deploy, as
skstacks-deploy's snapshot hook; skha moves the address behind which every
node's skfenceha serves the certificates the others dumped.

## 2. Modules and plan

| # | Module | Models | Composes / implements |
|---|---|---|---|
| 1 | `SkstacksDeploy` | `tools/skstacks_deploy.py`, runs against one instance, one swarm, one sk-lock | - |
| 2 | `ResumableSteps` | the abstract resumable installer: what any installer made of named steps promises | - |
| 3 | `SkbloomInstall` | `v2/skbloom`: ledger, step loops, flows, `/api/up` | implements 2 |
| 4 | `SkwireStages` | `v2/skwire/stages.py` | implements 2 |
| 5 | `SkwireResolver` | `v2/skwire/resolver.py` | its result is what 6 takes for granted |
| 6 | `SkwireFabric` | packs, plans, approval, mint, inject, execute, rotate | - |
| 7 | `SecretBackends` | `v2/secrets`: six kinds of backend, their calls and `migrate` | - |
| 8 | `Provision` | the scripts that set up an application: sixteen kinds of step | runs the scripts of 9 |
| 9 | `ProvisionScripts` | the eight scripts, as sequences of such steps | data for 8 |
| 10 | `SkwireChat` | the handlers and commands by which packs come into the registry | uses 11; its registry is where 6 gets its packs from |
| 11 | `SkwirePacks` | the first-party packs, what builds, what is advised | - |

Each has a module `MC...` with the constants of its instances, and `...Proofs`
with its theorems. The order was chosen so that what can do most harm (a
rollback of the wrong service) came first, then the two installers with the
abstraction they share, then the fabric, then what feeds it (the stores its
secrets come from, the scripts that configure what it wires, the packs people
ask for).

What is left, in this order:

1. **skbackup**: capture, upload, provenance and release of snapshots with
   deaths in between; no capture is leaked for ever, none is released that a
   provenance file names or a mount uses.
2. **certs-watch**: the poll loops of all nodes, their shared temporary name
   (`.tmp.$$`, where `$$` is 1 in every container), a hash over paths and not
   contents; "what a node serves is eventually the certificate that was issued".
3. `cron_for` and `due_for_rotation` against the policy they come from.

## 3. How each module corresponds to the code

**SkstacksDeploy.** A *run* is one invocation of `skstacks-deploy`. `pc` is the
phase of `execute_locked` it is in; each action is one phase, or one iteration of
a loop where the code calls out per service (`Record`, `Verify`, `Restore`).
`records` is what `docker_inspect` returned, `recordFile` the files under
`records/`, `spec` and `prev` docker's Spec and PreviousSpec as version numbers,
`newest` the last number handed out. The playbook is a sequence of
`DockerUpdate`s that may stop anywhere; when it times out, ansible's tasks can
outlive it (`orphans`, `LateTask`). `Raise` is an exception that leaves
`execute_locked`, `Crash` a death. What the tool prints is not modelled, except
that `ClaimsRestored` says when it prints that everything was restored. A run
without `--execute` ends with its plan (`Invoke`).

**SkbloomInstall.** A *run* is `skbloom up`, `skbloom resume` or one `/api/up`
stream. `memory` is `StateStore._done`, `file` the ledgers, and a save is two
steps, because `open(..., "w")` truncates. `flow` is `install_flow`'s list of
steps for a profile. `world[c]` is the set of steps whose effect cluster c shows:
it only grows, since nothing in the flows takes anything away. `ready[c]` are the
services of a k8s cluster that have rolled out, `partly[c]` those of which a
deploy has brought up some pods (`Apply`) and whose rollout nobody has waited out
yet; for a swarm all there is to see is that `docker stack ls` lists the stack.
`Satisfied` is a step's check, which looks clusters and stacks up by substring
(`ListedWith`) and takes a pod with 1 of 2 containers up for a running service
(`v2/skbloom/flow.py:93-95`). `Loud` are the steps that notice when their command
fails, the deploys; the rest succeed whatever happened, which `SilentFailures`
switches on. `context` is the kube context that every flow command of a k8s
cluster uses. `attained` is what a deploy step saw succeed or a check found.

**SkwireStages.** A *run* is one call of `run_stages`. A completed list is the
set of its names; `SaveOpen` and `SaveWrite` are the two halves of `write_text`,
and a write over what somebody else has written since the truncation may leave a
text that does not parse. A stage that returns was performed; `Fail` is one that
raises. `Die` is a death, or `_save` raising outside the try.

**SkwireResolver.** One call of `build_plan`. `Round` is the sorted ready list of
one turn of the while loop; `Place` takes its nodes in order and lets the others
cease to wait. Nodes are numbers, so that sorting is `<`.

**SkwireFabric.** A *job* is a session that plans, approves and executes, or a
timer that rotates. `plan_hash` covers nodes, edges and secrets, and approval is
of a hash; the order of a plan follows from them. A value is the number of times its
key was minted, since `os.urandom(24)` does not repeat. `Read`, `Open` and
`Write` are the steps of an injector's `write_text`; `Post` is an injection over
HTTP, which may take effect and count as failed; `InjectFails` is the `except` of
`_inject`. `pick` is what `_picker` gives a job: one injector for all targets, or,
for `execute` alone, one per `api_kind`. An injector of another kind than its
target reads, the recording one above all, reports success and gives the node
nothing (`Miss`). `secrets` is what a job minted, and it mints everything before it
injects anything; in which order within a job nothing observes. Two things are
taken from the documentation of the engine (`v2/skwire/README.md:135-159`) and
not from its demo commands: jobs share a secret store and have real injectors.
`api_approve`, `skwire up` and `skwire rotate` pass a `RandomSecretStore` of
their own and a `RecordingInjector`, and so change nothing. A request that is
refused (wrong hash, nothing to approve, a graph that does not resolve, a
dictionary that changed size under an iteration) changes nothing and is no action.

**SecretBackends.** A *caller* is a process that uses a backend of
`factory.get_backend`. `pc` tells where it is: a write to a scope kept as one
text (`Kinds` other than `kv`) is read, write, and encrypt, since all of them
decrypt the whole scope, change a dictionary, and let another program overwrite
the file; a write to a server is one `put` per key. `migrate` lists scopes,
collects each as a whole (or, from a server, key by key) and writes it with
`set_many`. `Load` is where a backend takes an unreadable scope for an error or,
for a set, for an empty one. `capauth` is two kinds, because its store and its
fallback fail differently: `mcp` keeps a memory of the scope that supersedes the
older ones, turns to the `gnupg` blob while the server is out, and takes a scope
for empty when a server that is up answers a read with an error (`Misread`). `vault-cmd` is
`vault-file` with `SKSTACKS_VAULT_PASS_CMD`, which decrypts but is not used to
encrypt. `list_scopes` of capauth lists blobs only, so that a migration from it
without named scopes finds none of what the server holds. `expected` is what the
writes that took effect amount to; a migration that fails in some scopes exits 0
and reports the others, which `reported` collects.

**Provision, ProvisionScripts.** Eight scripts are written alike: look an object
up by name, create it if it is missing, change what differs, remember its primary
key, refer to it in the next request. A script is a sequence of steps of sixteen
kinds (`Op`), and each kind has the action of the function the script calls for
it. `known` are the keys a run has, `seen` what it read of an object before it
changes it, `listed` what a step read once for the steps after it. An object is
its name, a key that is never given out again, one field for all of its own
settings, its secret, and what it refers to. An indexer that the application has
no definition of is left out without an error (`omitted`). `Post` and `Patch` are
the requests that change something: the application may refuse them (a name that must be
unique, a reference that does not exist), take them, or take them and lose the
answer. `Counting` scripts go on after an error and fail at their end, the others
stop. The role repeats a failed script (`Rerun`). `Scenes` says which scripts run
against one application at the same time, and `Edit` and `Delete` are the hands of
an administrator.

**SkwireChat, SkwirePacks.** A request to the server is a thread, and `registry`
and `offerings` at `Web` are what all of them share; a command has its own, which
die with it, so that `skwire add` on the command line registers nothing that
outlasts it. Each request loads the catalog anew, entry by entry
(`register_offering`), and so for a moment other requests see a pack with its
first-party source before the community catalog has its say. `interpret` is the
router as a set: it is a choice only where words hint at several offerings.
`Answers` is whatever a model may say; `decide` is what the server makes of it.
`asked` records what people asked for, `swept` whether a model has had everything
installed unasked.
The next step is worked out before the action (`next_steps`), as the code does.
Iterating over a registry that changes meanwhile raises, and so does a second
registration of a pack; who gets no answer may ask again (`Repeat`). In
`SkwirePacks` the five packs of `v2/skwire/packs` are data, and the advice on
redundancy, the doctor and the next step are operators that an ASSUME of
`MCSkwireChat` checks for every set of packs.

## 4. What is checked

| Run | Instance | What it shows |
|---|---|---|
| `deploy_two_apps` | 2 runs, 2 apps (one of two services, one schema-changing), shared service name, one second, versions up to 2 | `UpdatedMeansRestored`, `OwnRecordFile`, `RollbackIsJustified`, and the inductive `DeployInv` |
| `deploy_restored_doc` | 2 runs, 1 app, versions up to 3 | `RestoredToRecordedSpec` is **violated** |
| `skbloom_one_cluster` | 2 runs, 1 cluster, 2 services, 1 mishap, unseen failures, partly ready pods | `CompleteMeansDeployed`, `SkbloomInv`, `ImplementsResumable` |
| `skbloom_liveness` | 1 operator, a k8s and a swarm cluster, 2 mishaps | `ResumeCompletes` |
| `skbloom_ledger_doc` | a k8s cluster and a swarm, one ledger | `CompleteMeansDeployed` is **violated** |
| `skwire_stages` | 2 runs, 3 stages, 2 mishaps | `StagesInv`, `ImplementsResumable` |
| `skwire_resolver` | every graph of up to 4 nodes (self-needs, missing providers) | `ProvidersFirst`, `Verdict`, `ResolverInv`, `Terminates` |
| `skwire_fabric` | 2 jobs, 2 packs, 3 nodes (one per kind of injector), 2 keys, 2 runs in all, 1 mishap; injectors for all targets or by `api_kind` | `WiredTogether`, `GivenAsPlanned`, `FabricInv` |
| `secrets` | 2 callers, 2 backends of five pairs of kinds, 2 scopes, 2 keys, 2 calls, 2 faults | `ScopesKept`, `MigratedWhole`, `SecretsInv`, `CopyInv` |
| `provision` | seven scenes of 1 or 2 scripts, 2 processes, 2 configurations, 3 mishaps or further runs, 1 change by hand | `ExitMeansInPlace`, `MadeOnce`, `OneAccountPerKey`, `ProviderKept`, and the inductive `ProvisionInv`, `LinkInv`, `OnceInv`, `InPlaceInv` |
| `skwire_chat` | 2 people, 2 requests and any number of repeats, 1 restart; two packs and a program of the package manager | `OnlyAsked`, `AnswerKept`, `EveryAddLands`, `ChatInv`, `KeptInv` |
| `skwire_chat_doc` | 1 person | `InstallsOnlyAsked` is **violated** |

What the properties say, one sentence each:

- `UpdatedMeansRestored`: when a run is about to say "restored", every failing
  service that was updated once since it was recorded is at its recorded version.
- `RollbackIsJustified` (a step property): a version goes back only for the one
  lock holder of an app that may be auto-restored, for a service it found failing
  and has a record of.
- `OwnRecordFile`: whatever file a run names to its operator as the record of a
  service is accounted for. It is the run's own, or one that a run of another app
  with a service of that name wrote in the same second; and where the run has
  nothing on record, its inspect having failed, there is no file (the tool names
  one only if it exists) or an earlier, finished run of its app left it.
- `CompleteMeansDeployed`: a run at the end of its flow has its services in its
  cluster: rolled out, but for those that a check took for done while some of
  their pods were up.
- `ImplementsResumable`: in-order steps, a ledger that names a beginning of what
  was performed, success only of the whole. For `run_stages` these are all
  stages; for skbloom the deploy steps, since the others are recorded whether
  their commands worked or not.
- `ResumeCompletes`: resuming whatever stopped reaches the end.
- `ProvidersFirst`, `Verdict`, `Terminates`: the bring-up order is one, an error
  is raised exactly when there is none, and the loop ends.
- `WiredTogether`: a job that reported success left each node that its injector
  serves with the store's value of each of its keys, and there it stays while other keys' jobs rewrite
  the same files one at a time. Jobs that overlap over a key or a file, or meet
  one that died in the middle of a write, are exempt (`disturbed`): nothing in
  the code keeps them apart and values do get lost there.
- `GivenAsPlanned`: no node holds a key that no approved or rotated plan gave it.
- `ScopesKept`: a scope holds what the writes that took effect make of it; writing
  one key neither loses nor revives another. Exempt (`Unprotected`) is what the
  adapters have no answer to: two calls that rewrite one file at once, and a
  death over it; an error by which an MCP server that is up answers a read, after
  which `set` stores a memory with the new key only
  (`v2/secrets/capauth/backend.py:338`); an outage of a backend that takes what it cannot read for empty
  (`sops-age`, `gnupg`) or turns to another store (`mcp`); and `vault-cmd`, which
  encrypts with a password that does not decrypt. `vault-file` keeps its scopes
  through lost passwords, and a server through anything.
- `MigratedWhole`: what `migrate` reports as copied is all there.
- `ExitMeansInPlace`: a run that exits 0 leaves what its script compares as it is
  configured and referring to the objects that are there now, and what it only
  creates there, whatever earlier runs and hands left behind, unless others
  meddled during the run. What it does not say, as the scripts do not do it: the
  portal tile leaves whatever provider there is; an indexer that was created
  without its FlareSolverr tag stays without (`wire.py:168`); and one that
  Prowlarr has no definition of is left out with a warning (`wire.py:176-178`).
  A later run exits 0 in the last two cases, which `wire.py:8` reserves for
  everything being in place.
- `MadeOnce`: reruns duplicate nothing, also where the application would take a
  duplicate and the first answer was lost.
- `OneAccountPerKey`: no CapAuth fingerprint is linked to two accounts, unless a
  configuration names it for two users: the script judges both by the list it read
  before (`capauth_provision.py:230-246`).
- `ProviderKept` (a step property): no run takes an application's provider away.
- `OnlyAsked`: the server registers only what was there or was asked for, until a
  model answers `add_all` to a message that the router does not understand, which
  the server carries out unasked. `InstallsOnlyAsked` is the same without the
  exception, and does not hold.
- `AnswerKept`: what an answer lists as added is registered, and a chat's plan has
  it; of the packs that the community catalog leaves built in none is missing that
  the request was to add.
- `EveryAddLands`: whoever asks for a built-in app, and asks again when there is no
  answer, gets it registered.
- `DeployInv`, `SkbloomInv`, `StagesInv`, `ResolverInv`, `FabricInv`, `SecretsInv`,
  `ProvisionInv` and `ChatInv` are the inductive invariants of section 5, each
  with its module's type invariant; `CopyInv` and `KeptInv` are inductive next to
  `SecretsInv` and `ChatInv`, `LinkInv` and `OnceInv` next to `ProvisionInv`, and
  `InPlaceInv` next to `ProvisionInv` and `OnceInv`.

Every run checks deadlock except `deploy_two_apps`, `deploy_restored_doc` (each
invocation is used once), `skwire_resolver` (one call), `secrets`, `provision`,
`skwire_chat` and `skwire_chat_doc` (a bounded number of calls, runs and
requests): there the system stops when its work is done.

**Why these bounds are enough.** Two runs are what a race takes, and the third
party of each race (an orphaned task, a lock held by the cluster, a dead job's
leftovers) is in the model besides. Two versions per service are the recorded
one and the deployed one; a third is what the violation needs. Two services in
one app are a loop with a visited and an unvisited element. One mishap can hit
any step of any run, and a second (in the liveness and stages runs) hits the
recovery from the first. The graphs of four nodes contain a diamond, a cycle
with a tail, and two independent chains. In the fabric the two keys meet in one
node's file, which is where rewriting whole files can hurt, and each of the
three kinds of injector is present. Between two backends every kind is read,
written, migrated from and migrated to; two calls and two faults are a write or
migration, a second one in the middle of it, and a failure of each. A script meets
every state that a run of it which stopped anywhere, with another configuration,
can leave; three events are its first run, one that fails, and a change by hand
or a lost answer. The names of which an application takes a second object, those
it ships with, and those an administrator may not have made yet are given in
`MCProvision`. Two people and two packs are what it takes for one request to
iterate while another registers, and for two to register the same; the program of
the package manager is what cannot be installed, and the community catalog may
take one of the packs over. The proofs remove the bounds from the safety
properties but those named in section 5.

**Fairness.** `skbloom_liveness` assumes that an operator resumes what
stopped (the command line tells them to), and that a step's command which is
attempted again and again succeeds at some point; failures that nobody sees are
off, as no resume can repair what a ledger calls done. Crashes and resets are
bounded by `MaxMishaps` and not fair. `skwire_resolver` assumes that a function
that was called runs. `skwire_chat` assumes that a request which was sent is
worked on (what a handler waits for, the catalog and the model, has timeouts)
and that a person who gets no answer asks again; nobody has to ask for anything,
and restarts are not fair.

## 5. What is proved

TLAPS checks these for every value of the constants that satisfies the modules'
assumptions; each argument is an inductive invariant, and each invariant but `FileInv` and
`InOrder`, which stand with the proofs, is also one that TLC checks.

| Module | Theorem | From |
|---|---|---|
| `SkstacksDeployProofs` | `TypeCorrect`: `TypeOK` always | - |
| | `DeployInvariant`: `DeployInv` always | `ClusterExcludes` |
| | `RestoredIsRecorded`: `UpdatedMeansRestored` always | `ClusterExcludes` |
| | `OnlyJustifiedRollbacks`: `RollbackIsJustified` | `ClusterExcludes` |
| | `RecordFilesAreOwn`: `OwnRecordFile` always | `ClusterExcludes` |
| `SkbloomInstallProofs` | `SkbloomInvariant`, `LedgersAreSound` | - |
| | `OneClusterComplete`: `CompleteMeansDeployed` always | one cluster, no service named within another |
| | `SkbloomImplements`: `Spec => Resumable!Spec` | one profile, no step twice in its flow |
| `SkwireStagesProofs` | `StagesInvariant`; `StagesImplement`: `Spec => Resumable!Spec` | - |
| `SkwireResolverProofs` | `ResolverInvariant`, `OrderIsBringUpOrder`, `OutcomeIsRight` | - |
| `SkwireFabricProofs` | `FabricInvariant`, `SuccessMeansWired`, `NodesAreGivenAsPlanned` | - |
| `SecretBackendsProofs` | `SecretsInvariant`, `ScopesAreKept`: `ScopesKept` always | - |
| | `CopyInvariant`; `MigrationsAreWhole`: `MigratedWhole` always | - |
| `ProvisionProofs` | `ProvisionInvariant`; `ProvidersAreKept`: `ProviderKept` | `AppsAssumption` |
| | `LinkInvariant`; `OneAccount`: `OneAccountPerKey` always | `LinksAssumption` |
| | `OnceInvariant`; `EachMadeOnce`: `MadeOnce` always | `OnceAssumption` |
| | `InPlaceInvariant`; `ExitIsInPlace`: `ExitMeansInPlace` always | `OnceAssumption`, `InPlaceAssumption` |
| `SkwireChatProofs` | `ChatInvariant`; `OnlyTheAskedFor`: `OnlyAsked` always | `ChatAssumption` |
| | `KeptInvariant`; `AnswersAreKept`: `AnswerKept` always | `ChatAssumption` |

*Deploy.* That a service is restored says nothing about the steps before, so
`DeployInv` adds: the lock is held by exactly the runs inside `execute_locked`
and no two of them conflict (`LockInv`); every failing service is still to
visit, rolled back, or still failing (`LoopInv`); and the recorded version is
either current, or the PreviousSpec, or restored, by how often the service
changed since (`RecordInv`). The last is inductive only because of the first:
no other run touches the app. `ClusterExcludes` states that a lock on the
cluster excludes those on services; sk-lock is not in the repository, and without
it the theorem is false. `FileInv` is about what an operator is pointed at: only
`Record` writes a file, its name is the app's and the second's, and the one run
of an app that holds the lock writes all files of that name in that second that
are not another app's. A file it did not write is therefore from before it took
the lock, when every run of its app that had written was over.

*skbloom.* `LedgerSound` is about the deploy steps, and follows from such a step
being recorded only after its rollout was waited for or its check saw pods, and a
cluster never losing what it shows: what a k8s cluster shows of services has
rolled out or is half way there (`PodsOfDeploys`). `Progress` (a run has every step it passed in its memory) carries this to
the end of the flow. With two clusters a ledger may be the other's: hence the
assumption, and the finding below. For the refinement, `InOrder` says that the
ledger and every run's memory are beginnings of the flow, and their services were
all attained: a run that gets a deploy done holds exactly the deploys before it,
so what was attained grows by that service or has it already. A step that fails
unseen is recorded but attains nothing, and the refinement does not speak of it.

*Stages.* Behind the state file, every run holds a beginning of the stages that
were performed (`StagesInv`); of two beginnings one contains the other, so that
a save by a run that is behind shrinks the ledger but never makes it name a
stage that was not performed. The refinement maps a set to the number of stages
in it.

*Resolver.* That no knot (a set of nodes each of which needs one of them) lies in
what is placed would need an induction over the order. It is part of the
invariant instead: placing a node that needs only placed ones adds none.

*Fabric.* What a job's injector does not serve is none of its business in any of
the following. `Apart` keeps the keys and files of an undisturbed job its own while it
runs, and lets other jobs at its files one at a time afterwards; `InPlace` says
that what it injected is on disk, or in the buffer of the one job that is
rewriting the file; `MemoryOK` says what each job remembers, and that a buffer
holds nothing that no plan gives.

*Secrets.* `Unprotected` never goes back to false, so only scopes that have been
protected all along matter. There the one rewriter is the caller (`ScopeOK`), and
it found the file at rest, which decrypts to what is expected; nothing wrote in
between, so its buffer is what is expected with its own keys changed
(`BufferOK`), and that is what is in the file once it is encrypted. A server
needs none of this: a `Put` changes one key there and in what is expected.

*Migration.* `CopyInv` is relative to keys that nobody else has touched since the
scope was listed. What a migration has got of such a key is what the source is
expected to hold (`Gathered`), and by `SecretsInv` that is what a read finds; what
it has put is there (`Copied`). `Unread` excludes the one way to read something
else: a file in the middle of being written does not decrypt, and a migration
never writes the scope it reads, as source and destination differ. `Whole` then
follows at the step that reports the scope.

*Provision.* An application is changed either by a step that sends the provider's
key among its references or by the tile, which sends none. `ProvisionInv` carries
that whoever gets to a step has the keys of the steps before it, because those
end a run that cannot get them, and that the tile's request has no provider
field. Deleting only what is a link, the pruning touches no application either.
`AppsAssumption` says this of the scripts.

A fingerprint's other account is looked for in a list that is read once, while
the run itself goes on linking. `LinkInv` therefore adds: while nobody else
touches what the run names, every link there is is either in the list as it is
now or what the script asks for (`Fresh`), and a link about to be sent is in the
list for no other account (`Clear`). Unless the configuration asks for one
fingerprint twice (`Twice`), the two together make it new. `LinksAssumption` says
of the scripts that they read the list after the pruning and before the first
link, and that an error ends them. Runs that were disturbed are exempt, by name of what they wrote
(`shared`): the code has nothing that would keep two of them apart.

That reruns duplicate nothing takes `OnceInv`. A name that the application keeps
unique has one object because it refuses a second. For the others the run looks
before it creates, and what it missed is still missing when the request arrives
(`MissingOK`), unless somebody else was at work, which makes the run disturbed
and what it writes `shared`. A lost answer changes nothing here: the next run
looks again. Links that the application itself keeps one of (`Adding`) are the
third case: they are compared by what they refer to, so `AddOK` says that this
is always the same objects, and still there: an object that goes takes its
links along, and one made later under its name has another key (`BornOK`).
`OnceAssumption` says that such links are made by this one kind of step,
between the same unique objects wherever they occur, after steps that got their
keys, and that an error ends the script. Without that condition a script that
goes on after an error could add a second link with fewer references.

`ExitMeansInPlace` speaks of the end of a run only, so `InPlaceInv` carries it
there. As long as a run is undisturbed and has counted no error (`Smooth`),
every step behind it is done (`Behind`) and stays so: what later steps write has
another name, or is a key that an earlier step has not set. Doing the next step
takes three more facts. The keys the run remembers are those of objects that
there are (`Keyed`), so that what it refers to exists and is what the name now
means. Its list, though read once, still agrees with the application about every
object it has yet to look up in it (`Ahead`). And what it sends makes up for
exactly what the object lacks (`Sending`), what it prunes is exactly what is
unwanted (`Pruning`): both were worked out before the request, and nothing
happened since. `OnceInv` is what allows "the object of that name" to be spoken
of while another of the name might be around. `InPlaceAssumption` says of the
scripts what this takes: a step that compares references names only unique
objects that an earlier step has got; no step undoes an earlier one; pruning
deletes no link that an earlier step made, and no later step makes one that it
would have deleted; what is looked up in a list is in it, and no other step
writes it.

These four assumptions on `Plan` are about the scripts' text, and TLC evaluates
them on every plan of `ProvisionScripts`; a script that is changed so as to
break one (two steps that configure one object differently, say) breaks the
run before it breaks a proof. `ProvisionAssumption`, which gives the constants
their types, is needed by all of them.

*Chat.* From what a person sends, through what the router makes of it, the
decision, the offerings still to be installed and the pack that is being made,
everything on the way to the server's registry was asked for since it started, or
swept in by a model (`wanted`, `Traced`). A restart empties the registry and what was asked together. `KeptInv`
is the other direction: what is due to a request is registered or still among
the offerings it has to install; a catalog that has been loaded offers every
built-in pack, whatever the community catalog replaces; and the registry only
grows until a restart, which also ends the requests. `ChatAssumption` says that
every pack comes with a first-party offering, as `catalog.py:47` has it.

Only model-checked: the three liveness properties (`ResumeCompletes`, `Terminates`,
`EveryAddLands`), as fairness and ENABLED are out of the proof system's reach. Every invariant and every step property of the
runs that pass is the statement of a theorem. What the pure operators of
`SkwirePacks` yield is evaluated, not proved: they are about five fixed packs.

## 6. Where code and documentation differ

1. `deploy_restored_doc`: `docker service update --rollback` goes to docker's
   PreviousSpec. When the playbook fails before it reaches a service that is
   failing anyway, that is a version older than the recorded one, and the tool
   reports it as restored to its recorded spec (`tools/skstacks_deploy.py:408`).
2. `skbloom_ledger_doc`: the command line keeps one ledger for all clusters and
   platforms (`v2/skbloom/cli.py:38`). After sksso was deployed to a swarm, `up`
   for a k8s cluster sets that up, skips `deploy:sksso`, which the ledger names,
   and prints done, although `v2/skbloom/flow.py:183` has the step not done until
   the workload is Ready.
3. `skwire_chat_doc`: where the router understands nothing, `api_chat` drops a
   model's `add_one` but carries out its `add_all`
   (`v2/skwire/web/server.py:148-155`), although its comment honours non-install
   intents only and `v2/skwire/chat.py:48` calls the router's phrase the only path
   to the whole stack.

More that a reader of the documentation would not expect, which the models contain
as the code has it, and which the properties name as their exceptions:

- A pod with some of its containers up satisfies the check of a deploy step
  (`v2/skbloom/flow.py:93-95`), after which nobody waits for the rollout that
  line 183 speaks of (`partly`).
- `rotate` takes no approval token and wires whatever is registered by then,
  although `v2/skwire/approval.py:8` has the executor check the token before it
  mutates anything. It also gives every target to one injector
  (`v2/skwire/executor.py:75-79`), so that after a routed `execute` a rotation
  reports success with nodes of other kinds left at the old value (`serves`).
- An MCP server that is up but answers a read with an error makes `set` replace
  the scope by its new key (`v2/secrets/capauth/backend.py:338-347`).
- `wire.py` exits 0 with indexers left out for want of a definition (`omitted`),
  and with indexers that lack their tag.
- A fingerprint that `CAPAUTH_USERS` gives to two users is linked to both, while
  `v1/ansible/optional/sksso/README.md:197` says that a fingerprint linked to
  somebody else is refused (`Twice`).
- The words of a model that agree with the router are shown also where the
  offering then cannot be installed (a program of the package manager, a pack that
  the community catalog replaces); the answer carries the reason next to them.
- A community catalog whose entry has a null category makes `list_offerings`
  raise in every later chat. `ChatAssumption` leaves such entries out.

## 7. What is not modelled

- Inside the modelled components: return codes 1 and 3 of a deploy beyond who
  gets which, wording of reports; skbloom's day-2 calls, which pass one command
  on, and its choice of services; a node that is declared anew with another
  `api_kind`, and the schedule of rotations; the login steps of the backends and
  of the scripts.
- skwire's preflight, explanations and branding, and the installation of a model:
  probes and texts that no later step depends on.
- skbackup and certs-watch: bash programs on the storage hosts and in the proxy
  containers, which share no state with what is modelled. They come next (see
  section 2); their hazards are listed in `PROJECT.json`.
- The loader of the repository's own descriptors (`packs/skstacks_bridge.py`): a
  pure function from descriptors to nodes of the graph.
- skred, skrender, error-pages, signer, skha and skbloom's concierge: pure, or one
  external call per request.
- Roles, templates, manifests: declarations that other programs execute.
