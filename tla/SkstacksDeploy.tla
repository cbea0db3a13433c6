--------------------------- MODULE SkstacksDeploy ---------------------------
(***************************************************************************)
(* tools/skstacks_deploy.py: the one-command deploy of a service with       *)
(* automatic rollback.  Several invocations ("runs") share one instance     *)
(* directory, one docker swarm and one sk-lock.  A run goes through         *)
(*                                                                          *)
(*   main -> sk-lock -> backup -> snapshot -> record -> playbook -> verify  *)
(*        -> judge -> (restore) -> exit                                     *)
(*                                                                          *)
(* What is abstracted: a docker spec is a version number (0: no such        *)
(* service), replica health is whatever the docker CLI answers at that      *)
(* moment, a hook is its return code, and every subprocess may time out.    *)
(* External, modelled by what the tool observes of them: docker's Spec and  *)
(* PreviousSpec, the playbook, and sk-lock.                                 *)
(***************************************************************************)
EXTENDS Integers, FiniteSets

CONSTANTS
    Run,             \* invocations of skstacks-deploy, each used once
    App,             \* framework apps that have a probe.yml
    Name,            \* compose service names, unqualified
    Services,        \* probe["services"] of every app
    SwarmApps,       \* apps whose probe says mode: swarm
    SchemaApps,      \* apps whose probe says schema_changing: true
    Seconds,         \* values of utc_ts(): a run directory is named by one
    ClusterLock,     \* the target of sk-lock --cluster
    ClusterExcludes, \* does sk-lock --cluster exclude the per-service locks?
    Nobody,          \* "no run wrote this record file yet"
    MaxVersion       \* bound: versions of one docker service

ASSUME DeployAssumption ==
    /\ App # {} /\ Seconds # {}
    /\ Services \in [App -> SUBSET Name]
    /\ \A a \in App : Services[a] # {}        \* validate_probe refuses []
    /\ SwarmApps \subseteq App /\ SchemaApps \subseteq App
    /\ ClusterLock \notin App
    /\ ClusterExcludes \in BOOLEAN
    /\ Nobody \notin Run \X App
    /\ MaxVersion \in Nat \ {0}

VARIABLES
    \* the runs
    pc,        \* phase of every run
    app,       \* its service argument
    target,    \* what it asks sk-lock for: its app, or the cluster
    second,    \* utc_ts() when its run directory was made
    records,   \* records[r][n]: recorded version of service n, 0 when none
    todo,      \* names the current loop of the run still has to visit
    failing,   \* the set failing of the verify phase
    still,     \* the set still_failing of the restore phase
    exit,      \* the process exit code, NoExit while it runs
    \* shared by the runs
    holders,   \* runs whose sk-lock was granted
    recordFile,\* recordFile[d][n]: the run and app that last wrote records/n.json
    spec,      \* docker: current version of every service, 0 when absent
    prev,      \* docker: version of its PreviousSpec, 0 when it has none
    newest,    \* docker: the last version number given out per service
    late,      \* services a killed playbook's orphaned task may still update
    \* history, read by properties only
    touched,   \* how the spec changed since the run recorded it
    restored   \* names whose rollback the run saw succeed

runVars  == <<pc, app, target, second, records, todo, failing, still, exit>>
dockVars == <<spec, prev, newest>>
histVars == <<touched, restored>>
vars == <<runVars, dockVars, histVars, holders, recordFile, late>>

-----------------------------------------------------------------------------
NoExit == -1
Version == 0 .. MaxVersion
Svc == {s \in App \X Name : s[2] \in Services[s[1]]}

\* The phases in which execute_locked runs, i.e. under the lock.
Locked == {"backup", "snapshot", "record", "playbook", "verify", "judge", "restore"}
Phase == {"idle", "waiting", "done", "crashed"} \cup Locked
Touch == {"untouched", "updated", "more"}

svcOf(r, n) == <<app[r], n>>
names(r) == Services[app[r]]

\* What a run's variables hold while it is not running.
AnyApp == CHOOSE a \in App : TRUE
AnySecond == CHOOSE d \in Seconds : TRUE
NoRecords == [n \in Name |-> 0]
NoTouch == [n \in Name |-> "untouched"]

\* Line 369: the apps whose failing services are rolled back automatically.
AutoRestore(a) == a \in SwarmApps /\ a \notin SchemaApps

TypeOK ==
    /\ pc \in [Run -> Phase]
    /\ app \in [Run -> App]
    /\ target \in [Run -> App \cup {ClusterLock}]
    /\ second \in [Run -> Seconds]
    /\ records \in [Run -> [Name -> Version]]
    /\ todo \in [Run -> SUBSET Name]
    /\ failing \in [Run -> SUBSET Name]
    /\ \A r \in Run : todo[r] \cup failing[r] \subseteq
                        IF pc[r] \in Locked THEN names(r) ELSE {}
    /\ still \in [Run -> SUBSET Name]
    /\ exit \in [Run -> {NoExit, 0, 1, 2, 3, 64, 75}]
    /\ holders \subseteq Run
    /\ recordFile \in [Seconds -> [Name -> (Run \X App) \cup {Nobody}]]
    /\ spec \in [Svc -> Version]
    /\ prev \in [Svc -> Version]
    /\ newest \in [Svc -> Version]
    /\ late \subseteq Svc
    /\ touched \in [Run -> [Name -> Touch]]
    /\ restored \in [Run -> SUBSET Name]

\* A service is absent, was created once, or has been updated since.
\* Apps in compose mode have no swarm service at all.
Init ==
    /\ pc = [r \in Run |-> "idle"]
    /\ app = [r \in Run |-> AnyApp]
    /\ target = [r \in Run |-> ClusterLock]
    /\ second = [r \in Run |-> AnySecond]
    /\ records = [r \in Run |-> NoRecords]
    /\ todo = [r \in Run |-> {}]
    /\ failing = [r \in Run |-> {}]
    /\ still = [r \in Run |-> {}]
    /\ exit = [r \in Run |-> NoExit]
    /\ holders = {}
    /\ recordFile = [d \in Seconds |-> [n \in Name |-> Nobody]]
    /\ newest \in [Svc -> {v \in {0, 1, 2} : v <= MaxVersion}]
    /\ \A s \in Svc : s[1] \notin SwarmApps => newest[s] = 0
    /\ spec = newest
    /\ prev = [s \in Svc |-> IF newest[s] = 2 THEN 1 ELSE 0]
    /\ late = {}
    /\ touched = [r \in Run |-> NoTouch]
    /\ restored = [r \in Run |-> {}]

-----------------------------------------------------------------------------
(* Steps of a run.                                                          *)

Goto(r, phase) == pc' = [pc EXCEPT ![r] = phase]

locals == <<app, target, second, records, todo, failing, still>>
shared == <<recordFile, late, dockVars>>

\* The process is gone: its memory with it, and sk-lock's lock (the command
\* was exec'd under it).  Only the exit code is left.
End(r, phase, code) ==
    /\ Goto(r, phase)
    /\ exit' = [exit EXCEPT ![r] = code]
    /\ holders' = holders \ {r}
    /\ app' = [app EXCEPT ![r] = AnyApp]
    /\ target' = [target EXCEPT ![r] = ClusterLock]
    /\ second' = [second EXCEPT ![r] = AnySecond]
    /\ records' = [records EXCEPT ![r] = NoRecords]
    /\ todo' = [todo EXCEPT ![r] = {}]
    /\ failing' = [failing EXCEPT ![r] = {}]
    /\ still' = [still EXCEPT ![r] = {}]
    /\ touched' = [touched EXCEPT ![r] = NoTouch]
    /\ restored' = [restored EXCEPT ![r] = {}]

Finish(r, code) == End(r, "done", code)

\* main: the arguments name an app and, without --cluster, its lock.  A bad
\* name or a bare --locked-run is refused (64), a missing or malformed
\* probe.yml raises DeployError (3), a dry run stops at the plan (0);
\* otherwise the script re-execs itself under sk-lock.
Invoke(r) ==
    /\ pc[r] = "idle"
    /\ \/ /\ Goto(r, "waiting")
          /\ \E a \in App, cluster \in BOOLEAN :
                /\ app' = [app EXCEPT ![r] = a]
                /\ target' = [target EXCEPT ![r] = IF cluster THEN ClusterLock ELSE a]
          /\ UNCHANGED <<second, records, todo, failing, still, exit, holders, histVars>>
       \/ \E code \in {64, 3, 0} : Finish(r, code)
    /\ UNCHANGED shared

\* Two locks that sk-lock does not grant together.
Conflict(t, u) == t = u \/ (ClusterExcludes /\ ClusterLock \in {t, u})

\* A --locked-run that no lock protects.
AcquireUnlocked(r) ==
    /\ pc[r] = "waiting"
    /\ holders' = holders \cup {r}
    /\ \E d \in Seconds : second' = [second EXCEPT ![r] = d]
    /\ Goto(r, "backup")
    /\ UNCHANGED <<app, target, records, todo, failing, still, exit, histVars, shared>>

\* sk-lock grants the lock and execs the wrapped --locked-run command, whose
\* first act is to make the run directory named by the current second.
AcquireLock(r) ==
    /\ pc[r] = "waiting"
    /\ \A q \in holders : ~Conflict(target[r], target[q])
    /\ holders' = holders \cup {r}
    /\ \E d \in Seconds : second' = [second EXCEPT ![r] = d]
    /\ Goto(r, "backup")
    /\ UNCHANGED <<app, target, records, todo, failing, still, exit, histVars, shared>>

\* -w expired: sk-lock exits 75 and never runs the command.
LockTimeout(r) ==
    /\ pc[r] = "waiting"
    /\ \E q \in holders : Conflict(target[r], target[q])
    /\ Finish(r, 75)
    /\ UNCHANGED shared

\* db_dump_hook: absent, succeeds, fails or times out.
DumpHook(r) ==
    /\ pc[r] = "backup"
    /\ \/ Goto(r, "snapshot") /\ UNCHANGED <<locals, exit, holders, histVars>>
       \/ Finish(r, 3)
    /\ UNCHANGED shared

\* snapshot_hook: missing without allow_no_snapshot_hook, failed or timed out
\* aborts; otherwise the record loop starts over every declared service.
SnapshotHook(r) ==
    /\ pc[r] = "snapshot"
    /\ \/ /\ Goto(r, "record")
          /\ todo' = [todo EXCEPT ![r] = names(r)]
          /\ UNCHANGED <<app, target, second, records, failing, still, exit,
                         holders, histVars>>
       \/ Finish(r, 3)
    /\ UNCHANGED shared

\* docker_inspect: the current version, or None (0) when the service is
\* absent, the call fails or it times out.
inspectResults(s) == {spec[s], 0}

\* One turn of the record loop.
Record(r, n) ==
    /\ pc[r] = "record"
    /\ n \in todo[r]
    /\ \E v \in inspectResults(svcOf(r, n)) :
          /\ records' = [records EXCEPT ![r][n] = v]
          /\ recordFile' = IF v = 0 THEN recordFile
                           ELSE [recordFile EXCEPT ![second[r]][n] = <<r, app[r]>>]
    /\ todo' = [todo EXCEPT ![r] = @ \ {n}]
    /\ touched' = [touched EXCEPT ![r][n] = "untouched"]
    /\ UNCHANGED <<pc, app, target, second, failing, still, exit, holders,
                   late, dockVars, restored>>

StartPlaybook(r) ==
    /\ pc[r] = "record"
    /\ todo[r] = {}
    /\ Goto(r, "playbook")
    /\ UNCHANGED <<app, target, second, records, todo, failing, still, exit,
                   holders, recordFile, late, dockVars, histVars>>

\* What a playbook does to one service, an update in place (docker keeps the
\* old spec as PreviousSpec) or a removal and creation (it does not).
DockerUpdate(s) ==
    /\ newest[s] < MaxVersion
    /\ newest' = [newest EXCEPT ![s] = @ + 1]
    /\ spec' = [spec EXCEPT ![s] = newest[s] + 1]
    /\ prev' \in {[prev EXCEPT ![s] = spec[s]], [prev EXCEPT ![s] = 0]}

\* One task of the playbook.  History: the first update in place is "updated".
PlaybookTask(r, n) ==
    /\ pc[r] = "playbook"
    /\ app[r] \in SwarmApps
    /\ n \in names(r)
    /\ DockerUpdate(svcOf(r, n))
    /\ touched' = [touched EXCEPT ![r][n] =
            IF @ = "untouched" /\ prev'[svcOf(r, n)] = spec[svcOf(r, n)]
            THEN "updated" ELSE "more"]
    /\ UNCHANGED <<runVars, holders, recordFile, late, restored>>

\* An orphaned task can only be one of a swarm playbook.
orphans(r) == {{}} \cup IF app[r] \in SwarmApps
                        THEN {{svcOf(r, n)} : n \in names(r)} ELSE {}

\* The playbook returns 0, or non-zero, or is killed at playbook_timeout (its
\* task in flight may still land).  A failed one makes every declared service
\* failing and skips the verify loop and the checks.
EndPlaybook(r) ==
    /\ pc[r] = "playbook"
    /\ \/ /\ Goto(r, "verify")
          /\ todo' = [todo EXCEPT ![r] = names(r)]
          /\ UNCHANGED <<failing, late>>
       \/ /\ Goto(r, "judge")
          /\ failing' = [failing EXCEPT ![r] = names(r)]
          /\ \E orphan \in orphans(r) : late' = late \cup orphan
          /\ UNCHANGED todo
    /\ UNCHANGED <<app, target, second, records, still, exit, holders,
                   recordFile, dockVars, histVars>>

\* One turn of the verify loop: re-inspect, and fail the service when it
\* exists and is not seen running its desired replicas.
Verify(r, n) ==
    /\ pc[r] = "verify"
    /\ n \in todo[r]
    /\ \/ UNCHANGED failing
       \/ /\ spec[svcOf(r, n)] # 0
          /\ failing' = [failing EXCEPT ![r] = @ \cup {n}]
    /\ todo' = [todo EXCEPT ![r] = @ \ {n}]
    /\ UNCHANGED <<pc, app, target, second, records, still, exit, holders,
                   recordFile, late, dockVars, histVars>>

\* One failure fails every service of every app.
AppChecksAnyName(r) ==
    /\ pc[r] = "verify" /\ todo[r] = {}
    /\ failing' \in {failing, [failing EXCEPT ![r] = Name]}
    /\ Goto(r, "judge")
    /\ UNCHANGED <<app, target, second, records, todo, still, exit, holders,
                   recordFile, late, dockVars, histVars>>

\* http_checks and parity_hook: one failure fails the whole app.
AppChecks(r) ==
    /\ pc[r] = "verify"
    /\ todo[r] = {}
    /\ failing' \in {failing, [failing EXCEPT ![r] = names(r)]}
    /\ Goto(r, "judge")
    /\ UNCHANGED <<app, target, second, records, todo, still, exit, holders,
                   recordFile, late, dockVars, histVars>>

\* auto_restore looks at the mode only.
JudgeForgetsSchema(r) ==
    /\ pc[r] = "judge"
    /\ \/ failing[r] = {} /\ Finish(r, 0)
       \/ failing[r] # {} /\ app[r] \notin SwarmApps /\ Finish(r, 3)
       \/ /\ failing[r] # {} /\ app[r] \in SwarmApps
          /\ Goto(r, "restore")
          /\ todo' = [todo EXCEPT ![r] = failing[r]]
          /\ UNCHANGED <<app, target, second, records, failing, still, exit,
                         holders, histVars>>
    /\ UNCHANGED shared

\* Nothing failing: exit 0.  Not auto-restorable: print the manual steps and
\* exit 3.  Otherwise start the restore loop over the failing services.
Judge(r) ==
    /\ pc[r] = "judge"
    /\ \/ failing[r] = {} /\ Finish(r, 0)
       \/ failing[r] # {} /\ ~AutoRestore(app[r]) /\ Finish(r, 3)
       \/ /\ failing[r] # {} /\ AutoRestore(app[r])
          /\ Goto(r, "restore")
          /\ todo' = [todo EXCEPT ![r] = failing[r]]
          /\ UNCHANGED <<app, target, second, records, failing, still, exit,
                         holders, histVars>>
    /\ UNCHANGED shared

\* docker service update --rollback: Spec and PreviousSpec change places.  It
\* is refused for an absent service or one without a PreviousSpec.
CanRollback(s) == spec[s] # 0 /\ prev[s] # 0
Rollback(s) ==
    /\ CanRollback(s)
    /\ spec' = [spec EXCEPT ![s] = prev[s]]
    /\ prev' = [prev EXCEPT ![s] = spec[s]]
    /\ UNCHANGED newest

StillFailing(r, n) == still' = [still EXCEPT ![r] = @ \cup {n}]

\* The return code of the rollback is not looked at.
RestoreIgnoresRc(r, n) ==
    /\ pc[r] = "restore" /\ n \in todo[r]
    /\ todo' = [todo EXCEPT ![r] = @ \ {n}]
    /\ \/ StillFailing(r, n) /\ UNCHANGED <<dockVars, restored>>
       \/ /\ records[r][n] # 0
          /\ Rollback(svcOf(r, n)) \/ UNCHANGED dockVars
          /\ restored' = [restored EXCEPT ![r] = @ \cup {n}]
          /\ UNCHANGED still
    /\ UNCHANGED <<pc, app, target, second, records, failing, exit, holders,
                   recordFile, late, touched>>

\* One turn of the restore loop: no record, a failed rollback (one that timed
\* out may have been applied) or too few replicas leave n still failing.
Restore(r, n) ==
    /\ pc[r] = "restore"
    /\ n \in todo[r]
    /\ todo' = [todo EXCEPT ![r] = @ \ {n}]
    /\ \/ /\ records[r][n] = 0
          /\ StillFailing(r, n)
          /\ UNCHANGED <<dockVars, restored>>
       \/ /\ records[r][n] # 0
          /\ StillFailing(r, n)
          /\ Rollback(svcOf(r, n)) \/ UNCHANGED dockVars
          /\ UNCHANGED restored
       \/ /\ records[r][n] # 0
          /\ Rollback(svcOf(r, n))
          /\ restored' = [restored EXCEPT ![r] = @ \cup {n}]
          /\ StillFailing(r, n) \/ UNCHANGED still
    /\ UNCHANGED <<pc, app, target, second, records, failing, exit, holders,
                   recordFile, late, touched>>

Report(r) ==
    /\ pc[r] = "restore"
    /\ todo[r] = {}
    /\ Finish(r, IF still[r] = {} THEN 1 ELSE 2)
    /\ UNCHANGED shared

\* A Python exception nobody catches ends the process with status 1: making
\* the run directory, expanding the braces of a hook template
\* (str.format), or writing a record file.
Raise(r) ==
    /\ \/ pc[r] \in {"backup", "snapshot", "record"}
       \/ pc[r] = "verify" /\ todo[r] = {}
    /\ Finish(r, 1)
    /\ UNCHANGED shared

-----------------------------------------------------------------------------
(* Steps of the environment.                                                *)

\* The deploying process dies (a closed terminal, a reboot).  The kernel drops
\* its lock; a playbook it was running may have a task in flight.
Crash(r) ==
    /\ pc[r] \in Locked
    /\ End(r, "crashed", NoExit)
    /\ \E orphan \in IF pc[r] = "playbook" THEN orphans(r) ELSE {{}} :
          late' = late \cup orphan
    /\ UNCHANGED <<recordFile, dockVars>>

\* The orphaned task of a killed playbook updates its service, or gives up.
LateTask(s) ==
    /\ s \in late
    /\ late' = late \ {s}
    /\ \/ /\ DockerUpdate(s)
          /\ touched' = [r \in Run |-> IF pc[r] \in Locked /\ app[r] = s[1]
                                      THEN [touched[r] EXCEPT ![s[2]] = "more"]
                                      ELSE touched[r]]
       \/ UNCHANGED <<dockVars, touched>>
    /\ UNCHANGED <<runVars, holders, recordFile, restored>>

RunStep(r) ==
    \/ AcquireLock(r) \/ LockTimeout(r) \/ DumpHook(r) \/ SnapshotHook(r)
    \/ StartPlaybook(r) \/ EndPlaybook(r) \/ AppChecks(r) \/ Judge(r) \/ Report(r)
    \/ \E n \in Name : Record(r, n) \/ PlaybookTask(r, n) \/ Verify(r, n) \/ Restore(r, n)

Next ==
    \/ \E r \in Run : Invoke(r) \/ RunStep(r) \/ Raise(r) \/ Crash(r)
    \/ \E s \in Svc : LateTask(s)

Spec == Init /\ [][Next]_vars

-----------------------------------------------------------------------------
(* Properties.                                                              *)

\* The restore loop has visited every failing service without a complaint:
\* the run is about to say that all of them are back at their recorded spec.
ClaimsRestored(r) == pc[r] = "restore" /\ todo[r] = {} /\ still[r] = {}

\* A rollback goes to docker's PreviousSpec, not to the recorded spec.  The two
\* are the same for every failing service that changed once, by an update in
\* place, since it was recorded: no other run's playbook, and no rollback but
\* our own, may come between the record and the report.  (Lines 284-295,
\* 384-409; it is the lock of lines 475-480 that makes it true.)
UpdatedMeansRestored ==
    \A r \in Run : ClaimsRestored(r) =>
        \A n \in failing[r] :
            touched[r][n] = "updated" => spec[svcOf(r, n)] = records[r][n]

\* A service moves to a spec that is not new only when the run in charge of its
\* app has found it failing, has a record of it, and the app is neither
\* schema_changing nor outside swarm (lines 369-402): an irreversible
\* migration is never taken back, a healthy or first-deployed service never.
RollbackIsJustified ==
    [][\A s \in Svc :
         spec'[s] \notin {spec[s], newest[s] + 1} =>
            \E r \in holders :
                /\ pc[r] = "restore" /\ app[r] = s[1] /\ AutoRestore(app[r])
                /\ s[2] \in failing[r] /\ records[r][s[2]] # 0
                /\ \A q \in holders \ {r} : app[q] # app[r]]_vars

\* The manual steps name the record file of a failing service whenever it exists
\* (lines 284-295, 373-381).  It is the one this run wrote, with two exceptions,
\* as the run directory is named by the second alone: a run of another app with
\* a service of that name may have overwritten it; and a run whose inspect gave
\* nothing finds what a run of its own app that is over by now has left there.
\* That no run of its app is still at work on it needs the lock.
OwnRecordFile ==
    \A r \in Run :
        pc[r] = "judge" =>
            \A n \in names(r) :
                LET writer == recordFile[second[r]][n] IN
                \/ writer # Nobody /\ (writer[1] = r \/ writer[2] # app[r])
                \/ /\ records[r][n] = 0
                   /\ writer = Nobody \/ pc[writer[1]] \in {"done", "crashed"}

-----------------------------------------------------------------------------
(* The inductive invariant behind UpdatedMeansRestored and                  *)
(* RollbackIsJustified.                                                     *)

\* The lock: exactly the runs inside execute_locked hold one, and no two held
\* locks conflict.
LockInv ==
    /\ \A r \in Run : r \in holders <=> pc[r] \in Locked
    /\ \A r, q \in holders : r # q => ~Conflict(target[r], target[q])
    /\ \A r \in Run : target[r] \in {app[r], ClusterLock}

\* Only an auto-restorable app is in the restore loop; there every failing
\* service is still to visit, rolled back, or still failing.
RestoreLoop(r) ==
    IF pc[r] = "restore"
    THEN /\ AutoRestore(app[r])
         /\ todo[r] \subseteq failing[r]
         /\ failing[r] \subseteq todo[r] \cup still[r] \cup restored[r]
         /\ restored[r] \subseteq {n \in names(r) : records[r][n] # 0}
         /\ restored[r] \cap todo[r] = {}
    ELSE restored[r] = {} /\ still[r] = {}

LoopInv == \A r \in Run : RestoreLoop(r)

\* Where the recorded version of n is, from the moment r recorded it.
Holding(r, n) ==
    LET s == svcOf(r, n) IN
    /\ n \in restored[r] /\ touched[r][n] = "updated" => spec[s] = records[r][n]
    /\ pc[r] # "restore" \/ n \in todo[r] =>
          /\ touched[r][n] = "untouched" => spec[s] = records[r][n]
          /\ touched[r][n] = "updated" => prev[s] = records[r][n]

\* The names of a run whose recorded version is known and not 0.
recorded(r) ==
    {n \in names(r) :
        /\ pc[r] \in {"record", "playbook", "verify", "judge", "restore"}
        /\ pc[r] = "record" => n \notin todo[r]
        /\ records[r][n] # 0}

RecordInv == \A r \in Run : \A n \in recorded(r) : Holding(r, n)

DeployInv == TypeOK /\ LockInv /\ LoopInv /\ RecordInv

-----------------------------------------------------------------------------
(* What the documentation says, and the program does not do.                *)

\* skstacks_deploy.py:408 and README.md:29: exit 1 after a restore says that
\* the affected services are back at their recorded spec.
RestoredToRecordedSpec ==
    \A r \in Run : ClaimsRestored(r) =>
        \A n \in failing[r] : spec[svcOf(r, n)] = records[r][n]
=============================================================================
