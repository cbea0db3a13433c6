------------------------ MODULE SkstacksDeployProofs ------------------------
(***************************************************************************)
(* Proofs about SkstacksDeploy for every set of runs, apps and services:    *)
(* typing, and (from DeployInv) the two safety properties its runs check.   *)
(***************************************************************************)
EXTENDS SkstacksDeploy, TLAPS

-----------------------------------------------------------------------------
(* Typing. *)

\* The last part of TypeOK, for one run.
LoopsInside(r) ==
    todo[r] \cup failing[r] \subseteq IF pc[r] \in Locked THEN names(r) ELSE {}

\* The values a run's variables fall back to are of the right type.
LEMMA IdleValues ==
    /\ AnyApp \in App /\ AnySecond \in Seconds
    /\ NoRecords \in [Name -> Version] /\ NoTouch \in [Name -> Touch]
BY DeployAssumption DEF AnyApp, AnySecond, NoRecords, NoTouch, Version, Touch

\* A service a run may touch is one docker knows the name of.
LEMMA ServiceOfRun ==
    ASSUME TypeOK, NEW r \in Run, NEW n \in names(r)
    PROVE  svcOf(r, n) \in Svc /\ n \in Name
BY DeployAssumption DEF TypeOK, names, svcOf, Svc

\* A run that ends or crashes keeps the types of what it changes.
LEMMA EndTyping ==
    ASSUME TypeOK, NEW r \in Run, NEW phase \in {"done", "crashed"},
           NEW code \in {NoExit, 0, 1, 2, 3, 64, 75}, End(r, phase, code)
    PROVE  /\ pc' \in [Run -> Phase]
           /\ app' \in [Run -> App]
           /\ target' \in [Run -> App \cup {ClusterLock}]
           /\ second' \in [Run -> Seconds]
           /\ records' \in [Run -> [Name -> Version]]
           /\ todo' \in [Run -> SUBSET Name]
           /\ failing' \in [Run -> SUBSET Name]
           /\ still' \in [Run -> SUBSET Name]
           /\ exit' \in [Run -> {NoExit, 0, 1, 2, 3, 64, 75}]
           /\ holders' \subseteq Run
           /\ touched' \in [Run -> [Name -> Touch]]
           /\ restored' \in [Run -> SUBSET Name]
           /\ \A q \in Run : LoopsInside(q)'
BY IdleValues DEF TypeOK, End, Goto, Phase, Locked, names, LoopsInside

\* An update in place yields versions.
LEMMA UpdateTyping ==
    ASSUME TypeOK, NEW s \in Svc, DockerUpdate(s)
    PROVE  /\ spec' \in [Svc -> Version]
           /\ prev' \in [Svc -> Version]
           /\ newest' \in [Svc -> Version]
<1>1. newest[s] + 1 \in Version /\ 0 \in Version
  BY DeployAssumption DEF TypeOK, DockerUpdate, Version
<1>2. spec[s] \in Version
  BY DEF TypeOK
<1> QED
  BY <1>1, <1>2 DEF TypeOK, DockerUpdate

\* So does a rollback.
LEMMA RollbackTyping ==
    ASSUME TypeOK, NEW s \in Svc, Rollback(s)
    PROVE  /\ spec' \in [Svc -> Version]
           /\ prev' \in [Svc -> Version]
           /\ newest' \in [Svc -> Version]
BY DEF TypeOK, Rollback

\* The initial states have the right types.
LEMMA TypingInit == Init => TypeOK
<1> SUFFICES ASSUME Init PROVE TypeOK
  OBVIOUS
<1>1. newest \in [Svc -> Version]
  BY DeployAssumption DEF Init, Version
<1>2. prev \in [Svc -> Version]
  BY DeployAssumption, <1>1 DEF Init, Version
<1> QED
  BY <1>1, <1>2, IdleValues, DeployAssumption DEF Init, TypeOK, Phase, Locked

\* A run that ends leaves everything but its own variables alone.
LEMMA EndKeepsType ==
    ASSUME TypeOK, NEW r \in Run, NEW phase \in {"done", "crashed"},
           NEW code \in {NoExit, 0, 1, 2, 3, 64, 75}, End(r, phase, code),
           late' \subseteq Svc, UNCHANGED <<recordFile, dockVars>>
    PROVE  TypeOK'
BY EndTyping DEF TypeOK, dockVars, LoopsInside

\* Finishing, with any exit code, keeps the types.
LEMMA FinishKeepsType ==
    ASSUME TypeOK, NEW r \in Run, NEW code \in {NoExit, 0, 1, 2, 3, 64, 75},
           Finish(r, code), UNCHANGED shared
    PROVE  TypeOK'
<1>1. End(r, "done", code) /\ UNCHANGED <<recordFile, late, dockVars>>
  BY DEF Finish, shared
<1>2. late' \subseteq Svc
  BY <1>1 DEF TypeOK
<1> QED
  BY <1>1, <1>2, EndKeepsType

\* A step from one locked phase to another that starts a loop, or notes what
\* failed, leaves the rest alone.
LEMMA LoopKeepsType ==
    ASSUME TypeOK, NEW r \in Run, pc[r] \in Locked,
           NEW phase \in Locked, Goto(r, phase), NEW some, some \subseteq names(r),
           todo' \in {todo, [todo EXCEPT ![r] = some]},
           failing' \in {failing, [failing EXCEPT ![r] = some]},
           late' \subseteq Svc,
           UNCHANGED <<app, target, second, records, still, exit, holders,
                       recordFile, dockVars, histVars>>
    PROVE  TypeOK'
<1>1. some \in SUBSET Name
  BY DeployAssumption DEF TypeOK, names
<1>2. /\ todo' \in [Run -> SUBSET Name]
      /\ failing' \in [Run -> SUBSET Name]
  <2>1. todo \in [Run -> SUBSET Name] /\ failing \in [Run -> SUBSET Name]
    BY DEF TypeOK
  <2> QED
    BY <1>1, <2>1
<1>3. pc' \in [Run -> Phase]
  BY DEF TypeOK, Goto, Phase
<1>4. ASSUME NEW q \in Run PROVE LoopsInside(q)'
  BY DEF TypeOK, Goto, LoopsInside, names
<1> QED
  BY <1>2, <1>3, <1>4 DEF TypeOK, LoopsInside, dockVars, histVars

\* A run that only moves to another phase keeps the types.
LEMMA MoveKeepsType ==
    ASSUME TypeOK, NEW r \in Run, pc[r] \in Locked,
           NEW phase \in Locked, Goto(r, phase),
           UNCHANGED <<locals, exit, holders, histVars, shared>>
    PROVE  TypeOK'
<1>1. late' \subseteq Svc /\ {} \subseteq names(r)
  BY DEF TypeOK, shared
<1>2. todo' = todo /\ failing' = failing
  BY DEF locals
<1> QED
  BY <1>1, <1>2, LoopKeepsType DEF locals, shared

\* Visiting a name keeps the loop, and what it found failing, inside the probe.
LEMMA LoopTyping ==
    ASSUME TypeOK, NEW r \in Run, NEW n \in todo[r],
           todo' = [todo EXCEPT ![r] = @ \ {n}],
           failing' \in {failing, [failing EXCEPT ![r] = @ \cup {n}]},
           UNCHANGED <<pc, app>>
    PROVE  /\ todo' \in [Run -> SUBSET Name]
           /\ failing' \in [Run -> SUBSET Name]
           /\ \A q \in Run : (todo'[q] \cup failing'[q]) \subseteq
                               (IF pc'[q] \in Locked THEN names(q)' ELSE {})
<1>1. todo \in [Run -> SUBSET Name] /\ failing \in [Run -> SUBSET Name]
  BY DEF TypeOK
<1>2. n \in Name /\ \A q \in Run : names(q)' = names(q)
  BY <1>1 DEF names
<1>3. \A q \in Run : LoopsInside(q)
  BY DEF TypeOK, LoopsInside
<1> QED
  BY <1>1, <1>2, <1>3 DEF LoopsInside

\* Every step of a run keeps the types.
LEMMA TypingRun == ASSUME TypeOK, NEW r \in Run, RunStep(r) PROVE TypeOK'
<1>0. /\ Locked \subseteq Phase /\ names(r) \subseteq Name
      /\ \A p \in Phase : [pc EXCEPT ![r] = p] \in [Run -> Phase]
  BY DeployAssumption DEF Phase, TypeOK, names
<1>1. CASE AcquireLock(r)
  BY <1>0, <1>1 DEF AcquireLock, Goto, histVars, dockVars, TypeOK, Locked, shared, names, LoopsInside
<1>2. CASE LockTimeout(r)
  BY <1>2, FinishKeepsType DEF LockTimeout
<1>3. CASE DumpHook(r)
  <2>1. UNCHANGED shared
    BY <1>3 DEF DumpHook
  <2>2. CASE Goto(r, "snapshot") /\ UNCHANGED <<locals, exit, holders, histVars>>
    <3>1. pc[r] \in Locked /\ "snapshot" \in Locked /\ Goto(r, "snapshot")
      BY <1>3, <2>2 DEF DumpHook, Locked
    <3>2. UNCHANGED <<locals, exit, holders, histVars, shared>>
      BY <2>1, <2>2
    <3> QED
      BY <3>1, <3>2, MoveKeepsType
  <2> QED
    BY <1>3, <2>1, <2>2, FinishKeepsType DEF DumpHook
<1>4. CASE SnapshotHook(r)
  <2>1. UNCHANGED shared
    BY <1>4 DEF SnapshotHook
  <2>2. CASE Goto(r, "record") /\ todo' = [todo EXCEPT ![r] = names(r)]
             /\ UNCHANGED <<app, target, second, records, failing, still, exit,
                            holders, histVars>>
    <3>1. pc[r] \in Locked /\ "record" \in Locked /\ names(r) \subseteq names(r)
      BY <1>4 DEF SnapshotHook, Locked
    <3>2. late' \subseteq Svc /\ UNCHANGED <<recordFile, dockVars>>
      BY <2>1 DEF shared, TypeOK
    <3> QED
      BY <2>2, <3>1, <3>2, LoopKeepsType
  <2> QED
    BY <1>4, <2>1, <2>2, FinishKeepsType DEF SnapshotHook
<1>5. CASE StartPlaybook(r)
  <2>1. pc[r] \in Locked /\ "playbook" \in Locked /\ Goto(r, "playbook")
    BY <1>5 DEF StartPlaybook, Locked
  <2>2. UNCHANGED <<locals, exit, holders, histVars, shared>>
    BY <1>5 DEF StartPlaybook, locals, shared
  <2> QED
    BY <2>1, <2>2, MoveKeepsType
<1>6. CASE EndPlaybook(r)
  <2>1. \A orphan \in orphans(r) : orphan \subseteq Svc
    BY ServiceOfRun DEF orphans
  <2>2. late' \subseteq Svc
    BY <1>6, <2>1 DEF EndPlaybook, TypeOK
  <2>3. /\ pc[r] \in Locked
        /\ UNCHANGED <<app, target, second, records, still, exit, holders,
                       recordFile, dockVars, histVars>>
    BY <1>6 DEF EndPlaybook, Locked
  <2>4. CASE /\ Goto(r, "verify") /\ todo' = [todo EXCEPT ![r] = names(r)]
             /\ UNCHANGED failing
    BY <1>0, <2>2, <2>3, <2>4, LoopKeepsType DEF Locked
  <2>5. CASE /\ Goto(r, "judge") /\ failing' = [failing EXCEPT ![r] = names(r)]
             /\ UNCHANGED todo
    BY <1>0, <2>2, <2>3, <2>5, LoopKeepsType DEF Locked
  <2> QED
    BY <1>6, <2>4, <2>5 DEF EndPlaybook
<1>7. CASE AppChecks(r)
  <2>1. /\ pc[r] \in Locked /\ Goto(r, "judge") /\ UNCHANGED <<todo, shared>>
        /\ UNCHANGED <<app, target, second, records, still, exit, holders, histVars>>
    BY <1>7 DEF AppChecks, Locked, shared
  <2>2. CASE UNCHANGED failing
    BY <1>0, <2>1, <2>2, LoopKeepsType DEF Locked, shared, TypeOK
  <2>3. CASE failing' = [failing EXCEPT ![r] = names(r)]
    BY <1>0, <2>1, <2>3, LoopKeepsType DEF Locked, shared, TypeOK
  <2> QED
    BY <1>7, <2>2, <2>3 DEF AppChecks
<1>8. CASE Judge(r)
  <2>1. UNCHANGED shared
    BY <1>8 DEF Judge
  <2>2. ASSUME NEW code \in {0, 3}, Finish(r, code) PROVE TypeOK'
    BY <2>1, <2>2, FinishKeepsType
  <2>3. CASE /\ Goto(r, "restore") /\ todo' = [todo EXCEPT ![r] = failing[r]]
             /\ UNCHANGED <<app, target, second, records, failing, still, exit,
                            holders, histVars>>
    <3>1. failing[r] \subseteq names(r) /\ pc[r] \in Locked
      BY <1>8 DEF Judge, TypeOK, Locked
    <3> QED
      BY <1>0, <2>1, <2>3, <3>1, LoopKeepsType DEF Locked, shared, TypeOK
  <2> QED
    BY <1>8, <2>2, <2>3 DEF Judge
<1>9. CASE Report(r)
  <2>1. PICK code \in {1, 2} : Finish(r, code)
    BY <1>9 DEF Report
  <2> QED
    BY <1>9, <2>1, FinishKeepsType DEF Report
<1>10. ASSUME NEW n \in Name, Record(r, n) PROVE TypeOK'
  <2>1. svcOf(r, n) \in Svc
    BY <1>10, ServiceOfRun DEF Record, TypeOK
  <2>2. PICK v \in inspectResults(svcOf(r, n)) :
           /\ records' = [records EXCEPT ![r][n] = v]
           /\ recordFile' = IF v = 0 THEN recordFile
                            ELSE [recordFile EXCEPT ![second[r]][n] = <<r, app[r]>>]
    BY <1>10 DEF Record
  <2>3. v \in Version
    BY <2>1, DeployAssumption DEF inspectResults, TypeOK, Version
  <2>4. /\ records' \in [Run -> [Name -> Version]]
        /\ recordFile' \in [Seconds -> [Name -> (Run \X App) \cup {Nobody}]]
    BY <1>10, <2>2, <2>3 DEF TypeOK
  <2>5. /\ todo' = [todo EXCEPT ![r] = @ \ {n}]
        /\ touched' = [touched EXCEPT ![r][n] = "untouched"]
        /\ UNCHANGED <<pc, app, target, second, failing, still, exit, holders,
                       late, dockVars, restored>>
    BY <1>10 DEF Record
  <2>6. touched' \in [Run -> [Name -> Touch]]
    BY <2>5 DEF TypeOK, Touch
  <2> QED
    BY <2>4, <2>5, <2>6, LoopTyping DEF TypeOK, dockVars, names
<1>11. ASSUME NEW n \in Name, PlaybookTask(r, n) PROVE TypeOK'
  <2>1. svcOf(r, n) \in Svc /\ DockerUpdate(svcOf(r, n))
    BY <1>11, ServiceOfRun DEF PlaybookTask
  <2>2. touched' \in [Run -> [Name -> Touch]]
    BY <1>11 DEF PlaybookTask, TypeOK, Touch
  <2>3. UNCHANGED <<runVars, holders, recordFile, late, restored>>
    BY <1>11 DEF PlaybookTask
  <2> QED
    BY <2>1, <2>2, <2>3, UpdateTyping DEF TypeOK, runVars, names
<1>12. ASSUME NEW n \in Name, Verify(r, n) PROVE TypeOK'
  <2>1. /\ todo' = [todo EXCEPT ![r] = @ \ {n}]
        /\ failing' \in {failing, [failing EXCEPT ![r] = @ \cup {n}]}
        /\ n \in todo[r]
        /\ UNCHANGED <<pc, app, target, second, records, still, exit, holders,
                       recordFile, late, dockVars, histVars>>
    BY <1>12 DEF Verify
  <2> QED
    BY <2>1, LoopTyping DEF TypeOK, dockVars, histVars
<1>13. ASSUME NEW n \in Name, Restore(r, n) PROVE TypeOK'
  <2>1. svcOf(r, n) \in Svc
    BY <1>13, ServiceOfRun DEF Restore, TypeOK
  <2>2. Rollback(svcOf(r, n)) \/ UNCHANGED dockVars
    BY <1>13 DEF Restore
  <2>3. /\ spec' \in [Svc -> Version]
        /\ prev' \in [Svc -> Version]
        /\ newest' \in [Svc -> Version]
    BY <2>1, <2>2, RollbackTyping DEF TypeOK, dockVars
  <2>4. /\ todo' = [todo EXCEPT ![r] = @ \ {n}]
        /\ n \in todo[r]
        /\ still' \in {still, [still EXCEPT ![r] = @ \cup {n}]}
        /\ restored' \in {restored, [restored EXCEPT ![r] = @ \cup {n}]}
        /\ UNCHANGED <<pc, app, target, second, records, failing, exit, holders,
                       recordFile, late, touched>>
    BY <1>13 DEF Restore, StillFailing
  <2>5. /\ still' \in [Run -> SUBSET Name]
        /\ restored' \in [Run -> SUBSET Name]
    <3>1. n \in Name
      BY <2>4 DEF TypeOK
    <3>2. still \in [Run -> SUBSET Name] /\ restored \in [Run -> SUBSET Name]
      BY DEF TypeOK
    <3> QED
      BY <2>4, <3>1, <3>2
  <2> QED
    BY <2>3, <2>4, <2>5, LoopTyping DEF TypeOK
<1> QED
  BY <1>1, <1>2, <1>3, <1>4, <1>5, <1>6, <1>7, <1>8, <1>9, <1>10, <1>11, <1>12, <1>13
  DEF RunStep

\* So does every step of the system.
LEMMA TypingNext == TypeOK /\ [Next]_vars => TypeOK'
<1> SUFFICES ASSUME TypeOK, [Next]_vars PROVE TypeOK'
  OBVIOUS
<1> USE DEF Goto, locals, runVars, dockVars, histVars
<1>1. ASSUME NEW r \in Run, Invoke(r) PROVE TypeOK'
  <2>1. ASSUME NEW code \in {64, 3, 0}, Finish(r, code) PROVE TypeOK'
    BY <1>1, <2>1, FinishKeepsType DEF Invoke
  <2>2. CASE ~\E code \in {64, 3, 0} : Finish(r, code)
    <3>1. PICK a \in App, cluster \in BOOLEAN :
             /\ app' = [app EXCEPT ![r] = a]
             /\ target' = [target EXCEPT ![r] = IF cluster THEN ClusterLock ELSE a]
      BY <1>1, <2>2 DEF Invoke
    <3>2. /\ pc[r] = "idle" /\ Goto(r, "waiting")
          /\ UNCHANGED <<second, records, todo, failing, still, exit, holders,
                         histVars, shared>>
      BY <1>1, <2>2 DEF Invoke
    <3>3. pc' \in [Run -> Phase]
      BY <3>2 DEF TypeOK, Goto, Phase
    <3>4. /\ app' \in [Run -> App]
          /\ target' \in [Run -> App \cup {ClusterLock}]
      BY <3>1 DEF TypeOK
    <3>5. ASSUME NEW q \in Run PROVE LoopsInside(q)'
      BY <3>1, <3>2 DEF TypeOK, Goto, LoopsInside, names, Locked
    <3> QED
      BY <3>2, <3>3, <3>4, <3>5 DEF TypeOK, histVars, shared, dockVars, LoopsInside
  <2> QED
    BY <2>1, <2>2
<1>2. ASSUME NEW r \in Run, RunStep(r) PROVE TypeOK'
  BY <1>2, TypingRun
<1>3. ASSUME NEW r \in Run, Raise(r) PROVE TypeOK'
  BY <1>3, FinishKeepsType DEF Raise
<1>4. ASSUME NEW r \in Run, Crash(r) PROVE TypeOK'
  <2>1. \A orphan \in orphans(r) : orphan \subseteq Svc
    BY ServiceOfRun DEF orphans
  <2>2. late' \subseteq Svc
    BY <1>4, <2>1 DEF Crash, TypeOK
  <2> QED
    BY <1>4, <2>2, EndKeepsType DEF Crash
<1>5. ASSUME NEW s \in Svc, LateTask(s) PROVE TypeOK'
  <2>1. /\ late' \subseteq late
        /\ UNCHANGED <<runVars, holders, recordFile, restored>>
        /\ DockerUpdate(s) \/ UNCHANGED dockVars
    BY <1>5 DEF LateTask
  <2>2. touched' \in [Run -> [Name -> Touch]]
    <3>1. touched \in [Run -> [Name -> Touch]] /\ "more" \in Touch
      BY DEF TypeOK, Touch
    <3>2. CASE UNCHANGED touched
      BY <3>1, <3>2
    <3>3. CASE touched' = [r \in Run |-> IF pc[r] \in Locked /\ app[r] = s[1]
                                      THEN [touched[r] EXCEPT ![s[2]] = "more"]
                                      ELSE touched[r]]
      BY <3>1, <3>3
    <3> QED
      BY <1>5, <3>2, <3>3 DEF LateTask
  <2>3. /\ spec' \in [Svc -> Version]
        /\ prev' \in [Svc -> Version]
        /\ newest' \in [Svc -> Version]
    BY <2>1, UpdateTyping DEF TypeOK, dockVars
  <2> QED
    BY <2>1, <2>2, <2>3 DEF TypeOK, runVars, names
<1>6. CASE UNCHANGED vars
  BY <1>6 DEF TypeOK, vars, names, LoopsInside
<1> QED
  BY <1>1, <1>2, <1>3, <1>4, <1>5, <1>6 DEF Next

\* Every variable keeps its type, and no loop ever visits a name outside the
\* probe's services.
THEOREM TypeCorrect == Spec => []TypeOK
BY TypingInit, TypingNext, PTL DEF Spec

-----------------------------------------------------------------------------
(* The lock, the loops and the records. *)

\* When the cluster lock excludes the per-service locks, no two runs are in
\* charge of the same app.
LEMMA OneRunPerApp ==
    ASSUME ClusterExcludes, TypeOK, LockInv,
           NEW r \in Run, NEW q \in Run \ {r},
           pc[r] \in Locked, pc[q] \in Locked
    PROVE  app[r] # app[q]
BY DEF LockInv, Conflict

\* Run q does not take part in a step.
Idle(q) ==
    /\ pc'[q] = pc[q] /\ app'[q] = app[q] /\ target'[q] = target[q]
    /\ records'[q] = records[q] /\ todo'[q] = todo[q]
    /\ failing'[q] = failing[q] /\ still'[q] = still[q]
    /\ restored'[q] = restored[q] /\ touched'[q] = touched[q]

\* An idle run keeps its part of the invariant as long as docker leaves its
\* app alone.
LEMMA IdleKeeps ==
    ASSUME TypeOK, LoopInv, RecordInv, NEW q \in Run, Idle(q),
           pc[q] \in Locked => \A n \in names(q) :
                spec'[svcOf(q, n)] = spec[svcOf(q, n)] /\ prev'[svcOf(q, n)] = prev[svcOf(q, n)]
    PROVE  /\ RestoreLoop(q)'
           /\ \A n \in recorded(q)' : Holding(q, n)'
<1>1. RestoreLoop(q)'
  BY DEF LoopInv, RestoreLoop, Idle, names
<1>2. \A n : n \in recorded(q)' <=> n \in recorded(q)
  BY DEF recorded, Idle, names
<1>3. ASSUME NEW n \in recorded(q)' PROVE Holding(q, n)'
  <2>1. Holding(q, n) /\ n \in names(q) /\ pc[q] \in Locked
    BY <1>2, <1>3 DEF RecordInv, recorded, Locked
  <2>2. svcOf(q, n)' = svcOf(q, n)
    BY DEF Idle, svcOf
  <2> QED
    BY <2>1, <2>2 DEF Holding, Idle
<1> QED
  BY <1>1, <1>3

\* A run that ends drops its lock and its part of the invariant.
LEMMA EndKeeps ==
    ASSUME DeployInv, NEW r \in Run, NEW phase \in {"done", "crashed"}, NEW code,
           End(r, phase, code), UNCHANGED dockVars
    PROVE  LockInv' /\ LoopInv' /\ RecordInv'
<1> USE DEF DeployInv
<1>1. /\ pc'[r] \notin Locked /\ pc'[r] = phase
      /\ restored'[r] = {} /\ still'[r] = {} /\ target'[r] = ClusterLock
      /\ \A q \in Run \ {r} : Idle(q)
      /\ holders' = holders \ {r}
  BY DEF TypeOK, End, Goto, Idle, Locked
<1>2. LockInv'
  <2>1. \A q \in Run : q \in holders' <=> pc'[q] \in Locked
    BY <1>1 DEF LockInv, TypeOK, Idle
  <2>2. \A q \in Run : target'[q] \in {app'[q], ClusterLock}
    BY <1>1 DEF LockInv, TypeOK, Idle
  <2>3. ASSUME NEW p \in holders', NEW q \in holders', p # q
        PROVE  ~Conflict(target'[p], target'[q])
    BY <1>1, <2>3 DEF LockInv, TypeOK, Idle
  <2> QED
    BY <2>1, <2>2, <2>3 DEF LockInv, Conflict
<1>3. RestoreLoop(r)' /\ recorded(r)' = {}
  BY <1>1 DEF RestoreLoop, recorded
<1>4. \A q \in Run \ {r} : RestoreLoop(q)' /\ \A n \in recorded(q)' : Holding(q, n)'
  BY <1>1, IdleKeeps DEF dockVars
<1> QED
  BY <1>2, <1>3, <1>4 DEF LoopInv, RecordInv

\* A run that moves inside execute_locked keeps the lock invariant.
LEMMA MoveKeepsLock ==
    ASSUME TypeOK, LockInv, NEW r \in Run, pc[r] \in Locked, pc'[r] \in Locked,
           \A q \in Run \ {r} : pc'[q] = pc[q],
           UNCHANGED <<app, target, holders>>
    PROVE  LockInv'
BY DEF TypeOK, LockInv, Conflict

\* One run takes part, docker keeps its specs: what is left to show is about
\* that run alone.
LEMMA OthersKeep ==
    ASSUME DeployInv, NEW r \in Run, \A q \in Run \ {r} : Idle(q),
           UNCHANGED dockVars, RestoreLoop(r)', \A n \in recorded(r)' : Holding(r, n)'
    PROVE  LoopInv' /\ RecordInv'
<1>1. \A q \in Run \ {r} : RestoreLoop(q)' /\ \A n \in recorded(q)' : Holding(q, n)'
  BY IdleKeeps DEF DeployInv, dockVars
<1> QED
  BY <1>1 DEF LoopInv, RecordInv

\* An invocation waits for the lock or ends; it holds nothing.
LEMMA InvokeKeeps ==
    ASSUME DeployInv, NEW r \in Run, Invoke(r)
    PROVE  LockInv' /\ LoopInv' /\ RecordInv'
<1> USE DEF DeployInv
<1>1. UNCHANGED dockVars
  BY DEF Invoke, shared
<1>2. ASSUME NEW code \in {64, 3, 0}, Finish(r, code)
      PROVE  LockInv' /\ LoopInv' /\ RecordInv'
  BY <1>1, <1>2, EndKeeps DEF Finish
<1>3. ASSUME ~\E code \in {64, 3, 0} : Finish(r, code)
      PROVE  LockInv' /\ LoopInv' /\ RecordInv'
  <2>1. PICK a \in App, cluster \in BOOLEAN :
           /\ app' = [app EXCEPT ![r] = a]
           /\ target' = [target EXCEPT ![r] = IF cluster THEN ClusterLock ELSE a]
    BY <1>3 DEF Invoke
  <2>2. /\ pc[r] = "idle" /\ pc' = [pc EXCEPT ![r] = "waiting"]
        /\ UNCHANGED <<second, records, todo, failing, still, exit, holders, histVars>>
    BY <1>3 DEF Invoke, Goto
  <2>3. /\ pc'[r] = "waiting" /\ restored'[r] = restored[r] /\ still'[r] = still[r]
        /\ \A q \in Run \ {r} : Idle(q)
    BY <2>1, <2>2 DEF TypeOK, Idle, histVars
  <2>4. LockInv'
    <3>1. r \notin holders /\ pc'[r] \notin Locked
      BY <2>2, <2>3 DEF LockInv, Locked
    <3>2. \A q \in Run : q \in holders' <=> pc'[q] \in Locked
      BY <2>2, <2>3, <3>1 DEF LockInv, Idle
    <3>3. \A q \in holders : target'[q] = target[q]
      BY <2>3, <3>1 DEF TypeOK, Idle
    <3>4. \A q \in Run : target'[q] \in {app'[q], ClusterLock}
      BY <2>1, <2>3 DEF TypeOK, LockInv, Idle
    <3> QED
      BY <2>2, <3>2, <3>3, <3>4 DEF LockInv, Conflict
  <2>5. RestoreLoop(r)' /\ recorded(r)' = {}
    BY <2>2, <2>3 DEF LoopInv, RestoreLoop, recorded
  <2> QED
    BY <1>1, <2>3, <2>4, <2>5, OthersKeep
<1> QED
  BY <1>2, <1>3

\* A run gets the lock only when no run of the same app has it.
LEMMA AcquireKeeps ==
    ASSUME DeployInv, NEW r \in Run, AcquireLock(r)
    PROVE  LockInv' /\ LoopInv' /\ RecordInv'
<1> USE DEF DeployInv
<1>1. /\ pc[r] = "waiting" /\ pc' = [pc EXCEPT ![r] = "backup"]
      /\ holders' = holders \cup {r}
      /\ \A q \in holders : ~Conflict(target[r], target[q])
      /\ UNCHANGED <<app, target, records, todo, failing, still, histVars, dockVars>>
  BY DEF AcquireLock, Goto, shared
<1>2. /\ pc'[r] = "backup" /\ restored'[r] = restored[r] /\ still'[r] = still[r]
      /\ \A q \in Run \ {r} : Idle(q)
  BY <1>1 DEF TypeOK, Idle, histVars
<1>3. LockInv'
  <2>1. r \notin holders
    BY <1>1 DEF LockInv, Locked
  <2>2. \A q \in Run : q \in holders' <=> pc'[q] \in Locked
    BY <1>1, <1>2 DEF LockInv, TypeOK, Idle, Locked
  <2>3. ASSUME NEW p \in holders', NEW q \in holders', p # q
        PROVE  ~Conflict(target'[p], target'[q])
    BY <1>1, <2>3 DEF LockInv, Conflict
  <2> QED
    BY <1>1, <2>2, <2>3 DEF LockInv, Conflict
<1>4. RestoreLoop(r)' /\ recorded(r)' = {}
  BY <1>1, <1>2 DEF LoopInv, RestoreLoop, recorded
<1> QED
  BY <1>1, <1>2, <1>3, <1>4, OthersKeep

\* A phase change of a run that is not in, and does not enter, the restore
\* loop, and after which nothing more counts as recorded than before.
LEMMA PhaseKeeps ==
    ASSUME DeployInv, NEW r \in Run, NEW phase \in Locked, Goto(r, phase),
           pc[r] \in Locked \ {"restore"}, phase # "restore",
           \A q \in Run \ {r} : Idle(q),
           UNCHANGED <<app, target, holders, records, still, touched, restored, dockVars>>,
           recorded(r)' \subseteq recorded(r)
    PROVE  LockInv' /\ LoopInv' /\ RecordInv'
<1> USE DEF DeployInv
<1>1. pc'[r] = phase
  BY DEF TypeOK, Goto
<1>2. LockInv'
  BY <1>1, MoveKeepsLock DEF Idle
<1>3. RestoreLoop(r)'
  BY <1>1 DEF LoopInv, RestoreLoop
<1>4. ASSUME NEW n \in recorded(r)' PROVE Holding(r, n)'
  BY <1>1, <1>4 DEF RecordInv, Holding, svcOf, dockVars
<1> QED
  BY <1>2, <1>3, <1>4, OthersKeep

\* The steps before the restore loop that do not touch docker.
LEMMA QuietKeeps ==
    ASSUME DeployInv, NEW r \in Run,
           \/ DumpHook(r) \/ SnapshotHook(r) \/ StartPlaybook(r) \/ EndPlaybook(r)
           \/ AppChecks(r) \/ (\E n \in Name : Verify(r, n))
    PROVE  LockInv' /\ LoopInv' /\ RecordInv'
<1> USE DEF DeployInv
<1>1. CASE DumpHook(r)
  <2>1. UNCHANGED dockVars
    BY <1>1 DEF DumpHook, shared
  <2>2. CASE Finish(r, 3)
    BY <2>1, <2>2, EndKeeps DEF Finish
  <2>3. CASE ~Finish(r, 3)
    <3>1. /\ pc[r] = "backup" /\ Goto(r, "snapshot")
          /\ UNCHANGED <<locals, exit, holders, histVars>>
      BY <1>1, <2>3 DEF DumpHook
    <3>2. \A q \in Run \ {r} : Idle(q)
      BY <3>1 DEF TypeOK, Idle, Goto, locals, histVars
    <3>3. recorded(r)' = {}
      BY <3>1 DEF TypeOK, recorded, Goto
    <3> QED
      BY <2>1, <3>1, <3>2, <3>3, PhaseKeeps DEF Locked, locals, histVars
  <2> QED
    BY <2>2, <2>3
<1>2. CASE SnapshotHook(r)
  <2>1. UNCHANGED dockVars
    BY <1>2 DEF SnapshotHook, shared
  <2>2. CASE Finish(r, 3)
    BY <2>1, <2>2, EndKeeps DEF Finish
  <2>3. CASE ~Finish(r, 3)
    <3>1. /\ pc[r] = "snapshot" /\ Goto(r, "record")
          /\ todo' = [todo EXCEPT ![r] = names(r)]
          /\ UNCHANGED <<app, target, second, records, failing, still, exit,
                         holders, histVars>>
      BY <1>2, <2>3 DEF SnapshotHook
    <3>2. \A q \in Run \ {r} : Idle(q)
      BY <3>1 DEF TypeOK, Idle, Goto, histVars
    <3>3. recorded(r)' = {}
      BY <3>1 DEF TypeOK, recorded, Goto, names
    <3> QED
      BY <2>1, <3>1, <3>2, <3>3, PhaseKeeps DEF Locked, histVars
  <2> QED
    BY <2>2, <2>3
<1>3. CASE StartPlaybook(r)
  <2>1. /\ pc[r] = "record" /\ todo[r] = {} /\ Goto(r, "playbook")
        /\ UNCHANGED <<app, target, second, records, todo, failing, still, exit,
                       holders, histVars, dockVars>>
    BY <1>3 DEF StartPlaybook
  <2>2. \A q \in Run \ {r} : Idle(q)
    BY <2>1 DEF TypeOK, Idle, Goto, histVars
  <2>3. recorded(r)' \subseteq recorded(r)
    BY <2>1 DEF TypeOK, recorded, Goto, names
  <2> QED
    BY <2>1, <2>2, <2>3, PhaseKeeps DEF Locked, histVars
<1>4. CASE EndPlaybook(r)
  <2>1. PICK phase \in {"verify", "judge"} : Goto(r, phase)
    BY <1>4 DEF EndPlaybook
  <2>2. /\ pc[r] = "playbook"
        /\ todo' \in {todo, [todo EXCEPT ![r] = names(r)]}
        /\ failing' \in {failing, [failing EXCEPT ![r] = names(r)]}
        /\ UNCHANGED <<app, target, second, records, still, exit, holders,
                       dockVars, histVars>>
    BY <1>4 DEF EndPlaybook
  <2>3. \A q \in Run \ {r} : Idle(q)
    BY <2>1, <2>2 DEF TypeOK, Idle, Goto, histVars
  <2>4. recorded(r)' \subseteq recorded(r)
    BY <2>1, <2>2 DEF TypeOK, recorded, Goto, names
  <2> QED
    BY <2>1, <2>2, <2>3, <2>4, PhaseKeeps DEF Locked, histVars
<1>5. CASE AppChecks(r)
  <2>1. /\ pc[r] = "verify" /\ Goto(r, "judge")
        /\ failing' \in {failing, [failing EXCEPT ![r] = names(r)]}
        /\ UNCHANGED <<app, target, second, records, todo, still, exit, holders,
                       dockVars, histVars>>
    BY <1>5 DEF AppChecks
  <2>2. \A q \in Run \ {r} : Idle(q)
    BY <2>1 DEF TypeOK, Idle, Goto, histVars
  <2>3. recorded(r)' \subseteq recorded(r)
    BY <2>1 DEF TypeOK, recorded, Goto, names
  <2> QED
    BY <2>1, <2>2, <2>3, PhaseKeeps DEF Locked, histVars
<1>6. ASSUME NEW n \in Name, Verify(r, n)
      PROVE  LockInv' /\ LoopInv' /\ RecordInv'
  <2>1. /\ pc[r] = "verify" /\ todo' = [todo EXCEPT ![r] = @ \ {n}]
        /\ failing' \in {failing, [failing EXCEPT ![r] = @ \cup {n}]}
        /\ UNCHANGED <<pc, app, target, second, records, still, exit, holders,
                       dockVars, histVars>>
    BY <1>6 DEF Verify
  <2>2. Goto(r, "verify")
    BY <2>1 DEF TypeOK, Goto
  <2>3. \A q \in Run \ {r} : Idle(q)
    BY <2>1 DEF TypeOK, Idle, histVars
  <2>4. recorded(r)' \subseteq recorded(r)
    BY <2>1 DEF TypeOK, recorded, names
  <2> QED
    BY <2>1, <2>2, <2>3, <2>4, PhaseKeeps DEF Locked, histVars
<1> QED
  BY <1>1, <1>2, <1>3, <1>4, <1>5, <1>6

\* Judge either ends the run or opens the restore loop over what failed.
LEMMA JudgeKeeps ==
    ASSUME DeployInv, NEW r \in Run, Judge(r)
    PROVE  LockInv' /\ LoopInv' /\ RecordInv'
<1> USE DEF DeployInv
<1>1. UNCHANGED dockVars
  BY DEF Judge, shared
<1>2. ASSUME NEW code \in {0, 3}, Finish(r, code)
      PROVE  LockInv' /\ LoopInv' /\ RecordInv'
  BY <1>1, <1>2, EndKeeps DEF Finish
<1>3. ASSUME ~\E code \in {0, 3} : Finish(r, code)
      PROVE  LockInv' /\ LoopInv' /\ RecordInv'
  <2>1. /\ pc[r] = "judge" /\ Goto(r, "restore") /\ AutoRestore(app[r])
        /\ todo' = [todo EXCEPT ![r] = failing[r]]
        /\ UNCHANGED <<app, target, second, records, failing, still, exit,
                       holders, histVars>>
    BY <1>3 DEF Judge
  <2>2. \A q \in Run \ {r} : Idle(q)
    BY <2>1 DEF TypeOK, Idle, Goto, histVars
  <2>3. pc'[r] = "restore" /\ todo'[r] = failing[r] /\ restored'[r] = {}
    BY <2>1 DEF TypeOK, Goto, LoopInv, RestoreLoop, histVars
  <2>4. LockInv'
    BY <2>1, <2>2, <2>3, MoveKeepsLock DEF Idle, Locked
  <2>5. RestoreLoop(r)'
    BY <2>1, <2>3 DEF RestoreLoop
  <2>6. ASSUME NEW n \in recorded(r)' PROVE Holding(r, n)'
    <3>1. n \in recorded(r)
      BY <2>1, <2>3, <2>6 DEF recorded, names
    <3> QED
      BY <1>1, <2>1, <2>3, <3>1 DEF RecordInv, Holding, svcOf, dockVars, histVars
  <2> QED
    BY <1>1, <2>2, <2>4, <2>5, <2>6, OthersKeep
<1> QED
  BY <1>2, <1>3

\* Recording a service makes its current version the recorded one.
LEMMA RecordKeeps ==
    ASSUME DeployInv, NEW r \in Run, NEW n \in Name, Record(r, n)
    PROVE  LockInv' /\ LoopInv' /\ RecordInv'
<1> USE DEF DeployInv
<1>1. PICK v \in inspectResults(svcOf(r, n)) : records' = [records EXCEPT ![r][n] = v]
  BY DEF Record
<1>2. /\ pc[r] = "record" /\ n \in todo[r]
      /\ todo' = [todo EXCEPT ![r] = @ \ {n}]
      /\ touched' = [touched EXCEPT ![r][n] = "untouched"]
      /\ UNCHANGED <<pc, app, target, second, failing, still, exit, holders,
                     dockVars, restored>>
  BY DEF Record
<1>3. \A q \in Run \ {r} : Idle(q)
  BY <1>1, <1>2 DEF TypeOK, Idle
<1>4. LockInv'
  BY <1>2, MoveKeepsLock DEF Locked
<1>5. RestoreLoop(r)'
  BY <1>2 DEF LoopInv, RestoreLoop
<1>6. ASSUME NEW m \in recorded(r)' PROVE Holding(r, m)'
  <2>1. restored'[r] = {} /\ pc'[r] = "record" /\ svcOf(r, m)' = svcOf(r, m)
    BY <1>2 DEF LoopInv, RestoreLoop, svcOf
  <2>2. CASE m = n
    <3>1. records'[r][n] = v /\ v # 0
      BY <1>1, <1>6, <2>2 DEF recorded, TypeOK
    <3>2. v = spec[svcOf(r, n)] /\ touched'[r][n] = "untouched"
      BY <1>2, <3>1 DEF inspectResults, TypeOK
    <3> QED
      BY <1>2, <2>1, <2>2, <3>1, <3>2 DEF Holding, dockVars
  <2>3. CASE m # n
    <3>1. records'[r][m] = records[r][m] /\ touched'[r][m] = touched[r][m]
      BY <1>1, <1>2, <2>3 DEF TypeOK
    <3>2. m \in recorded(r)
      BY <1>2, <1>6, <2>3, <3>1 DEF recorded, names, TypeOK
    <3> QED
      BY <1>2, <2>1, <3>1, <3>2 DEF RecordInv, Holding, dockVars
  <2> QED
    BY <2>2, <2>3
<1> QED
  BY <1>2, <1>3, <1>4, <1>5, <1>6, OthersKeep

\* A run that changes a service of its own app disturbs no other run: here is
\* where the lock is needed.
LEMMA OwnServiceKeeps ==
    ASSUME ClusterExcludes, DeployInv, NEW r \in Run, NEW n \in names(r),
           pc[r] \in Locked, \A q \in Run \ {r} : Idle(q),
           \A t \in Svc \ {svcOf(r, n)} : spec'[t] = spec[t] /\ prev'[t] = prev[t],
           RestoreLoop(r)', \A m \in recorded(r)' : Holding(r, m)'
    PROVE  LoopInv' /\ RecordInv'
<1>1. ASSUME NEW q \in Run \ {r}
      PROVE  RestoreLoop(q)' /\ \A m \in recorded(q)' : Holding(q, m)'
  <2>1. ASSUME pc[q] \in Locked, NEW m \in names(q)
        PROVE  /\ spec'[svcOf(q, m)] = spec[svcOf(q, m)]
               /\ prev'[svcOf(q, m)] = prev[svcOf(q, m)]
    <3>1. app[q] # app[r]
      BY <2>1, OneRunPerApp DEF DeployInv
    <3>2. svcOf(q, m) \in Svc /\ svcOf(q, m) # svcOf(r, n)
      BY <2>1, <3>1, ServiceOfRun DEF DeployInv, svcOf
    <3> QED
      BY <3>2
  <2> QED
    BY <2>1, IdleKeeps DEF DeployInv
<1> QED
  BY <1>1 DEF LoopInv, RecordInv

\* An update or a rollback leaves the other services alone.
LEMMA UpdateFrame ==
    ASSUME TypeOK, NEW s \in Svc, DockerUpdate(s) \/ Rollback(s)
    PROVE  \A t \in Svc \ {s} : spec'[t] = spec[t] /\ prev'[t] = prev[t]
BY DEF TypeOK, DockerUpdate, Rollback

\* The first update in place leaves the recorded version in PreviousSpec.
LEMMA PlaybookKeeps ==
    ASSUME ClusterExcludes, DeployInv, NEW r \in Run, NEW n \in Name, PlaybookTask(r, n)
    PROVE  LockInv' /\ LoopInv' /\ RecordInv'
<1> USE DEF DeployInv
<1>1. /\ pc[r] = "playbook" /\ n \in names(r) /\ DockerUpdate(svcOf(r, n))
      /\ touched' = [touched EXCEPT ![r][n] =
            IF @ = "untouched" /\ prev'[svcOf(r, n)] = spec[svcOf(r, n)]
            THEN "updated" ELSE "more"]
      /\ UNCHANGED <<pc, app, target, second, records, todo, failing, still, exit,
                     holders, restored>>
  BY DEF PlaybookTask, runVars
<1>2. \A q \in Run \ {r} : Idle(q)
  BY <1>1 DEF TypeOK, Idle
<1>3. LockInv'
  BY <1>1, MoveKeepsLock DEF Locked
<1>4. RestoreLoop(r)'
  BY <1>1 DEF LoopInv, RestoreLoop
<1>5. ASSUME NEW m \in recorded(r)' PROVE Holding(r, m)'
  <2>1. /\ m \in recorded(r) /\ restored'[r] = {} /\ restored[r] = {} /\ m \in Name
        /\ svcOf(r, m)' = svcOf(r, m) /\ svcOf(r, m) \in Svc
    BY <1>1, <1>5, ServiceOfRun DEF recorded, names, LoopInv, RestoreLoop, svcOf
  <2>2. Holding(r, m)
    BY <2>1 DEF RecordInv
  <2>3. CASE m = n
    <3>1. touched'[r][n] =
            IF touched[r][n] = "untouched" /\ prev'[svcOf(r, n)] = spec[svcOf(r, n)]
            THEN "updated" ELSE "more"
      BY <1>1, <2>1, <2>3 DEF TypeOK
    <3> QED
      BY <1>1, <2>1, <2>2, <2>3, <3>1 DEF Holding
  <2>4. CASE m # n
    <3>1. /\ touched'[r][m] = touched[r][m]
          /\ svcOf(r, m) # svcOf(r, n)
      BY <1>1, <2>1, <2>4 DEF TypeOK, svcOf
    <3>2. /\ spec'[svcOf(r, m)] = spec[svcOf(r, m)]
          /\ prev'[svcOf(r, m)] = prev[svcOf(r, m)]
      BY <1>1, <2>1, <3>1, UpdateFrame, ServiceOfRun
    <3> QED
      BY <1>1, <2>1, <2>2, <3>1, <3>2 DEF Holding
  <2> QED
    BY <2>3, <2>4
<1>6. \A t \in Svc \ {svcOf(r, n)} : spec'[t] = spec[t] /\ prev'[t] = prev[t]
  BY <1>1, ServiceOfRun, UpdateFrame
<1>7. pc[r] \in Locked
  BY <1>1 DEF Locked
<1> QED
  BY <1>1, <1>2, <1>3, <1>4, <1>5, <1>6, <1>7, OwnServiceKeeps

\* A rollback seen to succeed puts an updated service back at its record.
LEMMA RestoreKeeps ==
    ASSUME ClusterExcludes, DeployInv, NEW r \in Run, NEW n \in Name, Restore(r, n)
    PROVE  LockInv' /\ LoopInv' /\ RecordInv'
<1> USE DEF DeployInv
<1>1. /\ pc[r] = "restore" /\ n \in todo[r] /\ pc[r] \in Locked
      /\ todo' = [todo EXCEPT ![r] = @ \ {n}]
      /\ still' \in {still, [still EXCEPT ![r] = @ \cup {n}]}
      /\ restored' \in {restored, [restored EXCEPT ![r] = @ \cup {n}]}
      /\ UNCHANGED <<pc, app, target, second, records, failing, exit, holders, touched>>
  BY DEF Restore, StillFailing, Locked
<1>2. /\ n \in names(r) /\ svcOf(r, n) \in Svc /\ n \notin restored[r]
      /\ restored[r] \subseteq names(r)
  BY <1>1, ServiceOfRun DEF TypeOK, LoopInv, RestoreLoop
<1>3. \/ /\ still' = [still EXCEPT ![r] = @ \cup {n}] /\ UNCHANGED restored
      \/ /\ records[r][n] # 0 /\ Rollback(svcOf(r, n))
         /\ restored' = [restored EXCEPT ![r] = @ \cup {n}]
  BY DEF Restore, StillFailing
<1>4. \A q \in Run \ {r} : Idle(q)
  BY <1>1 DEF TypeOK, Idle
<1>5. LockInv'
  BY <1>1, MoveKeepsLock
<1>6. RestoreLoop(r)'
  <2>1. /\ todo'[r] = todo[r] \ {n} /\ pc'[r] = "restore"
        /\ still'[r] \in {still[r], still[r] \cup {n}}
        /\ restored'[r] \in {restored[r], restored[r] \cup {n}}
        /\ n \in still'[r] \/ n \in restored'[r]
        /\ n \in restored'[r] => records[r][n] # 0
    BY <1>1, <1>2, <1>3 DEF TypeOK
  <2>2. RestoreLoop(r)
    BY DEF LoopInv
  <2> QED
    BY <1>1, <1>2, <2>1, <2>2 DEF RestoreLoop, names
<1>7. \A t \in Svc \ {svcOf(r, n)} : spec'[t] = spec[t] /\ prev'[t] = prev[t]
  <2>1. Rollback(svcOf(r, n)) \/ UNCHANGED dockVars
    BY DEF Restore
  <2> QED
    BY <1>2, <2>1, UpdateFrame DEF dockVars
<1>8. ASSUME NEW m \in recorded(r)' PROVE Holding(r, m)'
  <2>1. /\ m \in recorded(r) /\ svcOf(r, m)' = svcOf(r, m) /\ svcOf(r, m) \in Svc
        /\ pc'[r] = "restore" /\ pc[r] = "restore"
    BY <1>1, <1>8, ServiceOfRun DEF recorded, names, svcOf
  <2>2. Holding(r, m)
    BY <2>1 DEF RecordInv
  <2>3. CASE m = n
    <3>1. n \notin todo'[r]
      BY <1>1 DEF TypeOK
    <3>2. ASSUME n \in restored'[r], touched[r][n] = "updated"
          PROVE  spec'[svcOf(r, n)] = records[r][n]
      <4>1. Rollback(svcOf(r, n))
        BY <1>2, <1>3, <3>2
      <4>2. prev[svcOf(r, n)] = records[r][n]
        BY <1>1, <2>2, <2>3, <3>2 DEF Holding
      <4> QED
        BY <1>2, <4>1, <4>2 DEF Rollback, TypeOK
    <3> QED
      BY <1>1, <2>1, <2>3, <3>1, <3>2 DEF Holding
  <2>4. CASE m # n
    <3>1. /\ todo'[r] = todo[r] \ {n}
          /\ restored'[r] \in {restored[r], restored[r] \cup {n}}
          /\ svcOf(r, m) # svcOf(r, n)
      BY <1>1, <2>4 DEF TypeOK, svcOf
    <3>2. /\ spec'[svcOf(r, m)] = spec[svcOf(r, m)]
          /\ prev'[svcOf(r, m)] = prev[svcOf(r, m)]
      BY <1>7, <2>1, <3>1
    <3> QED
      BY <1>1, <2>1, <2>2, <2>4, <3>1, <3>2 DEF Holding
  <2> QED
    BY <2>3, <2>4
<1> QED
  BY <1>1, <1>2, <1>4, <1>5, <1>6, <1>7, <1>8, OwnServiceKeeps

\* An orphaned task makes the history of its service "more" for whoever is in
\* charge of it, and the invariant says nothing of such a service.
LEMMA LateKeeps ==
    ASSUME DeployInv, NEW s \in Svc, LateTask(s)
    PROVE  LockInv' /\ LoopInv' /\ RecordInv'
<1> USE DEF DeployInv
<1>1. UNCHANGED <<pc, app, target, second, records, todo, failing, still, exit,
                  holders, restored>>
  BY DEF LateTask, runVars
<1>2. LockInv' /\ LoopInv'
  BY <1>1 DEF LockInv, LoopInv, RestoreLoop, Conflict, names
<1>3. CASE UNCHANGED <<dockVars, touched>>
  <2>1. \A r \in Run : recorded(r)' = recorded(r)
    BY <1>1 DEF recorded, names
  <2>2. ASSUME NEW r \in Run, NEW n \in recorded(r)' PROVE Holding(r, n)'
    BY <1>1, <1>3, <2>1, <2>2 DEF RecordInv, Holding, svcOf, dockVars
  <2> QED
    BY <1>2, <2>2 DEF RecordInv
<1>4. CASE /\ DockerUpdate(s)
           /\ touched' = [r \in Run |-> IF pc[r] \in Locked /\ app[r] = s[1]
                                      THEN [touched[r] EXCEPT ![s[2]] = "more"]
                                      ELSE touched[r]]
  <2>1. ASSUME NEW r \in Run, NEW n \in recorded(r)' PROVE Holding(r, n)'
    <3>1. /\ n \in recorded(r) /\ svcOf(r, n)' = svcOf(r, n) /\ n \in names(r)
          /\ pc[r] \in Locked
      BY <1>1, <2>1 DEF recorded, names, svcOf, Locked
    <3>2. Holding(r, n) /\ svcOf(r, n) \in Svc /\ n \in Name
      BY <3>1, ServiceOfRun DEF RecordInv
    <3>3. CASE svcOf(r, n) = s
      <4>1. touched'[r][n] = "more"
        BY <1>4, <3>1, <3>2, <3>3 DEF TypeOK, svcOf
      <4> QED
        BY <4>1 DEF Holding
    <3>4. CASE svcOf(r, n) # s
      <4>1. app[r] # s[1] \/ n # s[2]
        BY <3>4 DEF svcOf, Svc
      <4>2. touched'[r][n] = touched[r][n]
        BY <1>4, <3>2, <4>1 DEF TypeOK
      <4>3. /\ spec'[svcOf(r, n)] = spec[svcOf(r, n)]
            /\ prev'[svcOf(r, n)] = prev[svcOf(r, n)]
        BY <1>4, <3>2, <3>4, UpdateFrame
      <4> QED
        BY <1>1, <3>1, <3>2, <4>2, <4>3 DEF Holding
    <3> QED
      BY <3>3, <3>4
  <2> QED
    BY <1>2, <2>1 DEF RecordInv
<1> QED
  BY <1>3, <1>4 DEF LateTask

\* The initial states satisfy the invariant.
LEMMA DeployInvInit == Init => DeployInv
<1> SUFFICES ASSUME Init PROVE LockInv /\ LoopInv /\ RecordInv
  BY TypingInit DEF DeployInv
<1>1. LockInv
  BY DEF Init, LockInv, Locked
<1>2. LoopInv
  BY DEF Init, LoopInv, RestoreLoop
<1>3. RecordInv
  BY DEF Init, RecordInv, recorded
<1> QED
  BY <1>1, <1>2, <1>3

\* Every step keeps the invariant.
LEMMA DeployInvNext ==
    ASSUME ClusterExcludes, DeployInv, [Next]_vars
    PROVE  DeployInv'
<1> SUFFICES LockInv' /\ LoopInv' /\ RecordInv'
  BY TypingNext DEF DeployInv
<1>1. ASSUME NEW r \in Run, Invoke(r) PROVE LockInv' /\ LoopInv' /\ RecordInv'
  BY <1>1, InvokeKeeps
<1>2. ASSUME NEW r \in Run, RunStep(r) PROVE LockInv' /\ LoopInv' /\ RecordInv'
  <2>1. CASE LockTimeout(r) \/ Report(r)
    <3>1. /\ UNCHANGED dockVars
          /\ \E code \in {75, 1, 2} : End(r, "done", code)
      BY <2>1 DEF LockTimeout, Report, Finish, shared
    <3> QED
      BY <3>1, EndKeeps
  <2>2. CASE AcquireLock(r)
    BY <2>2, AcquireKeeps
  <2>3. CASE Judge(r)
    BY <2>3, JudgeKeeps
  <2>4. CASE \/ DumpHook(r) \/ SnapshotHook(r) \/ StartPlaybook(r) \/ EndPlaybook(r)
             \/ AppChecks(r) \/ (\E n \in Name : Verify(r, n))
    BY <2>4, QuietKeeps
  <2>5. ASSUME NEW n \in Name, Record(r, n) PROVE LockInv' /\ LoopInv' /\ RecordInv'
    BY <2>5, RecordKeeps
  <2>6. ASSUME NEW n \in Name, PlaybookTask(r, n) PROVE LockInv' /\ LoopInv' /\ RecordInv'
    BY <2>6, PlaybookKeeps
  <2>7. ASSUME NEW n \in Name, Restore(r, n) PROVE LockInv' /\ LoopInv' /\ RecordInv'
    BY <2>7, RestoreKeeps
  <2> QED
    BY <1>2, <2>1, <2>2, <2>3, <2>4, <2>5, <2>6, <2>7 DEF RunStep
<1>3. ASSUME NEW r \in Run, Raise(r) \/ Crash(r)
      PROVE  LockInv' /\ LoopInv' /\ RecordInv'
  <2>1. /\ UNCHANGED dockVars
        /\ End(r, "done", 1) \/ End(r, "crashed", NoExit)
    BY <1>3 DEF Raise, Crash, Finish, shared
  <2> QED
    BY <2>1, EndKeeps
<1>4. ASSUME NEW s \in Svc, LateTask(s) PROVE LockInv' /\ LoopInv' /\ RecordInv'
  BY <1>4, LateKeeps
<1>5. CASE UNCHANGED vars
  <2>1. \A r \in Run : recorded(r)' = recorded(r) /\ RestoreLoop(r)' = RestoreLoop(r)
    BY <1>5 DEF vars, runVars, histVars, recorded, names, RestoreLoop
  <2>2. ASSUME NEW r \in Run, NEW n \in recorded(r)' PROVE Holding(r, n)'
    BY <1>5, <2>1, <2>2
    DEF vars, runVars, histVars, dockVars, DeployInv, RecordInv, Holding, svcOf
  <2>3. LockInv'
    BY <1>5 DEF vars, runVars, DeployInv, LockInv, Conflict
  <2> QED
    BY <2>1, <2>2, <2>3 DEF DeployInv, LoopInv, RecordInv
<1> QED
  BY <1>1, <1>2, <1>3, <1>4, <1>5 DEF Next

\* Under a cluster lock that excludes the per-service ones, the invariant of
\* the lock, the loops and the records holds for any number of runs.
THEOREM DeployInvariant == ASSUME ClusterExcludes PROVE Spec => []DeployInv
<1>1. DeployInv /\ [Next]_vars => DeployInv'
  BY DeployInvNext
<1> QED
  BY <1>1, DeployInvInit, PTL DEF Spec

\* A service that the deploy updated once, in place, and then reports as
\* restored is at the spec it was recorded with.
THEOREM RestoredIsRecorded == ASSUME ClusterExcludes PROVE Spec => []UpdatedMeansRestored
<1>1. ASSUME DeployInv PROVE UpdatedMeansRestored
  <2> SUFFICES ASSUME NEW r \in Run, ClaimsRestored(r), NEW n \in failing[r],
                      touched[r][n] = "updated"
               PROVE  spec[svcOf(r, n)] = records[r][n]
    BY DEF UpdatedMeansRestored
  <2>1. n \in restored[r] /\ n \in names(r) /\ records[r][n] # 0
    BY <1>1 DEF DeployInv, LoopInv, RestoreLoop, ClaimsRestored
  <2>2. n \in recorded(r)
    BY <2>1 DEF recorded, ClaimsRestored
  <2> QED
    BY <1>1, <2>1, <2>2 DEF DeployInv, RecordInv, Holding
<1> QED
  BY <1>1, DeployInvariant, PTL

\* A docker spec only ever moves back on behalf of the one run in charge of a
\* failing, recorded service of an auto-restorable app.
THEOREM OnlyJustifiedRollbacks == ASSUME ClusterExcludes PROVE Spec => RollbackIsJustified
<1> DEFINE Justified(s) ==
        spec'[s] \notin {spec[s], newest[s] + 1} =>
            \E r \in holders :
                /\ pc[r] = "restore" /\ app[r] = s[1] /\ AutoRestore(app[r])
                /\ s[2] \in failing[r] /\ records[r][s[2]] # 0
                /\ \A q \in holders \ {r} : app[q] # app[r]
<1>1. ASSUME DeployInv, [Next]_vars, NEW s \in Svc PROVE Justified(s)
  <2>1. CASE spec'[s] = spec[s]
    BY <2>1
  <2>2. ASSUME NEW t \in Svc, DockerUpdate(t) PROVE Justified(s)
    BY <1>1, <2>2 DEF DockerUpdate, DeployInv, TypeOK
  <2>3. ASSUME NEW r \in Run, NEW n \in Name, Restore(r, n), spec'[s] # spec[s]
        PROVE  Justified(s)
    <3>1. /\ pc[r] = "restore" /\ n \in todo[r] /\ records[r][n] # 0
          /\ Rollback(svcOf(r, n))
      BY <2>3 DEF Restore, dockVars
    <3>2. n \in names(r) /\ svcOf(r, n) \in Svc
      BY <1>1, <3>1, ServiceOfRun DEF DeployInv, TypeOK
    <3>3. s = svcOf(r, n)
      BY <1>1, <2>3, <3>1, <3>2, UpdateFrame DEF DeployInv
    <3>4. AutoRestore(app[r]) /\ n \in failing[r]
      BY <1>1, <3>1 DEF DeployInv, LoopInv, RestoreLoop
    <3>5. r \in holders /\ pc[r] \in Locked
      BY <1>1, <3>1 DEF DeployInv, LockInv, Locked
    <3>6. \A q \in holders \ {r} : app[q] # app[r]
      BY <1>1, <3>5, OneRunPerApp DEF DeployInv, LockInv, TypeOK
    <3> QED
      BY <3>1, <3>3, <3>4, <3>5, <3>6 DEF svcOf
  <2>4. \/ UNCHANGED spec
        \/ \E t \in Svc : DockerUpdate(t)
        \/ \E r \in Run, n \in Name : Restore(r, n)
    <3>1. ASSUME NEW r \in Run, NEW n \in Name, PlaybookTask(r, n)
          PROVE  \E t \in Svc : DockerUpdate(t)
      BY <1>1, <3>1, ServiceOfRun DEF PlaybookTask, DeployInv
    <3>2. ASSUME NEW t \in Svc, LateTask(t)
          PROVE  DockerUpdate(t) \/ UNCHANGED spec
      BY <3>2 DEF LateTask, dockVars
    <3>3. ASSUME NEW r \in Run, Invoke(r) \/ Raise(r) \/ Crash(r)
          PROVE  UNCHANGED spec
      BY <3>3 DEF Invoke, Raise, Crash, shared, dockVars
    <3>4. ASSUME NEW r \in Run, RunStep(r),
                 ~\E n \in Name : PlaybookTask(r, n) \/ Restore(r, n)
          PROVE  UNCHANGED spec
      BY <3>4 DEF RunStep, AcquireLock, LockTimeout, DumpHook, SnapshotHook,
         StartPlaybook, EndPlaybook, AppChecks, Judge, Report, Record, Verify,
         shared, dockVars
    <3>5. CASE UNCHANGED vars
      BY <3>5 DEF vars, dockVars
    <3> QED
      BY <1>1, <3>1, <3>2, <3>3, <3>4, <3>5 DEF Next
  <2> QED
    BY <2>1, <2>2, <2>3, <2>4
<1>2. DeployInv /\ [Next]_vars => [\A s \in Svc : Justified(s)]_vars
  BY <1>1
<1> QED
  BY <1>2, DeployInvariant, PTL DEF Spec, RollbackIsJustified

-----------------------------------------------------------------------------
(* The record files. *)

\* The file of a recorded service was written by this run, or by a run of
\* another app that started in the same second.
OwnFile(r, n) ==
    LET writer == recordFile[second[r]][n] IN
    writer # Nobody /\ (writer[1] = r \/ writer[2] # app[r])

FileInv == \A r \in Run : \A n \in recorded(r) : OwnFile(r, n)

\* Run q records nothing new and keeps what its record files are judged by.
SameRecords(q) ==
    \A n \in recorded(q)' :
        n \in recorded(q) /\ app'[q] = app[q] /\ second'[q] = second[q]

\* No file is written and no service is recorded.
LEMMA NoWriteKeepsFiles ==
    ASSUME FileInv, recordFile' = recordFile, \A q \in Run : SameRecords(q)
    PROVE  FileInv'
BY DEF FileInv, OwnFile, SameRecords

\* A run that ends or crashes has no records any more.
LEMMA EndWritesNothing ==
    ASSUME TypeOK, NEW r \in Run, NEW phase \in {"done", "crashed"}, NEW code,
           End(r, phase, code)
    PROVE  \A q \in Run : SameRecords(q)
<1>1. recorded(r)' = {}
  BY DEF TypeOK, End, Goto, recorded
<1>2. ASSUME NEW q \in Run \ {r} PROVE SameRecords(q)
  BY DEF TypeOK, End, Goto, recorded, names, SameRecords
<1> QED
  BY <1>1, <1>2 DEF SameRecords

\* Nor does a step that keeps app, second and records and starts no record
\* loop: it leaves the phase alone, enters the loop with every name to visit,
\* leaves it with none, or moves between the phases after it.
LEMMA PhaseWritesNothing ==
    ASSUME TypeOK, NEW r \in Run, UNCHANGED <<app, second, records>>,
           \A q \in Run \ {r} : pc'[q] = pc[q] /\ todo'[q] = todo[q],
           \/ pc'[r] \notin {"record", "playbook", "verify", "judge", "restore"}
           \/ pc'[r] = "record" /\ todo'[r] = names(r)
           \/ pc[r] = "record" /\ todo[r] = {} /\ pc'[r] # "record"
           \/ /\ pc[r] \in {"playbook", "verify", "judge", "restore"}
              /\ pc'[r] # "record"
    PROVE  \A q \in Run : SameRecords(q)
<1>1. SameRecords(r)
  BY DEF recorded, names, SameRecords
<1>2. ASSUME NEW q \in Run \ {r} PROVE SameRecords(q)
  BY DEF recorded, names, SameRecords
<1> QED
  BY <1>1, <1>2

\* A record is written by its own run; the runs that use the directory of the
\* same second are of other apps, which is where the lock is needed.
LEMMA RecordKeepsFiles ==
    ASSUME ClusterExcludes, DeployInv, FileInv,
           NEW r \in Run, NEW m \in Name, Record(r, m)
    PROVE  FileInv'
<1> USE DEF DeployInv
<1>1. PICK v \in inspectResults(svcOf(r, m)) :
        /\ records' = [records EXCEPT ![r][m] = v]
        /\ recordFile' = IF v = 0 THEN recordFile
                         ELSE [recordFile EXCEPT ![second[r]][m] = <<r, app[r]>>]
  BY DEF Record
<1>2. /\ pc[r] = "record" /\ m \in todo[r]
      /\ todo' = [todo EXCEPT ![r] = @ \ {m}]
      /\ UNCHANGED <<pc, app, second>>
  BY DEF Record
<1>3. <<r, app[r]>> # Nobody
  BY DeployAssumption DEF TypeOK
<1>4. SUFFICES ASSUME NEW q \in Run, NEW n \in recorded(q)' PROVE OwnFile(q, n)'
  BY DEF FileInv
<1>5. n \in names(q) /\ n \in Name /\ second[q] \in Seconds /\ second[r] \in Seconds
  BY <1>2, <1>4, DeployAssumption DEF recorded, names, TypeOK
<1>6. CASE n = m /\ q = r
  <2>1. v # 0
    BY <1>1, <1>4, <1>6 DEF recorded, TypeOK
  <2>2. recordFile'[second[r]][m] = <<r, app[r]>>
    BY <1>1, <1>5, <2>1 DEF TypeOK
  <2> QED
    BY <1>2, <1>3, <1>6, <2>2 DEF OwnFile
<1>7. CASE n # m \/ q # r
  <2>1. n \in recorded(q)
    BY <1>1, <1>2, <1>4, <1>7 DEF recorded, names, TypeOK
  <2>2. OwnFile(q, n)
    BY <2>1 DEF FileInv
  <2>3. CASE recordFile'[second[q]][n] = recordFile[second[q]][n]
    BY <1>2, <2>2, <2>3 DEF OwnFile
  <2>4. CASE recordFile'[second[q]][n] # recordFile[second[q]][n]
    <3>1. n = m /\ recordFile'[second[q]][n] = <<r, app[r]>>
      BY <1>1, <1>5, <2>4 DEF TypeOK
    <3>2. app[r] # app[q]
      BY <1>2, <1>7, <2>1, <3>1, OneRunPerApp DEF recorded, Locked
    <3> QED
      BY <1>2, <1>3, <3>1, <3>2 DEF OwnFile
  <2> QED
    BY <2>3, <2>4
<1> QED
  BY <1>6, <1>7

\* Every step keeps the record files of the runs their own.
LEMMA FileInvNext ==
    ASSUME ClusterExcludes, DeployInv, FileInv, [Next]_vars
    PROVE  FileInv'
<1> USE DEF DeployInv
<1>1. ASSUME NEW r \in Run, NEW phase \in {"done", "crashed"}, NEW code,
             End(r, phase, code), recordFile' = recordFile
      PROVE  FileInv'
  BY <1>1, EndWritesNothing, NoWriteKeepsFiles
<1>2. ASSUME NEW r \in Run, Invoke(r) PROVE FileInv'
  <2>1. recordFile' = recordFile
    BY <1>2 DEF Invoke, shared
  <2>2. CASE \E code \in {64, 3, 0} : Finish(r, code)
    BY <1>1, <2>1, <2>2 DEF Finish
  <2>3. CASE ~\E code \in {64, 3, 0} : Finish(r, code)
    <3>1. /\ Goto(r, "waiting")
          /\ \E a \in App : app' = [app EXCEPT ![r] = a]
          /\ UNCHANGED <<second, records, todo>>
      BY <1>2, <2>3 DEF Invoke
    <3>2. recorded(r)' = {}
      BY <3>1 DEF TypeOK, Goto, recorded
    <3>3. ASSUME NEW q \in Run \ {r} PROVE SameRecords(q)
      BY <3>1 DEF TypeOK, Goto, recorded, names, SameRecords
    <3>4. \A q \in Run : SameRecords(q)
      BY <3>2, <3>3 DEF SameRecords
    <3> QED
      BY <2>1, <3>4, NoWriteKeepsFiles
  <2> QED
    BY <2>2, <2>3
<1>3. ASSUME NEW r \in Run, AcquireLock(r) PROVE FileInv'
  <2>1. /\ Goto(r, "backup") /\ recordFile' = recordFile
        /\ \E d \in Seconds : second' = [second EXCEPT ![r] = d]
        /\ UNCHANGED <<app, records, todo>>
    BY <1>3 DEF AcquireLock, shared
  <2>2. recorded(r)' = {}
    BY <2>1 DEF TypeOK, Goto, recorded
  <2>3. ASSUME NEW q \in Run \ {r} PROVE SameRecords(q)
    BY <2>1 DEF TypeOK, Goto, recorded, names, SameRecords
  <2>4. \A q \in Run : SameRecords(q)
    BY <2>2, <2>3 DEF SameRecords
  <2> QED
    BY <2>1, <2>4, NoWriteKeepsFiles
<1>4. ASSUME NEW r \in Run,
             DumpHook(r) \/ SnapshotHook(r) \/ StartPlaybook(r) \/ EndPlaybook(r)
      PROVE  FileInv'
  <2>1. recordFile' = recordFile
    BY <1>4 DEF DumpHook, SnapshotHook, StartPlaybook, EndPlaybook, shared
  <2>2. CASE Finish(r, 3)
    BY <1>1, <2>1, <2>2 DEF Finish
  <2>3. CASE ~Finish(r, 3)
    <3>1. UNCHANGED <<app, second, records>>
      BY <1>4, <2>3
      DEF DumpHook, SnapshotHook, StartPlaybook, EndPlaybook, locals
    <3>2. \A q \in Run \ {r} : pc'[q] = pc[q] /\ todo'[q] = todo[q]
      BY <1>4, <2>3
      DEF DumpHook, SnapshotHook, StartPlaybook, EndPlaybook, locals, Goto, TypeOK
    <3>3. \/ pc'[r] = "snapshot"
          \/ pc'[r] = "record" /\ todo'[r] = names(r)
          \/ pc[r] = "record" /\ todo[r] = {} /\ pc'[r] = "playbook"
          \/ pc[r] = "playbook" /\ pc'[r] \in {"verify", "judge"}
      BY <1>4, <2>3
      DEF DumpHook, SnapshotHook, StartPlaybook, EndPlaybook, Goto, TypeOK
    <3>4. \A q \in Run : SameRecords(q)
      BY <3>1, <3>2, <3>3, PhaseWritesNothing
    <3> QED
      BY <2>1, <3>4, NoWriteKeepsFiles
  <2> QED
    BY <2>2, <2>3
<1>5. ASSUME NEW r \in Run, AppChecks(r) \/ Judge(r) PROVE FileInv'
  <2>1. recordFile' = recordFile
    BY <1>5 DEF AppChecks, Judge, shared
  <2>2. CASE \E code \in {0, 3} : Finish(r, code)
    BY <1>1, <2>1, <2>2 DEF Finish
  <2>3. CASE ~\E code \in {0, 3} : Finish(r, code)
    <3>1. UNCHANGED <<app, second, records>>
      BY <1>5, <2>3 DEF AppChecks, Judge
    <3>2. \A q \in Run \ {r} : pc'[q] = pc[q] /\ todo'[q] = todo[q]
      BY <1>5, <2>3 DEF AppChecks, Judge, Goto, TypeOK
    <3>3. pc[r] \in {"verify", "judge"} /\ pc'[r] \in {"judge", "restore"}
      BY <1>5, <2>3 DEF AppChecks, Judge, Goto, TypeOK
    <3>4. \A q \in Run : SameRecords(q)
      BY <3>1, <3>2, <3>3, PhaseWritesNothing
    <3> QED
      BY <2>1, <3>4, NoWriteKeepsFiles
  <2> QED
    BY <2>2, <2>3
<1>6. ASSUME NEW r \in Run, NEW n \in Name,
             PlaybookTask(r, n) \/ Verify(r, n) \/ Restore(r, n)
      PROVE  FileInv'
  <2>1. /\ UNCHANGED <<recordFile, pc, app, second, records>>
        /\ pc[r] \in {"playbook", "verify", "restore"}
        /\ \A q \in Run \ {r} : todo'[q] = todo[q]
    BY <1>6 DEF PlaybookTask, Verify, Restore, runVars, TypeOK
  <2>2. \A q \in Run : SameRecords(q)
    BY <2>1, PhaseWritesNothing
  <2> QED
    BY <2>1, <2>2, NoWriteKeepsFiles
<1>7. ASSUME NEW r \in Run, LockTimeout(r) \/ Report(r) \/ Raise(r) \/ Crash(r)
      PROVE  FileInv'
  <2>1. /\ recordFile' = recordFile
        /\ \/ \E code \in {75, 1, 2} : End(r, "done", code)
           \/ End(r, "crashed", NoExit)
    BY <1>7 DEF LockTimeout, Report, Raise, Crash, Finish, shared
  <2> QED
    BY <1>1, <2>1
<1>8. ASSUME UNCHANGED vars \/ \E s \in Svc : LateTask(s) PROVE FileInv'
  <2>1. UNCHANGED <<recordFile, pc, app, second, records, todo>>
    BY <1>8 DEF LateTask, vars, runVars
  <2>2. \A q \in Run : SameRecords(q)
    BY <2>1 DEF SameRecords, recorded, names
  <2> QED
    BY <2>1, <2>2, NoWriteKeepsFiles
<1> QED
  BY <1>2, <1>3, <1>4, <1>5, <1>6, <1>7, <1>8, RecordKeepsFiles DEF Next, RunStep

\* A run that has started stays in charge of its app until it is over.
StaysItself(q) ==
    pc[q] \notin {"idle", "waiting"} =>
        /\ pc'[q] \notin {"idle", "waiting"}
        /\ pc'[q] \in Locked => pc[q] \in Locked /\ app'[q] = app[q]

LEMMA RunsStayThemselves ==
    ASSUME DeployInv, [Next]_vars, NEW q \in Run
    PROVE  StaysItself(q)
<1>t. TypeOK
  BY DEF DeployInv
<1>1. ASSUME NEW r \in Run, NEW phase \in {"done", "crashed"}, NEW code, End(r, phase, code)
      PROVE  StaysItself(q)
  <2>1. pc' = [pc EXCEPT ![r] = phase] /\ app' = [app EXCEPT ![r] = AnyApp]
    BY <1>1 DEF End, Goto
  <2>2. CASE q = r
    BY <1>t, <2>1, <2>2 DEF TypeOK, StaysItself, Locked
  <2>3. CASE q # r
    <3>1. pc'[q] = pc[q] /\ app'[q] = app[q]
      BY <1>t, <2>1, <2>3 DEF TypeOK
    <3> QED BY <3>1 DEF StaysItself
  <2> QED BY <2>2, <2>3
<1>2. ASSUME NEW r \in Run, NEW phase \in Locked, pc[r] \in Locked, app' = app,
             pc' = [pc EXCEPT ![r] = phase] \/ pc' = pc
      PROVE  StaysItself(q)
  <2>1. pc'[q] = pc[q] \/ (q = r /\ pc'[q] \in Locked)
    BY <1>t, <1>2 DEF TypeOK
  <2> QED BY <1>2, <2>1 DEF StaysItself, Locked
<1>3. ASSUME NEW r \in Run, pc[r] \in {"idle", "waiting"},
             \A p \in Run \ {r} : pc'[p] = pc[p] /\ app'[p] = app[p]
      PROVE  StaysItself(q)
  BY <1>3 DEF StaysItself
<1>4. ASSUME NEW r \in Run, Invoke(r) \/ AcquireLock(r) PROVE StaysItself(q)
  <2>1. CASE \E code \in {64, 3, 0} : Finish(r, code)
    BY <1>1, <2>1 DEF Finish
  <2>2. CASE ~\E code \in {64, 3, 0} : Finish(r, code)
    <3>1. \A p \in Run \ {r} : pc'[p] = pc[p] /\ app'[p] = app[p]
      BY <1>t, <1>4, <2>2 DEF Invoke, AcquireLock, Goto, TypeOK
    <3>2. pc[r] \in {"idle", "waiting"}
      BY <1>4 DEF Invoke, AcquireLock
    <3> QED BY <1>3, <3>1, <3>2
  <2> QED BY <2>1, <2>2
<1>5. ASSUME NEW r \in Run,
             LockTimeout(r) \/ Report(r) \/ Raise(r) \/ Crash(r)
      PROVE  StaysItself(q)
  <2>1. \/ \E code \in {75, 1, 2} : End(r, "done", code)
        \/ End(r, "crashed", NoExit)
    BY <1>5 DEF LockTimeout, Report, Raise, Crash, Finish
  <2> QED BY <1>1, <2>1
<1>6. ASSUME NEW r \in Run,
             DumpHook(r) \/ SnapshotHook(r) \/ StartPlaybook(r) \/ EndPlaybook(r)
             \/ AppChecks(r) \/ Judge(r)
      PROVE  StaysItself(q)
  <2>1. CASE \E code \in {0, 3} : Finish(r, code)
    BY <1>1, <2>1 DEF Finish
  <2>2. CASE ~\E code \in {0, 3} : Finish(r, code)
    <3>1. pc[r] \in Locked /\ app' = app
      BY <1>6, <2>2 DEF DumpHook, SnapshotHook, StartPlaybook, EndPlaybook,
                        AppChecks, Judge, locals, Locked
    <3>2. \E phase \in Locked : pc' = [pc EXCEPT ![r] = phase]
      BY <1>6, <2>2 DEF DumpHook, SnapshotHook, StartPlaybook, EndPlaybook,
                        AppChecks, Judge, Goto, Locked
    <3> QED BY <1>2, <3>1, <3>2
  <2> QED BY <2>1, <2>2
<1>7. ASSUME NEW r \in Run, NEW n \in Name,
             Record(r, n) \/ PlaybookTask(r, n) \/ Verify(r, n) \/ Restore(r, n)
      PROVE  StaysItself(q)
  <2>1. UNCHANGED <<pc, app>>
    BY <1>7 DEF Record, PlaybookTask, Verify, Restore, runVars
  <2> QED BY <2>1 DEF StaysItself
<1>8. ASSUME UNCHANGED vars \/ \E s \in Svc : LateTask(s) PROVE StaysItself(q)
  <2>1. UNCHANGED <<pc, app>>
    BY <1>8 DEF LateTask, vars, runVars
  <2> QED BY <2>1 DEF StaysItself
<1> QED
  BY <1>4, <1>5, <1>6, <1>7, <1>8 DEF Next, RunStep

\* The writer of a record file has started; it is in charge of the app it wrote it
\* for, or over.
WriterInv ==
    \A d \in Seconds : \A n \in Name :
        LET writer == recordFile[d][n] IN
        writer # Nobody =>
            /\ pc[writer[1]] \notin {"idle", "waiting"}
            /\ pc[writer[1]] \in Locked => app[writer[1]] = writer[2]

LEMMA WriterInvNext ==
    ASSUME DeployInv, WriterInv, [Next]_vars
    PROVE  WriterInv'
<1>t. TypeOK
  BY DEF DeployInv
<1> SUFFICES ASSUME NEW d \in Seconds, NEW n \in Name, recordFile'[d][n] # Nobody
             PROVE  LET writer == recordFile'[d][n] IN
                    /\ pc'[writer[1]] \notin {"idle", "waiting"}
                    /\ pc'[writer[1]] \in Locked => app'[writer[1]] = writer[2]
  BY DEF WriterInv
<1>1. CASE recordFile'[d][n] = recordFile[d][n]
  <2> DEFINE q == recordFile[d][n][1]
  <2>1. q \in Run
    BY <1>t, <1>1 DEF TypeOK
  <2>2. /\ pc[q] \notin {"idle", "waiting"}
        /\ pc[q] \in Locked => app[q] = recordFile[d][n][2]
    BY <1>1 DEF WriterInv
  <2>3. StaysItself(q)
    BY <2>1, RunsStayThemselves
  <2> QED BY <1>1, <2>2, <2>3 DEF StaysItself
<1>2. CASE recordFile'[d][n] # recordFile[d][n]
  <2>1. PICK r \in Run, m \in Name : Record(r, m)
    <3>1. ~UNCHANGED recordFile
      BY <1>2
    <3> QED
      BY <3>1 DEF Next, RunStep, Invoke, LockTimeout, Report, Raise, Crash, DumpHook,
                  SnapshotHook, StartPlaybook, EndPlaybook, AppChecks, Judge, AcquireLock,
                  PlaybookTask, Verify, Restore, LateTask, vars, shared
  <2>2. recordFile'[d][n] = <<r, app[r]>>
    BY <1>t, <1>2, <2>1 DEF Record, TypeOK
  <2>3. pc[r] = "record" /\ UNCHANGED <<pc, app>>
    BY <2>1 DEF Record
  <2> QED BY <2>2, <2>3
<1> QED BY <1>1, <1>2

\* The record file that the manual steps of a run name is the one this run wrote;
\* or a run of another app wrote it in the same second; or, if this run could not
\* inspect the service, a run of its own app did that is over by now.
THEOREM RecordFilesAreOwn == ASSUME ClusterExcludes PROVE Spec => []OwnRecordFile
<1>1. Init => FileInv /\ WriterInv
  BY DEF Init, FileInv, WriterInv, recorded
<1>2. DeployInv /\ FileInv /\ WriterInv /\ [Next]_vars => FileInv' /\ WriterInv'
  BY FileInvNext, WriterInvNext
<1>3. ASSUME DeployInv, FileInv, WriterInv PROVE OwnRecordFile
  <2> SUFFICES ASSUME NEW r \in Run, pc[r] = "judge", NEW n \in names(r)
               PROVE  LET writer == recordFile[second[r]][n] IN
                      \/ writer # Nobody /\ (writer[1] = r \/ writer[2] # app[r])
                      \/ /\ records[r][n] = 0
                         /\ writer = Nobody \/ pc[writer[1]] \in {"done", "crashed"}
    BY DEF OwnRecordFile
  <2> DEFINE writer == recordFile[second[r]][n]
  <2>1. CASE records[r][n] # 0
    BY <1>3, <2>1 DEF FileInv, OwnFile, recorded
  <2>2. CASE records[r][n] = 0 /\ writer # Nobody /\ writer[1] # r /\ writer[2] = app[r]
    <3>1. /\ second[r] \in Seconds /\ n \in Name /\ writer[1] \in Run \ {r}
          /\ pc[writer[1]] \in Phase
      BY <1>3, <2>2, DeployAssumption DEF DeployInv, TypeOK, names
    <3>2. /\ pc[writer[1]] \notin {"idle", "waiting"}
          /\ pc[writer[1]] \in Locked => app[writer[1]] = writer[2]
      BY <1>3, <2>2, <3>1 DEF WriterInv
    <3>3. pc[writer[1]] \notin Locked
      BY <1>3, <2>2, <3>1, <3>2, OneRunPerApp DEF DeployInv, Locked
    <3> QED BY <2>2, <3>1, <3>2, <3>3 DEF Phase
  <2> QED BY <2>1, <2>2
<1> QED
  BY <1>1, <1>2, <1>3, DeployInvariant, PTL DEF Spec

=============================================================================
