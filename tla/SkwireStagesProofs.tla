------------------------- MODULE SkwireStagesProofs -------------------------
(***************************************************************************)
(* Proofs about SkwireStages, for every list of stages, every number of runs *)
(* and every bound on the mishaps: StagesInv is inductive, and with it every *)
(* step of run_stages is a step of ResumableSteps, or a stutter.             *)
(***************************************************************************)
EXTENDS SkwireStages, TLAPS

-----------------------------------------------------------------------------
(* Beginnings of the list of stages.                                        *)

LEMMA StagesAreNames ==
    /\ Len(Stages) \in Nat
    /\ DOMAIN Stages = 1 .. Len(Stages)
    /\ \A i \in 1 .. Len(Stages) : Stages[i] \in Names
  BY StagesAssumption DEF Names

\* A stage is in a beginning of the list exactly when its index is.
LEMMA InBeginning ==
    ASSUME NEW k \in 0 .. Len(Stages), NEW i \in 1 .. Len(Stages)
    PROVE  Stages[i] \in beginning(k) <=> i <= k
  BY StagesAssumption, StagesAreNames DEF beginning

LEMMA BeginningsGrow ==
    ASSUME NEW j \in 0 .. Len(Stages), NEW k \in 0 .. Len(Stages)
    PROVE  beginning(j) \subseteq beginning(k) <=> j <= k
<1>1. ASSUME beginning(j) \subseteq beginning(k), j > k PROVE FALSE
  <2>1. Stages[j] \in beginning(j) /\ Stages[j] \notin beginning(k)
    BY <1>1, InBeginning, StagesAreNames
  <2> QED BY <2>1, <1>1
<1>2. j <= k => beginning(j) \subseteq beginning(k)
  BY StagesAreNames DEF beginning
<1> QED BY <1>1, <1>2, StagesAreNames

LEMMA NextBeginning ==
    ASSUME NEW k \in 0 .. Len(Stages) - 1
    PROVE  beginning(k) \cup {Stages[k + 1]} = beginning(k + 1)
  BY StagesAreNames DEF beginning

LEMMA WholeBeginning ==
    /\ beginning(0) = {}
    /\ beginning(Len(Stages)) = Names
  BY StagesAreNames DEF beginning, Names

\* count is the inverse of beginning.
LEMMA CountOfBeginning ==
    ASSUME NEW k \in 0 .. Len(Stages)
    PROVE  count(beginning(k)) = k
<1>1. \A j \in 0 .. Len(Stages) : beginning(k) = beginning(j) => j = k
  BY BeginningsGrow, StagesAreNames
<1> QED BY <1>1 DEF count, isBeginning

LEMMA BeginningsAreNames ==
    ASSUME NEW S, isBeginning(S)
    PROVE  S \subseteq Names
  BY StagesAreNames, BeginningsGrow, WholeBeginning DEF isBeginning, beginning

\* A run that must perform stage at[r] holds exactly the stages before it.
LEMMA HeldSoFar ==
    ASSUME StagesInv, NEW r \in Run, pc[r] # "idle",
           at[r] <= Len(Stages), Stages[at[r]] \notin done[r]
    PROVE  /\ at[r] - 1 \in 0 .. Len(Stages) - 1
           /\ done[r] = beginning(at[r] - 1)
<1>1. at[r] \in 1 .. Len(Stages)
  BY StagesAreNames DEF StagesInv, TypeOK
<1>2. PICK k \in 0 .. Len(Stages) : done[r] = beginning(k)
  BY DEF StagesInv, isBeginning
<1>3. at[r] > k
  BY <1>1, <1>2, InBeginning, StagesAreNames
<1>4. at[r] - 1 <= k
  BY <1>1, <1>2, BeginningsGrow, StagesAreNames DEF StagesInv
<1> QED BY <1>1, <1>2, <1>3, <1>4, StagesAreNames

\* Performing the next stage after a beginning: the performed stages are still
\* a beginning, which has grown by one stage or not at all.
LEMMA PerformedGrows ==
    ASSUME isBeginning(performed), NEW k \in 0 .. Len(Stages) - 1,
           beginning(k) \subseteq performed
    PROVE  \/ performed \cup {Stages[k + 1]} = performed
           \/ /\ performed = beginning(k)
              /\ performed \cup {Stages[k + 1]} = beginning(k + 1)
<1>1. PICK p \in 0 .. Len(Stages) : performed = beginning(p)
  BY DEF isBeginning
<1>2. k \in 0 .. Len(Stages) /\ k + 1 \in 1 .. Len(Stages)
  BY StagesAreNames
<1>3. k <= p
  BY <1>1, <1>2, BeginningsGrow
<1>4. CASE k = p
  BY <1>1, <1>4, NextBeginning
<1>5. CASE k < p
  <2>1. Stages[k + 1] \in performed
    BY <1>1, <1>2, <1>5, InBeginning, StagesAreNames
  <2> QED BY <2>1
<1> QED BY <1>3, <1>4, <1>5, <1>2, StagesAreNames

-----------------------------------------------------------------------------
(* The invariant.                                                           *)

LEMMA InitInv == Init => StagesInv
<1> SUFFICES ASSUME Init PROVE StagesInv
  OBVIOUS
<1>1. isBeginning({})
  BY WholeBeginning, StagesAreNames DEF isBeginning
<1>2. TypeOK
  BY StagesAreNames, StagesAssumption DEF Init, TypeOK
<1> QED BY <1>1, <1>2, WholeBeginning DEF Init, StagesInv, completed_stages

\* What the invariant asks of one run.
Held(r) ==
    /\ isBeginning(done[r]) /\ done[r] \subseteq performed
    /\ pc[r] # "idle" => beginning(at[r] - 1) \subseteq done[r]
    /\ result[r] = "ok" => performed = Names

\* A step of one run leaves what the others hold.
LEMMA OthersHold ==
    ASSUME StagesInv, NEW r \in Run, NEW q \in Run, q # r,
           pc'[q] = pc[q], done'[q] = done[q], at'[q] = at[q],
           result'[q] = result[q],
           performed \subseteq performed', performed' \subseteq Names
    PROVE  Held(q)'
  BY DEF StagesInv, Held

LEMMA NextInv == StagesInv /\ [Next]_vars => StagesInv'
<1> SUFFICES ASSUME StagesInv, [Next]_vars PROVE StagesInv'
  OBVIOUS
<1> USE StagesAreNames, StagesAssumption
<1>t. TypeOK /\ isBeginning(performed) /\ performed \subseteq Names
  BY BeginningsAreNames DEF StagesInv
<1>1. CASE UNCHANGED vars
  BY <1>1 DEF StagesInv, TypeOK, vars, completed_stages, isBeginning, beginning, Names
<1>2. CASE reset_stages
  <2>1. completed_stages' = {}
    BY <1>2 DEF reset_stages, completed_stages
  <2>2. TypeOK'
    BY <1>2, <1>t DEF TypeOK, reset_stages
  <2>3. isBeginning({})
    BY WholeBeginning DEF isBeginning
  <2>4. UNCHANGED <<pc, done, at, result, performed>>
    BY <1>2 DEF reset_stages
  <2> QED BY <2>1, <2>2, <2>3, <2>4 DEF StagesInv, isBeginning
<1>3. ASSUME NEW r \in Run,
             \/ Start(r) \/ Skip(r) \/ Perform(r) \/ Fail(r)
             \/ SaveOpen(r) \/ SaveWrite(r) \/ Return(r) \/ Die(r)
      PROVE  StagesInv'
  <2>h. Held(r)
    BY DEF StagesInv, Held
  <2>1. CASE Start(r)
    <3>1. TypeOK'
      BY <2>1, <1>t, BeginningsAreNames DEF TypeOK, Start, StagesInv
    <3>2. UNCHANGED <<file, performed, completed_stages>>
      BY <2>1 DEF Start, completed_stages
    <3>3. Held(r)'
      BY <2>1, <1>t, <3>2, WholeBeginning DEF Start, Held, StagesInv, TypeOK, isBeginning
    <3>4. \A q \in Run \ {r} : Held(q)'
      BY <2>1, <1>t, OthersHold DEF Start, TypeOK
    <3> QED BY <3>1, <3>2, <3>3, <3>4 DEF StagesInv, Held, isBeginning
  <2>2. CASE Skip(r)
    <3>1. TypeOK'
      BY <2>2, <1>t DEF TypeOK, Skip
    <3>2. UNCHANGED <<file, performed, completed_stages, done, pc, result>>
      BY <2>2 DEF Skip, completed_stages
    <3>3. Held(r)'
      <4>1. at[r] \in 1 .. Len(Stages) /\ at'[r] = at[r] + 1 /\ Stages[at[r]] \in done[r]
        BY <2>2, <1>t DEF Skip, TypeOK
      <4> DEFINE k == at[r] - 1
      <4>k. k \in 0 .. Len(Stages) - 1 /\ at[r] = k + 1
        BY <4>1
      <4>2. beginning(k + 1) = beginning(k) \cup {Stages[k + 1]}
        BY <4>k, NextBeginning
      <4>3. beginning(at[r]) \subseteq done[r]
        BY <4>1, <4>2, <4>k, <2>h, <2>2 DEF Held, Skip
      <4> QED BY <4>1, <4>3, <3>2, <2>h DEF Held, isBeginning
    <3>4. \A q \in Run \ {r} : Held(q)'
      BY <2>2, <1>t, OthersHold DEF Skip, TypeOK
    <3> QED BY <3>1, <3>2, <3>3, <3>4 DEF StagesInv, Held, isBeginning
  <2>3. CASE Perform(r)
    <3> DEFINE k == at[r] - 1
    <3>1. k \in 0 .. Len(Stages) - 1 /\ done[r] = beginning(k)
      BY <2>3, HeldSoFar DEF Perform
    <3>2. done'[r] = beginning(k + 1) /\ k + 1 \in 0 .. Len(Stages) /\ at'[r] = k + 2
      BY <2>3, <3>1, <1>t, NextBeginning DEF Perform, TypeOK
    <3>3. performed' = performed \cup {Stages[k + 1]}
      BY <2>3, <1>t DEF Perform, TypeOK
    <3>4. performed' = performed \/ performed' = beginning(k + 1)
      BY <3>1, <3>3, <1>t, <2>h, PerformedGrows DEF Held
    <3>5. isBeginning(performed')
      BY <3>2, <3>4, <1>t DEF isBeginning
    <3>6. performed \subseteq performed' /\ performed' \subseteq Names
      BY <3>3, <3>5, BeginningsAreNames
    <3>7. TypeOK'
      BY <2>3, <1>t, <3>6 DEF TypeOK, Perform
    <3>8. UNCHANGED completed_stages
      BY <2>3 DEF Perform, completed_stages
    <3>9. Held(r)'
      <4>1. done'[r] \subseteq performed'
        BY <3>1, <3>2, <3>3, <2>h, NextBeginning DEF Held
      <4>2. isBeginning(done'[r])
        BY <3>2 DEF isBeginning
      <4>3. beginning(at'[r] - 1) \subseteq done'[r]
        BY <3>1, <3>2
      <4>4. result'[r] = "ok" => performed' = Names
        BY <2>3, <2>h, <3>6 DEF Held, Perform
      <4> QED BY <4>1, <4>2, <4>3, <4>4 DEF Held, isBeginning, beginning, Names
    <3>10. \A q \in Run \ {r} : Held(q)'
      BY <2>3, <1>t, <3>6, OthersHold DEF Perform, TypeOK
    <3> QED BY <3>5, <3>6, <3>7, <3>8, <3>9, <3>10 DEF StagesInv, Held, isBeginning
  <2>4. ASSUME NEW how, how = "failed" \/ (how = "ok" /\ performed = Names),
               Leave(r, how), mishaps' \in 0 .. MaxMishaps
        PROVE  StagesInv'
    <3>1. TypeOK'
      BY <2>4, <1>t DEF TypeOK, Leave
    <3>2. UNCHANGED <<file, performed, completed_stages, done, at>>
      BY <2>4 DEF Leave, completed_stages
    <3>3. Held(r)'
      BY <2>4, <1>t, <2>h, <3>2 DEF Leave, Held, TypeOK, isBeginning
    <3>4. \A q \in Run \ {r} : Held(q)'
      BY <2>4, <1>t, OthersHold DEF Leave, TypeOK
    <3> QED BY <3>1, <3>2, <3>3, <3>4 DEF StagesInv, Held, isBeginning
  <2>5. CASE Fail(r)
    BY <2>5, <2>4, <1>t DEF Fail, TypeOK
  <2>6. CASE Return(r)
    <3>1. at[r] - 1 = Len(Stages)
      BY <2>6, <1>t DEF Return, TypeOK
    <3>2. performed = Names
      BY <3>1, <2>6, <2>h, <1>t, WholeBeginning DEF Return, Held
    <3> QED BY <3>2, <2>6, <2>4, <1>t DEF Return, TypeOK
  <2>7. CASE Die(r)
    BY <2>7, <2>4, <1>t DEF Die, TypeOK
  <2>8. ASSUME UNCHANGED <<done, at, result, mishaps, performed>>,
               pc'[r] \in {"loop", "write"}, pc[r] # "idle",
               pc' = [pc EXCEPT ![r] = pc'[r]],
               file' \in {Torn, done[r]}
        PROVE  StagesInv'
    <3>1. TypeOK'
      BY <2>8, <1>t DEF TypeOK
    <3>2. isBeginning(completed_stages') /\ completed_stages' \subseteq performed
      BY <2>8, <2>h, WholeBeginning DEF completed_stages, Held, isBeginning
    <3>3. Held(r)'
      BY <2>8, <2>h DEF Held, isBeginning
    <3>4. \A q \in Run \ {r} : Held(q)'
      BY <2>8, <1>t, OthersHold DEF TypeOK
    <3> QED BY <3>1, <3>2, <3>3, <3>4, <2>8, <1>t DEF StagesInv, Held, isBeginning
  <2>9. CASE SaveOpen(r)
    BY <2>9, <2>8, <1>t DEF SaveOpen, TypeOK
  <2>10. CASE SaveWrite(r)
    BY <2>10, <2>8, <1>t DEF SaveWrite, TypeOK
  <2> QED BY <1>3, <2>1, <2>2, <2>3, <2>5, <2>6, <2>7, <2>9, <2>10
<1> QED BY <1>1, <1>2, <1>3 DEF Next

\* Whatever runs, dies or resets: the file and every run name a beginning of
\* the stages, all of them performed (stages.py:49-60).
THEOREM StagesInvariant == Spec => []StagesInv
<1> QED BY InitInv, NextInv, PTL DEF Spec

-----------------------------------------------------------------------------
(* The refinement.                                                          *)

\* What the abstract installer sees of a beginning.
LEMMA CountIsIndex ==
    ASSUME NEW S, isBeginning(S)
    PROVE  count(S) \in 0 .. Len(Stages) /\ S = beginning(count(S))
  BY CountOfBeginning DEF isBeginning

LEMMA CountOrder ==
    ASSUME NEW S, NEW T, isBeginning(S), isBeginning(T), S \subseteq T
    PROVE  count(S) <= count(T)
<1>1. beginning(count(S)) \subseteq beginning(count(T))
  BY CountIsIndex
<1> QED BY <1>1, CountIsIndex, BeginningsGrow

LEMMA InitRefines == Init => Resumable!Init
<1>1. count({}) = 0
  BY WholeBeginning, CountOfBeginning, StagesAreNames
<1> QED BY <1>1 DEF Init, Resumable!Init, completed_stages

\* Every step but Perform and Return keeps the performed stages; the file it
\* leaves names no more than them, and only SaveOpen, SaveWrite and a reset
\* change it, which in turn keep every result.
LEMMA StepRefines == StagesInv /\ StagesInv' /\ [Next]_vars => [Resumable!Next]_Resumable!vars
<1> SUFFICES ASSUME StagesInv, StagesInv', [Next]_vars
             PROVE  [Resumable!Next]_Resumable!vars
  OBVIOUS
<1> DEFINE complete == \E r \in Run : result[r] = "ok"
<1>1. ASSUME UNCHANGED <<performed, completed_stages, result>>
      PROVE  [Resumable!Next]_Resumable!vars
  <2>1. UNCHANGED Resumable!vars
    BY <1>1 DEF Resumable!vars, count, isBeginning, beginning
  <2> QED BY <2>1
<1>2. ASSUME UNCHANGED <<performed, completed_stages>>, ~complete'
      PROVE  [Resumable!Next]_Resumable!vars
  <2>1. Resumable!Begin
    BY <1>2 DEF Resumable!Begin, count, isBeginning, beginning
  <2> QED BY <2>1 DEF Resumable!Next
<1>3. ASSUME UNCHANGED <<performed, completed_stages>>, complete' <=> complete
      PROVE  [Resumable!Next]_Resumable!vars
  <2>1. UNCHANGED Resumable!vars
    BY <1>3 DEF Resumable!vars, count, isBeginning, beginning
  <2> QED BY <2>1
<1>4. ASSUME UNCHANGED <<performed, result>>
      PROVE  [Resumable!Next]_Resumable!vars
  <2>1. isBeginning(performed) /\ isBeginning(completed_stages')
    BY DEF StagesInv, isBeginning, beginning
  <2>2. completed_stages' \subseteq performed
    BY <1>4 DEF StagesInv
  <2>3. count(completed_stages') \in 0 .. count(performed)
    BY <2>1, <2>2, CountIsIndex, CountOrder, StagesAreNames
  <2>4. Resumable!Save
    BY <2>3, <1>4 DEF Resumable!Save, count, isBeginning, beginning
  <2> QED BY <2>4 DEF Resumable!Next
<1>5. CASE UNCHANGED vars
  BY <1>5, <1>1 DEF vars, completed_stages
<1>6. CASE reset_stages
  BY <1>6, <1>4 DEF reset_stages
<1>7. ASSUME NEW r \in Run,
             \/ Start(r) \/ Skip(r) \/ Perform(r) \/ Fail(r)
             \/ SaveOpen(r) \/ SaveWrite(r) \/ Return(r) \/ Die(r)
      PROVE  [Resumable!Next]_Resumable!vars
  <2>t. TypeOK
    BY DEF StagesInv
  <2>1. ASSUME UNCHANGED <<file, performed>>, result'[r] # "ok",
               result' = [result EXCEPT ![r] = result'[r]]
        PROVE  [Resumable!Next]_Resumable!vars
    <3>1. UNCHANGED completed_stages
      BY <2>1 DEF completed_stages
    <3>2. complete' => complete
      BY <2>1, <2>t DEF TypeOK
    <3> QED BY <3>1, <3>2, <2>1, <1>2, <1>3
  <2>2. CASE Start(r)
    BY <2>2, <2>1, <2>t DEF Start, TypeOK
  <2>3. CASE Skip(r)
    BY <2>3, <1>1 DEF Skip, completed_stages
  <2>4. CASE Fail(r) \/ Die(r)
    BY <2>4, <2>1, <2>t DEF Fail, Die, Leave, TypeOK
  <2>5. CASE SaveOpen(r) \/ SaveWrite(r)
    BY <2>5, <1>4 DEF SaveOpen, SaveWrite
  <2>6. CASE Return(r)
    <3>1. result'[r] = "ok" /\ UNCHANGED <<file, performed>>
      BY <2>6, <2>t DEF Return, Leave, TypeOK
    <3>2. performed = Names
      BY <3>1 DEF StagesInv, Names
    <3>3. count(performed) = Len(Stages)
      BY <3>2, WholeBeginning, CountOfBeginning, StagesAreNames
    <3>4. UNCHANGED completed_stages
      BY <3>1 DEF completed_stages
    <3>5. Resumable!Report
      BY <3>1, <3>3, <3>4 DEF Resumable!Report, count, isBeginning, beginning
    <3> QED BY <3>5 DEF Resumable!Next
  <2>7. CASE Perform(r)
    <3> DEFINE k == at[r] - 1
    <3>1. k \in 0 .. Len(Stages) - 1 /\ done[r] = beginning(k)
      BY <2>7, HeldSoFar DEF Perform
    <3>2. performed' = performed \cup {Stages[k + 1]}
      BY <2>7, <2>t DEF Perform, TypeOK
    <3>3. UNCHANGED <<completed_stages, result>>
      BY <2>7 DEF Perform, completed_stages
    <3>4. CASE performed' = performed
      BY <3>3, <3>4, <1>1
    <3>5. CASE performed = beginning(k) /\ performed' = beginning(k + 1)
      <4>1. count(performed) = k /\ count(performed') = k + 1
        BY <3>1, <3>5, CountOfBeginning, StagesAreNames
      <4>2. count(performed)' = k + 1 /\ count(completed_stages)' = count(completed_stages)
        BY <3>3, <4>1 DEF count, isBeginning, beginning
      <4>3. k < Len(Stages)
        BY <3>1, StagesAreNames
      <4>4. complete' <=> complete
        BY <3>3
      <4>5. Resumable!Perform
        BY <4>1, <4>2, <4>3, <4>4 DEF Resumable!Perform
      <4> QED BY <4>5 DEF Resumable!Next
    <3> QED BY <3>1, <3>2, <3>4, <3>5, PerformedGrows DEF StagesInv
  <2> QED BY <1>7, <2>2, <2>3, <2>4, <2>5, <2>6, <2>7
<1> QED BY <1>5, <1>6, <1>7 DEF Next

\* run_stages implements the resumable installer: stages are performed in
\* order, the state file never names one that was not, and an ok result means
\* all of them were (stages.py:49-60).
THEOREM StagesImplement == Spec => ImplementsResumable
<1> QED BY InitInv, InitRefines, NextInv, StepRefines, PTL
        DEF Spec, ImplementsResumable, Resumable!Spec
=============================================================================
