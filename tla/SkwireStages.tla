---------------------------- MODULE SkwireStages ----------------------------
(***************************************************************************)
(* v2/skwire/stages.py: run_stages goes through the stages of an install in  *)
(* order, skips those its state file names, and rewrites the file after      *)
(* each one it performed.  Several runs may share a state file, and die      *)
(* anywhere.  A list of completed stages is the set of its names.            *)
(***************************************************************************)
EXTENDS Naturals, Sequences

CONSTANTS
    Run,            \* calls of run_stages on one state file
    Stages,         \* the names of the stages, in order
    Absent, Torn,   \* a state file that does not exist, that does not parse
    MaxMishaps      \* bound: deaths and resets

Names == {Stages[i] : i \in DOMAIN Stages}

ASSUME StagesAssumption ==
    /\ Stages \in Seq(Names)
    /\ \A i, j \in DOMAIN Stages : Stages[i] = Stages[j] => i = j
    /\ \A S \in SUBSET Names : S \notin {Absent, Torn}
    /\ Absent # Torn
    /\ MaxMishaps \in Nat

VARIABLES
    pc,         \* idle; loop; open and write: the two halves of _save
    done,       \* the completed list every run holds
    at,         \* index of the stage it is at
    result,     \* StageResult: none, ok, failed
    file,       \* content of the state file
    mishaps,    \* deaths and resets so far
    performed   \* history: the stages whose function returned

vars == <<pc, done, at, result, file, mishaps, performed>>

TypeOK ==
    /\ pc \in [Run -> {"idle", "loop", "open", "write"}]
    /\ done \in [Run -> SUBSET Names]
    /\ at \in [Run -> 1 .. Len(Stages) + 1]
    /\ result \in [Run -> {"none", "ok", "failed"}]
    /\ file \in {Absent, Torn} \cup SUBSET Names
    /\ mishaps \in 0 .. MaxMishaps
    /\ performed \subseteq Names

Init ==
    /\ pc = [r \in Run |-> "idle"]
    /\ done = [r \in Run |-> {}]
    /\ at = [r \in Run |-> 1]
    /\ result = [r \in Run |-> "none"]
    /\ file = Absent
    /\ mishaps = 0
    /\ performed = {}

completed_stages == IF file \in {Absent, Torn} THEN {} ELSE file

Start(r) ==
    /\ pc[r] = "idle"
    /\ done' = [done EXCEPT ![r] = completed_stages]
    /\ at' = [at EXCEPT ![r] = 1]
    /\ result' = [result EXCEPT ![r] = "none"]
    /\ pc' = [pc EXCEPT ![r] = "loop"]
    /\ UNCHANGED <<file, mishaps, performed>>

\* A stage completed in a prior run.
Skip(r) ==
    /\ pc[r] = "loop"
    /\ at[r] <= Len(Stages)
    /\ Stages[at[r]] \in done[r]
    /\ at' = [at EXCEPT ![r] = @ + 1]
    /\ UNCHANGED <<pc, done, result, file, mishaps, performed>>

\* The stage's function returns, and its name is appended.
Perform(r) ==
    /\ pc[r] = "loop"
    /\ at[r] <= Len(Stages)
    /\ Stages[at[r]] \notin done[r]
    /\ performed' = performed \cup {Stages[at[r]]}
    /\ done' = [done EXCEPT ![r] = @ \cup {Stages[at[r]]}]
    /\ at' = [at EXCEPT ![r] = @ + 1]
    /\ pc' = [pc EXCEPT ![r] = "open"]
    /\ UNCHANGED <<result, file, mishaps>>

Leave(r, how) ==
    /\ result' = [result EXCEPT ![r] = how]
    /\ pc' = [pc EXCEPT ![r] = "idle"]
    /\ UNCHANGED <<done, at, file, performed>>

\* A failed stage is passed over.
PassOver(r) ==
    /\ pc[r] = "loop"
    /\ at[r] <= Len(Stages)
    /\ Stages[at[r]] \notin done[r]
    /\ at' = [at EXCEPT ![r] = @ + 1]
    /\ UNCHANGED <<pc, done, result, file, mishaps, performed>>

\* A failed stage is recorded like the others.
RecordToo(r) ==
    /\ pc[r] = "loop"
    /\ at[r] <= Len(Stages)
    /\ Stages[at[r]] \notin done[r]
    /\ done' = [done EXCEPT ![r] = @ \cup {Stages[at[r]]}]
    /\ at' = [at EXCEPT ![r] = @ + 1]
    /\ pc' = [pc EXCEPT ![r] = "open"]
    /\ UNCHANGED <<result, file, mishaps, performed>>

\* It raises: the run stops and leaves the file as it is.
Fail(r) ==
    /\ pc[r] = "loop"
    /\ at[r] <= Len(Stages)
    /\ Stages[at[r]] \notin done[r]
    /\ Leave(r, "failed")
    /\ UNCHANGED mishaps

\* _save opens the file, which truncates it ...
SaveOpen(r) ==
    /\ pc[r] = "open"
    /\ file' = Torn
    /\ pc' = [pc EXCEPT ![r] = "write"]
    /\ UNCHANGED <<done, at, result, mishaps, performed>>

\* ... and writes.  What another run has written since then may stick out.
SaveWrite(r) ==
    /\ pc[r] = "write"
    /\ \/ file' = done[r]
       \/ file # Torn /\ file' = Torn
    /\ pc' = [pc EXCEPT ![r] = "loop"]
    /\ UNCHANGED <<done, at, result, mishaps, performed>>

Return(r) ==
    /\ pc[r] = "loop"
    /\ at[r] > Len(Stages)
    /\ Leave(r, "ok")
    /\ UNCHANGED mishaps

\* The process dies, or _save raises: it is outside the try.
Die(r) ==
    /\ pc[r] # "idle"
    /\ mishaps < MaxMishaps
    /\ mishaps' = mishaps + 1
    /\ Leave(r, "failed")

reset_stages ==
    /\ mishaps < MaxMishaps
    /\ mishaps' = mishaps + 1
    /\ file' \in {Torn, {}}
    /\ UNCHANGED <<pc, done, at, result, performed>>

Next ==
    \/ \E r \in Run :
          \/ Start(r) \/ Skip(r) \/ Perform(r) \/ Fail(r)
          \/ SaveOpen(r) \/ SaveWrite(r) \/ Return(r) \/ Die(r)
    \/ reset_stages

Spec == Init /\ [][Next]_vars

-----------------------------------------------------------------------------
(* It implements ResumableSteps.                                            *)

\* The first k stages.
beginning(k) == {Stages[i] : i \in 1 .. k}

isBeginning(S) == \E k \in 0 .. Len(Stages) : S = beginning(k)

\* How many stages a set is the beginning of; too many if it is not one.
count(S) ==
    IF isBeginning(S) THEN CHOOSE k \in 0 .. Len(Stages) : S = beginning(k)
    ELSE Len(Stages) + 1

Resumable == INSTANCE ResumableSteps WITH
    Flow <- Stages,
    performed <- count(performed),
    ledger <- count(completed_stages),
    complete <- \E r \in Run : result[r] = "ok"

\* Stages are performed in order, the file names a beginning of them, and
\* run_stages returns ok only when every stage was performed (stages.py:49-60),
\* whoever else runs, dies or resets.
ImplementsResumable == Resumable!Spec

\* Behind it: what a run holds, and what the file holds, is a beginning of the
\* stages that were performed; and a run holds every stage it has passed.
StagesInv ==
    /\ TypeOK
    /\ isBeginning(performed)
    /\ isBeginning(completed_stages) /\ completed_stages \subseteq performed
    /\ \A r \in Run :
          /\ isBeginning(done[r]) /\ done[r] \subseteq performed
          /\ pc[r] # "idle" => beginning(at[r] - 1) \subseteq done[r]
          /\ result[r] = "ok" => performed = Names
=============================================================================
