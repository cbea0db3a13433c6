--------------------------- MODULE ProvisionProofs ---------------------------
(***************************************************************************)
(* Proofs about Provision, for any scripts, applications and processes.      *)
(***************************************************************************)
EXTENDS Provision, TLAPS

-----------------------------------------------------------------------------
(* Steps and names.                                                         *)

LEMMA PlanFacts ==
    ASSUME NEW x \in Script, NEW i \in 1 .. Len(Plan[x])
    PROVE  /\ Plan[x] \in Seq(Step) /\ Plan[x][i] \in Step /\ Plan[x][i] \in Steps
           /\ Plan[x][i].obj \in Name /\ Plan[x][i].uses \subseteq Name
<1>1. Plan[x] \in Seq(Step)
  BY ProvisionAssumption
<1>2. Plan[x][i] \in Step
  BY <1>1
<1>3. Plan[x][i] \in Steps
  BY DEF Steps
<1> QED
  BY <1>1, <1>2, <1>3 DEF Step

LEMMA NamesFacts ==
    ASSUME NEW x \in Script, NEW i \in 1 .. Len(Plan[x])
    PROVE  /\ Plan[x][i].obj \in names[x] /\ Plan[x][i].uses \subseteq names[x]
           /\ Plan[x][i].op = "prune" => Links \subseteq names[x]
<1> DEFINE N(k) == {Plan[x][k].obj} \cup Plan[x][k].uses
           M == UNION {N(k) : k \in 1 .. Len(Plan[x])}
           L == {n \in Links : \E k \in 1 .. Len(Plan[x]) : Plan[x][k].op = "prune"}
<1>1. names[x] = M \cup L
  BY DEF names
<1>2. N(i) \subseteq M
  OBVIOUS
<1>3. Plan[x][i].obj \in N(i) /\ Plan[x][i].uses \subseteq N(i)
  OBVIOUS
<1>4. Plan[x][i].op = "prune" => Links \subseteq L
  OBVIOUS
<1> HIDE DEF N, M, L
<1> QED
  BY <1>1, <1>2, <1>3, <1>4

\* The state of the run of j, and what it is at.
LEMMA AtFacts ==
    ASSUME TypeOK, NEW j \in Job
    PROVE  /\ script[j] \in Script /\ step[j] \in 1 .. Len(Plan[script[j]])
           /\ Len(Plan[script[j]]) \in Nat
           /\ at(j) \in Step /\ at(j) \in Steps /\ at(j).obj \in Name /\ at(j).uses \subseteq Name
           /\ value(j) \in Nat /\ refs(j) \subseteq Key
<1>1. script[j] \in Script /\ step[j] \in 1 .. Len(Plan[script[j]]) /\ conf[j] \in Conf
  BY DEF TypeOK
<1>2. /\ Len(Plan[script[j]]) \in Nat
      /\ at(j) \in Step /\ at(j) \in Steps /\ at(j).obj \in Name /\ at(j).uses \subseteq Name
  BY <1>1, PlanFacts DEF at
<1>3. value(j) \in Nat
  BY <1>1, <1>2 DEF value, Step
<1>4. refs(j) \subseteq Key
  <2>1. \A n \in DOMAIN known[j] : known[j][n] \in 1 .. MaxGen
    BY DEF TypeOK
  <2> QED
    BY <1>2, <2>1 DEF refs, Key
<1> QED
  BY <1>1, <1>2, <1>3, <1>4

-----------------------------------------------------------------------------
(* What the common parts of the actions do.                                 *)

Others(j) == \A i \in Job \ {j} :
    /\ script'[i] = script[i] /\ phase'[i] = phase[i] /\ step'[i] = step[i]
    /\ known'[i] = known[i] /\ seen'[i] = seen[i] /\ listed'[i] = listed[i]

RunTypes ==
    /\ script \in [Job -> Script] /\ conf \in [Job -> Conf]
    /\ phase \in [Job -> Running \cup {"idle", "ok", "failed"}]
    /\ step \in [Job -> Nat] /\ \A j \in Job : step[j] \in 1 .. Len(Plan[script[j]])
    /\ known = [j \in Job |-> known[j]]
    /\ \A j \in Job : DOMAIN known[j] \subseteq Name /\ \A n \in DOMAIN known[j] : known[j][n] \in 1 .. MaxGen
    /\ seen \in [Job -> [gen : 0 .. MaxGen, fields : SUBSET Field]]
    /\ listed \in [Job -> SUBSET Object]
    /\ errors \in [Job -> BOOLEAN]

\* The run of j goes on as it should.
RunKept(j) == RunTypes' /\ Others(j) /\ RunOK(j)'

LEMMA EndKeeps ==
    ASSUME TypeOK, NEW j \in Job, NEW p \in {"ok", "failed"}, End(j, p)
    PROVE  RunKept(j)
<1>1. /\ script' = script /\ conf' = conf
      /\ phase' \in [Job -> Running \cup {"idle", "ok", "failed"}] /\ phase'[j] = p
      /\ step' \in [Job -> Nat] /\ step'[j] = 1
      /\ seen' \in [Job -> [gen : 0 .. MaxGen, fields : SUBSET Field]]
      /\ listed' \in [Job -> SUBSET Object]
      /\ errors' \in [Job -> BOOLEAN]
  BY ProvisionAssumption DEF End, TypeOK, Unseen
<1>2. known' = [i \in Job |-> known'[i]] /\ known'[j] = NoKeys /\ Others(j)
  BY DEF End, TypeOK, Others
<1>3. \A i \in Job : step'[i] \in 1 .. Len(Plan[script'[i]])
  <2>1. script[j] \in Script /\ Len(Plan[script[j]]) \in Nat /\ Len(Plan[script[j]]) > 0
    BY AtFacts, ProvisionAssumption
  <2>2. step'[j] \in 1 .. Len(Plan[script'[j]])
    BY <1>1, <2>1
  <2>3. \A i \in Job \ {j} : step'[i] \in 1 .. Len(Plan[script'[i]])
    BY <1>2 DEF TypeOK, Others
  <2> QED
    BY <2>2, <2>3
<1>4. \A i \in Job : /\ DOMAIN known'[i] \subseteq Name
                     /\ \A n \in DOMAIN known'[i] : known'[i][n] \in 1 .. MaxGen
  BY <1>2 DEF TypeOK, Others, NoKeys
<1>5. RunOK(j)'
  BY <1>1, <1>2 DEF RunOK, Running, NoKeys
<1> QED
  BY <1>1, <1>2, <1>3, <1>4, <1>5 DEF RunKept, RunTypes, TypeOK

LEMMA WriteKeeps ==
    ASSUME ProvisionInv, NEW j \in Job, phase[j] \in Running,
           NEW p \in {"post", "patch"}, NEW g \in 0 .. MaxGen, NEW F \in SUBSET Field, Write(j, p, g, F),
           p = "post" => at(j).op \in Creating,
           p = "patch" => /\ at(j).op \in Updating
                          /\ at(j).op = "tile" /\ at(j).uses = {} => "refs" \notin F
    PROVE  RunKept(j)
<1>1. TypeOK /\ RunOK(j)
  BY DEF ProvisionInv
<1>2. /\ UNCHANGED <<script, conf, step, known, listed, errors>>
      /\ phase' \in [Job -> Running \cup {"idle", "ok", "failed"}] /\ phase'[j] = p
      /\ seen' \in [Job -> [gen : 0 .. MaxGen, fields : SUBSET Field]]
      /\ seen'[j] = [gen |-> g, fields |-> F]
      /\ \A i \in Job \ {j} : phase'[i] = phase[i] /\ seen'[i] = seen[i]
  <2>1. [gen |-> g, fields |-> F] \in [gen : 0 .. MaxGen, fields : SUBSET Field]
    OBVIOUS
  <2> QED
    BY <1>1, <2>1 DEF Write, TypeOK, Running
<1>3. RunTypes' /\ Others(j)
  BY <1>1, <1>2 DEF TypeOK, RunTypes, Others
<1>4. at(j)' = at(j)
  BY <1>2 DEF at
<1>5. RunOK(j)'
  BY <1>1, <1>2, <1>4 DEF RunOK, Running
<1> QED
  BY <1>3, <1>5 DEF RunKept

\* The next step is taken with all the keys so far.
LEMMA ProceedKeeps ==
    ASSUME ProvisionInv, NEW j \in Job, phase[j] \in Running, NEW k, NEW l \in SUBSET Object,
           NEW failed \in BOOLEAN, Proceed(j, k, l, failed),
           DOMAIN known[j] \subseteq DOMAIN k, DOMAIN k \subseteq Name, \A n \in DOMAIN k : k[n] \in 1 .. MaxGen,
           script[j] \notin Counting /\ at(j).op \in Getting => at(j).obj \in DOMAIN k
    PROVE  RunKept(j)
<1>1. TypeOK /\ RunOK(j)
  BY DEF ProvisionInv
<1>2. CASE step[j] = Len(Plan[script[j]])
  <2>1. PICK p \in {"ok", "failed"} : End(j, p)
    BY <1>2 DEF Proceed
  <2> QED
    BY <1>1, <2>1, EndKeeps
<1>3. CASE step[j] # Len(Plan[script[j]])
  <2>1. /\ script' = script /\ conf' = conf
        /\ phase' = [phase EXCEPT ![j] = "look"]
        /\ step' = [step EXCEPT ![j] = @ + 1]
        /\ known' = [known EXCEPT ![j] = k]
        /\ listed' = [listed EXCEPT ![j] = l]
        /\ errors' = [errors EXCEPT ![j] = @ \/ failed]
        /\ seen' = [seen EXCEPT ![j] = Unseen]
    BY <1>3 DEF Proceed
  <2>2. /\ phase' \in [Job -> Running \cup {"idle", "ok", "failed"}] /\ phase'[j] = "look"
        /\ step' \in [Job -> Nat] /\ step'[j] = step[j] + 1
        /\ seen' \in [Job -> [gen : 0 .. MaxGen, fields : SUBSET Field]]
        /\ listed' \in [Job -> SUBSET Object]
    BY <1>1, <2>1, ProvisionAssumption DEF TypeOK, Running, Unseen
  <2>3. errors' \in [Job -> BOOLEAN]
    BY <1>1, <2>1 DEF TypeOK
  <2>4. known' = [i \in Job |-> known'[i]] /\ known'[j] = k /\ Others(j)
    BY <1>1, <2>1 DEF TypeOK, Others
  <2>5. \A i \in Job : step'[i] \in 1 .. Len(Plan[script'[i]])
    <3>1. step'[j] \in 1 .. Len(Plan[script'[j]])
      BY <1>1, <1>3, <2>1, <2>2, AtFacts
    <3> QED
      BY <1>1, <2>4, <3>1 DEF TypeOK, Others
  <2>6. \A i \in Job : /\ DOMAIN known'[i] \subseteq Name
                       /\ \A n \in DOMAIN known'[i] : known'[i][n] \in 1 .. MaxGen
    BY <1>1, <2>4 DEF TypeOK, Others
  <2>7. RunOK(j)'
    <3>1. ASSUME script[j] \notin Counting, NEW i \in 1 .. step[j], Plan[script[j]][i].op \in Getting
          PROVE  Plan[script[j]][i].obj \in DOMAIN k
      <4>1. CASE i = step[j]
        BY <3>1, <4>1 DEF at
      <4>2. CASE i # step[j]
        <5>1. i \in 1 .. (step[j] - 1)
          BY <1>1, <4>2 DEF TypeOK
        <5> QED
          BY <1>1, <3>1, <5>1 DEF RunOK
      <4> QED
        BY <4>1, <4>2
    <3>2. 1 .. (step'[j] - 1) = 1 .. step[j]
      BY <1>1, <2>2 DEF TypeOK
    <3>3. phase'[j] # "patch" /\ phase'[j] # "prune"
      BY <2>2
    <3> QED
      BY <2>1, <2>2, <2>4, <3>1, <3>2, <3>3 DEF RunOK, Running
  <2> QED
    BY <1>1, <2>1, <2>2, <2>3, <2>4, <2>5, <2>6, <2>7 DEF RunKept, RunTypes, TypeOK
<1> QED
  BY <1>2, <1>3

LEMMA PassKeeps ==
    ASSUME ProvisionInv, NEW j \in Job, phase[j] \in Running, Pass(j), at(j).op \notin Getting
    PROVE  RunKept(j)
<1>1. /\ DOMAIN known[j] \subseteq Name /\ \A n \in DOMAIN known[j] : known[j][n] \in 1 .. MaxGen
      /\ listed[j] \in SUBSET Object
  BY DEF ProvisionInv, TypeOK
<1>2. Proceed(j, known[j], listed[j], FALSE)
  BY DEF Pass
<1> QED
  BY <1>1, <1>2, ProceedKeeps

\* The run gets the key of an object.
LEMMA HaveFacts ==
    ASSUME TypeOK, NEW j \in Job, NEW o \in Object
    PROVE  /\ DOMAIN known[j] \subseteq DOMAIN have(j, o) /\ DOMAIN have(j, o) \subseteq Name
           /\ \A n \in DOMAIN have(j, o) : have(j, o)[n] \in 1 .. MaxGen
           /\ o.name \in DOMAIN have(j, o)
BY DEF TypeOK, have, Object

LEMMA HaveKeeps ==
    ASSUME ProvisionInv, NEW j \in Job, phase[j] \in Running, NEW o \in Object, Have(j, o),
           o.name = at(j).obj
    PROVE  RunKept(j)
<1>1. TypeOK /\ listed[j] \in SUBSET Object
  BY DEF ProvisionInv, TypeOK
<1>2. Proceed(j, have(j, o), listed[j], FALSE)
  BY DEF Have
<1>3. /\ DOMAIN known[j] \subseteq DOMAIN have(j, o) /\ DOMAIN have(j, o) \subseteq Name
      /\ \A n \in DOMAIN have(j, o) : have(j, o)[n] \in 1 .. MaxGen
      /\ at(j).obj \in DOMAIN have(j, o)
  BY <1>1, HaveFacts
<1> QED
  BY <1>1, <1>2, <1>3, ProceedKeeps

\* Who counts errors is not counted on to have the keys.
LEMMA ErrorKeeps ==
    ASSUME ProvisionInv, NEW j \in Job, phase[j] \in Running, Error(j)
    PROVE  RunKept(j)
<1>1. TypeOK
  BY DEF ProvisionInv
<1>2. CASE at(j).op = "try"
  BY <1>2, PassKeeps DEF Error, Getting
<1>3. CASE at(j).op # "try" /\ script[j] \in Counting /\ at(j).op # "need"
  <2>1. Proceed(j, known[j], listed[j], TRUE)
    BY <1>3 DEF Error
  <2>2. /\ DOMAIN known[j] \subseteq Name /\ \A n \in DOMAIN known[j] : known[j][n] \in 1 .. MaxGen
        /\ listed[j] \in SUBSET Object
    BY <1>1 DEF TypeOK
  <2> QED
    BY <1>3, <2>1, <2>2, ProceedKeeps
<1>4. CASE at(j).op # "try" /\ ~(script[j] \in Counting /\ at(j).op # "need")
  <2>1. End(j, "failed")
    BY <1>4 DEF Error
  <2> QED
    BY <1>1, <2>1, EndKeeps
<1> QED
  BY <1>2, <1>3, <1>4

-----------------------------------------------------------------------------
(* The actions keep the invariant.                                          *)

AppTypes ==
    /\ objs \subseteq Object
    /\ born \in [Name -> 0 .. MaxGen] /\ scene \in Scenes
    /\ disturbed \in [Job -> BOOLEAN]
    /\ shared \subseteq Name
    /\ events \in 0 .. MaxEvents /\ edits \in 0 .. MaxEdits

LEMMA StepKeeps == ASSUME ProvisionInv, NEW j \in Job, RunKept(j), AppTypes' PROVE ProvisionInv'
<1>1. TypeOK'
  BY DEF RunKept, RunTypes, AppTypes, TypeOK
<1>2. ASSUME NEW i \in Job \ {j} PROVE RunOK(i)'
  <2>1. /\ script'[i] = script[i] /\ phase'[i] = phase[i] /\ step'[i] = step[i]
        /\ known'[i] = known[i] /\ seen'[i] = seen[i] /\ listed'[i] = listed[i]
    BY DEF RunKept, Others
  <2>2. RunOK(i)
    BY DEF ProvisionInv
  <2>3. at(i)' = at(i)
    BY <2>1 DEF at
  <2> QED
    BY <2>1, <2>2, <2>3 DEF RunOK
<1> QED
  BY <1>1, <1>2 DEF RunKept, ProvisionInv

LEMMA EventTypes ==
    ASSUME TypeOK, Event \/ UNCHANGED events PROVE events' \in 0 .. MaxEvents
BY ProvisionAssumption DEF Event, TypeOK

LEMMA BeginKeeps ==
    ASSUME ProvisionInv, NEW j \in Job, NEW x \in Script, NEW c \in Conf, Begin(j, x, c),
           phase[j] \notin Running, Event \/ UNCHANGED events
    PROVE  ProvisionInv'
<1>1. TypeOK /\ events' \in 0 .. MaxEvents
  BY EventTypes DEF ProvisionInv
<1>2. /\ script' \in [Job -> Script] /\ script'[j] = x /\ conf' \in [Job -> Conf]
      /\ phase' \in [Job -> Running \cup {"idle", "ok", "failed"}] /\ phase'[j] = "look"
      /\ disturbed' \in [Job -> BOOLEAN]
      /\ UNCHANGED <<objs, born, scene, step, known, seen, listed, errors, edits, shared>>
      /\ \A i \in Job \ {j} : script'[i] = script[i] /\ phase'[i] = phase[i]
  BY <1>1 DEF Begin, TypeOK, Running
<1>3. \A i \in Job : step'[i] \in 1 .. Len(Plan[script'[i]])
  <2>1. Len(Plan[x]) \in Nat /\ Len(Plan[x]) > 0
    BY ProvisionAssumption
  <2>2. step[j] = 1
    BY DEF ProvisionInv, RunOK
  <2>3. step'[j] \in 1 .. Len(Plan[script'[j]])
    BY <1>2, <2>1, <2>2
  <2> QED
    BY <1>1, <1>2, <2>3 DEF TypeOK
<1>4. RunTypes' /\ AppTypes' /\ Others(j)
  BY <1>1, <1>2, <1>3 DEF TypeOK, RunTypes, AppTypes, Others
<1>5. RunOK(j)'
  <2>1. step'[j] = 1
    BY <1>2 DEF ProvisionInv, RunOK
  <2> QED
    BY <1>2, <2>1 DEF RunOK, Running
<1> QED
  BY <1>4, <1>5, StepKeeps DEF RunKept

LEMMA LookKeeps ==
    ASSUME ProvisionInv, NEW j \in Job, RunKept(j), UNCHANGED application
    PROVE  ProvisionInv'
<1>1. AppTypes'
  BY DEF ProvisionInv, TypeOK, AppTypes, application
<1> QED
  BY <1>1, StepKeeps

\* Objects of a name.
LEMMA NamedFacts ==
    ASSUME TypeOK, NEW n, NEW o \in named(n)
    PROVE  o \in Object /\ o \in objs /\ o.name = n
BY DEF TypeOK, named

LEMMA CreateKeeps ==
    ASSUME ProvisionInv, NEW j \in Job, phase[j] \in Running, at(j).op \in Creating, Create(j)
    PROVE  RunKept(j)
<1>1. 0 \in 0 .. MaxGen /\ {} \in SUBSET Field
  BY ProvisionAssumption
<1>2. Write(j, "post", 0, {})
  BY DEF Create
<1> QED
  BY <1>1, <1>2, WriteKeeps

\* The tile never sends a provider, and a step that needs nothing is no update.
LEMMA UpdateKeeps ==
    ASSUME ProvisionInv, NEW j \in Job, phase[j] \in Running, at(j).op \in Updating,
           NEW o \in Object, o.name = at(j).obj, Update(j, o)
    PROVE  RunKept(j)
<1>1. CASE changed(j, o) = {}
  <2>1. Have(j, o)
    BY <1>1 DEF Update
  <2> QED
    BY <2>1, HaveKeeps
<1>2. CASE changed(j, o) # {}
  <2> DEFINE F == changed(j, o)
  <2>1. Write(j, "patch", o.gen, F)
    BY <1>2 DEF Update
  <2>2. F \in SUBSET Field
    BY DEF changed
  <2>3. o.gen \in 0 .. MaxGen
    BY ProvisionAssumption DEF Object
  <2>4. at(j).op = "tile" /\ at(j).uses = {} => "refs" \notin F
    <3>1. at(j).uses = {} => refs(j) = {}
      BY DEF refs
    <3> QED
      BY <3>1 DEF changed
  <2> HIDE DEF F
  <2> QED
    BY <2>1, <2>2, <2>3, <2>4, WriteKeeps
<1> QED
  BY <1>1, <1>2

LEMMA LookingFacts == ASSUME NEW j \in Job, NEW ops, looking(j, ops)
                      PROVE  phase[j] \in Running /\ at(j).op \in ops
BY DEF looking, Running

LEMMA NeedKeeps == ASSUME ProvisionInv, NEW j \in Job, Need(j) PROVE ProvisionInv'
<1>1. phase[j] \in Running /\ TypeOK
  BY LookingFacts DEF Need, ProvisionInv
<1>2. CASE \E o \in named(at(j).obj) : Have(j, o)
  BY <1>1, <1>2, NamedFacts, HaveKeeps, LookKeeps DEF Need
<1>3. CASE Error(j)
  BY <1>1, <1>3, ErrorKeeps, LookKeeps DEF Need
<1> QED
  BY <1>2, <1>3 DEF Need

LEMMA MakeKeeps == ASSUME ProvisionInv, NEW j \in Job, Make(j) PROVE ProvisionInv'
<1>1. phase[j] \in Running /\ TypeOK /\ at(j).op \in {"make", "try", "loose"}
  BY LookingFacts DEF Make, ProvisionInv
<1>2. CASE Pass(j)
  BY <1>1, <1>2, PassKeeps, LookKeeps DEF Make, Getting
<1>3. CASE \E o \in named(at(j).obj) : Have(j, o)
  BY <1>1, <1>3, NamedFacts, HaveKeeps, LookKeeps DEF Make
<1>4. CASE Create(j)
  BY <1>1, <1>4, CreateKeeps, LookKeeps DEF Make, Creating
<1> QED
  BY <1>2, <1>3, <1>4 DEF Make

LEMMA EnsureKeeps == ASSUME ProvisionInv, NEW j \in Job, Ensure(j) PROVE ProvisionInv'
<1>1. phase[j] \in Running /\ TypeOK /\ at(j).op \in Creating \cap Updating
  BY LookingFacts DEF Ensure, ProvisionInv, Creating, Updating
<1>2. CASE \E o \in named(at(j).obj) : Update(j, o)
  BY <1>1, <1>2, NamedFacts, UpdateKeeps, LookKeeps DEF Ensure
<1>3. CASE Create(j)
  BY <1>1, <1>3, CreateKeeps, LookKeeps DEF Ensure
<1> QED
  BY <1>2, <1>3 DEF Ensure

LEMMA SetKeyKeeps == ASSUME ProvisionInv, NEW j \in Job, SetKey(j) PROVE ProvisionInv'
<1>1. phase[j] \in Running /\ TypeOK /\ at(j).op = "key"
  BY LookingFacts DEF SetKey, ProvisionInv
<1>2. PICK g \in 0 .. MaxGen : Write(j, "patch", g, {"secret"})
  <2>1. CASE at(j).obj \in DOMAIN known[j]
    <3>1. known[j][at(j).obj] \in 0 .. MaxGen
      BY <1>1, <2>1, ProvisionAssumption DEF TypeOK
    <3> QED
      BY <2>1, <3>1 DEF SetKey
  <2>2. CASE at(j).obj \notin DOMAIN known[j]
    <3>1. \A o \in named(at(j).obj) : o.gen \in 0 .. MaxGen
      BY <1>1, NamedFacts, ProvisionAssumption DEF Object
    <3> QED
      BY <2>2, <3>1 DEF SetKey
  <2> QED
    BY <2>1, <2>2
<1>3. {"secret"} \in SUBSET Field /\ "refs" \notin {"secret"}
  BY DEF Field
<1>4. RunKept(j)
  BY <1>1, <1>2, <1>3, WriteKeeps DEF Updating
<1> QED
  BY <1>4, LookKeeps DEF SetKey

LEMMA CheckKeeps == ASSUME ProvisionInv, NEW j \in Job, Check(j) PROVE ProvisionInv'
<1>1. phase[j] \in Running /\ at(j).op = "check" /\ (Pass(j) \/ Error(j))
  BY LookingFacts DEF Check
<1>2. RunKept(j)
  BY <1>1, PassKeeps, ErrorKeeps DEF Getting
<1> QED
  BY <1>2, LookKeeps DEF Check

LEMMA ListKeeps == ASSUME ProvisionInv, NEW j \in Job, List(j) PROVE ProvisionInv'
<1>1. phase[j] \in Running /\ at(j).op = "list" /\ TypeOK
  BY LookingFacts DEF List, ProvisionInv
<1> DEFINE L == {o \in objs : o.name \in at(j).uses}
<1>2. L \in SUBSET Object /\ Proceed(j, known[j], L, FALSE)
  BY <1>1 DEF List, TypeOK
<1>3. DOMAIN known[j] \subseteq Name /\ \A n \in DOMAIN known[j] : known[j][n] \in 1 .. MaxGen
  BY <1>1 DEF TypeOK
<1> HIDE DEF L
<1>4. RunKept(j)
  BY <1>1, <1>2, <1>3, ProceedKeeps DEF Getting
<1> QED
  BY <1>4, LookKeeps DEF List

LEMMA EntryKeeps == ASSUME ProvisionInv, NEW j \in Job, Entry(j) PROVE ProvisionInv'
<1>1. phase[j] \in Running /\ at(j).op \in Creating \cap Updating /\ TypeOK
  BY LookingFacts DEF Entry, ProvisionInv, Creating, Updating
<1> DEFINE mine == {o \in listed[j] : o.name = at(j).obj}
<1>2. \A o \in mine : o \in Object /\ o.name = at(j).obj
  BY <1>1 DEF TypeOK
<1>3. Error(j) \/ Create(j) \/ \E o \in mine : Update(j, o)
  BY DEF Entry
<1> HIDE DEF mine
<1>4. RunKept(j)
  BY <1>1, <1>2, <1>3, ErrorKeeps, CreateKeeps, UpdateKeeps
<1> QED
  BY <1>4, LookKeeps DEF Entry

LEMMA PruneKeeps == ASSUME ProvisionInv, NEW j \in Job, Prune(j) PROVE ProvisionInv'
<1>1. phase[j] \in Running /\ at(j).op = "prune" /\ TypeOK /\ RunOK(j)
  BY LookingFacts DEF Prune, ProvisionInv
<1>2. unwanted(j) \in SUBSET Object /\ \A o \in unwanted(j) : o.name \in Links
  BY <1>1 DEF unwanted, TypeOK
<1>3. /\ UNCHANGED <<script, conf, step, known, seen, errors>>
      /\ phase' \in [Job -> Running \cup {"idle", "ok", "failed"}] /\ phase'[j] = "prune"
      /\ listed' \in [Job -> SUBSET Object] /\ listed'[j] = unwanted(j)
      /\ \A i \in Job \ {j} : phase'[i] = phase[i] /\ listed'[i] = listed[i]
  BY <1>1, <1>2 DEF Prune, TypeOK, Running
<1>4. RunTypes' /\ Others(j)
  BY <1>1, <1>3 DEF TypeOK, RunTypes, Others
<1>5. at(j)' = at(j)
  BY <1>3 DEF at
<1>6. RunOK(j)'
  BY <1>1, <1>2, <1>3, <1>5 DEF RunOK, Running
<1>7. RunKept(j)
  BY <1>4, <1>6 DEF RunKept
<1> QED
  BY <1>7, LookKeeps DEF Prune

LEMMA FillKeeps == ASSUME ProvisionInv, NEW j \in Job, Fill(j) PROVE ProvisionInv'
<1>1. phase[j] \in Running /\ at(j).op = "fill" /\ TypeOK /\ RunOK(j) /\ UNCHANGED application
  BY LookingFacts DEF Fill, ProvisionInv
<1>2. CASE Pass(j) \/ Error(j)
  BY <1>1, <1>2, PassKeeps, ErrorKeeps, LookKeeps DEF Getting
<1>3. CASE \E o \in objs, d \in objs :
              /\ phase' = [phase EXCEPT ![j] = "patch"]
              /\ seen' = [seen EXCEPT ![j] = [gen |-> o.gen, fields |-> {"refs"}]]
              /\ known' = [known EXCEPT ![j] = have(j, d)]
              /\ UNCHANGED <<script, conf, step, listed, errors>>
  <2>1. PICK o \in objs, d \in objs :
              /\ phase' = [phase EXCEPT ![j] = "patch"]
              /\ seen' = [seen EXCEPT ![j] = [gen |-> o.gen, fields |-> {"refs"}]]
              /\ known' = [known EXCEPT ![j] = have(j, d)]
              /\ UNCHANGED <<script, conf, step, listed, errors>>
    BY <1>3
  <2>2. o \in Object /\ d \in Object /\ o.gen \in 0 .. MaxGen
    <3>1. o \in Object /\ d \in Object
      BY <1>1 DEF TypeOK
    <3> QED
      BY <3>1, ProvisionAssumption DEF Object
  <2>3. [gen |-> o.gen, fields |-> {"refs"}] \in [gen : 0 .. MaxGen, fields : SUBSET Field]
    BY <2>2 DEF Field
  <2>4. /\ phase' \in [Job -> Running \cup {"idle", "ok", "failed"}] /\ phase'[j] = "patch"
        /\ seen' \in [Job -> [gen : 0 .. MaxGen, fields : SUBSET Field]]
    BY <1>1, <2>1, <2>3 DEF TypeOK, Running
  <2>5. known' = [i \in Job |-> known'[i]] /\ known'[j] = have(j, d) /\ Others(j)
    BY <1>1, <2>1 DEF TypeOK, Others
  <2>6. \A i \in Job : /\ DOMAIN known'[i] \subseteq Name
                       /\ \A n \in DOMAIN known'[i] : known'[i][n] \in 1 .. MaxGen
    <3>1. /\ DOMAIN known'[j] \subseteq Name
          /\ \A n \in DOMAIN known'[j] : known'[j][n] \in 1 .. MaxGen
      BY <1>1, <2>2, <2>5, HaveFacts
    <3> QED
      BY <1>1, <2>5, <3>1 DEF TypeOK, Others
  <2>7. RunTypes'
    BY <1>1, <2>1, <2>4, <2>5, <2>6 DEF RunTypes, TypeOK
  <2>8. at(j)' = at(j) /\ DOMAIN known[j] \subseteq DOMAIN known'[j]
    BY <1>1, <2>1, <2>2, <2>5, HaveFacts DEF at
  <2>9. RunOK(j)'
    BY <1>1, <2>1, <2>4, <2>8 DEF RunOK, Running, Updating
  <2> QED
    BY <1>1, <2>5, <2>7, <2>9, LookKeeps DEF RunKept
<1>4. \/ Pass(j) \/ Error(j)
      \/ \E o \in objs, d \in objs :
            /\ phase' = [phase EXCEPT ![j] = "patch"]
            /\ seen' = [seen EXCEPT ![j] = [gen |-> o.gen, fields |-> {"refs"}]]
            /\ known' = [known EXCEPT ![j] = have(j, d)]
            /\ UNCHANGED <<script, conf, step, listed, errors>>
  BY Zenon DEF Fill, named
<1> QED
  BY <1>2, <1>3, <1>4

-----------------------------------------------------------------------------
(* Requests.                                                                *)

LEMMA TouchTypes ==
    ASSUME TypeOK, NEW j \in Job, NEW n \in Name, Touch(j, n)
    PROVE  disturbed' \in [Job -> BOOLEAN] /\ shared' \subseteq Name
BY DEF Touch, TypeOK

\* What the steps ask for is a number, and so is a secret.
LEMMA SentFacts ==
    ASSUME TypeOK, NEW j \in Job, NEW o \in Object
    PROVE  /\ sent(j, o) \in Object /\ pk(sent(j, o)) = pk(o) /\ sent(j, o).name = o.name
           /\ sent(j, o).refs = IF "refs" \in seen[j].fields THEN refs(j) ELSE o.refs
<1>1. value(j) \in Nat /\ refs(j) \subseteq Key
  BY AtFacts
<1> QED
  BY <1>1 DEF sent, Object, pk

LEMMA AnsweredKeeps ==
    ASSUME ProvisionInv, NEW j \in Job, phase[j] \in Running, NEW G, Answered(j, G), G => RunKept(j)
    PROVE  RunKept(j) /\ events' \in 0 .. MaxEvents
BY ErrorKeeps, EventTypes DEF Answered, ProvisionInv

LEMMA RefusedKeeps ==
    ASSUME ProvisionInv, NEW j \in Job, phase[j] \in Running, Error(j),
           UNCHANGED <<objs, born, scene, events, disturbed, shared, edits>>
    PROVE  ProvisionInv'
<1>1. AppTypes'
  BY DEF ProvisionInv, TypeOK, AppTypes
<1> QED
  BY <1>1, ErrorKeeps, StepKeeps

LEMMA PostKeeps == ASSUME ProvisionInv, NEW j \in Job, Post(j) PROVE ProvisionInv'
<1>1. phase[j] \in Running /\ TypeOK /\ UNCHANGED <<scene, edits>>
  BY DEF Post, Running, ProvisionInv
<1> DEFINE n == at(j).obj
           o == [name |-> n, gen |-> born[n] + 1, body |-> value(j),
                 secret |-> IF at(j).op \in WithSecret THEN value(j) ELSE 0, refs |-> refs(j)]
<1>2. CASE /\ born[n] < MaxGen /\ objs' = objs \cup {o} /\ born' = [born EXCEPT ![n] = @ + 1]
           /\ Touch(j, n) /\ Answered(j, Have(j, o))
  <2>1. n \in Name /\ value(j) \in Nat /\ refs(j) \subseteq Key
    BY <1>1, AtFacts
  <2>2. born[n] + 1 \in 1 .. MaxGen
    <3>1. born[n] \in 0 .. MaxGen
      BY <1>1, <2>1 DEF TypeOK
    <3> QED
      BY <1>2, <3>1, ProvisionAssumption
  <2>3. o \in Object /\ o.name = n
    BY <2>1, <2>2 DEF Object
  <2>4. RunKept(j) /\ events' \in 0 .. MaxEvents
    <3> HIDE DEF n, o
    <3>1. Have(j, o) => RunKept(j)
      BY <1>1, <2>3, HaveKeeps DEF n
    <3> QED
      BY <1>1, <1>2, <3>1, AnsweredKeeps
  <2>5. objs' \subseteq Object
    BY <1>1, <1>2, <2>3 DEF TypeOK
  <2>6. born' \in [Name -> 0 .. MaxGen]
    BY <1>1, <1>2, <2>1, <2>2, ProvisionAssumption DEF TypeOK
  <2>7. disturbed' \in [Job -> BOOLEAN] /\ shared' \subseteq Name /\ edits' \in 0 .. MaxEdits /\ scene' \in Scenes
    BY <1>1, <1>2, <2>1, TouchTypes DEF TypeOK
  <2> QED
    BY <2>4, <2>5, <2>6, <2>7, StepKeeps DEF AppTypes
<1>3. CASE Error(j) /\ UNCHANGED <<objs, born, events, disturbed, shared>>
  BY <1>1, <1>3, RefusedKeeps
<1> QED
  BY <1>2, <1>3 DEF Post

LEMMA PatchKeeps == ASSUME ProvisionInv, NEW j \in Job, Patch(j) PROVE ProvisionInv'
<1>1. phase[j] \in Running /\ TypeOK /\ UNCHANGED <<born, scene, edits>>
  BY DEF Patch, Running, ProvisionInv
<1> DEFINE target == {o \in named(at(j).obj) : o.gen = seen[j].gen}
<1>2. CASE /\ objs' = (objs \ target) \cup {sent(j, o) : o \in target}
           /\ Touch(j, at(j).obj)
           /\ Answered(j, \E o \in target : Have(j, o))
  <2>1. \A o \in target : o \in Object /\ o.name = at(j).obj
    BY <1>1, NamedFacts
  <2> HIDE DEF target
  <2>2. (\E o \in target : Have(j, o)) => RunKept(j)
    BY <1>1, <2>1, HaveKeeps
  <2>3. RunKept(j) /\ events' \in 0 .. MaxEvents
    BY <1>1, <1>2, <2>2, AnsweredKeeps
  <2>4. objs' \subseteq Object
    BY <1>1, <1>2, <2>1, SentFacts DEF TypeOK
  <2>5. disturbed' \in [Job -> BOOLEAN] /\ shared' \subseteq Name
    BY <1>1, <1>2, AtFacts, TouchTypes
  <2>6. born' \in [Name -> 0 .. MaxGen] /\ edits' \in 0 .. MaxEdits /\ scene' \in Scenes
    BY <1>1 DEF TypeOK
  <2> QED
    BY <2>3, <2>4, <2>5, <2>6, StepKeeps DEF AppTypes
<1>3. CASE Error(j) /\ UNCHANGED <<objs, events, disturbed, shared>>
  BY <1>1, <1>3, RefusedKeeps
<1> QED
  BY <1>2, <1>3 DEF Patch

LEMMA AddKeeps == ASSUME ProvisionInv, NEW j \in Job, Add(j) PROVE ProvisionInv'
<1>1. phase[j] \in Running /\ TypeOK /\ UNCHANGED <<scene, edits>> /\ at(j).op = "add"
  BY LookingFacts DEF Add, ProvisionInv
<1> DEFINE n == at(j).obj
           o == [name |-> n, gen |-> born[n] + 1, body |-> 0, secret |-> 0, refs |-> refs(j)]
<1>2. CASE /\ \/ UNCHANGED <<objs, born>>
              \/ born[n] < MaxGen /\ objs' = objs \cup {o} /\ born' = [born EXCEPT ![n] = @ + 1]
           /\ Touch(j, n) /\ Answered(j, Pass(j))
  <2>1. n \in Name /\ refs(j) \subseteq Key
    BY <1>1, AtFacts
  <2>2. born[n] < MaxGen => born[n] + 1 \in 1 .. MaxGen
    <3>1. born[n] \in 0 .. MaxGen
      BY <1>1, <2>1 DEF TypeOK
    <3> QED
      BY <3>1, ProvisionAssumption
  <2>3. born[n] < MaxGen => o \in Object
    BY <2>1, <2>2 DEF Object
  <2>4. RunKept(j) /\ events' \in 0 .. MaxEvents
    BY <1>1, <1>2, PassKeeps, AnsweredKeeps DEF Getting
  <2>5. objs' \subseteq Object
    <3> HIDE DEF o
    <3> QED
      BY <1>1, <1>2, <2>3 DEF TypeOK
  <2>6. born' \in [Name -> 0 .. MaxGen]
    <3>1. born \in [Name -> 0 .. MaxGen]
      BY <1>1 DEF TypeOK
    <3>2. UNCHANGED born \/ (born[n] < MaxGen /\ born' = [born EXCEPT ![n] = born[n] + 1])
      BY <1>2
    <3> HIDE DEF n, o
    <3> QED
      BY <2>1, <2>2, <3>1, <3>2, ProvisionAssumption
  <2>7. disturbed' \in [Job -> BOOLEAN] /\ shared' \subseteq Name /\ edits' \in 0 .. MaxEdits /\ scene' \in Scenes
    BY <1>1, <1>2, <2>1, TouchTypes DEF TypeOK
  <2> QED
    BY <2>4, <2>5, <2>6, <2>7, StepKeeps DEF AppTypes
<1>3. CASE Error(j) /\ UNCHANGED <<objs, born, events, disturbed, shared>>
  BY <1>1, <1>3, RefusedKeeps
<1> QED
  BY <1>2, <1>3 DEF Add

LEMMA DropKeeps == ASSUME ProvisionInv, NEW j \in Job, Drop(j) PROVE ProvisionInv'
<1>1. phase[j] \in Running /\ phase[j] = "prune" /\ TypeOK /\ RunOK(j) /\ UNCHANGED <<born, scene, edits>>
  BY DEF Drop, Running, ProvisionInv
<1>2. at(j).op = "prune"
  BY <1>1 DEF RunOK
<1>3. CASE Pass(j) /\ UNCHANGED <<objs, events, disturbed, shared>>
  <2>1. AppTypes'
    BY <1>1, <1>3 DEF TypeOK, AppTypes
  <2> QED
    BY <1>1, <1>2, <1>3, <2>1, PassKeeps, StepKeeps DEF Getting
<1>4. CASE Error(j) /\ UNCHANGED <<objs, events, disturbed, shared>>
  BY <1>1, <1>4, RefusedKeeps
<1>5. ASSUME NEW o \in listed[j],
             objs' = {q \in objs : pk(q) # pk(o)}, Touch(j, o.name),
             Answered(j, /\ listed' = [listed EXCEPT ![j] = @ \ {o}]
                         /\ UNCHANGED <<script, conf, phase, step, known, seen, errors>>)
      PROVE  ProvisionInv'
  <2>1. o \in Object /\ o.name \in Name
    BY <1>1 DEF TypeOK, Object
  <2>2. ASSUME listed' = [listed EXCEPT ![j] = @ \ {o}],
               UNCHANGED <<script, conf, phase, step, known, seen, errors>>
        PROVE  RunKept(j)
    <3>1. listed' \in [Job -> SUBSET Object] /\ listed'[j] \subseteq listed[j]
      BY <1>1, <2>2 DEF TypeOK
    <3>2. RunTypes' /\ Others(j)
      BY <1>1, <2>2, <3>1 DEF TypeOK, RunTypes, Others
    <3>3. at(j)' = at(j)
      BY <2>2 DEF at
    <3>4. RunOK(j)'
      BY <1>1, <2>2, <3>1, <3>3 DEF RunOK
    <3> QED
      BY <3>2, <3>4 DEF RunKept
  <2>3. RunKept(j) /\ events' \in 0 .. MaxEvents
    BY <1>1, <1>5, <2>2, AnsweredKeeps
  <2>4. /\ objs' \subseteq Object /\ born' \in [Name -> 0 .. MaxGen]
        /\ edits' \in 0 .. MaxEdits /\ scene' \in Scenes
    BY <1>1, <1>5 DEF TypeOK
  <2>5. disturbed' \in [Job -> BOOLEAN] /\ shared' \subseteq Name
    BY <1>1, <1>5, <2>1, TouchTypes
  <2> QED
    BY <2>3, <2>4, <2>5, StepKeeps DEF AppTypes
<1> QED
  BY <1>3, <1>4, <1>5 DEF Drop

-----------------------------------------------------------------------------
(* Runs begin and fail, and others change the application.                  *)

LEMMA StartKeeps == ASSUME ProvisionInv, NEW j \in Job, Start(j) \/ Rerun(j) PROVE ProvisionInv'
<1>1. TypeOK
  BY DEF ProvisionInv
<1>2. scene[j] \subseteq Script /\ script[j] \in Script /\ conf[j] \in Conf
  BY <1>1, ProvisionAssumption DEF TypeOK
<1>3. PICK x \in Script, c \in Conf : Begin(j, x, c)
  BY <1>2 DEF Start, Rerun
<1>4. phase[j] \notin Running /\ (Event \/ UNCHANGED events)
  BY DEF Start, Rerun, Running
<1> QED
  BY <1>3, <1>4, BeginKeeps

LEMMA FailureKeeps == ASSUME ProvisionInv, NEW j \in Job, Failure(j) PROVE ProvisionInv'
<1>1. TypeOK /\ phase[j] \in Running
  BY DEF ProvisionInv, Failure
<1>2. RunKept(j)
  BY <1>1, ErrorKeeps, EndKeeps DEF Failure
<1>3. events' \in 0 .. MaxEvents
  BY <1>1, EventTypes DEF Failure
<1>4. AppTypes'
  BY <1>1, <1>3 DEF Failure, AppTypes, TypeOK
<1> QED
  BY <1>2, <1>4, StepKeeps

LEMMA HandKeeps ==
    ASSUME ProvisionInv, objs' \subseteq Object, UNCHANGED born, edits < MaxEdits, NEW N, ByHand(N)
    PROVE  ProvisionInv'
<1>1. TypeOK /\ events' \in 0 .. MaxEvents
  BY EventTypes DEF ProvisionInv, ByHand
<1>2. UNCHANGED <<script, conf, phase, step, known, seen, listed, errors, shared, scene, born>>
  BY DEF ByHand, run
<1>3. edits' \in 0 .. MaxEdits /\ disturbed' \in [Job -> BOOLEAN]
  BY <1>1, ProvisionAssumption DEF ByHand, TypeOK
<1>4. TypeOK'
  BY <1>1, <1>2, <1>3 DEF TypeOK
<1>5. ASSUME NEW j \in Job PROVE RunOK(j)'
  <2>1. RunOK(j) /\ at(j)' = at(j)
    BY <1>2 DEF ProvisionInv, at
  <2> QED
    BY <1>2, <2>1 DEF RunOK
<1> QED
  BY <1>4, <1>5 DEF ProvisionInv

LEMMA EditKeeps == ASSUME ProvisionInv, Edit PROVE ProvisionInv'
<1>1. PICK o \in objs, f \in Field :
         /\ objs' = (objs \ {o}) \cup
               {CASE f = "body" -> [o EXCEPT !.body = 0]
                  [] f = "secret" -> [o EXCEPT !.secret = 0]
                  [] OTHER -> [o EXCEPT !.refs = {}]}
         /\ ByHand({o.name})
  BY DEF Edit
<1>2. o \in Object /\ objs \subseteq Object
  BY DEF ProvisionInv, TypeOK
<1>3. /\ [o EXCEPT !.body = 0] \in Object /\ [o EXCEPT !.secret = 0] \in Object
      /\ [o EXCEPT !.refs = {}] \in Object
  BY <1>2 DEF Object
<1>4. objs' \subseteq Object
  BY <1>1, <1>2, <1>3
<1> QED
  BY <1>1, <1>4, HandKeeps DEF Edit

LEMMA DeleteKeeps == ASSUME ProvisionInv, Delete PROVE ProvisionInv'
<1>1. PICK o \in objs :
         LET hit == {q \in objs : pk(o) \in q.refs}
         IN  /\ objs' = (objs \ ({o} \cup hit)) \cup
                   {[q EXCEPT !.refs = @ \ {pk(o)}] : q \in {r \in hit : r.name \notin Links}}
             /\ ByHand({q.name : q \in {o} \cup hit})
  BY DEF Delete
<1>2. objs \subseteq Object
  BY DEF ProvisionInv, TypeOK
<1>3. \A q \in Object : [q EXCEPT !.refs = @ \ {pk(o)}] \in Object
  BY DEF Object
<1>4. objs' \subseteq Object
  BY <1>1, <1>2, <1>3
<1> QED
  BY <1>1, <1>4, HandKeeps DEF Delete

LEMMA InitInv == Init => ProvisionInv
<1> SUFFICES ASSUME Init PROVE ProvisionInv
  OBVIOUS
<1>1. PICK S \in SUBSET Name :
         /\ objs = [name : S, gen : {1}, body : {0}, secret : {0}, refs : {{}}]
         /\ born = [n \in Name |-> IF n \in S THEN 1 ELSE 0]
  BY ProvisionAssumption DEF Init, Inventories
<1>2. objs \subseteq Object /\ born \in [Name -> 0 .. MaxGen]
  BY <1>1, ProvisionAssumption DEF Object, Key
<1>3. (CHOOSE x \in Script : TRUE) \in Script
  BY ProvisionAssumption
<1>4. /\ script \in [Job -> Script] /\ conf \in [Job -> Conf]
      /\ step \in [Job -> Nat] /\ \A j \in Job : step[j] = 1
      /\ phase \in [Job -> {"idle"}]
  BY <1>3 DEF Init, Conf
<1>5. \A j \in Job : step[j] \in 1 .. Len(Plan[script[j]])
  <2>1. \A x \in Script : Len(Plan[x]) \in Nat /\ Len(Plan[x]) > 0
    BY ProvisionAssumption
  <2> QED
    BY <1>4, <2>1
<1>6. /\ known = [j \in Job |-> known[j]]
      /\ \A j \in Job : DOMAIN known[j] \subseteq Name /\ \A n \in DOMAIN known[j] : known[j][n] \in 1 .. MaxGen
  BY DEF Init, NoKeys
<1>7. /\ seen \in [Job -> [gen : 0 .. MaxGen, fields : SUBSET Field]]
      /\ listed \in [Job -> SUBSET Object]
      /\ errors \in [Job -> BOOLEAN] /\ disturbed \in [Job -> BOOLEAN]
      /\ shared \subseteq Name /\ events \in 0 .. MaxEvents /\ edits \in 0 .. MaxEdits /\ scene \in Scenes
  BY ProvisionAssumption DEF Init, Unseen
<1>8. TypeOK
  BY <1>2, <1>4, <1>5, <1>6, <1>7 DEF TypeOK
<1>9. \A j \in Job : RunOK(j)
  <2>1. \A j \in Job : known[j] = NoKeys
    BY DEF Init
  <2> QED
    BY <1>4, <2>1 DEF RunOK, Running, NoKeys
<1> QED
  BY <1>8, <1>9 DEF ProvisionInv

LEMMA NextInv == ProvisionInv /\ [Next]_vars => ProvisionInv'
<1> SUFFICES ASSUME ProvisionInv, [Next]_vars PROVE ProvisionInv'
  OBVIOUS
<1>1. ASSUME NEW j \in Job, Start(j) \/ Rerun(j) \/ Failure(j) PROVE ProvisionInv'
  BY <1>1, StartKeeps, FailureKeeps
<1>2. ASSUME NEW j \in Job, Work(j) PROVE ProvisionInv'
  BY <1>2, NeedKeeps, MakeKeeps, EnsureKeeps, SetKeyKeeps, FillKeeps, CheckKeeps, ListKeeps,
     EntryKeeps, PruneKeeps, PostKeeps, PatchKeeps, AddKeeps, DropKeeps DEF Work
<1>3. CASE Edit \/ Delete
  BY <1>3, EditKeeps, DeleteKeeps
<1>4. CASE UNCHANGED vars
  <2>1. /\ UNCHANGED <<objs, born, scene, events, edits, disturbed, shared>>
        /\ UNCHANGED <<script, conf, phase, step, known, seen, listed, errors>>
    BY <1>4 DEF vars, run
  <2>2. TypeOK'
    BY <2>1 DEF ProvisionInv, TypeOK
  <2>3. ASSUME NEW j \in Job PROVE RunOK(j)'
    <3>1. RunOK(j) /\ at(j)' = at(j)
      BY <2>1 DEF ProvisionInv, at
    <3> QED
      BY <2>1, <3>1 DEF RunOK
  <2> QED
    BY <2>2, <2>3 DEF ProvisionInv
<1> QED
  BY <1>1, <1>2, <1>3, <1>4 DEF Next

\* Whichever way its requests went, a run of a script that ends at its first error
\* has, at each step, the keys that the steps before were to get (of what it needs,
\* ensures, gives a secret or a tile; not of what it only creates); a tile without
\* a provider sends none; and a run prunes nothing but links.
THEOREM ProvisionInvariant == Spec => []ProvisionInv
<1> QED
  BY InitInv, NextInv, PTL DEF Spec

-----------------------------------------------------------------------------
(* The provider of an application.                                          *)

\* What refers to a provider still does.
Kept == \A o \in objs : o.name \in Apps /\ o.refs # {} =>
           \E q \in objs' : pk(q) = pk(o) /\ q.refs # {}

\* A run that sends the references of an application has its provider's key.
LEMMA SendsProvider ==
    ASSUME ProvisionInv, NEW j \in Job, phase[j] = "patch", at(j).obj \in Apps,
           "refs" \in seen[j].fields
    PROVE  refs(j) # {}
<1>1. TypeOK /\ RunOK(j) /\ phase[j] \in Running
  BY DEF ProvisionInv, Running
<1>2. script[j] \in Script /\ step[j] \in 1 .. Len(Plan[script[j]])
  BY <1>1, AtFacts
<1>3. /\ at(j).op \in Updating
      /\ at(j).op = "tile" => at(j).uses # {}
  BY <1>1 DEF RunOK
<1>4. PICK k \in 1 .. (step[j] - 1) :
         /\ script[j] \notin Counting
         /\ Plan[script[j]][k].op \in Getting /\ Plan[script[j]][k].obj \in at(j).uses
  BY <1>2, <1>3, AppsAssumption DEF at, Updating
<1>5. Plan[script[j]][k].obj \in DOMAIN known[j]
  BY <1>1, <1>4 DEF RunOK
<1> QED
  BY <1>4, <1>5 DEF refs

LEMMA PatchKept == ASSUME ProvisionInv, NEW j \in Job, Patch(j) PROVE Kept
<1> DEFINE target == {o \in named(at(j).obj) : o.gen = seen[j].gen}
<1>1. CASE objs' = objs
  BY <1>1 DEF Kept
<1>2. CASE objs' = (objs \ target) \cup {sent(j, o) : o \in target}
  <2> SUFFICES ASSUME NEW o \in objs, o.name \in Apps, o.refs # {}
               PROVE  \E q \in objs' : pk(q) = pk(o) /\ q.refs # {}
    BY DEF Kept
  <2>1. CASE o \in target
    <3>1. o \in Object /\ o.name = at(j).obj
      BY <2>1, NamedFacts DEF ProvisionInv
    <3>2. pk(sent(j, o)) = pk(o) /\ sent(j, o).refs = IF "refs" \in seen[j].fields THEN refs(j) ELSE o.refs
      BY <3>1, SentFacts DEF ProvisionInv
    <3>3. sent(j, o).refs # {}
      BY <3>1, <3>2, SendsProvider DEF Patch
    <3>4. sent(j, o) \in objs'
      BY <1>2, <2>1
    <3> QED
      BY <3>2, <3>3, <3>4
  <2>2. CASE o \notin target
    <3>1. o \in objs'
      BY <1>2, <2>2
    <3> QED
      BY <3>1
  <2> QED
    BY <2>1, <2>2
<1> QED
  BY <1>1, <1>2 DEF Patch

\* Only links are pruned, and no application is one.
LEMMA DropKept == ASSUME ProvisionInv, NEW j \in Job, Drop(j) PROVE Kept
<1>1. CASE objs' = objs
  BY <1>1 DEF Kept
<1>2. CASE \E o \in listed[j] : objs' = {q \in objs : pk(q) # pk(o)}
  <2>1. PICK o \in listed[j] : objs' = {q \in objs : pk(q) # pk(o)}
    BY <1>2
  <2>2. o.name \in Links
    BY DEF ProvisionInv, RunOK, Drop
  <2>3. \A q \in objs : q.name \in Apps => pk(q) # pk(o)
    BY <2>2, AppsAssumption DEF pk
  <2> QED
    BY <2>1, <2>3 DEF Kept
<1> QED
  BY <1>1, <1>2 DEF Drop

LEMMA NextKept == ASSUME ProvisionInv, Next, run' # run PROVE Kept
<1>1. ASSUME objs \subseteq objs' PROVE Kept
  BY <1>1 DEF Kept
<1>2. ASSUME NEW j \in Job, Start(j) \/ Rerun(j) \/ Failure(j) PROVE Kept
  BY <1>1, <1>2 DEF Start, Rerun, Begin, Failure
<1>3. ASSUME NEW j \in Job,
             \/ Need(j) \/ Make(j) \/ Ensure(j) \/ SetKey(j) \/ Fill(j) \/ Check(j)
             \/ List(j) \/ Entry(j) \/ Prune(j)
      PROVE  Kept
  <2>1. UNCHANGED application
    BY <1>3 DEF Need, Make, Ensure, SetKey, Fill, Check, List, Entry, Prune, application
  <2> QED
    BY <1>1, <2>1 DEF application
<1>4. ASSUME NEW j \in Job, Post(j) \/ Add(j) PROVE Kept
  <2>1. objs \subseteq objs'
    BY <1>4 DEF Post, Add
  <2> QED
    BY <1>1, <2>1
<1>5. ASSUME NEW j \in Job, Patch(j) \/ Drop(j) PROVE Kept
  BY <1>5, PatchKept, DropKept
<1>6. ~Edit /\ ~Delete
  BY DEF Edit, Delete, ByHand
<1> QED
  BY <1>2, <1>3, <1>4, <1>5, <1>6 DEF Next, Work

\* No run takes an application's provider away, whatever it had read before and
\* whatever ran beside it.
THEOREM ProvidersAreKept == Spec => ProviderKept
<1>1. ProvisionInv /\ [Next]_vars =>
         [run' # run => \A o \in objs : o.name \in Apps /\ o.refs # {} =>
             \E q \in objs' : pk(q) = pk(o) /\ q.refs # {}]_vars
  BY NextKept DEF Kept
<1> QED
  BY <1>1, ProvisionInvariant, PTL DEF Spec, ProviderKept

-----------------------------------------------------------------------------
(* One account for each fingerprint.                                        *)

\* Of the links, none is new or other than it was.
Fewer == \A o \in objs' : o.name \in Linking =>
            \E q \in objs : q.name = o.name /\ q.body = o.body

\* Of the links, only the one that j is at is new or other than it was.
OnlyOwn(j) == \A o \in objs' : o.name \in Linking =>
                 \/ \E q \in objs : q.name = o.name /\ q.body = o.body
                 \/ at(j).op = "link" /\ o.name = at(j).obj /\ o.body = value(j)

\* The part of the state of the run of i that matters here.
SameRun(i) ==
    /\ script'[i] = script[i] /\ conf'[i] = conf[i] /\ phase'[i] = phase[i]
    /\ step'[i] = step[i] /\ listed'[i] = listed[i]

LEMMA FewerIsOwn == ASSUME NEW j \in Job, Fewer PROVE OnlyOwn(j)
BY DEF Fewer, OnlyOwn

\* A script that links names every link, and its links are of that kind.
LEMMA LinkFacts ==
    ASSUME TypeOK, NEW j \in Job, linksOf(script[j]) # {}
    PROVE  Linking \subseteq names[script[j]]
<1>1. script[j] \in Script
  BY DEF TypeOK
<1>2. PICK i \in linksOf(script[j]) : \E k \in 1 .. (i - 1) : Plan[script[j]][k].op = "list"
  BY <1>1, LinksAssumption
<1>6. PICK k \in 1 .. (i - 1) : Plan[script[j]][k].op = "list"
  BY <1>2
<1>3. Len(Plan[script[j]]) \in Nat /\ i \in 1 .. Len(Plan[script[j]])
  BY <1>1, AtFacts DEF linksOf
<1>4. k \in 1 .. Len(Plan[script[j]])
  BY <1>3
<1>5. Linking \subseteq Plan[script[j]][k].uses
  BY <1>1, <1>6, <1>4, LinksAssumption
<1> QED
  BY <1>1, <1>4, <1>5, NamesFacts

LEMMA AtLink ==
    ASSUME TypeOK, NEW j \in Job
    PROVE  /\ at(j).op = "link" => step[j] \in linksOf(script[j])
           /\ at(j).obj \in Linking => at(j).op = "link"
<1>1. script[j] \in Script /\ step[j] \in 1 .. Len(Plan[script[j]])
  BY AtFacts
<1> QED
  BY <1>1, LinksAssumption DEF at, linksOf

\* Who only has fewer links to look at is as well off as before.
LEMMA LinkStays ==
    ASSUME NEW i \in Job, LinkOK(i), SameRun(i), disturbed[i] => disturbed'[i],
           Fewer \/ (Watching(i) => disturbed'[i])
    PROVE  LinkOK(i)'
<1> SUFFICES ASSUME Watching(i)' PROVE Fresh(i)' /\ Clear(i)'
  BY DEF LinkOK
<1>1. at(i)' = at(i) /\ value(i)' = value(i)
  BY DEF SameRun, at, value
<1>2. Watching(i) /\ ~disturbed'[i]
  BY DEF Watching, SameRun
<1>3. Fresh(i) /\ Clear(i) /\ Fewer
  BY <1>2 DEF LinkOK
<1>4. Clear(i)'
  BY <1>1, <1>3 DEF Clear, SameRun
<1>5. Fresh(i)'
  <2> SUFFICES ASSUME \E k \in 1 .. (step[i] - 1) : Plan[script[i]][k].op = "list",
                      NEW o \in objs', o.name \in Linking
               PROVE  \/ \E q \in listed[i] : q.name = o.name /\ q.body = o.body
                      \/ \E m \in linksOf(script[i]) :
                            Plan[script[i]][m].obj = o.name /\ Plan[script[i]][m].val[conf[i]] = o.body
    BY DEF Fresh, SameRun
  <2>1. PICK p \in objs : p.name = o.name /\ p.body = o.body
    BY <1>3 DEF Fewer
  <2> QED
    BY <1>3, <2>1 DEF Fresh
<1> QED
  BY <1>4, <1>5

\* A run that is over has nothing left to link.
LEMMA LinkEnds == ASSUME TypeOK, NEW j \in Job, NEW p \in {"ok", "failed"}, End(j, p) PROVE LinkOK(j)'
<1>1. phase'[j] = p
  BY DEF End, TypeOK
<1> QED
  BY <1>1 DEF LinkOK, Watching, Running

\* What a run has linked itself, its script asks for.
LEMMA FreshAfter ==
    ASSUME TypeOK, NEW j \in Job, Fresh(j), OnlyOwn(j),
           script'[j] = script[j], conf'[j] = conf[j], listed'[j] = listed[j],
           (\E k \in 1 .. (step'[j] - 1) : Plan[script[j]][k].op = "list") =>
              \E k \in 1 .. (step[j] - 1) : Plan[script[j]][k].op = "list"
    PROVE  Fresh(j)'
<1> SUFFICES ASSUME \E k \in 1 .. (step[j] - 1) : Plan[script[j]][k].op = "list",
                    NEW o \in objs', o.name \in Linking
             PROVE  \/ \E q \in listed[j] : q.name = o.name /\ q.body = o.body
                    \/ \E m \in linksOf(script[j]) :
                          Plan[script[j]][m].obj = o.name /\ Plan[script[j]][m].val[conf[j]] = o.body
  BY DEF Fresh
<1>1. CASE \E p \in objs : p.name = o.name /\ p.body = o.body
  BY <1>1 DEF Fresh
<1>2. CASE at(j).op = "link" /\ o.name = at(j).obj /\ o.body = value(j)
  BY <1>2, AtLink DEF at, value
<1> QED
  BY <1>1, <1>2 DEF OnlyOwn

\* The next step is taken with the same list.
LEMMA LinkProceeds ==
    ASSUME TypeOK, NEW j \in Job, phase[j] \in Running, LinkOK(j), disturbed[j] => disturbed'[j],
           OnlyOwn(j), Watching(j) => at(j).op # "list" \/ script[j] \in Counting,
           NEW k, NEW failed \in BOOLEAN, Proceed(j, k, listed[j], failed)
    PROVE  LinkOK(j)'
<1>1. CASE step[j] = Len(Plan[script[j]])
  <2>1. PICK p \in {"ok", "failed"} : End(j, p)
    BY <1>1 DEF Proceed
  <2> QED
    BY <2>1, LinkEnds
<1>2. CASE step[j] # Len(Plan[script[j]])
  <2>1. /\ script'[j] = script[j] /\ conf'[j] = conf[j] /\ phase'[j] = "look"
        /\ step'[j] = step[j] + 1 /\ listed'[j] = listed[j]
    BY <1>2 DEF Proceed, TypeOK
  <2> SUFFICES ASSUME Watching(j)' PROVE Fresh(j)' /\ Clear(j)'
    BY DEF LinkOK
  <2>2. Watching(j)
    BY <2>1 DEF Watching
  <2>3. Clear(j)'
    BY <2>1 DEF Clear
  <2>4. at(j).op # "list"
    <3>1. script[j] \in Script
      BY DEF TypeOK
    <3> QED
      BY <2>2, <3>1, LinksAssumption DEF Watching
  <2>5. (\E m \in 1 .. (step'[j] - 1) : Plan[script[j]][m].op = "list") =>
           \E m \in 1 .. (step[j] - 1) : Plan[script[j]][m].op = "list"
    <3> SUFFICES ASSUME NEW m \in 1 .. step[j], Plan[script[j]][m].op = "list"
                 PROVE  m \in 1 .. (step[j] - 1)
      BY <2>1 DEF TypeOK
    <3>1. m # step[j]
      BY <2>4 DEF at
    <3> QED
      BY <3>1 DEF TypeOK
  <2> QED
    BY <2>1, <2>2, <2>3, <2>5, FreshAfter DEF LinkOK
<1> QED
  BY <1>1, <1>2

LEMMA LinkPasses ==
    ASSUME TypeOK, NEW j \in Job, phase[j] \in Running, LinkOK(j), disturbed[j] => disturbed'[j],
           OnlyOwn(j), Watching(j) => at(j).op # "list", NEW o, Pass(j) \/ Have(j, o)
    PROVE  LinkOK(j)'
BY LinkProceeds DEF Pass, Have

LEMMA LinkErrs ==
    ASSUME TypeOK, NEW j \in Job, phase[j] \in Running, LinkOK(j), disturbed[j] => disturbed'[j],
           OnlyOwn(j), Error(j)
    PROVE  LinkOK(j)'
<1>1. CASE at(j).op = "try"
  BY <1>1, LinkPasses DEF Error
<1>2. CASE Proceed(j, known[j], listed[j], TRUE) /\ script[j] \in Counting
  BY <1>2, LinkProceeds
<1>3. CASE End(j, "failed")
  BY <1>3, LinkEnds
<1> QED
  BY <1>1, <1>2, <1>3 DEF Error

\* About to write, with the list unchanged.
LEMMA LinkWrites ==
    ASSUME TypeOK, NEW j \in Job, phase[j] \in Running, LinkOK(j), UNCHANGED application,
           UNCHANGED <<script, conf, step, listed>>, at(j).op # "list",
           at(j).op = "link" => \A q \in listed[j] : q.name # at(j).obj => q.body # value(j)
    PROVE  LinkOK(j)'
<1>1. UNCHANGED <<objs, disturbed>> /\ at(j)' = at(j) /\ value(j)' = value(j)
  BY DEF application, at, value
<1> SUFFICES ASSUME Watching(j)' PROVE Fresh(j)' /\ Clear(j)'
  BY DEF LinkOK
<1>2. Fresh(j)
  BY <1>1 DEF LinkOK, Watching
<1> QED
  BY <1>1, <1>2 DEF Fresh, Clear

\* A run's step, the others being as they were.
SameOthers(j) == \A i \in Job \ {j} : SameRun(i) /\ (disturbed[i] => disturbed'[i])

LEMMA LinkStep ==
    ASSUME TypeOK, LinkInv, NEW j \in Job, SameOthers(j), LinkOK(j)', OneAccountPerKey',
           Fewer \/ \A i \in Job \ {j} : Watching(i) => disturbed'[i]
    PROVE  LinkInv'
<1>1. ASSUME NEW i \in Job \ {j} PROVE LinkOK(i)'
  BY <1>1, LinkStays DEF LinkInv, SameOthers
<1> QED
  BY <1>1 DEF LinkInv

LEMMA FewerKeepsOne ==
    ASSUME LinkInv, Fewer, shared \subseteq shared' PROVE OneAccountPerKey'
<1> SUFFICES ASSUME NEW o \in objs', NEW q \in objs', o.name \in Linking, q.name \in Linking,
                    o.name \notin shared', q.name \notin shared', o.name # q.name, o.body \notin Twice \cup {0}
             PROVE  o.body # q.body
  BY DEF OneAccountPerKey
<1>1. PICK p \in objs : p.name = o.name /\ p.body = o.body
  BY DEF Fewer
<1>2. PICK r \in objs : r.name = q.name /\ r.body = q.body
  BY DEF Fewer
<1>3. \A a, b \in {l \in objs : l.name \in Linking /\ l.name \notin shared} :
         a.name # b.name /\ a.body \notin Twice \cup {0} => a.body # b.body
  BY DEF LinkInv, OneAccountPerKey
<1>4. p \in {l \in objs : l.name \in Linking /\ l.name \notin shared}
  BY <1>1
<1>5. r \in {l \in objs : l.name \in Linking /\ l.name \notin shared}
  BY <1>2
<1> QED
  BY <1>1, <1>2, <1>3, <1>4, <1>5

LEMMA FewerStep ==
    ASSUME TypeOK, LinkInv, NEW j \in Job, SameOthers(j), LinkOK(j)', Fewer, shared \subseteq shared'
    PROVE  LinkInv'
BY FewerKeepsOne, LinkStep

LEMMA LookStep ==
    ASSUME TypeOK, LinkInv, NEW j \in Job, SameOthers(j), LinkOK(j)', UNCHANGED application
    PROVE  LinkInv'
<1>1. Fewer /\ shared \subseteq shared'
  BY DEF Fewer, application
<1> QED
  BY <1>1, FewerStep

-----------------------------------------------------------------------------
(* What the parts of the actions leave to the others.                       *)

\* j goes on, by one of the ways it has.
Goes(j) == \A i \in Job \ {j} : SameRun(i)

LEMMA EndGoes == ASSUME TypeOK, NEW j \in Job, NEW p, End(j, p) PROVE Goes(j)
BY DEF TypeOK, End, Goes, SameRun

LEMMA ProceedGoes ==
    ASSUME TypeOK, NEW j \in Job, NEW k, NEW l, NEW failed, Proceed(j, k, l, failed) PROVE Goes(j)
BY EndGoes DEF TypeOK, Proceed, Goes, SameRun

LEMMA PassGoes == ASSUME TypeOK, NEW j \in Job, NEW o, Pass(j) \/ Have(j, o) PROVE Goes(j)
BY ProceedGoes DEF Pass, Have

LEMMA ErrorGoes == ASSUME TypeOK, NEW j \in Job, Error(j) PROVE Goes(j)
BY PassGoes, ProceedGoes, EndGoes DEF Error

LEMMA LookGoes == ASSUME TypeOK, NEW j \in Job, Goes(j), UNCHANGED application PROVE SameOthers(j)
BY DEF Goes, SameOthers, application

\* A lookup ends with an answer, with an error, or in a request to come.
LEMMA LookDone ==
    ASSUME TypeOK, LinkInv, NEW j \in Job, phase[j] \in Running, at(j).op # "list",
           UNCHANGED application, NEW o, Pass(j) \/ Have(j, o) \/ Error(j)
    PROVE  LinkInv'
<1>1. OnlyOwn(j) /\ (disturbed[j] => disturbed'[j]) /\ LinkOK(j)
  BY DEF OnlyOwn, application, LinkInv
<1>2. Goes(j) /\ LinkOK(j)'
  BY <1>1, PassGoes, ErrorGoes, LinkPasses, LinkErrs
<1> QED
  BY <1>2, LookGoes, LookStep

LEMMA LookWrites ==
    ASSUME TypeOK, LinkInv, NEW j \in Job, phase[j] \in Running, at(j).op # "list",
           UNCHANGED application, NEW p, NEW g, NEW F, Write(j, p, g, F),
           at(j).op = "link" => \A q \in listed[j] : q.name # at(j).obj => q.body # value(j)
    PROVE  LinkInv'
<1>1. Goes(j) /\ UNCHANGED <<script, conf, step, listed>>
  BY DEF Write, Goes, SameRun, TypeOK
<1>2. LinkOK(j)'
  BY <1>1, LinkWrites DEF LinkInv
<1> QED
  BY <1>1, <1>2, LookGoes, LookStep

LEMMA LookUpdates ==
    ASSUME TypeOK, LinkInv, NEW j \in Job, phase[j] \in Running, at(j).op # "list",
           UNCHANGED application, NEW o, Update(j, o) \/ Create(j),
           at(j).op = "link" => \A q \in listed[j] : q.name # at(j).obj => q.body # value(j)
    PROVE  LinkInv'
<1>1. Have(j, o) \/ Write(j, "patch", o.gen, changed(j, o)) \/ Write(j, "post", 0, {})
  BY DEF Update, Create
<1> QED
  BY <1>1, LookDone, LookWrites

\* The steps that look something up and are no links.
LEMMA PlainLooks ==
    ASSUME TypeOK, LinkInv, NEW j \in Job,
           Need(j) \/ Make(j) \/ Ensure(j) \/ SetKey(j) \/ Check(j)
    PROVE  LinkInv'
<1>1. phase[j] \in Running /\ at(j).op \notin {"list", "link"} /\ UNCHANGED application
  BY LookingFacts DEF Need, Make, Ensure, SetKey, Check
<1>2. ASSUME Need(j) \/ Make(j) \/ Check(j) PROVE LinkInv'
  <2>1. Pass(j) \/ Error(j) \/ Create(j) \/ \E o \in named(at(j).obj) : Have(j, o)
    BY <1>2 DEF Need, Make, Check
  <2> QED
    BY <1>1, <2>1, LookDone, LookUpdates
<1>3. ASSUME Ensure(j) PROVE LinkInv'
  <2>1. Create(j) \/ \E o \in named(at(j).obj) : Update(j, o)
    BY <1>3 DEF Ensure
  <2> QED
    BY <1>1, <2>1, LookUpdates
<1>4. ASSUME SetKey(j) PROVE LinkInv'
  <2>1. \E g : Write(j, "patch", g, {"secret"})
    BY <1>4 DEF SetKey
  <2> QED
    BY <1>1, <2>1, LookWrites
<1> QED
  BY <1>2, <1>3, <1>4

LEMMA FillLinks == ASSUME TypeOK, LinkInv, NEW j \in Job, Fill(j) PROVE LinkInv'
<1>1. phase[j] \in Running /\ at(j).op = "fill" /\ UNCHANGED application
  BY LookingFacts DEF Fill
<1>2. CASE Pass(j) \/ Error(j)
  BY <1>1, <1>2, LookDone
<1>3. CASE phase' = [phase EXCEPT ![j] = "patch"] /\ UNCHANGED <<script, conf, step, listed>>
  <2>1. Goes(j)
    BY <1>3 DEF Goes, SameRun, TypeOK
  <2>2. LinkOK(j)'
    BY <1>1, <1>3, LinkWrites DEF LinkInv
  <2> QED
    BY <1>1, <2>1, <2>2, LookGoes, LookStep
<1> QED
  BY <1>2, <1>3 DEF Fill

\* The list has every link there is.
LEMMA ListLinks == ASSUME TypeOK, LinkInv, NEW j \in Job, List(j) PROVE LinkInv'
<1>1. phase[j] \in Running /\ at(j).op = "list" /\ UNCHANGED application
  BY LookingFacts DEF List
<1> DEFINE L == {o \in objs : o.name \in at(j).uses}
<1>2. Proceed(j, known[j], L, FALSE)
  BY DEF List
<1>3. LinkOK(j)'
  <2>1. CASE step[j] = Len(Plan[script[j]])
    <3>1. PICK p \in {"ok", "failed"} : End(j, p)
      BY <1>2, <2>1 DEF Proceed
    <3> QED
      BY <3>1, LinkEnds
  <2>2. CASE step[j] # Len(Plan[script[j]])
    <3>1. script'[j] = script[j] /\ conf'[j] = conf[j] /\ phase'[j] = "look" /\ listed'[j] = L
      BY <1>2, <2>2 DEF Proceed, TypeOK
    <3> SUFFICES ASSUME Watching(j)' PROVE Fresh(j)' /\ Clear(j)'
      BY DEF LinkOK
    <3>2. Linking \subseteq at(j).uses
      <4>1. script[j] \in Script /\ step[j] \in 1 .. Len(Plan[script[j]]) /\ linksOf(script[j]) # {}
        BY <3>1, AtFacts DEF Watching
      <4> QED
        BY <1>1, <4>1, LinksAssumption DEF at
    <3>3. objs' = objs
      BY <1>1 DEF application
    <3> QED
      BY <3>1, <3>2, <3>3 DEF Fresh, Clear
  <2> QED
    BY <2>1, <2>2
<1>4. Goes(j)
  BY <1>2, ProceedGoes
<1> QED
  BY <1>1, <1>3, <1>4, LookGoes, LookStep

\* Nothing is linked that the list has for another account.
LEMMA EntryLinks == ASSUME TypeOK, LinkInv, NEW j \in Job, Entry(j) PROVE LinkInv'
<1>1. phase[j] \in Running /\ at(j).op # "list" /\ UNCHANGED application
  BY LookingFacts DEF Entry
<1> DEFINE mine == {o \in listed[j] : o.name = at(j).obj}
<1>2. CASE at(j).op = "link" /\ \E o \in listed[j] \ mine : o.body = value(j)
  BY <1>1, <1>2, LookDone DEF Entry
<1>3. CASE ~(at(j).op = "link" /\ \E o \in listed[j] \ mine : o.body = value(j))
  <2>1. at(j).op = "link" => \A q \in listed[j] : q.name # at(j).obj => q.body # value(j)
    BY <1>3
  <2>2. Create(j) \/ \E o \in mine : Update(j, o)
    BY <1>3 DEF Entry
  <2> QED
    BY <1>1, <2>1, <2>2, LookUpdates
<1> QED
  BY <1>2, <1>3

\* There is no list yet when links are pruned.
LEMMA NoListYet ==
    ASSUME TypeOK, NEW j \in Job, at(j).op = "prune", linksOf(script[j]) # {}
    PROVE  ~ \E k \in 1 .. (step[j] - 1) : Plan[script[j]][k].op = "list"
<1>1. script[j] \in Script /\ step[j] \in 1 .. Len(Plan[script[j]]) /\ Len(Plan[script[j]]) \in Nat
  BY AtFacts
<1> SUFFICES ASSUME NEW k \in 1 .. (step[j] - 1), Plan[script[j]][k].op = "list" PROVE FALSE
  OBVIOUS
<1>2. k \in 1 .. Len(Plan[script[j]]) /\ step[j] \in k .. Len(Plan[script[j]])
  BY <1>1
<1>3. Plan[script[j]][step[j]].op # "prune"
  BY <1>1, <1>2, LinksAssumption
<1> QED
  BY <1>3 DEF at

LEMMA PruneLinks == ASSUME TypeOK, LinkInv, NEW j \in Job, Prune(j) PROVE LinkInv'
<1>1. phase[j] \in Running /\ at(j).op = "prune" /\ UNCHANGED application
  BY LookingFacts DEF Prune
<1>2. Goes(j) /\ UNCHANGED <<script, conf, step>> /\ phase'[j] = "prune"
  BY DEF Prune, Goes, SameRun, TypeOK
<1>3. LinkOK(j)'
  <2> SUFFICES ASSUME Watching(j)' PROVE Fresh(j)' /\ Clear(j)'
    BY DEF LinkOK
  <2>1. ~ \E k \in 1 .. (step[j] - 1) : Plan[script[j]][k].op = "list"
    BY <1>1, <1>2, NoListYet DEF Watching
  <2> QED
    BY <1>2, <2>1 DEF Fresh, Clear
<1> QED
  BY <1>1, <1>2, <1>3, LookGoes, LookStep

-----------------------------------------------------------------------------
(* Requests that change links, or something else.                           *)

LEMMA TouchFacts ==
    ASSUME TypeOK, NEW j \in Job, NEW n, Touch(j, n)
    PROVE  /\ shared \subseteq shared' /\ (disturbed[j] => n \in shared')
           /\ \A i \in Job : disturbed[i] => disturbed'[i]
           /\ n \in Linking => \A i \in Job \ {j} : Watching(i) => disturbed'[i]
<1>1. /\ shared \subseteq shared' /\ (disturbed[j] => n \in shared')
      /\ \A i \in Job : disturbed[i] => disturbed'[i]
  BY DEF Touch, TypeOK
<1>2. ASSUME n \in Linking, NEW i \in Job \ {j}, Watching(i) PROVE disturbed'[i]
  <2>1. phase[i] # "idle" /\ n \in names[script[i]]
    BY <1>2, LinkFacts DEF Watching, Running
  <2> QED
    BY <2>1 DEF Touch
<1> QED
  BY <1>1, <1>2

\* A link that is made or changed gets what no other account has.
LEMMA OwnKeepsOne ==
    ASSUME TypeOK, LinkInv, NEW j \in Job, phase[j] \in {"post", "patch"}, OnlyOwn(j),
           shared \subseteq shared', disturbed[j] => at(j).obj \in shared'
    PROVE  OneAccountPerKey'
<1>1. ASSUME NEW o \in objs', o.name \in Linking, o.name \notin shared',
             at(j).op = "link", o.name = at(j).obj, o.body = value(j),
             NEW r \in objs, r.name \in Linking, r.name # o.name, o.body \notin Twice
      PROVE  r.body # o.body
  <2>1. Watching(j) /\ step[j] \in linksOf(script[j])
    BY <1>1, AtLink DEF Watching, Running
  <2>2. Fresh(j) /\ Clear(j) /\ script[j] \in Script
    BY <2>1 DEF LinkInv, LinkOK, TypeOK
  <2>3. \E k \in 1 .. (step[j] - 1) : Plan[script[j]][k].op = "list"
    BY <2>1, <2>2, LinksAssumption
  <2>4. CASE \E q \in listed[j] : q.name = r.name /\ q.body = r.body
    BY <1>1, <2>2, <2>4 DEF Clear
  <2>5. CASE \E i \in linksOf(script[j]) :
                Plan[script[j]][i].obj = r.name /\ Plan[script[j]][i].val[conf[j]] = r.body
    <3>1. PICK i \in linksOf(script[j]) :
                Plan[script[j]][i].obj = r.name /\ Plan[script[j]][i].val[conf[j]] = r.body
      BY <2>5
    <3>2. conf[j] \in Conf /\ Plan[script[j]][i].obj # Plan[script[j]][step[j]].obj
      BY <1>1, <3>1 DEF TypeOK, at
    <3>3. Plan[script[j]][step[j]].val[conf[j]] \notin Twice
      BY <1>1 DEF at, value
    <3>4. Plan[script[j]][i].val[conf[j]] # Plan[script[j]][step[j]].val[conf[j]]
      <4> SUFFICES ASSUME Plan[script[j]][i].val[conf[j]] = Plan[script[j]][step[j]].val[conf[j]]
                   PROVE  Plan[script[j]][step[j]].val[conf[j]] \in Twice
        BY <3>3
      <4>1. Plan[script[j]][step[j]].val[conf[j]] \in twice(script[j], conf[j])
        BY <2>1, <3>1, <3>2 DEF twice
      <4>2. twice(script[j], conf[j]) \subseteq Twice
        BY <2>2, <3>2 DEF Twice
      <4> QED
        BY <4>1, <4>2
    <3> QED
      BY <1>1, <3>1, <3>4 DEF at, value
  <2> QED
    BY <1>1, <2>2, <2>3, <2>4, <2>5 DEF Fresh
<1> SUFFICES ASSUME NEW o \in objs', NEW q \in objs', o.name \in Linking, q.name \in Linking,
                    o.name \notin shared', q.name \notin shared', o.name # q.name, o.body \notin Twice \cup {0}
             PROVE  o.body # q.body
  BY DEF OneAccountPerKey
<1>2. \A a, b \in {l \in objs : l.name \in Linking /\ l.name \notin shared} :
         a.name # b.name /\ a.body \notin Twice \cup {0} => a.body # b.body
  BY DEF LinkInv, OneAccountPerKey
<1>3. CASE \E p \in objs : p.name = o.name /\ p.body = o.body
  <2>1. PICK p \in objs : p.name = o.name /\ p.body = o.body
    BY <1>3
  <2>2. CASE \E r \in objs : r.name = q.name /\ r.body = q.body
    <3>1. PICK r \in objs : r.name = q.name /\ r.body = q.body
      BY <2>2
    <3>2. p \in {l \in objs : l.name \in Linking /\ l.name \notin shared}
      BY <2>1
    <3>3. r \in {l \in objs : l.name \in Linking /\ l.name \notin shared}
      BY <3>1
    <3> QED
      BY <1>2, <2>1, <3>1, <3>2, <3>3
  <2>3. CASE at(j).op = "link" /\ q.name = at(j).obj /\ q.body = value(j)
    BY <1>1, <2>1, <2>3
  <2> QED
    BY <2>2, <2>3 DEF OnlyOwn
<1>4. CASE at(j).op = "link" /\ o.name = at(j).obj /\ o.body = value(j)
  <2>1. PICK r \in objs : r.name = q.name /\ r.body = q.body
    BY <1>4 DEF OnlyOwn
  <2> QED
    BY <1>1, <1>4, <2>1
<1> QED
  BY <1>3, <1>4 DEF OnlyOwn

LEMMA RequestStep ==
    ASSUME TypeOK, LinkInv, NEW j \in Job, phase[j] \in {"post", "patch"}, OnlyOwn(j),
           Touch(j, at(j).obj), NEW o, Have(j, o) \/ Error(j)
    PROVE  LinkInv'
<1>1. /\ shared \subseteq shared' /\ (disturbed[j] => at(j).obj \in shared')
      /\ \A i \in Job : disturbed[i] => disturbed'[i]
      /\ at(j).obj \in Linking => \A i \in Job \ {j} : Watching(i) => disturbed'[i]
  BY TouchFacts
<1>2. phase[j] \in Running /\ LinkOK(j) /\ (Watching(j) => at(j).op # "list")
  BY DEF Running, LinkInv, LinkOK, Clear
<1>3. LinkOK(j)' /\ Goes(j)
  BY <1>1, <1>2, LinkPasses, LinkErrs, PassGoes, ErrorGoes
<1>4. SameOthers(j)
  BY <1>1, <1>3 DEF Goes, SameOthers
<1>5. at(j).obj \notin Linking => Fewer
  BY DEF OnlyOwn, Fewer
<1> QED
  BY <1>1, <1>3, <1>4, <1>5, OwnKeepsOne, LinkStep

\* A request that leaves the links as they are.
LEMMA OtherRequest ==
    ASSUME TypeOK, LinkInv, NEW j \in Job, phase[j] \in Running, Fewer, SameOthers(j),
           shared \subseteq shared', disturbed[j] => disturbed'[j],
           Watching(j) => at(j).op # "list", Pass(j) \/ Error(j)
    PROVE  LinkInv'
<1>1. LinkOK(j)'
  BY FewerIsOwn, LinkPasses, LinkErrs DEF LinkInv
<1> QED
  BY <1>1, FewerStep

\* The application refuses, or the request was not made.
LEMMA Refused ==
    ASSUME TypeOK, LinkInv, NEW j \in Job, phase[j] \in Running, Error(j),
           UNCHANGED <<objs, disturbed, shared>>
    PROVE  LinkInv'
<1>1. Fewer /\ Goes(j) /\ LinkOK(j)
  BY ErrorGoes DEF Fewer, LinkInv
<1>2. LinkOK(j)'
  BY <1>1, FewerIsOwn, LinkErrs
<1>3. SameOthers(j) /\ shared \subseteq shared'
  BY <1>1 DEF Goes, SameOthers
<1> QED
  BY <1>1, <1>2, <1>3, FewerStep

LEMMA PostLinks == ASSUME TypeOK, LinkInv, NEW j \in Job, Post(j) PROVE LinkInv'
<1> DEFINE n == at(j).obj
           o == [name |-> n, gen |-> born[n] + 1, body |-> value(j),
                 secret |-> IF at(j).op \in WithSecret THEN value(j) ELSE 0, refs |-> refs(j)]
<1>1. phase[j] = "post"
  BY DEF Post
<1>2. CASE objs' = objs \cup {o} /\ Touch(j, n) /\ Answered(j, Have(j, o))
  <2>1. o.name = at(j).obj /\ o.body = value(j)
    OBVIOUS
  <2> HIDE DEF o
  <2>2. OnlyOwn(j)
    BY <1>2, <2>1, AtLink DEF OnlyOwn
  <2>3. Have(j, o) \/ Error(j)
    BY <1>2 DEF Answered
  <2> QED
    BY <1>1, <1>2, <2>2, <2>3, RequestStep
<1>3. CASE Error(j) /\ UNCHANGED <<objs, born, events, disturbed, shared>>
  BY <1>1, <1>3, Refused DEF Running
<1> QED
  BY <1>2, <1>3 DEF Post

LEMMA PatchLinks == ASSUME TypeOK, LinkInv, NEW j \in Job, Patch(j) PROVE LinkInv'
<1> DEFINE target == {o \in named(at(j).obj) : o.gen = seen[j].gen}
<1>1. phase[j] = "patch"
  BY DEF Patch
<1>2. CASE /\ objs' = (objs \ target) \cup {sent(j, o) : o \in target}
           /\ Touch(j, at(j).obj)
           /\ Answered(j, \E o \in target : Have(j, o))
  <2>1. OnlyOwn(j)
    <3> SUFFICES ASSUME NEW p \in objs', p.name \in Linking
                 PROVE  \/ \E q \in objs : q.name = p.name /\ q.body = p.body
                        \/ at(j).op = "link" /\ p.name = at(j).obj /\ p.body = value(j)
      BY DEF OnlyOwn
    <3>1. CASE p \in objs
      BY <3>1
    <3>2. CASE \E o \in target : p = sent(j, o)
      <4>1. PICK o \in target : p = sent(j, o)
        BY <3>2
      <4>2. o \in Object /\ o \in objs /\ o.name = at(j).obj
        BY NamedFacts
      <4>3. p.name = o.name /\ (p.body = o.body \/ p.body = value(j))
        BY <4>1, <4>2 DEF sent, Object
      <4> QED
        BY <4>2, <4>3, AtLink
    <3> QED
      BY <1>2, <3>1, <3>2
  <2>2. Error(j) \/ \E o \in target : Have(j, o)
    BY <1>2 DEF Answered
  <2> QED
    BY <1>1, <1>2, <2>1, <2>2, RequestStep
<1>3. CASE Error(j) /\ UNCHANGED <<objs, events, disturbed, shared>>
  BY <1>1, <1>3, Refused DEF Running
<1> QED
  BY <1>2, <1>3 DEF Patch

LEMMA AddLinks == ASSUME TypeOK, LinkInv, NEW j \in Job, Add(j) PROVE LinkInv'
<1> DEFINE n == at(j).obj
           o == [name |-> n, gen |-> born[n] + 1, body |-> 0, secret |-> 0, refs |-> refs(j)]
<1>1. phase[j] \in Running /\ at(j).op = "add" /\ n \notin Linking
  BY LookingFacts, AtLink DEF Add
<1>2. CASE (UNCHANGED objs \/ objs' = objs \cup {o}) /\ Touch(j, n) /\ Answered(j, Pass(j))
  <2>1. Fewer
    BY <1>1, <1>2 DEF Fewer
  <2>2. Pass(j) \/ Error(j)
    BY <1>2 DEF Answered
  <2>3. shared \subseteq shared' /\ \A i \in Job : disturbed[i] => disturbed'[i]
    BY <1>2, TouchFacts
  <2>4. SameOthers(j)
    BY <2>2, <2>3, PassGoes, ErrorGoes DEF Goes, SameOthers
  <2> QED
    BY <1>1, <2>1, <2>2, <2>3, <2>4, OtherRequest
<1>3. CASE Error(j) /\ UNCHANGED <<objs, born, events, disturbed, shared>>
  BY <1>1, <1>3, Refused
<1> QED
  BY <1>2, <1>3 DEF Add

LEMMA DropLinks == ASSUME ProvisionInv, LinkInv, NEW j \in Job, Drop(j) PROVE LinkInv'
<1>1. phase[j] = "prune" /\ phase[j] \in Running /\ TypeOK /\ at(j).op = "prune"
  BY DEF Drop, Running, ProvisionInv, RunOK
<1>2. CASE Pass(j) /\ UNCHANGED <<objs, events, disturbed, shared>>
  <2>1. Fewer /\ SameOthers(j)
    BY <1>1, <1>2, PassGoes DEF Fewer, Goes, SameOthers
  <2> QED
    BY <1>1, <1>2, <2>1, OtherRequest
<1>3. CASE Error(j) /\ UNCHANGED <<objs, events, disturbed, shared>>
  BY <1>1, <1>3, Refused
<1>4. ASSUME NEW o \in listed[j],
             objs' = {q \in objs : pk(q) # pk(o)}, Touch(j, o.name),
             Answered(j, /\ listed' = [listed EXCEPT ![j] = @ \ {o}]
                         /\ UNCHANGED <<script, conf, phase, step, known, seen, errors>>)
      PROVE  LinkInv'
  <2>1. Fewer
    BY <1>4 DEF Fewer
  <2>2. shared \subseteq shared' /\ \A i \in Job : disturbed[i] => disturbed'[i]
    BY <1>1, <1>4, TouchFacts
  <2>3. CASE Error(j)
    <3>1. SameOthers(j)
      BY <1>1, <2>2, <2>3, ErrorGoes DEF Goes, SameOthers
    <3> QED
      BY <1>1, <2>1, <2>2, <2>3, <3>1, OtherRequest
  <2>4. CASE /\ listed' = [listed EXCEPT ![j] = @ \ {o}]
             /\ UNCHANGED <<script, conf, phase, step, known, seen, errors>>
    <3>1. SameOthers(j)
      BY <1>1, <2>2, <2>4 DEF SameOthers, SameRun, TypeOK
    <3>2. LinkOK(j)'
      <4> SUFFICES ASSUME Watching(j)' PROVE Fresh(j)' /\ Clear(j)'
        BY DEF LinkOK
      <4>1. ~ \E k \in 1 .. (step[j] - 1) : Plan[script[j]][k].op = "list"
        BY <1>1, <2>4, NoListYet DEF Watching
      <4> QED
        BY <1>1, <2>4, <4>1 DEF Fresh, Clear
    <3> QED
      BY <1>1, <2>1, <2>2, <3>1, <3>2, FewerStep
  <2> QED
    BY <1>4, <2>3, <2>4 DEF Answered
<1> QED
  BY <1>2, <1>3, <1>4 DEF Drop

-----------------------------------------------------------------------------
(* Runs begin and fail, and others change the application.                  *)

LEMMA BeginLinks ==
    ASSUME ProvisionInv, LinkInv, NEW j \in Job, Start(j) \/ Rerun(j) PROVE LinkInv'
<1>1. TypeOK /\ RunOK(j) /\ phase[j] \notin Running
  BY DEF ProvisionInv, Start, Rerun, Running
<1>2. PICK x, c : Begin(j, x, c)
  BY DEF Start, Rerun
<1>3. /\ UNCHANGED <<objs, step, listed, shared>> /\ phase'[j] = "look" /\ step[j] = 1
      /\ \A i \in Job \ {j} : SameRun(i) /\ disturbed'[i] = disturbed[i]
  BY <1>1, <1>2 DEF Begin, TypeOK, SameRun, RunOK
<1>4. LinkOK(j)'
  BY <1>3 DEF LinkOK, Fresh, Clear
<1>5. SameOthers(j) /\ Fewer
  BY <1>3 DEF SameOthers, Fewer
<1> QED
  BY <1>1, <1>3, <1>4, <1>5, FewerStep

LEMMA FailureLinks == ASSUME TypeOK, LinkInv, NEW j \in Job, Failure(j) PROVE LinkInv'
<1>1. phase[j] \in Running /\ UNCHANGED <<objs, disturbed, shared>>
  BY DEF Failure
<1>2. CASE Error(j)
  BY <1>1, <1>2, Refused
<1>3. CASE End(j, "failed")
  <2>1. LinkOK(j)' /\ SameOthers(j) /\ Fewer
    BY <1>1, <1>3, LinkEnds, EndGoes DEF Goes, SameOthers, Fewer
  <2> QED
    BY <1>1, <2>1, FewerStep
<1> QED
  BY <1>2, <1>3 DEF Failure

LEMMA HandLinks ==
    ASSUME TypeOK, LinkInv, Fewer, \A i \in Job : disturbed[i] => disturbed'[i],
           UNCHANGED <<run, shared>>
    PROVE  LinkInv'
<1>1. ASSUME NEW i \in Job PROVE LinkOK(i)'
  <2>1. SameRun(i) /\ LinkOK(i)
    BY DEF run, SameRun, LinkInv
  <2> QED
    BY <2>1, LinkStays
<1> QED
  BY <1>1, FewerKeepsOne DEF LinkInv

LEMMA EditLinks == ASSUME TypeOK, LinkInv, Edit PROVE LinkInv'
<1>1. PICK o \in objs, f \in Field :
         /\ o.name \notin Links
         /\ objs' = (objs \ {o}) \cup
               {CASE f = "body" -> [o EXCEPT !.body = 0]
                  [] f = "secret" -> [o EXCEPT !.secret = 0]
                  [] OTHER -> [o EXCEPT !.refs = {}]}
         /\ ByHand({o.name})
  BY DEF Edit
<1>2. o \in Object
  BY DEF TypeOK
<1>3. /\ [o EXCEPT !.body = 0].name = o.name /\ [o EXCEPT !.secret = 0].name = o.name
      /\ [o EXCEPT !.refs = {}].name = o.name
  BY <1>2 DEF Object
<1>4. Fewer
  BY <1>1, <1>3, LinksAssumption DEF Fewer
<1>5. (\A i \in Job : disturbed[i] => disturbed'[i]) /\ UNCHANGED <<run, shared>>
  BY <1>1 DEF ByHand
<1> QED
  BY <1>4, <1>5, HandLinks

LEMMA DeleteLinks == ASSUME TypeOK, LinkInv, Delete PROVE LinkInv'
<1>1. PICK o \in objs :
         LET hit == {q \in objs : pk(o) \in q.refs}
         IN  /\ objs' = (objs \ ({o} \cup hit)) \cup
                   {[q EXCEPT !.refs = @ \ {pk(o)}] : q \in {r \in hit : r.name \notin Links}}
             /\ ByHand({q.name : q \in {o} \cup hit})
  BY DEF Delete
<1>2. \A q \in objs : [q EXCEPT !.refs = @ \ {pk(o)}].name = q.name
  BY DEF TypeOK, Object
<1>3. Fewer
  BY <1>1, <1>2, LinksAssumption DEF Fewer
<1>4. (\A i \in Job : disturbed[i] => disturbed'[i]) /\ UNCHANGED <<run, shared>>
  BY <1>1 DEF ByHand
<1> QED
  BY <1>3, <1>4, HandLinks

\* Whatever links there are to begin with, they are nobody's fingerprint.
LEMMA InitLinks == Init => LinkInv
<1> SUFFICES ASSUME Init PROVE LinkInv
  OBVIOUS
<1>1. \A o \in objs : o.body = 0
  BY DEF Init
<1>2. OneAccountPerKey
  BY <1>1 DEF OneAccountPerKey
<1>3. \A j \in Job : phase[j] = "idle"
  BY DEF Init
<1> QED
  BY <1>2, <1>3 DEF LinkInv, LinkOK, Watching, Running

LEMMA NextLinks == ProvisionInv /\ LinkInv /\ [Next]_vars => LinkInv'
<1> SUFFICES ASSUME ProvisionInv, LinkInv, [Next]_vars PROVE LinkInv'
  OBVIOUS
<1>1. TypeOK
  BY DEF ProvisionInv
<1>2. ASSUME NEW j \in Job, Start(j) \/ Rerun(j) \/ Failure(j) PROVE LinkInv'
  BY <1>1, <1>2, BeginLinks, FailureLinks
<1>3. ASSUME NEW j \in Job, Work(j) PROVE LinkInv'
  BY <1>1, <1>3, PlainLooks, FillLinks, ListLinks, EntryLinks, PruneLinks,
     PostLinks, PatchLinks, AddLinks, DropLinks DEF Work
<1>4. CASE Edit \/ Delete
  BY <1>1, <1>4, EditLinks, DeleteLinks
<1>5. CASE UNCHANGED vars
  <2>1. Fewer /\ UNCHANGED <<run, shared, disturbed>>
    BY <1>5 DEF vars, Fewer
  <2> QED
    BY <1>1, <2>1, HandLinks
<1> QED
  BY <1>2, <1>3, <1>4, <1>5 DEF Next

\* While nobody disturbs a run, the list it read once and its script's own values
\* cover every link there is, so what it links next belongs to nobody else, unless
\* its configuration gives one fingerprint to two accounts.
THEOREM LinkInvariant == Spec => []LinkInv
<1> QED
  BY InitLinks, NextLinks, ProvisionInvariant, PTL DEF Spec

\* However runs follow on each other and fail, no fingerprint gets two accounts
\* that no configuration gives to two (capauth_provision.py:230-246).
THEOREM OneAccount == Spec => []OneAccountPerKey
<1>1. LinkInv => OneAccountPerKey
  BY DEF LinkInv
<1> QED
  BY <1>1, LinkInvariant, PTL

-----------------------------------------------------------------------------
(* Each object is made once.                                                *)

\* What there is under a name is there under one key.
LEMMA OneKey ==
    ASSUME OneOK
    PROVE  /\ \A o, q \in objs : pk(o) = pk(q) => o = q
           /\ \A n \in Unique : \A o, q \in named(n) : o = q
BY DEF OneOK, pk, named

\* The objects that stay, or change, keep their keys.
LEMMA KeysStay ==
    ASSUME OneOK, BornOK, UNCHANGED born, shared \subseteq shared',
           \A p \in objs' : \E q \in objs : pk(q) = pk(p),
           \A p, r \in objs' : pk(p) = pk(r) => p = r
    PROVE  OneOK' /\ BornOK'
<1>1. OneOK'
  <2> SUFFICES ASSUME NEW p \in objs', NEW r \in objs', p.name = r.name, p # r
               PROVE  p.gen # r.gen /\ p.name \in shared' \ Unique
    BY DEF OneOK
  <2>1. p.gen # r.gen
    BY DEF pk
  <2>2. PICK a \in objs : pk(a) = pk(p)
    OBVIOUS
  <2>3. PICK b \in objs : pk(b) = pk(r)
    OBVIOUS
  <2>4. a.name = p.name /\ b.name = r.name /\ a.gen = p.gen /\ b.gen = r.gen
    BY <2>2, <2>3 DEF pk
  <2>5. a.name \in shared \ Unique
    BY <2>1, <2>4 DEF OneOK
  <2> QED
    BY <2>1, <2>4, <2>5
<1>2. BornOK'
  <2> SUFFICES ASSUME NEW p \in objs' PROVE p.gen <= born[p.name]
    BY DEF BornOK
  <2>1. PICK a \in objs : pk(a) = pk(p)
    OBVIOUS
  <2>2. a.name = p.name /\ a.gen = p.gen
    BY <2>1 DEF pk
  <2> QED
    BY <2>2 DEF BornOK
<1> QED
  BY <1>1, <1>2

\* A new object has a new key, and its name was free, or is one of which the
\* application takes a second.
LEMMA KeysGrow ==
    ASSUME TypeOK, OneOK, BornOK, NEW o \in Object, objs' = objs \cup {o},
           born' = [born EXCEPT ![o.name] = @ + 1], o.gen = born[o.name] + 1,
           shared \subseteq shared', named(o.name) = {} \/ o.name \in shared' \ Unique
    PROVE  OneOK' /\ BornOK'
<1>1. o.name \in Name /\ \A n \in Name : born[n] \in Nat
  BY ProvisionAssumption DEF TypeOK, Object
<1>2. \A q \in objs : q.name \in Name /\ q.gen \in Nat
  BY DEF TypeOK, Object
<1>3. \A n \in Name : born'[n] = IF n = o.name THEN born[n] + 1 ELSE born[n]
  BY DEF TypeOK
<1>4. \A q \in objs : q.name = o.name => q.gen # o.gen /\ o.name \in shared' \ Unique
  <2> SUFFICES ASSUME NEW q \in objs, q.name = o.name
               PROVE  q.gen # o.gen /\ o.name \in shared' \ Unique
    OBVIOUS
  <2>1. q.gen <= born[o.name]
    BY DEF BornOK
  <2>2. q \in named(o.name)
    BY DEF named
  <2> QED
    BY <1>1, <1>2, <2>1, <2>2
<1>5. OneOK'
  BY <1>4 DEF OneOK
<1>6. BornOK'
  BY <1>1, <1>2, <1>3 DEF BornOK
<1> QED
  BY <1>5, <1>6

\* Only steps of the kind add write what such steps make, and what they refer to
\* are no links.
LEMMA AddingFacts ==
    /\ Adding \subseteq Links \cap Unique
    /\ \A s \in Steps : s.obj \in Adding => s.op = "add" /\ s.uses \subseteq Unique \ Links
<1>1. \A s \in Steps : s.obj \in Adding => s.op = "add"
  BY OnceAssumption
<1>2. \A s \in Steps : s.op = "add" => s.uses \subseteq Unique \ Links
  BY OnceAssumption
<1> QED
  BY <1>1, <1>2, OnceAssumption

\* What a link of that kind refers to is no link.
LEMMA AddRefs ==
    ASSUME AddOK, NEW o \in objs, o.name \in Adding, NEW r \in o.refs
    PROVE  r[1] \notin Links
<1>1. PICK s \in Steps : s.obj = o.name
  BY DEF Adding
<1>2. s.uses \subseteq Unique \ Links
  BY <1>1, AddingFacts
<1>3. r[1] \in s.uses
  BY <1>1 DEF AddOK
<1> QED
  BY <1>2, <1>3

LEMMA AddStays ==
    ASSUME AddOK, \A p \in objs' : p.name \in Adding => p \in objs /\ exist(p.refs)'
    PROVE  AddOK'
BY DEF AddOK

\* A run that is not about to create anything.
LEMMA NotPosting ==
    ASSUME TypeOK, NEW j \in Job, NEW o, NEW k, NEW l, NEW f, NEW p \in {"ok", "failed"},
           Pass(j) \/ Have(j, o) \/ Error(j) \/ Proceed(j, k, l, f) \/ End(j, p)
    PROVE  phase'[j] # "post"
<1>1. ASSUME NEW q \in {"ok", "failed"}, End(j, q) PROVE phase'[j] # "post"
  BY <1>1 DEF End, TypeOK
<1>2. ASSUME NEW m, NEW t, NEW e, Proceed(j, m, t, e) PROVE phase'[j] # "post"
  BY <1>1, <1>2 DEF Proceed, TypeOK
<1> QED
  BY <1>1, <1>2 DEF Pass, Have, Error

LEMMA MissingStays ==
    ASSUME NEW i \in Job, MissingOK(i), SameRun(i), disturbed[i] => disturbed'[i],
           (phase[i] = "post" /\ \E p \in objs' : p.name = at(i).obj /\ named(p.name) = {}) => disturbed'[i]
    PROVE  MissingOK(i)'
<1>1. at(i)' = at(i) /\ phase'[i] = phase[i]
  BY DEF SameRun, at
<1> SUFFICES ASSUME phase[i] = "post", ~disturbed'[i], at(i).obj \notin Unique,
                    NEW p \in objs', p.name = at(i).obj
             PROVE  FALSE
  BY <1>1 DEF MissingOK, named
<1>2. named(at(i).obj) = {}
  BY DEF MissingOK
<1> QED
  BY <1>2

\* Nothing new is there.
LEMMA OnceKept ==
    ASSUME OnceInv, NEW j \in Job, SameOthers(j), MissingOK(j)', OneOK', BornOK', AddOK',
           \A p \in objs' : named(p.name) # {}
    PROVE  OnceInv'
<1>1. ASSUME NEW i \in Job \ {j} PROVE MissingOK(i)'
  BY MissingStays DEF OnceInv, SameOthers
<1> QED
  BY <1>1 DEF OnceInv

LEMMA OnceLooks ==
    ASSUME OnceInv, NEW j \in Job, SameOthers(j), MissingOK(j)', UNCHANGED <<objs, born>>,
           shared \subseteq shared'
    PROVE  OnceInv'
<1>1. OneOK' /\ BornOK' /\ AddOK'
  BY DEF OnceInv, OneOK, BornOK, AddOK, exist
<1>2. \A p \in objs' : named(p.name) # {}
  BY DEF named
<1> QED
  BY <1>1, <1>2, OnceKept

\* A run writes what is called n, and those that name it are disturbed.
LEMMA OnceTouches ==
    ASSUME TypeOK, OnceInv, NEW j \in Job, NEW n, Touch(j, n), Goes(j), phase'[j] # "post",
           OneOK', BornOK', AddOK', \A p \in objs' : p.name = n \/ named(p.name) # {}
    PROVE  OnceInv'
<1>1. ASSUME NEW i \in Job \ {j} PROVE MissingOK(i)'
  <2>1. MissingOK(i) /\ SameRun(i) /\ (disturbed[i] => disturbed'[i])
    BY TouchFacts DEF OnceInv, Goes
  <2>2. at(i).obj \in names[script[i]]
    BY AtFacts, NamesFacts DEF at
  <2>3. phase[i] = "post" /\ at(i).obj = n => disturbed'[i]
    BY <2>2 DEF Touch
  <2> QED
    BY <2>1, <2>3, MissingStays
<1>2. MissingOK(j)'
  BY DEF MissingOK
<1> QED
  BY <1>1, <1>2 DEF OnceInv

\* A run that creates something has not found it, or the application would see to
\* it that there is one.
LEMMA LooksOnce ==
    ASSUME TypeOK, OnceInv, NEW j \in Job,
           \/ Need(j) \/ Make(j) \/ Ensure(j) \/ SetKey(j) \/ Fill(j) \/ Check(j)
           \/ List(j) \/ Entry(j) \/ Prune(j)
    PROVE  OnceInv'
<1>1. UNCHANGED application
  BY DEF Need, Make, Ensure, SetKey, Fill, Check, List, Entry, Prune
<1>2. UNCHANGED <<objs, born, shared, disturbed>>
  BY <1>1 DEF application
<1>3. ASSUME phase'[j] # "post", Goes(j) PROVE OnceInv'
  <2>1. MissingOK(j)' /\ SameOthers(j)
    BY <1>1, <1>3, LookGoes DEF MissingOK
  <2> QED
    BY <1>2, <2>1, OnceLooks
<1>4. ASSUME NEW o, NEW k, NEW l, NEW f,
             Pass(j) \/ Have(j, o) \/ Error(j) \/ Proceed(j, k, l, f)
      PROVE  OnceInv'
  BY <1>3, <1>4, NotPosting, PassGoes, ErrorGoes, ProceedGoes
<1>5. ASSUME NEW p \in {"patch", "prune"}, phase' = [phase EXCEPT ![j] = p], UNCHANGED <<script, conf, step>>,
             \A i \in Job \ {j} : listed'[i] = listed[i]
      PROVE  OnceInv'
  <2>1. phase'[j] # "post" /\ Goes(j)
    BY <1>5 DEF TypeOK, Goes, SameRun
  <2> QED
    BY <1>3, <2>1
<1>6. ASSUME Create(j), named(at(j).obj) = {} \/ at(j).obj \in Unique PROVE OnceInv'
  <2>1. at(j)' = at(j) /\ Goes(j)
    BY <1>6 DEF Create, Write, TypeOK, Goes, SameRun, at
  <2>2. MissingOK(j)'
    BY <1>2, <1>6, <2>1 DEF MissingOK, named
  <2> QED
    BY <1>1, <1>2, <2>1, <2>2, LookGoes, OnceLooks
<1>7. ASSUME NEW o, Update(j, o) PROVE OnceInv'
  BY <1>4, <1>5, <1>7 DEF Update, Write
<1>8. CASE Need(j) \/ Check(j) \/ List(j)
  <2>1. \/ Pass(j) \/ Error(j) \/ \E o \in named(at(j).obj) : Have(j, o)
        \/ \E l : Proceed(j, known[j], l, FALSE)
    BY <1>8 DEF Need, Check, List
  <2> QED
    BY <1>4, <2>1
<1>9. CASE Make(j)
  BY <1>4, <1>6, <1>9 DEF Make
<1>10. CASE Ensure(j)
  BY <1>6, <1>7, <1>10 DEF Ensure
<1>11. CASE SetKey(j)
  BY <1>5, <1>11 DEF SetKey, Write
<1>12. CASE Fill(j)
  <2>1. \/ Pass(j) \/ Error(j)
        \/ phase' = [phase EXCEPT ![j] = "patch"] /\ UNCHANGED <<script, conf, step, listed>>
    BY <1>12 DEF Fill
  <2> QED
    BY <1>4, <1>5, <2>1
<1>13. CASE Entry(j)
  <2>1. at(j).obj \in Unique
    BY <1>13, AtFacts, LookingFacts, OnceAssumption DEF Entry
  <2>2. Error(j) \/ Create(j) \/ \E o \in listed[j] : Update(j, o)
    BY <1>13 DEF Entry
  <2> QED
    BY <1>4, <1>6, <1>7, <2>1, <2>2
<1>14. CASE Prune(j)
  <2>1. phase' = [phase EXCEPT ![j] = "prune"] /\ UNCHANGED <<script, conf, step>>
    BY <1>14 DEF Prune
  <2>2. \A i \in Job \ {j} : listed'[i] = listed[i]
    BY <1>14 DEF Prune, TypeOK
  <2> QED
    BY <1>5, <2>1, <2>2
<1> QED
  BY <1>8, <1>9, <1>10, <1>11, <1>12, <1>13, <1>14

\* The application refuses, or the request failed.
LEMMA RefusedOnce ==
    ASSUME TypeOK, OnceInv, NEW j \in Job, Error(j) \/ Pass(j) \/ End(j, "failed"),
           UNCHANGED <<objs, born, disturbed, shared>>
    PROVE  OnceInv'
<1>1. phase'[j] # "post" /\ Goes(j)
  BY NotPosting, ErrorGoes, EndGoes, PassGoes
<1>2. MissingOK(j)' /\ SameOthers(j)
  BY <1>1 DEF MissingOK, Goes, SameOthers
<1> QED
  BY <1>2, OnceLooks

LEMMA PostOnce == ASSUME ProvisionInv, OnceInv, NEW j \in Job, Post(j) PROVE OnceInv'
<1>1. TypeOK /\ phase[j] = "post" /\ at(j).op \in Creating
  BY DEF Post, ProvisionInv, RunOK
<1> DEFINE n == at(j).obj
           o == [name |-> n, gen |-> born[n] + 1, body |-> value(j),
                 secret |-> IF at(j).op \in WithSecret THEN value(j) ELSE 0, refs |-> refs(j)]
<1>2. CASE /\ n \in Unique => named(n) = {}
           /\ born[n] < MaxGen /\ objs' = objs \cup {o} /\ born' = [born EXCEPT ![n] = @ + 1]
           /\ Touch(j, n) /\ Answered(j, Have(j, o))
  <2>1. n \in Name /\ value(j) \in Nat /\ refs(j) \subseteq Key /\ born[n] \in 0 .. MaxGen
    BY <1>1, AtFacts DEF TypeOK
  <2>2. o \in Object /\ o.name = n /\ o.gen = born[n] + 1
    <3>1. born[n] + 1 \in 1 .. MaxGen
      BY <1>2, <2>1, ProvisionAssumption
    <3> QED
      BY <2>1, <3>1 DEF Object
  <2>3. n \notin Adding
    BY <1>1, AtFacts, AddingFacts DEF Creating
  <2> HIDE DEF o, n
  <2>4. shared \subseteq shared' /\ (disturbed[j] => n \in shared')
    BY <1>1, <1>2, TouchFacts
  <2>5. named(n) = {} \/ n \in shared' \ Unique
    BY <1>1, <1>2, <2>1, <2>4 DEF OnceInv, MissingOK, n
  <2>6. OneOK' /\ BornOK'
    BY <1>1, <1>2, <2>2, <2>4, <2>5, KeysGrow DEF OnceInv
  <2>7. AddOK'
    <3>1. \A R : exist(R) => exist(R)'
      BY <1>2 DEF exist
    <3>2. \A p \in objs' : p.name \in Adding => p \in objs
      BY <1>2, <2>2, <2>3
    <3> QED
      BY <3>1, <3>2, AddStays DEF OnceInv, AddOK
  <2>8. Have(j, o) \/ Error(j)
    BY <1>2 DEF Answered
  <2>9. phase'[j] # "post" /\ Goes(j)
    BY <1>1, <2>8, NotPosting, PassGoes, ErrorGoes
  <2>10. \A p \in objs' : p.name = n \/ named(p.name) # {}
    BY <1>2, <2>2 DEF named
  <2> QED
    BY <1>1, <1>2, <2>6, <2>7, <2>9, <2>10, OnceTouches
<1>3. CASE Error(j) /\ UNCHANGED <<objs, born, events, disturbed, shared>>
  BY <1>1, <1>3, RefusedOnce
<1> QED
  BY <1>2, <1>3 DEF Post

\* Each object there is comes of one there was.
LEMMA KeysMove ==
    ASSUME OneOK, BornOK, UNCHANGED born, shared \subseteq shared', NEW g,
           \A p \in objs' : \E q \in objs : p = g[q] /\ pk(q) = pk(p)
    PROVE  OneOK' /\ BornOK'
<1>1. ASSUME NEW p \in objs', NEW r \in objs', pk(p) = pk(r) PROVE p = r
  <2>1. PICK a \in objs : p = g[a] /\ pk(a) = pk(p)
    OBVIOUS
  <2>2. PICK b \in objs : r = g[b] /\ pk(b) = pk(r)
    OBVIOUS
  <2>3. a = b
    BY <1>1, <2>1, <2>2, OneKey
  <2> QED
    BY <2>1, <2>2, <2>3
<1>2. \A p \in objs' : \E q \in objs : pk(q) = pk(p)
  OBVIOUS
<1> QED
  BY <1>1, <1>2, KeysStay

LEMMA PatchOnce == ASSUME ProvisionInv, OnceInv, NEW j \in Job, Patch(j) PROVE OnceInv'
<1>1. TypeOK /\ phase[j] = "patch" /\ at(j).op \in Updating /\ UNCHANGED born
  BY DEF Patch, ProvisionInv, RunOK
<1> DEFINE target == {o \in named(at(j).obj) : o.gen = seen[j].gen}
           g == [q \in objs |-> IF q \in target THEN sent(j, q) ELSE q]
<1>2. CASE /\ objs' = (objs \ target) \cup {sent(j, o) : o \in target}
           /\ Touch(j, at(j).obj)
           /\ Answered(j, \E o \in target : Have(j, o))
  <2>1. \A o \in target : o \in objs /\ o.name = at(j).obj /\ pk(sent(j, o)) = pk(o) /\ sent(j, o).name = o.name
    BY <1>1, NamedFacts, SentFacts
  <2>2. \A p \in objs' : \E q \in objs : p = g[q] /\ pk(q) = pk(p)
    <3> SUFFICES ASSUME NEW p \in objs' PROVE \E q \in objs : p = g[q] /\ pk(q) = pk(p)
      OBVIOUS
    <3>1. CASE p \in objs \ target
      BY <3>1
    <3>2. CASE \E o \in target : p = sent(j, o)
      <4>1. PICK o \in target : p = sent(j, o)
        BY <3>2
      <4>2. o \in objs /\ g[o] = p
        BY <2>1, <4>1
      <4> QED
        BY <2>1, <4>1, <4>2
    <3> QED
      BY <1>2, <3>1, <3>2
  <2>3. shared \subseteq shared'
    BY <1>1, <1>2, TouchFacts
  <2>4. \A o \in objs : \E p \in objs' : pk(p) = pk(o)
    <3> SUFFICES ASSUME NEW o \in objs PROVE \E p \in objs' : pk(p) = pk(o)
      OBVIOUS
    <3>1. CASE o \in target
      BY <1>2, <2>1, <3>1
    <3>2. CASE o \notin target
      BY <1>2, <3>2
    <3> QED
      BY <3>1, <3>2
  <2>5. \A p \in objs' : p.name = at(j).obj \/ p \in objs
    BY <1>2, <2>1
  <2> HIDE DEF g, target
  <2>6. OneOK' /\ BornOK'
    BY <1>1, <2>2, <2>3, KeysMove DEF OnceInv
  <2>7. AddOK'
    <3>1. at(j).obj \notin Adding
      BY <1>1, AtFacts, AddingFacts DEF Updating
    <3>2. \A R : exist(R) => exist(R)'
      BY <2>4 DEF exist
    <3> QED
      BY <2>5, <3>1, <3>2, AddStays DEF OnceInv, AddOK
  <2>8. Error(j) \/ \E o \in target : Have(j, o)
    BY <1>2 DEF Answered
  <2>9. phase'[j] # "post" /\ Goes(j)
    BY <1>1, <2>8, NotPosting, PassGoes, ErrorGoes
  <2>10. \A p \in objs' : p.name = at(j).obj \/ named(p.name) # {}
    BY <2>5 DEF named
  <2> QED
    BY <1>1, <1>2, <2>6, <2>7, <2>9, <2>10, OnceTouches
<1>3. CASE Error(j) /\ UNCHANGED <<objs, events, disturbed, shared>>
  BY <1>1, <1>3, RefusedOnce
<1> QED
  BY <1>2, <1>3 DEF Patch

\* The application has the link, or there is none: what it would refer to has one
\* key each, and the link's references are there.
LEMMA AddsOnce ==
    ASSUME ProvisionInv, OnceInv, NEW j \in Job, phase[j] \in Running, at(j).op = "add",
           exist(refs(j))
    PROVE  /\ at(j).obj \in Adding
           /\ \A s \in Steps : s.obj = at(j).obj => {r[1] : r \in refs(j)} = s.uses
           /\ \A o \in named(at(j).obj) : o.refs = refs(j)
<1>1. TypeOK /\ RunOK(j)
  BY DEF ProvisionInv
<1>2. /\ script[j] \in Script /\ step[j] \in 1 .. Len(Plan[script[j]])
      /\ at(j) \in Steps /\ at(j) = Plan[script[j]][step[j]]
  BY <1>1, AtFacts DEF at
<1>3. at(j).obj \in Adding
  BY <1>2 DEF Adding
<1>4. at(j).uses \subseteq DOMAIN known[j]
  <2> SUFFICES ASSUME NEW n \in at(j).uses PROVE n \in DOMAIN known[j]
    OBVIOUS
  <2>1. script[j] \notin Counting
    BY <1>2, OnceAssumption
  <2>2. PICK k \in 1 .. (step[j] - 1) : Plan[script[j]][k].op \in Getting /\ Plan[script[j]][k].obj = n
    BY <1>2, OnceAssumption
  <2> QED
    BY <1>1, <2>1, <2>2 DEF RunOK
<1>5. refs(j) = {<<n, known[j][n]>> : n \in at(j).uses}
  BY <1>4 DEF refs
<1>6. {r[1] : r \in refs(j)} = at(j).uses
  <2>1. \A r \in refs(j) : r[1] \in at(j).uses
    BY <1>5
  <2>2. ASSUME NEW n \in at(j).uses PROVE \E r \in refs(j) : r[1] = n
    <3>1. <<n, known[j][n]>> \in refs(j) /\ <<n, known[j][n]>>[1] = n
      BY <1>5
    <3> QED
      BY <3>1
  <2> QED
    BY <2>1, <2>2
<1>7. \A s \in Steps : s.obj = at(j).obj => {r[1] : r \in refs(j)} = s.uses
  <2>1. \A s \in Steps : s.obj = at(j).obj => at(j).uses = s.uses
    BY <1>2, <1>3, OnceAssumption
  <2> QED
    BY <1>6, <2>1
<1>8. at(j).uses \subseteq Unique
  BY <1>2, <1>3, AddingFacts
<1>9. ASSUME NEW o \in named(at(j).obj) PROVE o.refs = refs(j)
  <2>1. o \in objs /\ o.name = at(j).obj /\ o \in Object
    BY <1>1, NamedFacts DEF named
  <2>2. exist(o.refs) /\ {r[1] : r \in o.refs} = at(j).uses
    BY <1>2, <1>3, <2>1 DEF OnceInv, AddOK
  <2>3. ASSUME NEW r, NEW t, r \in {pk(q) : q \in objs}, t \in {pk(q) : q \in objs}, r[1] = t[1], r[1] \in Unique
        PROVE  r = t
    <3>1. PICK a \in objs : r = pk(a)
      BY <2>3
    <3>2. PICK b \in objs : t = pk(b)
      BY <2>3
    <3>3. a.name = r[1] /\ b.name = t[1]
      BY <3>1, <3>2 DEF pk
    <3>4. a = b
      BY <2>3, <3>3 DEF OnceInv, OneOK
    <3> QED
      BY <3>1, <3>2, <3>4
  <2>4. \A r \in o.refs : \E t \in refs(j) : t[1] = r[1] /\ r[1] \in Unique
    BY <1>6, <1>8, <2>2
  <2>5. \A t \in refs(j) : \E r \in o.refs : t[1] = r[1] /\ r[1] \in Unique
    BY <1>6, <1>8, <2>2
  <2>6. \A r \in o.refs : r \in refs(j)
    BY <2>2, <2>3, <2>4 DEF exist
  <2>7. \A t \in refs(j) : t \in o.refs
    BY <2>2, <2>3, <2>5 DEF exist
  <2> QED
    BY <2>6, <2>7
<1> QED
  BY <1>3, <1>7, <1>9

LEMMA AddOnce == ASSUME ProvisionInv, OnceInv, NEW j \in Job, Add(j) PROVE OnceInv'
<1>1. TypeOK /\ phase[j] \in Running /\ at(j).op = "add"
  BY LookingFacts DEF Add, ProvisionInv
<1> DEFINE n == at(j).obj
           o == [name |-> n, gen |-> born[n] + 1, body |-> 0, secret |-> 0, refs |-> refs(j)]
<1>2. ASSUME Touch(j, n), Answered(j, Pass(j)), OneOK', BornOK', AddOK',
             \A p \in objs' : p.name = n \/ named(p.name) # {}
      PROVE  OnceInv'
  <2>1. phase'[j] # "post" /\ Goes(j)
    BY <1>1, <1>2, NotPosting, PassGoes, ErrorGoes DEF Answered
  <2> QED
    BY <1>1, <1>2, <2>1, OnceTouches
<1>3. CASE UNCHANGED <<objs, born>> /\ Touch(j, n) /\ Answered(j, Pass(j))
  <2>1. shared \subseteq shared'
    BY <1>1, <1>3, TouchFacts
  <2>2. OneOK' /\ BornOK' /\ AddOK'
    BY <1>3, <2>1 DEF OnceInv, OneOK, BornOK, AddOK, exist
  <2>3. \A p \in objs' : named(p.name) # {}
    BY <1>3 DEF named
  <2> QED
    BY <1>2, <1>3, <2>2, <2>3
<1>4. CASE /\ exist(refs(j)) /\ ~ \E q \in named(n) : q.refs = refs(j)
           /\ born[n] < MaxGen /\ objs' = objs \cup {o} /\ born' = [born EXCEPT ![n] = @ + 1]
           /\ Touch(j, n) /\ Answered(j, Pass(j))
  <2>1. n \in Name /\ refs(j) \subseteq Key /\ born[n] \in 0 .. MaxGen
    BY <1>1, AtFacts DEF TypeOK
  <2>2. o \in Object /\ o.name = n /\ o.gen = born[n] + 1 /\ o.refs = refs(j)
    <3>1. born[n] + 1 \in 1 .. MaxGen
      BY <1>4, <2>1, ProvisionAssumption
    <3> QED
      BY <2>1, <3>1 DEF Object
  <2>3. named(n) = {} /\ \A s \in Steps : s.obj = n => {r[1] : r \in refs(j)} = s.uses
    BY <1>1, <1>4, AddsOnce
  <2> HIDE DEF o, n
  <2>4. shared \subseteq shared'
    BY <1>1, <1>4, TouchFacts
  <2>5. OneOK' /\ BornOK'
    BY <1>1, <1>4, <2>2, <2>3, <2>4, KeysGrow DEF OnceInv
  <2>6. AddOK'
    <3>1. \A R : exist(R) => exist(R)'
      BY <1>4 DEF exist
    <3>2. \A p \in objs' : p \in objs \/ p = o
      BY <1>4
    <3> QED
      BY <1>4, <2>2, <2>3, <3>1, <3>2 DEF OnceInv, AddOK
  <2>7. \A p \in objs' : p.name = n \/ named(p.name) # {}
    BY <1>4, <2>2 DEF named
  <2> QED
    BY <1>2, <1>4, <2>5, <2>6, <2>7 DEF n
<1>5. CASE Error(j) /\ UNCHANGED <<objs, born, events, disturbed, shared>>
  BY <1>1, <1>5, RefusedOnce
<1> QED
  BY <1>3, <1>4, <1>5 DEF Add

\* Only links are pruned, and what is added refers to none.
LEMMA DropOnce == ASSUME ProvisionInv, OnceInv, NEW j \in Job, Drop(j) PROVE OnceInv'
<1>1. TypeOK /\ RunOK(j) /\ phase[j] = "prune" /\ UNCHANGED born
  BY DEF Drop, ProvisionInv
<1>2. CASE (Pass(j) \/ Error(j)) /\ UNCHANGED <<objs, events, disturbed, shared>>
  BY <1>1, <1>2, RefusedOnce
<1>3. ASSUME NEW o \in listed[j],
             objs' = {q \in objs : pk(q) # pk(o)}, Touch(j, o.name),
             Answered(j, /\ listed' = [listed EXCEPT ![j] = @ \ {o}]
                         /\ UNCHANGED <<script, conf, phase, step, known, seen, errors>>)
      PROVE  OnceInv'
  <2>1. o.name \in Links
    BY <1>1 DEF RunOK
  <2>2. shared \subseteq shared'
    BY <1>1, <1>3, TouchFacts
  <2>3. OneOK' /\ BornOK'
    BY <1>1, <1>3, <2>2 DEF OnceInv, OneOK, BornOK
  <2>4. AddOK'
    <3> SUFFICES ASSUME NEW p \in objs, p.name \in Adding, p \in objs', NEW r \in p.refs
                 PROVE  \E q \in objs' : r = pk(q)
      BY <1>3, AddStays DEF OnceInv, exist
    <3>1. PICK q \in objs : r = pk(q)
      BY DEF OnceInv, AddOK, exist
    <3>2. r[1] \notin Links
      BY AddRefs DEF OnceInv
    <3>3. pk(q) # pk(o)
      BY <2>1, <3>1, <3>2 DEF pk
    <3> QED
      BY <1>3, <3>1, <3>3
  <2>5. \A p \in objs' : named(p.name) # {}
    BY <1>3 DEF named
  <2>6. CASE Error(j)
    <3>1. phase'[j] # "post" /\ Goes(j)
      BY <1>1, <2>6, NotPosting, ErrorGoes
    <3> QED
      BY <1>1, <1>3, <2>3, <2>4, <2>5, <3>1, OnceTouches
  <2>7. CASE /\ listed' = [listed EXCEPT ![j] = @ \ {o}]
             /\ UNCHANGED <<script, conf, phase, step, known, seen, errors>>
    <3>1. phase'[j] # "post" /\ Goes(j)
      BY <1>1, <2>7 DEF Goes, SameRun, TypeOK
    <3> QED
      BY <1>1, <1>3, <2>3, <2>4, <2>5, <3>1, OnceTouches
  <2> QED
    BY <1>3, <2>6, <2>7 DEF Answered
<1> QED
  BY <1>2, <1>3 DEF Drop

LEMMA BeginOnce ==
    ASSUME TypeOK, OnceInv, NEW j \in Job, Start(j) \/ Rerun(j) PROVE OnceInv'
<1>1. PICK x, c : Begin(j, x, c)
  BY DEF Start, Rerun
<1>2. /\ UNCHANGED <<objs, born, shared>> /\ phase'[j] # "post"
      /\ \A i \in Job \ {j} : SameRun(i) /\ disturbed'[i] = disturbed[i]
  BY <1>1 DEF Begin, TypeOK, SameRun
<1>3. MissingOK(j)' /\ SameOthers(j)
  BY <1>2 DEF MissingOK, SameOthers
<1> QED
  BY <1>2, <1>3, OnceLooks

\* What is changed by hand keeps its key, and with what is deleted go the links
\* that refer to it.
LEMMA HandOnce ==
    ASSUME TypeOK, OnceInv, OneOK', BornOK', AddOK', \A p \in objs' : named(p.name) # {},
           \A i \in Job : disturbed[i] => disturbed'[i], UNCHANGED run
    PROVE  OnceInv'
<1>1. ASSUME NEW i \in Job PROVE MissingOK(i)'
  <2>1. MissingOK(i) /\ SameRun(i)
    BY DEF OnceInv, SameRun, run
  <2> QED
    BY <2>1, MissingStays
<1> QED
  BY <1>1 DEF OnceInv

LEMMA EditOnce == ASSUME TypeOK, OnceInv, Edit PROVE OnceInv'
<1>1. PICK o \in objs, f \in Field :
         /\ o.name \notin Links
         /\ objs' = (objs \ {o}) \cup
               {CASE f = "body" -> [o EXCEPT !.body = 0]
                  [] f = "secret" -> [o EXCEPT !.secret = 0]
                  [] OTHER -> [o EXCEPT !.refs = {}]}
         /\ ByHand({o.name}) /\ UNCHANGED born
  BY DEF Edit
<1>2. o \in Object
  BY DEF TypeOK
<1>3. PICK e : objs' = (objs \ {o}) \cup {e} /\ e.name = o.name /\ e.gen = o.gen
  <2> DEFINE e == CASE f = "body" -> [o EXCEPT !.body = 0]
                    [] f = "secret" -> [o EXCEPT !.secret = 0]
                    [] OTHER -> [o EXCEPT !.refs = {}]
  <2>1. e.name = o.name /\ e.gen = o.gen
    BY <1>2 DEF Object
  <2>2. objs' = (objs \ {o}) \cup {e}
    BY <1>1
  <2> QED
    BY <2>1, <2>2
<1> DEFINE g == [q \in objs |-> IF q = o THEN e ELSE q]
<1>4. pk(e) = pk(o) /\ \A p \in objs' : \E q \in objs : p = g[q] /\ pk(q) = pk(p)
  BY <1>3 DEF pk
<1> HIDE DEF g
<1>5. (\A i \in Job : disturbed[i] => disturbed'[i]) /\ UNCHANGED <<run, shared>>
  BY <1>1 DEF ByHand
<1>6. OneOK' /\ BornOK'
  <2>1. UNCHANGED born /\ shared \subseteq shared' /\ OneOK /\ BornOK
    BY <1>1, <1>5 DEF OnceInv
  <2>2. \A p \in objs' : \E q \in objs : p = g[q] /\ pk(q) = pk(p)
    BY <1>4
  <2> QED
    BY <2>1, <2>2, KeysMove
<1>7. AddOK'
  <2>1. \A R : exist(R) => exist(R)'
    BY <1>3, <1>4 DEF exist
  <2> QED
    BY <1>1, <1>3, <2>1, AddStays, AddingFacts DEF OnceInv, AddOK
<1>8. \A p \in objs' : named(p.name) # {}
  BY <1>3 DEF named
<1> QED
  BY <1>5, <1>6, <1>7, <1>8, HandOnce

LEMMA DeleteOnce == ASSUME TypeOK, OnceInv, Delete PROVE OnceInv'
<1>1. PICK o \in objs :
         LET hit == {q \in objs : pk(o) \in q.refs}
         IN  /\ objs' = (objs \ ({o} \cup hit)) \cup
                   {[q EXCEPT !.refs = @ \ {pk(o)}] : q \in {r \in hit : r.name \notin Links}}
             /\ ByHand({q.name : q \in {o} \cup hit}) /\ UNCHANGED born
  BY DEF Delete
<1> DEFINE hit == {q \in objs : pk(o) \in q.refs}
           cut(q) == [q EXCEPT !.refs = @ \ {pk(o)}]
           g == [q \in objs |-> IF q \in hit THEN cut(q) ELSE q]
<1>2. \A q \in objs : cut(q).name = q.name /\ pk(cut(q)) = pk(q)
  BY DEF TypeOK, Object, pk
<1>3. objs' = (objs \ ({o} \cup hit)) \cup {cut(q) : q \in {r \in hit : r.name \notin Links}}
  BY <1>1
<1> HIDE DEF cut
<1>4. \A p \in objs' : \E q \in objs : p = g[q] /\ pk(q) = pk(p) /\ p.name = q.name
  <2> SUFFICES ASSUME NEW p \in objs' PROVE \E q \in objs : p = g[q] /\ pk(q) = pk(p) /\ p.name = q.name
    OBVIOUS
  <2>1. CASE p \in objs \ ({o} \cup hit)
    BY <2>1
  <2>2. CASE \E q \in hit : p = cut(q)
    <3>1. PICK q \in hit : p = cut(q)
      BY <2>2
    <3>2. q \in objs /\ g[q] = p
      BY <3>1
    <3> QED
      BY <1>2, <3>1, <3>2
  <2> QED
    BY <1>3, <2>1, <2>2
<1>5. (\A i \in Job : disturbed[i] => disturbed'[i]) /\ UNCHANGED <<run, shared>>
  BY <1>1 DEF ByHand
<1> HIDE DEF g
<1>6. OneOK' /\ BornOK'
  <2>1. UNCHANGED born /\ shared \subseteq shared' /\ OneOK /\ BornOK
    BY <1>1, <1>5 DEF OnceInv
  <2>2. \A p \in objs' : \E q \in objs : p = g[q] /\ pk(q) = pk(p)
    BY <1>4
  <2> QED
    BY <2>1, <2>2, KeysMove
<1>7. AddOK'
  <2> SUFFICES ASSUME NEW p \in objs', p.name \in Adding PROVE p \in objs /\ exist(p.refs)'
    BY AddStays DEF OnceInv
  <2>1. p.name \in Links
    BY AddingFacts
  <2>2. p \in objs /\ p \notin hit
    BY <1>2, <1>3, <2>1
  <2> SUFFICES ASSUME NEW r \in p.refs PROVE \E q \in objs' : r = pk(q)
    BY <2>2 DEF exist
  <2>3. PICK q \in objs : r = pk(q)
    BY <2>2 DEF OnceInv, AddOK, exist
  <2>4. q # o
    BY <2>2, <2>3
  <2>5. q.name \notin Links
    <3>1. r[1] \notin Links
      BY <2>2, AddRefs DEF OnceInv
    <3> QED
      BY <2>3, <3>1 DEF pk
  <2>6. CASE q \in hit
    BY <1>2, <1>3, <2>3, <2>5, <2>6
  <2>7. CASE q \notin hit
    BY <1>3, <2>3, <2>4, <2>7
  <2> QED
    BY <2>6, <2>7
<1>8. \A p \in objs' : named(p.name) # {}
  BY <1>4 DEF named
<1> QED
  BY <1>5, <1>6, <1>7, <1>8, HandOnce

LEMMA InitOnce == Init => OnceInv
<1> SUFFICES ASSUME Init PROVE OnceInv
  OBVIOUS
<1>1. PICK S \in SUBSET (Stock \cup Fixed) :
         /\ objs = [name : S, gen : {1}, body : {0}, secret : {0}, refs : {{}}]
         /\ born = [n \in Name |-> IF n \in S THEN 1 ELSE 0]
  BY DEF Init, Inventories
<1>2. \A o \in objs : o.name \in S /\ o = [name |-> o.name, gen |-> 1, body |-> 0, secret |-> 0, refs |-> {}]
  BY <1>1
<1>3. OneOK
  BY <1>2 DEF OneOK
<1>4. BornOK
  <2>1. S \subseteq Name
    BY ProvisionAssumption
  <2>2. \A o \in objs : born[o.name] = 1 /\ o.gen = 1
    BY <1>1, <1>2, <2>1
  <2> QED
    BY <2>2 DEF BornOK
<1>5. AddOK
  BY <1>2, OnceAssumption DEF AddOK
<1>6. \A j \in Job : MissingOK(j)
  BY DEF Init, MissingOK
<1> QED
  BY <1>3, <1>4, <1>5, <1>6 DEF OnceInv

LEMMA NextOnce == ProvisionInv /\ OnceInv /\ [Next]_vars => OnceInv'
<1> SUFFICES ASSUME ProvisionInv, OnceInv, [Next]_vars PROVE OnceInv'
  OBVIOUS
<1>1. TypeOK
  BY DEF ProvisionInv
<1>2. ASSUME NEW j \in Job, Start(j) \/ Rerun(j) \/ Failure(j) PROVE OnceInv'
  <2>1. CASE Failure(j)
    BY <1>1, <2>1, RefusedOnce DEF Failure
  <2> QED
    BY <1>1, <1>2, <2>1, BeginOnce
<1>3. ASSUME NEW j \in Job, Work(j) PROVE OnceInv'
  BY <1>1, <1>3, LooksOnce, PostOnce, PatchOnce, AddOnce, DropOnce DEF Work
<1>4. CASE Edit \/ Delete
  BY <1>1, <1>4, EditOnce, DeleteOnce
<1>5. CASE UNCHANGED vars
  <2>1. UNCHANGED <<objs, born, shared, disturbed, run>>
    BY <1>5 DEF vars
  <2>2. OneOK' /\ BornOK' /\ AddOK'
    BY <2>1 DEF OnceInv, OneOK, BornOK, AddOK, exist
  <2>3. \A p \in objs' : named(p.name) # {}
    BY <2>1 DEF named
  <2> QED
    BY <1>1, <2>1, <2>2, <2>3, HandOnce
<1> QED
  BY <1>2, <1>3, <1>4, <1>5 DEF Next

\* However answers are lost and runs repeated, no key is given twice, a run that
\* nobody disturbs creates only what is missing, and the links that the application
\* keeps one of lie between the objects that there are.
THEOREM OnceInvariant == Spec => []OnceInv
<1> QED
  BY InitOnce, NextOnce, ProvisionInvariant, PTL DEF Spec

\* Run after run, an object is made once.
THEOREM EachMadeOnce == Spec => []MadeOnce
<1>1. OnceInv => MadeOnce
  BY DEF OnceInv, OneOK, MadeOnce
<1> QED
  BY <1>1, OnceInvariant, PTL

-----------------------------------------------------------------------------
(* What a run that ends well leaves behind: what the others do.             *)

Left(j) == phase[j] = "ok" /\ ~disturbed[j] => \A s \in upTo(j, Len(Plan[script[j]])) : Done(j, s)

\* The objects called n are as they were.
Same(n) == named(n)' = named(n)

\* Objects that nothing happens to keep their keys.
LEMMA KeysSame == ASSUME NEW N, \A n \in N : Same(n) PROVE keys(N)' = keys(N)
<1>1. \A k : (\E o \in objs : o.name \in N /\ k = pk(o)) <=> (\E n \in N : \E o \in named(n) : k = pk(o))
  BY DEF named
<1>2. \A k : (\E o \in objs' : o.name \in N /\ k = pk(o)) <=> (\E n \in N : \E o \in named(n)' : k = pk(o))
  BY DEF named
<1>3. keys(N) = {k \in {pk(o) : o \in objs} : \E n \in N : \E o \in named(n) : k = pk(o)}
  BY <1>1 DEF keys
<1>4. \A k : k \in keys(N) <=> \E n \in N : \E o \in named(n) : k = pk(o)
  BY <1>1 DEF keys
<1>5. \A k : k \in keys(N)' <=> \E n \in N : \E o \in named(n)' : k = pk(o)
  BY <1>2 DEF keys
<1>6. \A k : k \in keys(N)' <=> k \in keys(N)
  BY <1>4, <1>5 DEF Same
<1> QED
  BY <1>6

\* Of a step that is done and no prune, only its object and the keys of what it
\* refers to matter.
LEMMA DoneAsBefore ==
    ASSUME NEW j \in Job, conf'[j] = conf[j], NEW s \in Steps, s.op # "prune", Done(j, s),
           s.op \in Gets \cup Referring \cup {"key", "check", "fill"} => Same(s.obj),
           s.op = "loose" /\ s.val[conf[j]] # 0 => Same(s.obj),
           s.op \in Referring => keys(s.uses)' = keys(s.uses)
    PROVE  Done(j, s)'
<1> DEFINE v == s.val[conf[j]]
<1>1. s.op \in {"need", "make"} \/ (s.op = "loose" /\ v # 0) => named(s.obj)' # {}
  BY DEF Done, Same, Gets, Getting
<1>2. s.op \in Referring => \E o \in named(s.obj)' :
         /\ o.refs = keys(s.uses)'
         /\ s.op # "add" => o.body = v
         /\ s.op \in {"secret", "whole"} => o.secret = v
  BY DEF Done, Same
<1>3. s.op = "tile" => \E o \in named(s.obj)' : o.body = v
  BY DEF Done, Same, Gets, Getting
<1>4. s.op \in {"key", "check"} => \E o \in named(s.obj)' : o.secret = v
  BY DEF Done, Same
<1>5. s.op = "fill" => \E o \in named(s.obj)' : o.refs # {}
  BY DEF Done, Same
<1> QED
  BY <1>1, <1>2, <1>3, <1>4, <1>5 DEF Done

\* After a prune, links that come up must not refer to what was pruned, and those
\* that stay, stay as they were.
LEMMA PrunedAsBefore ==
    ASSUME NEW j \in Job, NEW s \in Steps, s.op = "prune", Done(j, s),
           keys({s.obj})' = keys({s.obj}), keys(s.uses)' = keys(s.uses),
           \A o \in objs' : o.name \in Links /\ o.refs \cap keys({s.obj}) # {} =>
              \E q \in objs : q.name \in Links /\ q.refs = o.refs
    PROVE  Done(j, s)'
<1>1. \A o \in objs : o.name \in Links /\ o.refs \cap keys({s.obj}) # {} => o.refs \cap keys(s.uses) # {}
  BY DEF Done
<1>2. \A o \in objs' : o.name \in Links /\ o.refs \cap keys({s.obj})' # {} => o.refs \cap keys(s.uses)' # {}
  BY <1>1
<1> QED
  BY <1>2 DEF Done, Gets, Getting, Referring

\* The run of i is as it was.
WholeRun(i) ==
    /\ SameRun(i) /\ known'[i] = known[i] /\ seen'[i] = seen[i] /\ errors'[i] = errors[i]

\* Nobody has changed what the script of i names.
Unmoved(i) == \A n \in names[script[i]] : Same(n)

\* The steps up to one are steps of the script, about what it names.
LEMMA UpToFacts ==
    ASSUME NEW j \in Job, script[j] \in Script, NEW i \in Nat, i <= Len(Plan[script[j]]), NEW s \in upTo(j, i)
    PROVE  /\ s \in Step /\ s \in Steps /\ s.obj \in names[script[j]] /\ s.uses \subseteq names[script[j]]
           /\ s.op = "prune" => Links \subseteq names[script[j]]
           /\ \E k \in 1 .. i : k \in 1 .. Len(Plan[script[j]]) /\ s = Plan[script[j]][k]
<1>1. PICK k \in 1 .. i : s = Plan[script[j]][k]
  BY DEF upTo
<1>2. Len(Plan[script[j]]) \in Nat
  BY ProvisionAssumption
<1>3. k \in 1 .. Len(Plan[script[j]])
  BY <1>2
<1> QED
  BY <1>1, <1>3, PlanFacts, NamesFacts

\* What is still to be looked up in a list is named by the script.
LEMMA LookupFacts ==
    ASSUME NEW j \in Job, script[j] \in Script, NEW i \in Nat \ {0}, NEW n \in lookups(j, i)
    PROVE  /\ n \in names[script[j]]
           /\ \E m \in 1 .. Len(Plan[script[j]]) : /\ m >= i /\ n = Plan[script[j]][m].obj
                                                  /\ Plan[script[j]][m].op \in {"entry", "link"}
<1>1. Len(Plan[script[j]]) \in Nat
  BY ProvisionAssumption
<1>2. PICK m \in i .. Len(Plan[script[j]]) :
         Plan[script[j]][m].op \in {"entry", "link"} /\ n = Plan[script[j]][m].obj
  BY DEF lookups
<1>3. m \in 1 .. Len(Plan[script[j]]) /\ m >= i
  BY <1>1
<1> QED
  BY <1>2, <1>3, NamesFacts

\* What is done stays done while what the script names is left alone.
LEMMA DoneUnmoved ==
    ASSUME NEW i \in Job, script[i] \in Script, conf'[i] = conf[i], Unmoved(i), NEW k \in Nat,
           k <= Len(Plan[script[i]]), NEW s \in upTo(i, k), Done(i, s)
    PROVE  Done(i, s)'
<1>1. /\ s \in Steps /\ s.obj \in names[script[i]] /\ s.uses \subseteq names[script[i]]
      /\ s.op = "prune" => Links \subseteq names[script[i]]
  BY UpToFacts
<1>2. Same(s.obj) /\ keys(s.uses)' = keys(s.uses) /\ keys({s.obj})' = keys({s.obj})
  BY <1>1, KeysSame DEF Unmoved
<1>3. CASE s.op # "prune"
  BY <1>1, <1>2, <1>3, DoneAsBefore
<1>4. CASE s.op = "prune"
  <2>1. ASSUME NEW o \in objs', o.name \in Links PROVE o \in objs
    <3>1. o \in named(o.name)'
      BY DEF named
    <3>2. Same(o.name)
      BY <1>1, <1>4, <2>1 DEF Unmoved
    <3> QED
      BY <3>1, <3>2 DEF Same, named
  <2> QED
    BY <1>1, <1>2, <1>4, <2>1, PrunedAsBefore
<1> QED
  BY <1>3, <1>4

\* What the others do to other things leaves a run as it is.
LEMMA InPlaceStays ==
    ASSUME TypeOK, NEW i \in Job, RunOK(i), InPlaceOK(i), Left(i), WholeRun(i),
           disturbed[i] => disturbed'[i], phase[i] # "idle" /\ ~disturbed'[i] => Unmoved(i)
    PROVE  InPlaceOK(i)' /\ Left(i)'
<1>1. /\ script'[i] = script[i] /\ conf'[i] = conf[i] /\ phase'[i] = phase[i] /\ step'[i] = step[i]
      /\ listed'[i] = listed[i] /\ known'[i] = known[i] /\ seen'[i] = seen[i] /\ errors'[i] = errors[i]
  BY DEF WholeRun, SameRun
<1>2. /\ script[i] \in Script /\ step[i] \in 1 .. Len(Plan[script[i]]) /\ Len(Plan[script[i]]) \in Nat
      /\ at(i).obj \in names[script[i]] /\ at(i).uses \subseteq names[script[i]]
      /\ at(i).op = "prune" => Links \subseteq names[script[i]]
  BY AtFacts, NamesFacts DEF at
<1>3. /\ at(i)' = at(i) /\ value(i)' = value(i) /\ refs(i)' = refs(i)
      /\ \A k : upTo(i, k)' = upTo(i, k)
  BY <1>1 DEF at, value, refs, upTo
<1>4. Left(i)'
  <2> SUFFICES ASSUME phase[i] = "ok", ~disturbed'[i], NEW s \in upTo(i, Len(Plan[script[i]])) PROVE Done(i, s)'
    BY <1>1, <1>3 DEF Left
  <2>1. Done(i, s)
    BY DEF Left
  <2> QED
    BY <1>1, <1>2, <2>1, DoneUnmoved
<1>5. ASSUME Smooth(i)' PROVE InPlaceOK(i)'
  <2>1. Smooth(i) /\ Unmoved(i)
    BY <1>1, <1>5 DEF Smooth, Running
  <2>2. Behind(i) /\ Keyed(i) /\ Ahead(i) /\ Sending(i) /\ Pruning(i)
    BY <2>1 DEF InPlaceOK
  <2>3. Behind(i)'
    <3> SUFFICES ASSUME NEW s \in upTo(i, step[i] - 1)
                 PROVE  Done(i, s)' /\ (s.op \in Gets => s.obj \in DOMAIN known[i])
      BY <1>1, <1>3 DEF Behind
    <3>1. Done(i, s) /\ (s.op \in Gets => s.obj \in DOMAIN known[i])
      BY <2>2 DEF Behind
    <3> QED
      BY <1>1, <1>2, <2>1, <3>1, DoneUnmoved
  <2>4. Keyed(i)'
    BY <1>1, <2>1, <2>2 DEF Keyed, Unmoved, Same
  <2>5. Ahead(i)'
    <3>1. hasListed(i)' = hasListed(i) /\ lookups(i, step[i])' = lookups(i, step[i])
      BY <1>1, <1>3 DEF hasListed, lookups
    <3> SUFFICES ASSUME hasListed(i), NEW n \in lookups(i, step[i])
                 PROVE  {o \in listed[i] : o.name = n} = named(n)'
      BY <1>1, <3>1 DEF Ahead
    <3>2. {o \in listed[i] : o.name = n} = named(n)
      BY <2>2 DEF Ahead
    <3>3. n \in names[script[i]]
      BY <1>2, LookupFacts
    <3> QED
      BY <2>1, <3>2, <3>3 DEF Unmoved, Same
  <2>6. Sending(i)'
    <3>1. named(at(i).obj)' = named(at(i).obj)
      BY <1>2, <1>3, <2>1 DEF Unmoved, Same, named
    <3>2. \A o : changed(i, o)' = changed(i, o)
      BY <1>3 DEF changed
    <3> QED
      BY <1>1, <1>3, <2>2, <3>1, <3>2 DEF Sending
  <2>7. Pruning(i)'
    <3> SUFFICES ASSUME phase[i] = "prune" PROVE unwanted(i)' = unwanted(i)
      BY <1>1, <2>2 DEF Pruning
    <3>1. Links \subseteq names[script[i]]
      BY <1>2 DEF RunOK
    <3>2. \A o : o.name \in Links => (o \in objs' <=> o \in objs)
      BY <2>1, <3>1 DEF Unmoved, Same, named
    <3> QED
      BY <1>1, <1>3, <3>2 DEF unwanted
  <2> QED
    BY <2>3, <2>4, <2>5, <2>6, <2>7 DEF InPlaceOK
<1> QED
  BY <1>4, <1>5 DEF InPlaceOK

-----------------------------------------------------------------------------
(* What a run that ends well leaves behind: how the run goes on.            *)

\* The request of j has spoilt nothing that its run relies on.
Stays(j) ==
    /\ \A s \in upTo(j, step[j] - 1) : Done(j, s)'
    /\ \A n \in DOMAIN known[j] \ Links : \E o \in named(n)' : o.gen = known[j][n]
    /\ hasListed(j) => \A n \in lookups(j, step[j] + 1) : {o \in listed[j] : o.name = n} = named(n)'

\* The step that j is at is done.
AtDone(j) == \A s \in {at(j)} : Done(j, s)'

\* With the keys k and the list l, the run of j is ready for its next step.
Ready(j, k, l) ==
    /\ \A s \in upTo(j, step[j]) : Done(j, s)' /\ (s.op \in Gets => s.obj \in DOMAIN k)
    /\ \A n \in DOMAIN k : /\ n \in names[script[j]]
                           /\ n \notin Links => \E o \in named(n)' : o.gen = k[n]
    /\ (\E s \in upTo(j, step[j]) : s.op = "list") =>
          \A n \in lookups(j, step[j] + 1) : {o \in l : o.name = n} = named(n)'

InPlaceKept(j) == InPlaceOK(j)' /\ Left(j)'

\* The steps up to the current one are those behind it and itself.
LEMMA UpToAt ==
    ASSUME TypeOK, NEW j \in Job, NEW s \in upTo(j, step[j])
    PROVE  s \in upTo(j, step[j] - 1) \/ s = at(j)
<1>1. PICK k \in 1 .. step[j] : s = Plan[script[j]][k]
  BY DEF upTo
<1>2. k \in 1 .. (step[j] - 1) \/ k = step[j]
  BY DEF TypeOK
<1> QED
  BY <1>1, <1>2 DEF upTo, at

\* No step of another kind has changed what is known about a run that failed.
LEMMA EndsBadly == ASSUME TypeOK, NEW j \in Job, End(j, "failed") PROVE InPlaceKept(j)
<1>1. phase'[j] = "failed"
  BY DEF End, TypeOK
<1> QED
  BY <1>1 DEF InPlaceKept, InPlaceOK, Smooth, Left, Running

\* A run that proceeds keeps the invariant if its step is done, the steps behind it
\* stay done, and its keys and list are right.
LEMMA Advance ==
    ASSUME TypeOK, NEW j \in Job, phase[j] \in Running, disturbed'[j] = disturbed[j],
           NEW k, NEW l, NEW failed \in BOOLEAN, Proceed(j, k, l, failed),
           Smooth(j) /\ ~failed => Ready(j, k, l)
    PROVE  InPlaceKept(j)
<1>1. step[j] \in 1 .. Len(Plan[script[j]]) /\ script[j] \in Script /\ Len(Plan[script[j]]) \in Nat
  BY AtFacts
<1>2. CASE step[j] = Len(Plan[script[j]])
  <2>1. CASE errors[j] \/ failed
    BY <1>2, <2>1, EndsBadly DEF Proceed
  <2>2. CASE ~(errors[j] \/ failed)
    <3>1. End(j, "ok")
      BY <1>2, <2>2 DEF Proceed
    <3>2. phase'[j] = "ok" /\ script' = script
      BY <3>1 DEF End, TypeOK
    <3>3. InPlaceOK(j)'
      BY <3>2 DEF InPlaceOK, Smooth, Running
    <3>4. Left(j)'
      <4> SUFFICES ASSUME ~disturbed[j], NEW s \in upTo(j, step[j]) PROVE Done(j, s)'
        BY <1>2, <3>2 DEF Left, upTo
      <4> QED
        BY <2>2 DEF Ready, Smooth
    <3> QED
      BY <3>3, <3>4 DEF InPlaceKept
  <2> QED
    BY <2>1, <2>2
<1>3. CASE step[j] # Len(Plan[script[j]])
  <2>1. /\ script' = script /\ conf' = conf /\ phase'[j] = "look"
        /\ step'[j] = step[j] + 1 /\ listed'[j] = l
        /\ errors'[j] = (errors[j] \/ failed)
    BY <1>3 DEF Proceed, TypeOK
  <2>2. known'[j] = k
    <3>1. known' = [known EXCEPT ![j] = k]
      BY <1>3 DEF Proceed
    <3> QED
      BY <3>1 DEF TypeOK
  <2>3. Left(j)' /\ Sending(j)' /\ Pruning(j)'
    BY <2>1 DEF Left, Sending, Pruning
  <2>4. ASSUME Smooth(j)' PROVE Behind(j)' /\ Keyed(j)' /\ Ahead(j)'
    <3>1. Ready(j, k, l)
      BY <2>1, <2>4 DEF Smooth
    <3>2. step'[j] - 1 = step[j] /\ \A i : upTo(j, i)' = upTo(j, i) /\ lookups(j, i)' = lookups(j, i)
      BY <1>1, <2>1 DEF upTo, lookups
    <3>3. Behind(j)'
      BY <2>2, <3>1, <3>2 DEF Behind, Ready
    <3>4. Keyed(j)'
      BY <2>1, <2>2, <3>1 DEF Keyed, Ready
    <3>5. Ahead(j)'
      BY <2>1, <3>1, <3>2 DEF Ahead, hasListed, Ready
    <3> QED
      BY <3>3, <3>4, <3>5
  <2> QED
    BY <2>3, <2>4 DEF InPlaceKept, InPlaceOK
<1> QED
  BY <1>2, <1>3

\* A run whose step is done without a new key is ready for the next one.
LEMMA ReadyNext ==
    ASSUME TypeOK, NEW j \in Job, Smooth(j), InPlaceOK(j), Stays(j), AtDone(j), at(j).op # "list",
           at(j).op \in Gets => at(j).obj \in DOMAIN known[j]
    PROVE  Ready(j, known[j], listed[j])
<1>1. \A s \in upTo(j, step[j]) : s \in upTo(j, step[j] - 1) \/ s = at(j)
  BY UpToAt
<1>2. Behind(j) /\ Keyed(j)
  BY DEF InPlaceOK
<1>3. \A s \in upTo(j, step[j]) : Done(j, s)' /\ (s.op \in Gets => s.obj \in DOMAIN known[j])
  BY <1>1, <1>2 DEF Behind, Stays, AtDone
<1>4. \A n \in DOMAIN known[j] :
         /\ n \in names[script[j]]
         /\ n \notin Links => \E o \in named(n)' : o.gen = known[j][n]
  BY <1>2 DEF Keyed, Stays
<1>5. (\E s \in upTo(j, step[j]) : s.op = "list") => hasListed(j)
  BY <1>1 DEF hasListed
<1> QED
  BY <1>3, <1>4, <1>5 DEF Ready, Stays

\* The same, with the key of the object that the step is about.
LEMMA ReadyHaving ==
    ASSUME TypeOK, NEW j \in Job, Smooth(j), InPlaceOK(j), Stays(j), AtDone(j), at(j).op # "list",
           NEW o, o.name = at(j).obj, \E p \in objs' : pk(p) = pk(o)
    PROVE  Ready(j, have(j, o), listed[j])
<1>1. \A s \in upTo(j, step[j]) : s \in upTo(j, step[j] - 1) \/ s = at(j)
  BY UpToAt
<1>2. Behind(j) /\ Keyed(j)
  BY DEF InPlaceOK
<1>3. /\ DOMAIN have(j, o) = DOMAIN known[j] \cup {at(j).obj}
      /\ have(j, o)[at(j).obj] = o.gen
      /\ \A n \in DOMAIN known[j] : n # at(j).obj => have(j, o)[n] = known[j][n]
  BY DEF have
<1>4. at(j).obj \in names[script[j]]
  BY AtFacts, NamesFacts DEF at
<1>5. \A s \in upTo(j, step[j]) : Done(j, s)' /\ (s.op \in Gets => s.obj \in DOMAIN have(j, o))
  BY <1>1, <1>2, <1>3 DEF Behind, Stays, AtDone
<1>6. \A n \in DOMAIN have(j, o) :
         /\ n \in names[script[j]]
         /\ n \notin Links => \E p \in named(n)' : p.gen = have(j, o)[n]
  <2> SUFFICES ASSUME NEW n \in DOMAIN have(j, o)
               PROVE  /\ n \in names[script[j]]
                      /\ n \notin Links => \E p \in named(n)' : p.gen = have(j, o)[n]
    OBVIOUS
  <2>1. CASE n = at(j).obj
    <3>1. PICK p \in objs' : pk(p) = pk(o)
      OBVIOUS
    <3>2. p.name = n /\ p.gen = have(j, o)[n]
      BY <1>3, <2>1, <3>1 DEF pk
    <3>3. p \in named(n)'
      BY <3>1, <3>2 DEF named
    <3> QED
      BY <1>4, <2>1, <3>2, <3>3
  <2>2. CASE n # at(j).obj
    <3>1. n \in DOMAIN known[j] /\ have(j, o)[n] = known[j][n] /\ n \in names[script[j]]
      BY <1>2, <1>3, <2>2 DEF Keyed
    <3>2. n \notin Links => \E p \in named(n)' : p.gen = known[j][n]
      BY <3>1 DEF Stays
    <3> QED
      BY <3>1, <3>2
  <2> QED
    BY <2>1, <2>2
<1>7. (\E s \in upTo(j, step[j]) : s.op = "list") => hasListed(j)
  BY <1>1 DEF hasListed
<1> QED
  BY <1>5, <1>6, <1>7 DEF Ready, Stays

\* A run that passes on from a step that is done keeps the invariant.
LEMMA PassesOn ==
    ASSUME TypeOK, NEW j \in Job, phase[j] \in Running, disturbed'[j] = disturbed[j], InPlaceOK(j),
           Pass(j), Smooth(j) => /\ Stays(j) /\ AtDone(j) /\ at(j).op # "list"
                                 /\ at(j).op \in Gets => at(j).obj \in DOMAIN known[j]
    PROVE  InPlaceKept(j)
<1>1. Proceed(j, known[j], listed[j], FALSE)
  BY DEF Pass
<1>2. Smooth(j) => Ready(j, known[j], listed[j])
  BY ReadyNext
<1> QED
  BY <1>1, <1>2, Advance

\* So does one that goes on with the key of an object that there is.
LEMMA HasGot ==
    ASSUME TypeOK, NEW j \in Job, phase[j] \in Running, disturbed'[j] = disturbed[j], InPlaceOK(j),
           NEW o, Have(j, o), Smooth(j) => /\ Stays(j) /\ AtDone(j) /\ at(j).op # "list"
                                           /\ o.name = at(j).obj
                                           /\ \E p \in objs' : pk(p) = pk(o)
    PROVE  InPlaceKept(j)
<1>1. Proceed(j, have(j, o), listed[j], FALSE)
  BY DEF Have
<1>2. Smooth(j) => Ready(j, have(j, o), listed[j])
  BY ReadyHaving
<1> QED
  BY <1>1, <1>2, Advance

\* After an error a run ends, or the error is counted, except where it is only a
\* warning.
LEMMA ErrsOn ==
    ASSUME TypeOK, NEW j \in Job, phase[j] \in Running, disturbed'[j] = disturbed[j], InPlaceOK(j),
           Error(j), Smooth(j) /\ at(j).op = "try" => Stays(j)
    PROVE  InPlaceKept(j)
<1>1. CASE at(j).op = "try"
  <2>1. Pass(j)
    BY <1>1 DEF Error
  <2>2. AtDone(j) /\ at(j).op # "list" /\ at(j).op \notin Gets
    BY <1>1 DEF AtDone, Done, Gets, Getting, Referring
  <2> QED
    BY <1>1, <2>1, <2>2, PassesOn
<1>2. CASE Proceed(j, known[j], listed[j], TRUE)
  BY <1>2, Advance
<1>3. CASE End(j, "failed")
  BY <1>3, EndsBadly
<1> QED
  BY <1>1, <1>2, <1>3 DEF Error

\* Whoever only looks spoils nothing.
LEMMA LookStays ==
    ASSUME TypeOK, NEW j \in Job, Smooth(j), InPlaceOK(j), UNCHANGED objs, conf'[j] = conf[j]
    PROVE  /\ Stays(j) /\ \A n : Same(n)
           /\ \A s \in Steps : Done(j, s) => Done(j, s)'
<1>1. Behind(j) /\ Keyed(j) /\ Ahead(j)
  BY DEF InPlaceOK
<1>2. \A n : Same(n)
  BY DEF Same, named
<1>3. \A N : keys(N)' = keys(N)
  BY DEF keys
<1>4. ASSUME NEW s \in Steps, Done(j, s) PROVE Done(j, s)'
  BY <1>2, <1>3, <1>4, DoneAsBefore, PrunedAsBefore
<1>5. /\ script[j] \in Script /\ step[j] \in 1 .. Len(Plan[script[j]]) /\ Len(Plan[script[j]]) \in Nat
  BY AtFacts
<1>6. \A s \in upTo(j, step[j] - 1) : s \in Steps
  BY <1>5, UpToFacts
<1>7. \A s \in upTo(j, step[j] - 1) : Done(j, s)'
  BY <1>1, <1>4, <1>6 DEF Behind
<1>8. \A n \in DOMAIN known[j] \ Links : \E o \in named(n)' : o.gen = known[j][n]
  BY <1>1, <1>2 DEF Keyed, Same
<1>9. \A n \in lookups(j, step[j] + 1) : n \in lookups(j, step[j])
  BY <1>5 DEF lookups
<1>10. hasListed(j) => \A n \in lookups(j, step[j] + 1) : {o \in listed[j] : o.name = n} = named(n)'
  BY <1>1, <1>2, <1>9 DEF Ahead, Same
<1> QED
  BY <1>2, <1>4, <1>7, <1>8, <1>10 DEF Stays

-----------------------------------------------------------------------------
(* What a run that ends well leaves behind: what a step can count on.       *)

\* What a step refers to has been got.
LEMMA UsesGot ==
    ASSUME NEW x \in Script, NEW i \in 1 .. Len(Plan[x]), NEW s, s = Plan[x][i]
    PROVE  /\ s.op \in Referring \cup {"prune"} => s.uses \subseteq Unique \ Links
           /\ s.op \in Referring \cup {"prune", "make"} => \A n \in s.uses : got(x, i, n)
           /\ s.op = "prune" => s.obj \in Unique \ Links /\ got(x, i, s.obj)
BY InPlaceAssumption

\* What has been got is there.
LEMMA GotThere ==
    ASSUME TypeOK, NEW j \in Job, Smooth(j), InPlaceOK(j), NEW i \in 1 .. step[j], NEW n,
           got(script[j], i, n)
    PROVE  n \in DOMAIN known[j] /\ (n \notin Links => \E o \in named(n) : o.gen = known[j][n])
<1>1. PICK k \in 1 .. (i - 1) : Plan[script[j]][k].op \in Gets /\ Plan[script[j]][k].obj = n
  BY DEF got
<1>2. k \in 1 .. (step[j] - 1)
  BY DEF TypeOK
<1>3. Plan[script[j]][k] \in upTo(j, step[j] - 1)
  BY <1>2 DEF upTo
<1> QED
  BY <1>1, <1>3 DEF InPlaceOK, Behind, Keyed

\* So are the objects that the step refers to, and their keys are what it sends.
LEMMA RefsAreKeys ==
    ASSUME TypeOK, OneOK, NEW j \in Job, Smooth(j), InPlaceOK(j),
           at(j).op \in Referring \cup {"prune"}
    PROVE  /\ refs(j) = keys(at(j).uses)
           /\ at(j).op = "prune" => keys({at(j).obj}) = {<<at(j).obj, known[j][at(j).obj]>>}
<1>1. /\ script[j] \in Script /\ step[j] \in 1 .. Len(Plan[script[j]]) /\ step[j] \in 1 .. step[j]
      /\ at(j) = Plan[script[j]][step[j]]
  BY AtFacts DEF at
<1>2. at(j).uses \subseteq Unique \ Links /\ \A n \in at(j).uses : got(script[j], step[j], n)
  BY <1>1, UsesGot
<1>3. ASSUME NEW n \in Unique \ Links, got(script[j], step[j], n)
      PROVE  /\ n \in DOMAIN known[j]
             /\ \A o \in named(n) : o.gen = known[j][n]
             /\ named(n) # {}
  <2>1. n \in DOMAIN known[j] /\ \E o \in named(n) : o.gen = known[j][n]
    BY <1>1, <1>3, GotThere
  <2>2. \A o, q \in named(n) : o = q
    BY OneKey
  <2> QED
    BY <2>1, <2>2
<1>4. ASSUME NEW n \in Unique \ Links, got(script[j], step[j], n)
      PROVE  \A k : (\E o \in named(n) : k = pk(o)) <=> k = <<n, known[j][n]>>
  <2>1. \A o \in named(n) : pk(o) = <<n, known[j][n]>>
    BY <1>3, <1>4 DEF pk, named
  <2> QED
    BY <1>3, <1>4, <2>1
<1>5. \A N : \A k : k \in keys(N) <=> \E n \in N : \E o \in named(n) : k = pk(o)
  BY DEF keys, named
<1>6. \A k : k \in refs(j) <=> \E n \in at(j).uses : k = <<n, known[j][n]>>
  BY <1>2, <1>3 DEF refs
<1>7. \A k : k \in refs(j) <=> k \in keys(at(j).uses)
  BY <1>2, <1>4, <1>5, <1>6
<1>8. at(j).op = "prune" => keys({at(j).obj}) = {<<at(j).obj, known[j][at(j).obj]>>}
  <2> SUFFICES ASSUME at(j).op = "prune"
               PROVE  \A k : k \in keys({at(j).obj}) <=> k = <<at(j).obj, known[j][at(j).obj]>>
    BY DEF keys
  <2>1. at(j).obj \in Unique \ Links /\ got(script[j], step[j], at(j).obj)
    BY <1>1, UsesGot
  <2> QED
    BY <1>4, <1>5, <2>1
<1> QED
  BY <1>7, <1>8 DEF refs, keys

\* What the steps behind refer to is there, and has one key.
LEMMA UsesThere ==
    ASSUME TypeOK, NEW j \in Job, Smooth(j), InPlaceOK(j), NEW s \in upTo(j, step[j])
    PROVE  /\ s.op \in Referring \cup {"prune"} =>
                 s.uses \subseteq Unique \ Links /\ \A n \in s.uses : named(n) # {}
           /\ s.op = "prune" => s.obj \in Unique \ Links /\ named(s.obj) # {}
<1>1. script[j] \in Script /\ step[j] \in Nat /\ step[j] <= Len(Plan[script[j]])
  BY AtFacts
<1>2. PICK k \in 1 .. step[j] : k \in 1 .. Len(Plan[script[j]]) /\ s = Plan[script[j]][k]
  BY <1>1, UpToFacts
<1>3. \A n : got(script[j], k, n) /\ n \notin Links => named(n) # {}
  BY GotThere
<1> QED
  BY <1>1, <1>2, <1>3, UsesGot

-----------------------------------------------------------------------------
(* What a run that ends well leaves behind: steps that look something up.   *)

\* A run that has looked turns to a request.
LEMMA TurnsTo ==
    ASSUME TypeOK, NEW j \in Job, phase[j] \in Running, UNCHANGED objs, disturbed'[j] = disturbed[j],
           InPlaceOK(j), phase'[j] \in {"post", "patch"},
           script'[j] = script[j], conf'[j] = conf[j], step'[j] = step[j],
           listed'[j] = listed[j], errors'[j] = errors[j],
           Smooth(j) => DOMAIN known[j] \subseteq DOMAIN known'[j] /\ Keyed(j)' /\ Sending(j)'
    PROVE  InPlaceKept(j)
<1>1. Left(j)' /\ Pruning(j)'
  BY DEF Left, Pruning
<1>2. ASSUME Smooth(j)' PROVE InPlaceOK(j)'
  <2>1. Smooth(j)
    BY <1>2 DEF Smooth
  <2>2. Behind(j) /\ Ahead(j)
    BY <2>1 DEF InPlaceOK
  <2>3. \A s \in Steps : Done(j, s) => Done(j, s)'
    BY <2>1, LookStays
  <2>4. \A s \in upTo(j, step[j] - 1) : s \in Steps
    BY AtFacts, UpToFacts
  <2>5. (step[j] - 1)' = step[j] - 1 /\ \A i : upTo(j, i)' = upTo(j, i) /\ lookups(j, i)' = lookups(j, i)
    BY DEF upTo, lookups
  <2>6. Behind(j)'
    BY <2>1, <2>2, <2>3, <2>4, <2>5 DEF Behind
  <2>7. Ahead(j)'
    BY <2>2, <2>5 DEF Ahead, hasListed, named
  <2> QED
    BY <1>1, <2>1, <2>6, <2>7 DEF InPlaceOK
<1> QED
  BY <1>1, <1>2 DEF InPlaceKept, InPlaceOK

\* A run that will write next keeps the invariant if what it will send is right.
LEMMA WritesOn ==
    ASSUME TypeOK, NEW j \in Job, phase[j] \in Running, UNCHANGED application, InPlaceOK(j),
           NEW p \in {"post", "patch"}, NEW g, NEW F, Write(j, p, g, F),
           Smooth(j) /\ p = "patch" =>
              /\ at(j).op = "key" => F = {"secret"}
              /\ at(j).op # "fill"
              /\ at(j).op # "key" => \E o \in named(at(j).obj) : o.gen = g /\ F = changed(j, o)
    PROVE  InPlaceKept(j)
<1>1. /\ UNCHANGED <<objs, disturbed>>
      /\ UNCHANGED <<script, conf, step, known, listed, errors>>
      /\ phase'[j] = p /\ seen'[j] = [gen |-> g, fields |-> F]
  BY DEF application, Write, TypeOK
<1>2. /\ at(j)' = at(j) /\ value(j)' = value(j) /\ refs(j)' = refs(j)
      /\ \A n : named(n)' = named(n)
  BY <1>1 DEF at, value, refs, named
<1>3. \A o : changed(j, o)' = changed(j, o)
  BY <1>2 DEF changed
<1>4. ASSUME Smooth(j) PROVE Keyed(j)' /\ Sending(j)'
  <2>1. Keyed(j)
    BY <1>4 DEF InPlaceOK
  <2>2. Keyed(j)'
    BY <1>1, <1>2, <2>1 DEF Keyed
  <2>3. named(at(j).obj)' = named(at(j).obj)
    BY <1>1, <1>2 DEF named
  <2>4. Sending(j)'
    BY <1>1, <1>2, <1>3, <1>4, <2>3 DEF Sending
  <2> QED
    BY <2>2, <2>4
<1> QED
  BY <1>1, <1>4, TurnsTo

\* A run that will create its object sends nothing yet that could be wrong.
LEMMA CreatesNext ==
    ASSUME TypeOK, NEW j \in Job, phase[j] \in Running, UNCHANGED application, InPlaceOK(j), Create(j)
    PROVE  InPlaceKept(j)
BY WritesOn DEF Create

LEMMA NeedInPlace ==
    ASSUME TypeOK, NEW j \in Job, InPlaceOK(j), Need(j) PROVE InPlaceKept(j)
<1>1. phase[j] \in Running /\ at(j).op = "need" /\ UNCHANGED <<objs, disturbed>>
  BY DEF Need, looking, Running, application
<1>2. at(j) \in Steps
  BY AtFacts
<1>3. CASE named(at(j).obj) = {} /\ Error(j)
  BY <1>1, <1>3, ErrsOn
<1>4. ASSUME NEW o \in named(at(j).obj), Have(j, o) PROVE InPlaceKept(j)
  <2>1. conf'[j] = conf[j]
    BY <1>4 DEF Have, Proceed, End
  <2>2. Done(j, at(j))
    BY <1>1, <1>4 DEF Done, Referring
  <2>3. Smooth(j) => Stays(j) /\ AtDone(j)
    BY <1>1, <1>2, <2>1, <2>2, LookStays DEF AtDone
  <2>4. o.name = at(j).obj /\ o \in objs'
    BY <1>1, <1>4 DEF named
  <2> QED
    BY <1>1, <1>4, <2>3, <2>4, HasGot
<1> QED
  BY <1>3, <1>4 DEF Need

LEMMA MakeInPlace ==
    ASSUME TypeOK, NEW j \in Job, InPlaceOK(j), Make(j) PROVE InPlaceKept(j)
<1>1. phase[j] \in Running /\ at(j).op \in {"make", "try", "loose"} /\ UNCHANGED <<objs, disturbed>>
      /\ UNCHANGED application
  BY DEF Make, looking, Running, application
<1>2. /\ script[j] \in Script /\ step[j] \in 1 .. Len(Plan[script[j]]) /\ step[j] \in 1 .. step[j]
      /\ at(j) \in Steps /\ at(j) = Plan[script[j]][step[j]]
  BY AtFacts DEF at
<1>3. CASE omitted(j) /\ Pass(j)
  <2>1. ASSUME Smooth(j) PROVE at(j).op = "try" \/ (at(j).op = "loose" /\ value(j) = 0)
    <3>1. at(j).op = "make" => \A n \in at(j).uses : n \in DOMAIN known[j]
      BY <1>2, <2>1, UsesGot, GotThere
    <3> QED
      BY <1>1, <1>3, <3>1 DEF omitted
  <2>2. conf'[j] = conf[j]
    BY <1>3 DEF Pass, Proceed, End
  <2>3. Smooth(j) => Stays(j) /\ AtDone(j) /\ at(j).op # "list" /\ at(j).op \notin Gets
    BY <1>1, <2>1, <2>2, LookStays DEF AtDone, Done, Gets, Getting, Referring, value
  <2> QED
    BY <1>1, <1>3, <2>3, PassesOn
<1>4. CASE Create(j)
  BY <1>1, <1>4, CreatesNext
<1>5. ASSUME NEW o \in named(at(j).obj), Have(j, o) PROVE InPlaceKept(j)
  <2>1. conf'[j] = conf[j]
    BY <1>5 DEF Have, Proceed, End
  <2>2. Done(j, at(j))
    BY <1>1, <1>5 DEF Done, Referring
  <2>3. Smooth(j) => Stays(j) /\ AtDone(j)
    BY <1>1, <1>2, <2>1, <2>2, LookStays DEF AtDone
  <2>4. o.name = at(j).obj /\ o \in objs'
    BY <1>1, <1>5 DEF named
  <2> QED
    BY <1>1, <1>5, <2>3, <2>4, HasGot
<1> QED
  BY <1>3, <1>4, <1>5 DEF Make

\* What an update finds as it should be, it leaves, and the step is done.
LEMMA UpdatesOn ==
    ASSUME TypeOK, OneOK, NEW j \in Job, phase[j] \in Running, UNCHANGED application, InPlaceOK(j),
           at(j).op \in {"ensure", "secret", "whole", "tile", "entry", "link"},
           NEW o, Smooth(j) => o \in named(at(j).obj), Update(j, o)
    PROVE  InPlaceKept(j)
<1>1. UNCHANGED <<objs, disturbed>> /\ at(j) \in Steps
  BY AtFacts DEF application
<1>2. CASE changed(j, o) = {}
  <2>1. Have(j, o)
    BY <1>2 DEF Update
  <2>2. conf'[j] = conf[j]
    BY <2>1 DEF Have, Proceed, End
  <2>3. ASSUME Smooth(j) PROVE Done(j, at(j))
    <3>1. at(j).op \notin {"whole", "secret"} /\ o.body = value(j)
      BY <1>2 DEF changed, Field
    <3>2. at(j).op # "tile" => o.refs = refs(j)
      BY <1>2 DEF changed, Field
    <3>3. at(j).op \in Referring => o.refs = keys(at(j).uses)
      BY <2>3, <3>2, RefsAreKeys DEF Referring
    <3>4. o \in named(at(j).obj)
      BY <2>3
    <3> QED
      BY <3>1, <3>3, <3>4 DEF Done, value, Referring
  <2>4. ASSUME Smooth(j) PROVE Stays(j) /\ AtDone(j) /\ o.name = at(j).obj /\ \E p \in objs' : pk(p) = pk(o)
    BY <1>1, <2>2, <2>3, <2>4, LookStays DEF AtDone, named
  <2> QED
    BY <1>1, <2>1, <2>4, HasGot
<1>3. CASE changed(j, o) # {}
  <2> DEFINE F == changed(j, o)
  <2>1. Write(j, "patch", o.gen, F)
    BY <1>3 DEF Update
  <2>2. Smooth(j) => \E q \in named(at(j).obj) : q.gen = o.gen /\ F = changed(j, q)
    OBVIOUS
  <2> HIDE DEF F
  <2> QED
    BY <2>1, <2>2, WritesOn
<1> QED
  BY <1>2, <1>3

LEMMA EnsureInPlace ==
    ASSUME TypeOK, OneOK, NEW j \in Job, InPlaceOK(j), Ensure(j) PROVE InPlaceKept(j)
<1>1. phase[j] \in Running /\ at(j).op \in {"ensure", "secret", "whole", "tile"} /\ UNCHANGED application
  BY DEF Ensure, looking, Running
<1>2. CASE Create(j)
  BY <1>1, <1>2, CreatesNext
<1>3. ASSUME NEW o \in named(at(j).obj), Update(j, o) PROVE InPlaceKept(j)
  BY <1>1, <1>3, UpdatesOn
<1> QED
  BY <1>2, <1>3 DEF Ensure

LEMMA SetKeyInPlace ==
    ASSUME TypeOK, NEW j \in Job, InPlaceOK(j), SetKey(j) PROVE InPlaceKept(j)
<1>1. phase[j] \in Running /\ at(j).op = "key" /\ UNCHANGED application
  BY DEF SetKey, looking, Running
<1>2. PICK g : Write(j, "patch", g, {"secret"})
  BY DEF SetKey
<1> QED
  BY <1>1, <1>2, WritesOn

LEMMA CheckInPlace ==
    ASSUME TypeOK, NEW j \in Job, InPlaceOK(j), Check(j) PROVE InPlaceKept(j)
<1>1. phase[j] \in Running /\ at(j).op = "check" /\ UNCHANGED <<objs, disturbed>>
  BY DEF Check, looking, Running, application
<1>2. at(j) \in Steps
  BY AtFacts
<1>3. CASE Error(j)
  BY <1>1, <1>3, ErrsOn
<1>4. CASE (\E o \in named(at(j).obj) : o.secret = value(j)) /\ Pass(j)
  <2>1. conf'[j] = conf[j]
    BY <1>4 DEF Pass, Proceed, End
  <2>2. Done(j, at(j))
    BY <1>1, <1>4 DEF Done, Referring, value
  <2>3. Smooth(j) => Stays(j) /\ AtDone(j)
    BY <1>1, <1>2, <2>1, <2>2, LookStays DEF AtDone
  <2> QED
    BY <1>1, <1>4, <2>3, PassesOn DEF Gets, Getting
<1> QED
  BY <1>3, <1>4 DEF Check

LEMMA FillInPlace ==
    ASSUME TypeOK, NEW j \in Job, InPlaceOK(j), Fill(j) PROVE InPlaceKept(j)
<1> DEFINE there == named(at(j).obj)
           values == {d \in objs : d.name \in at(j).uses}
           blank == {o \in there : o.refs = {}}
<1>1. phase[j] \in Running /\ at(j).op = "fill" /\ UNCHANGED <<objs, disturbed>>
  BY DEF Fill, looking, Running, application
<1>2. at(j) \in Steps /\ script[j] \in Script /\ step[j] \in 1 .. Len(Plan[script[j]])
  BY AtFacts
<1>3. CASE Error(j)
  BY <1>1, <1>3, ErrsOn
<1>4. CASE there # {} /\ blank = {} /\ Pass(j)
  <2>1. conf'[j] = conf[j]
    BY <1>4 DEF Pass, Proceed, End
  <2>2. Done(j, at(j))
    BY <1>1, <1>4 DEF Done, Referring
  <2>3. Smooth(j) => Stays(j) /\ AtDone(j)
    BY <1>1, <1>2, <2>1, <2>2, LookStays DEF AtDone
  <2> QED
    BY <1>1, <1>4, <2>3, PassesOn DEF Gets, Getting
<1>5. ASSUME NEW o \in blank, NEW d \in values,
             phase' = [phase EXCEPT ![j] = "patch"],
             seen' = [seen EXCEPT ![j] = [gen |-> o.gen, fields |-> {"refs"}]],
             known' = [known EXCEPT ![j] = have(j, d)],
             UNCHANGED <<script, conf, step, listed, errors>>
      PROVE  InPlaceKept(j)
  <2>1. phase'[j] = "patch" /\ seen'[j].fields = {"refs"}
    BY <1>5 DEF TypeOK
  <2>2. known'[j] = have(j, d)
    BY <1>5 DEF TypeOK
  <2>3. /\ DOMAIN have(j, d) = DOMAIN known[j] \cup {d.name}
        /\ have(j, d)[d.name] = d.gen
        /\ \A n \in DOMAIN known[j] : n # d.name => have(j, d)[n] = known[j][n]
    BY DEF have
  <2>4. at(j)' = at(j) /\ d \in objs /\ d.name \in at(j).uses
    BY <1>5 DEF at
  <2>5. at(j).uses \subseteq names[script[j]]
    BY <1>2, NamesFacts DEF at
  <2>6. ASSUME Smooth(j) PROVE Keyed(j)' /\ Sending(j)'
    <3>1. Keyed(j) /\ d \in named(d.name) /\ \A n : named(n)' = named(n)
      BY <1>1, <2>4, <2>6 DEF InPlaceOK, named
    <3>2. Keyed(j)'
      BY <1>5, <2>2, <2>3, <2>4, <2>5, <3>1 DEF Keyed
    <3>3. <<d.name, known'[j][d.name]>> \in refs(j)'
      BY <2>2, <2>3, <2>4 DEF refs
    <3>4. Sending(j)'
      BY <1>1, <2>1, <2>4, <3>3 DEF Sending
    <3> QED
      BY <3>2, <3>4
  <2> QED
    BY <1>1, <1>5, <2>1, <2>2, <2>3, <2>6, TurnsTo
<1> QED
  BY <1>3, <1>4, <1>5 DEF Fill

LEMMA ListInPlace ==
    ASSUME TypeOK, NEW j \in Job, InPlaceOK(j), List(j) PROVE InPlaceKept(j)
<1> DEFINE l == {o \in objs : o.name \in at(j).uses}
<1>1. /\ phase[j] \in Running /\ at(j).op = "list" /\ UNCHANGED <<objs, disturbed>>
      /\ Proceed(j, known[j], l, FALSE)
  BY DEF List, looking, Running, application
<1>2. /\ at(j) \in Steps /\ script[j] \in Script /\ step[j] \in 1 .. Len(Plan[script[j]])
      /\ Len(Plan[script[j]]) \in Nat /\ at(j) = Plan[script[j]][step[j]]
  BY AtFacts DEF at
<1> HIDE DEF l
<1>3. ASSUME Smooth(j) PROVE Ready(j, known[j], l)
  <2>1. conf'[j] = conf[j]
    BY <1>1 DEF Proceed, End
  <2>2. Stays(j) /\ AtDone(j) /\ \A n : Same(n)
    <3>1. AtDone(j)
      BY <1>1 DEF AtDone, Done, Referring
    <3> QED
      BY <1>1, <1>3, <2>1, <3>1, LookStays
  <2>3. at(j).op \notin Gets
    BY <1>1 DEF Gets, Getting
  <2>4. Behind(j) /\ Keyed(j)
    BY <1>3 DEF InPlaceOK
  <2>5. \A s \in upTo(j, step[j]) : Done(j, s)' /\ (s.op \in Gets => s.obj \in DOMAIN known[j])
    BY <2>2, <2>3, <2>4, UpToAt DEF Behind, Stays, AtDone
  <2>6. \A n \in DOMAIN known[j] :
           /\ n \in names[script[j]]
           /\ n \notin Links => \E o \in named(n)' : o.gen = known[j][n]
    BY <2>2, <2>4 DEF Keyed, Stays
  <2>7. ASSUME NEW n \in lookups(j, step[j] + 1) PROVE {o \in l : o.name = n} = named(n)'
    <3>1. PICK m \in 1 .. Len(Plan[script[j]]) :
             /\ m >= step[j] + 1 /\ n = Plan[script[j]][m].obj
             /\ Plan[script[j]][m].op \in {"entry", "link"}
      BY <1>2, LookupFacts
    <3>2. step[j] \in 1 .. (m - 1)
      BY <1>2, <3>1
    <3>3. n \in at(j).uses
      BY <1>1, <1>2, <3>1, <3>2, InPlaceAssumption
    <3>4. named(n)' = named(n)
      BY <2>2 DEF Same
    <3> QED
      BY <3>3, <3>4 DEF named, l
  <2> QED
    BY <2>5, <2>6, <2>7 DEF Ready
<1> QED
  BY <1>1, <1>3, Advance

\* An entry looks at the list, in which there is what there is.
LEMMA ListedIsThere ==
    ASSUME TypeOK, NEW j \in Job, Smooth(j), InPlaceOK(j), at(j).op \in {"entry", "link"}
    PROVE  {o \in listed[j] : o.name = at(j).obj} = named(at(j).obj)
<1>1. /\ script[j] \in Script /\ step[j] \in 1 .. Len(Plan[script[j]]) /\ at(j) = Plan[script[j]][step[j]]
      /\ step[j] \in step[j] .. Len(Plan[script[j]])
  BY AtFacts DEF at
<1>2. PICK k \in 1 .. (step[j] - 1) : Plan[script[j]][k].op = "list"
  BY <1>1, InPlaceAssumption
<1>3. hasListed(j)
  BY <1>2 DEF hasListed, upTo
<1>4. at(j).obj \in lookups(j, step[j])
  BY <1>1 DEF lookups
<1> QED
  BY <1>3, <1>4 DEF InPlaceOK, Ahead

LEMMA EntryInPlace ==
    ASSUME TypeOK, OneOK, NEW j \in Job, InPlaceOK(j), Entry(j) PROVE InPlaceKept(j)
<1> DEFINE mine == {o \in listed[j] : o.name = at(j).obj}
<1>1. phase[j] \in Running /\ at(j).op \in {"entry", "link"} /\ UNCHANGED application
  BY DEF Entry, looking, Running
<1>2. CASE Error(j)
  BY <1>1, <1>2, ErrsOn DEF application
<1>3. CASE Create(j)
  BY <1>1, <1>3, CreatesNext
<1>4. ASSUME NEW o \in mine, Update(j, o) PROVE InPlaceKept(j)
  <2>1. Smooth(j) => o \in named(at(j).obj)
    BY <1>1, ListedIsThere
  <2> QED
    BY <1>1, <1>4, <2>1, UpdatesOn
<1> QED
  BY <1>2, <1>3, <1>4 DEF Entry

\* Nothing is pruned once there is a list.
LEMMA PruneBeforeList ==
    ASSUME TypeOK, NEW j \in Job, at(j).op = "prune" PROVE ~hasListed(j)
<1>1. /\ script[j] \in Script /\ step[j] \in 1 .. Len(Plan[script[j]]) /\ at(j) = Plan[script[j]][step[j]]
      /\ Len(Plan[script[j]]) \in Nat
  BY AtFacts DEF at
<1> SUFFICES ASSUME NEW s \in upTo(j, step[j] - 1), s.op = "list" PROVE FALSE
  BY DEF hasListed
<1>2. PICK k \in 1 .. (step[j] - 1) : s = Plan[script[j]][k]
  BY DEF upTo
<1>3. k \in 1 .. Len(Plan[script[j]]) /\ step[j] \in k .. Len(Plan[script[j]])
  BY <1>1
<1>4. Plan[script[j]][k].op = "list"
  BY <1>2
<1> QED
  BY <1>1, <1>3, <1>4, InPlaceAssumption

LEMMA PruneInPlace ==
    ASSUME TypeOK, NEW j \in Job, InPlaceOK(j), Prune(j) PROVE InPlaceKept(j)
<1>1. /\ phase[j] \in Running /\ at(j).op = "prune" /\ UNCHANGED <<objs, disturbed>>
      /\ UNCHANGED <<script, conf, step, known, seen, errors>>
      /\ phase'[j] = "prune" /\ listed'[j] = unwanted(j)
  BY DEF Prune, looking, Running, application, TypeOK
<1>2. Left(j)' /\ Sending(j)'
  BY <1>1 DEF Left, Sending
<1>3. Pruning(j)'
  BY <1>1 DEF Pruning, unwanted, at, refs
<1>4. ASSUME Smooth(j)' PROVE Behind(j)' /\ Keyed(j)' /\ Ahead(j)'
  <2>1. Smooth(j)
    BY <1>1, <1>4 DEF Smooth
  <2>2. Behind(j) /\ Keyed(j)
    BY <2>1 DEF InPlaceOK
  <2>3. Stays(j)
    BY <1>1, <2>1, LookStays
  <2>4. (step[j] - 1)' = step[j] - 1 /\ \A i : upTo(j, i)' = upTo(j, i)
    BY <1>1 DEF upTo
  <2>5. Behind(j)' /\ Keyed(j)'
    BY <1>1, <2>2, <2>3, <2>4 DEF Behind, Keyed, Stays, named
  <2>6. ~hasListed(j)
    BY <1>1, PruneBeforeList
  <2>7. Ahead(j)'
    BY <2>4, <2>6 DEF Ahead, hasListed
  <2> QED
    BY <2>5, <2>7
<1> QED
  BY <1>2, <1>3, <1>4 DEF InPlaceKept, InPlaceOK

-----------------------------------------------------------------------------
(* What a run that ends well leaves behind: requests that create something. *)

\* What is written outside a list is not looked up in the list afterwards.
LEMMA NotLookedUp ==
    ASSUME TypeOK, NEW j \in Job, at(j).op \notin {"list", "need", "check"}
    PROVE  at(j).obj \notin lookups(j, step[j] + 1)
<1>1. /\ script[j] \in Script /\ step[j] \in 1 .. Len(Plan[script[j]]) /\ step[j] \in Nat
      /\ at(j) = Plan[script[j]][step[j]]
  BY AtFacts DEF at
<1> SUFFICES ASSUME at(j).obj \in lookups(j, step[j] + 1) PROVE FALSE
  OBVIOUS
<1>2. PICK m \in 1 .. Len(Plan[script[j]]) :
         /\ m >= step[j] + 1 /\ at(j).obj = Plan[script[j]][m].obj
         /\ Plan[script[j]][m].op \in {"entry", "link"}
  BY <1>1, LookupFacts
<1>3. step[j] \in 1 .. (m - 1)
  BY <1>1, <1>2
<1> QED
  BY <1>1, <1>2, <1>3, InPlaceAssumption

\* A request that leaves all but the objects called n as they are.
LEMMA OwnStays ==
    ASSUME TypeOK, NEW j \in Job, Smooth(j), InPlaceOK(j), NEW n, \A m : m # n => Same(m),
           n \notin Links => \A p \in named(n) : \E q \in named(n)' : q.gen = p.gen,
           hasListed(j) => n \notin lookups(j, step[j] + 1),
           \A s \in upTo(j, step[j] - 1) : Done(j, s)'
    PROVE  Stays(j)
<1>1. Keyed(j) /\ Ahead(j) /\ step[j] \in Nat /\ Len(Plan[script[j]]) \in Nat
  BY AtFacts DEF InPlaceOK, TypeOK
<1>2. ASSUME NEW m \in DOMAIN known[j] \ Links PROVE \E o \in named(m)' : o.gen = known[j][m]
  <2>1. PICK p \in named(m) : p.gen = known[j][m]
    BY <1>1 DEF Keyed
  <2>2. CASE m = n
    BY <2>1, <2>2
  <2>3. CASE m # n
    BY <2>1, <2>3 DEF Same
  <2> QED
    BY <2>2, <2>3
<1>3. ASSUME hasListed(j), NEW m \in lookups(j, step[j] + 1)
      PROVE  {o \in listed[j] : o.name = m} = named(m)'
  <2>1. m \in lookups(j, step[j])
    BY <1>1 DEF lookups
  <2>2. m # n
    BY <1>3
  <2> QED
    BY <1>1, <1>3, <2>1, <2>2 DEF Ahead, Same
<1> QED
  BY <1>2, <1>3 DEF Stays

\* What there is of the steps behind, when the step has made the object it is about.
LEMMA CreateStays ==
    ASSUME TypeOK, OneOK, NEW j \in Job, Smooth(j), InPlaceOK(j), conf'[j] = conf[j],
           at(j).op \in Creating \cup {"add"},
           NEW o, NEW n, n = at(j).obj, o.name = n, o.refs = refs(j), named(n) = {}, objs' = objs \cup {o}
    PROVE  Stays(j) /\ \A s \in {at(j)} : s.op \in Referring => o.refs = keys(s.uses)'
<1>1. /\ script[j] \in Script /\ step[j] \in 1 .. Len(Plan[script[j]]) /\ step[j] \in Nat
      /\ at(j) = Plan[script[j]][step[j]] /\ step[j] - 1 \in Nat /\ step[j] - 1 <= Len(Plan[script[j]])
      /\ Len(Plan[script[j]]) \in Nat
  BY AtFacts DEF at
<1>2. \A m : m # n => Same(m)
  BY DEF Same, named
<1>3. \A N : n \notin N => keys(N)' = keys(N)
  BY <1>2, KeysSame
<1>4. \A s \in upTo(j, step[j]) : s.op \in Referring \cup {"prune"} => n \notin s.uses
  BY UsesThere
<1>5. at(j) \in upTo(j, step[j]) /\ \A s \in upTo(j, step[j] - 1) : s \in upTo(j, step[j])
  BY <1>1 DEF upTo
<1>6. ASSUME NEW s \in upTo(j, step[j] - 1) PROVE Done(j, s)'
  <2>1. s \in Steps /\ Done(j, s) /\ s \in upTo(j, step[j])
    BY <1>1, <1>5, UpToFacts DEF InPlaceOK, Behind
  <2>2. CASE s.op # "prune"
    <3>1. \/ s.op \in Gets \cup Referring \cup {"key", "check", "fill"}
          \/ s.op = "loose" /\ s.val[conf[j]] # 0
          => named(s.obj) # {}
      BY <2>1 DEF Done, Gets, Getting, Referring
    <3>2. /\ s.op \in Gets \cup Referring \cup {"key", "check", "fill"} => Same(s.obj)
          /\ s.op = "loose" /\ s.val[conf[j]] # 0 => Same(s.obj)
      BY <1>2, <3>1
    <3>3. s.op \in Referring => keys(s.uses)' = keys(s.uses)
      BY <1>3, <1>4, <2>1
    <3> QED
      BY <2>1, <2>2, <3>2, <3>3, DoneAsBefore
  <2>3. CASE s.op = "prune"
    <3>1. s.obj # n /\ n \notin s.uses
      BY <1>4, <2>1, <2>3, UsesThere
    <3>2. keys({s.obj})' = keys({s.obj}) /\ keys(s.uses)' = keys(s.uses)
      BY <1>3, <3>1
    <3>3. n \in Links => s.obj \notin at(j).uses
      <4>1. PICK k \in 1 .. (step[j] - 1) : s = Plan[script[j]][k]
        BY DEF upTo
      <4>2. k \in 1 .. Len(Plan[script[j]]) /\ step[j] \in (k + 1) .. Len(Plan[script[j]])
        BY <1>1
      <4> QED
        BY <1>1, <2>3, <4>1, <4>2, InPlaceAssumption
    <3>4. n \in Links => o.refs \cap keys({s.obj}) = {}
      BY <3>3 DEF refs, keys, pk
    <3> QED
      BY <2>1, <2>3, <3>2, <3>4, PrunedAsBefore
  <2> QED
    BY <2>2, <2>3
<1>7. n \notin lookups(j, step[j] + 1)
  <2>1. at(j).op \notin {"list", "need", "check"}
    BY DEF Creating
  <2> QED
    BY <2>1, NotLookedUp
<1>8. \A p \in named(n) : \E q \in named(n)' : q.gen = p.gen
  OBVIOUS
<1>9. Stays(j)
  BY <1>2, <1>6, <1>7, <1>8, OwnStays
<1>10. ASSUME NEW s \in {at(j)}, s.op \in Referring PROVE o.refs = keys(s.uses)'
  <2>1. refs(j) = keys(s.uses)
    BY <1>10, RefsAreKeys
  <2>2. keys(s.uses)' = keys(s.uses)
    BY <1>3, <1>4, <1>5, <1>10
  <2> QED
    BY <2>1, <2>2
<1> QED
  BY <1>9, <1>10

\* A request that the application refuses, or that is not needed.
LEMMA RefusedInPlace ==
    ASSUME TypeOK, NEW j \in Job, phase[j] \in Running, InPlaceOK(j), Error(j), UNCHANGED <<objs, disturbed>>
    PROVE  InPlaceKept(j)
<1>1. conf'[j] = conf[j]
  BY DEF Error, Pass, Proceed, End
<1> QED
  BY <1>1, ErrsOn, LookStays

LEMMA PostInPlace ==
    ASSUME ProvisionInv, OnceInv, NEW j \in Job, InPlaceOK(j), Post(j) PROVE InPlaceKept(j)
<1>1. TypeOK /\ OneOK /\ phase[j] = "post" /\ phase[j] \in Running /\ at(j).op \in Creating
  BY DEF Post, ProvisionInv, RunOK, OnceInv, Running
<1> DEFINE n == at(j).obj
           o == [name |-> n, gen |-> born[n] + 1, body |-> value(j),
                 secret |-> IF at(j).op \in WithSecret THEN value(j) ELSE 0, refs |-> refs(j)]
<1>2. CASE /\ n \in Unique => named(n) = {}
           /\ objs' = objs \cup {o} /\ Touch(j, n) /\ Answered(j, Have(j, o))
  <2>1. disturbed'[j] = disturbed[j]
    BY <1>1, <1>2 DEF Touch, TypeOK
  <2>2. o.name = n /\ o.refs = refs(j) /\ o.body = value(j) /\ (at(j).op \in WithSecret => o.secret = value(j))
    OBVIOUS
  <2>3. at(j).op \in {"secret", "whole"} => at(j).op \in WithSecret
    BY DEF WithSecret
  <2> HIDE DEF o
  <2>4. Have(j, o) \/ Error(j)
    BY <1>2 DEF Answered
  <2>5. conf'[j] = conf[j]
    BY <2>4 DEF Have, Error, Pass, Proceed, End
  <2>6. Smooth(j) => named(n) = {}
    BY <1>1, <1>2 DEF OnceInv, MissingOK, Smooth
  <2>7. Smooth(j) => Stays(j) /\ \A s \in {at(j)} : s.op \in Referring => o.refs = keys(s.uses)'
    BY <1>1, <1>2, <2>2, <2>5, <2>6, CreateStays
  <2>8. ASSUME Smooth(j) PROVE AtDone(j)
    <3> SUFFICES ASSUME NEW s \in {at(j)} PROVE Done(j, s)'
      BY DEF AtDone
    <3>1. o \in named(s.obj)' /\ o.body = s.val[conf[j]]
      BY <1>2, <2>2 DEF named, value
    <3>2. s.op \in {"secret", "whole"} => o.secret = s.val[conf[j]]
      BY <2>2, <2>3 DEF value
    <3>3. s.op \in Referring => o.refs = keys(s.uses)'
      BY <2>7, <2>8
    <3>4. s.op \notin {"key", "check", "fill", "prune"}
      BY <1>1 DEF Creating
    <3> QED
      BY <2>5, <3>1, <3>2, <3>3, <3>4 DEF Done
  <2>9. CASE Have(j, o)
    <3>1. at(j).op # "list" /\ o \in objs'
      BY <1>1, <1>2 DEF Creating
    <3> QED
      BY <1>1, <2>1, <2>2, <2>7, <2>8, <2>9, <3>1, HasGot
  <2>10. CASE Error(j)
    BY <1>1, <2>1, <2>7, <2>10, ErrsOn
  <2> QED
    BY <2>4, <2>9, <2>10
<1>3. CASE Error(j) /\ UNCHANGED <<objs, disturbed>>
  BY <1>1, <1>3, RefusedInPlace
<1> QED
  BY <1>2, <1>3 DEF Post

LEMMA AddInPlace ==
    ASSUME ProvisionInv, OnceInv, NEW j \in Job, InPlaceOK(j), Add(j) PROVE InPlaceKept(j)
<1>1. TypeOK /\ OneOK /\ phase[j] \in Running /\ at(j).op = "add" /\ at(j) \in Steps
  BY LookingFacts, AtFacts DEF Add, ProvisionInv, OnceInv
<1> DEFINE n == at(j).obj
           o == [name |-> n, gen |-> born[n] + 1, body |-> 0, secret |-> 0, refs |-> refs(j)]
<1>2. ASSUME Touch(j, n), Answered(j, Pass(j)),
             Smooth(j) /\ conf'[j] = conf[j] =>
                Stays(j) /\ \A s \in {at(j)} : \E p \in objs' : p.name = n /\ p.refs = keys(s.uses)'
      PROVE  InPlaceKept(j)
  <2>1. disturbed'[j] = disturbed[j]
    BY <1>1, <1>2 DEF Touch, TypeOK
  <2>2. CASE Pass(j)
    <3>1. conf'[j] = conf[j]
      BY <2>2 DEF Pass, Proceed, End
    <3>2. ASSUME Smooth(j) PROVE AtDone(j)
      <4> SUFFICES ASSUME NEW s \in {at(j)} PROVE Done(j, s)'
        BY DEF AtDone
      <4>1. PICK p \in objs' : p.name = s.obj /\ p.refs = keys(s.uses)'
        BY <1>2, <3>1, <3>2
      <4>2. p \in named(s.obj)'
        BY <4>1 DEF named
      <4> QED
        BY <1>1, <4>1, <4>2 DEF Done
    <3> QED
      BY <1>1, <1>2, <2>1, <2>2, <3>1, <3>2, PassesOn DEF Gets, Getting
  <2>3. CASE Error(j)
    BY <1>1, <2>1, <2>3, ErrsOn
  <2> QED
    BY <1>2, <2>2, <2>3 DEF Answered
<1>3. CASE (\E p \in named(n) : p.refs = refs(j)) /\ UNCHANGED objs /\ Touch(j, n) /\ Answered(j, Pass(j))
  <2>1. ASSUME Smooth(j), conf'[j] = conf[j]
        PROVE  Stays(j) /\ \A s \in {at(j)} : \E p \in objs' : p.name = n /\ p.refs = keys(s.uses)'
    <3>1. Stays(j)
      BY <1>1, <1>3, <2>1, LookStays
    <3>2. \A N : keys(N)' = keys(N)
      BY <1>3 DEF keys
    <3>3. refs(j) = keys(at(j).uses)
      BY <1>1, <2>1, RefsAreKeys DEF Referring
    <3>4. PICK p \in objs' : p.name = n /\ p.refs = refs(j)
      BY <1>3 DEF named
    <3>5. \A s \in {at(j)} : refs(j) = keys(s.uses)'
      BY <3>2, <3>3
    <3> QED
      BY <3>1, <3>4, <3>5
  <2> QED
    BY <1>2, <1>3, <2>1
<1>4. CASE /\ exist(refs(j)) /\ ~ \E q \in named(n) : q.refs = refs(j)
           /\ objs' = objs \cup {o} /\ Touch(j, n) /\ Answered(j, Pass(j))
  <2>1. named(n) = {}
    BY <1>1, <1>4, AddsOnce
  <2>2. o.name = n /\ o.refs = refs(j)
    OBVIOUS
  <2> HIDE DEF o
  <2>3. ASSUME Smooth(j), conf'[j] = conf[j]
        PROVE  Stays(j) /\ \A s \in {at(j)} : \E p \in objs' : p.name = n /\ p.refs = keys(s.uses)'
    BY <1>1, <1>4, <2>1, <2>2, <2>3, CreateStays DEF Referring
  <2> QED
    BY <1>2, <1>4, <2>3
<1>5. CASE Error(j) /\ UNCHANGED <<objs, disturbed>>
  BY <1>1, <1>5, RefusedInPlace
<1> QED
  BY <1>3, <1>4, <1>5 DEF Add

-----------------------------------------------------------------------------
(* What a run that ends well leaves behind: requests that change something. *)

\* What a patch does to the objects.
Patched(j, target) == objs' = (objs \ target) \cup {sent(j, o) : o \in target}

\* The objects keep their names and keys, what is not sent they keep, and of
\* another name they stay as they are.
LEMMA PatchedFacts ==
    ASSUME TypeOK, NEW j \in Job, NEW target, target \subseteq named(at(j).obj), Patched(j, target)
    PROVE  /\ \A m : m # at(j).obj => Same(m)
           /\ \A N : keys(N)' = keys(N)
           /\ \A o \in objs : \E p \in objs' : p = o \/ (o \in target /\ p = sent(j, o))
           /\ \A p \in objs' : p \in objs \/ \E o \in target : p = sent(j, o)
<1>1. /\ target \subseteq objs
      /\ \A o \in target : /\ o.name = at(j).obj
                           /\ sent(j, o).name = o.name /\ pk(sent(j, o)) = pk(o)
  BY NamedFacts, SentFacts
<1>2. \A o \in objs : \E p \in objs' : p = o \/ (o \in target /\ p = sent(j, o))
  <2> SUFFICES ASSUME NEW o \in objs PROVE \E p \in objs' : p = o \/ (o \in target /\ p = sent(j, o))
    OBVIOUS
  <2>1. CASE o \in target
    <3>1. sent(j, o) \in objs'
      BY <2>1 DEF Patched
    <3> QED
      BY <2>1, <3>1
  <2>2. CASE o \notin target
    BY <2>2 DEF Patched
  <2> QED
    BY <2>1, <2>2
<1>3. \A p \in objs' : p \in objs \/ \E o \in target : p = sent(j, o)
  BY DEF Patched
<1>4. \A m : m # at(j).obj => Same(m)
  <2> SUFFICES ASSUME NEW m, m # at(j).obj PROVE \A p : p \in objs' /\ p.name = m <=> p \in objs /\ p.name = m
    BY DEF Same, named
  <2>1. \A p : p \in objs' /\ p.name = m => p \in objs
    BY <1>1, <1>3
  <2>2. \A p : p \in objs /\ p.name = m => p \in objs'
    BY <1>1 DEF Patched
  <2> QED
    BY <2>1, <2>2
<1>5. ASSUME NEW N PROVE keys(N)' = keys(N)
  <2>1. \A o \in objs : o.name \in N => \E p \in objs' : p.name \in N /\ pk(p) = pk(o)
    BY <1>1, <1>2
  <2>2. \A p \in objs' : p.name \in N => \E o \in objs : o.name \in N /\ pk(o) = pk(p)
    BY <1>1, <1>3
  <2> QED
    BY <2>1, <2>2 DEF keys
<1> QED
  BY <1>2, <1>3, <1>4, <1>5

\* No step changes what an earlier one has set.
LEMMA PatchStays ==
    ASSUME TypeOK, OneOK, NEW j \in Job, Smooth(j), InPlaceOK(j), conf'[j] = conf[j],
           phase[j] = "patch", at(j).op \in Updating,
           NEW target, target \subseteq named(at(j).obj), Patched(j, target)
    PROVE  Stays(j)
<1>1. /\ script[j] \in Script /\ step[j] \in 1 .. Len(Plan[script[j]]) /\ step[j] \in Nat
      /\ at(j) = Plan[script[j]][step[j]] /\ step[j] - 1 \in Nat /\ step[j] - 1 <= Len(Plan[script[j]])
      /\ Len(Plan[script[j]]) \in Nat
  BY AtFacts DEF at
<1>2. /\ \A m : m # at(j).obj => Same(m)
      /\ \A N : keys(N)' = keys(N)
      /\ \A o \in objs : \E p \in objs' : p = o \/ (o \in target /\ p = sent(j, o))
      /\ \A p \in objs' : p \in objs \/ \E o \in target : p = sent(j, o)
  BY PatchedFacts
<1>3. \A o \in target : o \in objs /\ o \in Object /\ o.name = at(j).obj
  BY NamedFacts
<1>4. ASSUME NEW s \in upTo(j, step[j] - 1) PROVE Done(j, s)'
  <2>1. s \in Steps /\ Done(j, s)
    BY <1>1, UpToFacts DEF InPlaceOK, Behind
  <2>2. PICK k \in 1 .. (step[j] - 1) : s = Plan[script[j]][k]
    BY DEF upTo
  <2>3. k \in 1 .. Len(Plan[script[j]]) /\ step[j] \in (k + 1) .. Len(Plan[script[j]])
    BY <1>1
  <2>4. CASE s.op = "prune"
    <3>1. at(j).obj \in Links => s.obj \notin at(j).uses
      <4>1. \A i \in (k + 1) .. Len(Plan[script[j]]) :
               Plan[script[j]][i].obj \in Links => s.obj \notin Plan[script[j]][i].uses
        BY <1>1, <2>2, <2>3, <2>4, InPlaceAssumption
      <4> QED
        BY <1>1, <2>3, <4>1
    <3>2. at(j).obj \in Links => refs(j) \cap keys({s.obj}) = {}
      BY <3>1 DEF refs, keys, pk
    <3>3. ASSUME NEW p \in objs', p.name \in Links, p.refs \cap keys({s.obj}) # {}
          PROVE  \E q \in objs : q.name \in Links /\ q.refs = p.refs
      <4>1. CASE p \in objs
        BY <3>3, <4>1
      <4>2. ASSUME NEW o \in target, p = sent(j, o) PROVE \E q \in objs : q.name \in Links /\ q.refs = p.refs
        <5>1. o \in objs /\ p.name = o.name /\ o.name = at(j).obj
          BY <1>3, <4>2, SentFacts
        <5>2. p.refs = refs(j) \/ p.refs = o.refs
          BY <1>3, <4>2, SentFacts
        <5> QED
          BY <3>2, <3>3, <5>1, <5>2
      <4> QED
        BY <1>2, <4>1, <4>2
    <3> QED
      BY <1>2, <2>1, <2>4, <3>3, PrunedAsBefore
  <2>5. CASE s.op # "prune" /\ s.obj # at(j).obj
    BY <1>2, <2>1, <2>5, DoneAsBefore
  <2>6. CASE s.op # "prune" /\ s.obj = at(j).obj
    <3>1. \/ s.op \in {"need", "make", "try", "loose", "list"}
          \/ at(j).op = "key" /\ s.op \notin {"secret", "whole", "key", "check"}
      BY <1>1, <2>2, <2>3, <2>6, InPlaceAssumption
    <3>2. CASE s.op \in {"need", "make", "try", "loose", "list"}
      <4>1. named(s.obj) # {} => named(s.obj)' # {}
        <5>1. named(s.obj)' # {} <=> keys({s.obj})' # {}
          BY DEF named, keys
        <5>2. named(s.obj) # {} <=> keys({s.obj}) # {}
          BY DEF named, keys
        <5> QED
          BY <1>2, <5>1, <5>2
      <4> QED
        BY <2>1, <3>2, <4>1 DEF Done, Referring
    <3>3. CASE at(j).op = "key" /\ s.op \notin {"secret", "whole", "key", "check"}
      <4>1. seen[j].fields = {"secret"}
        BY <3>3 DEF InPlaceOK, Sending
      <4>2. \A o \in target : /\ sent(j, o).name = o.name /\ sent(j, o).refs = o.refs
                              /\ sent(j, o).body = o.body
        BY <1>3, <4>1 DEF sent, Object
      <4>3. \A o \in named(s.obj) : \E p \in named(s.obj)' : p.refs = o.refs /\ p.body = o.body
        <5> SUFFICES ASSUME NEW o \in objs, o.name = s.obj
                     PROVE  \E p \in objs' : p.name = s.obj /\ p.refs = o.refs /\ p.body = o.body
          BY DEF named
        <5> QED
          BY <1>2, <4>2
      <4> QED
        BY <1>2, <2>1, <2>6, <3>3, <4>3 DEF Done
    <3> QED
      BY <3>1, <3>2, <3>3
  <2> QED
    BY <2>4, <2>5, <2>6
<1>5. at(j).obj \notin lookups(j, step[j] + 1)
  <2>1. at(j).op \notin {"list", "need", "check"}
    BY DEF Updating
  <2> QED
    BY <2>1, NotLookedUp
<1>6. \A p \in named(at(j).obj) : \E q \in objs' : q.name = at(j).obj /\ q.gen = p.gen
  BY <1>2, <1>3, SentFacts DEF named, pk
<1>7. \A n \in {at(j).obj} : \A p \in named(n) : \E q \in named(n)' : q.gen = p.gen
  BY <1>6 DEF named
<1> QED
  BY <1>2, <1>4, <1>5, <1>7, OwnStays

\* What is sent makes up for what the object lacked.
LEMMA PatchDone ==
    ASSUME TypeOK, OneOK, NEW j \in Job, Smooth(j), InPlaceOK(j), conf'[j] = conf[j],
           phase[j] = "patch", at(j).op \in Updating, NEW target, target # {},
           target = {o \in named(at(j).obj) : o.gen = seen[j].gen}, Patched(j, target)
    PROVE  AtDone(j)
<1>1. Sending(j) /\ \A N : keys(N)' = keys(N)
  BY PatchedFacts DEF InPlaceOK
<1> SUFFICES ASSUME NEW s \in {at(j)} PROVE Done(j, s)'
  BY DEF AtDone
<1>2. \A o \in target : o \in Object /\ sent(j, o).name = s.obj /\ sent(j, o) \in objs'
  BY NamedFacts, SentFacts DEF Patched
<1>3. \A o \in target : sent(j, o) \in named(s.obj)'
  BY <1>2 DEF named
<1>4. CASE s.op = "key"
  <2>1. "secret" \in seen[j].fields
    BY <1>1, <1>4 DEF Sending
  <2>2. ASSUME NEW o \in target PROVE sent(j, o).secret = s.val[conf[j]]
    <3>1. o \in Object
      BY <1>2
    <3> QED
      BY <2>1, <3>1 DEF sent, Object, value
  <2>3. \E p \in named(s.obj)' : p.secret = s.val[conf[j]]
    BY <1>3, <2>2
  <2> QED
    BY <1>4, <2>3 DEF Done, Referring
<1>5. CASE s.op = "fill"
  <2>1. \A o \in target : sent(j, o).refs # {}
    BY <1>1, <1>2, <1>5, SentFacts DEF Sending
  <2>2. \E p \in named(s.obj)' : p.refs # {}
    BY <1>3, <2>1
  <2> QED
    BY <1>5, <2>2 DEF Done, Referring
<1>6. CASE s.op \in {"ensure", "secret", "whole", "tile", "entry", "link"}
  <2>1. PICK o \in target : seen[j].fields = changed(j, o)
    BY <1>1, <1>6 DEF Sending
  <2>2. o \in Object /\ sent(j, o) \in named(s.obj)'
    BY <1>2, <1>3
  <2>3. sent(j, o).body = s.val[conf[j]]
    <3>1. o.body # value(j) => "body" \in changed(j, o)
      BY DEF changed, Field
    <3> QED
      BY <2>1, <2>2, <3>1 DEF sent, Object, value
  <2>4. s.op \in {"secret", "whole"} => sent(j, o).secret = s.val[conf[j]]
    <3>1. s.op \in {"secret", "whole"} => "secret" \in changed(j, o)
      BY DEF changed, Field
    <3> QED
      BY <2>1, <2>2, <3>1 DEF sent, Object, value
  <2>5. s.op \in Referring => sent(j, o).refs = keys(s.uses)'
    <3>1. s.op # "tile" /\ o.refs # refs(j) => "refs" \in changed(j, o)
      BY DEF changed, Field
    <3>2. s.op \in Referring => sent(j, o).refs = refs(j)
      BY <2>1, <2>2, <3>1, SentFacts DEF Referring
    <3>3. s.op \in Referring => refs(j) = keys(s.uses)
      BY RefsAreKeys
    <3> QED
      BY <1>1, <3>2, <3>3
  <2> QED
    BY <1>6, <2>2, <2>3, <2>4, <2>5 DEF Done
<1> QED
  BY <1>4, <1>5, <1>6 DEF Updating

LEMMA PatchInPlace ==
    ASSUME ProvisionInv, OnceInv, NEW j \in Job, InPlaceOK(j), Patch(j) PROVE InPlaceKept(j)
<1>1. TypeOK /\ OneOK /\ phase[j] = "patch" /\ phase[j] \in Running /\ at(j).op \in Updating
  BY DEF Patch, ProvisionInv, RunOK, OnceInv, Running
<1>2. at(j).op \notin {"list", "try"}
  BY <1>1 DEF Updating
<1> DEFINE target == {o \in named(at(j).obj) : o.gen = seen[j].gen}
<1>3. CASE /\ target # {} /\ Patched(j, target) /\ Touch(j, at(j).obj)
           /\ Answered(j, \E o \in target : Have(j, o))
  <2>1. disturbed'[j] = disturbed[j]
    BY <1>1, <1>3 DEF Touch, TypeOK
  <2>2. ASSUME NEW o \in target, Have(j, o) PROVE InPlaceKept(j)
    <3>1. conf'[j] = conf[j]
      BY <2>2 DEF Have, Proceed, End
    <3>2. o.name = at(j).obj /\ \E p \in objs' : pk(p) = pk(o)
      <4>1. o \in Object /\ o.name = at(j).obj
        BY <1>1, NamedFacts
      <4>2. sent(j, o) \in objs'
        BY <1>3 DEF Patched
      <4> QED
        BY <1>1, <4>1, <4>2, SentFacts
    <3>3. Smooth(j) => Stays(j) /\ AtDone(j)
      BY <1>1, <1>3, <3>1, PatchStays, PatchDone
    <3> QED
      BY <1>1, <1>2, <2>1, <2>2, <3>2, <3>3, HasGot
  <2>3. CASE Error(j)
    BY <1>1, <1>2, <2>1, <2>3, ErrsOn
  <2> QED
    BY <1>3, <2>2, <2>3 DEF Answered
<1>4. CASE Error(j) /\ UNCHANGED <<objs, disturbed>>
  BY <1>1, <1>4, RefusedInPlace
<1> QED
  BY <1>3, <1>4 DEF Patch, Patched

-----------------------------------------------------------------------------
(* What a run that ends well leaves behind: links that are pruned.          *)

\* What a run prunes refers to nothing that its step wants.
LEMMA UnwantedFacts ==
    ASSUME TypeOK, OneOK, NEW j \in Job, Smooth(j), InPlaceOK(j), at(j).op = "prune",
           NEW o \in unwanted(j)
    PROVE  /\ o \in objs /\ o.name \in Links /\ o.refs \cap keys(at(j).uses) = {}
           /\ o.refs \cap keys({at(j).obj}) # {}
<1>1. refs(j) = keys(at(j).uses) /\ keys({at(j).obj}) = {<<at(j).obj, known[j][at(j).obj]>>}
  BY RefsAreKeys
<1> QED
  BY <1>1 DEF unwanted

\* Of the links that steps before a prune name, it deletes none they have made.
LEMMA BeforePrune ==
    ASSUME NEW x \in Script, NEW i \in 1 .. Len(Plan[x]), Plan[x][i].op = "prune",
           NEW k \in 1 .. (i - 1), Plan[x][k].obj \in Links
    PROVE  /\ Plan[x][k].op \in Referring \cup {"try", "list", "prune"}
           /\ Plan[x][i].obj \in Plan[x][k].uses => Plan[x][i].uses \cap Plan[x][k].uses # {}
BY InPlaceAssumption

\* What an earlier step has made is not pruned.
LEMMA WantedStays ==
    ASSUME TypeOK, OneOK, NEW j \in Job, Smooth(j), InPlaceOK(j), at(j).op = "prune",
           NEW s \in upTo(j, step[j] - 1), s.obj \in Links,
           NEW o \in objs, o.name = s.obj, o.refs = keys(s.uses)
    PROVE  o \notin unwanted(j)
<1>1. /\ script[j] \in Script /\ step[j] \in 1 .. Len(Plan[script[j]]) /\ at(j) = Plan[script[j]][step[j]]
      /\ step[j] \in Nat /\ Len(Plan[script[j]]) \in Nat
  BY AtFacts DEF at
<1>2. PICK k \in 1 .. (step[j] - 1) : s = Plan[script[j]][k]
  BY DEF upTo
<1>3. at(j).obj \in s.uses => at(j).uses \cap s.uses # {}
  BY <1>1, <1>2, BeforePrune
<1> SUFFICES ASSUME o \in unwanted(j) PROVE FALSE
  OBVIOUS
<1> QED
  <2>1. o.refs \cap keys(at(j).uses) = {} /\ o.refs \cap keys({at(j).obj}) # {}
    BY UnwantedFacts
  <2>2. at(j).obj \in s.uses
    BY <2>1 DEF keys, pk
  <2>3. PICK m \in at(j).uses : m \in s.uses
    BY <1>3, <2>2
  <2>4. at(j) \in upTo(j, step[j])
    BY <1>1 DEF upTo
  <2>5. PICK p \in objs : p.name = m
    BY <2>3, <2>4, UsesThere DEF named
  <2>6. pk(p) \in keys(at(j).uses) /\ pk(p) \in o.refs
    BY <2>3, <2>5 DEF keys
  <2> QED
    BY <2>1, <2>6

\* A link less: the run goes on with the others.
LEMMA DropsOn ==
    ASSUME ProvisionInv, OneOK, NEW j \in Job, InPlaceOK(j), phase[j] = "prune",
           NEW o \in listed[j], objs' = {q \in objs : pk(q) # pk(o)}, disturbed'[j] = disturbed[j],
           listed' = [listed EXCEPT ![j] = @ \ {o}],
           UNCHANGED <<script, conf, phase, step, known, seen, errors>>
    PROVE  InPlaceKept(j)
<1>1. TypeOK /\ at(j).op = "prune" /\ o.name \in Links /\ listed'[j] = listed[j] \ {o}
  BY DEF ProvisionInv, RunOK, TypeOK
<1>2. /\ script[j] \in Script /\ step[j] \in 1 .. Len(Plan[script[j]]) /\ step[j] \in Nat
      /\ step[j] - 1 \in Nat /\ step[j] - 1 <= Len(Plan[script[j]])
  BY <1>1, AtFacts
<1>3. Left(j)' /\ Sending(j)'
  BY DEF Left, Sending
<1>4. /\ at(j)' = at(j) /\ refs(j)' = refs(j) /\ (step[j] - 1)' = step[j] - 1
      /\ \A i : upTo(j, i)' = upTo(j, i)
  BY DEF at, refs, upTo
<1>5. \A m : m # o.name => Same(m)
  BY DEF Same, named, pk
<1>6. \A N : N \cap Links = {} => keys(N)' = keys(N)
  BY <1>1, <1>5, KeysSame
<1>7. ASSUME Smooth(j)' PROVE Behind(j)' /\ Keyed(j)' /\ Ahead(j)' /\ Pruning(j)'
  <2>1. Smooth(j)
    BY <1>7 DEF Smooth
  <2>2. Behind(j) /\ Keyed(j) /\ listed[j] = unwanted(j) /\ o \in objs
    BY <2>1 DEF InPlaceOK, Pruning, unwanted
  <2>3. \A q \in objs : q \in objs' <=> q # o
    BY <2>2, OneKey
  <2>4. ASSUME NEW s \in upTo(j, step[j] - 1) PROVE Done(j, s)'
    <3>1. s \in Steps /\ Done(j, s)
      BY <1>2, <2>2, UpToFacts DEF Behind
    <3>2. s \in upTo(j, step[j])
      BY <1>2 DEF upTo
    <3>3. s.op \in Referring \cup {"prune"} => keys(s.uses)' = keys(s.uses)
      <4>1. s.op \in Referring \cup {"prune"} => s.uses \cap Links = {}
        BY <1>1, <2>1, <3>2, UsesThere
      <4> QED
        BY <1>6, <4>1
    <3>4. CASE s.op = "prune"
      <4>1. keys({s.obj})' = keys({s.obj})
        <5>1. s.obj \notin Links
          BY <1>1, <2>1, <3>2, <3>4, UsesThere
        <5> QED
          BY <1>6, <5>1
      <4> QED
        BY <3>1, <3>3, <3>4, <4>1, PrunedAsBefore
    <3>5. CASE s.op # "prune" /\ s.obj # o.name
      BY <1>5, <3>1, <3>3, <3>5, DoneAsBefore
    <3>6. CASE s.op # "prune" /\ s.obj = o.name
      <4>1. s.op \in Referring \cup {"try", "list"}
        <5>1. /\ script[j] \in Script /\ step[j] \in 1 .. Len(Plan[script[j]])
              /\ at(j) = Plan[script[j]][step[j]]
          BY <1>2 DEF at
        <5>2. PICK k \in 1 .. (step[j] - 1) : s = Plan[script[j]][k]
          BY DEF upTo
        <5> QED
          BY <1>1, <3>6, <5>1, <5>2, BeforePrune
      <4>2. ASSUME s.op \in Referring, NEW p \in named(s.obj), p.refs = keys(s.uses)
            PROVE  p \in named(s.obj)'
        <5>1. p \in objs /\ p.name = s.obj
          BY <4>2 DEF named
        <5>2. p \notin unwanted(j)
          BY <1>1, <2>1, <3>6, <4>2, <5>1, WantedStays
        <5> QED
          BY <2>2, <2>3, <5>1, <5>2 DEF named
      <4> QED
        BY <3>1, <3>3, <3>6, <4>1, <4>2 DEF Done, Referring
    <3> QED
      BY <3>4, <3>5, <3>6
  <2>5. Behind(j)'
    BY <1>4, <2>2, <2>4 DEF Behind
  <2>6. Keyed(j)'
    BY <1>1, <1>5, <2>2 DEF Keyed, Same
  <2>7. Ahead(j)'
    BY <1>1, <1>4, PruneBeforeList DEF Ahead, hasListed
  <2>8. Pruning(j)'
    BY <1>1, <1>4, <2>2, <2>3 DEF Pruning, unwanted
  <2> QED
    BY <2>5, <2>6, <2>7, <2>8
<1> QED
  BY <1>3, <1>7 DEF InPlaceKept, InPlaceOK

LEMMA DropInPlace ==
    ASSUME ProvisionInv, OnceInv, NEW j \in Job, InPlaceOK(j), Drop(j) PROVE InPlaceKept(j)
<1>1. TypeOK /\ OneOK /\ phase[j] = "prune" /\ phase[j] \in Running /\ at(j).op = "prune" /\ at(j) \in Steps
  BY AtFacts DEF Drop, ProvisionInv, RunOK, OnceInv, Running
<1>2. CASE listed[j] = {} /\ Pass(j) /\ UNCHANGED <<objs, disturbed>>
  <2>1. conf'[j] = conf[j]
    BY <1>2 DEF Pass, Proceed, End
  <2>2. ASSUME Smooth(j) PROVE Done(j, at(j))
    <3>1. unwanted(j) = {}
      BY <1>1, <1>2, <2>2 DEF InPlaceOK, Pruning
    <3>2. refs(j) = keys(at(j).uses) /\ keys({at(j).obj}) = {<<at(j).obj, known[j][at(j).obj]>>}
      BY <1>1, <2>2, RefsAreKeys
    <3> QED
      BY <1>1, <3>1, <3>2 DEF Done, unwanted, Referring
  <2>3. Smooth(j) => Stays(j) /\ AtDone(j)
    BY <1>1, <1>2, <2>1, <2>2, LookStays DEF AtDone
  <2> QED
    BY <1>1, <1>2, <2>3, PassesOn DEF Gets, Getting
<1>3. CASE Error(j) /\ disturbed'[j] = disturbed[j]
  BY <1>1, <1>3, ErrsOn
<1>4. ASSUME NEW o \in listed[j], objs' = {q \in objs : pk(q) # pk(o)}, Touch(j, o.name),
             Answered(j, /\ listed' = [listed EXCEPT ![j] = @ \ {o}]
                         /\ UNCHANGED <<script, conf, phase, step, known, seen, errors>>)
      PROVE  InPlaceKept(j)
  <2>1. disturbed'[j] = disturbed[j]
    BY <1>1, <1>4 DEF Touch, TypeOK
  <2>2. CASE Error(j)
    BY <1>3, <2>1, <2>2
  <2>3. CASE /\ listed' = [listed EXCEPT ![j] = @ \ {o}]
             /\ UNCHANGED <<script, conf, phase, step, known, seen, errors>>
    BY <1>1, <1>4, <2>1, <2>3, DropsOn
  <2> QED
    BY <1>4, <2>2, <2>3 DEF Answered
<1>5. ASSUME NEW o \in listed[j], Error(j), UNCHANGED <<objs, events, disturbed, shared>> PROVE InPlaceKept(j)
  BY <1>3, <1>5
<1> QED
  BY <1>2, <1>4, <1>5 DEF Drop

-----------------------------------------------------------------------------
(* What a run that ends well leaves behind: all the actions.                *)

\* Only the run of j takes a step.
Alone(j) == \A i \in Job \ {j} : WholeRun(i)

\* Whatever a run does, the other runs are where they were.
LEMMA EndAlone == ASSUME TypeOK, NEW j \in Job, NEW p, End(j, p) PROVE Alone(j)
BY DEF TypeOK, End, Alone, WholeRun, SameRun

LEMMA ProceedAlone ==
    ASSUME TypeOK, NEW j \in Job, NEW k, NEW l, NEW failed, Proceed(j, k, l, failed) PROVE Alone(j)
BY EndAlone DEF TypeOK, Proceed, Alone, WholeRun, SameRun

LEMMA PassAlone == ASSUME TypeOK, NEW j \in Job, NEW o, Pass(j) \/ Have(j, o) PROVE Alone(j)
BY ProceedAlone DEF Pass, Have

LEMMA ErrorAlone == ASSUME TypeOK, NEW j \in Job, Error(j) PROVE Alone(j)
BY PassAlone, ProceedAlone, EndAlone DEF Error

LEMMA WriteAlone ==
    ASSUME TypeOK, NEW j \in Job, NEW p, NEW g, NEW F, Write(j, p, g, F) PROVE Alone(j)
BY DEF TypeOK, Write, Alone, WholeRun, SameRun

LEMMA LooksAlone ==
    ASSUME TypeOK, NEW j \in Job,
           Need(j) \/ Make(j) \/ Ensure(j) \/ SetKey(j) \/ Fill(j) \/ Check(j)
              \/ List(j) \/ Entry(j) \/ Prune(j)
    PROVE  Alone(j) /\ UNCHANGED <<objs, disturbed>>
<1>1. \A o : Update(j, o) => Alone(j)
  BY PassAlone, WriteAlone DEF Update
<1>2. Create(j) => Alone(j)
  BY WriteAlone DEF Create
<1>3. CASE Need(j) \/ Make(j) \/ Ensure(j) \/ Check(j) \/ Entry(j)
  BY <1>1, <1>2, <1>3, PassAlone, ErrorAlone DEF Need, Make, Ensure, Check, Entry, application
<1>4. CASE SetKey(j) \/ List(j)
  BY <1>4, WriteAlone, ProceedAlone DEF SetKey, List, application
<1>5. CASE Fill(j)
  <2>1. CASE Pass(j) \/ Error(j)
    BY <1>5, <2>1, PassAlone, ErrorAlone DEF Fill, application
  <2>2. ASSUME NEW o, NEW d, phase' = [phase EXCEPT ![j] = "patch"],
               seen' = [seen EXCEPT ![j] = [gen |-> o.gen, fields |-> {"refs"}]],
               known' = [known EXCEPT ![j] = have(j, d)],
               UNCHANGED <<script, conf, step, listed, errors>>
        PROVE  Alone(j)
    BY <2>2 DEF TypeOK, Alone, WholeRun, SameRun
  <2> QED
    BY <1>5, <2>1, <2>2 DEF Fill, application
<1>6. CASE Prune(j)
  BY <1>6 DEF Prune, application, TypeOK, Alone, WholeRun, SameRun
<1> QED
  BY <1>3, <1>4, <1>5, <1>6

\* A request changes objects of one name only, and other runs that name it notice.
Touches(j) == UNCHANGED <<objs, disturbed>> \/ \E n : Touch(j, n) /\ \A m : m # n => Same(m)

\* A new object of one name disturbs those who name it.
LEMMA GrowTouches ==
    ASSUME NEW j \in Job, NEW n, Touch(j, n), NEW o, o.name = n, objs' = objs \cup {o} PROVE Touches(j)
<1>1. \A m : m # n => Same(m)
  BY DEF Same, named
<1> QED
  BY <1>1 DEF Touches

\* A request changes what its step names, and disturbs the others who name it.
LEMMA RequestsAlone ==
    ASSUME TypeOK, NEW j \in Job, Post(j) \/ Patch(j) \/ Add(j) \/ Drop(j)
    PROVE  Alone(j) /\ Touches(j)
<1>1. CASE Post(j)
  <2> DEFINE n == at(j).obj
             o == [name |-> n, gen |-> born[n] + 1, body |-> value(j),
                   secret |-> IF at(j).op \in WithSecret THEN value(j) ELSE 0, refs |-> refs(j)]
  <2>1. Have(j, o) \/ Error(j)
    BY <1>1 DEF Post, Answered
  <2>2. (Touch(j, n) /\ objs' = objs \cup {o}) \/ UNCHANGED <<objs, disturbed>>
    BY <1>1 DEF Post
  <2>3. o.name = n
    OBVIOUS
  <2> HIDE DEF o, n
  <2> QED
    BY <2>1, <2>2, <2>3, PassAlone, ErrorAlone, GrowTouches DEF Touches
<1>2. CASE Patch(j)
  <2> DEFINE target == {o \in named(at(j).obj) : o.gen = seen[j].gen}
  <2>1. Error(j) \/ \E o \in target : Have(j, o)
    BY <1>2 DEF Patch, Answered
  <2>2. (Touch(j, at(j).obj) /\ Patched(j, target)) \/ UNCHANGED <<objs, disturbed>>
    BY <1>2 DEF Patch, Patched
  <2>3. target \subseteq named(at(j).obj)
    OBVIOUS
  <2> HIDE DEF target
  <2> QED
    BY <2>1, <2>2, <2>3, PassAlone, ErrorAlone, PatchedFacts DEF Touches
<1>3. CASE Add(j)
  <2> DEFINE n == at(j).obj
             o == [name |-> n, gen |-> born[n] + 1, body |-> 0, secret |-> 0, refs |-> refs(j)]
  <2>1. Pass(j) \/ Error(j)
    BY <1>3 DEF Add, Answered
  <2>2. \/ Touch(j, n) /\ (objs' = objs \cup {o} \/ UNCHANGED objs)
        \/ UNCHANGED <<objs, disturbed>>
    BY <1>3 DEF Add
  <2>3. o.name = n
    OBVIOUS
  <2>4. UNCHANGED objs => \A m : Same(m)
    BY DEF Same, named
  <2> HIDE DEF o, n
  <2> QED
    BY <2>1, <2>2, <2>3, <2>4, PassAlone, ErrorAlone, GrowTouches DEF Touches
<1>4. CASE Drop(j)
  <2>1. CASE (Pass(j) \/ Error(j)) /\ UNCHANGED <<objs, disturbed>>
    BY <2>1, PassAlone, ErrorAlone DEF Touches
  <2>2. ASSUME NEW o \in listed[j], objs' = {q \in objs : pk(q) # pk(o)}, Touch(j, o.name),
               Answered(j, /\ listed' = [listed EXCEPT ![j] = @ \ {o}]
                           /\ UNCHANGED <<script, conf, phase, step, known, seen, errors>>)
        PROVE  Alone(j) /\ Touches(j)
    <3>1. \A m : m # o.name => Same(m)
      BY <2>2 DEF Same, named, pk
    <3>2. CASE Error(j)
      BY <2>2, <3>1, <3>2, ErrorAlone DEF Touches
    <3>3. CASE /\ listed' = [listed EXCEPT ![j] = @ \ {o}]
               /\ UNCHANGED <<script, conf, phase, step, known, seen, errors>>
      BY <2>2, <3>1, <3>3 DEF Touches, TypeOK, Alone, WholeRun, SameRun
    <3> QED
      BY <2>2, <3>2, <3>3 DEF Answered
  <2> QED
    BY <1>4, <2>1, <2>2 DEF Drop
<1> QED
  BY <1>1, <1>2, <1>3, <1>4

\* What the others rely on stays.
LEMMA InPlaceStep ==
    ASSUME ProvisionInv, InPlaceInv, NEW j \in Job, Alone(j), InPlaceKept(j),
           \A i \in Job \ {j} : /\ disturbed[i] => disturbed'[i]
                                /\ phase[i] # "idle" /\ ~disturbed'[i] => Unmoved(i)
    PROVE  InPlaceInv'
<1>1. ASSUME NEW i \in Job PROVE InPlaceOK(i)' /\ Left(i)'
  <2>1. CASE i = j
    BY <2>1 DEF InPlaceKept
  <2>2. CASE i # j
    <3>1. TypeOK /\ RunOK(i) /\ InPlaceOK(i) /\ Left(i) /\ WholeRun(i)
      BY <2>2 DEF ProvisionInv, InPlaceInv, ExitMeansInPlace, Left, Alone
    <3> QED
      BY <2>2, <3>1, InPlaceStays
  <2> QED
    BY <2>1, <2>2
<1> QED
  BY <1>1 DEF InPlaceInv, ExitMeansInPlace, Left

\* The actions that change nothing of the application keep the invariant.
LEMMA LooksInPlace ==
    ASSUME ProvisionInv, OnceInv, InPlaceInv, NEW j \in Job,
           Need(j) \/ Make(j) \/ Ensure(j) \/ SetKey(j) \/ Fill(j) \/ Check(j)
              \/ List(j) \/ Entry(j) \/ Prune(j)
    PROVE  InPlaceInv'
<1>1. TypeOK /\ OneOK /\ InPlaceOK(j)
  BY DEF ProvisionInv, OnceInv, InPlaceInv
<1>2. Alone(j) /\ UNCHANGED <<objs, disturbed>>
  BY <1>1, LooksAlone
<1>3. InPlaceKept(j)
  BY <1>1, NeedInPlace, MakeInPlace, EnsureInPlace, SetKeyInPlace, FillInPlace, CheckInPlace,
     ListInPlace, EntryInPlace, PruneInPlace
<1>4. \A i : Unmoved(i)
  BY <1>2 DEF Unmoved, Same, named
<1> QED
  BY <1>2, <1>3, <1>4, InPlaceStep

\* So do the requests that change it.
LEMMA RequestsInPlace ==
    ASSUME ProvisionInv, OnceInv, InPlaceInv, NEW j \in Job, Post(j) \/ Patch(j) \/ Add(j) \/ Drop(j)
    PROVE  InPlaceInv'
<1>1. TypeOK /\ InPlaceOK(j)
  BY DEF ProvisionInv, InPlaceInv
<1>2. Alone(j) /\ Touches(j)
  BY <1>1, RequestsAlone
<1>3. InPlaceKept(j)
  BY <1>1, PostInPlace, PatchInPlace, AddInPlace, DropInPlace
<1>4. CASE UNCHANGED <<objs, disturbed>>
  <2>1. \A i : Unmoved(i)
    BY <1>4 DEF Unmoved, Same, named
  <2> QED
    BY <1>2, <1>3, <1>4, <2>1, InPlaceStep
<1>5. ASSUME NEW n, Touch(j, n), \A m : m # n => Same(m) PROVE InPlaceInv'
  <2>1. ASSUME NEW i \in Job \ {j}
        PROVE  /\ disturbed[i] => disturbed'[i]
               /\ phase[i] # "idle" /\ ~disturbed'[i] => Unmoved(i)
    <3>1. disturbed'[i] = (disturbed[i] \/ (i # j /\ phase[i] # "idle" /\ n \in names[script[i]]))
      BY <1>5 DEF Touch
    <3> QED
      BY <1>5, <3>1 DEF Unmoved
  <2> QED
    BY <1>2, <1>3, <2>1, InPlaceStep
<1> QED
  BY <1>2, <1>4, <1>5 DEF Touches

\* A run begins with no step behind it.
LEMMA BeginInPlace ==
    ASSUME ProvisionInv, InPlaceInv, NEW j \in Job, Start(j) \/ Rerun(j) PROVE InPlaceInv'
<1>1. TypeOK /\ phase[j] \notin Running /\ step[j] = 1 /\ DOMAIN known[j] = {}
  BY DEF ProvisionInv, Start, Rerun, RunOK, Running
<1>2. PICK x, c : Begin(j, x, c)
  BY DEF Start, Rerun
<1>3. /\ UNCHANGED <<objs, step, known, seen, listed, errors>> /\ phase'[j] = "look"
      /\ Alone(j) /\ \A i \in Job \ {j} : disturbed'[i] = disturbed[i]
  BY <1>1, <1>2 DEF Begin, TypeOK, Alone, WholeRun, SameRun
<1>4. \A s : s \notin upTo(j, step[j] - 1)'
  BY <1>1, <1>3 DEF upTo
<1>5. Behind(j)' /\ Keyed(j)' /\ Ahead(j)' /\ Sending(j)' /\ Pruning(j)' /\ Left(j)'
  BY <1>1, <1>3, <1>4 DEF Behind, Keyed, Ahead, hasListed, Sending, Pruning, Left
<1>6. InPlaceKept(j) /\ \A i : Unmoved(i)
  BY <1>3, <1>5 DEF InPlaceKept, InPlaceOK, Unmoved, Same, named
<1> QED
  BY <1>3, <1>6, InPlaceStep

\* After a failure a run is over, has an error, or has passed a step that may fail.
LEMMA FailureInPlace ==
    ASSUME ProvisionInv, InPlaceInv, NEW j \in Job, Failure(j) PROVE InPlaceInv'
<1>1. TypeOK /\ phase[j] \in Running /\ UNCHANGED <<objs, disturbed>> /\ InPlaceOK(j)
  BY DEF Failure, ProvisionInv, InPlaceInv
<1>2. Error(j) \/ End(j, "failed")
  BY DEF Failure
<1>3. Alone(j) /\ InPlaceKept(j)
  BY <1>1, <1>2, ErrorAlone, EndAlone, RefusedInPlace, EndsBadly
<1>4. \A i : Unmoved(i)
  BY <1>1 DEF Unmoved, Same, named
<1> QED
  BY <1>1, <1>3, <1>4, InPlaceStep

\* What is changed by hand disturbs the runs that name it.
LEMMA HandInPlace ==
    ASSUME ProvisionInv, InPlaceInv, UNCHANGED run, NEW N, \A m : m \notin N => Same(m),
           \A i \in Job : disturbed'[i] = (disturbed[i] \/ (phase[i] # "idle" /\ N \cap names[script[i]] # {}))
    PROVE  InPlaceInv'
<1>1. ASSUME NEW i \in Job PROVE InPlaceOK(i)' /\ Left(i)'
  <2>1. TypeOK /\ RunOK(i) /\ InPlaceOK(i) /\ Left(i) /\ WholeRun(i)
    BY DEF ProvisionInv, InPlaceInv, ExitMeansInPlace, Left, WholeRun, SameRun, run
  <2>2. phase[i] # "idle" /\ ~disturbed'[i] => Unmoved(i)
    BY DEF Unmoved
  <2> QED
    BY <2>1, <2>2, InPlaceStays
<1> QED
  BY <1>1 DEF InPlaceInv, ExitMeansInPlace, Left

\* Changes by hand disturb every run that names what they change.
LEMMA EditInPlace == ASSUME ProvisionInv, InPlaceInv, Edit PROVE InPlaceInv'
<1>1. PICK o \in objs, f \in Field :
         /\ objs' = (objs \ {o}) \cup
               {CASE f = "body" -> [o EXCEPT !.body = 0]
                  [] f = "secret" -> [o EXCEPT !.secret = 0]
                  [] OTHER -> [o EXCEPT !.refs = {}]}
         /\ ByHand({o.name})
  BY DEF Edit
<1>2. o \in Object
  BY DEF ProvisionInv, TypeOK
<1>3. PICK e : objs' = (objs \ {o}) \cup {e} /\ e.name = o.name
  <2> DEFINE e == CASE f = "body" -> [o EXCEPT !.body = 0]
                    [] f = "secret" -> [o EXCEPT !.secret = 0]
                    [] OTHER -> [o EXCEPT !.refs = {}]
  <2>1. e.name = o.name
    BY <1>2 DEF Object
  <2>2. objs' = (objs \ {o}) \cup {e}
    BY <1>1
  <2> QED
    BY <2>1, <2>2
<1>4. \A m : m \notin {o.name} => Same(m)
  BY <1>3 DEF Same, named
<1> QED
  BY <1>1, <1>4, HandInPlace DEF ByHand

LEMMA DeleteInPlace == ASSUME ProvisionInv, InPlaceInv, Delete PROVE InPlaceInv'
<1>1. PICK o \in objs :
         LET hit == {q \in objs : pk(o) \in q.refs}
         IN  /\ objs' = (objs \ ({o} \cup hit)) \cup
                   {[q EXCEPT !.refs = @ \ {pk(o)}] : q \in {r \in hit : r.name \notin Links}}
             /\ ByHand({q.name : q \in {o} \cup hit})
  BY DEF Delete
<1> DEFINE hit == {q \in objs : pk(o) \in q.refs}
           cut(q) == [q EXCEPT !.refs = @ \ {pk(o)}]
           N == {q.name : q \in {o} \cup hit}
<1>2. \A q \in objs : cut(q).name = q.name
  BY DEF ProvisionInv, TypeOK, Object
<1>3. objs' = (objs \ ({o} \cup hit)) \cup {cut(q) : q \in {r \in hit : r.name \notin Links}} /\ ByHand(N)
  BY <1>1
<1> HIDE DEF cut
<1>4. \A q \in {o} \cup hit : q.name \in N
  OBVIOUS
<1>5. ASSUME NEW m, m \notin N PROVE Same(m)
  <2>1. \A p \in objs' : p.name = m => p \in objs
    BY <1>2, <1>3, <1>4, <1>5
  <2>2. \A p \in objs : p.name = m => p \in objs'
    BY <1>3, <1>4, <1>5
  <2> QED
    BY <2>1, <2>2 DEF Same, named
<1> HIDE DEF N
<1> QED
  BY <1>3, <1>5, HandInPlace DEF ByHand

LEMMA InitInPlace == Init => InPlaceInv
<1> SUFFICES ASSUME Init PROVE InPlaceInv
  OBVIOUS
<1>1. \A j \in Job : phase[j] = "idle"
  BY DEF Init
<1> QED
  BY <1>1 DEF InPlaceInv, ExitMeansInPlace, InPlaceOK, Smooth, Running

LEMMA NextInPlace == ProvisionInv /\ OnceInv /\ InPlaceInv /\ [Next]_vars => InPlaceInv'
<1> SUFFICES ASSUME ProvisionInv, OnceInv, InPlaceInv, [Next]_vars PROVE InPlaceInv'
  OBVIOUS
<1>1. ASSUME NEW j \in Job, Start(j) \/ Rerun(j) \/ Failure(j) PROVE InPlaceInv'
  BY <1>1, BeginInPlace, FailureInPlace
<1>2. ASSUME NEW j \in Job, Work(j) PROVE InPlaceInv'
  BY <1>2, LooksInPlace, RequestsInPlace DEF Work
<1>3. CASE Edit \/ Delete
  BY <1>3, EditInPlace, DeleteInPlace
<1>4. CASE UNCHANGED vars
  <2>1. UNCHANGED <<objs, disturbed, run>>
    BY <1>4 DEF vars
  <2>2. \A m : m \notin {} => Same(m)
    BY <2>1 DEF Same, named
  <2>3. \A i \in Job : disturbed'[i] = (disturbed[i] \/ (phase[i] # "idle" /\ {} \cap names[script[i]] # {}))
    BY <2>1 DEF ProvisionInv, TypeOK
  <2> QED
    BY <2>1, <2>2, <2>3, HandInPlace
<1> QED
  BY <1>1, <1>2, <1>3, <1>4 DEF Next

\* However runs, failures and changes by hand interleave, a run that nobody
\* disturbs and that meets no error has done all that lies behind it, its keys
\* are those of the objects there are, and its list still holds where it is read.
THEOREM InPlaceInvariant == Spec => []InPlaceInv
<1> QED
  BY InitInPlace, NextInPlace, ProvisionInvariant, OnceInvariant, PTL DEF Spec

\* A run that exits 0 and that nobody disturbed leaves what its script compares as
\* it is configured, and what it only creates there; indexers that the application
\* has no definition of are left out (wire.py:176-178).
THEOREM ExitIsInPlace == Spec => []ExitMeansInPlace
<1>1. InPlaceInv => ExitMeansInPlace
  BY DEF InPlaceInv
<1> QED
  BY <1>1, InPlaceInvariant, PTL
=============================================================================
