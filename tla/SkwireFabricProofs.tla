------------------------- MODULE SkwireFabricProofs -------------------------
(***************************************************************************)
(* Proofs about SkwireFabric, for every set of packs, nodes, keys and jobs    *)
(* and every bound: FabricInv is inductive, and it implies that what reports  *)
(* success is wired together and that nodes are given only what was planned.  *)
(*                                                                          *)
(* The parts of the invariant speak of one job each; Memory, Kept and so on   *)
(* name them.  A step belongs to one job r.  What it means for another job j  *)
(* is one of a few cases: r leaves the nodes alone, r owns the file it        *)
(* writes, or r disturbs j.                                                  *)
(***************************************************************************)
EXTENDS SkwireFabric, TLAPS

sanctioned == agreed \cup reissued

Memory(j) ==
    /\ todo[j] \subseteq wires(j) \cap sanctioned
    /\ pc[j] = "idle" => todo[j] = {} /\ ok[j] /\ secrets[j] = NoKeys
    /\ pc[j] # "idle" => result[j] = "none"
    /\ (\E k \in keys[j] : secrets[j][k] = 0) /\ pc[j] # "idle" => seen_to(j) = {}
    /\ pc[j] \in {"open", "write"}
          => /\ \E w \in todo[j] : Turn(j, w)
             /\ \A w \in todo[j] : Turn(j, w)
                   => /\ serves(j, w[1]) /\ Method[w[1]] # "api"
                      /\ buf[j][w[2]] = secrets[j][w[2]]
                      /\ \A k \in Key : buf[j][k] # 0 => <<w[1], k>> \in sanctioned

\* i, which is running, does not get in the way of j.
Clear(j, i) ==
    /\ keys[i] \cap keys[j] = {}
    /\ pc[j] # "idle" => rewrites(i) \cap rewrites(j) = {}
    /\ \A m \in Job \ {i, j} :
          pc[m] # "idle" /\ rewrites(i) \cap rewrites(j) # {}
             => rewrites(i) \cap rewrites(m) = {}

Valued(j) ==
    \A k \in keys[j] : pc[j] # "idle" /\ secrets[j][k] # 0 => secrets[j][k] = store[k]

Stays(w) ==
    /\ \A i \in Job : HasFile(i, w[1]) => buf[i][w[2]] = store[w[2]]
    /\ \/ Holds(w[1], w[2], store[w[2]])
       \/ \E i \in Job : pc[i] = "write" /\ HasFile(i, w[1])

Succeeds(j) == result[j] = "ok" \/ (pc[j] # "idle" /\ ok[j])

Kept(j) == Succeeds(j) => \A w \in seen_to(j) : Stays(w)

Emptied(j) ==
    \A i \in Job, n \in rewrites(j) : pc[i] = "write" /\ HasFile(i, n) => given[n] = emptied(n)

LEMMA InvParts ==
    FabricInv <=>
        /\ TypeOK
        /\ GivenAsPlanned
        /\ \A j \in Job : Memory(j)
        /\ \A j \in Job \ disturbed :
              /\ \A i \in Job \ {j} : pc[i] # "idle" => Clear(j, i)
              /\ Valued(j) /\ Kept(j) /\ Emptied(j)
<1>1. MemoryOK <=> \A j \in Job : Memory(j)
  BY DEF MemoryOK, Memory, sanctioned
<1>2. Apart <=> \A j \in Job \ disturbed : \A i \in Job \ {j} : pc[i] # "idle" => Clear(j, i)
  BY DEF Apart, Clear
<1>3. InPlace <=> \A j \in Job \ disturbed : Valued(j) /\ Kept(j) /\ Emptied(j)
  BY DEF InPlace, Valued, Kept, Emptied, Stays, Succeeds
<1> QED BY <1>1, <1>2, <1>3 DEF FabricInv

LEMMA InvPartsNext ==
    ASSUME TypeOK', GivenAsPlanned',
           \A j \in Job : Memory(j)',
           \A j \in Job \ disturbed' : \A i \in Job \ {j} : pc'[i] # "idle" => Clear(j, i)',
           \A j \in Job \ disturbed' : Valued(j)' /\ Kept(j)' /\ Emptied(j)'
    PROVE  FabricInv'
<1>1. MemoryOK'
  BY DEF MemoryOK, Memory, sanctioned
<1>2. Apart'
  BY DEF Apart, Clear
<1>3. InPlace'
  BY DEF InPlace, Valued, Kept, Emptied, Stays, Succeeds
<1> QED BY <1>1, <1>2, <1>3 DEF FabricInv

-----------------------------------------------------------------------------
(* Plans and turns.                                                         *)

LEMMA NoKeysType == NoKeys \in [Key -> Nat] /\ \A k \in Key : NoKeys[k] = 0
  BY DEF NoKeys

LEMMA PlanType ==
    ASSUME TypeOK
    PROVE  all_nodes \in Plan /\ mints(all_nodes) \subseteq Key
  BY FabricAssumption DEF TypeOK, all_nodes, Plan, Edge, mints

LEMMA TargetsType ==
    ASSUME NEW p, NEW K \in SUBSET Key, NEW picks
    PROVE  /\ targets_for(p, K) \subseteq Node \X Key
           /\ targets_for(p, K) \subseteq targets_for(p, Key)
           /\ \A w \in targets_for(p, K) : w[1] \in Node /\ w[2] \in K /\ w[2] \in Key
                 /\ (picks[w[1]] = Method[w[1]] /\ Method[w[1]] # "api" => w[1] \in files(p, K, picks))
           /\ \A n \in files(p, K, picks) : n \in Node /\ Method[n] # "api"
<1>1. targets_for(p, K) \subseteq Node \X K
  BY DEF targets_for
<1>2. targets_for(p, K) \subseteq Node \X Key
  BY <1>1
<1>3. targets_for(p, K) \subseteq targets_for(p, Key)
  BY DEF targets_for
<1> QED BY <1>1, <1>2, <1>3 DEF files

\* The same for what a job works on.
LEMMA WiresType ==
    ASSUME TypeOK, NEW j \in Job
    PROVE  /\ wires(j) \subseteq Node \X Key
           /\ \A w \in wires(j) : w[1] \in Node /\ w[2] \in keys[j] /\ w[2] \in Key
                 /\ (serves(j, w[1]) /\ Method[w[1]] # "api" => w[1] \in rewrites(j))
           /\ \A n \in rewrites(j) : n \in Node /\ Method[n] # "api"
<1>1. keys[j] \in SUBSET Key
  BY DEF TypeOK
<1> QED BY <1>1, TargetsType DEF wires, rewrites, serves

LEMMA OneTurn ==
    ASSUME TypeOK, NEW j \in Job, NEW v, NEW w, Turn(j, v), Turn(j, w)
    PROVE  v = w
<1>1. v \in Node \X Key /\ w \in Node \X Key
  BY DEF TypeOK, Turn
<1>2. Rank[v] <= Rank[w] /\ Rank[w] <= Rank[v]
  BY DEF Turn
<1>3. Rank[v] \in Nat /\ Rank[w] \in Nat
  BY <1>1, FabricAssumption
<1>4. Rank[v] = Rank[w]
  BY <1>2, <1>3
<1> QED BY <1>1, <1>4, FabricAssumption

\* A job that is at a pair.
LEMMA AtTurn ==
    ASSUME TypeOK, NEW j \in Job, Memory(j), NEW w, Turn(j, w)
    PROVE  /\ w \in todo[j] /\ w \in wires(j) /\ w \in sanctioned
           /\ w \in Node \X Key /\ w = <<w[1], w[2]>>
           /\ w[1] \in Node /\ w[2] \in Key /\ w[2] \in keys[j]
           /\ secrets[j][w[2]] # 0
           /\ pc[j] # "idle"
<1>1. w \in todo[j] /\ w \in wires(j) /\ w \in sanctioned
  BY DEF Turn, Memory
<1>2. w \in Node \X Key /\ w[1] \in Node /\ w[2] \in Key /\ w[2] \in keys[j]
  BY <1>1, WiresType
<1>3. pc[j] # "idle"
  BY <1>1 DEF Memory
<1> QED BY <1>1, <1>2, <1>3 DEF Turn

LEMMA HolderTurn ==
    ASSUME TypeOK, NEW i \in Job, Memory(i), NEW n, HasFile(i, n)
    PROVE  /\ pc[i] \in {"open", "write"}
           /\ \E k \in Key : Turn(i, <<n, k>>)
           /\ n \in Node /\ Method[n] # "api" /\ n \in rewrites(i)
           /\ \A w : Turn(i, w) => w[1] = n /\ w = <<n, w[2]>>
<1>1. PICK k \in Key : pc[i] \in {"open", "write"} /\ Turn(i, <<n, k>>)
  BY DEF HasFile
<1> DEFINE w == <<n, k>>
<1>2. w \in todo[i] /\ w \in wires(i) /\ w[1] \in Node
  BY <1>1, AtTurn
<1>3. serves(i, w[1]) /\ Method[w[1]] # "api"
  BY <1>1, <1>2 DEF Memory
<1>4. w[1] \in rewrites(i)
  BY <1>2, <1>3, WiresType
<1>5. \A v : Turn(i, v) => v = <<n, k>>
  BY <1>1, OneTurn
<1> QED BY <1>1, <1>2, <1>3, <1>4, <1>5

\* Whoever is at a pair in the middle of a write has that file, and no other.
LEMMA TurnHasFile ==
    ASSUME TypeOK, NEW r \in Job, Memory(r), NEW w, Turn(r, w), pc[r] \in {"open", "write"}
    PROVE  HasFile(r, w[1]) /\ \A n : HasFile(r, n) => n = w[1]
<1>1. w = <<w[1], w[2]>> /\ w[2] \in Key
  BY AtTurn
<1>2. HasFile(r, w[1])
  BY <1>1 DEF HasFile
<1> QED BY <1>2, HolderTurn

LEMMA SameTurns ==
    ASSUME NEW i, keys'[i] = keys[i], secrets'[i] = secrets[i], todo'[i] = todo[i]
    PROVE  \A w : Turn(i, w)' <=> Turn(i, w)
  BY DEF Turn

LEMMA SameHolder ==
    ASSUME NEW i, keys'[i] = keys[i], secrets'[i] = secrets[i], todo'[i] = todo[i],
           pc'[i] = pc[i]
    PROVE  \A n : HasFile(i, n)' <=> HasFile(i, n)
  BY SameTurns DEF HasFile

\* A file that an undisturbed job wires is in one pair of hands.
LEMMA OneHolder ==
    ASSUME FabricInv, NEW j \in Job \ disturbed, NEW n \in rewrites(j),
           NEW i \in Job, pc[i] # "idle", n \in rewrites(i),
           NEW m \in Job, pc[m] # "idle", n \in rewrites(m)
    PROVE  i = m
<1> SUFFICES ASSUME i # m PROVE FALSE
  OBVIOUS
<1>1. CASE i = j
  BY <1>1, InvParts DEF Clear
<1>2. CASE m = j
  BY <1>2, InvParts DEF Clear
<1>3. CASE i # j /\ m # j
  <2>1. Clear(j, i)
    BY <1>3, InvParts
  <2> QED BY <2>1, <1>3 DEF Clear
<1> QED BY <1>1, <1>2, <1>3

\* Another job's pair is not one of an undisturbed job's.
LEMMA OthersKey ==
    ASSUME FabricInv, NEW j \in Job \ disturbed, NEW w \in wires(j),
           NEW r \in Job, r # j, pc[r] # "idle", NEW k \in keys[r]
    PROVE  w[2] # k
<1>1. Clear(j, r)
  BY InvParts
<1>2. w[2] \in keys[j]
  BY WiresType, InvParts
<1> QED BY <1>1, <1>2 DEF Clear

-----------------------------------------------------------------------------
(* What a step leaves as it is.                                             *)

LEMMA SameWires ==
    ASSUME NEW j, plan'[j] = plan[j], keys'[j] = keys[j], pick'[j] = pick[j]
    PROVE  /\ rewrites(j)' = rewrites(j) /\ wires(j)' = wires(j)
           /\ \A n : serves(j, n)' <=> serves(j, n)
  BY DEF rewrites, wires, files, targets_for, serves

LEMMA MemoryKeeps ==
    ASSUME NEW j \in Job, Memory(j), pc'[j] = pc[j], plan'[j] = plan[j], keys'[j] = keys[j], pick'[j] = pick[j],
           secrets'[j] = secrets[j], todo'[j] = todo[j], ok'[j] = ok[j],
           result'[j] = result[j], buf'[j] = buf[j], sanctioned \subseteq sanctioned'
    PROVE  Memory(j)'
<1>1. \A w : Turn(j, w)' <=> Turn(j, w)
  BY SameTurns
<1>2. /\ wires(j)' = wires(j) /\ seen_to(j)' = seen_to(j)
      /\ \A n : serves(j, n)' <=> serves(j, n)
  BY SameWires DEF seen_to
<1> QED BY <1>1, <1>2 DEF Memory

LEMMA ClearKeeps ==
    ASSUME UNCHANGED <<plan, keys, pick>>, \A x \in Job : pc'[x] # "idle" => pc[x] # "idle",
           NEW j \in Job, NEW i \in Job, Clear(j, i)
    PROVE  Clear(j, i)'
<1>1. \A x : rewrites(x)' = rewrites(x)
  BY SameWires
<1> QED BY <1>1 DEF Clear

\* The nodes and the store are left alone, and r has no file before or after.
LEMMA PlaceKeeps ==
    ASSUME UNCHANGED <<given, store>>, NEW r \in Job, NEW j \in Job, r # j,
           \A i \in Job \ {r} : /\ pc'[i] = pc[i] /\ keys'[i] = keys[i]
                                /\ secrets'[i] = secrets[i] /\ todo'[i] = todo[i]
                                /\ buf'[i] = buf[i],
           plan'[j] = plan[j], pick'[j] = pick[j], ok'[j] = ok[j], result'[j] = result[j],
           pc'[r] \notin {"open", "write"},
           \A n \in rewrites(j) : ~(pc[r] = "write" /\ HasFile(r, n)),
           TypeOK, Memory(r), Valued(j), Kept(j), Emptied(j)
    PROVE  Valued(j)' /\ Kept(j)' /\ Emptied(j)'
<1>1. \A i \in Job \ {r} : \A n : HasFile(i, n)' <=> HasFile(i, n)
  BY SameHolder
<1>2. \A n : ~HasFile(r, n)'
  BY DEF HasFile
<1>3. /\ wires(j)' = wires(j) /\ seen_to(j)' = seen_to(j)
      /\ rewrites(j)' = rewrites(j) /\ Succeeds(j)' = Succeeds(j)
  BY SameWires DEF seen_to, Succeeds
<1>4. Valued(j)'
  BY DEF Valued
<1>5. Emptied(j)'
  BY <1>1, <1>2, <1>3 DEF Emptied, emptied
<1>6. ASSUME NEW w \in seen_to(j), Stays(w) PROVE Stays(w)'
  <2>1. \A i \in Job : HasFile(i, w[1])' => buf'[i][w[2]] = store'[w[2]]
    BY <1>1, <1>2, <1>6 DEF Stays
  <2>2. CASE Holds(w[1], w[2], store[w[2]])
    BY <2>1, <2>2 DEF Stays, Holds
  <2>3. CASE \E i \in Job : pc[i] = "write" /\ HasFile(i, w[1])
    <3>1. PICK i \in Job : pc[i] = "write" /\ HasFile(i, w[1])
      BY <2>3
    <3>2. i # r
      <4> SUFFICES ASSUME i = r PROVE FALSE
        OBVIOUS
      <4>1. Method[w[1]] # "api"
        BY <3>1, HolderTurn
      <4>2. w[1] \in rewrites(j)
        BY <4>1, WiresType DEF seen_to
      <4> QED BY <3>1, <4>2
    <3> QED BY <3>1, <3>2, <1>1, <2>1 DEF Stays
  <2> QED BY <2>2, <2>3, <1>6 DEF Stays
<1> QED BY <1>3, <1>4, <1>5, <1>6 DEF Kept

-----------------------------------------------------------------------------
(* Steps that leave every job as it is.                                     *)

LEMMA InitInv == Init => FabricInv
<1> SUFFICES ASSUME Init PROVE FabricInv
  OBVIOUS
<1>1. TypeOK
  BY NoKeysType, FabricAssumption DEF Init, TypeOK, Plan, Kind, one_for_all
<1>2. \A j \in Job : wires(j) = {} /\ rewrites(j) = {} /\ seen_to(j) = {}
  BY DEF Init, wires, rewrites, seen_to, files, targets_for
<1>3. \A j \in Job : Memory(j) /\ Valued(j) /\ Kept(j) /\ Emptied(j)
  BY <1>2 DEF Init, Memory, Valued, Kept, Emptied
<1>4. GivenAsPlanned
  BY NoKeysType DEF Init, GivenAsPlanned
<1>5. \A j, i \in Job : pc[i] = "idle"
  BY DEF Init
<1> QED BY <1>1, <1>3, <1>4, <1>5, InvParts

\* Only registry, shown and the like change.
LEMMA QuietStep ==
    ASSUME FabricInv, TypeOK',
           UNCHANGED <<pc, plan, keys, pick, secrets, todo, ok, result, buf, store, given,
                       agreed, reissued, disturbed>>
    PROVE  FabricInv'
<1>1. GivenAsPlanned'
  BY InvParts DEF GivenAsPlanned
<1>2. \A j \in Job : Memory(j)'
  BY InvParts, MemoryKeeps DEF sanctioned
<1>3. \A j, i \in Job : Clear(j, i) => Clear(j, i)'
  BY ClearKeeps
<1>4. \A i \in Job : \A n : HasFile(i, n)' <=> HasFile(i, n)
  BY SameHolder
<1>5. \A j \in Job : /\ wires(j)' = wires(j) /\ seen_to(j)' = seen_to(j)
                     /\ rewrites(j)' = rewrites(j) /\ Succeeds(j)' = Succeeds(j)
  BY SameWires DEF seen_to, Succeeds
<1>6. \A w : Stays(w) => Stays(w)'
  BY <1>4 DEF Stays, Holds
<1>7. \A j \in Job : /\ Valued(j) => Valued(j)'
                     /\ Kept(j) => Kept(j)'
                     /\ Emptied(j) => Emptied(j)'
  BY <1>4, <1>5, <1>6 DEF Valued, Kept, Emptied, emptied
<1> QED BY <1>1, <1>2, <1>3, <1>7, InvParts, InvPartsNext

LEMMA AddInv == ASSUME FabricInv, NEW p \in Pack, Add(p) PROVE FabricInv'
<1>1. TypeOK'
  BY InvParts DEF TypeOK, Add, jobVars, Plan
<1> QED BY <1>1, QuietStep DEF Add, jobVars

LEMMA ShowPlanInv == ASSUME FabricInv, NEW j \in Job, ShowPlan(j) PROVE FabricInv'
<1>1. TypeOK'
  BY InvParts, PlanType DEF TypeOK, ShowPlan, jobVars
<1> QED BY <1>1, QuietStep DEF ShowPlan, jobVars

LEMMA StutterInv == ASSUME FabricInv, UNCHANGED vars PROVE FabricInv'
<1>1. TypeOK'
  BY InvParts DEF TypeOK, vars, jobVars, Plan
<1> QED BY <1>1, QuietStep DEF vars, jobVars

-----------------------------------------------------------------------------
(* Minting.                                                                 *)

LEMMA MintInv == ASSUME FabricInv, NEW r \in Job, NEW k \in Key, Mint(r, k) PROVE FabricInv'
<1> DEFINE v == store[k] + 1
<1>t. TypeOK /\ Memory(r)
  BY InvParts
<1>m. /\ pc[r] = "run" /\ k \in keys[r] /\ secrets[r][k] = 0 /\ store[k] \in Nat
      /\ store' = [store EXCEPT ![k] = v]
      /\ secrets' = [secrets EXCEPT ![r] = [secrets[r] EXCEPT ![k] = v]]
      /\ UNCHANGED <<registry, shown, pc, todo, ok, result, buf, given, mishaps>>
      /\ UNCHANGED <<plan, keys, pick, runs, agreed, reissued, disturbed>>
  BY <1>t DEF Mint, jobVars, TypeOK
<1>s. \A i \in Job \ {r} : secrets'[i] = secrets[i]
  BY <1>m, <1>t DEF TypeOK
<1>1. TypeOK'
  BY <1>m, <1>t DEF TypeOK, Plan
<1>2. GivenAsPlanned'
  BY <1>m, InvParts DEF GivenAsPlanned
<1>3. \A j \in Job : Memory(j)'
  <2>1. \A j \in Job \ {r} : Memory(j)'
    BY <1>m, <1>s, InvParts, MemoryKeeps DEF sanctioned
  <2>2. seen_to(r) = {}
    BY <1>m, <1>t DEF Memory
  <2>3. wires(r)' = wires(r) /\ seen_to(r)' = seen_to(r)
    BY <1>m, SameWires DEF seen_to
  <2>4. Memory(r)'
    BY <1>m, <1>t, <2>2, <2>3 DEF Memory, sanctioned
  <2> QED BY <2>1, <2>4
<1>4. \A j \in Job \ disturbed : \A i \in Job \ {j} : pc[i] # "idle" => Clear(j, i)'
  BY <1>m, InvParts, ClearKeeps
<1>5. ASSUME NEW j \in Job \ disturbed PROVE Valued(j)' /\ Kept(j)' /\ Emptied(j)'
  <2>1. \A i \in Job : \A n : HasFile(i, n)' <=> HasFile(i, n)
    <3>1. \A i \in Job \ {r} : \A n : HasFile(i, n)' <=> HasFile(i, n)
      BY <1>m, <1>s, SameHolder
    <3>2. \A n : ~HasFile(r, n)' /\ ~HasFile(r, n)
      BY <1>m DEF HasFile
    <3> QED BY <3>1, <3>2
  <2>2. Valued(j)'
    <3>1. CASE j = r
      <4>1. secrets'[r] = [secrets[r] EXCEPT ![k] = v] /\ secrets[r] \in [Key -> Nat] /\ keys[r] \subseteq Key
        BY <1>m, <1>t DEF TypeOK
      <4>2. store'[k] = v /\ \A l \in Key \ {k} : store'[l] = store[l]
        BY <1>m, <1>t DEF TypeOK
      <4>3. Valued(r)
        BY <3>1, InvParts
      <4> QED BY <4>1, <4>2, <4>3, <3>1, <1>m DEF Valued
    <3>2. CASE j # r
      <4>1. Clear(j, r) /\ Valued(j) /\ keys[j] \subseteq Key
        BY <3>2, <1>m, InvParts DEF TypeOK
      <4>2. \A l \in keys[j] : store'[l] = store[l]
        BY <4>1, <1>m, <1>t DEF Clear, TypeOK
      <4> QED BY <4>1, <4>2, <3>2, <1>m, <1>s DEF Valued
    <3> QED BY <3>1, <3>2
  <2>3. /\ wires(j)' = wires(j) /\ seen_to(j)' = seen_to(j)
        /\ rewrites(j)' = rewrites(j) /\ Succeeds(j)' = Succeeds(j)
    BY <1>m, SameWires DEF seen_to, Succeeds
  <2>4. ASSUME NEW w \in seen_to(j), Stays(w) PROVE Stays(w)'
    <3>1. w \in wires(j) /\ w[2] \in Key
      BY <1>t, WiresType DEF seen_to
    <3>2. j # r
      <4> SUFFICES ASSUME j = r PROVE FALSE
        OBVIOUS
      <4>1. seen_to(r) = {}
        BY <1>m, <1>t DEF Memory
      <4> QED BY <4>1, <2>4
    <3>3. w[2] # k
      BY <3>1, <3>2, <1>m, OthersKey
    <3>4. store'[w[2]] = store[w[2]]
      BY <3>1, <3>3, <1>m, <1>t DEF TypeOK
    <3> QED BY <3>4, <2>1, <2>4, <1>m DEF Stays, Holds
  <2>5. Kept(j)'
    BY <2>3, <2>4, InvParts DEF Kept
  <2>6. Emptied(j)'
    BY <2>1, <2>3, <1>m, InvParts DEF Emptied, emptied
  <2> QED BY <2>2, <2>5, <2>6
<1> QED BY <1>1, <1>2, <1>3, <1>4, <1>5, <1>m, InvPartsNext

-----------------------------------------------------------------------------
(* The end of a job.                                                        *)

\* r has no file, or it disturbs whoever shares it.
LEMMA LeavesFiles ==
    ASSUME FabricInv, NEW r \in Job, NEW j \in Job, j \notin LeftEmpty(r)
    PROVE  \A n \in rewrites(j) : ~(pc[r] = "write" /\ HasFile(r, n))
<1> SUFFICES ASSUME NEW n \in rewrites(j), pc[r] = "write", HasFile(r, n) PROVE FALSE
  OBVIOUS
<1>1. n \in rewrites(r)
  BY HolderTurn, InvParts
<1> QED BY <1>1 DEF LeftEmpty

LEMMA OverInv ==
    ASSUME FabricInv, NEW r \in Job, pc[r] # "idle", NEW how,
           \/ how = "failed"
           \/ how = "ok" /\ ok[r] /\ todo[r] = {} /\ pc[r] = "run",
           Over(r, how), mishaps' \in 0 .. MaxMishaps,
           disturbed' = disturbed \cup (IF pc[r] = "run" THEN {} ELSE LeftEmpty(r))
    PROVE  FabricInv'
<1>t. TypeOK /\ Memory(r)
  BY InvParts
<1>m. /\ result' = [result EXCEPT ![r] = how]
      /\ pc' = [pc EXCEPT ![r] = "idle"]
      /\ secrets' = [secrets EXCEPT ![r] = NoKeys]
      /\ buf' = [buf EXCEPT ![r] = NoKeys]
      /\ todo' = [todo EXCEPT ![r] = {}]
      /\ ok' = [ok EXCEPT ![r] = TRUE]
      /\ UNCHANGED <<registry, shown, store, given, plan, keys, pick, runs, agreed, reissued>>
  BY DEF Over, jobVars
<1>o. \A i \in Job \ {r} :
         /\ result'[i] = result[i] /\ pc'[i] = pc[i] /\ secrets'[i] = secrets[i]
         /\ buf'[i] = buf[i] /\ todo'[i] = todo[i] /\ ok'[i] = ok[i]
         /\ plan'[i] = plan[i] /\ keys'[i] = keys[i] /\ pick'[i] = pick[i]
  BY <1>m, <1>t DEF TypeOK
<1>r. /\ result'[r] = how /\ pc'[r] = "idle" /\ secrets'[r] = NoKeys
      /\ buf'[r] = NoKeys /\ todo'[r] = {} /\ ok'[r] = TRUE
      /\ plan'[r] = plan[r] /\ keys'[r] = keys[r] /\ pick'[r] = pick[r]
  BY <1>m, <1>t DEF TypeOK
<1>d. disturbed \subseteq disturbed' /\ disturbed' \subseteq Job
      /\ \A j \in Job \ disturbed' : j \notin LeftEmpty(r)
  BY <1>t DEF LeftEmpty, TypeOK
<1>1. TypeOK'
  BY <1>m, <1>t, <1>d, NoKeysType DEF TypeOK, Plan
<1>2. GivenAsPlanned'
  BY <1>m, InvParts DEF GivenAsPlanned
<1>3. \A j \in Job : Memory(j)'
  <2>1. \A j \in Job \ {r} : Memory(j)'
    BY <1>m, <1>o, InvParts, MemoryKeeps DEF sanctioned
  <2>2. Memory(r)'
    BY <1>r DEF Memory
  <2> QED BY <2>1, <2>2
<1>4. \A j \in Job \ disturbed' : \A i \in Job \ {j} : pc'[i] # "idle" => Clear(j, i)'
  <2>1. \A x \in Job : pc'[x] # "idle" => pc[x] # "idle"
    BY <1>o, <1>r
  <2> QED BY <2>1, <1>m, <1>d, InvParts, ClearKeeps
<1>5. \A n : ~HasFile(r, n)'
  BY <1>r DEF HasFile
<1>6. ASSUME NEW j \in Job \ disturbed', j # r PROVE Valued(j)' /\ Kept(j)' /\ Emptied(j)'
  <2>1. \A n \in rewrites(j) : ~(pc[r] = "write" /\ HasFile(r, n))
    BY <1>6, <1>d, LeavesFiles
  <2>2. Valued(j) /\ Kept(j) /\ Emptied(j)
    BY <1>6, <1>d, InvParts
  <2>3. UNCHANGED <<given, store>> /\ pc'[r] \notin {"open", "write"}
    BY <1>m, <1>r
  <2>4. plan'[j] = plan[j] /\ pick'[j] = pick[j] /\ ok'[j] = ok[j] /\ result'[j] = result[j]
    BY <1>6, <1>o
  <2> QED BY <2>1, <2>2, <2>3, <2>4, <1>o, <1>t, <1>6, PlaceKeeps
<1>7. ASSUME r \notin disturbed' PROVE Valued(r)' /\ Kept(r)' /\ Emptied(r)'
  <2>1. \A i \in Job \ {r} : \A n : HasFile(i, n)' <=> HasFile(i, n)
    BY <1>o, SameHolder
  <2>2. Valued(r)'
    BY <1>r DEF Valued
  <2>3. /\ wires(r)' = wires(r) /\ rewrites(r)' = rewrites(r)
        /\ \A n : serves(r, n)' <=> serves(r, n)
    BY <1>r, SameWires
  <2>4. Emptied(r)'
    <3>1. Emptied(r)
      BY <1>7, <1>d, InvParts
    <3> QED BY <3>1, <2>1, <2>3, <1>5, <1>o, <1>m DEF Emptied, emptied
  <2>5. CASE how = "failed"
    BY <2>2, <2>4, <2>5, <1>r DEF Kept, Succeeds
  <2>6. CASE how = "ok" /\ ok[r] /\ todo[r] = {} /\ pc[r] = "run"
    <3>1. seen_to(r)' = seen_to(r)
      BY <2>3, <2>6, <1>r DEF seen_to
    <3>2. \A w \in seen_to(r) : Stays(w)
      BY <2>6, <1>7, <1>d, InvParts DEF Kept, Succeeds
    <3>3. \A n : ~HasFile(r, n)
      BY <2>6 DEF HasFile
    <3>4. \A w : Stays(w) => Stays(w)'
      BY <2>1, <3>3, <1>5, <1>m, <1>o DEF Stays, Holds
    <3> QED BY <2>2, <2>4, <3>1, <3>2, <3>4 DEF Kept
  <2> QED BY <2>5, <2>6
<1> QED BY <1>1, <1>2, <1>3, <1>4, <1>6, <1>7, InvPartsNext

LEMMA FinishInv == ASSUME FabricInv, NEW r \in Job, Finish(r) PROVE FabricInv'
<1>1. ok[r] \in BOOLEAN /\ mishaps' \in 0 .. MaxMishaps
  BY InvParts DEF Finish, TypeOK
<1>2. CASE ok[r]
  BY <1>1, <1>2, OverInv DEF Finish
<1>3. CASE ~ok[r]
  BY <1>1, <1>3, OverInv DEF Finish
<1> QED BY <1>1, <1>2, <1>3

LEMMA DieInv == ASSUME FabricInv, NEW r \in Job, Die(r) PROVE FabricInv'
<1>1. mishaps' \in 0 .. MaxMishaps
  BY InvParts, FabricAssumption DEF Die, TypeOK
<1>2. pc[r] = "run" => LeftEmpty(r) = {}
  BY DEF LeftEmpty
<1> QED BY <1>1, <1>2, OverInv DEF Die

-----------------------------------------------------------------------------
(* Injecting.  Common to the ends of an injection, whatever it did to the    *)
(* nodes: r goes back to the loop, with one pair less to do.                 *)

LEMMA InjectedFacts ==
    ASSUME FabricInv, NEW r \in Job, NEW w, Turn(r, w), NEW success \in BOOLEAN,
           Injected(r, w, success)
    PROVE  /\ \A i \in Job \ {r} : /\ todo'[i] = todo[i] /\ ok'[i] = ok[i] /\ pc'[i] = pc[i]
                                   /\ buf'[i] = buf[i]
           /\ todo'[r] = todo[r] \ {w} /\ ok'[r] = (ok[r] /\ success) /\ pc'[r] = "run"
           /\ UNCHANGED <<registry, shown, secrets, result, store, mishaps>>
           /\ UNCHANGED <<plan, keys, pick, runs, agreed, reissued>>
           /\ pc[r] # "idle"
           /\ \A j \in Job : Memory(j)'
           /\ \A j, i \in Job : Clear(j, i) => Clear(j, i)'
           /\ \A i \in Job \ {r} : \A n : HasFile(i, n)' <=> HasFile(i, n)
           /\ \A n : ~HasFile(r, n)'
           /\ \A j \in Job : /\ rewrites(j)' = rewrites(j) /\ wires(j)' = wires(j)
                             /\ Valued(j) => Valued(j)'
                             /\ Succeeds(j)' => Succeeds(j)
           /\ \A j \in Job \ {r} : seen_to(j)' = seen_to(j)
           /\ seen_to(r)' \subseteq seen_to(r) \cup {w}
           /\ Succeeds(r)' => success
           /\ given' \in [Node -> [Key -> Nat] \cup {Torn}]
                /\ (\A n \in Node : given'[n] = Torn => Method[n] = "file")
                /\ disturbed' \subseteq Job => TypeOK'
<1>t. TypeOK /\ Memory(r)
  BY InvParts
<1>i. pc[r] # "idle"
  BY <1>t, AtTurn
<1>m. /\ todo' = [todo EXCEPT ![r] = todo[r] \ {w}]
      /\ ok' = [ok EXCEPT ![r] = (ok[r] /\ success)]
      /\ pc' = [pc EXCEPT ![r] = "run"]
      /\ buf' = [buf EXCEPT ![r] = NoKeys]
      /\ UNCHANGED <<registry, shown, secrets, result, store, mishaps>>
      /\ UNCHANGED <<plan, keys, pick, runs, agreed, reissued>>
  BY DEF Injected, jobVars
<1>1. \A i \in Job \ {r} : /\ todo'[i] = todo[i] /\ ok'[i] = ok[i] /\ pc'[i] = pc[i]
                            /\ buf'[i] = buf[i]
  BY <1>m, <1>t DEF TypeOK
<1>2. todo'[r] = todo[r] \ {w} /\ pc'[r] = "run"
  BY <1>m, <1>t DEF TypeOK
<1>3. ok'[r] = (ok[r] /\ success)
  BY <1>m, <1>t DEF TypeOK
<1>4. \A j \in Job : Memory(j)'
  <2>1. \A j \in Job \ {r} : Memory(j)'
    BY <1>m, <1>1, InvParts, MemoryKeeps DEF sanctioned
  <2>2. wires(r)' = wires(r) /\ sanctioned' = sanctioned
    BY <1>m, SameWires DEF sanctioned
  <2>3. \A k \in keys[r] : secrets[r][k] # 0
    BY DEF Turn
  <2>4. result'[r] = "none" /\ todo'[r] \subseteq wires(r)' \cap sanctioned'
    BY <1>m, <1>2, <2>2, <1>t, <1>i DEF Memory
  <2>5. Memory(r)'
    BY <2>3, <2>4, <1>2, <1>m DEF Memory
  <2> QED BY <2>1, <2>5
<1>5. \A j, i \in Job : Clear(j, i) => Clear(j, i)'
  <2>1. \A x \in Job : pc'[x] # "idle" => pc[x] # "idle"
    BY <1>1, <1>2, <1>i
  <2> QED BY <2>1, <1>m, ClearKeeps
<1>6. \A i \in Job \ {r} : \A n : HasFile(i, n)' <=> HasFile(i, n)
  BY <1>1, <1>m, SameHolder
<1>7. \A n : ~HasFile(r, n)'
  BY <1>2 DEF HasFile
<1>8. \A j \in Job : /\ rewrites(j)' = rewrites(j) /\ wires(j)' = wires(j)
                     /\ \A n : serves(j, n)' <=> serves(j, n)
  BY <1>m, SameWires
<1>9. \A j \in Job : Valued(j) => Valued(j)'
  BY <1>m, <1>1, <1>i DEF Valued
<1>10. \A j \in Job \ {r} : Succeeds(j)' => Succeeds(j)
  BY <1>m, <1>1 DEF Succeeds
<1>11. Succeeds(r)' => Succeeds(r) /\ success
  <2>1. result'[r] = "none"
    BY <1>m, <1>t, <1>i DEF Memory
  <2>2. Succeeds(r)' => ok'[r]
    BY <2>1 DEF Succeeds
  <2>3. ok[r] => Succeeds(r)
    BY <1>i DEF Succeeds
  <2> QED BY <2>2, <2>3, <1>3
<1>12. /\ \A j \in Job \ {r} : seen_to(j)' = seen_to(j)
       /\ seen_to(r)' \subseteq seen_to(r) \cup {w}
  BY <1>1, <1>2, <1>8 DEF seen_to
<1>13. /\ given' \in [Node -> [Key -> Nat] \cup {Torn}]
       /\ \A n \in Node : given'[n] = Torn => Method[n] = "file"
       /\ disturbed' \subseteq Job
       => TypeOK'
  BY <1>m, <1>t, NoKeysType DEF TypeOK, Plan
<1> QED BY <1>i, <1>m, <1>1, <1>2, <1>3, <1>4, <1>5, <1>6, <1>7, <1>8, <1>9, <1>10, <1>11, <1>12, <1>13

\* Whoever is at a node that its injector does not serve has no file.
LEMMA NoFileUnserved ==
    ASSUME TypeOK, NEW r \in Job, Memory(r), NEW w, Turn(r, w), ~serves(r, w[1])
    PROVE  \A n : ~HasFile(r, n)
<1>1. w \in todo[r]
  BY AtTurn
<1>2. pc[r] \notin {"open", "write"}
  BY <1>1 DEF Memory
<1> QED BY <1>2 DEF HasFile

\* An injection that changes no node: it failed, or the node is not served.
LEMMA NothingGivenInv ==
    ASSUME FabricInv, NEW r \in Job, NEW w \in Node \X Key, NEW success \in BOOLEAN,
           success => ~serves(r, w[1]),
           Turn(r, w), Injected(r, w, success), UNCHANGED given,
           disturbed' = disturbed \cup LeftEmpty(r)
    PROVE  FabricInv'
<1>t. TypeOK /\ Memory(r)
  BY InvParts
<1>m. Turn(r, w) /\ Injected(r, w, success) /\ UNCHANGED given
      /\ disturbed' = disturbed \cup LeftEmpty(r)
  OBVIOUS
<1>d. disturbed' \subseteq Job
  BY <1>m, <1>t DEF LeftEmpty, TypeOK
<1>f. UNCHANGED <<plan, keys, pick, secrets, result, store, agreed, reissued>>
  BY <1>m, InjectedFacts
<1>e. given' \in [Node -> [Key -> Nat] \cup {Torn}]
      /\ \A n \in Node : given'[n] = Torn => Method[n] = "file"
  BY <1>m, <1>t DEF TypeOK
<1>1. TypeOK'
  BY <1>m, <1>d, <1>e, InjectedFacts
<1>2. GivenAsPlanned'
  BY <1>m, <1>f, InvParts DEF GivenAsPlanned
<1>3. \A j \in Job : Memory(j)'
  BY <1>m, InjectedFacts
<1>4. \A j \in Job \ disturbed' : \A i \in Job \ {j} : pc'[i] # "idle" => Clear(j, i)'
  BY <1>m, InvParts, InjectedFacts
<1>o. /\ \A i \in Job \ {r} : /\ todo'[i] = todo[i] /\ ok'[i] = ok[i] /\ pc'[i] = pc[i]
                              /\ buf'[i] = buf[i] /\ keys'[i] = keys[i] /\ plan'[i] = plan[i] /\ pick'[i] = pick[i]
                              /\ secrets'[i] = secrets[i] /\ result'[i] = result[i]
      /\ pc'[r] = "run"
  BY <1>m, <1>f, InjectedFacts
<1>h. /\ \A i \in Job \ {r} : \A n : HasFile(i, n)' <=> HasFile(i, n)
      /\ \A n : ~HasFile(r, n)'
  BY <1>m, InjectedFacts
<1>5. ASSUME NEW j \in Job \ disturbed' PROVE Valued(j)' /\ Kept(j)' /\ Emptied(j)'
  <2>1. \A n \in rewrites(j) : ~(pc[r] = "write" /\ HasFile(r, n))
    BY <1>m, LeavesFiles
  <2>2. Valued(j) /\ Kept(j) /\ Emptied(j)
    BY <1>m, InvParts
  <2>3. CASE j # r
    <3>1. UNCHANGED <<given, store>> /\ pc'[r] \notin {"open", "write"}
      BY <1>m, <1>f, <1>o
    <3>2. plan'[j] = plan[j] /\ pick'[j] = pick[j] /\ ok'[j] = ok[j] /\ result'[j] = result[j]
      BY <2>3, <1>o
    <3> QED BY <2>1, <2>2, <2>3, <3>1, <3>2, <1>o, <1>t, PlaceKeeps
  <2>4. CASE j = r
    <3>0. seen_to(r)' \subseteq seen_to(r) \/ ~success
      BY <1>m, <1>f, InjectedFacts, SameWires DEF seen_to
    <3>1. Kept(r)'
      <4>1. CASE ~success
        BY <4>1, <1>m, InjectedFacts DEF Kept
      <4>2. CASE success
        <5>1. /\ Succeeds(r)' => Succeeds(r)
              /\ \A x : ~HasFile(r, x)
          BY <4>2, <1>m, <1>t, InjectedFacts, NoFileUnserved
        <5>2. \A u : Stays(u) => Stays(u)'
          BY <5>1, <1>m, <1>f, <1>o, <1>h DEF Stays, Holds
        <5> QED BY <3>0, <4>2, <5>1, <5>2, <2>2, <2>4 DEF Kept
      <4> QED BY <4>1, <4>2
    <3>2. Valued(r)' /\ rewrites(r)' = rewrites(r)
      BY <2>2, <2>4, <1>m, InjectedFacts
    <3>3. Emptied(r)'
      BY <2>2, <2>4, <3>2, <1>m, <1>o, <1>h DEF Emptied, emptied
    <3> QED BY <3>1, <3>2, <3>3, <2>4
  <2> QED BY <2>3, <2>4
<1> QED BY <1>1, <1>2, <1>3, <1>4, <1>5, InvPartsNext

LEMMA InjectFailsInv ==
    ASSUME FabricInv, NEW r \in Job, NEW w \in Node \X Key, InjectFails(r, w)
    PROVE  FabricInv'
BY NothingGivenInv DEF InjectFails

LEMMA MissInv ==
    ASSUME FabricInv, NEW r \in Job, NEW w \in Node \X Key, Miss(r, w)
    PROVE  FabricInv'
<1>1. LeftEmpty(r) = {}
  BY DEF Miss, LeftEmpty
<1> QED BY <1>1, NothingGivenInv DEF Miss

LEMMA PostInv ==
    ASSUME FabricInv, NEW r \in Job, NEW w \in Node \X Key, Post(r, w)
    PROVE  FabricInv'
<1> DEFINE n == w[1]  k == w[2]  v == secrets[r][k]
<1>t. TypeOK /\ Memory(r)
  BY InvParts
<1>p. PICK success \in BOOLEAN : Injected(r, w, success)
  BY DEF Post
<1>m. /\ Turn(r, w) /\ Method[n] = "api" /\ pc[r] = "run" /\ UNCHANGED disturbed
      /\ n \in Node /\ k \in Key /\ v \in Nat /\ w = <<n, k>>
      /\ given[n] \in [Key -> Nat] /\ given[n] # Torn
      /\ given' = [given EXCEPT ![n] = [given[n] EXCEPT ![k] = v]]
  BY <1>t DEF Post, TypeOK
<1>f. UNCHANGED <<plan, keys, pick, secrets, result, store, agreed, reissued>>
  BY <1>m, <1>p, InjectedFacts
<1>o. /\ \A i \in Job \ {r} : pc'[i] = pc[i] /\ buf'[i] = buf[i]
      /\ pc'[r] = "run"
      /\ \A i \in Job \ {r} : \A x : HasFile(i, x)' <=> HasFile(i, x)
      /\ \A x : ~HasFile(r, x)'
  BY <1>m, <1>p, InjectedFacts
<1>h. \A x : ~HasFile(r, x)
  BY <1>m DEF HasFile
<1>c. [given[n] EXCEPT ![k] = v] \in [Key -> Nat]
  BY <1>m
<1>g. /\ given' \in [Node -> [Key -> Nat] \cup {Torn}]
      /\ \A x \in Node \ {n} : given'[x] = given[x]
      /\ given'[n] = [given[n] EXCEPT ![k] = v] /\ given'[n] # Torn
  <2>1. given'[n] = [given[n] EXCEPT ![k] = v] /\ \A x \in Node \ {n} : given'[x] = given[x]
    BY <1>m, <1>t DEF TypeOK
  <2>2. given'[n] # Torn
    BY <2>1, <1>c, FabricAssumption
  <2>3. given' \in [Node -> [Key -> Nat] \cup {Torn}]
    BY <1>m, <1>c, <1>t DEF TypeOK
  <2> QED BY <2>1, <2>2, <2>3
<1>1. TypeOK'
  <2>1. disturbed' \subseteq Job
    BY <1>m, <1>t DEF TypeOK
  <2>2. \A x \in Node : given'[x] = Torn => Method[x] = "file"
    BY <1>g, <1>t DEF TypeOK
  <2> QED BY <2>1, <2>2, <1>m, <1>p, <1>g, InjectedFacts
<1>2. GivenAsPlanned'
  <2>1. w \in sanctioned
    BY <1>m, <1>t, AtTurn
  <2> QED BY <2>1, <1>g, <1>m, <1>f, InvParts DEF GivenAsPlanned, sanctioned
<1>3. \A j \in Job : Memory(j)'
  BY <1>m, <1>p, InjectedFacts
<1>4. \A j \in Job \ disturbed' : \A i \in Job \ {j} : pc'[i] # "idle" => Clear(j, i)'
  BY <1>m, <1>p, InvParts, InjectedFacts
<1>5. ASSUME NEW j \in Job \ disturbed' PROVE Valued(j)' /\ Kept(j)' /\ Emptied(j)'
  <2>1. Valued(j) /\ Kept(j) /\ Emptied(j) /\ j \in Job \ disturbed
    BY <1>m, InvParts
  <2>2. Valued(j)' /\ rewrites(j)' = rewrites(j) /\ (Succeeds(j)' => Succeeds(j))
    BY <2>1, <1>m, <1>p, InjectedFacts
  <2>3. Emptied(j)'
    <3>1. \A x \in rewrites(j) : given'[x] = given[x]
      BY <1>g, <1>m, <1>t, WiresType
    <3> QED BY <3>1, <2>1, <2>2, <1>o, <1>h DEF Emptied, emptied
  <2>4. ASSUME NEW u \in seen_to(j), Succeeds(j), u # w PROVE Stays(u)'
    <3>1. u \in wires(j) /\ u \in Node \X Key /\ Stays(u)
      BY <2>1, <2>4, <1>t, WiresType DEF seen_to, Kept
    <3>2. Holds(u[1], u[2], store[u[2]]) => Holds(u[1], u[2], store[u[2]])'
      BY <3>1, <2>4, <1>g, <1>m, <1>f DEF Holds
    <3> QED BY <3>1, <3>2, <1>o, <1>h, <1>f DEF Stays
  <2>5. CASE j # r
    <3>1. \A u \in seen_to(j) : u # w
      BY <2>1, <2>5, <1>m, <1>t, OthersKey, AtTurn DEF seen_to
    <3>2. seen_to(j)' = seen_to(j)
      BY <2>5, <1>m, <1>p, InjectedFacts
    <3> QED BY <3>1, <3>2, <2>2, <2>3, <2>4 DEF Kept
  <2>6. CASE j = r
    <3>1. seen_to(r)' \subseteq seen_to(r) \cup {w}
      BY <1>m, <1>p, InjectedFacts
    <3>2. Stays(w)'
      <4>1. v = store[k]
        BY <2>1, <2>6, <1>m, <1>t, AtTurn DEF Valued
      <4>2. given'[n][k] = v
        BY <1>g, <1>m
      <4>3. \A i \in Job : ~HasFile(i, n)
        BY <1>m, HolderTurn, InvParts
      <4> QED BY <4>1, <4>2, <4>3, <1>g, <1>f, <1>o DEF Stays, Holds
    <3> QED BY <3>1, <3>2, <2>2, <2>3, <2>4, <2>6 DEF Kept
  <2> QED BY <2>5, <2>6
<1> QED BY <1>1, <1>2, <1>3, <1>4, <1>5, InvPartsNext

LEMMA WriteInv ==
    ASSUME FabricInv, NEW r \in Job, NEW w \in Node \X Key, Write(r, w)
    PROVE  FabricInv'
<1> DEFINE n == w[1]  k == w[2]
<1>t. TypeOK /\ Memory(r)
  BY InvParts
<1>m. /\ Turn(r, w) /\ pc[r] = "write" /\ Injected(r, w, TRUE) /\ UNCHANGED disturbed
      /\ n \in Node /\ k \in Key /\ w = <<n, k>>
      /\ buf[r] \in [Key -> Nat]
  <2>1. Turn(r, w) /\ pc[r] = "write" /\ Injected(r, w, TRUE) /\ UNCHANGED disturbed
    BY DEF Write
  <2>2. n \in Node /\ k \in Key /\ w = <<n, k>>
    OBVIOUS
  <2>3. buf[r] \in [Key -> Nat]
    BY <1>t DEF TypeOK
  <2> QED BY <2>1, <2>2, <2>3
<1>b. /\ Method[n] # "api" /\ buf[r][k] = secrets[r][k]
      /\ \A l \in Key : buf[r][l] # 0 => <<n, l>> \in sanctioned
      /\ n \in rewrites(r) /\ HasFile(r, n)
  <2>1. w \in todo[r] /\ HasFile(r, n)
    BY <1>m, <1>t, AtTurn, TurnHasFile
  <2>2. n \in rewrites(r)
    BY <2>1, <1>t, HolderTurn
  <2> QED BY <2>1, <2>2, <1>m, <1>t DEF Memory
<1>c. PICK c : /\ given' = [given EXCEPT ![n] = c]
               /\ given[n] = emptied(n) => c = buf[r]
               /\ given[n] # emptied(n) => c \in Overlaid(n, buf[r], given[n])
  BY DEF Write
<1>C. /\ c \in [Key -> Nat] \/ (c = Torn /\ Method[n] = "file")
      /\ c # Torn => \A l \in Key : c[l] # 0 => <<n, l>> \in sanctioned
  <2>1. CASE given[n] = emptied(n)
    BY <2>1, <1>c, <1>m, <1>b
  <2>2. CASE given[n] # emptied(n) /\ Method[n] = "file"
    BY <2>2, <1>c, <1>m, <1>b DEF Overlaid
  <2>3. CASE given[n] # emptied(n) /\ Method[n] # "file"
    <3>1. given[n] \in [Key -> Nat] /\ given[n] # Torn
      BY <2>3, <1>m, <1>t DEF TypeOK
    <3>2. PICK S \in SUBSET Key : c = [l \in Key |-> IF l \in S THEN given[n][l] ELSE buf[r][l]]
      BY <2>3, <1>c DEF Overlaid
    <3>3. \A l \in Key : given[n][l] # 0 => <<n, l>> \in sanctioned
      BY <3>1, <1>m, InvParts DEF GivenAsPlanned, sanctioned
    <3>4. c \in [Key -> Nat]
      BY <3>1, <3>2, <1>m
    <3> QED BY <3>2, <3>3, <3>4, <1>b
  <2> QED BY <2>1, <2>2, <2>3
<1>g. /\ given' \in [Node -> [Key -> Nat] \cup {Torn}]
      /\ \A x \in Node \ {n} : given'[x] = given[x]
      /\ given'[n] = c
  BY <1>m, <1>c, <1>C, <1>t DEF TypeOK
<1>f. UNCHANGED <<plan, keys, pick, secrets, result, store, agreed, reissued>>
  BY <1>m, InjectedFacts
<1>o. /\ \A i \in Job \ {r} : pc'[i] = pc[i] /\ buf'[i] = buf[i]
      /\ pc'[r] = "run"
      /\ \A i \in Job \ {r} : \A x : HasFile(i, x)' <=> HasFile(i, x)
      /\ \A x : ~HasFile(r, x)'
  BY <1>m, InjectedFacts
<1>1. TypeOK'
  <2>1. disturbed' \subseteq Job
    BY <1>m, <1>t DEF TypeOK
  <2>2. \A x \in Node : given'[x] = Torn => Method[x] = "file"
    BY <1>g, <1>C, <1>t, FabricAssumption DEF TypeOK
  <2> QED BY <2>1, <2>2, <1>m, <1>g, InjectedFacts
<1>2. GivenAsPlanned'
  BY <1>g, <1>C, <1>f, InvParts DEF GivenAsPlanned, sanctioned
<1>3. \A j \in Job : Memory(j)'
  BY <1>m, InjectedFacts
<1>4. \A j \in Job \ disturbed' : \A i \in Job \ {j} : pc'[i] # "idle" => Clear(j, i)'
  BY <1>m, InvParts, InjectedFacts
<1>5. ASSUME NEW j \in Job \ disturbed' PROVE Valued(j)' /\ Kept(j)' /\ Emptied(j)'
  <2>1. Valued(j) /\ Kept(j) /\ Emptied(j) /\ j \in Job \ disturbed
    BY <1>m, InvParts
  <2>2. Valued(j)' /\ rewrites(j)' = rewrites(j) /\ (Succeeds(j)' => Succeeds(j))
    BY <2>1, <1>m, InjectedFacts
  <2>3. ASSUME n \in rewrites(j)
        PROVE  /\ given'[n] = buf[r] /\ given'[n] # Torn
               /\ \A i \in Job \ {r} : ~HasFile(i, n)
    <3>1. given[n] = emptied(n)
      BY <2>1, <2>3, <1>m, <1>b DEF Emptied
    <3>2. ASSUME NEW i \in Job \ {r}, HasFile(i, n) PROVE FALSE
      <4>1. n \in rewrites(i) /\ pc[i] # "idle"
        BY <3>2, HolderTurn, InvParts
      <4> QED BY <4>1, <2>1, <2>3, <1>b, <1>m, OneHolder
    <3> QED BY <3>1, <3>2, <1>c, <1>g, <1>m, FabricAssumption
  <2>4. Emptied(j)'
    <3>1. ASSUME NEW i \in Job, NEW x \in rewrites(j), pc'[i] = "write", HasFile(i, x)'
          PROVE  given'[x] = emptied(x)
      <4>1. i # r /\ pc[i] = "write" /\ HasFile(i, x)
        BY <3>1, <1>o
      <4>2. x # n /\ x \in Node
        BY <4>1, <2>3, <3>1, <1>t, WiresType
      <4> QED BY <4>1, <4>2, <1>g, <2>1 DEF Emptied
    <3> QED BY <3>1, <2>2 DEF Emptied, emptied
  <2>5. ASSUME NEW u \in seen_to(j), Succeeds(j) PROVE Stays(u)'
    <3>1. u \in wires(j) /\ u[1] \in Node /\ u[2] \in Key /\ Stays(u)
          /\ (Method[u[1]] # "api" => u[1] \in rewrites(j))
      BY <2>1, <2>5, <1>t, WiresType DEF seen_to, Kept
    <3>2. CASE u[1] = n
      <4>1. buf[r][u[2]] = store[u[2]]
        BY <3>1, <3>2, <1>b DEF Stays
      <4> QED BY <4>1, <3>1, <3>2, <2>3, <1>b, <1>f, <1>o DEF Stays, Holds
    <3>3. CASE u[1] # n
      <4>1. given'[u[1]] = given[u[1]] /\ ~HasFile(r, u[1])
        BY <3>1, <3>3, <1>g, <1>m, <1>t, TurnHasFile
      <4> QED BY <4>1, <3>1, <1>f, <1>o DEF Stays, Holds
    <3> QED BY <3>2, <3>3
  <2>6. CASE j # r
    <3>1. seen_to(j)' = seen_to(j)
      BY <2>6, <1>m, InjectedFacts
    <3> QED BY <3>1, <2>2, <2>4, <2>5 DEF Kept
  <2>7. CASE j = r
    <3>1. seen_to(r)' \subseteq seen_to(r) \cup {w}
      BY <1>m, InjectedFacts
    <3>2. Stays(w)'
      <4>1. secrets[r][k] = store[k]
        BY <2>1, <2>7, <1>m, <1>t, AtTurn DEF Valued
      <4>2. given'[n] = buf[r] /\ given'[n] # Torn /\ \A i \in Job \ {r} : ~HasFile(i, n)
        BY <2>3, <2>7, <1>b
      <4> QED BY <4>1, <4>2, <1>b, <1>f, <1>o DEF Stays, Holds
    <3> QED BY <3>1, <3>2, <2>2, <2>4, <2>5, <2>7 DEF Kept
  <2> QED BY <2>6, <2>7
<1> QED BY <1>1, <1>2, <1>3, <1>4, <1>5, InvPartsNext

-----------------------------------------------------------------------------
(* The first halves of a rewriting.                                         *)

\* A step of r from one point of an injection to the next: what it leaves.
LEMMA MidwayFacts ==
    ASSUME FabricInv, NEW r \in Job, NEW w \in Node \X Key, Turn(r, w), NEW at,
           at \in {"open", "write"}, pc[r] \in {"run", "open"}, pc' = [pc EXCEPT ![r] = at],
           UNCHANGED <<plan, keys, pick, secrets, todo, ok, result, store, agreed, reissued, disturbed>>
    PROVE  /\ pc'[r] = at /\ \A i \in Job \ {r} : pc'[i] = pc[i]
           /\ \A i \in Job : \A x : Turn(i, x)' <=> Turn(i, x)
           /\ \A j \in Job : /\ wires(j)' = wires(j) /\ rewrites(j)' = rewrites(j)
                             /\ seen_to(j)' = seen_to(j) /\ Succeeds(j)' = Succeeds(j)
                             /\ Valued(j) => Valued(j)'
           /\ \A j, i \in Job : Clear(j, i) => Clear(j, i)'
           /\ \A i \in Job \ {r} : \A x : HasFile(i, x)' <=> HasFile(i, x)
           /\ HasFile(r, w[1])' /\ \A x : HasFile(r, x)' => x = w[1]
<1>t. TypeOK /\ Memory(r)
  BY InvParts
<1>1. pc'[r] = at /\ \A i \in Job \ {r} : pc'[i] = pc[i]
  BY <1>t DEF TypeOK
<1>2. \A x \in Job : (pc'[x] # "idle") <=> (pc[x] # "idle")
  BY <1>1
<1>3. \A i \in Job : \A x : Turn(i, x)' <=> Turn(i, x)
  BY SameTurns
<1>4. \A j \in Job : /\ wires(j)' = wires(j) /\ rewrites(j)' = rewrites(j)
                     /\ seen_to(j)' = seen_to(j) /\ Succeeds(j)' = Succeeds(j)
                     /\ Valued(j) => Valued(j)'
  BY <1>2, SameWires DEF seen_to, Succeeds, Valued
<1>5. \A j, i \in Job : Clear(j, i) => Clear(j, i)'
  BY <1>2, ClearKeeps
<1>6. \A i \in Job \ {r} : \A x : HasFile(i, x)' <=> HasFile(i, x)
  BY <1>1, SameHolder
<1>7. HasFile(r, w[1])'
  BY <1>1, <1>3 DEF HasFile
<1>8. ASSUME NEW x, HasFile(r, x)' PROVE x = w[1]
  <2>1. PICK l \in Key : Turn(r, <<x, l>>)
    BY <1>8, <1>3 DEF HasFile
  <2> QED BY <2>1, <1>t, OneTurn
<1> QED BY <1>1, <1>3, <1>4, <1>5, <1>6, <1>7, <1>8

LEMMA ReadInv ==
    ASSUME FabricInv, NEW r \in Job, NEW w \in Node \X Key, Read(r, w)
    PROVE  FabricInv'
<1> DEFINE n == w[1]  k == w[2]  v == secrets[r][k]
<1>t. TypeOK /\ Memory(r)
  BY InvParts
<1>m. /\ Turn(r, w) /\ pc[r] = "run" /\ Method[n] # "api" /\ given[n] # Torn
      /\ pc' = [pc EXCEPT ![r] = "open"]
      /\ buf' = [buf EXCEPT ![r] = [given[n] EXCEPT ![k] = v]]
      /\ UNCHANGED <<registry, shown, given, mishaps, runs>>
      /\ UNCHANGED <<plan, keys, pick, secrets, todo, ok, result, store, agreed, reissued, disturbed>>
  BY DEF Read, jobVars
<1>n. n \in Node /\ k \in Key /\ w = <<n, k>> /\ given[n] \in [Key -> Nat] /\ v \in Nat
  BY <1>m, <1>t DEF TypeOK
<1>b. /\ buf'[r] = [given[n] EXCEPT ![k] = v] /\ buf'[r] \in [Key -> Nat]
      /\ \A i \in Job \ {r} : buf'[i] = buf[i]
      /\ buf' \in [Job -> [Key -> Nat]]
  BY <1>m, <1>n, <1>t DEF TypeOK
<1>w. /\ w \in todo[r] /\ w \in wires(r) /\ w \in sanctioned /\ n \in rewrites(r) /\ v # 0
      /\ serves(r, n)
  BY <1>m, <1>t, AtTurn, WiresType DEF Read
<1>o. /\ pc'[r] = "open" /\ \A i \in Job \ {r} : pc'[i] = pc[i]
      /\ \A i \in Job : \A x : Turn(i, x)' <=> Turn(i, x)
      /\ \A j \in Job : /\ wires(j)' = wires(j) /\ rewrites(j)' = rewrites(j)
                        /\ seen_to(j)' = seen_to(j) /\ Succeeds(j)' = Succeeds(j)
                        /\ Valued(j) => Valued(j)'
      /\ \A j, i \in Job : Clear(j, i) => Clear(j, i)'
      /\ \A i \in Job \ {r} : \A x : HasFile(i, x)' <=> HasFile(i, x)
      /\ \A x : HasFile(r, x)' => x = n
  BY <1>m, MidwayFacts
<1>1. TypeOK'
  BY <1>m, <1>b, <1>t DEF TypeOK, Plan
<1>2. GivenAsPlanned'
  BY <1>m, InvParts DEF GivenAsPlanned
<1>3. \A j \in Job : Memory(j)'
  <2>1. \A j \in Job \ {r} : Memory(j)'
    BY <1>m, <1>o, <1>b, InvParts, MemoryKeeps DEF sanctioned
  <2>2. sanctioned' = sanctioned
    BY <1>m DEF sanctioned
  <2>3. \A l \in Key : buf'[r][l] # 0 => <<n, l>> \in sanctioned
    BY <1>b, <1>n, <1>m, <1>w, InvParts DEF GivenAsPlanned, sanctioned
  <2>4. \A x \in todo[r] : Turn(r, x) => x = w
    BY <1>m, <1>t, OneTurn
  <2>5. buf'[r][k] = v
    BY <1>b, <1>n
  <2>s. serves(r, n)'
    BY <1>w, <1>m, SameWires
  <2>6. \A x \in todo'[r] : Turn(r, x)'
           => /\ serves(r, x[1])' /\ Method[x[1]] # "api" /\ buf'[r][x[2]] = secrets'[r][x[2]]
              /\ \A l \in Key : buf'[r][l] # 0 => <<x[1], l>> \in sanctioned'
    BY <2>2, <2>3, <2>4, <2>5, <2>s, <1>m, <1>o
  <2>7. \E x \in todo'[r] : Turn(r, x)'
    BY <1>w, <1>m, <1>o
  <2> QED BY <2>1, <2>2, <2>6, <2>7, <1>m, <1>o, <1>t DEF Memory
<1>4. \A j \in Job \ disturbed' : \A i \in Job \ {j} : pc'[i] # "idle" => Clear(j, i)'
  BY <1>m, <1>o, InvParts
<1>5. ASSUME NEW j \in Job \ disturbed' PROVE Valued(j)' /\ Kept(j)' /\ Emptied(j)'
  <2>1. Valued(j) /\ Kept(j) /\ Emptied(j) /\ j \in Job \ disturbed
    BY <1>m, InvParts
  <2>2. Valued(j)'
    BY <2>1, <1>o
  <2>3. Emptied(j)'
    <3>1. \A i \in Job : pc'[i] = "write" => i # r
      BY <1>o
    <3> QED BY <3>1, <2>1, <1>o, <1>m DEF Emptied, emptied
  <2>4. ASSUME NEW u \in seen_to(j), Succeeds(j) PROVE Stays(u)'
    <3>1. u \in wires(j) /\ u \in Node \X Key /\ Stays(u)
          /\ (Method[u[1]] # "api" => u[1] \in rewrites(j))
      BY <2>1, <2>4, <1>t, WiresType DEF seen_to, Kept
    <3>2. CASE u[1] = n
      <4>1. n \in rewrites(j)
        BY <3>1, <3>2, <1>m
      <4>2. ~\E i \in Job : pc[i] = "write" /\ HasFile(i, n)
        <5> SUFFICES ASSUME NEW i \in Job, pc[i] = "write", HasFile(i, n) PROVE FALSE
          OBVIOUS
        <5>1. n \in rewrites(i)
          BY HolderTurn, InvParts
        <5> QED BY <5>1, <4>1, <2>1, <1>w, <1>m, OneHolder
      <4>3. given[n][u[2]] = store[u[2]]
        BY <3>1, <3>2, <4>2 DEF Stays, Holds
      <4>4. u[2] # k
        <5>1. CASE j = r
          BY <5>1, <3>1, <3>2, <2>4, <1>w, <1>n DEF seen_to
        <5>2. CASE j # r
          BY <5>2, <3>1, <2>1, <1>m, <1>t, AtTurn, OthersKey
        <5> QED BY <5>1, <5>2
      <4>5. buf'[r][u[2]] = store[u[2]]
        BY <4>3, <4>4, <3>1, <1>b, <1>n
      <4> QED BY <4>3, <4>5, <3>1, <3>2, <1>m, <1>o, <1>b DEF Stays, Holds
    <3>3. CASE u[1] # n
      <4>1. ~HasFile(r, u[1])' /\ \A i \in Job : pc[i] = "write" => i # r
        BY <3>3, <1>o, <1>m
      <4> QED BY <4>1, <3>1, <1>m, <1>o, <1>b DEF Stays, Holds
    <3> QED BY <3>2, <3>3
  <2> QED BY <2>2, <2>3, <2>4, <1>o DEF Kept
<1> QED BY <1>1, <1>2, <1>3, <1>4, <1>5, InvPartsNext

LEMMA OpenInv ==
    ASSUME FabricInv, NEW r \in Job, NEW w \in Node \X Key, Open(r, w)
    PROVE  FabricInv'
<1> DEFINE n == w[1]
<1>t. TypeOK /\ Memory(r)
  BY InvParts
<1>m. /\ Turn(r, w) /\ pc[r] = "open"
      /\ pc' = [pc EXCEPT ![r] = "write"]
      /\ given' = [given EXCEPT ![n] = emptied(n)]
      /\ UNCHANGED <<registry, shown, buf, mishaps, runs>>
      /\ UNCHANGED <<plan, keys, pick, secrets, todo, ok, result, store, agreed, reissued, disturbed>>
  BY DEF Open, jobVars
<1>n. /\ n \in Node /\ n \in rewrites(r) /\ Method[n] # "api" /\ HasFile(r, n)
  BY <1>m, <1>t, TurnHasFile, HolderTurn
<1>e. emptied(n) = NoKeys \/ (emptied(n) = Torn /\ Method[n] = "file")
  BY <1>n, FabricAssumption DEF emptied
<1>g. /\ given'[n] = emptied(n) /\ \A x \in Node \ {n} : given'[x] = given[x]
      /\ given' \in [Node -> [Key -> Nat] \cup {Torn}]
  BY <1>m, <1>n, <1>e, <1>t, NoKeysType DEF TypeOK
<1>o. /\ pc'[r] = "write" /\ \A i \in Job \ {r} : pc'[i] = pc[i]
      /\ \A i \in Job : \A x : Turn(i, x)' <=> Turn(i, x)
      /\ \A j \in Job : /\ wires(j)' = wires(j) /\ rewrites(j)' = rewrites(j)
                        /\ seen_to(j)' = seen_to(j) /\ Succeeds(j)' = Succeeds(j)
                        /\ Valued(j) => Valued(j)'
      /\ \A j, i \in Job : Clear(j, i) => Clear(j, i)'
      /\ \A i \in Job \ {r} : \A x : HasFile(i, x)' <=> HasFile(i, x)
      /\ HasFile(r, n)' /\ \A x : HasFile(r, x)' => x = n
  BY <1>m, MidwayFacts
<1>1. TypeOK'
  <2>1. \A x \in Node : given'[x] = Torn => Method[x] = "file"
    BY <1>g, <1>e, <1>t, NoKeysType, FabricAssumption DEF TypeOK
  <2> QED BY <2>1, <1>m, <1>g, <1>t DEF TypeOK, Plan
<1>2. GivenAsPlanned'
  BY <1>g, <1>e, <1>m, InvParts, NoKeysType DEF GivenAsPlanned
<1>3. \A j \in Job : Memory(j)'
  <2>1. \A j \in Job \ {r} : Memory(j)'
    BY <1>m, <1>o, InvParts, MemoryKeeps DEF sanctioned
  <2>2. \A x : serves(r, x)' <=> serves(r, x)
    BY <1>m, SameWires
  <2>3. Memory(r)'
    BY <2>2, <1>m, <1>o, <1>t DEF Memory, sanctioned
  <2> QED BY <2>1, <2>3
<1>4. \A j \in Job \ disturbed' : \A i \in Job \ {j} : pc'[i] # "idle" => Clear(j, i)'
  BY <1>m, <1>o, InvParts
<1>5. ASSUME NEW j \in Job \ disturbed' PROVE Valued(j)' /\ Kept(j)' /\ Emptied(j)'
  <2>1. Valued(j) /\ Kept(j) /\ Emptied(j) /\ j \in Job \ disturbed
    BY <1>m, InvParts
  <2>2. Valued(j)'
    BY <2>1, <1>o
  <2>3. ASSUME NEW i \in Job, NEW x \in rewrites(j), pc'[i] = "write", HasFile(i, x)'
        PROVE  given'[x] = emptied(x)
    <3>1. CASE x = n
      BY <3>1, <1>g
    <3>2. CASE x # n
      <4>1. i # r /\ x \in Node
        BY <2>3, <3>2, <1>o, <1>t, WiresType
      <4> QED BY <4>1, <3>2, <2>3, <2>1, <1>g, <1>o DEF Emptied
    <3> QED BY <3>1, <3>2
  <2>4. Emptied(j)'
    BY <2>3, <1>o DEF Emptied, emptied
  <2>5. ASSUME NEW u \in seen_to(j), Succeeds(j) PROVE Stays(u)'
    <3>1. u \in wires(j) /\ u[1] \in Node /\ Stays(u)
      BY <2>1, <2>5, <1>t, WiresType DEF seen_to, Kept
    <3>2. \A i \in Job : HasFile(i, u[1])' => HasFile(i, u[1])
      BY <1>o, <1>n
    <3>3. \A i \in Job : HasFile(i, u[1])' => buf'[i][u[2]] = store'[u[2]]
      BY <3>1, <3>2, <1>m DEF Stays
    <3>4. CASE u[1] = n
      BY <3>3, <3>4, <1>o DEF Stays
    <3>5. CASE u[1] # n /\ Holds(u[1], u[2], store[u[2]])
      BY <3>1, <3>3, <3>5, <1>g, <1>m DEF Stays, Holds
    <3>6. CASE \E i \in Job : pc[i] = "write" /\ HasFile(i, u[1])
      BY <3>3, <3>6, <1>m, <1>o DEF Stays
    <3> QED BY <3>1, <3>4, <3>5, <3>6 DEF Stays
  <2> QED BY <2>2, <2>4, <2>5, <1>o DEF Kept
<1> QED BY <1>1, <1>2, <1>3, <1>4, <1>5, InvPartsNext

-----------------------------------------------------------------------------
(* Starting.                                                                *)

LEMMA StartInv ==
    ASSUME FabricInv, NEW r \in Job, NEW K \in SUBSET Key,
           NEW picks \in [Node -> Kind], Start(r, K, picks),
           agreed \subseteq agreed', reissued \subseteq reissued',
           agreed' \subseteq Node \X Key, reissued' \subseteq Node \X Key,
           targets_for(all_nodes, Key) \subseteq sanctioned'
    PROVE  FabricInv'
<1> DEFINE P == all_nodes
           same == {i \in Job \ {r} : keys[i] \cap K # {}}
           near == {i \in Job \ {r} : rewrites(i) \cap files(P, K, picks) # {}}
           met  == {i \in same \cup near : pc[i] # "idle"}
           near_met == {i \in Job : \E m \in met : rewrites(i) \cap rewrites(m) # {}}
<1>t. TypeOK /\ Memory(r)
  BY InvParts
<1>m. /\ pc[r] = "idle" /\ runs < MaxRuns /\ runs' = runs + 1
      /\ plan' = [plan EXCEPT ![r] = P] /\ keys' = [keys EXCEPT ![r] = K]
      /\ pick' = [pick EXCEPT ![r] = picks]
      /\ todo' = [todo EXCEPT ![r] = targets_for(P, K)]
      /\ result' = [result EXCEPT ![r] = "none"] /\ pc' = [pc EXCEPT ![r] = "run"]
      /\ UNCHANGED <<registry, shown, secrets, ok, buf, store, given, mishaps>>
  BY DEF Start
<1>r. /\ plan'[r] = P /\ keys'[r] = K /\ pick'[r] = picks /\ todo'[r] = targets_for(P, K)
      /\ result'[r] = "none" /\ pc'[r] = "run" /\ secrets'[r] = NoKeys
  BY <1>m, <1>t DEF TypeOK, Memory
<1>o. \A i \in Job \ {r} :
         /\ plan'[i] = plan[i] /\ keys'[i] = keys[i] /\ pick'[i] = pick[i] /\ todo'[i] = todo[i]
         /\ result'[i] = result[i] /\ pc'[i] = pc[i] /\ secrets'[i] = secrets[i]
         /\ ok'[i] = ok[i] /\ buf'[i] = buf[i]
  BY <1>m, <1>t DEF TypeOK
<1>d. /\ disturbed' = (disturbed \ {r}) \cup same
                        \cup (IF met = {} THEN {} ELSE {r} \cup met \cup near \cup near_met)
      /\ disturbed' \subseteq Job
  BY <1>t DEF Start, DisturbedBy, TypeOK
<1>w. /\ wires(r)' = targets_for(P, K) /\ rewrites(r)' = files(P, K, picks)
      /\ \A i \in Job \ {r} : wires(i)' = wires(i) /\ rewrites(i)' = rewrites(i)
  <2>1. wires(r)' = targets_for(P, K)
    BY <1>r DEF wires, targets_for
  <2>2. rewrites(r)' = files(P, K, picks)
    BY <1>r DEF rewrites, files, targets_for
  <2> QED BY <2>1, <2>2, <1>o, SameWires
<1>s. sanctioned \subseteq sanctioned'
  BY DEF sanctioned
<1>1. TypeOK'
  <2>1. runs' \in 0 .. MaxRuns
    BY <1>m, <1>t, FabricAssumption DEF TypeOK
  <2>2. P \in Plan /\ targets_for(P, K) \subseteq Node \X Key
    BY <1>t, PlanType, TargetsType
  <2>3. /\ plan' \in [Job -> Plan] /\ keys' \in [Job -> SUBSET Key]
        /\ pick' \in [Job -> [Node -> Kind]]
        /\ todo' \in [Job -> SUBSET (Node \X Key)]
        /\ pc' \in [Job -> {"idle", "run", "open", "write"}]
        /\ result' \in [Job -> {"none", "ok", "failed"}]
    BY <2>2, <1>m, <1>t DEF TypeOK
  <2> QED BY <2>1, <2>3, <1>m, <1>d, <1>t DEF TypeOK, Plan
<1>2. GivenAsPlanned'
  BY <1>m, <1>s, InvParts DEF GivenAsPlanned, sanctioned
<1>3. \A j \in Job : Memory(j)'
  <2>1. \A j \in Job \ {r} : Memory(j)'
    BY <1>o, <1>s, InvParts, MemoryKeeps
  <2>2. seen_to(r)' = {} /\ todo'[r] \subseteq wires(r)' \cap sanctioned'
    BY <1>r, <1>w, TargetsType DEF seen_to
  <2>3. Memory(r)'
    BY <2>2, <1>r DEF Memory
  <2> QED BY <2>1, <2>3
<1>h. /\ \A i \in Job \ {r} : \A x : HasFile(i, x)' <=> HasFile(i, x)
      /\ \A x : ~HasFile(r, x)' /\ ~HasFile(r, x)
  <2>1. \A i \in Job \ {r} : \A x : HasFile(i, x)' <=> HasFile(i, x)
    BY <1>o, SameHolder
  <2> QED BY <2>1, <1>m, <1>r DEF HasFile
<1>4. ASSUME NEW j \in Job \ disturbed', NEW i \in Job \ {j}, pc'[i] # "idle"
      PROVE  Clear(j, i)'
  <2>1. CASE j = r
    <3>1. met = {}
      BY <2>1, <1>d
    <3>2. i \in Job \ {r} /\ pc[i] # "idle" /\ i \notin same /\ i \notin near
      BY <2>1, <3>1, <1>4, <1>o
    <3>3. keys'[i] \cap keys'[r] = {} /\ rewrites(i)' \cap rewrites(r)' = {}
      BY <3>2, <1>o, <1>r, <1>w
    <3> QED BY <2>1, <3>3 DEF Clear
  <2>2. CASE j # r /\ i = r
    <3>1. j \in Job \ {r} /\ j \notin same
      BY <2>2, <1>d
    <3>2. K \cap keys'[j] = {}
      BY <3>1, <1>o
    <3>3. near = {} \/ j \notin near \/ met = {}
      BY <3>1, <1>d
    <3>4. pc[j] # "idle" => rewrites(r)' \cap rewrites(j)' = {}
      BY <3>1, <3>3, <1>w
    <3>5. ASSUME NEW m \in Job \ {r, j}, pc'[m] # "idle", rewrites(r)' \cap rewrites(j)' # {},
                 rewrites(r)' \cap rewrites(m)' # {}
          PROVE  FALSE
      <4>1. j \in near /\ m \in near /\ pc[m] # "idle"
        BY <3>1, <3>5, <1>o, <1>w
      <4>2. m \in met
        BY <4>1
      <4> QED BY <4>1, <4>2, <3>3
    <3> QED BY <2>2, <3>1, <3>2, <3>4, <3>5, <1>r, <1>o DEF Clear
  <2>3. CASE j # r /\ i # r
    <3>1. Clear(j, i) /\ pc[i] # "idle" /\ j \in Job \ {r} /\ i \in Job \ {r}
      BY <2>3, <1>4, <1>d, <1>o, InvParts
    <3>2. keys'[i] \cap keys'[j] = {} /\ (pc'[j] # "idle" => rewrites(i)' \cap rewrites(j)' = {})
      BY <3>1, <1>o, <1>w DEF Clear
    <3>3. ASSUME NEW m \in Job \ {i, j}, pc'[m] # "idle", rewrites(i)' \cap rewrites(j)' # {}
          PROVE  rewrites(i)' \cap rewrites(m)' = {}
      <4>1. CASE m # r
        BY <4>1, <3>1, <3>3, <1>o, <1>w DEF Clear
      <4>2. CASE m = r
        <5> SUFFICES ASSUME rewrites(i)' \cap rewrites(r)' # {} PROVE FALSE
          BY <4>2
        <5>1. i \in near
          BY <3>1, <1>w
        <5>2. i \in met
          BY <5>1, <3>1
        <5>3. j \in near_met
          BY <5>2, <3>1, <3>3, <1>w
        <5> QED BY <5>2, <5>3, <1>d
      <4> QED BY <4>1, <4>2
    <3> QED BY <3>2, <3>3 DEF Clear
  <2> QED BY <2>1, <2>2, <2>3
<1>5. ASSUME NEW j \in Job \ disturbed', j # r PROVE Valued(j)' /\ Kept(j)' /\ Emptied(j)'
  <2>1. Valued(j) /\ Kept(j) /\ Emptied(j)
    BY <1>5, <1>d, InvParts
  <2> QED BY <2>1, <1>5, <1>m, <1>o, <1>r, <1>t, PlaceKeeps
<1>6. ASSUME r \notin disturbed' PROVE Valued(r)' /\ Kept(r)' /\ Emptied(r)'
  <2>1. seen_to(r)' = {}
    BY <1>r, <1>w DEF seen_to
  <2>2. K \subseteq Key
    OBVIOUS
  <2>3. Valued(r)'
    BY <2>2, <1>r, NoKeysType DEF Valued
  <2>4. ASSUME NEW i \in Job, NEW x \in files(P, K, picks), HasFile(i, x)' PROVE FALSE
    <3>1. i # r /\ HasFile(i, x)
      BY <2>4, <1>h
    <3>2. x \in rewrites(i) /\ pc[i] # "idle"
      BY <3>1, HolderTurn, InvParts
    <3>3. i \in met
      BY <3>1, <3>2, <2>4
    <3> QED BY <3>3, <1>6, <1>d
  <2>5. Emptied(r)'
    BY <2>4, <1>w DEF Emptied
  <2> QED BY <2>1, <2>3, <2>5 DEF Kept
<1> QED BY <1>1, <1>2, <1>3, <1>4, <1>5, <1>6, InvPartsNext

\* A plan with the hash of the one that was shown is the one that was shown.
LEMMA HashIsPlan ==
    ASSUME NEW p \in Plan, NEW q \in Plan, verify_approval(p, approve(q))
    PROVE  p = q
  BY DEF Plan, verify_approval, approve, plan_hash

LEMMA ApproveInv == ASSUME FabricInv, NEW r \in Job, Approve(r) PROVE FabricInv'
<1>t. TypeOK
  BY InvParts
<1>1. targets_for(all_nodes, Key) \subseteq Node \X Key
  BY TargetsType
<1>2. /\ \E picks \in Pickers : Start(r, mints(all_nodes), picks)
      /\ reissued' = reissued
      /\ agreed' = agreed \cup targets_for(all_nodes, Key)
  <2>1. shown[r] \in Plan /\ all_nodes \in Plan
    BY <1>t, PlanType DEF Approve, TypeOK
  <2>2. all_nodes = shown[r]
    BY <2>1, HashIsPlan DEF Approve
  <2> QED
    BY <2>2 DEF Approve
<1>3. mints(all_nodes) \in SUBSET Key
  BY <1>t, PlanType
<1>4. /\ agreed \subseteq agreed' /\ reissued \subseteq reissued'
      /\ agreed' \subseteq Node \X Key /\ reissued' \subseteq Node \X Key
      /\ targets_for(all_nodes, Key) \subseteq sanctioned'
  BY <1>1, <1>2, <1>t DEF TypeOK, sanctioned
<1>5. Pickers \subseteq [Node -> Kind]
  BY FabricAssumption DEF Pickers, one_for_all
<1> QED BY <1>2, <1>3, <1>4, <1>5, StartInv

LEMMA RotateInv == ASSUME FabricInv, NEW r \in Job, NEW K \in Rotated, Rotate(r, K) PROVE FabricInv'
<1> DEFINE L == IF K = {} THEN mints(all_nodes) ELSE K
<1>t. TypeOK
  BY InvParts
<1>1. targets_for(all_nodes, Key) \subseteq Node \X Key
  BY TargetsType
<1>2. /\ \E kind \in Injectors : Start(r, L, one_for_all(kind))
      /\ agreed' = agreed
      /\ reissued' = reissued \cup targets_for(all_nodes, Key)
  BY DEF Rotate
<1>3. L \in SUBSET Key
  BY <1>t, PlanType, FabricAssumption
<1>4. /\ agreed \subseteq agreed' /\ reissued \subseteq reissued'
      /\ agreed' \subseteq Node \X Key /\ reissued' \subseteq Node \X Key
      /\ targets_for(all_nodes, Key) \subseteq sanctioned'
  BY <1>1, <1>2, <1>t DEF TypeOK, sanctioned
<1>5. \A kind \in Injectors : one_for_all(kind) \in [Node -> Kind]
  BY FabricAssumption DEF one_for_all
<1> HIDE DEF L
<1> QED BY <1>2, <1>3, <1>4, <1>5, StartInv

-----------------------------------------------------------------------------
(* The theorems.                                                            *)

LEMMA NextInv == FabricInv /\ [Next]_vars => FabricInv'
<1> SUFFICES ASSUME FabricInv, [Next]_vars PROVE FabricInv'
  OBVIOUS
<1>1. CASE UNCHANGED vars
  BY <1>1, StutterInv
<1>2. CASE \E p \in Pack : Add(p)
  BY <1>2, AddInv
<1>3. ASSUME NEW j \in Job,
             \/ ShowPlan(j) \/ Approve(j)
             \/ \E K \in Rotated : Rotate(j, K)
             \/ \E k \in Key : Mint(j, k)
             \/ \E w \in Node \X Key : Inject(j, w)
             \/ Finish(j) \/ Die(j)
      PROVE  FabricInv'
  <2>1. CASE ShowPlan(j) \/ Approve(j)
    BY <2>1, ShowPlanInv, ApproveInv
  <2>2. CASE \E K \in Rotated : Rotate(j, K)
    BY <2>2, RotateInv
  <2>3. CASE \E k \in Key : Mint(j, k)
    BY <2>3, MintInv
  <2>4. ASSUME NEW w \in Node \X Key, Inject(j, w) PROVE FabricInv'
    BY <2>4, InjectFailsInv, MissInv, PostInv, ReadInv, OpenInv, WriteInv DEF Inject
  <2>5. CASE Finish(j) \/ Die(j)
    BY <2>5, FinishInv, DieInv
  <2> QED BY <1>3, <2>1, <2>2, <2>3, <2>4, <2>5
<1> QED BY <1>1, <1>2, <1>3 DEF Next

\* Jobs keep out of each other's way, or know that they did not, and what each
\* has injected is in place (executor.py:40-81).
THEOREM FabricInvariant == Spec => []FabricInv
<1> QED BY InitInv, NextInv, PTL DEF Spec

LEMMA InvWires == FabricInv => WiredTogether
<1> SUFFICES ASSUME FabricInv, NEW j \in Job, result[j] = "ok", j \notin disturbed,
                    NEW w \in targets_for(plan[j], keys[j]), serves(j, w[1])
             PROVE  Rewriting(w[1]) \/ Holds(w[1], w[2], store[w[2]])
  BY DEF WiredTogether
<1>1. todo[j] = {}
  BY InvParts DEF Memory
<1>2. w \in seen_to(j)
  BY <1>1 DEF seen_to, wires
<1>3. Stays(w)
  BY <1>2, InvParts DEF Kept, Succeeds
<1>4. ASSUME NEW i \in Job, pc[i] = "write", HasFile(i, w[1]) PROVE Rewriting(w[1])
  BY <1>4, HolderTurn, InvParts DEF Rewriting, rewrites
<1> QED BY <1>3, <1>4 DEF Stays

\* A run of execute or rotate that reported success left every node that touches
\* one of its keys, and that its injector serves, with the value the store has for
\* it; and there it stays (executor.py:6-11).  Runs that are disturbed are exempt:
\* another met them over a key or a file, minted one of their keys later, or died
\* rewriting one of their files.
THEOREM SuccessMeansWired == Spec => []WiredTogether
<1> QED BY FabricInvariant, InvWires, PTL

LEMMA InvPlanned == FabricInv => GivenAsPlanned
  BY DEF FabricInv

\* Nodes hold only what an approved or a rotated plan gives them
\* (web/server.py:183-191, executor.py:65-81).
THEOREM NodesAreGivenAsPlanned == Spec => []GivenAsPlanned
<1> QED BY FabricInvariant, InvPlanned, PTL
=============================================================================
