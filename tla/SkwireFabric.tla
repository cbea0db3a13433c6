---------------------------- MODULE SkwireFabric ----------------------------
(***************************************************************************)
(* v2/skwire: packs are registered, the merged graph is planned, a person     *)
(* approves the plan they were shown, and execute mints its secrets and       *)
(* injects each into every node that touches it; rotate does so again.        *)
(*                                                                          *)
(* Several of these run at once: the web server answers each request in a     *)
(* thread, and the crons that rotation.py offers all fire at 03:00.  They     *)
(* share the secret store and the targets, as they do once a deployment       *)
(* passes its own (README.md:135-159); what the requests of the demo server   *)
(* write, they keep to themselves.                                           *)
(*                                                                          *)
(* A secret's value is how often it was minted: mint() never repeats one.     *)
(* An injector gives a node its values if it is of the kind the node reads:    *)
(* the recording one, and one that writes another file than the node reads or  *)
(* posts to where nothing listens, change nothing for the node.               *)
(***************************************************************************)
EXTENDS Naturals, FiniteSets

CONSTANTS
    Job,        \* sessions and timers that execute and rotate
    Pack, Node, Key,
    Nodes,      \* what each pack contributes
    Needs,      \* its edges: consumer, provider, secret
    Method,     \* the injector that each node reads: env, file (JSON), api
    Routings,   \* what execute may be given to pick injectors by api_kind
    Injectors,  \* the single injectors that execute and rotate may be given
    Rank,       \* the place of <<node, key>> when sorted by key, then node
    Rotated,    \* the arguments rotate is called with; {} stands for all
    Torn,       \* a JSON config that does not parse
    NoPlan,
    MaxRuns,    \* bound: calls of execute and rotate
    MaxMishaps  \* bound: jobs that die

Edge == [consumer : Node, provider : Node, secret : Key]
NoKeys == [k \in Key |-> 0]
Kind == {"env", "file", "api", "record"}

ASSUME FabricAssumption ==
    /\ Nodes \in [Pack -> SUBSET Node]
    /\ Needs \in [Pack -> SUBSET Edge]
    /\ Method \in [Node -> {"env", "file", "api"}]
    /\ Routings \subseteq [Node -> Kind] /\ Injectors \subseteq Kind
    /\ Rank \in [Node \X Key -> Nat]
    /\ \A v, w \in Node \X Key : Rank[v] = Rank[w] => v = w
    /\ Rotated \subseteq SUBSET Key
    /\ Torn \notin [Key -> Nat]
    /\ MaxRuns \in Nat /\ MaxMishaps \in Nat

VARIABLES
    registry,   \* the registered packs
    shown,      \* the plan each person was last shown
    pc,         \* idle; run; open, write: inside an injector's write_text
    plan, keys, \* what each job works on
    pick,       \* the injector it picks for every node
    secrets,    \* the values it minted, 0 for none yet
    todo,       \* the <<node, key>> it has still to inject
    ok,         \* ok_all
    result,     \* none, ok, failed
    buf,        \* the content it will write
    store,      \* the secret store
    given,      \* the configuration of every node
    runs, mishaps,
    agreed,     \* history: what the plans that were approved wire
    reissued,   \* history: what the plans that were rotated wire
    disturbed   \* history: jobs another has met over a key or a file

jobVars == <<plan, keys, pick, runs, agreed, reissued>>
vars == <<registry, shown, pc, secrets, todo, ok, result, buf, store, given, mishaps, jobVars, disturbed>>

-----------------------------------------------------------------------------
(* Plans.                                                                   *)

Plan == [nodes : SUBSET Node, edges : SUBSET Edge]

\* The merged graph.
all_nodes ==
    [nodes |-> UNION {Nodes[p] : p \in registry},
     edges |-> UNION {Needs[p] : p \in registry}]

\* build_plan does not raise: providers are there, and there is no cycle.
Resolves(p) ==
    /\ \A e \in p.edges : e.provider \in p.nodes
    /\ \A S \in (SUBSET p.nodes) \ {{}} :
          \E n \in S : \A e \in p.edges : e.consumer = n => e.provider \notin S

mints(p) == {e.secret : e \in p.edges}

\* What the hash of a plan covers.
plan_hash(p) == <<p.nodes, p.edges, mints(p)>>

\* A token approves the plan with the hash that its approver was shown.
approve(p) == plan_hash(p)
verify_approval(p, token) == token = plan_hash(p)

\* Everyone who touches one of the secrets.
targets_for(p, K) ==
    {w \in Node \X K : \E e \in p.edges : e.secret = w[2] /\ w[1] \in {e.provider, e.consumer}}

\* _picker: one injector for all targets, or one per api_kind.
one_for_all(kind) == [n \in Node |-> kind]

\* The nodes whose whole file is rewritten for these secrets.
files(p, K, picks) ==
    {w[1] : w \in {v \in targets_for(p, K) : picks[v[1]] = Method[v[1]] /\ Method[v[1]] # "api"}}

-----------------------------------------------------------------------------
TypeOK ==
    /\ registry \subseteq Pack
    /\ shown \in [Job -> Plan \cup {NoPlan}]
    /\ pc \in [Job -> {"idle", "run", "open", "write"}]
    /\ plan \in [Job -> Plan] /\ keys \in [Job -> SUBSET Key] /\ pick \in [Job -> [Node -> Kind]]
    /\ secrets \in [Job -> [Key -> Nat]]
    /\ todo \in [Job -> SUBSET (Node \X Key)]
    /\ ok \in [Job -> BOOLEAN]
    /\ result \in [Job -> {"none", "ok", "failed"}]
    /\ buf \in [Job -> [Key -> Nat]]
    /\ store \in [Key -> Nat]
    /\ given \in [Node -> [Key -> Nat] \cup {Torn}]
    /\ \A n \in Node : given[n] = Torn => Method[n] = "file"
    /\ runs \in 0 .. MaxRuns /\ mishaps \in 0 .. MaxMishaps
    /\ agreed \subseteq Node \X Key /\ reissued \subseteq Node \X Key
    /\ disturbed \subseteq Job

Init ==
    /\ registry = {}
    /\ shown = [j \in Job |-> NoPlan]
    /\ pc = [j \in Job |-> "idle"]
    /\ plan = [j \in Job |-> [nodes |-> {}, edges |-> {}]]
    /\ keys = [j \in Job |-> {}]
    /\ pick = [j \in Job |-> one_for_all("record")]
    /\ secrets = [j \in Job |-> NoKeys]
    /\ todo = [j \in Job |-> {}]
    /\ ok = [j \in Job |-> TRUE]
    /\ result = [j \in Job |-> "none"]
    /\ buf = [j \in Job |-> NoKeys]
    /\ store = NoKeys
    /\ given = [n \in Node |-> NoKeys]
    /\ runs = 0 /\ mishaps = 0
    /\ agreed = {} /\ reissued = {}
    /\ disturbed = {}

-----------------------------------------------------------------------------
(* Packs and plans.                                                         *)

\* /api/add: register_pack raises for a pack that another thread registered
\* since install_offering looked.
Add(p) ==
    /\ p \notin registry
    /\ registry' = registry \cup {p}
    /\ UNCHANGED <<shown, pc, secrets, todo, ok, result, buf, store, given, mishaps, jobVars, disturbed>>

\* /api/plan.
ShowPlan(j) ==
    /\ pc[j] = "idle"
    /\ all_nodes.nodes # {}
    /\ Resolves(all_nodes)
    /\ shown' = [shown EXCEPT ![j] = all_nodes]
    /\ UNCHANGED <<registry, pc, secrets, todo, ok, result, buf, store, given, mishaps, jobVars, disturbed>>

\* The files j rewrites.
rewrites(j) == files(plan[j], keys[j], pick[j])

\* What j disturbs by starting: whoever has one of its keys; and, if it meets
\* a running job over a key or a file, itself and whoever shares their files.
DisturbedBy(j, p, K, picks) ==
    LET same == {i \in Job \ {j} : keys[i] \cap K # {}}
        near == {i \in Job \ {j} : rewrites(i) \cap files(p, K, picks) # {}}
        met  == {i \in same \cup near : pc[i] # "idle"}
        near_met == {i \in Job : \E m \in met : rewrites(i) \cap rewrites(m) # {}}
    IN  same \cup IF met = {} THEN {} ELSE {j} \cup met \cup near \cup near_met

Start(j, K, picks) ==
    /\ pc[j] = "idle"
    /\ runs < MaxRuns
    /\ all_nodes.nodes # {}
    /\ Resolves(all_nodes)
    /\ runs' = runs + 1
    /\ plan' = [plan EXCEPT ![j] = all_nodes]
    /\ keys' = [keys EXCEPT ![j] = K]
    /\ pick' = [pick EXCEPT ![j] = picks]
    /\ todo' = [todo EXCEPT ![j] = targets_for(all_nodes, K)]
    /\ result' = [result EXCEPT ![j] = "none"]
    /\ pc' = [pc EXCEPT ![j] = "run"]
    /\ disturbed' = (disturbed \ {j}) \cup DisturbedBy(j, all_nodes, K, picks)
    /\ UNCHANGED <<registry, shown, secrets, ok, buf, store, given, mishaps>>

\* What execute picks injectors by; the default is the recording one.
Pickers == Routings \cup {one_for_all(kind) : kind \in Injectors}

\* The plan is executed as it is by now.
ApproveAnything(j) ==
    /\ shown[j] # NoPlan
    /\ \E picks \in Pickers : Start(j, mints(all_nodes), picks)
    /\ agreed' = agreed \cup targets_for(shown[j], Key)
    /\ UNCHANGED reissued

\* /api/approve: the plan is built again, and must be the one that was shown.
Approve(j) ==
    /\ shown[j] # NoPlan
    /\ verify_approval(all_nodes, approve(shown[j]))
    /\ \E picks \in Pickers : Start(j, mints(all_nodes), picks)
    /\ agreed' = agreed \cup targets_for(shown[j], Key)
    /\ UNCHANGED reissued

\* skwire rotate: whatever is registered now, no approval, and one injector for
\* all the targets, whatever each of them reads.
Rotate(j, K) ==
    /\ \E kind \in Injectors :
          Start(j, IF K = {} THEN mints(all_nodes) ELSE K, one_for_all(kind))
    /\ reissued' = reissued \cup targets_for(all_nodes, Key)
    /\ UNCHANGED agreed

-----------------------------------------------------------------------------
(* execute and rotate.                                                      *)

\* Every secret is minted before the first is injected.
Mint(j, k) ==
    /\ pc[j] = "run"
    /\ k \in keys[j]
    /\ secrets[j][k] = 0
    /\ store' = [store EXCEPT ![k] = @ + 1]
    /\ secrets' = [secrets EXCEPT ![j][k] = store[k] + 1]
    /\ UNCHANGED <<registry, shown, pc, todo, ok, result, buf, given, mishaps, jobVars, disturbed>>

\* The node and the key the loop is at.
Turn(j, w) ==
    /\ \A k \in keys[j] : secrets[j][k] # 0
    /\ w \in todo[j]
    /\ \A v \in todo[j] : Rank[w] <= Rank[v]

\* Only the last result counts.
InjectedLast(j, w, success) ==
    /\ todo' = [todo EXCEPT ![j] = @ \ {w}]
    /\ ok' = [ok EXCEPT ![j] = success]
    /\ pc' = [pc EXCEPT ![j] = "run"]
    /\ buf' = [buf EXCEPT ![j] = NoKeys]
    /\ UNCHANGED <<registry, shown, secrets, result, store, mishaps, jobVars>>

\* The injector reported success or not, and the loop goes on.
Injected(j, w, success) ==
    /\ todo' = [todo EXCEPT ![j] = @ \ {w}]
    /\ ok' = [ok EXCEPT ![j] = @ /\ success]
    /\ pc' = [pc EXCEPT ![j] = "run"]
    /\ buf' = [buf EXCEPT ![j] = NoKeys]
    /\ UNCHANGED <<registry, shown, secrets, result, store, mishaps, jobVars>>

\* Whose nodes lose what they hold if j stops now: nobody's, unless it has
\* just emptied a file.
LeftEmpty(j) ==
    IF pc[j] = "write"
    THEN {i \in Job : rewrites(i) \cap rewrites(j) # {}}
    ELSE {}

\* It raises: no connection, a JSON config that does not parse, a full disk.
InjectFails(j, w) ==
    /\ Turn(j, w)
    /\ pc[j] # "idle"
    /\ Injected(j, w, FALSE)
    /\ disturbed' = disturbed \cup LeftEmpty(j)
    /\ UNCHANGED given

\* The injector that j picks is of the kind that node n reads.
serves(j, n) == pick[j][n] = Method[n]

\* Otherwise it reports success all the same, and the node gets nothing.
Miss(j, w) ==
    /\ pc[j] = "run"
    /\ Turn(j, w)
    /\ ~serves(j, w[1])
    /\ Injected(j, w, TRUE)
    /\ UNCHANGED <<given, disturbed>>

\* One POST per value; it may have taken effect although it is not answered.
Post(j, w) ==
    /\ pc[j] = "run"
    /\ Turn(j, w)
    /\ serves(j, w[1]) /\ Method[w[1]] = "api"
    /\ given' = [given EXCEPT ![w[1]][w[2]] = secrets[j][w[2]]]
    /\ \E success \in BOOLEAN : Injected(j, w, success)
    /\ UNCHANGED disturbed

\* The file will hold this value only.
ReadNothing(j, w) ==
    /\ pc[j] = "run"
    /\ Turn(j, w)
    /\ serves(j, w[1]) /\ Method[w[1]] # "api"
    /\ given[w[1]] # Torn
    /\ buf' = [buf EXCEPT ![j] = [NoKeys EXCEPT ![w[2]] = secrets[j][w[2]]]]
    /\ pc' = [pc EXCEPT ![j] = "open"]
    /\ UNCHANGED <<registry, shown, secrets, todo, ok, result, store, given, mishaps, jobVars, disturbed>>

\* The other injectors read the whole file ...
Read(j, w) ==
    /\ pc[j] = "run"
    /\ Turn(j, w)
    /\ serves(j, w[1]) /\ Method[w[1]] # "api"
    /\ given[w[1]] # Torn
    /\ buf' = [buf EXCEPT ![j] = [given[w[1]] EXCEPT ![w[2]] = secrets[j][w[2]]]]
    /\ pc' = [pc EXCEPT ![j] = "open"]
    /\ UNCHANGED <<registry, shown, secrets, todo, ok, result, store, given, mishaps, jobVars, disturbed>>

\* An emptied .env file has no keys; an emptied JSON file does not parse.
emptied(n) == IF Method[n] = "env" THEN NoKeys ELSE Torn

\* ... truncate it ...
Open(j, w) ==
    /\ pc[j] = "open"
    /\ Turn(j, w)
    /\ given' = [given EXCEPT ![w[1]] = emptied(w[1])]
    /\ pc' = [pc EXCEPT ![j] = "write"]
    /\ UNCHANGED <<registry, shown, secrets, todo, ok, result, buf, store, mishaps, jobVars, disturbed>>

\* What the end of a longer text that another job has written since then adds.
Overlaid(n, own, other) ==
    IF Method[n] = "file" THEN {own, Torn}
    ELSE {[k \in Key |-> IF k \in S THEN other[k] ELSE own[k]] : S \in SUBSET Key}

\* ... and write it.
Write(j, w) ==
    /\ pc[j] = "write"
    /\ Turn(j, w)
    /\ \E c \in IF given[w[1]] = emptied(w[1]) THEN {buf[j]}
                ELSE Overlaid(w[1], buf[j], given[w[1]]) :
          given' = [given EXCEPT ![w[1]] = c]
    /\ Injected(j, w, TRUE)
    /\ UNCHANGED disturbed

\* The job ends, and its memory is gone.
Over(j, how) ==
    /\ result' = [result EXCEPT ![j] = how]
    /\ pc' = [pc EXCEPT ![j] = "idle"]
    /\ secrets' = [secrets EXCEPT ![j] = NoKeys]
    /\ buf' = [buf EXCEPT ![j] = NoKeys]
    /\ todo' = [todo EXCEPT ![j] = {}]
    /\ ok' = [ok EXCEPT ![j] = TRUE]
    /\ UNCHANGED <<registry, shown, store, given, jobVars>>

Finish(j) ==
    /\ pc[j] = "run"
    /\ \A k \in keys[j] : secrets[j][k] # 0
    /\ todo[j] = {}
    /\ Over(j, IF ok[j] THEN "ok" ELSE "failed")
    /\ UNCHANGED <<mishaps, disturbed>>

\* The process is killed, or the store raises.
Die(j) ==
    /\ pc[j] # "idle"
    /\ mishaps < MaxMishaps
    /\ mishaps' = mishaps + 1
    /\ Over(j, "failed")
    /\ disturbed' = disturbed \cup LeftEmpty(j)

Inject(j, w) ==
    InjectFails(j, w) \/ Miss(j, w) \/ Post(j, w) \/ Read(j, w) \/ Open(j, w) \/ Write(j, w)

Next ==
    \/ \E p \in Pack : Add(p)
    \/ \E j \in Job :
          \/ ShowPlan(j) \/ Approve(j)
          \/ \E K \in Rotated : Rotate(j, K)
          \/ \E k \in Key : Mint(j, k)
          \/ \E w \in Node \X Key : Inject(j, w)
          \/ Finish(j) \/ Die(j)

Spec == Init /\ [][Next]_vars

-----------------------------------------------------------------------------
(* Properties.                                                              *)

\* n holds value v of key k.
Holds(n, k, v) == given[n] # Torn /\ given[n][k] = v

\* Node n is between the two halves of a write.
Rewriting(n) ==
    \E j \in Job : pc[j] = "write" /\ n \in rewrites(j)

\* A run that reports success left every node that touches one of its keys, and
\* that the injector it was given serves, with the value the store has for it
\* (executor.py:6-11), and there it stays while runs for other keys come and go,
\* although they rewrite the same files: until its keys are minted again, a run
\* dies rewriting one of its files, or two runs overlap over a key or a file.
\* A rotation with a single injector that not every node reads leaves the others
\* with the old value, and reports success of them too (executor.py:55-62, 75-79).
WiredTogether ==
    \A j \in Job :
        result[j] = "ok" /\ j \notin disturbed
            => \A w \in targets_for(plan[j], keys[j]) :
                  serves(j, w[1]) =>
                      Rewriting(w[1]) \/ Holds(w[1], w[2], store[w[2]])

\* A node holds a key only if a plan says so that somebody approved after
\* having seen it, or that was rotated (executor.py:65-81), although packs are
\* added all the time.
GivenAsPlanned ==
    \A n \in Node, k \in Key :
        given[n] # Torn /\ given[n][k] # 0 => <<n, k>> \in agreed \cup reissued

\* The invariant behind the two.
\* What j works on, and what it has seen to so far.
wires(j) == targets_for(plan[j], keys[j])
seen_to(j) == {w \in wires(j) \ todo[j] : serves(j, w[1])}

\* Job i is between reading and writing the file of node n.
HasFile(i, n) == \E k \in Key : pc[i] \in {"open", "write"} /\ Turn(i, <<n, k>>)

\* What each job remembers.
MemoryOK ==
    \A j \in Job :
        /\ todo[j] \subseteq wires(j) \cap (agreed \cup reissued)
        /\ pc[j] = "idle" => todo[j] = {} /\ ok[j] /\ secrets[j] = NoKeys
        /\ pc[j] # "idle" => result[j] = "none"
        /\ (\E k \in keys[j] : secrets[j][k] = 0) /\ pc[j] # "idle" => seen_to(j) = {}
        /\ pc[j] \in {"open", "write"}
              => /\ \E w \in todo[j] : Turn(j, w)
                 /\ \A w \in todo[j] : Turn(j, w)
                       => /\ serves(j, w[1]) /\ Method[w[1]] # "api"
                          /\ buf[j][w[2]] = secrets[j][w[2]]
                          /\ \A k \in Key : buf[j][k] # 0 => <<w[1], k>> \in agreed \cup reissued

\* Nobody runs for the keys of an undisturbed job, nor on its files while it
\* runs; and once it has ended, one at a time.
Apart ==
    \A j \in Job \ disturbed : \A i \in Job \ {j} : pc[i] # "idle" =>
        /\ keys[i] \cap keys[j] = {}
        /\ pc[j] # "idle" => rewrites(i) \cap rewrites(j) = {}
        /\ \A m \in Job \ {i, j} :
              /\ pc[m] # "idle"
              /\ rewrites(i) \cap rewrites(j) # {}
              => rewrites(i) \cap rewrites(m) = {}

\* What it has seen to is in place, or in the memory of whoever has the file.
InPlace ==
    \A j \in Job \ disturbed :
        /\ \A k \in keys[j] : pc[j] # "idle" /\ secrets[j][k] # 0 => secrets[j][k] = store[k]
        /\ result[j] = "ok" \/ (pc[j] # "idle" /\ ok[j]) =>
              \A w \in seen_to(j) :
                  /\ \A i \in Job : HasFile(i, w[1]) => buf[i][w[2]] = store[w[2]]
                  /\ \/ Holds(w[1], w[2], store[w[2]])
                     \/ \E i \in Job : pc[i] = "write" /\ HasFile(i, w[1])
        /\ \A i \in Job, n \in rewrites(j) :
              pc[i] = "write" /\ HasFile(i, n) => given[n] = emptied(n)

FabricInv == TypeOK /\ GivenAsPlanned /\ MemoryOK /\ Apart /\ InPlace
=============================================================================
