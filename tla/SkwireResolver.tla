--------------------------- MODULE SkwireResolver ---------------------------
(***************************************************************************)
(* v2/skwire/resolver.py: build_plan collects who needs whom, and _toposort   *)
(* orders the nodes in rounds: a round takes, by name, every node that has    *)
(* nothing left to wait for, and the others cease to wait for it.             *)
(* Names are numbers, which stand for the order they sort in.                 *)
(***************************************************************************)
EXTENDS Naturals, Sequences

CONSTANT Name

ASSUME NameAssumption == Name \subseteq Nat

VARIABLES
    nodes,      \* the graph to plan: names of its nodes,
    edges,      \*     and <<consumer, provider>>
    remaining,  \* deps of the nodes that are not ordered yet
    ready,      \* what is left of the round
    order,      \* the nodes ordered so far
    outcome     \* collecting, sorting; ok, missing, cycle

vars == <<nodes, edges, remaining, ready, order, outcome>>

needs(n) == {p \in Name : <<n, p>> \in edges}
placed == {order[i] : i \in DOMAIN order}

TypeOK ==
    /\ nodes \subseteq Name
    /\ edges \subseteq nodes \X Name
    /\ DOMAIN remaining \subseteq nodes
    /\ remaining \in [DOMAIN remaining -> SUBSET Name]
    /\ ready \subseteq DOMAIN remaining
    /\ order \in Seq(nodes)
    /\ outcome \in {"collecting", "sorting", "ok", "missing", "cycle"}

Init ==
    /\ nodes \in SUBSET Name
    /\ edges \in SUBSET (nodes \X Name)
    /\ remaining = [n \in {} |-> {}]
    /\ ready = {}
    /\ order = <<>>
    /\ outcome = "collecting"

\* Providers are not looked up.
CollectBlindly ==
    /\ outcome = "collecting"
    /\ remaining' = [n \in nodes |-> needs(n)]
    /\ outcome' = "sorting"
    /\ UNCHANGED <<nodes, edges, ready, order>>

Collect ==
    /\ outcome = "collecting"
    /\ \A e \in edges : e[2] \in nodes
    /\ remaining' = [n \in nodes |-> needs(n)]
    /\ outcome' = "sorting"
    /\ UNCHANGED <<nodes, edges, ready, order>>

MissingProvider ==
    /\ outcome = "collecting"
    /\ \E e \in edges : e[2] \notin nodes
    /\ outcome' = "missing"
    /\ UNCHANGED <<nodes, edges, remaining, ready, order>>

waitless == {n \in DOMAIN remaining : remaining[n] = {}}

\* Who waits for one node only can go with it.
RoundOfTwo ==
    /\ outcome = "sorting" /\ ready = {}
    /\ waitless # {}
    /\ ready' = waitless \cup {n \in DOMAIN remaining : \E m \in waitless : remaining[n] = {m}}
    /\ UNCHANGED <<nodes, edges, remaining, order, outcome>>

Round ==
    /\ outcome = "sorting" /\ ready = {}
    /\ waitless # {}
    /\ ready' = waitless
    /\ UNCHANGED <<nodes, edges, remaining, order, outcome>>

\* The round goes on without end.
RoundAgain ==
    /\ outcome = "sorting" /\ ready = {}
    /\ DOMAIN remaining # {} /\ waitless = {}
    /\ UNCHANGED vars

WireCycle ==
    /\ outcome = "sorting" /\ ready = {}
    /\ DOMAIN remaining # {} /\ waitless = {}
    /\ outcome' = "cycle"
    /\ UNCHANGED <<nodes, edges, remaining, ready, order>>

Place(n) ==
    /\ outcome = "sorting"
    /\ n \in ready /\ \A m \in ready : n <= m
    /\ order' = Append(order, n)
    /\ remaining' = [m \in DOMAIN remaining \ {n} |-> remaining[m] \ {n}]
    /\ ready' = ready \ {n}
    /\ UNCHANGED <<nodes, edges, outcome>>

Ordered ==
    /\ outcome = "sorting" /\ ready = {}
    /\ DOMAIN remaining = {}
    /\ outcome' = "ok"
    /\ UNCHANGED <<nodes, edges, remaining, ready, order>>

Next ==
    \/ Collect \/ MissingProvider
    \/ Round \/ WireCycle \/ Ordered
    \/ \E n \in Name : Place(n)

Spec == Init /\ [][Next]_vars

\* One function call: it runs until it returns.
FairSpec == Spec /\ WF_vars(Next)

-----------------------------------------------------------------------------
(* Properties.                                                              *)

\* No node of S comes before all that it needs: S is, or leads to, a cycle.
Knot(S) == S # {} /\ \A n \in S : needs(n) \cap S # {}

\* Every node comes after all the nodes it needs (resolver.py:71), whichever
\* rounds they were in.
ProvidersFirst ==
    \A i \in DOMAIN order : \A p \in needs(order[i]) : \E k \in 1 .. i - 1 : order[k] = p

\* build_plan orders every node once, or it raises with reason: a provider is
\* not in the graph, or no order exists (resolver.py:52, 76).
Verdict ==
    /\ outcome = "ok" =>
          /\ placed = nodes
          /\ \A i, k \in DOMAIN order : order[i] = order[k] => i = k
          /\ \A S \in SUBSET nodes : ~Knot(S)
    /\ outcome = "cycle" => \E S \in SUBSET nodes : Knot(S)
    /\ outcome = "missing" => \E e \in edges : e[2] \notin nodes

\* The loop ends, whatever the graph (resolver.py:74).
Terminates == <>(outcome \in {"ok", "missing", "cycle"})

\* What is placed is in order and free of knots, and what remains waits for
\* exactly the nodes it needs that remain.
ResolverInv ==
    /\ TypeOK
    /\ ProvidersFirst
    /\ Verdict
    /\ \A i, k \in DOMAIN order : order[i] = order[k] => i = k
    /\ \A S \in SUBSET placed : ~Knot(S)
    /\ outcome = "collecting" => order = <<>> /\ ready = {}
    /\ outcome \in {"sorting", "ok", "cycle"} =>
          /\ DOMAIN remaining = nodes \ placed
          /\ \A n \in nodes : needs(n) \subseteq nodes
          /\ \A n \in DOMAIN remaining : remaining[n] = needs(n) \ placed
    /\ \A n \in ready : needs(n) \subseteq placed
=============================================================================
