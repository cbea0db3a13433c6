------------------------ MODULE SkwireResolverProofs ------------------------
(***************************************************************************)
(* Proofs about SkwireResolver, for every set of names and every graph:       *)
(* ResolverInv is inductive, so providers come first and the outcome is right.*)
(* That the placed nodes hold no knot is part of the invariant: shown one     *)
(* node at a time, it needs no induction over the order.                      *)
(***************************************************************************)
EXTENDS SkwireResolver, TLAPS

LEMMA InitInv == Init => ResolverInv
<1> SUFFICES ASSUME Init PROVE ResolverInv
  OBVIOUS
<1>1. DOMAIN order = {} /\ placed = {}
  BY DEF Init, placed
<1>2. TypeOK
  BY DEF Init, TypeOK
<1> QED BY <1>1, <1>2 DEF Init, ResolverInv, ProvidersFirst, Verdict, Knot

\* Steps that place no node keep what is said of the order.
LEMMA OrderKeeps ==
    ASSUME ResolverInv, UNCHANGED <<nodes, edges, order>>
    PROVE  /\ placed' = placed
           /\ \A n : needs(n)' = needs(n)
           /\ \A S : Knot(S)' <=> Knot(S)
           /\ ProvidersFirst'
           /\ (\A i, k \in DOMAIN order : order[i] = order[k] => i = k)'
           /\ (\A S \in SUBSET placed : ~Knot(S))'
<1>1. placed' = placed /\ \A n : needs(n)' = needs(n)
  BY DEF placed, needs
<1>2. \A S : Knot(S)' <=> Knot(S)
  BY <1>1 DEF Knot
<1> QED BY <1>1, <1>2 DEF ResolverInv, ProvidersFirst

LEMMA CollectInv == ASSUME ResolverInv, Collect PROVE ResolverInv'
<1>1. UNCHANGED <<nodes, edges, order>>
  BY DEF Collect
<1>2. order = <<>> /\ ready = {} /\ placed = {}
  BY DEF Collect, ResolverInv, placed
<1>3. /\ DOMAIN remaining' = nodes
      /\ \A n \in nodes : remaining'[n] = needs(n)
      /\ remaining' \in [nodes -> SUBSET Name]
  BY DEF Collect, needs
<1>4. TypeOK'
  BY <1>2, <1>3 DEF Collect, ResolverInv, TypeOK
<1>5. \A n \in nodes : needs(n) \subseteq nodes
  BY DEF Collect, needs
<1>6. outcome' = "sorting" /\ ready' = {}
  BY <1>2 DEF Collect
<1>7. Verdict'
  BY <1>6 DEF Verdict
<1> QED BY <1>1, <1>2, <1>3, <1>4, <1>5, <1>6, <1>7, OrderKeeps DEF ResolverInv

LEMMA MissingInv == ASSUME ResolverInv, MissingProvider PROVE ResolverInv'
<1>1. UNCHANGED <<nodes, edges, order>>
  BY DEF MissingProvider
<1>2. TypeOK' /\ ready' = {}
  BY DEF MissingProvider, ResolverInv, TypeOK
<1>3. Verdict' /\ outcome' = "missing"
  BY DEF MissingProvider, Verdict
<1> QED BY <1>1, <1>2, <1>3, OrderKeeps DEF ResolverInv

LEMMA RoundInv == ASSUME ResolverInv, Round PROVE ResolverInv'
<1>1. UNCHANGED <<nodes, edges, order, remaining, outcome>> /\ outcome = "sorting"
  BY DEF Round
<1>2. TypeOK'
  BY DEF Round, ResolverInv, TypeOK, waitless
<1>3. \A n \in ready' : needs(n) \subseteq placed
  BY DEF Round, ResolverInv, waitless
<1>4. Verdict'
  BY <1>1 DEF Verdict
<1> QED BY <1>1, <1>2, <1>3, <1>4, OrderKeeps DEF ResolverInv

LEMMA CycleInv == ASSUME ResolverInv, WireCycle PROVE ResolverInv'
<1>1. UNCHANGED <<nodes, edges, order, remaining, ready>> /\ outcome = "sorting" /\ outcome' = "cycle"
  BY DEF WireCycle
<1>2. TypeOK'
  BY <1>1 DEF ResolverInv, TypeOK
<1>3. Verdict'
  <2> DEFINE S == DOMAIN remaining
  <2>1. S # {} /\ S \in SUBSET nodes
    BY DEF WireCycle, ResolverInv, TypeOK
  <2>2. ASSUME NEW n \in S PROVE needs(n) \cap S # {}
    <3>1. needs(n) \ placed # {} /\ needs(n) \subseteq nodes /\ S = nodes \ placed
      BY <1>1 DEF WireCycle, waitless, ResolverInv, TypeOK
    <3> QED BY <3>1
  <2>3. Knot(S)
    BY <2>1, <2>2 DEF Knot
  <2> HIDE DEF S
  <2>4. \E T \in SUBSET nodes' : Knot(T)'
    BY <2>1, <2>3, <1>1, OrderKeeps
  <2> QED BY <2>4, <1>1 DEF Verdict
<1> QED BY <1>1, <1>2, <1>3, OrderKeeps DEF ResolverInv

LEMMA OrderedInv == ASSUME ResolverInv, Ordered PROVE ResolverInv'
<1>1. UNCHANGED <<nodes, edges, order, remaining, ready>> /\ outcome = "sorting" /\ outcome' = "ok"
  BY DEF Ordered
<1>2. TypeOK'
  BY <1>1 DEF ResolverInv, TypeOK
<1>3. placed = nodes
  <2>1. nodes \ placed = {}
    BY <1>1 DEF Ordered, ResolverInv
  <2>2. placed \subseteq nodes
    BY DEF ResolverInv, TypeOK, placed
  <2> QED BY <2>1, <2>2
<1>4. Verdict'
  BY <1>1, <1>3, OrderKeeps DEF Verdict, ResolverInv
<1> QED BY <1>1, <1>2, <1>4, OrderKeeps DEF ResolverInv

LEMMA PlaceInv == ASSUME ResolverInv, NEW n \in Name, Place(n) PROVE ResolverInv'
<1>m. /\ outcome = "sorting" /\ n \in ready /\ order' = Append(order, n)
      /\ remaining' = [m \in DOMAIN remaining \ {n} |-> remaining[m] \ {n}]
      /\ ready' = ready \ {n}
      /\ UNCHANGED <<nodes, edges, outcome>>
  BY DEF Place
<1>t. TypeOK /\ n \in DOMAIN remaining /\ n \in nodes /\ order \in Seq(nodes)
  BY <1>m DEF ResolverInv, TypeOK
<1>n. n \notin placed /\ needs(n) \subseteq placed
  BY <1>m, <1>t DEF ResolverInv
<1>l. /\ Len(order) \in Nat /\ DOMAIN order = 1 .. Len(order)
      /\ DOMAIN order' = 1 .. Len(order) + 1
      /\ \A i \in DOMAIN order : order'[i] = order[i]
      /\ order'[Len(order) + 1] = n
      /\ order' \in Seq(nodes)
  BY <1>m, <1>t
<1>p. placed' = placed \cup {n}
  BY <1>l DEF placed
<1>e. \A m : needs(m)' = needs(m)
  BY <1>m DEF needs
<1>k. \A S : Knot(S)' <=> Knot(S)
  BY <1>e DEF Knot
<1>1. TypeOK'
  BY <1>m, <1>t, <1>l DEF TypeOK
<1>2. ProvidersFirst'
  <2>1. ASSUME NEW i \in DOMAIN order', NEW p \in needs(order'[i])
        PROVE  \E k \in 1 .. i - 1 : order'[k] = p
    <3>1. CASE i \in DOMAIN order
      <4>1. PICK k \in 1 .. i - 1 : order[k] = p
        BY <3>1, <2>1, <1>l DEF ResolverInv, ProvidersFirst
      <4> QED BY <4>1, <3>1, <1>l
    <3>2. CASE i = Len(order) + 1
      <4>1. PICK k \in DOMAIN order : order[k] = p
        BY <3>2, <2>1, <1>l, <1>n DEF placed
      <4> QED BY <4>1, <3>2, <1>l
    <3> QED BY <3>1, <3>2, <1>l
  <2> QED BY <2>1, <1>e DEF ProvidersFirst
<1>3. (\A i, k \in DOMAIN order : order[i] = order[k] => i = k)'
  <2>1. \A i \in DOMAIN order : order[i] # n
    BY <1>n DEF placed
  <2>2. \A i, k \in DOMAIN order : order[i] = order[k] => i = k
    BY DEF ResolverInv
  <2> QED BY <2>1, <2>2, <1>l
<1>4. ASSUME NEW S \in SUBSET placed', Knot(S) PROVE FALSE
  <2>1. n \notin needs(n) /\ \A m \in placed : n \notin needs(m)
    <3>1. ASSUME NEW m \in placed, n \in needs(m) PROVE FALSE
      <4>1. PICK i \in DOMAIN order : order[i] = m
        BY <3>1 DEF placed
      <4>2. PICK k \in 1 .. i - 1 : order[k] = n
        BY <3>1, <4>1 DEF ResolverInv, ProvidersFirst
      <4>3. k \in DOMAIN order
        BY <4>1, <4>2, <1>l
      <4> QED BY <4>2, <4>3, <1>n DEF placed
    <3> QED BY <3>1, <1>n
  <2> DEFINE T == S \ {n}
  <2>2. CASE T = {}
    BY <2>1, <2>2, <1>4 DEF Knot
  <2>3. CASE T # {}
    <3>1. T \in SUBSET placed
      BY <1>p
    <3>2. PICK m \in T : needs(m) \cap T = {}
      BY <2>3, <3>1 DEF ResolverInv, Knot
    <3> QED BY <2>1, <3>1, <3>2, <1>4 DEF Knot
  <2> QED BY <2>2, <2>3
<1>5. /\ DOMAIN remaining' = nodes \ placed'
      /\ \A m \in DOMAIN remaining' : remaining'[m] = needs(m) \ placed'
  BY <1>m, <1>p DEF ResolverInv
<1>6. \A m \in ready' : needs(m) \subseteq placed'
  BY <1>m, <1>p DEF ResolverInv
<1>7. \A m \in nodes : needs(m) \subseteq nodes
  BY <1>m DEF ResolverInv
<1>8. Verdict'
  BY <1>m DEF Verdict
<1> QED BY <1>1, <1>2, <1>3, <1>4, <1>5, <1>6, <1>7, <1>8, <1>m, <1>e, <1>k DEF ResolverInv

LEMMA StutterInv == ASSUME ResolverInv, UNCHANGED vars PROVE ResolverInv'
<1>u. UNCHANGED <<nodes, edges, remaining, ready, order, outcome>>
  BY DEF vars
<1>k. /\ placed' = placed
      /\ \A n : needs(n)' = needs(n)
      /\ \A S : Knot(S)' <=> Knot(S)
      /\ ProvidersFirst'
  BY <1>u, OrderKeeps
<1>1. TypeOK'
  BY <1>u DEF ResolverInv, TypeOK
<1>2. Verdict'
  BY <1>u, <1>k DEF ResolverInv, Verdict
<1>3. ProvidersFirst'
  BY <1>k DEF ResolverInv
<1> QED BY <1>u, <1>k, <1>1, <1>2, <1>3 DEF ResolverInv

LEMMA NextInv == ResolverInv /\ [Next]_vars => ResolverInv'
  BY CollectInv, MissingInv, RoundInv, CycleInv, OrderedInv, PlaceInv, StutterInv DEF Next

\* build_plan's order puts every provider before its consumers, and the outcome
\* is right: ok for the graphs that can be ordered, cycle for those that cannot,
\* missing when a provider is not in the graph (resolver.py:41-83).
THEOREM ResolverInvariant == Spec => []ResolverInv
<1> QED BY InitInv, NextInv, PTL DEF Spec

LEMMA InvParts == ResolverInv => ProvidersFirst /\ Verdict
  BY DEF ResolverInv

\* Providers come first.
THEOREM OrderIsBringUpOrder == Spec => []ProvidersFirst
<1> QED BY ResolverInvariant, InvParts, PTL

\* The outcome is right.
THEOREM OutcomeIsRight == Spec => []Verdict
<1> QED BY ResolverInvariant, InvParts, PTL
=============================================================================
