------------------------ MODULE SecretBackendsProofs ------------------------
(***************************************************************************)
(* Proofs about SecretBackends, for any callers, backends, scopes and keys.  *)
(***************************************************************************)
EXTENDS SecretBackends, TLAPS

-----------------------------------------------------------------------------
(* Dictionaries, and the keys a call gives new values.                      *)

LEMMA ValueFacts == /\ 0 \in Value /\ 1 \in Value
                    /\ \A n \in Nat : n < MaxCalls => n + 2 \in Value /\ n + 1 \in 0 .. MaxCalls
BY SecretsAssumption DEF Value

LEMMA NewsDomain == ASSUME NEW n \in News
                    PROVE  DOMAIN n \subseteq Key /\ n \in [DOMAIN n -> Value]
BY DEF News

LEMMA NewsIntro == ASSUME NEW K \in SUBSET Key, NEW n \in [K -> Value]
                   PROVE  n \in News
BY DEF News

LEMMA UpdateInDict == ASSUME NEW d \in Dict, NEW n \in News
                      PROVE  update(d, n) \in Dict
<1>1. \A k \in Key : (IF k \in DOMAIN n THEN n[k] ELSE d[k]) \in Value
  BY NewsDomain DEF Dict
<1> QED
  BY <1>1 DEF update, Dict

LEMMA EmptyFacts == Empty \in Dict /\ Nothing \in [scope : Scope \cup {None}, new : News,
                                                   buf : Dict, left : SUBSET Key]
<1>1. Empty \in Dict
  BY ValueFacts DEF Empty, Dict
<1>2. [k \in {} |-> 0] \in News
  <2>1. [k \in {} |-> 0] \in [{} -> Value]
    OBVIOUS
  <2>2. {} \in SUBSET Key
    OBVIOUS
  <2> QED
    BY <2>1, <2>2 DEF News
<1> QED
  BY <1>1, <1>2 DEF Nothing

LEMMA InitialInDict == ASSUME NEW b \in Backend, NEW s \in Scope
                       PROVE  Initial(b, s) \in Dict
BY ValueFacts, EmptyFacts DEF Initial, Dict

LEMMA KindFacts == ASSUME TypeOK, NEW b \in Backend PROVE kind[b] \in Kinds
BY SecretsAssumption DEF TypeOK

-----------------------------------------------------------------------------
(* What the common parts of the actions do.                                 *)

\* Everybody but c stays where they are.
Alone(c) == \A d \in Caller \ {c} :
    pc'[d] = pc[d] /\ at'[d] = at[d] /\ job'[d] = job[d] /\ from'[d] = from[d]

CallTypes ==
    /\ pc' \in [Caller -> {"idle", "collect", "get", "read", "write", "encrypt", "put"}]
    /\ at' \in [Caller -> Backend]
    /\ job' \in [Caller -> [scope : Scope \cup {None}, new : News, buf : Dict, left : SUBSET Key]]

LEMMA EnterEffect ==
    ASSUME TypeOK, NEW c \in Caller, NEW b \in Backend, NEW s \in Scope, NEW n \in News, Enter(c, b, s, n)
    PROVE  /\ CallTypes /\ mishap' \subseteq Backend \X Scope /\ mishap \subseteq mishap'
           /\ at'[c] = b /\ job'[c].scope = s /\ job'[c].new = n
           /\ kind[b] = "kv" => pc'[c] = "put" /\ job'[c].left = DOMAIN n
           /\ kind[b] # "kv" => pc'[c] = "read" /\ (rewriting(b, s) # {} => <<b, s>> \in mishap')
           /\ \A d \in Caller \ {c} : pc'[d] = pc[d] /\ at'[d] = at[d] /\ job'[d] = job[d]
<1>1. DOMAIN n \subseteq Key
  BY NewsDomain
<1> DEFINE r == [Nothing EXCEPT !.scope = s, !.new = n, !.left = IF kind[b] = "kv" THEN DOMAIN n ELSE {}]
<1>2. /\ r \in [scope : Scope \cup {None}, new : News, buf : Dict, left : SUBSET Key]
      /\ r.scope = s /\ r.new = n /\ r.left = IF kind[b] = "kv" THEN DOMAIN n ELSE {}
  BY <1>1, EmptyFacts DEF Nothing
<1>3. job' = [job EXCEPT ![c] = r]
  BY DEF Enter
<1> HIDE DEF r
<1>4. /\ at' \in [Caller -> Backend] /\ at'[c] = b
      /\ pc' \in [Caller -> {"idle", "collect", "get", "read", "write", "encrypt", "put"}]
      /\ pc'[c] = IF kind[b] = "kv" THEN "put" ELSE "read"
      /\ \A d \in Caller \ {c} : pc'[d] = pc[d] /\ at'[d] = at[d]
  BY DEF Enter, TypeOK
<1>5. /\ job' \in [Caller -> [scope : Scope \cup {None}, new : News, buf : Dict, left : SUBSET Key]]
      /\ job'[c] = r /\ \A d \in Caller \ {c} : job'[d] = job[d]
  BY <1>2, <1>3 DEF TypeOK
<1>6. /\ mishap' \subseteq Backend \X Scope /\ mishap \subseteq mishap'
      /\ kind[b] # "kv" /\ rewriting(b, s) # {} => <<b, s>> \in mishap'
  BY DEF Enter, TypeOK
<1> QED
  BY <1>2, <1>4, <1>5, <1>6 DEF CallTypes

LEMMA LeaveEffect ==
    ASSUME TypeOK, NEW c \in Caller, NEW s, Leave(c, s)
    PROVE  /\ pc' \in [Caller -> {"idle", "collect", "get", "read", "write", "encrypt", "put"}]
           /\ job' \in [Caller -> [scope : Scope \cup {None}, new : News, buf : Dict, left : SUBSET Key]]
           /\ scopes' \in [Caller -> SUBSET Scope]
           /\ pc'[c] \in {"idle", "collect"}
           /\ \A d \in Caller \ {c} : pc'[d] = pc[d] /\ job'[d] = job[d]
BY EmptyFacts DEF Leave, TypeOK

LEMMA ReturnEffect ==
    ASSUME TypeOK, NEW c \in Caller, NEW ok, Return(c, ok), job[c].scope \in Scope
    PROVE  /\ pc' \in [Caller -> {"idle", "collect", "get", "read", "write", "encrypt", "put"}]
           /\ job' \in [Caller -> [scope : Scope \cup {None}, new : News, buf : Dict, left : SUBSET Key]]
           /\ scopes' \in [Caller -> SUBSET Scope]
           /\ reported' \in [Caller -> SUBSET Scope]
           /\ pc'[c] \in {"idle", "collect"}
           /\ \A d \in Caller \ {c} : pc'[d] = pc[d] /\ job'[d] = job[d]
<1>1. Leave(c, job[c].scope)
  BY DEF Return
<1>2. reported' \in [Caller -> SUBSET Scope]
  BY DEF Return, TypeOK
<1> QED
  BY <1>1, <1>2, LeaveEffect

LEMMA EffectTypes ==
    ASSUME TypeOK, NEW c \in Caller, NEW K \in SUBSET Key, K \subseteq DOMAIN job[c].new,
           job[c].scope \in Scope, Effect(c, K)
    PROVE  /\ expected' \in [Backend -> [Scope -> Dict]]
           /\ touched' \in [Caller -> SUBSET (Backend \X Scope \X Key)]
           /\ \A b \in Backend, s \in Scope : b # at[c] \/ s # job[c].scope =>
                 expected'[b][s] = expected[b][s]
           /\ \A k \in Key : expected'[at[c]][job[c].scope][k] =
                 IF k \in K THEN job[c].new[k] ELSE expected[at[c]][job[c].scope][k]
<1> DEFINE b == at[c]
           s == job[c].scope
           e == [k \in Key |-> IF k \in K THEN job[c].new[k] ELSE expected[b][s][k]]
<1>1. /\ b \in Backend /\ s \in Scope /\ job[c].new \in News /\ expected[b][s] \in Dict
      /\ expected \in [Backend -> [Scope -> Dict]]
  BY DEF TypeOK
<1>2. e \in Dict
  BY <1>1, NewsDomain DEF Dict
<1>3. expected' = [expected EXCEPT ![b][s] = e]
  BY DEF Effect
<1>4. touched' \in [Caller -> SUBSET (Backend \X Scope \X Key)]
  <2>1. {b} \X {s} \X K \subseteq Backend \X Scope \X Key
    BY <1>1
  <2> QED
    BY <2>1 DEF Effect, TypeOK
<1>5. \A k \in Key : e[k] = IF k \in K THEN job[c].new[k] ELSE expected[b][s][k]
  OBVIOUS
<1> HIDE DEF b, s, e
<1>6. /\ expected' \in [Backend -> [Scope -> Dict]] /\ expected'[b][s] = e
      /\ \A x \in Backend, y \in Scope : x # b \/ y # s => expected'[x][y] = expected[x][y]
  BY <1>1, <1>2, <1>3
<1> QED
  BY <1>4, <1>5, <1>6 DEF b, s

-----------------------------------------------------------------------------
(* Types.                                                                   *)

LEMMA InitTypes == Init => TypeOK
<1> SUFFICES ASSUME Init PROVE TypeOK
  OBVIOUS
<1> USE DEF Init
<1>1. kind \in Deployments /\ up \subseteq Backend /\ unlocked \subseteq Backend
  OBVIOUS
<1>2. blob \in [Backend -> [Scope -> Text]] /\ remote \in [Backend -> [Scope -> Dict \cup {None}]]
  BY InitialInDict DEF Text
<1>3. at \in [Caller -> Backend] /\ from \in [Caller -> Backend]
  <2>1. (CHOOSE b \in Backend : TRUE) \in Backend
    BY SecretsAssumption
  <2> QED
    BY <2>1
<1> QED
  BY <1>1, <1>2, <1>3, EmptyFacts, InitialInDict, SecretsAssumption DEF TypeOK

\* What of the invariant the types depend on.
Phases == /\ \A c \in Caller : PhaseOK(c)
          /\ \A b \in Backend, s \in Scope : kind[b] = "kv" => remote[b][s] \in Dict

LEMMA CallTypesKept ==
    ASSUME TypeOK, NEW c \in Caller, Call(c) PROVE TypeOK'
<1>1. PICK b \in Backend, s \in Scope, n \in News : Enter(c, b, s, n)
  <2>1. PICK b \in Backend, s \in Scope, K \in (SUBSET Key) \ {{}} :
           \/ Enter(c, b, s, [k \in K |-> calls + 2])
           \/ Enter(c, b, s, [k \in K |-> 0])
    BY DEF Call, rotate
  <2>2. calls + 2 \in Value /\ 0 \in Value
    BY ValueFacts, SecretsAssumption DEF Call, TypeOK
  <2>3. [k \in K |-> calls + 2] \in News /\ [k \in K |-> 0] \in News
    <3>1. [k \in K |-> calls + 2] \in [K -> Value] /\ [k \in K |-> 0] \in [K -> Value]
      BY <2>2
    <3> QED
      BY <3>1 DEF News
  <2> QED
    BY <2>1, <2>3
<1>2. CallTypes /\ mishap' \subseteq Backend \X Scope
  BY <1>1, EnterEffect
<1>3. calls' \in 0 .. MaxCalls
  BY SecretsAssumption DEF Call, TypeOK
<1>4. from' \in [Caller -> Backend] /\ reported' \in [Caller -> SUBSET Scope]
      /\ touched' \in [Caller -> SUBSET (Backend \X Scope \X Key)]
  BY DEF Call, TypeOK
<1> QED
  BY <1>2, <1>3, <1>4 DEF Call, TypeOK, CallTypes, stores

LEMMA MigrateTypes ==
    ASSUME TypeOK, NEW c \in Caller, Migrate(c) PROVE TypeOK'
<1>1. calls' \in 0 .. MaxCalls
  BY SecretsAssumption DEF Migrate, TypeOK
<1>2. /\ at' \in [Caller -> Backend] /\ from' \in [Caller -> Backend]
      /\ scopes' \in [Caller -> SUBSET Scope]
  BY DEF Migrate, TypeOK, Migratable
<1>3. /\ pc' \in [Caller -> {"idle", "collect", "get", "read", "write", "encrypt", "put"}]
      /\ reported' \in [Caller -> SUBSET Scope]
      /\ touched' \in [Caller -> SUBSET (Backend \X Scope \X Key)]
  BY DEF Migrate, TypeOK
<1> QED
  BY <1>1, <1>2, <1>3 DEF Migrate, TypeOK, stores

LEMMA PresentNews == ASSUME NEW d \in Dict
                     PROVE  present(d) \subseteq Key /\ [k \in present(d) |-> d[k]] \in News
<1>1. present(d) \in SUBSET Key /\ [k \in present(d) |-> d[k]] \in [present(d) -> Value]
  BY DEF present, Dict
<1> QED
  BY <1>1 DEF News

LEMMA CollectTypes ==
    ASSUME TypeOK, NEW c \in Caller, Collect(c) PROVE TypeOK'
<1>1. PICK s \in scopes[c] : LET d == text(from[c], s) IN
          IF d \in Dict /\ present(d) # {}
          THEN Enter(c, at[c], s, [k \in present(d) |-> d[k]]) /\ UNCHANGED scopes
          ELSE Skip(c, s)
  BY DEF Collect
<1>2. s \in Scope /\ at[c] \in Backend
  BY DEF TypeOK
<1>3. CallTypes /\ mishap' \subseteq Backend \X Scope /\ scopes' \in [Caller -> SUBSET Scope]
  <2> DEFINE d == text(from[c], s)
  <2>1. CASE d \in Dict /\ present(d) # {}
    <3>1. [k \in present(d) |-> d[k]] \in News
      BY <2>1, PresentNews
    <3>2. Enter(c, at[c], s, [k \in present(d) |-> d[k]]) /\ UNCHANGED scopes
      BY <1>1, <2>1
    <3> HIDE DEF d
    <3> QED
      BY <1>2, <3>1, <3>2, EnterEffect DEF TypeOK
  <2>2. CASE ~(d \in Dict /\ present(d) # {})
    BY <1>1, <2>2, LeaveEffect DEF Skip, TypeOK, CallTypes
  <2> QED
    BY <2>1, <2>2
<1> QED
  BY <1>3 DEF Collect, TypeOK, CallTypes, stores

LEMMA ListTypes ==
    ASSUME TypeOK, Phases, NEW c \in Caller, List(c) PROVE TypeOK'
<1>1. PICK s \in scopes[c] : LET K == present(remote[from[c]][s]) IN
          IF from[c] \in up /\ K # {}
          THEN /\ job' = [job EXCEPT ![c].scope = s, ![c].left = K]
               /\ pc' = [pc EXCEPT ![c] = "get"]
               /\ UNCHANGED <<at, scopes, mishap>>
          ELSE Skip(c, s)
  BY DEF List
<1>2. s \in Scope /\ present(remote[from[c]][s]) \subseteq Key
  BY DEF TypeOK, present
<1>3. CallTypes /\ mishap' \subseteq Backend \X Scope /\ scopes' \in [Caller -> SUBSET Scope]
  <2> DEFINE K == present(remote[from[c]][s])
  <2>1. CASE from[c] \in up /\ K # {}
    <3> DEFINE r == [job[c] EXCEPT !.scope = s, !.left = K]
    <3>1. job' = [job EXCEPT ![c] = r]
      BY <1>1, <2>1
    <3>5. pc' = [pc EXCEPT ![c] = "get"] /\ UNCHANGED <<at, scopes, mishap>>
      BY <1>1, <2>1
    <3>2. /\ job[c] \in [scope : Scope \cup {None}, new : News, buf : Dict, left : SUBSET Key]
          /\ s \in Scope /\ K \in SUBSET Key
      BY <1>2 DEF TypeOK
    <3> HIDE DEF K
    <3>4. r \in [scope : Scope \cup {None}, new : News, buf : Dict, left : SUBSET Key]
      BY <3>2
    <3> HIDE DEF r
    <3>3. job' \in [Caller -> [scope : Scope \cup {None}, new : News, buf : Dict, left : SUBSET Key]]
      BY <3>1, <3>4 DEF TypeOK
    <3> QED
      BY <3>5, <3>3 DEF TypeOK, CallTypes
  <2>2. CASE ~(from[c] \in up /\ K # {})
    BY <1>1, <2>2, LeaveEffect DEF Skip, TypeOK, CallTypes
  <2> QED
    BY <2>1, <2>2
<1> QED
  BY <1>3 DEF List, TypeOK, CallTypes, stores

-----------------------------------------------------------------------------
(* What a step of one caller has to keep.                                   *)

\* c starts to rewrite a scope only where nobody does, or that is a mishap.
Joins(c) == \A b \in Backend, s \in Scope : c \in rewriting(b, s)' =>
    c \in rewriting(b, s) \/ rewriting(b, s) = {} \/ <<b, s>> \in mishap'

\* Of the invariant, what concerns the contents of one scope.
Held(b, s) == Resting(b, s) /\ ~Unprotected(b, s) =>
    /\ contents(b, s) = expected[b][s]
    /\ kind[b] \notin {"mcp", "kv"} => blob[b][s] # Torn

LEMMA OutOfIt == ASSUME NEW c \in Caller, pc'[c] \in {"idle", "collect"}
                 PROVE  PhaseOK(c)' /\ BufferOK(c)' /\ Joins(c)
BY DEF PhaseOK, BufferOK, Joins, rewriting

LEMMA OthersKeep ==
    ASSUME SecretsInv, NEW c \in Caller, Alone(c),
           kind' = kind, outage' = outage, mishap \subseteq mishap',
           NEW d \in Caller \ {c}
    PROVE  /\ PhaseOK(d)'
           /\ \A b \in Backend, s \in Scope : d \in rewriting(b, s)' <=> d \in rewriting(b, s)
<1>1. PhaseOK(d)
  BY DEF SecretsInv
<1>2. pc'[d] = pc[d] /\ at'[d] = at[d] /\ job'[d] = job[d] /\ from'[d] = from[d]
  BY DEF Alone
<1>3. PhaseOK(d)'
  BY <1>1, <1>2 DEF PhaseOK
<1> QED
  BY <1>2, <1>3 DEF rewriting

LEMMA StillUnprotected ==
    ASSUME kind' = kind, outage \subseteq outage', mishap \subseteq mishap',
           NEW b \in Backend, NEW s \in Scope, Unprotected(b, s)
    PROVE  Unprotected(b, s)'
BY DEF Unprotected

LEMMA StepKeeps ==
    ASSUME SecretsInv, TypeOK', NEW c \in Caller, Alone(c), PhaseOK(c)', BufferOK(c)', Joins(c),
           UNCHANGED <<kind, up, unlocked, outage>>, mishap \subseteq mishap',
           NEW T \in SUBSET (Backend \X Scope),
           pc[c] = "encrypt" => <<at[c], job[c].scope>> \in T,
           \A b \in Backend, s \in Scope : <<b, s>> \notin T =>
              blob'[b][s] = blob[b][s] /\ remote'[b][s] = remote[b][s] /\ expected'[b][s] = expected[b][s],
           \A b \in Backend, s \in Scope : <<b, s>> \in T =>
              /\ expected'[b][s] = expected[b][s] \/ kind[b] = "kv" \/ c \in rewriting(b, s)
              /\ kind[b] = "kv" => remote'[b][s] \in Dict
              /\ Held(b, s)'
    PROVE  SecretsInv'
<1>1. \A d \in Caller \ {c} : PhaseOK(d)' /\ BufferOK(d)'
  <2> SUFFICES ASSUME NEW d \in Caller \ {c} PROVE PhaseOK(d)' /\ BufferOK(d)'
    OBVIOUS
  <2>1. PhaseOK(d)' /\ \A b \in Backend, s \in Scope : d \in rewriting(b, s)' <=> d \in rewriting(b, s)
    BY OthersKeep
  <2>2. pc'[d] = pc[d] /\ at'[d] = at[d] /\ job'[d] = job[d]
    BY DEF Alone
  <2>3. BufferOK(d)'
    <3> SUFFICES ASSUME NEW b \in Backend, NEW s \in Scope, b = at[d], s = job[d].scope,
                        pc[d] \in {"write", "encrypt"}, ~Unprotected(b, s)'
                 PROVE  job[d].buf = update(expected'[b][s], job[d].new)
      <4>1. at[d] \in Backend /\ (pc[d] \in {"write", "encrypt"} => job[d].scope \in Scope)
        BY DEF SecretsInv, TypeOK, PhaseOK
      <4> QED
        BY <2>2, <4>1 DEF BufferOK, Unprotected
    <3>1. PhaseOK(d) /\ BufferOK(d)
      BY DEF SecretsInv
    <3>2. ~Unprotected(b, s)
      BY <3>1, StillUnprotected
    <3>3. job[d].buf = update(expected[b][s], job[d].new) /\ d \in rewriting(b, s) /\ kind[b] # "kv"
      BY <3>1, <3>2 DEF BufferOK, PhaseOK, rewriting
    <3>4. <<b, s>> \notin mishap
      BY <3>2, <3>3 DEF Unprotected
    <3>5. c \notin rewriting(b, s)
      BY <3>1, <3>3, <3>4 DEF SecretsInv, ScopeOK
    <3>6. expected'[b][s] = expected[b][s]
      BY <3>1, <3>3, <3>5
    <3> QED
      BY <3>3, <3>6
  <2> QED
    BY <2>1, <2>3
<1>2. \A b \in Backend \ outage' : b \in up' \cap unlocked'
  BY DEF SecretsInv
<1>3. ASSUME NEW b \in Backend, NEW s \in Scope
      PROVE  ScopeOK(b, s)' /\ Held(b, s)'
  <2>1. ScopeOK(b, s) /\ Held(b, s)
    BY DEF SecretsInv, ScopeOK, ScopesKept, Held
  <2>2. \A d \in Caller \ {c} : d \in rewriting(b, s)' <=> d \in rewriting(b, s)
    BY OthersKeep
  <2>3. <<b, s>> \notin mishap' => \A d, e \in rewriting(b, s)' : d = e
    <3>1. c \in rewriting(b, s)' => c \in rewriting(b, s) \/ rewriting(b, s) = {} \/ <<b, s>> \in mishap'
      BY DEF Joins
    <3>2. rewriting(b, s)' \subseteq Caller
      BY DEF rewriting
    <3> QED
      BY <2>1, <2>2, <3>1, <3>2 DEF ScopeOK
  <2>4. CASE <<b, s>> \in T
    BY <2>3, <2>4 DEF ScopeOK, Held
  <2>5. CASE <<b, s>> \notin T
    <3>1. Resting(b, s)' => Resting(b, s)
      <4>1. \A d \in Caller \ {c} : pc'[d] = pc[d]
        BY DEF Alone
      <4>2. c \in rewriting(b, s) => pc[c] # "encrypt"
        BY <2>5 DEF rewriting
      <4> QED
        BY <2>2, <4>1, <4>2 DEF Resting, rewriting
    <3>2. ~Unprotected(b, s)' => ~Unprotected(b, s)
      BY StillUnprotected
    <3>3. blob'[b][s] = blob[b][s] /\ remote'[b][s] = remote[b][s] /\ expected'[b][s] = expected[b][s]
      BY <2>5
    <3>4. contents(b, s)' = contents(b, s)
      BY <3>3 DEF contents
    <3>5. Held(b, s)'
      BY <2>1, <3>1, <3>2, <3>3, <3>4 DEF Held
    <3> QED
      BY <2>1, <2>3, <3>3, <3>5 DEF ScopeOK, Held
  <2> QED
    BY <2>4, <2>5
<1> QED
  BY <1>1, <1>2, <1>3 DEF SecretsInv, ScopesKept, Held

LEMMA QuietKeeps ==
    ASSUME SecretsInv, TypeOK', NEW c \in Caller, Alone(c), PhaseOK(c)', BufferOK(c)', Joins(c),
           pc[c] # "encrypt", mishap \subseteq mishap',
           UNCHANGED <<kind, up, unlocked, outage, blob, remote, expected>>
    PROVE  SecretsInv'
<1>1. {} \in SUBSET (Backend \X Scope)
  OBVIOUS
<1>2. \A b \in Backend, s \in Scope :
         blob'[b][s] = blob[b][s] /\ remote'[b][s] = remote[b][s] /\ expected'[b][s] = expected[b][s]
  OBVIOUS
<1> QED
  BY <1>1, <1>2, StepKeeps

LEMMA EnterJoins ==
    ASSUME TypeOK, NEW c \in Caller, NEW b \in Backend, NEW s \in Scope, NEW n \in News,
           Enter(c, b, s, n), kind' = kind
    PROVE  PhaseOK(c)' /\ BufferOK(c)' /\ Joins(c) /\ mishap \subseteq mishap'
<1>1. /\ at'[c] = b /\ job'[c].scope = s /\ job'[c].new = n /\ mishap \subseteq mishap'
      /\ kind[b] = "kv" => pc'[c] = "put" /\ job'[c].left = DOMAIN n
      /\ kind[b] # "kv" => pc'[c] = "read" /\ (rewriting(b, s) # {} => <<b, s>> \in mishap')
  BY EnterEffect
<1>2. pc'[c] \in {"put", "read"}
  BY <1>1
<1>3. PhaseOK(c)' /\ BufferOK(c)'
  BY <1>1, <1>2 DEF PhaseOK, BufferOK
<1>4. Joins(c)
  BY <1>1 DEF Joins, rewriting
<1> QED
  BY <1>1, <1>3, <1>4

-----------------------------------------------------------------------------
(* The actions that write nothing.                                          *)

LEMMA PhasesHold == SecretsInv => TypeOK /\ Phases
BY DEF SecretsInv, Phases, ScopeOK

LEMMA CallKeeps == ASSUME SecretsInv, NEW c \in Caller, Call(c) PROVE SecretsInv'
<1>1. TypeOK /\ TypeOK'
  BY CallTypesKept, PhasesHold
<1>2. PICK b \in Backend, s \in Scope, n \in News : Enter(c, b, s, n)
  <2>1. PICK b \in Backend, s \in Scope, K \in (SUBSET Key) \ {{}} :
           \/ Enter(c, b, s, [k \in K |-> calls + 2])
           \/ Enter(c, b, s, [k \in K |-> 0])
    BY DEF Call, rotate
  <2>2. calls + 2 \in Value /\ 0 \in Value
    BY <1>1, ValueFacts, SecretsAssumption DEF Call, TypeOK
  <2>3. [k \in K |-> calls + 2] \in News /\ [k \in K |-> 0] \in News
    <3>1. [k \in K |-> calls + 2] \in [K -> Value] /\ [k \in K |-> 0] \in [K -> Value]
      BY <2>2
    <3> QED
      BY <3>1 DEF News
  <2> QED
    BY <2>1, <2>3
<1>3. UNCHANGED <<kind, up, unlocked, outage, blob, remote, expected>> /\ pc[c] # "encrypt"
  BY DEF Call, stores
<1>4. PhaseOK(c)' /\ BufferOK(c)' /\ Joins(c) /\ mishap \subseteq mishap'
  BY <1>1, <1>2, <1>3, EnterJoins
<1>5. Alone(c)
  <2>1. \A d \in Caller \ {c} : from'[d] = from[d]
    BY <1>1 DEF Call, TypeOK
  <2>2. \A d \in Caller \ {c} : pc'[d] = pc[d] /\ at'[d] = at[d] /\ job'[d] = job[d]
    BY <1>1, <1>2, EnterEffect
  <2> QED
    BY <2>1, <2>2 DEF Alone
<1> QED
  BY <1>1, <1>3, <1>4, <1>5, QuietKeeps

LEMMA MigrateKeeps == ASSUME SecretsInv, NEW c \in Caller, Migrate(c) PROVE SecretsInv'
<1>1. TypeOK /\ TypeOK'
  BY MigrateTypes, PhasesHold
<1>2. UNCHANGED <<kind, up, unlocked, outage, blob, remote, expected, mishap>> /\ pc[c] # "encrypt"
  BY DEF Migrate, stores
<1>3. Alone(c) /\ pc'[c] = "collect"
  BY <1>1 DEF Migrate, TypeOK, Alone
<1> QED
  BY <1>1, <1>2, <1>3, OutOfIt, QuietKeeps

LEMMA CollectKeeps == ASSUME SecretsInv, NEW c \in Caller, Collect(c) PROVE SecretsInv'
<1>1. TypeOK /\ TypeOK'
  BY CollectTypes, PhasesHold
<1>2. UNCHANGED <<kind, up, unlocked, outage, blob, remote, expected, from>> /\ pc[c] # "encrypt"
  BY DEF Collect, stores
<1>3. PICK s \in scopes[c] :
         \/ \E n \in News : Enter(c, at[c], s, n)
         \/ Leave(c, s) /\ UNCHANGED <<at, mishap>>
  <2>1. \A s : text(from[c], s) \in Dict =>
           [k \in present(text(from[c], s)) |-> text(from[c], s)[k]] \in News
    BY PresentNews
  <2> QED
    BY <2>1 DEF Collect, Skip
<1>4. s \in Scope /\ at[c] \in Backend
  BY <1>1 DEF TypeOK
<1>5. CASE \E n \in News : Enter(c, at[c], s, n)
  <2>1. PICK n \in News : Enter(c, at[c], s, n)
    BY <1>5
  <2>3. \A d \in Caller \ {c} : pc'[d] = pc[d] /\ at'[d] = at[d] /\ job'[d] = job[d]
    BY <1>1, <1>4, <2>1, EnterEffect
  <2>2. Alone(c)
    BY <1>2, <2>3 DEF Alone
  <2> QED
    BY <1>1, <1>2, <1>4, <2>1, <2>2, EnterJoins, QuietKeeps
<1>6. CASE Leave(c, s) /\ UNCHANGED <<at, mishap>>
  <2>2. pc'[c] \in {"idle", "collect"} /\ \A d \in Caller \ {c} : pc'[d] = pc[d] /\ job'[d] = job[d]
    BY <1>1, <1>6, LeaveEffect
  <2>1. Alone(c)
    BY <1>2, <1>6, <2>2 DEF Alone
  <2> QED
    BY <1>1, <1>2, <1>6, <2>1, <2>2, OutOfIt, QuietKeeps
<1> QED
  BY <1>3, <1>5, <1>6

LEMMA CollectFailsKeeps == ASSUME SecretsInv, NEW c \in Caller, CollectFails(c) PROVE SecretsInv'
<1>1. /\ TypeOK /\ pc[c] = "collect" /\ faults < MaxFaults /\ faults' = faults + 1
      /\ UNCHANGED <<kind, up, unlocked, blob, remote, from, reported, calls, expected, outage, touched>>
  BY DEF SecretsInv, CollectFails, stores
<1>2. PICK s \in scopes[c] : Leave(c, s) /\ UNCHANGED <<at, mishap>>
  BY DEF CollectFails, Skip
<1>3. faults' \in 0 .. MaxFaults
  <2>1. faults \in 0 .. MaxFaults
    BY <1>1 DEF TypeOK
  <2> QED
    BY <1>1, <2>1, SecretsAssumption
<1>4. /\ CallTypes /\ scopes' \in [Caller -> SUBSET Scope]
      /\ pc'[c] \in {"idle", "collect"}
      /\ \A d \in Caller \ {c} : pc'[d] = pc[d] /\ job'[d] = job[d]
  BY <1>1, <1>2, LeaveEffect DEF CallTypes, TypeOK
<1>5. TypeOK'
  BY <1>1, <1>2, <1>3, <1>4 DEF TypeOK, CallTypes
<1>6. Alone(c)
  BY <1>1, <1>2, <1>4 DEF Alone
<1> QED
  BY <1>1, <1>2, <1>4, <1>5, <1>6, OutOfIt, QuietKeeps

LEMMA ListKeeps == ASSUME SecretsInv, NEW c \in Caller, List(c) PROVE SecretsInv'
<1>1. TypeOK /\ TypeOK'
  BY ListTypes, PhasesHold
<1>2. /\ UNCHANGED <<kind, up, unlocked, outage, blob, remote, expected, from>> /\ pc[c] # "encrypt"
      /\ kind[from[c]] = "kv"
  BY DEF List, stores
<1>3. PICK s \in scopes[c] :
         \/ /\ job' = [job EXCEPT ![c].scope = s, ![c].left = present(remote[from[c]][s])]
            /\ pc' = [pc EXCEPT ![c] = "get"]
            /\ UNCHANGED <<at, scopes, mishap>>
         \/ Leave(c, s) /\ UNCHANGED <<at, mishap>>
  BY DEF List, Skip
<1>4. s \in Scope
  BY <1>1 DEF TypeOK
<1>5. CASE /\ job' = [job EXCEPT ![c].scope = s, ![c].left = present(remote[from[c]][s])]
           /\ pc' = [pc EXCEPT ![c] = "get"]
           /\ UNCHANGED <<at, scopes, mishap>>
  <2>1. Alone(c) /\ pc'[c] = "get" /\ job'[c].scope = s
    BY <1>1, <1>2, <1>5 DEF Alone, TypeOK
  <2>2. PhaseOK(c)' /\ BufferOK(c)' /\ Joins(c)
    BY <1>2, <1>4, <2>1 DEF PhaseOK, BufferOK, Joins, rewriting
  <2> QED
    BY <1>1, <1>2, <1>5, <2>1, <2>2, QuietKeeps
<1>6. CASE Leave(c, s) /\ UNCHANGED <<at, mishap>>
  <2>2. pc'[c] \in {"idle", "collect"} /\ \A d \in Caller \ {c} : pc'[d] = pc[d] /\ job'[d] = job[d]
    BY <1>1, <1>6, LeaveEffect
  <2>1. Alone(c)
    BY <1>2, <1>6, <2>2 DEF Alone
  <2> QED
    BY <1>1, <1>2, <1>6, <2>1, <2>2, OutOfIt, QuietKeeps
<1> QED
  BY <1>3, <1>5, <1>6

LEMMA GetKeeps == ASSUME SecretsInv, NEW c \in Caller, Get(c) PROVE SecretsInv'
<1>1. TypeOK /\ Phases /\ PhaseOK(c) /\ pc[c] = "get"
  BY PhasesHold DEF Get, Phases
<1>2. /\ UNCHANGED <<kind, up, unlocked, outage, blob, remote, expected, from>>
      /\ UNCHANGED <<calls, faults, reported, touched>>
  BY DEF Get, stores
<1>3. job[c].scope \in Scope /\ kind[from[c]] = "kv" /\ at[c] \in Backend /\ from[c] \in Backend
  BY <1>1 DEF PhaseOK, TypeOK
<1> DEFINE News1(k) == [j \in DOMAIN job[c].new \cup {k} |->
                          IF j = k THEN remote[from[c]][job[c].scope][k] ELSE job[c].new[j]]
<1>4. PICK k \in job[c].left :
         \/ Skip(c, job[c].scope)
         \/ Enter(c, at[c], job[c].scope, News1(k)) /\ UNCHANGED scopes
         \/ /\ job' = [job EXCEPT ![c].new = News1(k), ![c].left = @ \ {k}]
            /\ UNCHANGED <<at, pc, mishap, scopes>>
  BY DEF Get
<1>5. k \in Key /\ job[c].new \in News /\ remote[from[c]][job[c].scope] \in Dict
  BY <1>1, <1>3 DEF TypeOK, Phases
<1>6. News1(k) \in News
  <2>1. DOMAIN job[c].new \cup {k} \in SUBSET Key
    BY <1>5, NewsDomain
  <2>2. News1(k) \in [DOMAIN job[c].new \cup {k} -> Value]
    BY <1>5, NewsDomain DEF Dict
  <2> HIDE DEF News1
  <2> QED
    BY <2>1, <2>2 DEF News
<1> HIDE DEF News1
<1>7. CASE Skip(c, job[c].scope)
  <2>1. /\ CallTypes /\ scopes' \in [Caller -> SUBSET Scope] /\ pc'[c] \in {"idle", "collect"}
        /\ \A d \in Caller \ {c} : pc'[d] = pc[d] /\ job'[d] = job[d]
        /\ UNCHANGED <<at, mishap>>
    BY <1>1, <1>7, LeaveEffect DEF Skip, CallTypes, TypeOK
  <2>2. TypeOK'
    BY <1>1, <1>2, <2>1 DEF TypeOK, CallTypes
  <2>3. Alone(c)
    BY <1>2, <2>1 DEF Alone
  <2> QED
    BY <1>1, <1>2, <2>1, <2>2, <2>3, OutOfIt, QuietKeeps
<1>8. CASE Enter(c, at[c], job[c].scope, News1(k)) /\ UNCHANGED scopes
  <2>5. PICK b \in Backend, s \in Scope, n \in News : b = at[c] /\ s = job[c].scope /\ n = News1(k)
    BY <1>3, <1>6
  <2>6. Enter(c, b, s, n)
    BY <1>8, <2>5
  <2>1. /\ CallTypes /\ mishap' \subseteq Backend \X Scope
        /\ \A d \in Caller \ {c} : pc'[d] = pc[d] /\ at'[d] = at[d] /\ job'[d] = job[d]
    BY <1>1, <2>6, EnterEffect
  <2>2. TypeOK'
    BY <1>1, <1>2, <1>8, <2>1 DEF TypeOK, CallTypes
  <2>3. Alone(c)
    BY <1>2, <2>1 DEF Alone
  <2>4. PhaseOK(c)' /\ BufferOK(c)' /\ Joins(c) /\ mishap \subseteq mishap'
    BY <1>1, <1>2, <2>6, EnterJoins
  <2> QED
    BY <1>1, <1>2, <2>2, <2>3, <2>4, QuietKeeps
<1>9. CASE /\ job' = [job EXCEPT ![c].new = News1(k), ![c].left = @ \ {k}]
           /\ UNCHANGED <<at, pc, mishap, scopes>>
  <2> DEFINE r == [job[c] EXCEPT !.new = News1(k), !.left = @ \ {k}]
  <2>1. job' = [job EXCEPT ![c] = r]
    BY <1>9
  <2>2. /\ r \in [scope : Scope \cup {None}, new : News, buf : Dict, left : SUBSET Key]
        /\ r.scope = job[c].scope
    <3>1. job[c] \in [scope : Scope \cup {None}, new : News, buf : Dict, left : SUBSET Key]
      BY <1>1 DEF TypeOK
    <3> QED
      BY <1>6, <3>1
  <2> HIDE DEF r
  <2>3. job' \in [Caller -> [scope : Scope \cup {None}, new : News, buf : Dict, left : SUBSET Key]]
        /\ job'[c] = r /\ \A d \in Caller \ {c} : job'[d] = job[d]
    BY <1>1, <2>1, <2>2 DEF TypeOK
  <2>4. TypeOK'
    BY <1>1, <1>2, <1>9, <2>3 DEF TypeOK
  <2>5. Alone(c)
    BY <1>2, <1>9, <2>3 DEF Alone
  <2>6. PhaseOK(c)' /\ BufferOK(c)' /\ Joins(c)
    BY <1>1, <1>2, <1>3, <1>9, <2>2, <2>3 DEF PhaseOK, BufferOK, Joins, rewriting
  <2> QED
    BY <1>1, <1>2, <1>9, <2>4, <2>5, <2>6, QuietKeeps
<1> QED
  BY <1>4, <1>7, <1>8, <1>9

\* A call that returns without a write.
LEMMA ReturnKeeps ==
    ASSUME SecretsInv, NEW c \in Caller, Return(c, FALSE), pc[c] \in {"read", "write", "put"},
           UNCHANGED <<stores, at, from, calls, history>>, faults' \in 0 .. MaxFaults
    PROVE  SecretsInv'
<1>1. TypeOK /\ job[c].scope \in Scope
  BY DEF SecretsInv, PhaseOK
<1>2. /\ pc' \in [Caller -> {"idle", "collect", "get", "read", "write", "encrypt", "put"}]
      /\ job' \in [Caller -> [scope : Scope \cup {None}, new : News, buf : Dict, left : SUBSET Key]]
      /\ scopes' \in [Caller -> SUBSET Scope] /\ reported' \in [Caller -> SUBSET Scope]
      /\ pc'[c] \in {"idle", "collect"}
      /\ \A d \in Caller \ {c} : pc'[d] = pc[d] /\ job'[d] = job[d]
  BY <1>1, ReturnEffect
<1>3. UNCHANGED <<kind, up, unlocked, blob, remote, at, from, calls, expected, mishap, outage, touched>>
  BY DEF stores, history
<1>4. TypeOK'
  BY <1>1, <1>2, <1>3 DEF TypeOK
<1>5. Alone(c)
  BY <1>2, <1>3 DEF Alone
<1> QED
  BY <1>2, <1>3, <1>4, <1>5, OutOfIt, QuietKeeps

LEMMA RefusedKeeps == ASSUME SecretsInv, NEW c \in Caller, Refused(c) PROVE SecretsInv'
<1>1. faults' \in 0 .. MaxFaults
  BY SecretsAssumption DEF Refused, SecretsInv, TypeOK
<1> QED
  BY <1>1, ReturnKeeps DEF Refused

\* A call that has the text of a scope goes on with what it should hold.
LEMMA TakeKeeps ==
    ASSUME SecretsInv, NEW c \in Caller, NEW t \in Dict, pc[c] = "read", Take(c, t),
           UNCHANGED <<kind, up, unlocked, blob, remote, at, from, calls, expected, outage, touched>>,
           mishap \subseteq mishap', mishap' \subseteq Backend \X Scope, faults' \in 0 .. MaxFaults,
           ~Unprotected(at[c], job[c].scope)' => t = expected[at[c]][job[c].scope]
    PROVE  SecretsInv'
<1>1. TypeOK /\ PhaseOK(c) /\ BufferOK(c)
  BY DEF SecretsInv
<1> DEFINE u == update(t, job[c].new)
           r == [job[c] EXCEPT !.buf = u]
<1>2. /\ job' = [job EXCEPT ![c] = r] /\ pc' = [pc EXCEPT ![c] = "write"]
      /\ UNCHANGED <<scopes, reported>>
  BY DEF Take
<1>3. job[c] \in [scope : Scope \cup {None}, new : News, buf : Dict, left : SUBSET Key]
  BY <1>1 DEF TypeOK
<1>4. u \in Dict
  BY <1>3, UpdateInDict
<1>5. /\ r \in [scope : Scope \cup {None}, new : News, buf : Dict, left : SUBSET Key]
      /\ r.scope = job[c].scope /\ r.new = job[c].new /\ r.buf = u
  <2> HIDE DEF u
  <2> QED
    BY <1>3, <1>4
<1> HIDE DEF r
<1>6. /\ job' \in [Caller -> [scope : Scope \cup {None}, new : News, buf : Dict, left : SUBSET Key]]
      /\ job'[c] = r /\ \A d \in Caller \ {c} : job'[d] = job[d]
  <2> HIDE DEF u
  <2> QED
    BY <1>1, <1>2, <1>5 DEF TypeOK
<1>7. /\ pc' \in [Caller -> {"idle", "collect", "get", "read", "write", "encrypt", "put"}]
      /\ pc'[c] = "write" /\ \A d \in Caller \ {c} : pc'[d] = pc[d]
  BY <1>1, <1>2 DEF TypeOK
<1>8. TypeOK'
  BY <1>1, <1>2, <1>6, <1>7 DEF TypeOK
<1>9. Alone(c)
  BY <1>6, <1>7 DEF Alone
<1>10. PhaseOK(c)' /\ Joins(c)
  BY <1>1, <1>5, <1>6, <1>7 DEF PhaseOK, Joins, rewriting
<1>11. BufferOK(c)'
  <2>1. at'[c] = at[c] /\ job'[c].scope = job[c].scope /\ job'[c].new = job[c].new /\ job'[c].buf = u
    BY <1>5, <1>6
  <2> QED
    BY <2>1 DEF BufferOK
<1> QED
  BY <1>1, <1>8, <1>9, <1>10, <1>11, <1>7, QuietKeeps

LEMMA LoadKeeps ==
    ASSUME SecretsInv, NEW c \in Caller, NEW t, Load(c, t),
           t \in Dict /\ ~Unprotected(at[c], job[c].scope) => t = expected[at[c]][job[c].scope]
    PROVE  SecretsInv'
<1>1. TypeOK /\ pc[c] = "read" /\ faults' \in 0 .. MaxFaults
  BY DEF SecretsInv, Load, TypeOK, history
<1>2. UNCHANGED <<kind, up, unlocked, blob, remote, at, from, calls, faults, expected, mishap, outage, touched>>
  BY DEF Load, stores, history
<1>3. CASE Return(c, FALSE)
  BY <1>1, <1>2, <1>3, ReturnKeeps DEF stores, history
<1>4. CASE t \in Dict /\ Take(c, t)
  <2>1. job'[c].scope = job[c].scope
    BY <1>1, <1>4 DEF Take, TypeOK
  <2>2. ~Unprotected(at[c], job[c].scope)' => ~Unprotected(at[c], job[c].scope)
    BY <1>2, <2>1 DEF Unprotected
  <2>3. mishap' \subseteq Backend \X Scope /\ mishap \subseteq mishap'
    BY <1>1, <1>2 DEF TypeOK
  <2> QED
    BY <1>1, <1>2, <1>4, <2>2, <2>3, TakeKeeps
<1> QED
  BY <1>3, <1>4 DEF Load

-----------------------------------------------------------------------------
(* Reading a scope that will be rewritten.                                  *)

\* Without a mishap the reader is the only one who rewrites the scope: nobody has
\* the file open.
LEMMA ReaderSees ==
    ASSUME SecretsInv, NEW c \in Caller, NEW b \in Backend, NEW s \in Scope,
           b = at[c], s = job[c].scope, pc[c] = "read", ~Unprotected(b, s)
    PROVE  /\ contents(b, s) = expected[b][s]
           /\ kind[b] \notin {"mcp", "kv"} => blob[b][s] # Torn
           /\ kind[b] \in {"sops-age", "gnupg", "mcp"} => b \in up \cap unlocked
           /\ blob[b][s] \in Text /\ remote[b][s] \in Dict \cup {None}
<1>1. c \in rewriting(b, s) /\ kind[b] # "kv"
  BY DEF SecretsInv, PhaseOK, rewriting
<1>2. \A d \in rewriting(b, s) : d = c
  BY <1>1 DEF SecretsInv, ScopeOK, Unprotected
<1>3. Resting(b, s)
  BY <1>2 DEF Resting
<1> QED
  BY <1>3 DEF SecretsInv, TypeOK, ScopesKept, ScopeOK, Unprotected

LEMMA ReadVaultKeeps == ASSUME SecretsInv, NEW c \in Caller, ReadVault(c) PROVE SecretsInv'
<1> DEFINE b == at[c]
           s == job[c].scope
           t == fileText(b, s)
           u == IF t = None /\ ~deletes(c) THEN Empty ELSE t
<1>1. kind[b] \in vaults /\ Load(c, u) /\ pc[c] = "read" /\ b \in Backend /\ s \in Scope
  BY DEF ReadVault, Load, SecretsInv, TypeOK, PhaseOK
<1>2. ASSUME u \in Dict, ~Unprotected(b, s) PROVE u = expected[b][s]
  <2>1. contents(b, s) = expected[b][s] /\ blob[b][s] # Torn /\ blob[b][s] \in Text
    BY <1>1, <1>2, ReaderSees DEF vaults
  <2>2. contents(b, s) = IF blob[b][s] \in Dict THEN blob[b][s] ELSE Empty
    BY <1>1 DEF contents, vaults
  <2>3. t = blob[b][s] \/ t = Torn
    BY DEF fileText
  <2> HIDE DEF b, s, t
  <2>4. CASE t = None /\ ~deletes(c)
    BY <2>1, <2>2, <2>3, <2>4, NoText, SecretsAssumption
  <2>5. CASE ~(t = None /\ ~deletes(c))
    BY <1>2, <2>1, <2>2, <2>3, <2>5, NoText
  <2> QED
    BY <2>4, <2>5
<1> HIDE DEF u
<1> QED
  BY <1>1, <1>2, LoadKeeps

LEMMA ReadSopsKeeps == ASSUME SecretsInv, NEW c \in Caller, ReadSops(c) PROVE SecretsInv'
<1> DEFINE b == at[c]
           s == job[c].scope
           t == fileText(b, s)
           u == IF deletes(c) THEN t ELSE orEmpty(t)
<1>1. kind[b] = "sops-age" /\ Load(c, u) /\ pc[c] = "read" /\ b \in Backend /\ s \in Scope
  BY DEF ReadSops, Load, SecretsInv, TypeOK, PhaseOK
<1>2. ASSUME u \in Dict, ~Unprotected(b, s) PROVE u = expected[b][s]
  <2>1. contents(b, s) = expected[b][s] /\ b \in unlocked
    BY <1>1, <1>2, ReaderSees
  <2>2. contents(b, s) = IF blob[b][s] \in Dict THEN blob[b][s] ELSE Empty
    BY <1>1 DEF contents
  <2>3. t = blob[b][s]
    BY <2>1 DEF fileText
  <2> HIDE DEF b, s, t
  <2> QED
    BY <1>2, <2>1, <2>2, <2>3 DEF orEmpty
<1> HIDE DEF u
<1> QED
  BY <1>1, <1>2, LoadKeeps

LEMMA ReadCapauthKeeps == ASSUME SecretsInv, NEW c \in Caller, ReadCapauth(c) PROVE SecretsInv'
<1> DEFINE b == at[c]
           s == job[c].scope
           t == capauthText(b, s)
           u == IF deletes(c) THEN t ELSE orEmpty(t)
<1>1. kind[b] \in {"gnupg", "mcp"} /\ Load(c, u) /\ pc[c] = "read" /\ b \in Backend /\ s \in Scope
  BY DEF ReadCapauth, Load, SecretsInv, TypeOK, PhaseOK
<1>2. ASSUME u \in Dict, ~Unprotected(b, s) PROVE u = expected[b][s]
  <2>1. contents(b, s) = expected[b][s] /\ b \in up \cap unlocked
    BY <1>1, <1>2, ReaderSees
  <2>2. contents(b, s) = orEmpty(t)
    BY <1>1, <2>1 DEF contents, capauthText, reaches, fileText, orEmpty
  <2> HIDE DEF b, s, t
  <2> QED
    BY <1>2, <2>1, <2>2 DEF orEmpty
<1> HIDE DEF u
<1> QED
  BY <1>1, <1>2, LoadKeeps

\* A set that took a scope for empty leaves it unprotected.
LEMMA MisreadKeeps == ASSUME SecretsInv, NEW c \in Caller, Misread(c) PROVE SecretsInv'
<1>1. /\ TypeOK /\ PhaseOK(c) /\ pc[c] = "read" /\ kind[at[c]] = "mcp"
      /\ faults < MaxFaults /\ faults' = faults + 1
      /\ UNCHANGED <<kind, up, unlocked, blob, remote, at, from, calls, expected, outage, touched>>
  BY DEF SecretsInv, Misread, stores, reaches
<1>2. faults' \in 0 .. MaxFaults
  <2>1. faults \in 0 .. MaxFaults
    BY <1>1 DEF TypeOK
  <2> QED
    BY <1>1, <2>1, SecretsAssumption
<1>3. CASE Return(c, FALSE) /\ UNCHANGED mishap
  BY <1>1, <1>2, <1>3, ReturnKeeps DEF stores, history
<1>4. CASE Take(c, Empty) /\ mishap' = mishap \cup {<<at[c], job[c].scope>>}
  <2>1. at[c] \in Backend /\ job[c].scope \in Scope /\ mishap \subseteq Backend \X Scope
    BY <1>1 DEF TypeOK, PhaseOK
  <2>2. mishap' \subseteq Backend \X Scope /\ mishap \subseteq mishap'
    BY <1>4, <2>1
  <2>3. job'[c].scope = job[c].scope
    BY <1>1, <1>4 DEF Take, TypeOK
  <2>4. Unprotected(at[c], job[c].scope)'
    BY <1>1, <1>4, <2>3 DEF Unprotected
  <2> QED
    BY <1>1, <1>2, <1>4, <2>2, <2>4, EmptyFacts, TakeKeeps
<1> QED
  BY <1>3, <1>4 DEF Misread

-----------------------------------------------------------------------------
(* Writing.                                                                 *)

\* A write of everything makes of the scope what the buffer holds.
LEMMA EffectOfAll ==
    ASSUME TypeOK, NEW c \in Caller, NEW b \in Backend, NEW s \in Scope,
           b = at[c], s = job[c].scope, Effect(c, DOMAIN job[c].new)
    PROVE  expected'[b][s] = update(expected[b][s], job[c].new)
<1>1. job[c].new \in News
  BY DEF TypeOK
<1>2. DOMAIN job[c].new \subseteq Key
  BY <1>1, NewsDomain
<1>3. /\ expected'[b][s] \in Dict
      /\ \A k \in Key : expected'[b][s][k] =
            IF k \in DOMAIN job[c].new THEN job[c].new[k] ELSE expected[b][s][k]
  BY <1>2, EffectTypes
<1> QED
  BY <1>3 DEF update, Dict

\* A call writes the whole scope and returns.
LEMMA WriteKeeps ==
    ASSUME SecretsInv, NEW c \in Caller, NEW ok, NEW b \in Backend, NEW s \in Scope,
           b = at[c], s = job[c].scope, pc[c] \in {"write", "encrypt"},
           Effect(c, DOMAIN job[c].new), Return(c, ok),
           UNCHANGED <<kind, up, unlocked, at, from, calls, mishap, outage>>,
           faults' \in 0 .. MaxFaults,
           blob' \in [Backend -> [Scope -> Text]],
           remote' \in [Backend -> [Scope -> Dict \cup {None}]],
           \A x \in Backend, y \in Scope : <<x, y>> # <<b, s>> =>
              blob'[x][y] = blob[x][y] /\ remote'[x][y] = remote[x][y],
           ~Unprotected(b, s) => /\ contents(b, s)' = job[c].buf
                                 /\ kind[b] \notin {"mcp", "kv"} => blob'[b][s] # Torn
    PROVE  SecretsInv'
<1>1. TypeOK /\ PhaseOK(c) /\ BufferOK(c)
  BY DEF SecretsInv
<1>2. /\ pc' \in [Caller -> {"idle", "collect", "get", "read", "write", "encrypt", "put"}]
      /\ job' \in [Caller -> [scope : Scope \cup {None}, new : News, buf : Dict, left : SUBSET Key]]
      /\ scopes' \in [Caller -> SUBSET Scope] /\ reported' \in [Caller -> SUBSET Scope]
      /\ pc'[c] \in {"idle", "collect"}
      /\ \A d \in Caller \ {c} : pc'[d] = pc[d] /\ job'[d] = job[d]
  BY <1>1, ReturnEffect
<1>3. /\ expected' \in [Backend -> [Scope -> Dict]]
      /\ touched' \in [Caller -> SUBSET (Backend \X Scope \X Key)]
      /\ \A x \in Backend, y \in Scope : x # b \/ y # s => expected'[x][y] = expected[x][y]
  <2>1. DOMAIN job[c].new \subseteq Key
    BY <1>1, NewsDomain DEF TypeOK
  <2> QED
    BY <1>1, <2>1, EffectTypes
<1>4. TypeOK'
  BY <1>1, <1>2, <1>3 DEF TypeOK
<1>5. Alone(c)
  BY <1>2 DEF Alone
<1>6. expected'[b][s] = update(expected[b][s], job[c].new)
  BY <1>1, EffectOfAll
<1>7. kind[b] # "kv" /\ c \in rewriting(b, s)
  BY <1>1 DEF PhaseOK, rewriting
<1>8. Held(b, s)'
  <2>1. Unprotected(b, s)' <=> Unprotected(b, s)
    BY DEF Unprotected
  <2>2. ~Unprotected(b, s) => job[c].buf = update(expected[b][s], job[c].new)
    BY <1>1 DEF BufferOK
  <2> QED
    BY <1>6, <2>1, <2>2 DEF Held
<1> DEFINE T == {<<b, s>>}
<1>9. T \in SUBSET (Backend \X Scope) /\ <<at[c], job[c].scope>> \in T
  OBVIOUS
<1>10. \A x \in Backend, y \in Scope : <<x, y>> \notin T =>
          blob'[x][y] = blob[x][y] /\ remote'[x][y] = remote[x][y] /\ expected'[x][y] = expected[x][y]
  BY <1>3
<1>11. \A x \in Backend, y \in Scope : <<x, y>> \in T =>
          /\ expected'[x][y] = expected[x][y] \/ kind[x] = "kv" \/ c \in rewriting(x, y)
          /\ kind[x] = "kv" => remote'[x][y] \in Dict
          /\ Held(x, y)'
  BY <1>7, <1>8
<1> HIDE DEF T
<1> QED
  BY <1>2, <1>4, <1>5, <1>9, <1>10, <1>11, OutOfIt, StepKeeps

LEMMA StoreKeeps == ASSUME SecretsInv, NEW c \in Caller, Store(c) PROVE SecretsInv'
<1>1. PICK b \in Backend, s \in Scope : b = at[c] /\ s = job[c].scope
  BY DEF SecretsInv, TypeOK, PhaseOK, Store
<1>2. /\ kind[b] = "mcp" /\ job[c].buf \in Dict
      /\ remote \in [Backend -> [Scope -> Dict \cup {None}]]
  BY <1>1 DEF Store, reaches, SecretsInv, TypeOK
<1>3. remote' = [remote EXCEPT ![b][s] = job[c].buf]
  BY <1>1 DEF Store
<1>4. /\ remote' \in [Backend -> [Scope -> Dict \cup {None}]] /\ remote'[b][s] = job[c].buf
      /\ \A x \in Backend, y \in Scope : <<x, y>> # <<b, s>> => remote'[x][y] = remote[x][y]
  BY <1>2, <1>3
<1>5. UNCHANGED <<kind, up, unlocked, blob, at, from, calls, mishap, outage>>
  BY DEF Store
<1>6. faults' \in 0 .. MaxFaults /\ blob' \in [Backend -> [Scope -> Text]]
  <2>1. faults \in 0 .. MaxFaults /\ blob \in [Backend -> [Scope -> Text]]
    BY DEF SecretsInv, TypeOK
  <2>2. (UNCHANGED faults) \/ (faults < MaxFaults /\ faults' = faults + 1)
    BY ZenonT(30) DEF Store
  <2> QED
    BY <1>5, <2>1, <2>2, SecretsAssumption
<1>7. contents(b, s)' = job[c].buf
  BY <1>2, <1>4, <1>5 DEF contents
<1>8. PICK ok \in BOOLEAN : Return(c, ok)
  BY DEF Store
<1>9. pc[c] \in {"write", "encrypt"} /\ Effect(c, DOMAIN job[c].new)
  BY DEF Store
<1> QED
  BY <1>1, <1>2, <1>4, <1>5, <1>6, <1>7, <1>8, <1>9, WriteKeeps, ZenonT(30)

LEMMA EncryptKeeps == ASSUME SecretsInv, NEW c \in Caller, Encrypt(c) PROVE SecretsInv'
<1>1. PICK b \in Backend, s \in Scope : b = at[c] /\ s = job[c].scope
  BY DEF SecretsInv, TypeOK, PhaseOK, Encrypt
<1> DEFINE t == IF kind[b] = "vault-cmd" THEN Torn ELSE job[c].buf
<1>2. /\ t \in Text /\ job[c].buf \in Dict /\ kind[b] # "kv"
      /\ blob \in [Backend -> [Scope -> Text]]
  BY <1>1 DEF Encrypt, SecretsInv, TypeOK, PhaseOK, Text
<1>3. blob' = [blob EXCEPT ![b][s] = t]
  BY <1>1 DEF Encrypt
<1>4. /\ blob' \in [Backend -> [Scope -> Text]] /\ blob'[b][s] = t
      /\ \A x \in Backend, y \in Scope : <<x, y>> # <<b, s>> => blob'[x][y] = blob[x][y]
  <2> HIDE DEF t
  <2> QED
    BY <1>2, <1>3
<1>5. UNCHANGED <<kind, up, unlocked, remote, at, from, calls, faults, mishap, outage>>
  BY DEF Encrypt
<1>6. faults' \in 0 .. MaxFaults /\ remote' \in [Backend -> [Scope -> Dict \cup {None}]]
  BY <1>5 DEF SecretsInv, TypeOK
<1>7. ASSUME ~Unprotected(b, s)
      PROVE  contents(b, s)' = job[c].buf /\ blob'[b][s] # Torn
  <2>1. kind[b] # "vault-cmd" /\ kind[b] # "mcp"
    BY <1>1, <1>7 DEF Encrypt, Unprotected, SecretsInv, PhaseOK
  <2> QED
    BY <1>2, <1>4, <1>5, <2>1, NoText DEF contents
<1>8. pc[c] \in {"write", "encrypt"} /\ Effect(c, DOMAIN job[c].new) /\ Return(c, TRUE)
  BY DEF Encrypt
<1>9. /\ blob' \in [Backend -> [Scope -> Text]]
      /\ \A x \in Backend, y \in Scope : <<x, y>> # <<b, s>> =>
            blob'[x][y] = blob[x][y] /\ remote'[x][y] = remote[x][y]
  BY <1>4, <1>5
<1> HIDE DEF t
<1> QED
  BY <1>1, <1>5, <1>6, <1>7, <1>8, <1>9, WriteKeeps, ZenonT(30)

\* While the file is open nobody claims to know what is in it.
LEMMA OpenKeeps ==
    ASSUME SecretsInv, NEW c \in Caller, NEW t \in {None, Torn}, Open(c, t),
           kind[at[c]] = "mcp" => at[c] \in outage
    PROVE  SecretsInv'
<1>1. PICK b \in Backend, s \in Scope : b = at[c] /\ s = job[c].scope
  BY DEF SecretsInv, TypeOK, PhaseOK, Open
<1>2. TypeOK /\ PhaseOK(c) /\ BufferOK(c) /\ pc[c] = "write"
  BY DEF SecretsInv, Open
<1>3. /\ UNCHANGED <<kind, up, unlocked, remote, at, job, from, scopes, reported, calls, faults>>
      /\ UNCHANGED <<expected, mishap, outage, touched>>
  BY DEF Open, callVars, history
<1>4. /\ blob' \in [Backend -> [Scope -> Text]]
      /\ \A x \in Backend, y \in Scope : <<x, y>> # <<b, s>> => blob'[x][y] = blob[x][y]
  BY <1>1, <1>2 DEF Open, TypeOK, Text
<1>5. /\ pc' \in [Caller -> {"idle", "collect", "get", "read", "write", "encrypt", "put"}]
      /\ pc'[c] = "encrypt" /\ \A d \in Caller \ {c} : pc'[d] = pc[d]
  BY <1>2 DEF Open, TypeOK
<1>6. TypeOK'
  BY <1>2, <1>3, <1>4, <1>5 DEF TypeOK
<1>7. Alone(c)
  BY <1>3, <1>5 DEF Alone
<1>8. PhaseOK(c)' /\ Joins(c)
  BY <1>1, <1>2, <1>3, <1>5 DEF PhaseOK, Joins, rewriting
<1>9. BufferOK(c)'
  BY <1>1, <1>2, <1>3, <1>5 DEF BufferOK, Unprotected
<1>10. kind[b] # "kv" /\ c \in rewriting(b, s)'
  BY <1>1, <1>2, <1>3, <1>5 DEF PhaseOK, rewriting
<1>11. ~Resting(b, s)'
  BY <1>5, <1>10 DEF Resting
<1> DEFINE T == {<<b, s>>}
<1>12. T \in SUBSET (Backend \X Scope) /\ <<at[c], job[c].scope>> \in T
  BY <1>1
<1>13. \A x \in Backend, y \in Scope : <<x, y>> \notin T =>
          blob'[x][y] = blob[x][y] /\ remote'[x][y] = remote[x][y] /\ expected'[x][y] = expected[x][y]
  BY <1>3, <1>4
<1>14. \A x \in Backend, y \in Scope : <<x, y>> \in T =>
          /\ expected'[x][y] = expected[x][y] \/ kind[x] = "kv" \/ c \in rewriting(x, y)
          /\ kind[x] = "kv" => remote'[x][y] \in Dict
          /\ Held(x, y)'
  BY <1>3, <1>10, <1>11 DEF Held
<1> HIDE DEF T
<1> QED
  BY <1>3, <1>6, <1>7, <1>8, <1>9, <1>12, <1>13, <1>14, StepKeeps

LEMMA OpenVaultKeeps == ASSUME SecretsInv, NEW c \in Caller, OpenVault(c) PROVE SecretsInv'
<1>1. CASE \E t \in {None, Torn} : Open(c, t)
  <2>1. kind[at[c]] # "mcp"
    BY DEF OpenVault, vaults
  <2> QED
    BY <1>1, <2>1, OpenKeeps
<1>2. CASE /\ pc[c] = "write" /\ Return(c, FALSE)
           /\ UNCHANGED <<stores, at, from, calls, faults, history>>
  <2>1. faults' \in 0 .. MaxFaults
    BY <1>2 DEF SecretsInv, TypeOK
  <2> QED
    BY <1>2, <2>1, ReturnKeeps
<1> QED
  BY <1>1, <1>2 DEF OpenVault

LEMMA OpenOthersKeep ==
    ASSUME SecretsInv, NEW c \in Caller, OpenSops(c) \/ OpenBlob(c) PROVE SecretsInv'
<1>1. Open(c, Torn)
  BY DEF OpenSops, OpenBlob
<1>2. at[c] \in Backend
  BY DEF SecretsInv, TypeOK
<1>3. kind[at[c]] = "mcp" => at[c] \in outage
  BY <1>2 DEF OpenSops, OpenBlob, reaches, SecretsInv
<1> QED
  BY <1>1, <1>3, OpenKeeps

\* A server stores one key.  Nobody rewrites its scopes: it is never at fault.
LEMMA PutKeeps == ASSUME SecretsInv, NEW c \in Caller, Put(c) PROVE SecretsInv'
<1>1. PICK b \in Backend, s \in Scope : b = at[c] /\ s = job[c].scope
  BY DEF SecretsInv, TypeOK, PhaseOK, Put
<1>2. TypeOK /\ PhaseOK(c) /\ pc[c] = "put" /\ kind[b] = "kv"
  BY <1>1 DEF SecretsInv, PhaseOK, Put
<1>3. PICK k \in job[c].left :
         /\ remote' = [remote EXCEPT ![b][s][k] = job[c].new[k]]
         /\ Effect(c, {k})
         /\ \/ /\ job' = [job EXCEPT ![c].left = @ \ {k}]
               /\ UNCHANGED <<pc, scopes, reported, faults>>
            \/ Return(c, TRUE) /\ UNCHANGED faults
            \/ faults < MaxFaults /\ faults' = faults + 1 /\ Return(c, FALSE)
  BY <1>1 DEF Put
<1>4. /\ k \in Key /\ k \in DOMAIN job[c].new /\ job[c].new[k] \in Value
      /\ remote[b][s] \in Dict /\ expected[b][s] \in Dict
  <2>1. job[c].new \in News /\ k \in Key /\ expected[b][s] \in Dict
    BY <1>2 DEF TypeOK
  <2>2. k \in DOMAIN job[c].new
    BY <1>2, <1>3 DEF PhaseOK
  <2>3. job[c].new[k] \in Value
    BY <2>1, <2>2, NewsDomain
  <2>4. remote[b][s] \in Dict
    BY <1>2 DEF SecretsInv, ScopeOK
  <2> QED
    BY <2>1, <2>2, <2>3, <2>4
<1> DEFINE v == job[c].new[k]
           d == [remote[b][s] EXCEPT ![k] = v]
<1>5. remote' = [remote EXCEPT ![b][s] = d]
  BY <1>3
<1>6. d \in Dict
  BY <1>4 DEF Dict
<1>7. /\ remote' \in [Backend -> [Scope -> Dict \cup {None}]] /\ remote'[b][s] = d
      /\ \A x \in Backend, y \in Scope : <<x, y>> # <<b, s>> => remote'[x][y] = remote[x][y]
  <2> HIDE DEF d
  <2> QED
    BY <1>2, <1>5, <1>6 DEF TypeOK
<1>8. /\ expected' \in [Backend -> [Scope -> Dict]]
      /\ touched' \in [Caller -> SUBSET (Backend \X Scope \X Key)]
      /\ \A x \in Backend, y \in Scope : x # b \/ y # s => expected'[x][y] = expected[x][y]
      /\ \A j \in Key : expected'[b][s][j] = IF j \in {k} THEN v ELSE expected[b][s][j]
  <2>1. {k} \in SUBSET Key /\ {k} \subseteq DOMAIN job[c].new
    BY <1>4
  <2>2. Effect(c, {k}) /\ job[c].scope \in Scope
    BY <1>1, <1>3
  <2>3. /\ expected' \in [Backend -> [Scope -> Dict]]
        /\ touched' \in [Caller -> SUBSET (Backend \X Scope \X Key)]
        /\ \A x \in Backend, y \in Scope : x # at[c] \/ y # job[c].scope =>
              expected'[x][y] = expected[x][y]
        /\ \A j \in Key : expected'[at[c]][job[c].scope][j] =
              IF j \in {k} THEN job[c].new[j] ELSE expected[at[c]][job[c].scope][j]
    BY <1>2, <2>1, <2>2, EffectTypes
  <2> QED
    BY <1>1, <2>3
<1>9. UNCHANGED <<kind, up, unlocked, blob, at, from, calls, mishap, outage>>
  BY DEF Put
<1>10. remote[b][s] = expected[b][s]
  <2>1. rewriting(b, s) = {}
    BY <1>2 DEF SecretsInv, PhaseOK, rewriting
  <2>2. Resting(b, s) /\ ~Unprotected(b, s)
    BY <1>2, <2>1 DEF Resting, Unprotected
  <2> QED
    BY <1>2, <1>4, <2>2 DEF SecretsInv, ScopesKept, contents
<1>11. Held(b, s)'
  <2>1. expected'[b][s] = d
    BY <1>4, <1>8, <1>10 DEF Dict
  <2> QED
    BY <1>2, <1>6, <1>7, <1>9, <2>1 DEF Held, contents
<1>12. faults' \in 0 .. MaxFaults
  <2>1. faults \in 0 .. MaxFaults
    BY <1>2 DEF TypeOK
  <2>2. (UNCHANGED faults) \/ (faults < MaxFaults /\ faults' = faults + 1)
    BY <1>3, Zenon
  <2> QED
    BY <2>1, <2>2, SecretsAssumption
<1>13. /\ pc' \in [Caller -> {"idle", "collect", "get", "read", "write", "encrypt", "put"}]
       /\ job' \in [Caller -> [scope : Scope \cup {None}, new : News, buf : Dict, left : SUBSET Key]]
       /\ scopes' \in [Caller -> SUBSET Scope] /\ reported' \in [Caller -> SUBSET Scope]
       /\ \A e \in Caller \ {c} : pc'[e] = pc[e] /\ job'[e] = job[e]
       /\ \/ pc'[c] \in {"idle", "collect"}
          \/ /\ pc'[c] = "put" /\ job'[c].scope = s /\ job'[c].new = job[c].new
             /\ job'[c].left \subseteq job[c].left
  <2>1. CASE \E ok \in BOOLEAN : Return(c, ok)
    BY <1>1, <1>2, <2>1, ReturnEffect
  <2>2. CASE /\ job' = [job EXCEPT ![c].left = @ \ {k}]
             /\ UNCHANGED <<pc, scopes, reported, faults>>
    <3> DEFINE r == [job[c] EXCEPT !.left = @ \ {k}]
    <3>1. job' = [job EXCEPT ![c] = r]
      BY <2>2
    <3>2. /\ r \in [scope : Scope \cup {None}, new : News, buf : Dict, left : SUBSET Key]
          /\ r.scope = job[c].scope /\ r.new = job[c].new /\ r.left \subseteq job[c].left
      <4>1. job[c] \in [scope : Scope \cup {None}, new : News, buf : Dict, left : SUBSET Key]
        BY <1>2 DEF TypeOK
      <4> QED
        BY <4>1
    <3> HIDE DEF r
    <3>3. /\ job' \in [Caller -> [scope : Scope \cup {None}, new : News, buf : Dict, left : SUBSET Key]]
          /\ job'[c] = r /\ \A e \in Caller \ {c} : job'[e] = job[e]
      BY <1>2, <3>1, <3>2 DEF TypeOK
    <3> QED
      BY <1>1, <1>2, <2>2, <3>2, <3>3 DEF TypeOK
  <2> QED
    BY <1>3, <2>1, <2>2
<1>14. TypeOK'
  BY <1>2, <1>7, <1>8, <1>9, <1>12, <1>13 DEF TypeOK
<1>15. Alone(c)
  BY <1>9, <1>13 DEF Alone
<1>16. PhaseOK(c)' /\ BufferOK(c)' /\ Joins(c)
  BY <1>1, <1>2, <1>9, <1>13 DEF PhaseOK, BufferOK, Joins, rewriting
<1> DEFINE T == {<<b, s>>}
<1>17. T \in SUBSET (Backend \X Scope)
  OBVIOUS
<1>18. \A x \in Backend, y \in Scope : <<x, y>> \notin T =>
          blob'[x][y] = blob[x][y] /\ remote'[x][y] = remote[x][y] /\ expected'[x][y] = expected[x][y]
  BY <1>7, <1>8, <1>9
<1>19. \A x \in Backend, y \in Scope : <<x, y>> \in T =>
          /\ expected'[x][y] = expected[x][y] \/ kind[x] = "kv" \/ c \in rewriting(x, y)
          /\ kind[x] = "kv" => remote'[x][y] \in Dict
          /\ Held(x, y)'
  BY <1>2, <1>6, <1>7, <1>11
<1> HIDE DEF T
<1> QED
  BY <1>2, <1>9, <1>14, <1>15, <1>16, <1>17, <1>18, <1>19, StepKeeps

-----------------------------------------------------------------------------
(* What goes wrong.                                                         *)

LEMMA DieKeeps == ASSUME SecretsInv, NEW c \in Caller, Die(c) PROVE SecretsInv'
<1>1. TypeOK /\ PhaseOK(c)
  BY DEF SecretsInv
<1>2. UNCHANGED <<kind, up, unlocked, blob, remote, at, from, reported, calls, expected, outage, touched>>
  BY DEF Die, stores
<1>3. /\ pc' \in [Caller -> {"idle", "collect", "get", "read", "write", "encrypt", "put"}]
      /\ job' \in [Caller -> [scope : Scope \cup {None}, new : News, buf : Dict, left : SUBSET Key]]
      /\ scopes' \in [Caller -> SUBSET Scope]
      /\ pc'[c] = "idle" /\ \A d \in Caller \ {c} : pc'[d] = pc[d] /\ job'[d] = job[d]
  BY <1>1, EmptyFacts DEF Die, TypeOK
<1>4. faults' \in 0 .. MaxFaults
  <2>1. faults \in 0 .. MaxFaults /\ faults < MaxFaults /\ faults' = faults + 1
    BY <1>1 DEF Die, TypeOK
  <2> QED
    BY <2>1, SecretsAssumption
<1>5. mishap' \subseteq Backend \X Scope /\ mishap \subseteq mishap'
  BY <1>1 DEF Die, TypeOK, PhaseOK
<1>6. TypeOK'
  BY <1>1, <1>2, <1>3, <1>4, <1>5 DEF TypeOK
<1>7. Alone(c)
  BY <1>2, <1>3 DEF Alone
<1>8. CASE pc[c] # "encrypt"
  BY <1>2, <1>3, <1>5, <1>6, <1>7, <1>8, OutOfIt, QuietKeeps
<1>9. CASE pc[c] = "encrypt"
  <2>1. PICK b \in Backend, s \in Scope : b = at[c] /\ s = job[c].scope
    BY <1>1, <1>9 DEF TypeOK, PhaseOK
  <2>2. <<b, s>> \in mishap' /\ kind[b] # "kv"
    BY <1>1, <1>9, <2>1 DEF Die, PhaseOK
  <2>3. Held(b, s)'
    BY <1>2, <2>2 DEF Held, Unprotected
  <2> DEFINE T == {<<b, s>>}
  <2>4. T \in SUBSET (Backend \X Scope) /\ <<at[c], job[c].scope>> \in T
    BY <2>1
  <2>5. \A x \in Backend, y \in Scope :
           blob'[x][y] = blob[x][y] /\ remote'[x][y] = remote[x][y] /\ expected'[x][y] = expected[x][y]
    BY <1>2
  <2>6. \A x \in Backend, y \in Scope : <<x, y>> \in T =>
           /\ expected'[x][y] = expected[x][y] \/ kind[x] = "kv" \/ c \in rewriting(x, y)
           /\ kind[x] = "kv" => remote'[x][y] \in Dict
           /\ Held(x, y)'
    BY <2>2, <2>3, <2>5
  <2> HIDE DEF T
  <2> QED
    BY <1>2, <1>3, <1>5, <1>6, <1>7, <2>4, <2>5, <2>6, OutOfIt, StepKeeps
<1> QED
  BY <1>8, <1>9

\* A server or a password that goes and comes back changes no scope.
LEMMA OutageKeeps ==
    ASSUME SecretsInv, TypeOK', outage \subseteq outage',
           \A b \in Backend \ outage' : b \in up' \cap unlocked',
           UNCHANGED <<kind, blob, remote, pc, callVars, calls, expected, mishap, touched>>
    PROVE  SecretsInv'
<1>1. UNCHANGED <<kind, blob, remote, pc, at, job, from, expected, mishap>>
  BY DEF callVars
<1>2. ASSUME NEW c \in Caller PROVE PhaseOK(c)' /\ BufferOK(c)'
  <2>1. PhaseOK(c) /\ BufferOK(c) /\ at[c] \in Backend
    BY DEF SecretsInv, TypeOK
  <2>2. PhaseOK(c)'
    BY <1>1, <2>1 DEF PhaseOK
  <2>3. BufferOK(c)'
    BY <1>1, <2>1 DEF BufferOK, Unprotected
  <2> QED
    BY <2>2, <2>3
<1>3. ASSUME NEW b \in Backend, NEW s \in Scope
      PROVE  ScopeOK(b, s)' /\ (Resting(b, s)' /\ ~Unprotected(b, s)' => contents(b, s)' = expected'[b][s])
  <2>1. rewriting(b, s)' = rewriting(b, s) /\ contents(b, s)' = contents(b, s)
    BY <1>1 DEF rewriting, contents
  <2>2. Resting(b, s)' = Resting(b, s)
    BY <1>1, <2>1 DEF Resting
  <2>3. ~Unprotected(b, s)' => ~Unprotected(b, s)
    BY <1>1, StillUnprotected
  <2> QED
    BY <1>1, <2>1, <2>2, <2>3 DEF SecretsInv, ScopeOK, ScopesKept
<1> QED
  BY <1>2, <1>3 DEF SecretsInv, ScopesKept

LEMMA FailKeeps == ASSUME SecretsInv, NEW b \in Backend, Fail(b) PROVE SecretsInv'
<1>1. faults \in 0 .. MaxFaults /\ faults < MaxFaults /\ faults' = faults + 1
  BY DEF SecretsInv, TypeOK, Fail
<1>2. faults' \in 0 .. MaxFaults
  BY <1>1, SecretsAssumption
<1>3. TypeOK'
  BY <1>2 DEF Fail, SecretsInv, TypeOK, callVars
<1>4. outage' = outage \cup {b} /\ \A x \in Backend \ outage' : x \in up' \cap unlocked'
  BY DEF Fail, SecretsInv
<1> QED
  BY <1>3, <1>4, OutageKeeps DEF Fail

LEMMA RecoverKeeps == ASSUME SecretsInv, NEW b \in Backend, Recover(b) PROVE SecretsInv'
<1>1. TypeOK'
  BY DEF Recover, SecretsInv, TypeOK, callVars, history
<1>2. outage' = outage /\ \A x \in Backend \ outage' : x \in up' \cap unlocked'
  BY DEF Recover, SecretsInv, history
<1> QED
  BY <1>1, <1>2, OutageKeeps DEF Recover, history

-----------------------------------------------------------------------------
(* The theorems.                                                            *)

LEMMA InitInv == Init => SecretsInv
<1> SUFFICES ASSUME Init PROVE SecretsInv
  OBVIOUS
<1>1. TypeOK
  BY InitTypes
<1>2. ASSUME NEW b \in Backend, NEW s \in Scope
      PROVE  ScopeOK(b, s) /\ contents(b, s) = expected[b][s]
  <2>1. Initial(b, s) \in Dict /\ Initial(b, s) # Torn /\ None # Torn /\ Empty \in Dict
    BY InitialInDict, EmptyFacts, NoText, SecretsAssumption
  <2>2. <<b, s>> \notin Filled => Initial(b, s) = Empty
    BY DEF Initial
  <2>3. rewriting(b, s) = {}
    BY DEF Init, rewriting
  <2> QED
    BY <2>1, <2>2, <2>3, NoText DEF Init, ScopeOK, contents
<1>3. \A c \in Caller : PhaseOK(c) /\ BufferOK(c)
  BY DEF Init, PhaseOK, BufferOK
<1> QED
  BY <1>1, <1>2, <1>3 DEF Init, SecretsInv, ScopesKept

LEMMA NextInv == SecretsInv /\ [Next]_vars => SecretsInv'
<1> SUFFICES ASSUME SecretsInv, [Next]_vars PROVE SecretsInv'
  OBVIOUS
<1>1. ASSUME NEW c \in Caller, Call(c) \/ Migrate(c) \/ Collect(c) \/ CollectFails(c) \/ List(c) \/ Get(c)
      PROVE  SecretsInv'
  BY <1>1, CallKeeps, MigrateKeeps, CollectKeeps, CollectFailsKeeps, ListKeeps, GetKeeps
<1>2. ASSUME NEW c \in Caller, ReadVault(c) \/ ReadSops(c) \/ ReadCapauth(c) \/ Misread(c)
      PROVE  SecretsInv'
  BY <1>2, ReadVaultKeeps, ReadSopsKeeps, ReadCapauthKeeps, MisreadKeeps
<1>3. ASSUME NEW c \in Caller,
             Store(c) \/ OpenVault(c) \/ OpenSops(c) \/ OpenBlob(c) \/ Encrypt(c) \/ Put(c)
      PROVE  SecretsInv'
  BY <1>3, StoreKeeps, OpenVaultKeeps, OpenOthersKeep, EncryptKeeps, PutKeeps
<1>4. ASSUME NEW c \in Caller, Refused(c) \/ Die(c) PROVE SecretsInv'
  BY <1>4, RefusedKeeps, DieKeeps
<1>5. ASSUME NEW b \in Backend, Fail(b) \/ Recover(b) PROVE SecretsInv'
  BY <1>5, FailKeeps, RecoverKeeps
<1>6. CASE UNCHANGED vars
  <2>1. UNCHANGED <<kind, blob, remote, pc, callVars, calls, expected, mishap, touched, up, unlocked, outage, faults>>
    BY <1>6 DEF vars, history
  <2>2. TypeOK' /\ \A b \in Backend \ outage' : b \in up' \cap unlocked'
    BY <2>1 DEF SecretsInv, TypeOK, callVars
  <2> QED
    BY <2>1, <2>2, OutageKeeps
<1> QED
  BY <1>1, <1>2, <1>3, <1>4, <1>5, <1>6 DEF Next

\* The types, what every call is busy with, and the contents of every scope fit
\* together in every state of every deployment.
THEOREM SecretsInvariant == Spec => []SecretsInv
<1> QED
  BY InitInv, NextInv, PTL DEF Spec

\* Rewriting a scope for one key neither loses nor revives another, in all
\* adapters, as long as nothing happens that they have no answer to.
THEOREM ScopesAreKept == Spec => []ScopesKept
<1>1. SecretsInv => ScopesKept
  BY DEF SecretsInv
<1> QED
  BY <1>1, SecretsInvariant, PTL

-----------------------------------------------------------------------------
(* What a migration reports: what a step leaves as it is.                   *)

\* What c does changes nothing that another call d relies on, unless d notes it.
Leaves(c) == \A d \in Caller \ {c} :
    /\ scopes'[d] = scopes[d] /\ reported'[d] = reported[d] /\ touched[d] \subseteq touched'[d]
    /\ \A b \in Backend, s \in Scope, k \in Key :
          expected'[b][s][k] = expected[b][s][k] \/ <<b, s, k>> \in touched'[d]

LEMMA OthersCopy ==
    ASSUME SecretsInv, CopyInv, NEW c \in Caller, Alone(c), Leaves(c),
           kind' = kind, outage \subseteq outage', mishap \subseteq mishap',
           \A b \in Backend, s \in Scope : blob'[b][s] = blob[b][s] \/ c \in rewriting(b, s),
           NEW d \in Caller \ {c}
    PROVE  Copying(d)'
<1>1. TypeOK /\ PhaseOK(d) /\ Copying(d)
  BY DEF SecretsInv, CopyInv
<1>2. /\ pc'[d] = pc[d] /\ at'[d] = at[d] /\ job'[d] = job[d] /\ from'[d] = from[d]
      /\ scopes'[d] = scopes[d] /\ reported'[d] = reported[d] /\ touched[d] \subseteq touched'[d]
      /\ \A b \in Backend, s \in Scope, k \in Key :
            expected'[b][s][k] = expected[b][s][k] \/ <<b, s, k>> \in touched'[d]
  BY DEF Alone, Leaves
<1>3. /\ at[d] \in Backend /\ from[d] \in Backend /\ scopes[d] \subseteq Scope /\ reported[d] \subseteq Scope
      /\ job[d].new \in News
  BY <1>1 DEF TypeOK
<1>4. \A s \in Scope :
         /\ ~Unprotected(at[d], s)' => ~Unprotected(at[d], s)
         /\ ~Unprotected(from[d], s)' => ~Unprotected(from[d], s)
  BY <1>2, <1>3 DEF Unprotected
<1>5. Underway(d)'
  BY <1>1, <1>2 DEF Copying, Underway
<1>6. Gathered(d)'
  <2> SUFFICES ASSUME scopes[d] # {}, pc[d] # "collect", NEW k \in Key, NEW s \in Scope,
                      s = job[d].scope, Followed(d, s, k)'
               PROVE  IF k \in DOMAIN job[d].new
                      THEN job[d].new[k] = expected'[from[d]][s][k]
                      ELSE expected'[from[d]][s][k] = 0 \/ (pc[d] = "get" /\ k \in job[d].left)
    <3>1. scopes[d] # {} /\ pc[d] # "collect" => job[d].scope \in Scope
      BY <1>1, <1>3 DEF Copying, Underway
    <3> QED
      BY <1>2, <3>1 DEF Gathered
  <2>1. Followed(d, s, k) /\ expected'[from[d]][s][k] = expected[from[d]][s][k]
    BY <1>2, <1>3, <1>4 DEF Followed
  <2> QED
    BY <1>1, <2>1 DEF Copying, Gathered
<1>7. Copied(d)'
  <2> SUFFICES ASSUME scopes[d] # {}, pc[d] = "put", NEW s \in Scope, s = job[d].scope,
                      NEW k \in DOMAIN job[d].new \ job[d].left, <<at[d], s, k>> \notin touched'[d]
               PROVE  expected'[at[d]][s][k] = job[d].new[k]
    <3>1. scopes[d] # {} /\ pc[d] = "put" => job[d].scope \in Scope
      BY <1>1, <1>3 DEF Copying, Underway
    <3> QED
      BY <1>2, <3>1 DEF Copied
  <2>1. k \in Key
    BY <1>3, NewsDomain
  <2>2. <<at[d], s, k>> \notin touched[d] /\ expected'[at[d]][s][k] = expected[at[d]][s][k]
    BY <1>2, <1>3, <2>1
  <2> QED
    BY <1>1, <2>2 DEF Copying, Copied
<1>8. Unread(d)'
  <2> SUFFICES ASSUME pc[d] = "encrypt", kind[at[d]] \notin {"mcp", "kv"}, NEW s \in Scope,
                      s = job[d].scope, ~Unprotected(at[d], s)'
               PROVE  blob'[at[d]][s] \notin Dict
    BY <1>1, <1>2 DEF Unread, PhaseOK
  <2>1. ~Unprotected(at[d], s) /\ d \in rewriting(at[d], s)
    BY <1>3, <1>4 DEF rewriting
  <2>2. c \notin rewriting(at[d], s)
    BY <1>3, <2>1 DEF SecretsInv, ScopeOK, Unprotected
  <2>3. blob'[at[d]][s] = blob[at[d]][s]
    BY <1>3, <2>2
  <2> QED
    BY <1>1, <2>1, <2>3 DEF Copying, Unread
<1>9. Whole(d)'
  <2> SUFFICES ASSUME NEW s \in reported[d], NEW k \in Key,
                      <<from[d], s, k>> \notin touched'[d], <<at[d], s, k>> \notin touched'[d],
                      ~Unprotected(from[d], s)', ~Unprotected(at[d], s)',
                      expected'[from[d]][s][k] # 0
               PROVE  expected'[at[d]][s][k] = expected'[from[d]][s][k]
    BY <1>2 DEF Whole
  <2>1. s \in Scope
    BY <1>3
  <2>2. /\ expected'[from[d]][s][k] = expected[from[d]][s][k]
        /\ expected'[at[d]][s][k] = expected[at[d]][s][k]
    BY <1>2, <1>3, <2>1
  <2>3. ~Unprotected(from[d], s) /\ ~Unprotected(at[d], s)
    BY <1>3, <1>4, <2>1
  <2> QED
    BY <1>1, <1>2, <2>2, <2>3 DEF Copying, Whole
<1> QED
  BY <1>5, <1>6, <1>7, <1>8, <1>9 DEF Copying

LEMMA CopyStep ==
    ASSUME SecretsInv, CopyInv, NEW c \in Caller, Alone(c), Leaves(c), Copying(c)',
           kind' = kind, outage' = outage, mishap \subseteq mishap',
           \A b \in Backend, s \in Scope : blob'[b][s] = blob[b][s] \/ c \in rewriting(b, s)
    PROVE  CopyInv'
<1>1. \A d \in Caller \ {c} : Copying(d)'
  BY OthersCopy
<1> QED
  BY <1>1 DEF CopyInv

\* A step of c that changes no secret.
LEMMA WholeStays ==
    ASSUME TypeOK, NEW c \in Caller, Whole(c), kind' = kind, outage' = outage, mishap \subseteq mishap',
           from'[c] = from[c], at'[c] = at[c], reported'[c] \subseteq reported[c],
           UNCHANGED <<expected, touched>>
    PROVE  Whole(c)'
<1>1. \A s \in Scope :
         /\ ~Unprotected(at[c], s)' => ~Unprotected(at[c], s)
         /\ ~Unprotected(from[c], s)' => ~Unprotected(from[c], s)
  BY DEF Unprotected
<1>2. at[c] \in Backend /\ from[c] \in Backend /\ reported[c] \subseteq Scope
  BY DEF TypeOK
<1> QED
  BY <1>1, <1>2 DEF Whole

\* The call, or a migration's turn with scope s, is over.
LEMMA LeaveCopies ==
    ASSUME TypeOK, NEW c \in Caller, Underway(c), NEW s \in Scope, Leave(c, s),
           from'[c] = from[c], at'[c] = at[c],
           reported'[c] \subseteq reported[c] \cup {s}, Whole(c)'
    PROVE  Copying(c)'
<1>1. /\ scopes'[c] = scopes[c] \ {s} /\ job'[c] = Nothing
      /\ pc'[c] = IF scopes[c] \ {s} # {} THEN "collect" ELSE "idle"
  BY DEF Leave, TypeOK
<1>2. Underway(c)'
  BY <1>1 DEF Underway
<1>3. Gathered(c)' /\ Copied(c)' /\ Unread(c)'
  BY <1>1 DEF Gathered, Copied, Unread
<1> QED
  BY <1>2, <1>3 DEF Copying

\* It turns to scope s, of which it has got n.
LEMMA EnterCopies ==
    ASSUME TypeOK, NEW c \in Caller, NEW b \in Backend, NEW s \in Scope, NEW n \in News,
           Enter(c, b, s, n), kind' = kind, Whole(c)',
           scopes'[c] # {} => from'[c] # b /\ s \in scopes'[c],
           reported'[c] \cap scopes'[c] = {},
           scopes'[c] # {} => \A k \in Key : Followed(c, s, k)' =>
              IF k \in DOMAIN n THEN n[k] = expected'[from'[c]][s][k]
              ELSE expected'[from'[c]][s][k] = 0
    PROVE  Copying(c)'
<1>1. /\ at'[c] = b /\ job'[c].scope = s /\ job'[c].new = n
      /\ pc'[c] = "read" \/ (pc'[c] = "put" /\ job'[c].left = DOMAIN n)
  <2>1. /\ at'[c] = b /\ job'[c].scope = s /\ job'[c].new = n /\ mishap \subseteq mishap'
        /\ kind[b] = "kv" => pc'[c] = "put" /\ job'[c].left = DOMAIN n
        /\ kind[b] # "kv" => pc'[c] = "read" /\ (rewriting(b, s) # {} => <<b, s>> \in mishap')
    BY EnterEffect
  <2> QED
    BY <2>1
<1>2. Underway(c)' /\ Unread(c)'
  BY <1>1 DEF Underway, Unread
<1>3. Gathered(c)'
  BY <1>1 DEF Gathered
<1>4. Copied(c)'
  BY <1>1 DEF Copied
<1> QED
  BY <1>2, <1>3, <1>4 DEF Copying

-----------------------------------------------------------------------------
(* What a migration reports: the steps that change no secret.               *)

LEMMA QuietCopies ==
    ASSUME SecretsInv, CopyInv, NEW c \in Caller, Alone(c), Copying(c)',
           UNCHANGED <<kind, outage, blob, expected>>, mishap \subseteq mishap',
           \A d \in Caller \ {c} :
              scopes'[d] = scopes[d] /\ reported'[d] = reported[d] /\ touched'[d] = touched[d]
    PROVE  CopyInv'
<1>1. Leaves(c)
  BY DEF Leaves
<1> QED
  BY <1>1, CopyStep

LEMMA CallEnters ==
    ASSUME TypeOK, NEW c \in Caller, Call(c)
    PROVE  \E b \in Backend, s \in Scope, n \in News : Enter(c, b, s, n)
<1>1. PICK b \in Backend, s \in Scope, K \in (SUBSET Key) \ {{}} :
         \/ Enter(c, b, s, [k \in K |-> calls + 2])
         \/ Enter(c, b, s, [k \in K |-> 0])
  BY DEF Call, rotate
<1>2. calls + 2 \in Value /\ 0 \in Value
  BY ValueFacts, SecretsAssumption DEF Call, TypeOK
<1>3. [k \in K |-> calls + 2] \in [K -> Value] /\ [k \in K |-> 0] \in [K -> Value]
  BY <1>2
<1>4. [k \in K |-> calls + 2] \in News /\ [k \in K |-> 0] \in News
  BY <1>3 DEF News
<1> QED
  BY <1>1, <1>4

LEMMA CallCopies == ASSUME SecretsInv, CopyInv, NEW c \in Caller, Call(c) PROVE CopyInv'
<1>1. TypeOK /\ Underway(c) /\ pc[c] = "idle"
  BY DEF SecretsInv, CopyInv, Copying, Call
<1>2. PICK b \in Backend, s \in Scope, n \in News : Enter(c, b, s, n)
  BY <1>1, CallEnters
<1>3. /\ UNCHANGED <<kind, outage, blob, expected, scopes>> /\ reported'[c] = {}
      /\ \A d \in Caller \ {c} :
            reported'[d] = reported[d] /\ touched'[d] = touched[d] /\ from'[d] = from[d]
  BY <1>1 DEF Call, stores, TypeOK
<1>4. Alone(c)
  BY <1>1, <1>2, <1>3, EnterEffect DEF Alone
<1>5. Copying(c)'
  <2>1. scopes'[c] = {}
    BY <1>1, <1>3 DEF Underway
  <2>2. Whole(c)' /\ reported'[c] \cap scopes'[c] = {}
    BY <1>3 DEF Whole
  <2> QED
    BY <1>1, <1>2, <1>3, <2>1, <2>2, EnterCopies
<1>6. mishap \subseteq mishap'
  BY <1>1, <1>2, EnterEffect
<1> QED
  BY <1>3, <1>4, <1>5, <1>6, QuietCopies

LEMMA MigrateCopies == ASSUME SecretsInv, CopyInv, NEW c \in Caller, Migrate(c) PROVE CopyInv'
<1>1. TypeOK /\ Underway(c) /\ pc[c] = "idle"
  BY DEF SecretsInv, CopyInv, Copying, Migrate
<1>2. /\ UNCHANGED <<kind, outage, blob, expected, mishap, job>>
      /\ pc'[c] = "collect" /\ reported'[c] = {} /\ scopes'[c] # {} /\ from'[c] # at'[c]
      /\ \A d \in Caller \ {c} :
            /\ pc'[d] = pc[d] /\ at'[d] = at[d] /\ from'[d] = from[d] /\ scopes'[d] = scopes[d]
            /\ reported'[d] = reported[d] /\ touched'[d] = touched[d]
  BY <1>1 DEF Migrate, stores, TypeOK
<1>3. Alone(c)
  BY <1>2 DEF Alone
<1>4. Copying(c)'
  BY <1>1, <1>2 DEF Copying, Underway, Gathered, Copied, Unread, Whole
<1> QED
  BY <1>2, <1>3, <1>4, QuietCopies

\* A migration passes over a scope, or a call returns without a write.
LEMMA LeaveQuietly ==
    ASSUME SecretsInv, CopyInv, NEW c \in Caller, NEW s \in Scope, Leave(c, s),
           UNCHANGED <<kind, outage, blob, expected, touched, from, at, mishap, reported>>
    PROVE  CopyInv'
<1>1. TypeOK /\ Underway(c) /\ Whole(c)
  BY DEF SecretsInv, CopyInv, Copying
<1>2. \A d \in Caller \ {c} : pc'[d] = pc[d] /\ job'[d] = job[d] /\ scopes'[d] = scopes[d]
  BY <1>1 DEF Leave, TypeOK
<1>3. Alone(c)
  BY <1>2 DEF Alone
<1>4. Whole(c)'
  BY <1>1, WholeStays
<1>5. Copying(c)'
  BY <1>1, <1>4, LeaveCopies
<1> QED
  BY <1>2, <1>3, <1>5, QuietCopies

LEMMA ReturnCopies ==
    ASSUME SecretsInv, CopyInv, NEW c \in Caller, Return(c, FALSE), pc[c] \in {"read", "write", "put"},
           UNCHANGED <<kind, outage, blob, expected, touched, from, at, mishap>>
    PROVE  CopyInv'
<1>1. TypeOK /\ PhaseOK(c)
  BY DEF SecretsInv
<1>2. job[c].scope \in Scope /\ Leave(c, job[c].scope) /\ reported' = reported
  BY <1>1 DEF PhaseOK, Return, TypeOK
<1> QED
  BY <1>2, LeaveQuietly

\* What a backend that can be trusted gives for a scope, if it gives any text,
\* is what was written to it: nobody can read a file that is being written.
LEMMA SourceSeen ==
    ASSUME SecretsInv, CopyInv, NEW b \in Backend, NEW s \in Scope,
           kind[b] # "kv", ~Unprotected(b, s), text(b, s) \in Dict
    PROVE  text(b, s) = expected[b][s]
<1>1. kind[b] \in Kinds
  BY KindFacts DEF SecretsInv
<1>2. kind[b] = "mcp" => b \in up \cap unlocked /\ b \notin outage
  BY DEF SecretsInv, Unprotected
<1>3. kind[b] # "mcp" => text(b, s) = blob[b][s] /\ blob[b][s] \in Dict
  BY NoText DEF text, fileText
<1>4. Resting(b, s)
  <2> SUFFICES ASSUME NEW d \in rewriting(b, s), pc[d] = "encrypt" PROVE FALSE
    BY DEF Resting
  <2>1. d \in Caller /\ at[d] = b /\ job[d].scope = s
    BY DEF rewriting
  <2>2. PhaseOK(d) /\ Unread(d)
    BY <2>1 DEF SecretsInv, CopyInv, Copying
  <2> QED
    BY <1>2, <1>3, <2>1, <2>2 DEF PhaseOK, Unread
<1>5. contents(b, s) = expected[b][s]
  BY <1>4 DEF SecretsInv, ScopesKept
<1>6. kind[b] = "mcp" => text(b, s) = remote[b][s]
  BY <1>2 DEF text, capauthText, reaches
<1> QED
  BY <1>3, <1>5, <1>6 DEF contents

LEMMA CollectCopies == ASSUME SecretsInv, CopyInv, NEW c \in Caller, Collect(c) PROVE CopyInv'
<1>1. TypeOK /\ Underway(c) /\ Whole(c) /\ pc[c] = "collect" /\ kind[from[c]] # "kv"
  BY DEF SecretsInv, CopyInv, Copying, Collect
<1>2. UNCHANGED <<kind, outage, blob, expected, touched, from, reported>>
  BY DEF Collect, stores
<1> DEFINE d(s) == text(from[c], s)
           n(s) == [k \in present(d(s)) |-> d(s)[k]]
<1>3. PICK s \in scopes[c] :
         \/ d(s) \in Dict /\ Enter(c, at[c], s, n(s)) /\ UNCHANGED scopes
         \/ Leave(c, s) /\ UNCHANGED <<at, mishap>>
  BY DEF Collect, Skip
<1>4. s \in Scope /\ at[c] \in Backend /\ from[c] \in Backend /\ scopes[c] # {} /\ at[c] # from[c]
  BY <1>1 DEF TypeOK, Underway
<1>5. CASE d(s) \in Dict /\ Enter(c, at[c], s, n(s)) /\ UNCHANGED scopes
  <2>1. n(s) \in News
    BY <1>5, PresentNews
  <2>2. ASSUME NEW k \in Key, ~Unprotected(from[c], s)
        PROVE  IF k \in DOMAIN n(s) THEN n(s)[k] = expected[from[c]][s][k]
               ELSE expected[from[c]][s][k] = 0
    <3>1. d(s) = expected[from[c]][s]
      BY <1>1, <1>4, <1>5, <2>2, SourceSeen
    <3> QED
      BY <3>1 DEF present
  <2>3. PICK m \in News : m = n(s)
    BY <2>1
  <2> HIDE DEF n, d
  <2>4. /\ Enter(c, at[c], s, m) /\ at'[c] = at[c] /\ mishap \subseteq mishap'
        /\ \A e \in Caller \ {c} : pc'[e] = pc[e] /\ at'[e] = at[e] /\ job'[e] = job[e]
    BY <1>1, <1>4, <1>5, <2>3, EnterEffect
  <2>5. Alone(c)
    BY <1>2, <2>4 DEF Alone
  <2>6. Whole(c)'
    BY <1>1, <1>2, <2>4, WholeStays
  <2>7. ASSUME NEW k \in Key, Followed(c, s, k)'
        PROVE  IF k \in DOMAIN m THEN m[k] = expected'[from'[c]][s][k] ELSE expected'[from'[c]][s][k] = 0
    <3>1. ~Unprotected(from[c], s)
      BY <1>2, <2>4, <2>7 DEF Unprotected, Followed
    <3> QED
      BY <1>2, <2>2, <2>3, <3>1
  <2>8. /\ scopes'[c] # {} => from'[c] # at[c] /\ s \in scopes'[c]
        /\ reported'[c] \cap scopes'[c] = {}
    BY <1>1, <1>2, <1>3, <1>4, <1>5 DEF Underway
  <2>9. Copying(c)'
    BY <1>1, <1>2, <1>4, <2>4, <2>6, <2>7, <2>8, EnterCopies
  <2> QED
    BY <1>2, <1>5, <2>4, <2>5, <2>9, QuietCopies
<1>6. CASE Leave(c, s) /\ UNCHANGED <<at, mishap>>
  BY <1>2, <1>4, <1>6, LeaveQuietly
<1> QED
  BY <1>3, <1>5, <1>6

LEMMA CollectFailsCopies ==
    ASSUME SecretsInv, CopyInv, NEW c \in Caller, CollectFails(c) PROVE CopyInv'
<1>1. TypeOK /\ Underway(c) /\ Whole(c) /\ pc[c] = "collect"
  BY DEF SecretsInv, CopyInv, Copying, CollectFails
<1>2. UNCHANGED <<kind, outage, blob, expected, touched, from, reported>>
  BY DEF CollectFails, stores
<1>3. PICK s \in scopes[c] : Leave(c, s) /\ UNCHANGED <<at, mishap>>
  BY DEF CollectFails, Skip
<1>4. s \in Scope /\ at[c] \in Backend /\ from[c] \in Backend /\ scopes[c] # {} /\ at[c] # from[c]
  BY <1>1, <1>3 DEF TypeOK, Underway
<1> QED
  BY <1>1, <1>2, <1>3, <1>4, LeaveQuietly

\* A server stores exactly what is expected.
LEMMA ServerHolds ==
    ASSUME SecretsInv, NEW b \in Backend, NEW s \in Scope, kind[b] = "kv"
    PROVE  remote[b][s] = expected[b][s] /\ remote[b][s] \in Dict
<1>1. rewriting(b, s) = {}
  BY DEF SecretsInv, PhaseOK, rewriting
<1>2. Resting(b, s) /\ ~Unprotected(b, s) /\ remote[b][s] \in Dict
  BY <1>1 DEF Resting, Unprotected, SecretsInv, ScopeOK
<1> QED
  BY <1>2 DEF SecretsInv, ScopesKept, contents

LEMMA ListCopies == ASSUME SecretsInv, CopyInv, NEW c \in Caller, List(c) PROVE CopyInv'
<1>1. TypeOK /\ Underway(c) /\ Whole(c) /\ pc[c] = "collect" /\ kind[from[c]] = "kv"
  BY DEF SecretsInv, CopyInv, Copying, List
<1>2. UNCHANGED <<kind, outage, blob, expected, touched, from, reported>>
  BY DEF List, stores
<1> DEFINE K(s) == present(remote[from[c]][s])
<1>3. PICK s \in scopes[c] :
         \/ /\ job' = [job EXCEPT ![c].scope = s, ![c].left = K(s)]
            /\ pc' = [pc EXCEPT ![c] = "get"]
            /\ UNCHANGED <<at, scopes, mishap>>
         \/ Leave(c, s) /\ UNCHANGED <<at, mishap>>
  BY DEF List, Skip
<1>4. s \in Scope /\ from[c] \in Backend /\ job[c] = Nothing
  BY <1>1 DEF TypeOK, Underway
<1>5. CASE /\ job' = [job EXCEPT ![c].scope = s, ![c].left = K(s)]
           /\ pc' = [pc EXCEPT ![c] = "get"]
           /\ UNCHANGED <<at, scopes, mishap>>
  <2> HIDE DEF K
  <2>1. /\ job'[c].scope = s /\ job'[c].left = K(s) /\ job'[c].new = [k \in {} |-> 0]
        /\ pc'[c] = "get" /\ \A d \in Caller \ {c} : pc'[d] = pc[d] /\ job'[d] = job[d]
    BY <1>1, <1>4, <1>5 DEF TypeOK, Nothing
  <2>2. Alone(c)
    BY <1>2, <1>5, <2>1 DEF Alone
  <2>3. \A k \in Key : k \notin K(s) => expected[from[c]][s][k] = 0
    BY <1>1, <1>4, ServerHolds DEF K, present
  <2>4. Underway(c)'
    BY <1>1, <1>2, <1>5, <2>1 DEF Underway
  <2>5. Gathered(c)' /\ Copied(c)' /\ Unread(c)'
    BY <1>2, <2>1, <2>3 DEF Gathered, Copied, Unread
  <2>6. Whole(c)'
    BY <1>1, <1>2, <1>5, WholeStays
  <2> QED
    BY <1>2, <1>5, <2>2, <2>4, <2>5, <2>6, QuietCopies DEF Copying
<1>6. CASE Leave(c, s) /\ UNCHANGED <<at, mishap>>
  BY <1>2, <1>4, <1>6, LeaveQuietly
<1> QED
  BY <1>3, <1>5, <1>6

LEMMA GetCopies == ASSUME SecretsInv, CopyInv, NEW c \in Caller, Get(c) PROVE CopyInv'
<1>1. /\ TypeOK /\ PhaseOK(c) /\ Underway(c) /\ Gathered(c) /\ Whole(c) /\ pc[c] = "get"
  BY DEF SecretsInv, CopyInv, Copying, Get
<1>2. UNCHANGED <<kind, outage, blob, expected, touched, from, reported>>
  BY DEF Get, stores
<1>3. PICK s \in Scope : s = job[c].scope
  BY <1>1 DEF PhaseOK
<1> DEFINE New(k) == [j \in DOMAIN job[c].new \cup {k} |->
                        IF j = k THEN remote[from[c]][s][k] ELSE job[c].new[j]]
<1>4. PICK k \in job[c].left :
         \/ Leave(c, s) /\ UNCHANGED <<at, mishap>>
         \/ job[c].left = {k} /\ Enter(c, at[c], s, New(k)) /\ UNCHANGED scopes
         \/ /\ job' = [job EXCEPT ![c].new = New(k), ![c].left = @ \ {k}]
            /\ UNCHANGED <<at, pc, mishap, scopes>>
  BY <1>3 DEF Get, Skip
<1>5. /\ k \in Key /\ job[c].new \in News /\ at[c] \in Backend /\ from[c] \in Backend
      /\ scopes[c] # {} /\ at[c] # from[c] /\ s \in scopes[c]
  BY <1>1, <1>3 DEF TypeOK, Underway
<1>6. remote[from[c]][s] = expected[from[c]][s] /\ remote[from[c]][s] \in Dict
  BY <1>1, <1>5, ServerHolds DEF PhaseOK
<1>7. New(k) \in News
  <2>1. DOMAIN job[c].new \cup {k} \in SUBSET Key
    BY <1>5, NewsDomain
  <2>2. New(k) \in [DOMAIN job[c].new \cup {k} -> Value]
    BY <1>5, <1>6, NewsDomain DEF Dict
  <2> QED
    BY <2>1, <2>2, NewsIntro
<1>8. ASSUME NEW j \in Key, Followed(c, s, j)
      PROVE  IF j \in DOMAIN New(k) THEN New(k)[j] = expected[from[c]][s][j]
             ELSE expected[from[c]][s][j] = 0 \/ j \in job[c].left \ {k}
  BY <1>1, <1>3, <1>5, <1>6, <1>8 DEF Gathered
<1>9. PICK m \in News : m = New(k)
  BY <1>7
<1> HIDE DEF New
<1>10. CASE Leave(c, s) /\ UNCHANGED <<at, mishap>>
  BY <1>2, <1>10, LeaveQuietly
<1>11. CASE job[c].left = {k} /\ Enter(c, at[c], s, New(k)) /\ UNCHANGED scopes
  <2>1. /\ Enter(c, at[c], s, m) /\ at'[c] = at[c] /\ mishap \subseteq mishap'
        /\ \A e \in Caller \ {c} : pc'[e] = pc[e] /\ at'[e] = at[e] /\ job'[e] = job[e]
    BY <1>1, <1>5, <1>9, <1>11, EnterEffect
  <2>2. Alone(c)
    BY <1>2, <2>1 DEF Alone
  <2>3. Whole(c)'
    BY <1>1, <1>2, <2>1, WholeStays
  <2>4. ASSUME NEW j \in Key, Followed(c, s, j)'
        PROVE  IF j \in DOMAIN m THEN m[j] = expected'[from'[c]][s][j] ELSE expected'[from'[c]][s][j] = 0
    <3>1. Followed(c, s, j)
      BY <1>2, <2>1, <2>4 DEF Unprotected, Followed
    <3> QED
      BY <1>2, <1>8, <1>9, <1>11, <3>1
  <2>5. /\ scopes'[c] # {} => from'[c] # at[c] /\ s \in scopes'[c]
        /\ reported'[c] \cap scopes'[c] = {}
    BY <1>1, <1>2, <1>5, <1>11 DEF Underway
  <2>6. Copying(c)'
    BY <1>1, <1>2, <1>5, <2>1, <2>3, <2>4, <2>5, EnterCopies
  <2> QED
    BY <1>2, <1>11, <2>1, <2>2, <2>6, QuietCopies
<1>12. CASE /\ job' = [job EXCEPT ![c].new = New(k), ![c].left = @ \ {k}]
            /\ UNCHANGED <<at, pc, mishap, scopes>>
  <2>1. /\ job'[c].scope = s /\ job'[c].left = job[c].left \ {k} /\ job'[c].new = m
        /\ \A d \in Caller \ {c} : job'[d] = job[d]
    BY <1>1, <1>3, <1>9, <1>12 DEF TypeOK
  <2>2. Alone(c)
    BY <1>2, <1>12, <2>1 DEF Alone
  <2>3. Underway(c)'
    BY <1>1, <1>2, <1>3, <1>12, <2>1 DEF Underway
  <2>4. Gathered(c)'
    <3> SUFFICES ASSUME NEW j \in Key, Followed(c, s, j)'
                 PROVE  IF j \in DOMAIN m THEN m[j] = expected'[from'[c]][s][j]
                        ELSE expected'[from'[c]][s][j] = 0 \/ (pc'[c] = "get" /\ j \in job[c].left \ {k})
      BY <2>1 DEF Gathered
    <3>1. Followed(c, s, j)
      BY <1>2, <1>12 DEF Unprotected, Followed
    <3> QED
      BY <1>1, <1>2, <1>8, <1>9, <1>12, <3>1
  <2>5. Copied(c)' /\ Unread(c)'
    BY <1>1, <1>12 DEF Copied, Unread
  <2>6. Whole(c)'
    BY <1>1, <1>2, <1>12, WholeStays
  <2> QED
    BY <1>2, <1>12, <2>2, <2>3, <2>4, <2>5, <2>6, QuietCopies DEF Copying
<1> QED
  BY <1>4, <1>10, <1>11, <1>12

LEMMA TakeCopies ==
    ASSUME SecretsInv, CopyInv, NEW c \in Caller, NEW t, pc[c] = "read", Take(c, t),
           UNCHANGED <<kind, outage, blob, expected, touched, from, at>>, mishap \subseteq mishap'
    PROVE  CopyInv'
<1>1. TypeOK /\ Underway(c) /\ Gathered(c) /\ Whole(c)
  BY DEF SecretsInv, CopyInv, Copying
<1>2. /\ job' = [job EXCEPT ![c].buf = update(t, job[c].new)]
      /\ pc' = [pc EXCEPT ![c] = "write"]
      /\ UNCHANGED <<scopes, reported>>
  BY DEF Take
<1>3. /\ job'[c].scope = job[c].scope /\ job'[c].new = job[c].new /\ pc'[c] = "write"
      /\ \A d \in Caller \ {c} : pc'[d] = pc[d] /\ job'[d] = job[d]
  <2>1. /\ pc'[c] = "write" /\ \A d \in Caller \ {c} : pc'[d] = pc[d] /\ job'[d] = job[d]
    BY <1>1, <1>2 DEF TypeOK
  <2>2. job'[c].scope = job[c].scope /\ job'[c].new = job[c].new
    BY <1>1, <1>2 DEF TypeOK
  <2> QED
    BY <2>1, <2>2
<1>4. Alone(c)
  BY <1>3 DEF Alone
<1>5. Underway(c)' /\ Copied(c)' /\ Unread(c)'
  BY <1>1, <1>2, <1>3 DEF Underway, Copied, Unread
<1>6. Gathered(c)'
  BY <1>1, <1>2, <1>3 DEF Gathered, Followed, Unprotected
<1>7. Whole(c)'
  BY <1>1, <1>2, WholeStays
<1> QED
  BY <1>1, <1>2, <1>3, <1>4, <1>5, <1>6, <1>7, QuietCopies DEF Copying

LEMMA LoadCopies == ASSUME SecretsInv, CopyInv, NEW c \in Caller, NEW t, Load(c, t) PROVE CopyInv'
<1>1. /\ TypeOK /\ pc[c] = "read"
      /\ UNCHANGED <<kind, outage, blob, expected, touched, from, at, mishap>>
  BY DEF SecretsInv, Load, stores, history
<1>2. CASE Return(c, FALSE)
  BY <1>1, <1>2, ReturnCopies
<1>3. CASE Take(c, t)
  BY <1>1, <1>3, TakeCopies
<1> QED
  BY <1>2, <1>3 DEF Load

LEMMA MisreadCopies == ASSUME SecretsInv, CopyInv, NEW c \in Caller, Misread(c) PROVE CopyInv'
<1>1. /\ TypeOK /\ pc[c] = "read"
      /\ UNCHANGED <<kind, outage, blob, expected, touched, from, at>>
  BY DEF SecretsInv, Misread, stores
<1>2. CASE Return(c, FALSE) /\ UNCHANGED mishap
  BY <1>1, <1>2, ReturnCopies
<1>3. CASE Take(c, Empty) /\ mishap' = mishap \cup {<<at[c], job[c].scope>>}
  BY <1>1, <1>3, TakeCopies
<1> QED
  BY <1>2, <1>3 DEF Misread

LEMMA ReadCopies ==
    ASSUME SecretsInv, CopyInv, NEW c \in Caller, ReadVault(c) \/ ReadSops(c) \/ ReadCapauth(c)
    PROVE  CopyInv'
<1>1. PICK t : Load(c, t)
  BY DEF ReadVault, ReadSops, ReadCapauth
<1> QED
  BY <1>1, LoadCopies

LEMMA DieCopies == ASSUME SecretsInv, CopyInv, NEW c \in Caller, Die(c) PROVE CopyInv'
<1>1. /\ TypeOK /\ Underway(c) /\ Whole(c)
      /\ UNCHANGED <<kind, outage, blob, expected, touched, from, at, reported>> /\ mishap \subseteq mishap'
  BY DEF SecretsInv, CopyInv, Copying, Die, stores
<1>2. /\ pc'[c] = "idle" /\ scopes'[c] = {} /\ job'[c] = Nothing
      /\ \A d \in Caller \ {c} : pc'[d] = pc[d] /\ job'[d] = job[d] /\ scopes'[d] = scopes[d]
  BY <1>1 DEF Die, TypeOK
<1>3. Alone(c)
  BY <1>1, <1>2 DEF Alone
<1>4. Underway(c)' /\ Gathered(c)' /\ Copied(c)' /\ Unread(c)'
  BY <1>2 DEF Underway, Gathered, Copied, Unread
<1>5. Whole(c)'
  BY <1>1, WholeStays
<1> QED
  BY <1>1, <1>2, <1>3, <1>4, <1>5, QuietCopies DEF Copying

-----------------------------------------------------------------------------
(* What a migration reports: the steps that change a secret.                *)

\* Everybody notes the keys that are written, but for the migration that does it.
LEMMA EffectNoted ==
    ASSUME TypeOK, NEW c \in Caller, NEW b \in Backend, NEW s \in Scope, NEW K \in SUBSET Key,
           b = at[c], s = job[c].scope, K \subseteq DOMAIN job[c].new, Effect(c, K)
    PROVE  /\ \A x \in Backend, y \in Scope, k \in Key :
                 <<x, y>> # <<b, s>> \/ k \notin K => expected'[x][y][k] = expected[x][y][k]
           /\ \A k \in K : expected'[b][s][k] = job[c].new[k]
           /\ \A d \in Caller : touched[d] \subseteq touched'[d]
           /\ \A d \in Caller, k \in K : d # c \/ scopes[c] = {} => <<b, s, k>> \in touched'[d]
           /\ scopes[c] # {} => touched'[c] = touched[c]
<1>1. /\ \A x \in Backend, y \in Scope : x # b \/ y # s => expected'[x][y] = expected[x][y]
      /\ \A k \in Key : expected'[b][s][k] = IF k \in K THEN job[c].new[k] ELSE expected[b][s][k]
  BY EffectTypes
<1>2. touched' = [d \in Caller |-> IF d = c /\ scopes[c] # {} THEN touched[d]
                                   ELSE touched[d] \cup ({b} \X {s} \X K)]
  BY DEF Effect
<1>3. \A k \in K : <<b, s, k>> \in {b} \X {s} \X K
  OBVIOUS
<1>4. /\ \A x \in Backend, y \in Scope, k \in Key :
            <<x, y>> # <<b, s>> \/ k \notin K => expected'[x][y][k] = expected[x][y][k]
      /\ \A k \in K : expected'[b][s][k] = job[c].new[k]
  BY <1>1
<1>5. \A d \in Caller : touched[d] \subseteq touched'[d]
  BY <1>2
<1>6. \A d \in Caller, k \in K : d # c \/ scopes[c] = {} => <<b, s, k>> \in touched'[d]
  BY <1>2, <1>3
<1>7. scopes[c] # {} => touched'[c] = touched[c]
  BY <1>2
<1> QED
  BY <1>4, <1>5, <1>6, <1>7

\* What was reported stays so: a migration writes to another scope, of a
\* backend it does not read.
LEMMA EffectKeepsWhole ==
    ASSUME TypeOK, NEW c \in Caller, NEW b \in Backend, NEW s \in Scope, NEW K \in SUBSET Key,
           b = at[c], s = job[c].scope, K \subseteq DOMAIN job[c].new, Effect(c, K),
           Underway(c), Whole(c), pc[c] \in {"write", "encrypt", "put"},
           UNCHANGED <<kind, outage, mishap, at, from>>,
           NEW y \in reported[c], NEW k \in Key,
           <<from[c], y, k>> \notin touched'[c], <<at[c], y, k>> \notin touched'[c],
           ~Unprotected(from[c], y), ~Unprotected(at[c], y), expected'[from[c]][y][k] # 0
    PROVE  expected'[at[c]][y][k] = expected'[from[c]][y][k]
<1>1. y \in Scope /\ from[c] \in Backend /\ at[c] \in Backend
  BY DEF TypeOK
<1>2. expected'[at[c]][y][k] = expected[at[c]][y][k] /\ expected'[from[c]][y][k] = expected[from[c]][y][k]
  <2>1. CASE scopes[c] = {}
    <3>1. \A j \in K : <<b, s, j>> \in touched'[c]
      BY <2>1, EffectNoted
    <3>2. \A x \in Backend, z \in Scope, j \in Key :
             <<x, z>> # <<b, s>> \/ j \notin K => expected'[x][z][j] = expected[x][z][j]
      BY EffectNoted
    <3> QED
      BY <1>1, <3>1, <3>2
  <2>2. CASE scopes[c] # {}
    <3>1. y # s
      BY <2>2 DEF Underway
    <3>2. \A x \in Backend, z \in Scope, j \in Key :
             <<x, z>> # <<b, s>> \/ j \notin K => expected'[x][z][j] = expected[x][z][j]
      BY EffectNoted
    <3> QED
      BY <1>1, <3>1, <3>2
  <2> QED
    BY <2>1, <2>2
<1>3. touched[c] \subseteq touched'[c]
  BY EffectNoted
<1> QED
  BY <1>2, <1>3 DEF Whole

\* The call that wrote keys K returns.  If it says so, all it had to write is there.
LEMMA WriteCopies ==
    ASSUME SecretsInv, CopyInv, NEW c \in Caller, NEW ok,
           NEW b \in Backend, NEW s \in Scope, NEW K \in SUBSET Key,
           b = at[c], s = job[c].scope, K \subseteq DOMAIN job[c].new, Effect(c, K), Return(c, ok),
           pc[c] \in {"write", "encrypt", "put"},
           UNCHANGED <<kind, outage, mishap, at, from>>,
           \A x \in Backend, y \in Scope : blob'[x][y] = blob[x][y] \/ c \in rewriting(x, y),
           ok => pc[c] = "put" \/ K = DOMAIN job[c].new,
           ok /\ pc[c] = "put" => job[c].left \subseteq K
    PROVE  CopyInv'
<1>1. TypeOK /\ Underway(c) /\ Gathered(c) /\ Copied(c) /\ Whole(c)
  BY DEF SecretsInv, CopyInv, Copying
<1>2. /\ Leave(c, s)
      /\ reported' = [reported EXCEPT ![c] = IF ok /\ scopes[c] # {} THEN @ \cup {s} ELSE @]
  BY DEF Return
<1>3. /\ \A d \in Caller \ {c} :
            pc'[d] = pc[d] /\ job'[d] = job[d] /\ scopes'[d] = scopes[d] /\ reported'[d] = reported[d]
      /\ reported'[c] = IF ok /\ scopes[c] # {} THEN reported[c] \cup {s} ELSE reported[c]
  BY <1>1, <1>2 DEF Leave, TypeOK
<1>4. Alone(c)
  BY <1>3 DEF Alone
<1>5. /\ \A x \in Backend, y \in Scope, k \in Key :
            <<x, y>> # <<b, s>> \/ k \notin K => expected'[x][y][k] = expected[x][y][k]
      /\ \A k \in K : expected'[b][s][k] = job[c].new[k]
      /\ \A d \in Caller : touched[d] \subseteq touched'[d]
      /\ \A d \in Caller, k \in K : d # c => <<b, s, k>> \in touched'[d]
      /\ scopes[c] # {} => touched'[c] = touched[c]
  <2>1. \A d \in Caller, k \in K : d # c \/ scopes[c] = {} => <<b, s, k>> \in touched'[d]
    BY <1>1, EffectNoted
  <2> QED
    BY <1>1, <2>1, EffectNoted
<1>6. Leaves(c)
  BY <1>3, <1>5 DEF Leaves
<1>7. ASSUME ok, scopes[c] # {}, NEW k \in Key,
             <<from[c], s, k>> \notin touched'[c], <<at[c], s, k>> \notin touched'[c],
             ~Unprotected(from[c], s), expected'[from[c]][s][k] # 0
      PROVE  expected'[at[c]][s][k] = expected'[from[c]][s][k]
  <2>1. from[c] # b /\ from[c] \in Backend /\ touched'[c] = touched[c]
    BY <1>1, <1>5, <1>7 DEF Underway, TypeOK
  <2>2. expected'[from[c]][s][k] = expected[from[c]][s][k]
    BY <1>5, <2>1
  <2>3. k \in DOMAIN job[c].new /\ job[c].new[k] = expected[from[c]][s][k]
    BY <1>1, <1>7, <2>1, <2>2 DEF Gathered, Followed
  <2>4. CASE k \in K
    BY <1>5, <2>2, <2>3, <2>4
  <2>5. CASE k \notin K
    <3>1. expected'[b][s][k] = expected[b][s][k] /\ pc[c] = "put" /\ k \notin job[c].left
      BY <1>5, <1>7, <2>3, <2>5
    <3>2. expected[b][s][k] = job[c].new[k]
      BY <1>1, <1>7, <2>1, <2>3, <3>1 DEF Copied
    <3> QED
      BY <2>2, <2>3, <3>1, <3>2
  <2> QED
    BY <2>4, <2>5
<1>8. Whole(c)'
  <2> SUFFICES ASSUME NEW y \in reported'[c], NEW k \in Key,
                      <<from[c], y, k>> \notin touched'[c], <<at[c], y, k>> \notin touched'[c],
                      ~Unprotected(from[c], y), ~Unprotected(at[c], y), expected'[from[c]][y][k] # 0
               PROVE  expected'[at[c]][y][k] = expected'[from[c]][y][k]
    BY DEF Whole, Unprotected
  <2>1. CASE y \in reported[c]
    BY <1>1, <2>1, EffectKeepsWhole
  <2>2. CASE y \notin reported[c]
    BY <1>3, <1>7, <2>2
  <2> QED
    BY <2>1, <2>2
<1>9. Copying(c)'
  <2>1. reported'[c] \subseteq reported[c] \cup {s} /\ from'[c] = from[c] /\ at'[c] = at[c]
    BY <1>3
  <2> QED
    BY <1>1, <1>2, <1>8, <2>1, LeaveCopies
<1> QED
  BY <1>4, <1>6, <1>9, CopyStep

LEMMA StoreCopies == ASSUME SecretsInv, CopyInv, NEW c \in Caller, Store(c) PROVE CopyInv'
<1>1. PICK b \in Backend, s \in Scope : b = at[c] /\ s = job[c].scope
  BY DEF SecretsInv, TypeOK, PhaseOK, Store
<1>2. DOMAIN job[c].new \in SUBSET Key
  BY NewsDomain DEF SecretsInv, TypeOK
<1>3. PICK ok \in BOOLEAN : Return(c, ok)
  BY DEF Store
<1>4. /\ UNCHANGED <<kind, outage, mishap, at, from, blob>> /\ Effect(c, DOMAIN job[c].new)
      /\ pc[c] = "write"
  BY DEF Store
<1> QED
  BY <1>1, <1>2, <1>3, <1>4, WriteCopies

LEMMA EncryptCopies == ASSUME SecretsInv, CopyInv, NEW c \in Caller, Encrypt(c) PROVE CopyInv'
<1>1. PICK b \in Backend, s \in Scope : b = at[c] /\ s = job[c].scope
  BY DEF SecretsInv, TypeOK, PhaseOK, Encrypt
<1>2. DOMAIN job[c].new \in SUBSET Key
  BY NewsDomain DEF SecretsInv, TypeOK
<1>3. /\ UNCHANGED <<kind, outage, mishap, at, from>> /\ Effect(c, DOMAIN job[c].new)
      /\ pc[c] = "encrypt" /\ Return(c, TRUE)
  BY DEF Encrypt
<1>4. \A x \in Backend, y \in Scope : blob'[x][y] = blob[x][y] \/ c \in rewriting(x, y)
  BY <1>1, <1>3 DEF Encrypt, rewriting, SecretsInv, TypeOK
<1> QED
  BY <1>1, <1>2, <1>3, <1>4, WriteCopies

LEMMA OpenCopies ==
    ASSUME SecretsInv, CopyInv, NEW c \in Caller, NEW t \in {None, Torn}, Open(c, t) PROVE CopyInv'
<1>1. /\ TypeOK /\ PhaseOK(c) /\ Underway(c) /\ Gathered(c) /\ Whole(c) /\ pc[c] = "write"
      /\ UNCHANGED <<kind, outage, expected, touched, from, at, mishap, job, scopes, reported>>
  BY DEF SecretsInv, CopyInv, Copying, Open, callVars, history
<1>2. pc'[c] = "encrypt" /\ \A d \in Caller \ {c} : pc'[d] = pc[d]
  BY <1>1 DEF Open, TypeOK
<1>3. PICK b \in Backend, s \in Scope : b = at[c] /\ s = job[c].scope
  BY <1>1 DEF TypeOK, PhaseOK
<1>4. /\ \A x \in Backend, y \in Scope : blob'[x][y] = blob[x][y] \/ c \in rewriting(x, y)
      /\ blob'[b][s] \notin Dict
  BY <1>1, <1>3, NoText DEF Open, rewriting, TypeOK
<1>5. Alone(c) /\ Leaves(c)
  BY <1>1, <1>2 DEF Alone, Leaves
<1>6. Underway(c)' /\ Copied(c)' /\ Unread(c)'
  BY <1>1, <1>2, <1>3, <1>4 DEF Underway, Copied, Unread
<1>7. Gathered(c)'
  BY <1>1, <1>2 DEF Gathered, Followed, Unprotected
<1>8. Whole(c)'
  BY <1>1, WholeStays
<1> QED
  BY <1>1, <1>4, <1>5, <1>6, <1>7, <1>8, CopyStep DEF Copying

LEMMA PutCopies == ASSUME SecretsInv, CopyInv, NEW c \in Caller, Put(c) PROVE CopyInv'
<1>1. PICK b \in Backend, s \in Scope : b = at[c] /\ s = job[c].scope
  BY DEF SecretsInv, TypeOK, PhaseOK, Put
<1>2. /\ TypeOK /\ PhaseOK(c) /\ Underway(c) /\ Gathered(c) /\ Copied(c) /\ Whole(c) /\ pc[c] = "put"
      /\ UNCHANGED <<kind, outage, blob, from, at, mishap>>
  BY DEF SecretsInv, CopyInv, Copying, Put
<1>3. PICK k \in job[c].left :
         /\ Effect(c, {k})
         /\ \/ /\ job' = [job EXCEPT ![c].left = @ \ {k}]
               /\ UNCHANGED <<pc, scopes, reported>>
            \/ job[c].left = {k} /\ Return(c, TRUE)
            \/ Return(c, FALSE)
  BY DEF Put
<1>4. {k} \in SUBSET Key /\ {k} \subseteq DOMAIN job[c].new
  BY <1>2 DEF PhaseOK, TypeOK
<1>5. CASE job[c].left = {k} /\ Return(c, TRUE)
  BY <1>1, <1>2, <1>3, <1>4, <1>5, WriteCopies
<1>6. CASE Return(c, FALSE)
  BY <1>1, <1>2, <1>3, <1>4, <1>6, WriteCopies
<1>7. CASE /\ job' = [job EXCEPT ![c].left = @ \ {k}]
           /\ UNCHANGED <<pc, scopes, reported>>
  <2>1. /\ job'[c].scope = s /\ job'[c].new = job[c].new /\ job'[c].left = job[c].left \ {k}
        /\ \A d \in Caller \ {c} : job'[d] = job[d]
    BY <1>1, <1>2, <1>7 DEF TypeOK
  <2>2. /\ \A x \in Backend, y \in Scope, j \in Key :
              <<x, y>> # <<b, s>> \/ j # k => expected'[x][y][j] = expected[x][y][j]
        /\ expected'[b][s][k] = job[c].new[k]
        /\ \A d \in Caller : touched[d] \subseteq touched'[d]
        /\ \A d \in Caller : d # c => <<b, s, k>> \in touched'[d]
        /\ scopes[c] # {} => touched'[c] = touched[c]
    <3>1. /\ \A x \in Backend, y \in Scope, j \in Key :
                <<x, y>> # <<b, s>> \/ j \notin {k} => expected'[x][y][j] = expected[x][y][j]
          /\ \A j \in {k} : expected'[b][s][j] = job[c].new[j]
          /\ \A d \in Caller : touched[d] \subseteq touched'[d]
          /\ \A d \in Caller, j \in {k} : d # c \/ scopes[c] = {} => <<b, s, j>> \in touched'[d]
          /\ scopes[c] # {} => touched'[c] = touched[c]
      BY <1>1, <1>2, <1>3, <1>4, EffectNoted
    <3> QED
      BY <3>1
  <2>3. Alone(c)
    BY <1>2, <1>7, <2>1 DEF Alone
  <2>4. Leaves(c)
    BY <1>7, <2>2 DEF Leaves
  <2>5. Underway(c)' /\ Unread(c)'
    BY <1>1, <1>2, <1>7, <2>1 DEF Underway, Unread
  <2>6. ASSUME scopes[c] # {} PROVE from[c] # b /\ from[c] \in Backend /\ touched'[c] = touched[c]
    BY <1>1, <1>2, <2>2, <2>6 DEF Underway, TypeOK
  <2>7. Gathered(c)'
    <3> SUFFICES ASSUME scopes[c] # {}, NEW j \in Key, Followed(c, s, j)'
                 PROVE  IF j \in DOMAIN job[c].new THEN job[c].new[j] = expected'[from[c]][s][j]
                        ELSE expected'[from[c]][s][j] = 0
      BY <1>2, <1>7, <2>1 DEF Gathered
    <3>1. Followed(c, s, j)
      BY <1>2, <2>6 DEF Followed, Unprotected
    <3>2. expected'[from[c]][s][j] = expected[from[c]][s][j]
      BY <2>2, <2>6
    <3> QED
      BY <1>1, <1>2, <3>1, <3>2 DEF Gathered
  <2>8. Copied(c)'
    <3> SUFFICES ASSUME scopes[c] # {}, NEW j \in DOMAIN job[c].new \ (job[c].left \ {k}),
                        <<b, s, j>> \notin touched'[c]
                 PROVE  expected'[b][s][j] = job[c].new[j]
      BY <1>1, <1>2, <1>7, <2>1 DEF Copied
    <3>1. j \in Key
      BY <1>2, NewsDomain DEF TypeOK
    <3>2. CASE j = k
      BY <2>2, <3>2
    <3>3. CASE j # k
      BY <1>1, <1>2, <2>2, <2>6, <3>1, <3>3 DEF Copied
    <3> QED
      BY <3>2, <3>3
  <2>9. Whole(c)'
    <3> SUFFICES ASSUME NEW y \in reported[c], NEW j \in Key,
                        <<from[c], y, j>> \notin touched'[c], <<at[c], y, j>> \notin touched'[c],
                        ~Unprotected(from[c], y), ~Unprotected(at[c], y), expected'[from[c]][y][j] # 0
                 PROVE  expected'[at[c]][y][j] = expected'[from[c]][y][j]
      BY <1>2, <1>7 DEF Whole, Unprotected
    <3> QED
      BY <1>1, <1>2, <1>3, <1>4, EffectKeepsWhole
  <2>10. Copying(c)'
    BY <2>5, <2>7, <2>8, <2>9 DEF Copying
  <2> QED
    BY <1>2, <2>3, <2>4, <2>10, CopyStep
<1> QED
  BY <1>3, <1>5, <1>6, <1>7

\* An outage, and its end, leave every migration with fewer scopes to vouch for.
LEMMA OutageCopies ==
    ASSUME SecretsInv, CopyInv, outage \subseteq outage',
           UNCHANGED <<kind, blob, pc, callVars, expected, mishap, touched>>
    PROVE  CopyInv'
<1>1. UNCHANGED <<kind, blob, pc, at, job, from, scopes, reported, expected, mishap, touched>>
  BY DEF callVars
<1> SUFFICES ASSUME NEW c \in Caller PROVE Copying(c)'
  BY DEF CopyInv
<1>2. Underway(c) /\ Gathered(c) /\ Copied(c) /\ Unread(c) /\ Whole(c)
  BY DEF CopyInv, Copying
<1>3. Underway(c)' /\ Copied(c)'
  BY <1>1, <1>2 DEF Underway, Copied
<1>4. Gathered(c)'
  BY <1>1, <1>2 DEF Gathered, Followed, Unprotected
<1>5. Unread(c)'
  BY <1>1, <1>2 DEF Unread, Unprotected
<1>6. Whole(c)'
  BY <1>1, <1>2 DEF Whole, Unprotected
<1> QED
  BY <1>3, <1>4, <1>5, <1>6 DEF Copying

LEMMA CopyInit == Init => CopyInv
BY DEF Init, CopyInv, Copying, Underway, Gathered, Copied, Unread, Whole

LEMMA CopyNext == SecretsInv /\ CopyInv /\ [Next]_vars => CopyInv'
<1> SUFFICES ASSUME SecretsInv, CopyInv, [Next]_vars PROVE CopyInv'
  OBVIOUS
<1>1. ASSUME NEW c \in Caller, Call(c) \/ Migrate(c) \/ Collect(c) \/ CollectFails(c) \/ List(c) \/ Get(c)
      PROVE  CopyInv'
  BY <1>1, CallCopies, MigrateCopies, CollectCopies, CollectFailsCopies, ListCopies, GetCopies
<1>2. ASSUME NEW c \in Caller, ReadVault(c) \/ ReadSops(c) \/ ReadCapauth(c) \/ Misread(c)
      PROVE  CopyInv'
  BY <1>2, ReadCopies, MisreadCopies
<1>3. ASSUME NEW c \in Caller, OpenVault(c) \/ OpenSops(c) \/ OpenBlob(c)
      PROVE  CopyInv'
  <2>1. CASE \E t \in {None, Torn} : Open(c, t)
    BY <2>1, OpenCopies
  <2>2. CASE /\ pc[c] = "write" /\ Return(c, FALSE)
             /\ UNCHANGED <<stores, at, from, calls, faults, history>>
    BY <2>2, ReturnCopies DEF stores, history
  <2> QED
    BY <1>3, <2>1, <2>2 DEF OpenVault, OpenSops, OpenBlob
<1>4. ASSUME NEW c \in Caller, Store(c) \/ Encrypt(c) \/ Put(c) PROVE CopyInv'
  BY <1>4, StoreCopies, EncryptCopies, PutCopies
<1>5. ASSUME NEW c \in Caller, Refused(c) PROVE CopyInv'
  BY <1>5, ReturnCopies DEF Refused, stores, history
<1>6. ASSUME NEW c \in Caller, Die(c) PROVE CopyInv'
  BY <1>6, DieCopies
<1>7. ASSUME NEW b \in Backend, Fail(b) PROVE CopyInv'
  BY <1>7, OutageCopies DEF Fail
<1>8. ASSUME NEW b \in Backend, Recover(b) PROVE CopyInv'
  BY <1>8, OutageCopies DEF Recover, history
<1>9. CASE UNCHANGED vars
  BY <1>9, OutageCopies DEF vars, history
<1> QED
  BY <1>1, <1>2, <1>3, <1>4, <1>5, <1>6, <1>7, <1>8, <1>9 DEF Next

\* A migration that is under way holds what it read, has put what it dropped from
\* its list, and never reads a file in the middle of a write.
THEOREM CopyInvariant == Spec => []CopyInv
<1> QED
  BY CopyInit, CopyNext, SecretsInvariant, PTL DEF Spec

\* Every secret of a scope that migrate reports as copied is in the destination,
\* between any two adapters, whoever writes to both meanwhile, unless somebody
\* wrote that very key or a store could not be trusted.
THEOREM MigrationsAreWhole == Spec => []MigratedWhole
<1>1. CopyInv => MigratedWhole
  BY DEF CopyInv, Copying, MigratedWhole
<1> QED
  BY <1>1, CopyInvariant, PTL
=============================================================================
