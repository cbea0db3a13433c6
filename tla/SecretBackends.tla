--------------------------- MODULE SecretBackends ---------------------------
(***************************************************************************)
(* v2/secrets: processes that set, delete and rotate secrets and migrate     *)
(* them from one backend to another, all through the adapters of             *)
(* factory.get_backend.                                                      *)
(*                                                                          *)
(* "kv" is a Vault or OpenBao server, which stores every key by itself.  The *)
(* others keep a scope as one encrypted text and rewrite it as a whole:      *)
(* "vault-file" and "sops-age" a file, "gnupg" a blob, "mcp" a memory of the *)
(* local agent or, while that does not answer, the blob.  "vault-cmd" is     *)
(* vault-file with SKSTACKS_VAULT_PASS_CMD.                                  *)
(*                                                                          *)
(* One environment; a value is the number of the call that wrote it, 0 is an *)
(* absent key.                                                               *)
(***************************************************************************)
EXTENDS Naturals, FiniteSets

CONSTANTS
    Caller, Backend, Scope, Key,
    Deployments,    \* the adapters that may stand behind the backends
    Filled,         \* the <<backend, scope>> that hold every key to begin with
    None,           \* no file, no memory
    Torn,           \* a text that does not decrypt
    MaxCalls,       \* bound: calls
    MaxFaults       \* bound: outages, lost passwords, lost answers, errors, deaths

Kinds == {"vault-file", "vault-cmd", "sops-age", "gnupg", "mcp", "kv"}

ASSUME SecretsAssumption ==
    /\ Backend # {} /\ Deployments \subseteq [Backend -> Kinds]
    /\ Filled \subseteq Backend \X Scope
    /\ MaxCalls \in Nat /\ MaxFaults \in Nat
    /\ None # Torn

Value == 0 .. MaxCalls + 1
Dict == [Key -> Value]
ASSUME NoText == None \notin Dict /\ Torn \notin Dict

VARIABLES
    kind,       \* the adapter of each backend
    up,         \* the backends whose server answers
    unlocked,   \* the backends whose password or private key is at hand
    blob,       \* the file of each backend and scope
    remote,     \* what the server holds: all keys, or the newest memory
    pc,         \* idle; collect, get: a migration reads its source;
                \* read, write, encrypt: a scope is rewritten; put: keys are sent
    at,         \* the backend each call writes to
    job,        \* the scope it works on, the keys it gives a new value (0 to
                \* delete them), the text it will write, and the keys it has
                \* still to get or put
    from,       \* the source of a migration
    scopes,     \* the scopes it has still to copy; {} for no migration
    reported,   \* the scopes the migration counts in its results
    calls, faults,
    expected,   \* history: what the writes that took effect make of each scope
    mishap,     \* history: scopes two calls rewrote at once, one died over, or a
                \* set took for empty after an error of the agent
    outage,     \* history: backends that were locked or down
    touched     \* history: keys others wrote since a migration began

callVars == <<at, job, from, scopes, reported>>
history == <<expected, mishap, outage, touched>>
vars == <<kind, up, unlocked, blob, remote, pc, callVars, calls, faults, history>>

Empty == [k \in Key |-> 0]
Nothing == [scope |-> None, new |-> [k \in {} |-> 0], buf |-> Empty, left |-> {}]
Text == Dict \cup {None, Torn}
News == UNION {[K -> Value] : K \in SUBSET Key}

\* A dictionary with some of its keys given other values.
update(d, n) == [k \in Key |-> IF k \in DOMAIN n THEN n[k] ELSE d[k]]
present(d) == {k \in Key : d[k] # 0}

TypeOK ==
    /\ kind \in Deployments
    /\ up \subseteq Backend /\ unlocked \subseteq Backend
    /\ blob \in [Backend -> [Scope -> Text]]
    /\ remote \in [Backend -> [Scope -> Dict \cup {None}]]
    /\ pc \in [Caller -> {"idle", "collect", "get", "read", "write", "encrypt", "put"}]
    /\ at \in [Caller -> Backend] /\ from \in [Caller -> Backend]
    /\ job \in [Caller -> [scope : Scope \cup {None}, new : News, buf : Dict, left : SUBSET Key]]
    /\ scopes \in [Caller -> SUBSET Scope]
    /\ reported \in [Caller -> SUBSET Scope]
    /\ calls \in 0 .. MaxCalls /\ faults \in 0 .. MaxFaults
    /\ expected \in [Backend -> [Scope -> Dict]]
    /\ mishap \subseteq Backend \X Scope
    /\ outage \subseteq Backend
    /\ touched \in [Caller -> SUBSET (Backend \X Scope \X Key)]

Initial(b, s) == IF <<b, s>> \in Filled THEN [k \in Key |-> 1] ELSE Empty

Init ==
    /\ kind \in Deployments
    /\ up = Backend /\ unlocked = Backend
    /\ blob = [b \in Backend |-> [s \in Scope |->
           IF <<b, s>> \in Filled /\ kind[b] \notin {"mcp", "kv"} THEN Initial(b, s) ELSE None]]
    /\ remote = [b \in Backend |-> [s \in Scope |->
           IF kind[b] = "kv" \/ (kind[b] = "mcp" /\ <<b, s>> \in Filled)
           THEN Initial(b, s) ELSE None]]
    /\ pc = [c \in Caller |-> "idle"]
    /\ at \in [Caller -> {CHOOSE b \in Backend : TRUE}]
    /\ from = at
    /\ job = [c \in Caller |-> Nothing]
    /\ scopes = [c \in Caller |-> {}]
    /\ reported = [c \in Caller |-> {}]
    /\ calls = 0 /\ faults = 0
    /\ expected = [b \in Backend |-> [s \in Scope |-> Initial(b, s)]]
    /\ mishap = {} /\ outage = {}
    /\ touched = [c \in Caller |-> {}]

-----------------------------------------------------------------------------
(* Reading.                                                                 *)

vaults == {"vault-file", "vault-cmd"}

\* An hvac client logs in before it is of any use.
connects(b) == kind[b] = "kv" => b \in up

\* What the decryption of a file gives: its text, None, or the error.
fileText(b, s) ==
    IF b \in unlocked \/ blob[b][s] = None THEN blob[b][s] ELSE Torn

\* The newest memory of the scope, as long as the MCP server can be reached.
reaches(b) == kind[b] = "mcp" /\ b \in up
capauthText(b, s) == IF reaches(b) THEN remote[b][s] ELSE fileText(b, s)

text(b, s) == IF kind[b] = "mcp" THEN capauthText(b, s) ELSE fileText(b, s)

\* Any error counts as an empty scope.
orEmpty(t) == IF t \in Dict THEN t ELSE Empty

list_scopes(b) ==
    {s \in Scope : IF kind[b] = "kv" THEN present(remote[b][s]) # {} ELSE blob[b][s] # None}

-----------------------------------------------------------------------------
(* How a call begins and ends.                                              *)

stores == <<kind, up, unlocked, blob, remote>>

rewriting(b, s) ==
    {c \in Caller : pc[c] \in {"read", "write", "encrypt"} /\ at[c] = b /\ job[c].scope = s}

\* Call c turns to a scope of backend b, in which it has to write n.
Enter(c, b, s, n) ==
    /\ at' = [at EXCEPT ![c] = b]
    /\ job' = [job EXCEPT ![c] = [Nothing EXCEPT !.scope = s, !.new = n,
           !.left = IF kind[b] = "kv" THEN DOMAIN n ELSE {}]]
    /\ pc' = [pc EXCEPT ![c] = IF kind[b] = "kv" THEN "put" ELSE "read"]
    /\ mishap' = IF kind[b] # "kv" /\ rewriting(b, s) # {} THEN mishap \cup {<<b, s>>} ELSE mishap

\* The loop of migrate goes on to the scopes after s.
Leave(c, s) ==
    /\ scopes' = [scopes EXCEPT ![c] = @ \ {s}]
    /\ pc' = [pc EXCEPT ![c] = IF scopes[c] \ {s} # {} THEN "collect" ELSE "idle"]
    /\ job' = [job EXCEPT ![c] = Nothing]

\* A migration counts a scope, written or not.
ReturnCounted(c, ok) ==
    /\ Leave(c, job[c].scope)
    /\ reported' = [reported EXCEPT ![c] = IF scopes[c] # {} THEN @ \cup {job[c].scope} ELSE @]

\* The call returns, or raises.  A migration counts a scope it has written.
Return(c, ok) ==
    /\ Leave(c, job[c].scope)
    /\ reported' = [reported EXCEPT ![c] =
           IF ok /\ scopes[c] # {} THEN @ \cup {job[c].scope} ELSE @]

\* The write of keys K by call c has taken effect.
Effect(c, K) ==
    /\ expected' = [expected EXCEPT ![at[c]][job[c].scope] =
           [k \in Key |-> IF k \in K THEN job[c].new[k] ELSE @[k]]]
    /\ touched' = [d \in Caller |->
           IF d = c /\ scopes[c] # {} THEN touched[d]
           ELSE touched[d] \cup ({at[c]} \X {job[c].scope} \X K)]

-----------------------------------------------------------------------------
(* Calls.                                                                   *)

\* Only a server rotates: it sets a key to a random value.
rotate(c, b, s, K) ==
    kind[b] = "kv" /\ Cardinality(K) = 1 /\ Enter(c, b, s, [k \in K |-> calls + 2])

\* set, and set_many with several keys; delete.
Call(c) ==
    /\ pc[c] = "idle" /\ calls < MaxCalls
    /\ \E b \in Backend, s \in Scope, K \in (SUBSET Key) \ {{}} :
          /\ connects(b)
          /\ \/ Enter(c, b, s, [k \in K |-> calls + 2])
             \/ Cardinality(K) = 1 /\ Enter(c, b, s, [k \in K |-> 0])
             \/ rotate(c, b, s, K)
          /\ from' = [from EXCEPT ![c] = b]
    /\ calls' = calls + 1
    /\ reported' = [reported EXCEPT ![c] = {}]
    /\ touched' = [touched EXCEPT ![c] = {}]
    /\ UNCHANGED <<stores, scopes, faults, expected, outage>>

\* The command line takes three adapters.
Migratable == {b \in Backend : kind[b] # "sops-age" /\ connects(b)}

Migrate(c) ==
    /\ pc[c] = "idle" /\ calls < MaxCalls
    /\ \E b, d \in Migratable, S \in (SUBSET Scope) \ {{}} :
          /\ b # d /\ (S = Scope \/ S = list_scopes(b))
          /\ from' = [from EXCEPT ![c] = b] /\ at' = [at EXCEPT ![c] = d]
          /\ scopes' = [scopes EXCEPT ![c] = S]
    /\ pc' = [pc EXCEPT ![c] = "collect"]
    /\ reported' = [reported EXCEPT ![c] = {}]
    /\ touched' = [touched EXCEPT ![c] = {}]
    /\ calls' = calls + 1
    /\ UNCHANGED <<stores, job, faults, expected, mishap, outage>>

\* A scope that cannot be read, or is empty, is passed over.
Skip(c, s) == Leave(c, s) /\ UNCHANGED <<at, mishap>>

\* get_all of a backend that keeps the scope in one text.
Collect(c) ==
    /\ pc[c] = "collect" /\ kind[from[c]] # "kv"
    /\ \E s \in scopes[c] : LET d == text(from[c], s) IN
          IF d \in Dict /\ present(d) # {}
          THEN Enter(c, at[c], s, [k \in present(d) |-> d[k]]) /\ UNCHANGED scopes
          ELSE Skip(c, s)
    /\ UNCHANGED <<stores, from, reported, calls, faults, expected, outage, touched>>

\* The agent is there, but does not give the memory.
CollectFails(c) ==
    /\ pc[c] = "collect" /\ reaches(from[c])
    /\ faults < MaxFaults /\ faults' = faults + 1
    /\ \E s \in scopes[c] : Skip(c, s)
    /\ UNCHANGED <<stores, from, reported, calls, expected, outage, touched>>

\* get_all of a server: the keys are listed first and then got one by one.
List(c) ==
    /\ pc[c] = "collect" /\ kind[from[c]] = "kv"
    /\ \E s \in scopes[c] : LET K == present(remote[from[c]][s]) IN
          IF from[c] \in up /\ K # {}
          THEN /\ job' = [job EXCEPT ![c].scope = s, ![c].left = K]
               /\ pc' = [pc EXCEPT ![c] = "get"]
               /\ UNCHANGED <<at, scopes, mishap>>
          ELSE Skip(c, s)
    /\ UNCHANGED <<stores, from, reported, calls, faults, expected, outage, touched>>

\* A key that has gone since it was listed fails the whole scope.
Get(c) ==
    /\ pc[c] = "get"
    /\ \E k \in job[c].left :
          LET v == remote[from[c]][job[c].scope][k]
              n == [j \in DOMAIN job[c].new \cup {k} |-> IF j = k THEN v ELSE job[c].new[j]]
          IN  IF from[c] \notin up \/ v = 0 THEN Skip(c, job[c].scope)
              ELSE /\ IF job[c].left = {k} THEN Enter(c, at[c], job[c].scope, n)
                      ELSE /\ job' = [job EXCEPT ![c].new = n, ![c].left = @ \ {k}]
                           /\ UNCHANGED <<at, pc, mishap>>
                   /\ UNCHANGED scopes
    /\ UNCHANGED <<stores, from, reported, calls, faults, expected, outage, touched>>

-----------------------------------------------------------------------------
(* Writing.                                                                 *)

\* A delete wants the key it deletes.
deletes(c) == \E k \in DOMAIN job[c].new : job[c].new[k] = 0

\* The call will write what its keys make of the dictionary t.
Take(c, t) ==
    /\ job' = [job EXCEPT ![c].buf = update(t, job[c].new)]
    /\ pc' = [pc EXCEPT ![c] = "write"]
    /\ UNCHANGED <<scopes, reported>>

\* Only the keys that are given get written.
LoadNothing(c, t) ==
    /\ pc[c] = "read"
    /\ IF t \in Dict /\ (deletes(c) => DOMAIN job[c].new \subseteq present(t))
       THEN Take(c, Empty) ELSE Return(c, FALSE)
    /\ UNCHANGED <<stores, at, from, calls, faults, history>>

\* The call has the text t of the scope, or an error, and goes on from there.
Load(c, t) ==
    /\ pc[c] = "read"
    /\ IF t \in Dict /\ (deletes(c) => DOMAIN job[c].new \subseteq present(t))
       THEN Take(c, t) ELSE Return(c, FALSE)
    /\ UNCHANGED <<stores, at, from, calls, faults, history>>

\* A set starts from nothing after any error, as with the other adapters.
ReadVaultLeniently(c) ==
    LET t == fileText(at[c], job[c].scope) IN
    kind[at[c]] \in vaults /\ Load(c, IF deletes(c) THEN t ELSE orEmpty(t))

\* Without a file, a set starts from nothing.
ReadVault(c) ==
    LET t == fileText(at[c], job[c].scope) IN
    kind[at[c]] \in vaults /\ Load(c, IF t = None /\ ~deletes(c) THEN Empty ELSE t)

\* A set starts from nothing after any error.
ReadSops(c) ==
    LET t == fileText(at[c], job[c].scope) IN
    kind[at[c]] = "sops-age" /\ Load(c, IF deletes(c) THEN t ELSE orEmpty(t))

ReadCapauth(c) ==
    LET t == capauthText(at[c], job[c].scope) IN
    kind[at[c]] \in {"gnupg", "mcp"} /\ Load(c, IF deletes(c) THEN t ELSE orEmpty(t))

\* The agent is there and answers with an error or with no proper memory, which
\* a set takes for an empty scope; or not in time, which ends the call.
Misread(c) ==
    /\ pc[c] = "read" /\ reaches(at[c])
    /\ faults < MaxFaults /\ faults' = faults + 1
    /\ \/ ~deletes(c) /\ Take(c, Empty) /\ mishap' = mishap \cup {<<at[c], job[c].scope>>}
       \/ Return(c, FALSE) /\ UNCHANGED mishap
    /\ UNCHANGED <<stores, at, from, calls, expected, outage, touched>>

\* The agent stores a memory, which supersedes the older ones.  The answer may
\* be lost.
Store(c) ==
    /\ pc[c] = "write" /\ reaches(at[c])
    /\ remote' = [remote EXCEPT ![at[c]][job[c].scope] = job[c].buf]
    /\ Effect(c, DOMAIN job[c].new)
    /\ \/ Return(c, TRUE) /\ UNCHANGED faults
       \/ Return(c, FALSE) /\ faults < MaxFaults /\ faults' = faults + 1
    /\ UNCHANGED <<kind, up, unlocked, blob, at, from, calls, mishap, outage>>

\* The encrypting command opens the file it will write, which is t until then.
Open(c, t) ==
    /\ pc[c] = "write"
    /\ blob' = [blob EXCEPT ![at[c]][job[c].scope] = t]
    /\ pc' = [pc EXCEPT ![c] = "encrypt"]
    /\ UNCHANGED <<kind, up, unlocked, remote, callVars, calls, faults, history>>

\* ansible-vault needs a password file.  It removes the file first.
OpenVault(c) ==
    /\ kind[at[c]] \in vaults
    /\ \/ at[c] \in unlocked /\ \E t \in {None, Torn} : Open(c, t)
       \/ /\ pc[c] = "write" /\ at[c] \notin unlocked
          /\ Return(c, FALSE)
          /\ UNCHANGED <<stores, at, from, calls, faults, history>>

\* sops and gpg need only the recipients.
OpenSops(c) == kind[at[c]] = "sops-age" /\ Open(c, Torn)
OpenBlob(c) == kind[at[c]] \in {"gnupg", "mcp"} /\ ~reaches(at[c]) /\ Open(c, Torn)

\* It has written the file.  vault-file encrypts with the password file even
\* where a command gives the password that decrypts.
Encrypt(c) ==
    /\ pc[c] = "encrypt"
    /\ blob' = [blob EXCEPT ![at[c]][job[c].scope] =
           IF kind[at[c]] = "vault-cmd" THEN Torn ELSE job[c].buf]
    /\ Effect(c, DOMAIN job[c].new)
    /\ Return(c, TRUE)
    /\ UNCHANGED <<kind, up, unlocked, remote, at, from, calls, faults, mishap, outage>>

\* One request per key.  An error leaves the others unsent, whether or not this
\* one took effect.
Put(c) ==
    /\ pc[c] = "put" /\ at[c] \in up
    /\ \E k \in job[c].left :
          /\ remote' = [remote EXCEPT ![at[c]][job[c].scope][k] = job[c].new[k]]
          /\ Effect(c, {k})
          /\ \/ /\ job[c].left # {k}
                /\ job' = [job EXCEPT ![c].left = @ \ {k}]
                /\ UNCHANGED <<pc, scopes, reported, faults>>
             \/ job[c].left = {k} /\ Return(c, TRUE) /\ UNCHANGED faults
             \/ faults < MaxFaults /\ faults' = faults + 1 /\ Return(c, FALSE)
    /\ UNCHANGED <<kind, up, unlocked, blob, at, from, calls, mishap, outage>>

-----------------------------------------------------------------------------
(* What goes wrong.                                                         *)

\* A request does not get through, or the encrypting command fails before it
\* writes.
Refused(c) ==
    /\ pc[c] \in {"write", "put"}
    /\ \/ pc[c] = "put" /\ at[c] \notin up /\ UNCHANGED faults
       \/ faults < MaxFaults /\ faults' = faults + 1
    /\ Return(c, FALSE)
    /\ UNCHANGED <<stores, at, from, calls, history>>

Die(c) ==
    /\ pc[c] # "idle" /\ faults < MaxFaults
    /\ faults' = faults + 1
    /\ pc' = [pc EXCEPT ![c] = "idle"]
    /\ scopes' = [scopes EXCEPT ![c] = {}]
    /\ job' = [job EXCEPT ![c] = Nothing]
    /\ mishap' = IF pc[c] = "encrypt" THEN mishap \cup {<<at[c], job[c].scope>>} ELSE mishap
    /\ UNCHANGED <<stores, at, from, reported, calls, expected, outage, touched>>

\* The server of a backend stops, or its password or private key is not there.
Fail(b) ==
    /\ faults < MaxFaults /\ faults' = faults + 1
    /\ \/ up' = up \ {b} /\ UNCHANGED unlocked
       \/ unlocked' = unlocked \ {b} /\ UNCHANGED up
    /\ outage' = outage \cup {b}
    /\ UNCHANGED <<kind, blob, remote, pc, callVars, calls, expected, mishap, touched>>

Recover(b) ==
    /\ b \notin up \cap unlocked
    /\ up' = up \cup {b} /\ unlocked' = unlocked \cup {b}
    /\ UNCHANGED <<kind, blob, remote, pc, callVars, calls, faults, history>>

Next ==
    \/ \E c \in Caller :
          \/ Call(c) \/ Migrate(c) \/ Collect(c) \/ CollectFails(c) \/ List(c) \/ Get(c)
          \/ ReadVault(c) \/ ReadSops(c) \/ ReadCapauth(c) \/ Misread(c)
          \/ Store(c) \/ OpenVault(c) \/ OpenSops(c) \/ OpenBlob(c) \/ Encrypt(c)
          \/ Put(c) \/ Refused(c) \/ Die(c)
    \/ \E b \in Backend : Fail(b) \/ Recover(b)

Spec == Init /\ [][Next]_vars

-----------------------------------------------------------------------------
(* Properties.                                                              *)

contents(b, s) ==
    LET t == IF kind[b] \in {"mcp", "kv"} THEN remote[b][s] ELSE blob[b][s]
    IN  IF t \in Dict THEN t ELSE Empty

\* What may happen to a scope that its adapter has no answer to: two calls that
\* rewrite it at once, a death over the open file, and an error of an agent that
\* can be reached, which a set takes for an empty scope (capauth/backend.py:338);
\* for the adapters that take an unreadable file for an empty one, or turn to
\* another store, also an outage; and a password that encrypts but does not
\* decrypt.
Unprotected(b, s) ==
    \/ kind[b] = "vault-cmd"
    \/ kind[b] # "kv" /\ <<b, s>> \in mishap
    \/ kind[b] \in {"sops-age", "gnupg", "mcp"} /\ b \in outage

Resting(b, s) == \A c \in rewriting(b, s) : pc[c] # "encrypt"

\* Every scope holds what the writes that took effect made of it: rewriting
\* a scope for one key neither loses nor revives another, unless the scope is
\* Unprotected.
ScopesKept ==
    \A b \in Backend, s \in Scope :
       Resting(b, s) /\ ~Unprotected(b, s) => contents(b, s) = expected[b][s]

\* A scope that migrate counts as copied is all there: each key the source has
\* and nobody wrote meanwhile has the same value in the destination.
Whole(c) ==
    \A s \in reported[c], k \in Key :
       /\ <<from[c], s, k>> \notin touched[c] /\ <<at[c], s, k>> \notin touched[c]
       /\ ~Unprotected(from[c], s) /\ ~Unprotected(at[c], s)
       /\ expected[from[c]][s][k] # 0
       => expected[at[c]][s][k] = expected[from[c]][s][k]

MigratedWhole == \A c \in Caller : Whole(c)

\* What a call is busy with fits the adapter it works on, and the GnuPG blob of an
\* MCP backend is written only because the server was out of reach.
PhaseOK(c) ==
    /\ pc[c] \in {"get", "read", "write", "encrypt", "put"} => job[c].scope \in Scope
    /\ pc[c] = "get" => kind[from[c]] = "kv"
    /\ pc[c] = "put" => kind[at[c]] = "kv" /\ job[c].left \subseteq DOMAIN job[c].new
    /\ pc[c] \in {"read", "write", "encrypt"} => kind[at[c]] # "kv"
    /\ pc[c] = "encrypt" /\ kind[at[c]] = "mcp" => at[c] \in outage

\* What a call is about to write is what the scope should hold then.
BufferOK(c) ==
    pc[c] \in {"write", "encrypt"} /\ ~Unprotected(at[c], job[c].scope) =>
       job[c].buf = update(expected[at[c]][job[c].scope], job[c].new)

\* Without a mishap one call at a time rewrites a scope; a server has every scope,
\* and a file decrypts.
ScopeOK(b, s) ==
    /\ <<b, s>> \notin mishap => \A c, d \in rewriting(b, s) : c = d
    /\ kind[b] = "kv" => remote[b][s] \in Dict
    /\ kind[b] \notin {"mcp", "kv"} /\ Resting(b, s) /\ ~Unprotected(b, s) => blob[b][s] # Torn

\* The inductive invariant behind ScopesKept.
SecretsInv ==
    /\ TypeOK
    /\ \A c \in Caller : PhaseOK(c) /\ BufferOK(c)
    /\ \A b \in Backend \ outage : b \in up \cap unlocked
    /\ \A b \in Backend, s \in Scope : ScopeOK(b, s)
    /\ ScopesKept

-----------------------------------------------------------------------------
(* The inductive invariant behind MigratedWhole.                            *)

\* Nobody else has written key k of the source, and the source can be trusted.
Followed(c, s, k) == <<from[c], s, k>> \notin touched[c] /\ ~Unprotected(from[c], s)

\* A migration works on a scope it has not reported, and no other call has any.
Underway(c) ==
    /\ scopes[c] # {} => from[c] # at[c] /\ pc[c] # "idle"
    /\ scopes[c] # {} /\ pc[c] # "collect" => job[c].scope \in scopes[c]
    /\ pc[c] \in {"collect", "get"} => scopes[c] # {}
    /\ pc[c] \in {"idle", "collect"} => job[c] = Nothing
    /\ reported[c] \cap scopes[c] = {}

\* What a migration has got is what the source holds, and all of it but what it
\* has still to get.
Gathered(c) ==
    scopes[c] # {} /\ pc[c] # "collect" =>
       \A k \in Key : Followed(c, job[c].scope, k) =>
          IF k \in DOMAIN job[c].new
          THEN job[c].new[k] = expected[from[c]][job[c].scope][k]
          ELSE expected[from[c]][job[c].scope][k] = 0 \/ (pc[c] = "get" /\ k \in job[c].left)

\* The keys it has put are there unless somebody else has written them since.
Copied(c) ==
    scopes[c] # {} /\ pc[c] = "put" =>
       \A k \in DOMAIN job[c].new \ job[c].left :
          <<at[c], job[c].scope, k>> \notin touched[c] =>
             expected[at[c]][job[c].scope][k] = job[c].new[k]

\* Nobody can read a file that is being written.
Unread(c) ==
    pc[c] = "encrypt" /\ kind[at[c]] \notin {"mcp", "kv"} /\ ~Unprotected(at[c], job[c].scope) =>
       blob[at[c]][job[c].scope] \notin Dict

Copying(c) == Underway(c) /\ Gathered(c) /\ Copied(c) /\ Unread(c) /\ Whole(c)

CopyInv == \A c \in Caller : Copying(c)
=============================================================================
