-------------------------- MODULE MCSecretBackends --------------------------
(***************************************************************************)
(* A small instance of SecretBackends for TLC: a backend in use and a new    *)
(* one, behind each pair of adapters between which secrets can be migrated.  *)
(***************************************************************************)
EXTENDS SecretBackends, TLC
CONSTANTS p1, p2, old, fresh, s1, s2, k1, k2

SecretSymmetry == Permutations(Caller) \cup Permutations(Scope) \cup Permutations(Key)

pair(a, b) == old :> a @@ fresh :> b

Pairs == {pair("vault-file", "kv"), pair("kv", "mcp"), pair("mcp", "vault-file"),
          pair("gnupg", "vault-cmd"), pair("sops-age", "kv")}
InUse == {old} \X Scope
=============================================================================
