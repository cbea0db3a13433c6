--------------------------- MODULE MCSkbloomInstall ---------------------------
(* Small instances of SkbloomInstall for TLC. *)
EXTENDS SkbloomInstall, TLC
CONSTANTS r1, r2, c1, c2, sso, ca, shared, f1, f2

RunSymmetry == Permutations(Run)

profile(c, s) == [cluster |-> c, services |-> s, tls |-> FALSE]

OneProfile == {[profile(c1, <<ca, sso>>) EXCEPT !.tls = TRUE]}
\* The same service on two clusters.
TwoClusterProfiles == {profile(c1, <<sso>>), profile(c2, <<sso>>)}

\* The web server's ledgers, one per cluster, and the CLI's, one for all.
LedgerPerCluster == c1 :> f1 @@ c2 :> f2
SharedLedger == c1 :> shared @@ c2 :> shared
OneLedger == c1 :> f1

ListedAlone == [n \in Cluster \cup Service |-> {n}]
=============================================================================
