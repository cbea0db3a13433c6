-------------------------- MODULE MCSkstacksDeploy --------------------------
(* Small instances of SkstacksDeploy for TLC. *)
EXTENDS SkstacksDeploy, TLC
CONSTANTS r1, r2, hub, sso, web, db

\* Two invocations are interchangeable.
RunSymmetry == Permutations(Run)

\* One app of one service.
OneSmallApp == hub :> {db}
\* Two apps with a service of the same name; sso migrates its schema.
TwoApps == hub :> {web, db} @@ sso :> {db}
=============================================================================
