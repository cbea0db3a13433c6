---------------------------- MODULE MCProvision ----------------------------
(***************************************************************************)
(* Small instances of Provision: two processes that run the scripts against  *)
(* one application, those together that share objects.                      *)
(***************************************************************************)
EXTENDS Provision, ProvisionScripts, TLC

\* TLC works this out once, and what the configuration puts for a constant at
\* every use: hence Plans.
AllPlans ==
    "skmesh" :> skmesh @@ "skrac" :> skrac @@ "tile" :> tile @@
    "capauth" :> capauth(TRUE, capauthUsers) @@ "capauth only" :> capauth(FALSE, capauthUsers) @@
    "capauth sharing" :> capauth(FALSE, capauthSharing) @@
    "wire" :> wire @@ "kuma" :> kuma @@ "systems" :> systems @@ "windmill" :> windmill
Plans == AllPlans
Scripts == DOMAIN AllPlans

CONSTANTS j1, j2
both(A, B) == j1 :> A @@ j2 :> B
Together ==
    {both({"skrac"}, {"tile"}), both({"capauth", "capauth only"}, {}), both({"capauth only", "capauth sharing"}, {}), both({"skmesh"}, {}),
     both({"wire"}, {}), both({"kuma"}, {"kuma"}), both({"systems"}, {"systems"}),
     both({"windmill"}, {})}

\* What an application brings along.  Some of it, an administrator may have
\* not made yet.
Shipped == {"consent", "certificate", "scope", "source flow", "mfa", "password", "brand",
            "api", "indexer schema", "settings", "oauths", "workspace", "ann", "bob"}
MayBeThere == {"device flow", "login flow", "viewers"}
Linked == {"permission", "member", "tile binding", "identification binding", "mfa binding",
           "login binding", "ann's key", "bob's key"}
Applications == {"mesh app", "rac app"}
Duplicable == {"tile binding", "root folder", "download client", "notification", "application",
               "tag", "proxy", "indexer"}
OneOnly == Name \ Duplicable
=============================================================================
