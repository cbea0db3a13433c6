-------------------------- MODULE ProvisionScripts --------------------------
(***************************************************************************)
(* The provisioning scripts as sequences of the steps of Provision.  What    *)
(* an object is made of is its "body", one value for each configuration; the *)
(* objects a request refers to by primary key are the step's "uses".         *)
(***************************************************************************)
EXTENDS Sequences

do(op, o, U) == [op |-> op, obj |-> o, uses |-> U, val |-> <<1, 2>>]
\* The same value in every configuration, or one for each.
is(op, o, U, v) == [op |-> op, obj |-> o, uses |-> U, val |-> v]

-----------------------------------------------------------------------------
(* skmesh: authentik_provision.py                                           *)

\* The mapping for API access is made where Authentik ships none.
skmeshScopes == <<do("need", "scope", {}), do("make", "api scope", {})>>

\* The provider goes through sksso's CapAuth login.
skmeshLogin ==
    <<do("need", "consent", {}), do("need", "certificate", {})>> \o skmeshScopes \o
    <<do("need", "login flow", {}),
      do("ensure", "mesh provider", {"consent", "certificate", "scope", "api scope", "login flow"}),
      do("ensure", "mesh app", {"mesh provider"})>>

\* NetBird's service account, and the device code flow of the brand.
skmeshAccount ==
    <<is("ensure", "role", {}, <<1, 1>>), do("add", "permission", {"role"}),
      is("ensure", "group", {"role"}, <<1, 1>>), is("ensure", "account", {}, <<1, 1>>),
      do("add", "member", {"group", "account"}),
      is("ensure", "token", {"account"}, <<1, 1>>), do("key", "token", {}),
      do("fill", "brand", {"device flow"})>>

skmesh == skmeshLogin \o skmeshAccount

-----------------------------------------------------------------------------
(* skrac: authentik_provision.py, and the portal tile of the roles behind    *)
(* forward auth, here with the slug of skrac's application.                  *)

skrac ==
    <<do("need", "consent", {}), do("need", "certificate", {}), do("need", "scope", {}),
      do("secret", "rac provider", {"consent", "certificate", "scope"}),
      do("ensure", "rac app", {"rac provider"})>>

tile ==
    <<do("tile", "rac app", {}), do("need", "viewers", {}),
      do("make", "tile binding", {"rac app", "viewers"})>>

-----------------------------------------------------------------------------
(* sksso: capauth_provision.py                                              *)

\* The stages that exist already come first; with the password login, the
\* identification stage has a password and the flow an MFA stage.
capauthStages(password) ==
    (IF password THEN <<do("need", "mfa", {}), do("need", "password", {})>> ELSE <<>>) \o
    <<do("need", "source flow", {}), do("whole", "source", {"source flow"}),
      do("ensure", "identification", {"source"} \cup IF password THEN {"password"} ELSE {}),
      is("ensure", "login", {}, <<1, 1>>), do("ensure", "login flow", {})>>

capauthBindings(password) ==
    <<is("ensure", "identification binding", {"login flow", "identification"}, <<1, 1>>)>> \o
    (IF password THEN <<is("ensure", "mfa binding", {"login flow", "mfa"}, <<1, 1>>)>> ELSE <<>>) \o
    <<is("ensure", "login binding", {"login flow", "login"}, <<1, 1>>),
      do("prune", "login flow", {"identification", "login"} \cup IF password THEN {"mfa"} ELSE {})>>

\* Each user has one fingerprint.  In the second configuration ann has a new
\* one and bob has ann's old one.
capauthUsers ==
    <<do("list", "source", {"ann's key", "bob's key"}),
      do("need", "ann", {}), is("link", "ann's key", {"ann", "source"}, <<1, 3>>),
      do("need", "bob", {}), is("link", "bob's key", {"bob", "source"}, <<2, 1>>)>>

\* In the first configuration both have the same one.
capauthSharing ==
    <<do("list", "source", {"ann's key", "bob's key"}),
      do("need", "ann", {}), is("link", "ann's key", {"ann", "source"}, <<4, 1>>),
      do("need", "bob", {}), is("link", "bob's key", {"bob", "source"}, <<4, 3>>)>>

capauth(password, users) == capauthStages(password) \o capauthBindings(password) \o users

-----------------------------------------------------------------------------
(* The others.                                                              *)

\* skfetch: wire.py, for one application and Prowlarr.
wireApp ==
    <<do("need", "api", {}), is("make", "root folder", {}, <<1, 1>>),
      do("make", "download client", {}), do("try", "notification", {})>>

\* The second configuration names an indexer that Prowlarr has no definition of.
wireProwlarr ==
    <<do("make", "application", {}), do("make", "tag", {}), do("make", "proxy", {"tag"}),
      do("need", "indexer schema", {}), is("loose", "indexer", {"tag"}, <<1, 0>>)>>

wire == wireApp \o wireProwlarr

\* skpulse: kuma_first_run_setup.py.
kuma ==
    <<do("make", "database", {}), do("make", "admin", {"database"}), do("check", "admin", {}),
      is("key", "settings", {}, <<1, 1>>)>>

\* skpatch-hosts: systems_sync.py, for two nodes.
systems ==
    <<do("list", "node1", {"node1", "node2"}), do("entry", "node1", {}), do("entry", "node2", {})>>

\* skflow: sso_provision.py, for a workspace and two of its administrators.
windmill ==
    <<do("ensure", "oauths", {}), do("need", "workspace", {}),
      do("list", "workspace", {"user1", "user2"}),
      is("entry", "user1", {}, <<1, 1>>), is("entry", "user2", {}, <<1, 1>>)>>
=============================================================================
