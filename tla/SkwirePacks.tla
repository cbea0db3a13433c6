----------------------------- MODULE SkwirePacks -----------------------------
(***************************************************************************)
(* v2/skwire: what packs contribute to the graph, the first-party packs of   *)
(* the catalog, and the advice that is computed from the merged graph.       *)
(*                                                                          *)
(* A pack is the set of its nodes.  A need is <<service, secret>>.           *)
(***************************************************************************)
EXTENDS Naturals, Sequences, FiniteSets

node(n, needs) == [name |-> n, needs |-> needs, critical |-> FALSE, replicas |-> 1]
critical(n, needs) == [node(n, needs) EXCEPT !.critical = TRUE]

-----------------------------------------------------------------------------
(* The packs.                                                               *)

skmedia ==
    LET prowlarr == <<"prowlarr", "prowlarr_api_key">>
        arrs == {<<"sonarr", "sonarr_api_key">>, <<"radarr", "radarr_api_key">>}
    IN  {node(n, {}) : n \in {"jellyfin", "qbittorrent", "prowlarr"}}
        \cup {node(n, {prowlarr, <<"qbittorrent", "qbit_password">>}) : n \in {"sonarr", "radarr"}}
        \cup {node("bazarr", arrs), node("seerr", arrs \cup {<<"jellyfin", "jellyfin_api_key">>})}

skhome ==
    LET mqtt == <<"mosquitto", "mqtt_password">>
    IN  {critical("mosquitto", {}), node("frigate", {mqtt}), node("zigbee2mqtt", {mqtt}),
         node("homeassistant", {mqtt, <<"frigate", "frigate_api_key">>}),
         node("node-red", {<<"homeassistant", "ha_long_lived_token">>})}

skdev ==
    LET openrouter == <<"openrouter", "openrouter_api_key">>
    IN  {node("ollama", {}), node("openrouter", {})}
        \cup {node(n, {openrouter}) : n \in {"opencode", "codex", "claude-code"}}
        \cup {node("hermes", {openrouter, <<"ollama", "ollama_token">>})}

skhf == {node("hf-download", {})}

\* _demo_pack("skobserve", "grafana")
skobserve == {node("grafana", {})}

-----------------------------------------------------------------------------
(* The graph of a set of nodes.                                             *)

names(N) == {n.name : n \in N}
edges(N) == UNION {{<<n.name, need>> : need \in n.needs} : n \in N}
providers(N, x) == {e[2][1] : e \in {f \in edges(N) : f[1] = x}}
fan_in(N, x) == Cardinality({e \in edges(N) : e[2][1] = x})

\* The names that come up, round by round.
rounds(N) ==
    LET up[S \in SUBSET names(N)] ==
            LET more == {x \in names(N) : providers(N, x) \subseteq S}
            IN  IF more = S THEN S ELSE up[more]
    IN  up[{}]

\* build_plan does not raise.
builds(N) == rounds(N) = names(N)

\* The default action that is recommended.
next_step(packs, N) ==
    IF packs = {} THEN "catalog"
    ELSE IF N = {} THEN "add"
    ELSE IF builds(N) THEN "up" ELSE "doctor"

\* Every check but the environment's.
doctor(packs, N) == packs # {} /\ N # {} /\ builds(N)

critical_nodes(N) ==
    {x \in names(N) : fan_in(N, x) >= 2 \/ \E n \in N : n.name = x /\ n.critical}

redundancy_advice(N) ==
    {c \in critical_nodes(N) : \A n \in N : n.name = c => n.replicas < 2}

\* A node gets a pair, and stays flagged.
make_redundant(N, c) ==
    {IF n.name = c THEN [n EXCEPT !.replicas = 2, !.critical = TRUE] ELSE n : n \in N}

-----------------------------------------------------------------------------
(* The questions of a pack.                                                 *)

Option(type, choices, default) == [type |-> type, choices |-> choices, default |-> default]

\* skhf's, as far as they offer a choice.
skhfOptions ==
    {Option("choice", <<"model", "dataset">>, "model"),
     Option("choice", <<"everything", "safetensors", "gguf">>, "everything"),
     Option("path", <<>>, "None"), Option("str", <<>>, "None")}

values(o) ==
    CASE o.type = "choice" -> o.choices
      [] o.type = "bool" -> <<"yes", "no">>
      [] OTHER -> <<>>

\* The values that are marked as the default: the first, if none is declared.
option_choices(o) ==
    LET default == IF o.default = "None" /\ values(o) # <<>> THEN values(o)[1] ELSE o.default
    IN  {i \in DOMAIN values(o) : values(o)[i] = default}
=============================================================================
