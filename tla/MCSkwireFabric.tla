--------------------------- MODULE MCSkwireFabric ---------------------------
(***************************************************************************)
(* A small instance of SkwireFabric for TLC: a media pack, and a dashboard   *)
(* whose pack needs it.                                                     *)
(***************************************************************************)
EXTENDS SkwireFabric, TLC
CONSTANTS j1, j2, media, dash, prowlarr, sonarr, homepage, k1, k3

JobSymmetry == Permutations(Job)

edge(c, p, k) == [consumer |-> c, provider |-> p, secret |-> k]

PackNodes == media :> {prowlarr, sonarr} @@ dash :> {homepage}
PackNeeds ==
    media :> {edge(sonarr, prowlarr, k1)}
    @@ dash :> {edge(homepage, sonarr, k3)}
NodeMethod == prowlarr :> "api" @@ sonarr :> "file" @@ homepage :> "env"

place == prowlarr :> 1 @@ sonarr :> 2 @@ homepage :> 0 @@ k1 :> 0 @@ k3 :> 3
Sorted == [w \in Node \X Key |-> place[w[2]] + place[w[1]]]

ByKind == {NodeMethod}
EachOrAll == {{}, {k1}, {k3}}
=============================================================================
