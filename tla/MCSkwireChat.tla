---------------------------- MODULE MCSkwireChat ----------------------------
(***************************************************************************)
(* A small instance of SkwireChat for TLC, and the packs themselves.        *)
(***************************************************************************)
EXTENDS SkwireChat, TLC
CONSTANTS p1, p2

FirstParty == "skmedia" :> skmedia @@ "skhome" :> skhome @@ "skdev" :> skdev
              @@ "skhf" :> skhf @@ "skobserve" :> skobserve

\* Whatever is added, it makes a plan; the advice, once taken, is not repeated;
\* doctor and the next step agree; and a question has one default.
ASSUME \A R \in SUBSET DOMAIN FirstParty :
          LET N == UNION {FirstParty[p] : p \in R}
          IN  /\ builds(N)
              /\ \A x \in critical_nodes(N) : x \notin redundancy_advice(make_redundant(N, x))
              /\ (next_step(R, N) = "up") = doctor(R, N)
ASSUME \A o \in skhfOptions : values(o) # <<>> => Cardinality(option_choices(o)) = 1

\* Two packs and a program of the system's package manager.  The community
\* catalog may say that one of them is a Python package.
Listed == "gimp" :> 1 @@ "skhf" :> 2 @@ "skmedia" :> 3
ListedNames == DOMAIN Listed
TwoPacks == "skhf" :> skhf @@ "skmedia" :> skmedia
FirstPartyCatalog == <<<<"skmedia", "builtin">>, <<"skhf", "builtin">>, <<"gimp", "pkg">>>>
Community == {<<<<"skmedia", "pip">>>>}

Words == [all |-> FALSE, search |-> FALSE, named |-> {}, hinted |-> {}, proceed |-> FALSE]
Said == {[Words EXCEPT !.all = TRUE], [Words EXCEPT !.named = {"skhf"}],
         [Words EXCEPT !.hinted = {"skhf", "skmedia"}], [Words EXCEPT !.proceed = TRUE],
         [Words EXCEPT !.search = TRUE, !.named = {"skhf"}], Words}
Replies == {do("add_one", "skhf"), do("add_one", "skmedia"), do("add_all", None), do("none", None)}
=============================================================================
