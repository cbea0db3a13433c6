----------------------------- MODULE SkwireChat -----------------------------
(***************************************************************************)
(* v2/skwire's chat window and command line: people ask for offerings of the *)
(* catalog in their own words or by name, and their packs are registered.    *)
(*                                                                          *)
(* The web server answers each request in a thread of its own, and all of    *)
(* them share the catalog and the registry of packs, which live in its       *)
(* memory; a command has them to itself.  A dictionary that changes while it *)
(* is being iterated, or a pack that is there already, raises: the request    *)
(* gets no answer, and whoever sent it sends it again.                       *)
(***************************************************************************)
EXTENDS SkwirePacks

CONSTANTS
    Person,         \* each has one request or command at a time
    Web,            \* the server
    Offering,
    Rank,           \* the order they are listed in
    Builtin,        \* the first-party catalog: <<offering, source>>, in order
    Packs,          \* the packs the engine can make itself
    Remotes,        \* what the community catalog may register, up to its end or
                    \* to an entry that is no offering
    EntryPoints,    \* packs that are there from the start
    Messages,       \* what people write, as far as interpret looks at it
    Answers,        \* what a model may answer
    NoAnswer,       \* there is no model, it fails, or it answers rubbish
    None,
    MaxRequests,    \* bound: requests, without the repeated ones
    MaxRestarts     \* bound: restarts of the server

Pack == DOMAIN Packs
Source == {"builtin", "pip", "pkg", "url", "other"}
Catalog == Seq(Offering \X Source)
Action == [kind : {"add_one", "add_all", "search", "plan", "approve", "none", "unknown"},
           target : Offering \cup {None}]
Message == [all : BOOLEAN, search : BOOLEAN, named : SUBSET Offering,
            hinted : SUBSET Offering, proceed : BOOLEAN]
Request == [op : {"chat"}, message : Messages] \cup [op : {"add"}, name : Offering]
           \cup [op : {"catalog", "plan", "next"}]

ASSUME ChatAssumption ==
    /\ Web \notin Person /\ Rank \in [Offering -> Nat]
    /\ \A o, p \in Offering : Rank[o] = Rank[p] => o = p
    /\ Builtin \in Catalog /\ Remotes \subseteq Catalog
    /\ Pack \subseteq Offering /\ EntryPoints \subseteq Pack
    /\ \A p \in Pack : \E i \in DOMAIN Builtin : Builtin[i][1] = p
    /\ Messages \subseteq Message /\ Answers \subseteq Action
    /\ None \notin Offering \cup Source /\ NoAnswer \notin Action
    /\ MaxRequests \in Nat /\ MaxRestarts \in Nat

VARIABLES
    registry,   \* the packs registered in each process
    offerings,  \* the source of each offering in its catalog
    pc, place, request,
    todo,       \* the catalog entries a request has still to register
    left,       \* the offerings it has still to install
    seen,       \* the packs it has begun to iterate over
    intent, act, reply, \* what the message asks for, what is done, what is said
    added, plan, step,  \* the answer: offerings, the packs of the plan, the next step
    outcome,    \* none, answered, raised
    requests, restarts,
    asked,      \* history: what people asked the server for since it started
    swept       \* history: a model has had everything added since, unasked

answer == <<added, plan, step>>
talk == <<intent, act, reply>>
history == <<asked, swept>>
request_ == <<pc, place, request, todo, left, seen, outcome>>
vars == <<registry, offerings, request_, talk, answer, requests, restarts, history>>

Process == Person \cup {Web}
NoIntent == [kind |-> "none", target |-> None]
Idle == [op |-> "next"]

TypeOK ==
    /\ registry \in [Process -> SUBSET Pack]
    /\ offerings \in [Process -> [Offering -> Source \cup {None}]]
    /\ pc \in [Person -> {"idle", "load", "remote", "think", "next", "nexting", "act",
                          "install", "make", "gather", "gathering"}]
    /\ place \in [Person -> Process] /\ request \in [Person -> Request]
    /\ todo \in [Person -> Catalog] /\ left \in [Person -> SUBSET Offering]
    /\ seen \in [Person -> SUBSET Pack]
    /\ intent \in [Person -> Action] /\ act \in [Person -> Action] /\ reply \in [Person -> Action]
    /\ added \in [Person -> SUBSET Offering] /\ plan \in [Person -> SUBSET Pack]
    /\ step \in [Person -> {"none", "catalog", "add", "up", "doctor"}]
    /\ outcome \in [Person -> {"none", "answered", "raised"}]
    /\ requests \in 0 .. MaxRequests /\ restarts \in 0 .. MaxRestarts
    /\ asked \subseteq Offering /\ swept \in BOOLEAN

NoCatalog == [o \in Offering |-> None]

Init ==
    /\ registry = [p \in Process |-> EntryPoints]
    /\ offerings = [p \in Process |-> NoCatalog]
    /\ pc = [c \in Person |-> "idle"]
    /\ place = [c \in Person |-> Web]
    /\ request = [c \in Person |-> Idle]
    /\ todo = [c \in Person |-> <<>>] /\ left = [c \in Person |-> {}]
    /\ seen = [c \in Person |-> {}]
    /\ intent = [c \in Person |-> NoIntent] /\ act = intent /\ reply = intent
    /\ added = [c \in Person |-> {}] /\ plan = [c \in Person |-> {}]
    /\ step = [c \in Person |-> "none"]
    /\ outcome = [c \in Person |-> "none"]
    /\ requests = 0 /\ restarts = 0
    /\ asked = {} /\ swept = FALSE

-----------------------------------------------------------------------------
(* What the words mean.                                                     *)

packs(c) == registry[place[c]]
all_nodes(R) == UNION {Packs[p] : p \in R}
list_offerings(c) == {o \in Offering : offerings[place[c]][o] # None}

\* The one of S that is listed first.
first(S) == {o \in S : \A p \in S : Rank[o] <= Rank[p]}

do(kind, target) == [kind |-> kind, target |-> target]

\* The router.  Of the offerings that are called by their names the first is
\* taken; where the words only hint at some, the best match.
interpret(c, m) ==
    IF m.all THEN {do("add_all", None)}
    ELSE IF m.search THEN {do("search", None)}
    ELSE LET named == m.named \cap list_offerings(c)
             hinted == m.hinted \cap list_offerings(c)
         IN  IF named # {} THEN {do("add_one", o) : o \in first(named)}
             ELSE IF hinted # {} THEN {do("add_one", o) : o \in hinted}
             ELSE {do(IF m.proceed THEN "plan" ELSE "unknown", None)}

agrees(i, a) == a # NoAnswer /\ a.kind = i.kind /\ a.target = i.target

\* The model may add an app of its own choice.
decideByModel(i, a) ==
    IF i.kind # "unknown" THEN <<i, IF agrees(i, a) THEN a ELSE i>>
    ELSE IF a = NoAnswer THEN <<i, i>> ELSE <<a, a>>

\* What is done and what is said, given the model's answer a: the router decides,
\* and where it does not know, the model, which does not add one by itself.
decide(i, a) ==
    IF i.kind # "unknown" THEN <<i, IF agrees(i, a) THEN a ELSE i>>
    ELSE IF a = NoAnswer THEN <<i, i>>
    ELSE <<IF a.kind = "add_one" THEN NoIntent ELSE a, a>>

-----------------------------------------------------------------------------
(* The course of a request.                                                 *)

shared == <<registry, offerings>>
bounds == <<requests, restarts>>

Goto(c, p) == pc' = [pc EXCEPT ![c] = p]

wants(r) ==
    CASE r.op = "add" -> {r.name}
      [] r.op = "chat" -> IF r.message.all THEN Offering ELSE r.message.named \cup r.message.hinted
      [] OTHER -> {}

Begin(c, p, r) ==
    /\ place' = [place EXCEPT ![c] = p]
    /\ request' = [request EXCEPT ![c] = r]
    /\ Goto(c, CASE r.op = "plan" -> "gather" [] r.op = "next" -> "next" [] OTHER -> "load")
    /\ todo' = [todo EXCEPT ![c] = IF r.op \in {"plan", "next"} THEN <<>> ELSE Builtin]
    /\ added' = [added EXCEPT ![c] = {}] /\ plan' = [plan EXCEPT ![c] = {}]
    /\ step' = [step EXCEPT ![c] = "none"]
    /\ outcome' = [outcome EXCEPT ![c] = "none"]
    /\ UNCHANGED <<left, seen, talk>>

\* The request ends.
End(c, how) ==
    /\ Goto(c, "idle")
    /\ outcome' = [outcome EXCEPT ![c] = how]
    /\ todo' = [todo EXCEPT ![c] = <<>>] /\ left' = [left EXCEPT ![c] = {}]
    /\ seen' = [seen EXCEPT ![c] = {}]
    /\ intent' = [intent EXCEPT ![c] = NoIntent]
    /\ UNCHANGED <<place, request>>

Raise(c) == End(c, "raised") /\ UNCHANGED <<act, reply, answer>>

\* One of the server's handlers.
Ask(c) ==
    /\ pc[c] = "idle" /\ requests < MaxRequests
    /\ \E r \in Request : Begin(c, Web, r) /\ asked' = asked \cup wants(r)
    /\ requests' = requests + 1
    /\ UNCHANGED <<shared, restarts, swept>>

\* Who gets no answer tries again.
Repeat(c) ==
    /\ pc[c] = "idle" /\ outcome[c] = "raised" /\ place[c] = Web
    /\ Begin(c, Web, request[c])
    /\ asked' = asked \cup wants(request[c])
    /\ UNCHANGED <<shared, bounds, swept>>

\* A command is a process, which begins with the packs that are installed.
Command(c) ==
    /\ pc[c] = "idle" /\ requests < MaxRequests
    /\ \E r \in {q \in Request : q.op # "chat"} : Begin(c, c, r)
    /\ registry' = [registry EXCEPT ![c] = EntryPoints]
    /\ offerings' = [offerings EXCEPT ![c] = NoCatalog]
    /\ requests' = requests + 1
    /\ UNCHANGED <<restarts, history>>

-----------------------------------------------------------------------------
(* The catalog is loaded anew for each request.                             *)

\* The catalog is emptied first.
register_afresh(c) ==
    /\ pc[c] \in {"load", "remote"} /\ todo[c] # <<>>
    /\ LET o == Head(todo[c])
           rest == IF todo[c] = Builtin THEN NoCatalog ELSE offerings[place[c]]
       IN  offerings' = [offerings EXCEPT ![place[c]] = [rest EXCEPT ![o[1]] = o[2]]]
    /\ todo' = [todo EXCEPT ![c] = Tail(@)]
    /\ UNCHANGED <<registry, pc, place, request, left, seen, outcome, talk, answer, bounds, history>>

register_offering(c) ==
    /\ pc[c] \in {"load", "remote"} /\ todo[c] # <<>>
    /\ LET o == Head(todo[c]) IN offerings' = [offerings EXCEPT ![place[c]][o[1]] = o[2]]
    /\ todo' = [todo EXCEPT ![c] = Tail(@)]
    /\ UNCHANGED <<registry, pc, place, request, left, seen, outcome, talk, answer, bounds, history>>

\* A catalog that cannot be fetched fails the request.
load_or_raise(c) ==
    /\ pc[c] = "load" /\ todo[c] = <<>>
    /\ \/ /\ \E entries \in Remotes : todo' = [todo EXCEPT ![c] = entries]
          /\ Goto(c, "remote")
          /\ UNCHANGED <<place, request, left, seen, outcome, talk, answer>>
       \/ Raise(c)
    /\ UNCHANGED <<shared, bounds, history>>

\* Whatever fails, the community catalog is done without.
load_remote_catalog(c) ==
    /\ pc[c] = "load" /\ todo[c] = <<>>
    /\ \E entries \in Remotes \cup {<<>>} : todo' = [todo EXCEPT ![c] = entries]
    /\ Goto(c, "remote")
    /\ UNCHANGED <<shared, place, request, left, seen, outcome, talk, answer, bounds, history>>

\* With the catalog loaded, the request is seen to.
Loaded(c) ==
    /\ pc[c] = "remote" /\ todo[c] = <<>>
    /\ CASE request[c].op = "catalog" -> End(c, "answered") /\ UNCHANGED <<act, reply>>
         [] request[c].op = "add" ->
              /\ Goto(c, "install")
              /\ left' = [left EXCEPT ![c] = {request[c].name}]
              /\ UNCHANGED <<place, request, todo, seen, outcome, talk>>
         [] request[c].op = "chat" ->
              /\ Goto(c, "think")
              /\ \E i \in interpret(c, request[c].message) : intent' = [intent EXCEPT ![c] = i]
              /\ UNCHANGED <<place, request, todo, left, seen, outcome, act, reply>>
    /\ UNCHANGED <<shared, answer, bounds, history>>

\* The model is asked, if there is one.
Converse(c) ==
    /\ pc[c] = "think"
    /\ \E a \in Answers \cup {NoAnswer} : LET d == decide(intent[c], a) IN
          /\ act' = [act EXCEPT ![c] = d[1]]
          /\ reply' = [reply EXCEPT ![c] = d[2]]
          /\ swept' = (swept \/ (intent[c].kind = "unknown" /\ d[1].kind = "add_all"))
    /\ Goto(c, "next")
    /\ UNCHANGED <<shared, place, request, todo, left, seen, outcome, intent, answer, bounds, asked>>

-----------------------------------------------------------------------------
(* The next steps, which a chat works out before it acts.                   *)

Suggest(c, s) ==
    /\ step' = [step EXCEPT ![c] = s]
    /\ IF request[c].op = "next" THEN End(c, "answered")
       ELSE Goto(c, "act") /\ UNCHANGED <<place, request, todo, left, seen, outcome, intent>>

next_steps(c) ==
    /\ pc[c] = "next"
    /\ IF packs(c) = {} THEN Suggest(c, "catalog")
       ELSE /\ Goto(c, "nexting")
            /\ seen' = [seen EXCEPT ![c] = packs(c)]
            /\ UNCHANGED <<place, request, todo, left, outcome, intent, step>>
    /\ UNCHANGED <<shared, act, reply, added, plan, bounds, history>>

\* The packs have been iterated over.
Recommend(c) ==
    /\ pc[c] = "nexting"
    /\ IF packs(c) # seen[c] THEN Raise(c)
       ELSE Suggest(c, next_step(seen[c], all_nodes(seen[c]))) /\ UNCHANGED <<act, reply, added, plan>>
    /\ UNCHANGED <<shared, bounds, history>>

-----------------------------------------------------------------------------
(* Actions.                                                                 *)

Install(c, os) ==
    /\ Goto(c, "install")
    /\ left' = [left EXCEPT ![c] = os]
    /\ UNCHANGED <<place, request, todo, seen, outcome, talk, answer>>

_apply_action(c) ==
    /\ pc[c] = "act"
    /\ CASE act[c].kind = "add_all" -> Install(c, list_offerings(c))
         [] act[c].kind = "add_one" -> Install(c, {act[c].target})
         [] act[c].kind \in {"plan", "approve"} ->
              Goto(c, "gather") /\ UNCHANGED <<place, request, todo, left, seen, outcome, talk, answer>>
         [] OTHER -> End(c, "answered") /\ UNCHANGED <<act, reply, answer>>
    /\ UNCHANGED <<shared, bounds, history>>

\* Offering o has been seen to.
Installed(c, o, ok) ==
    /\ Goto(c, "install")
    /\ left' = [left EXCEPT ![c] = @ \ {o}]
    /\ added' = IF ok THEN [added EXCEPT ![c] = @ \cup {o}] ELSE added
    /\ UNCHANGED <<place, request, todo, seen, outcome, talk, plan, step>>

\* Only what is built in is installed; for the others there is a hint.
install_offering(c) ==
    /\ pc[c] = "install"
    /\ \E o \in first(left[c]) :
          LET source == offerings[place[c]][o]
          IN  IF source = None THEN Raise(c)
              ELSE IF source # "builtin" \/ o \notin Pack THEN Installed(c, o, FALSE)
              ELSE IF o \in packs(c) THEN Installed(c, o, TRUE)
              ELSE Goto(c, "make") /\ UNCHANGED <<place, request, todo, left, seen, outcome, talk, answer>>
    /\ UNCHANGED <<shared, bounds, history>>

\* The pack has been made; another thread may have registered it meanwhile.
register_pack(c) ==
    /\ pc[c] = "make"
    /\ \E o \in first(left[c]) :
          IF o \in packs(c) THEN Raise(c) /\ UNCHANGED registry
          ELSE /\ registry' = [registry EXCEPT ![place[c]] = @ \cup {o}]
               /\ Installed(c, o, TRUE)
    /\ UNCHANGED <<offerings, bounds, history>>

\* A chat shows the plan as well.
Done(c) ==
    /\ pc[c] = "install" /\ left[c] = {}
    /\ IF request[c].op = "chat"
       THEN Goto(c, "gather") /\ UNCHANGED <<place, request, todo, left, seen, outcome, talk, answer>>
       ELSE End(c, "answered") /\ UNCHANGED <<act, reply, answer>>
    /\ UNCHANGED <<shared, bounds, history>>

api_plan(c) ==
    /\ pc[c] = "gather"
    /\ Goto(c, "gathering")
    /\ seen' = [seen EXCEPT ![c] = packs(c)]
    /\ UNCHANGED <<shared, place, request, todo, left, outcome, talk, answer, bounds, history>>

\* The packs have been iterated over, and make a plan or do not.
Planned(c) ==
    /\ pc[c] = "gathering"
    /\ IF packs(c) # seen[c] \/ ~builds(all_nodes(seen[c])) THEN Raise(c)
       ELSE /\ plan' = [plan EXCEPT ![c] = seen[c]]
            /\ End(c, "answered")
            /\ UNCHANGED <<act, reply, added, step>>
    /\ UNCHANGED <<shared, bounds, history>>

-----------------------------------------------------------------------------
\* The server stops, with its memory and whatever it was doing, and is started
\* again.
Restart ==
    /\ restarts < MaxRestarts /\ restarts' = restarts + 1
    /\ registry' = [registry EXCEPT ![Web] = EntryPoints]
    /\ offerings' = [offerings EXCEPT ![Web] = NoCatalog]
    /\ LET here == {c \in Person : place[c] = Web}
           hit == {c \in here : pc[c] # "idle"}
           in(f, S, v) == [c \in Person |-> IF c \in S THEN v ELSE f[c]]
       IN  /\ pc' = in(pc, hit, "idle")
           /\ outcome' = [c \in Person |-> IF c \in hit THEN "raised"
                             ELSE IF c \in here /\ outcome[c] = "answered" THEN "none" ELSE outcome[c]]
           /\ todo' = in(todo, hit, <<>>) /\ left' = in(left, hit, {})
           /\ seen' = in(seen, hit, {}) /\ intent' = in(intent, hit, NoIntent)
    /\ asked' = {} /\ swept' = FALSE
    /\ UNCHANGED <<place, request, act, reply, answer, requests>>

Work(c) ==
    \/ register_offering(c) \/ load_remote_catalog(c) \/ Loaded(c) \/ Converse(c)
    \/ next_steps(c) \/ Recommend(c) \/ _apply_action(c) \/ install_offering(c)
    \/ register_pack(c) \/ Done(c) \/ api_plan(c) \/ Planned(c)

Next ==
    \/ \E c \in Person : Ask(c) \/ Repeat(c) \/ Command(c) \/ Work(c)
    \/ Restart

Spec == Init /\ [][Next]_vars

\* A request that has been sent is worked on, whatever it waits for times out,
\* and who gets no answer tries again.
FairSpec == Spec /\ \A c \in Person : WF_vars(Work(c)) /\ WF_vars(Repeat(c))

-----------------------------------------------------------------------------
(* Properties.                                                              *)

\* What the community catalog leaves as it is.
Own == {o \in Pack : \A t \in Remotes \cup {Builtin} :
                        \A i \in DOMAIN t : t[i][1] = o => t[i][2] = "builtin"}

\* The registry of the server holds what was there from the start and what
\* people named, hinted at or swept in with "everything".  No model installs an
\* app that the router did not find in their words (server.py:148-150).
InstallsOnlyAsked == registry[Web] \subseteq EntryPoints \cup asked

\* The program stops a model's add_one there, but not its add_all.
wanted == IF swept THEN Offering ELSE asked

\* The same, with the one exception that the program makes: as long as no model
\* has answered add_all to words the router does not know, nothing is registered
\* that nobody asked for, whatever the models say to that and to everybody else's
\* words, and also when the words of one person are answered between the steps
\* of another's request.
OnlyAsked == registry[Web] \subseteq EntryPoints \cup wanted

\* What person c may still have installed is wanted.
Sought(c, a) ==
    /\ a.kind = "add_one" => a.target \in wanted
    /\ a.kind = "add_all" => Offering \subseteq wanted

\* Everything on the way to the server's registry is wanted.
Traced(c) ==
    /\ request[c].op = "chat" => place[c] = Web
    /\ pc[c] = "idle" => left[c] = {}
    /\ pc[c] \in {"load", "remote"} => request[c].op \in {"catalog", "add", "chat"}
    /\ pc[c] \in {"think", "act"} => request[c].op = "chat"
    /\ pc[c] \in {"next", "nexting"} => request[c].op \in {"chat", "next"}
    /\ pc[c] = "make" => first(left[c]) \subseteq Pack
    /\ pc[c] # "idle" /\ place[c] = Web =>
          /\ wants(request[c]) \subseteq wanted /\ left[c] \subseteq wanted
          /\ pc[c] \in {"next", "nexting", "act"} /\ request[c].op = "chat" => Sought(c, act[c])
          /\ pc[c] = "think" => Sought(c, intent[c])

\* The inductive invariant behind OnlyAsked.
ChatInv == TypeOK /\ OnlyAsked /\ \A c \in Person : Traced(c)

answered(c, op) == outcome[c] = "answered" /\ request[c].op = op
adding(c) == act[c].kind \in {"add_one", "add_all"}

\* What a request that was answered should have added.
Due(c) ==
    IF answered(c, "add") THEN {request[c].name}
    ELSE IF answered(c, "chat") /\ act[c].kind = "add_all" THEN Own
    ELSE IF answered(c, "chat") /\ adding(c) THEN {act[c].target}
    ELSE {}

\* An answer keeps its word, whoever loads the catalog or adds the same packs
\* meanwhile: what it lists is registered; of the packs that the community
\* catalog leaves built in none is missing that the request was to add; and the
\* plan of a chat has whatever the answer lists.
AnswerKept ==
    \A c \in Person : outcome[c] = "answered" =>
       /\ added[c] \cup (Due(c) \cap Own) \subseteq packs(c)
       /\ answered(c, "chat") /\ adding(c) => added[c] \subseteq plan[c]

asksFor(r, o) ==
    \/ r.op = "add" /\ r.name = o
    \/ r.op = "chat" /\ (r.message.all \/ (r.message.named = {o} /\ ~r.message.search))

\* Requests that meet over the registry fail each other, but only for a while:
\* who asks for a built-in app, and asks again when there is no answer, gets it
\* registered, also when the community catalog is out of reach and the server
\* is restarted, unless they give up and ask for something else.
EveryAddLands ==
    \A c \in Person, o \in Own :
       (pc[c] # "idle" /\ place[c] = Web /\ asksFor(request[c], o)) ~>
          (o \in registry[Web] \/ place[c] # Web \/ ~asksFor(request[c], o))

-----------------------------------------------------------------------------
(* The inductive invariant behind AnswerKept.                               *)

Later == {"next", "nexting", "act", "install", "make", "gather", "gathering"}

\* What a request should add, once it is known.
Goal(c) ==
    CASE request[c].op = "add" -> {request[c].name}
      [] request[c].op = "chat" -> IF act[c].kind = "add_all" THEN Own
                                   ELSE IF adding(c) THEN {act[c].target} ELSE {}
      [] OTHER -> {}

Entries(t) == {t[i][1] : i \in DOMAIN t}
OwnAreBuiltin(t) == \A i \in DOMAIN t : t[i][1] \in Own => t[i][2] = "builtin"

\* The catalog of a request that has loaded it lists all of ours, whoever
\* loads it again.
ShowsOwn(c) ==
    /\ pc[c] = "load" => Own \subseteq list_offerings(c) \cup Entries(todo[c])
    /\ \/ pc[c] \in {"remote", "think"}
       \/ pc[c] \in {"next", "nexting", "act"} /\ request[c].op = "chat"
       => Own \subseteq list_offerings(c)
    /\ OwnAreBuiltin(todo[c])

\* What is added stays, what is due is there or left, and the plan has it.
Keeping(c) ==
    /\ place[c] \in {Web, c}
    /\ pc[c] # "idle" => outcome[c] # "answered"
    /\ left[c] # {} => pc[c] \in {"install", "make"}
    /\ pc[c] # "idle" \/ outcome[c] = "answered" => added[c] \subseteq packs(c)
    /\ pc[c] \in {"install", "make", "gather", "gathering"} \/ outcome[c] = "answered" =>
          Goal(c) \cap Own \subseteq packs(c) \cup left[c]
    /\ pc[c] = "gathering" => added[c] \subseteq seen[c]
    /\ answered(c, "chat") /\ adding(c) => added[c] \subseteq plan[c]

\* The model's words are shown only with the action they name, or where they
\* offer an app that nobody named and nothing is done.  (Whether that app can be
\* added is another matter: the answer then carries the reason.)
Fitting(c) ==
    request[c].op = "chat" /\ (pc[c] \in Later \/ outcome[c] = "answered") =>
       reply[c] = act[c] \/ (act[c] = NoIntent /\ reply[c].kind = "add_one")

OwnSources == \A p \in Process, o \in Own : offerings[p][o] \in {"builtin", None}

Kept(c) == ShowsOwn(c) /\ Keeping(c) /\ Fitting(c)

KeptInv == OwnSources /\ \A c \in Person : Kept(c)
=============================================================================
