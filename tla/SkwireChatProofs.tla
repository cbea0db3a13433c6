-------------------------- MODULE SkwireChatProofs --------------------------
(***************************************************************************)
(* Proofs about SkwireChat, for any people, offerings, packs and words.      *)
(***************************************************************************)
EXTENDS SkwireChat, TLAPS

-----------------------------------------------------------------------------
(* The types, by what a step leaves alone.                                  *)

Phases == {"idle", "load", "remote", "think", "next", "nexting", "act",
           "install", "make", "gather", "gathering"}

RequestTypes ==
    /\ pc \in [Person -> Phases] /\ place \in [Person -> Process] /\ request \in [Person -> Request]
    /\ todo \in [Person -> Catalog] /\ left \in [Person -> SUBSET Offering]
    /\ seen \in [Person -> SUBSET Pack]
    /\ outcome \in [Person -> {"none", "answered", "raised"}]

TalkTypes == intent \in [Person -> Action] /\ act \in [Person -> Action] /\ reply \in [Person -> Action]

AnswerTypes ==
    /\ added \in [Person -> SUBSET Offering] /\ plan \in [Person -> SUBSET Pack]
    /\ step \in [Person -> {"none", "catalog", "add", "up", "doctor"}]

SharedTypes ==
    /\ registry \in [Process -> SUBSET Pack]
    /\ offerings \in [Process -> [Offering -> Source \cup {None}]]

BoundTypes == requests \in 0 .. MaxRequests /\ restarts \in 0 .. MaxRestarts

HistoryTypes == asked \subseteq Offering /\ swept \in BOOLEAN

LEMMA SameTypes ==
    ASSUME TypeOK
    PROVE  /\ UNCHANGED talk => TalkTypes'
           /\ UNCHANGED answer => AnswerTypes'
           /\ UNCHANGED shared => SharedTypes'
           /\ UNCHANGED bounds => BoundTypes'
           /\ UNCHANGED history => HistoryTypes' /\ wanted' = wanted
           /\ wanted \subseteq Offering
BY DEF TypeOK, TalkTypes, AnswerTypes, SharedTypes, BoundTypes, HistoryTypes, wanted,
       talk, answer, shared, bounds, history

LEMMA RequestFacts ==
    ASSUME NEW r \in Request
    PROVE  /\ wants(r) \subseteq Offering
           /\ r.op \in {"chat", "add", "catalog", "plan", "next"}
           /\ r.op = "add" => r.name \in Offering /\ wants(r) = {r.name}
           /\ r.op = "chat" =>
                 /\ r.message \in Message
                 /\ wants(r) = IF r.message.all THEN Offering ELSE r.message.named \cup r.message.hinted
<1>1. CASE r \in [op : {"chat"}, message : Messages]
  <2>1. r.op = "chat" /\ r.message \in Message
    BY <1>1, ChatAssumption
  <2> QED
    BY <2>1 DEF wants, Message
<1>2. CASE r \in [op : {"add"}, name : Offering]
  BY <1>2 DEF wants
<1>3. CASE r \in [op : {"catalog", "plan", "next"}]
  BY <1>3 DEF wants
<1> QED
  BY <1>1, <1>2, <1>3 DEF Request

LEMMA NoIntentFacts == NoIntent \in Action /\ NoIntent.kind = "none"
BY DEF NoIntent, Action

-----------------------------------------------------------------------------
(* What a step of one person has to keep.                                   *)

Others(c) == \A d \in Person \ {c} :
    /\ pc'[d] = pc[d] /\ place'[d] = place[d] /\ request'[d] = request[d] /\ left'[d] = left[d]
    /\ intent'[d] = intent[d] /\ act'[d] = act[d]

LEMMA StepKeeps ==
    ASSUME ChatInv, NEW c \in Person, Others(c), Traced(c)',
           RequestTypes', TalkTypes', AnswerTypes', SharedTypes', BoundTypes',
           wanted \subseteq wanted', HistoryTypes',
           registry'[Web] \subseteq EntryPoints \cup wanted'
    PROVE  ChatInv'
<1>1. TypeOK'
  BY DEF TypeOK, RequestTypes, TalkTypes, AnswerTypes, SharedTypes, BoundTypes, HistoryTypes, Phases
<1>2. OnlyAsked'
  BY DEF OnlyAsked
<1>3. ASSUME NEW d \in Person \ {c} PROVE Traced(d)'
  <2>1. Traced(d)
    BY DEF ChatInv
  <2>2. /\ pc'[d] = pc[d] /\ place'[d] = place[d] /\ request'[d] = request[d] /\ left'[d] = left[d]
        /\ intent'[d] = intent[d] /\ act'[d] = act[d]
    BY DEF Others
  <2>3. wants(request[d])' = wants(request[d]) /\ first(left[d])' = first(left[d])
    BY <2>2 DEF wants, first
  <2> QED
    BY <2>1, <2>2, <2>3 DEF Traced, Sought
<1> QED
  BY <1>1, <1>2, <1>3 DEF ChatInv

\* A step that leaves the packs and the people's wishes alone.
LEMMA QuietKeeps ==
    ASSUME ChatInv, NEW c \in Person, Others(c), Traced(c)',
           RequestTypes', TalkTypes', AnswerTypes', SharedTypes',
           UNCHANGED <<bounds, history, registry>>
    PROVE  ChatInv'
<1>1. TypeOK /\ OnlyAsked
  BY DEF ChatInv
<1>2. BoundTypes' /\ HistoryTypes'
  BY <1>1, SameTypes DEF TypeOK
<1>3. wanted' = wanted /\ registry'[Web] \subseteq EntryPoints \cup wanted'
  BY <1>1, SameTypes DEF OnlyAsked
<1> QED
  BY <1>2, <1>3, StepKeeps

LEMMA EndFacts ==
    ASSUME TypeOK, NEW c \in Person, NEW how \in {"answered", "raised"}, End(c, how)
    PROVE  /\ RequestTypes' /\ intent' \in [Person -> Action]
           /\ pc'[c] = "idle" /\ left'[c] = {} /\ UNCHANGED <<place, request>>
           /\ \A d \in Person \ {c} :
                 /\ pc'[d] = pc[d] /\ place'[d] = place[d] /\ request'[d] = request[d]
                 /\ left'[d] = left[d] /\ intent'[d] = intent[d]
<1>1. <<>> \in Catalog
  BY DEF Catalog
<1>2. /\ pc' \in [Person -> Phases] /\ place' = place /\ request' = request
      /\ left' \in [Person -> SUBSET Offering] /\ seen' \in [Person -> SUBSET Pack]
      /\ outcome' \in [Person -> {"none", "answered", "raised"}]
      /\ pc'[c] = "idle" /\ left'[c] = {}
      /\ \A d \in Person \ {c} : pc'[d] = pc[d] /\ left'[d] = left[d]
  BY DEF End, Goto, TypeOK, Phases
<1>3. todo' \in [Person -> Catalog]
  BY <1>1 DEF End, TypeOK
<1>4. intent' \in [Person -> Action] /\ \A d \in Person \ {c} : intent'[d] = intent[d]
  BY NoIntentFacts DEF End, TypeOK
<1> QED
  BY <1>2, <1>3, <1>4 DEF RequestTypes, TypeOK

\* A request that ends.
LEMMA EndKeeps ==
    ASSUME ChatInv, NEW c \in Person, NEW how \in {"answered", "raised"}, End(c, how),
           UNCHANGED <<act, reply, registry, bounds, history>>, AnswerTypes', SharedTypes'
    PROVE  ChatInv'
<1>1. TypeOK
  BY DEF ChatInv
<1>2. /\ RequestTypes' /\ intent' \in [Person -> Action]
      /\ pc'[c] = "idle" /\ left'[c] = {} /\ UNCHANGED <<place, request>>
      /\ \A d \in Person \ {c} :
            /\ pc'[d] = pc[d] /\ place'[d] = place[d] /\ request'[d] = request[d]
            /\ left'[d] = left[d] /\ intent'[d] = intent[d]
  BY <1>1, EndFacts
<1>3. TalkTypes'
  BY <1>1, <1>2 DEF TalkTypes, TypeOK
<1>4. Traced(c)
  BY DEF ChatInv
<1>5. Traced(c)' /\ Others(c)
  BY <1>2, <1>4 DEF Traced, Others
<1> QED
  BY <1>2, <1>3, <1>5, QuietKeeps

LEMMA RaiseKeeps ==
    ASSUME ChatInv, NEW c \in Person, Raise(c), UNCHANGED <<shared, bounds, history>>
    PROVE  ChatInv'
<1>1. TypeOK
  BY DEF ChatInv
<1>2. AnswerTypes' /\ SharedTypes'
  BY <1>1, SameTypes DEF Raise
<1> QED
  BY <1>2, EndKeeps DEF Raise, shared

\* A request that goes on to p with the offerings L, and nothing else of what it
\* may install.
LEMMA GotoKeeps ==
    ASSUME ChatInv, NEW c \in Person, NEW p \in Phases \ {"idle", "load", "think", "next", "nexting", "act"},
           p = "remote" => pc[c] = "load", p = "make" => first(left'[c]) \subseteq Pack,
           Goto(c, p), pc[c] # "idle", UNCHANGED <<place, request, intent, act, registry, bounds, history>>,
           left' \in [Person -> SUBSET Offering], \A d \in Person \ {c} : left'[d] = left[d],
           place[c] = Web => left'[c] \subseteq wanted,
           todo' \in [Person -> Catalog], seen' \in [Person -> SUBSET Pack],
           UNCHANGED outcome, UNCHANGED reply, AnswerTypes', SharedTypes'
    PROVE  ChatInv'
<1>1. TypeOK /\ Traced(c)
  BY DEF ChatInv
<1>2. pc' \in [Person -> Phases] /\ pc'[c] = p /\ \A d \in Person \ {c} : pc'[d] = pc[d]
  BY <1>1 DEF Goto, TypeOK, Phases
<1>3. RequestTypes' /\ TalkTypes'
  BY <1>1, <1>2 DEF RequestTypes, TalkTypes, TypeOK
<1>4. Others(c)
  BY <1>2 DEF Others
<1>5. /\ wants(request[c])' = wants(request[c]) /\ first(left[c])' = first(left'[c])
      /\ wanted' = wanted
  BY <1>1, SameTypes DEF wants, first
<1>6. Traced(c)'
  BY <1>1, <1>2, <1>5 DEF Traced
<1> QED
  BY <1>3, <1>4, <1>6, QuietKeeps

-----------------------------------------------------------------------------
(* Requests come in.                                                        *)

LEMMA BeginFacts ==
    ASSUME TypeOK, NEW c \in Person, NEW p \in {Web, c}, NEW r \in Request, Begin(c, p, r)
    PROVE  /\ RequestTypes' /\ TalkTypes' /\ AnswerTypes' /\ Others(c)
           /\ pc'[c] \in {"gather", "next", "load"} /\ (pc'[c] = "next" => r.op = "next")
           /\ pc'[c] = "load" => r.op \in {"catalog", "add", "chat"}
           /\ place'[c] = p /\ request'[c] = r /\ left' = left
<1>1. <<>> \in Catalog /\ Builtin \in Catalog
  BY ChatAssumption DEF Catalog
<1>2. todo' \in [Person -> Catalog]
  BY <1>1 DEF Begin, TypeOK
<1> DEFINE next == CASE r.op = "plan" -> "gather" [] r.op = "next" -> "next" [] OTHER -> "load"
<1>3. /\ next \in {"gather", "next", "load"} /\ (next = "next" => r.op = "next")
      /\ next = "load" => r.op \in {"catalog", "add", "chat"}
  BY RequestFacts
<1>4. pc' = [pc EXCEPT ![c] = next]
  BY DEF Begin, Goto
<1> HIDE DEF next
<1>5. pc' \in [Person -> Phases] /\ pc'[c] = next /\ \A d \in Person \ {c} : pc'[d] = pc[d]
  BY <1>3, <1>4 DEF TypeOK, Phases
<1>6. p \in Process
  BY DEF Process
<1>7. /\ place' \in [Person -> Process] /\ place'[c] = p
      /\ request' \in [Person -> Request] /\ request'[c] = r
      /\ outcome' \in [Person -> {"none", "answered", "raised"}]
      /\ \A d \in Person \ {c} : place'[d] = place[d] /\ request'[d] = request[d]
  BY <1>6 DEF Begin, TypeOK
<1>8. UNCHANGED <<left, seen, intent, act, reply>>
  BY DEF Begin, talk
<1>9. AnswerTypes'
  BY DEF Begin, TypeOK, AnswerTypes
<1>10. RequestTypes' /\ TalkTypes'
  BY <1>2, <1>5, <1>7, <1>8 DEF RequestTypes, TalkTypes, TypeOK
<1>11. Others(c)
  BY <1>5, <1>7, <1>8 DEF Others
<1> QED
  BY <1>3, <1>5, <1>7, <1>8, <1>9, <1>10, <1>11

\* The server takes a request.
LEMMA TakeKeeps ==
    ASSUME ChatInv, NEW c \in Person, NEW r \in Request, Begin(c, Web, r), pc[c] = "idle",
           asked' = asked \cup wants(r), UNCHANGED <<shared, swept>>, BoundTypes'
    PROVE  ChatInv'
<1>1. TypeOK /\ OnlyAsked /\ Traced(c)
  BY DEF ChatInv
<1>2. /\ RequestTypes' /\ TalkTypes' /\ AnswerTypes' /\ Others(c)
      /\ pc'[c] \in {"gather", "next", "load"} /\ (pc'[c] = "next" => r.op = "next")
      /\ pc'[c] = "load" => r.op \in {"catalog", "add", "chat"}
      /\ place'[c] = Web /\ request'[c] = r /\ left' = left
  BY <1>1, BeginFacts
<1>3. wanted \subseteq wanted' /\ HistoryTypes' /\ wants(r) \subseteq wanted'
  BY <1>1, RequestFacts DEF TypeOK, HistoryTypes, wanted
<1>4. SharedTypes' /\ registry'[Web] \subseteq EntryPoints \cup wanted'
  BY <1>1, <1>3, SameTypes DEF OnlyAsked, shared
<1>5. Traced(c)'
  <2>1. wants(request[c])' = wants(r)
    BY <1>2 DEF wants
  <2>2. left'[c] = {}
    BY <1>1, <1>2 DEF Traced
  <2> QED
    BY <1>2, <1>3, <2>1, <2>2 DEF Traced
<1> QED
  BY <1>2, <1>3, <1>4, <1>5, StepKeeps

LEMMA AskKeeps == ASSUME ChatInv, NEW c \in Person, Ask(c) PROVE ChatInv'
<1>1. BoundTypes'
  BY ChatAssumption DEF Ask, ChatInv, TypeOK, BoundTypes
<1> QED
  BY <1>1, TakeKeeps DEF Ask

LEMMA RepeatKeeps == ASSUME ChatInv, NEW c \in Person, Repeat(c) PROVE ChatInv'
<1>1. BoundTypes' /\ request[c] \in Request
  BY DEF Repeat, ChatInv, TypeOK, BoundTypes, bounds
<1> QED
  BY <1>1, TakeKeeps DEF Repeat

\* A command does not touch the server.
LEMMA CommandKeeps == ASSUME ChatInv, NEW c \in Person, Command(c) PROVE ChatInv'
<1>1. TypeOK /\ OnlyAsked /\ Traced(c) /\ pc[c] = "idle" /\ c # Web
  BY ChatAssumption DEF ChatInv, Command
<1>2. PICK r \in Request : r.op # "chat" /\ Begin(c, c, r)
  BY DEF Command
<1>3. /\ RequestTypes' /\ TalkTypes' /\ AnswerTypes' /\ Others(c)
      /\ pc'[c] \in {"gather", "next", "load"} /\ (pc'[c] = "next" => r.op = "next")
      /\ pc'[c] = "load" => r.op \in {"catalog", "add", "chat"}
      /\ place'[c] = c /\ request'[c] = r /\ left' = left
  BY <1>1, <1>2, BeginFacts
<1>4. SharedTypes' /\ registry'[Web] = registry[Web]
  <2>1. EntryPoints \subseteq Pack /\ NoCatalog \in [Offering -> Source \cup {None}]
    BY ChatAssumption DEF NoCatalog
  <2> QED
    BY <1>1, <2>1 DEF Command, TypeOK, SharedTypes, Process
<1>5. BoundTypes' /\ HistoryTypes' /\ wanted' = wanted
  BY <1>1, ChatAssumption, SameTypes DEF Command, TypeOK, BoundTypes
<1>6. Traced(c)'
  BY <1>1, <1>2, <1>3 DEF Traced
<1> QED
  BY <1>1, <1>3, <1>4, <1>5, <1>6, StepKeeps DEF OnlyAsked, TypeOK

-----------------------------------------------------------------------------
(* The catalog.                                                             *)

LEMMA CatalogFacts ==
    ASSUME NEW t \in Catalog, t # <<>>
    PROVE  Tail(t) \in Catalog /\ Head(t)[1] \in Offering /\ Head(t)[2] \in Source
<1>1. Head(t) \in Offering \X Source /\ Tail(t) \in Seq(Offering \X Source)
  BY DEF Catalog
<1> QED
  BY <1>1 DEF Catalog

LEMMA register_offeringKeeps ==
    ASSUME ChatInv, NEW c \in Person, register_offering(c) PROVE ChatInv'
<1>1. TypeOK /\ Traced(c)
  BY DEF ChatInv
<1>2. /\ UNCHANGED <<registry, pc, place, request, left, seen, outcome, bounds, history>>
      /\ UNCHANGED <<intent, act, reply>> /\ UNCHANGED answer
  BY DEF register_offering, talk
<1>3. Tail(todo[c]) \in Catalog /\ Head(todo[c])[1] \in Offering /\ Head(todo[c])[2] \in Source
  BY <1>1, CatalogFacts DEF register_offering, TypeOK
<1>4. todo' \in [Person -> Catalog]
  BY <1>1, <1>3 DEF register_offering, TypeOK
<1>5. SharedTypes'
  <2> DEFINE o == Head(todo[c])[1]
             v == Head(todo[c])[2]
             e == [offerings[place[c]] EXCEPT ![o] = v]
  <2>1. offerings' = [offerings EXCEPT ![place[c]] = e]
    BY DEF register_offering
  <2>2. e \in [Offering -> Source \cup {None}]
    <3>1. offerings[place[c]] \in [Offering -> Source \cup {None}] /\ o \in Offering /\ v \in Source
      BY <1>1, <1>3 DEF TypeOK
    <3> HIDE DEF o, v
    <3> QED
      BY <3>1
  <2> HIDE DEF e
  <2> QED
    BY <1>1, <1>2, <2>1, <2>2 DEF SharedTypes, TypeOK
<1>6. RequestTypes' /\ TalkTypes' /\ AnswerTypes'
  BY <1>1, <1>2, <1>4, SameTypes DEF RequestTypes, TalkTypes, TypeOK, Phases
<1>7. Others(c)
  BY <1>2 DEF Others
<1>8. Traced(c)'
  <2>1. wants(request[c])' = wants(request[c]) /\ wanted' = wanted
    BY <1>1, <1>2, SameTypes DEF wants
  <2> QED
    BY <1>1, <1>2, <2>1 DEF Traced, Sought
<1> QED
  BY <1>2, <1>5, <1>6, <1>7, <1>8, QuietKeeps

LEMMA load_remote_catalogKeeps ==
    ASSUME ChatInv, NEW c \in Person, load_remote_catalog(c) PROVE ChatInv'
<1>1. TypeOK /\ Traced(c) /\ pc[c] = "load"
  BY DEF ChatInv, load_remote_catalog
<1>2. <<>> \in Catalog
  BY DEF Catalog
<1>3. todo' \in [Person -> Catalog]
  BY <1>1, <1>2, ChatAssumption DEF load_remote_catalog, TypeOK
<1>4. /\ Goto(c, "remote") /\ "remote" \in Phases
      /\ UNCHANGED <<shared, place, request, left, seen, outcome, answer, bounds, history>>
      /\ UNCHANGED <<intent, act, reply>> /\ UNCHANGED registry
  BY DEF load_remote_catalog, talk, shared, Phases
<1>5. /\ left' \in [Person -> SUBSET Offering] /\ \A d \in Person \ {c} : left'[d] = left[d]
      /\ place[c] = Web => left'[c] \subseteq wanted
      /\ seen' \in [Person -> SUBSET Pack] /\ AnswerTypes' /\ SharedTypes'
  BY <1>1, <1>4, SameTypes DEF TypeOK, Traced
<1> QED
  BY <1>1, <1>3, <1>4, <1>5, GotoKeeps

-----------------------------------------------------------------------------
(* What the words mean.                                                     *)

\* The router never finds more in the words than is there.
LEMMA InterpretFacts ==
    ASSUME TypeOK, NEW c \in Person, NEW m \in Message, NEW i \in interpret(c, m)
    PROVE  /\ i \in Action
           /\ i.kind = "add_one" => i.target \in m.named \cup m.hinted
           /\ i.kind = "add_all" => m.all
<1> DEFINE named == m.named \cap list_offerings(c)
           hinted == m.hinted \cap list_offerings(c)
<1>1. \A kind \in {"add_one", "add_all", "search", "plan", "none", "unknown"},
         o \in Offering \cup {None} :
         do(kind, o) \in Action /\ do(kind, o).kind = kind /\ do(kind, o).target = o
  BY DEF do, Action
<1>2. m.named \subseteq Offering /\ m.hinted \subseteq Offering
  BY DEF Message
<1>3. first(named) \subseteq named
  BY DEF first
<1>4. \/ m.all /\ i = do("add_all", None)
      \/ i \in {do("search", None), do("plan", None), do("unknown", None)}
      \/ \E o \in named \cup hinted : i = do("add_one", o)
  BY <1>3 DEF interpret
<1> QED
  BY <1>1, <1>2, <1>4

\* What is done is what was wanted, or everything, where the model answers so to
\* words that the router does not know.
LEMMA DecideFacts ==
    ASSUME NEW i \in Action, NEW a \in Answers \cup {NoAnswer}, NEW c \in Person, Sought(c, i)
    PROVE  /\ decide(i, a)[1] \in Action /\ decide(i, a)[2] \in Action
           /\ Sought(c, decide(i, a)[1]) \/ (i.kind = "unknown" /\ decide(i, a)[1].kind = "add_all")
<1>1. a # NoAnswer => a \in Action
  BY ChatAssumption
<1>2. CASE i.kind # "unknown"
  BY <1>1, <1>2 DEF decide, agrees
<1>3. CASE i.kind = "unknown" /\ a = NoAnswer
  BY <1>3 DEF decide
<1>4. CASE i.kind = "unknown" /\ a # NoAnswer /\ a.kind = "add_one"
  BY <1>1, <1>4, NoIntentFacts DEF decide, Sought
<1>5. CASE i.kind = "unknown" /\ a # NoAnswer /\ a.kind # "add_one"
  BY <1>1, <1>5 DEF decide, Sought
<1> QED
  BY <1>2, <1>3, <1>4, <1>5

LEMMA LoadedKeeps == ASSUME ChatInv, NEW c \in Person, Loaded(c) PROVE ChatInv'
<1>1. TypeOK /\ Traced(c) /\ pc[c] = "remote" /\ request[c] \in Request
  BY DEF ChatInv, Loaded, TypeOK
<1>2. UNCHANGED <<shared, answer, bounds, history, registry>> /\ AnswerTypes' /\ SharedTypes'
  BY <1>1, SameTypes DEF Loaded, shared
<1>3. request[c].op \in {"catalog", "add", "chat"}
  BY <1>1 DEF Traced
<1>4. CASE request[c].op = "catalog"
  BY <1>2, <1>4, EndKeeps DEF Loaded
<1>5. CASE request[c].op = "add"
  <2>1. /\ Goto(c, "install") /\ left' = [left EXCEPT ![c] = {request[c].name}]
        /\ UNCHANGED <<place, request, todo, seen, outcome, talk>>
    BY <1>5 DEF Loaded
  <2>2. request[c].name \in Offering /\ wants(request[c]) = {request[c].name}
    BY <1>1, <1>5, RequestFacts
  <2>3. /\ left' \in [Person -> SUBSET Offering] /\ \A d \in Person \ {c} : left'[d] = left[d]
        /\ place[c] = Web => left'[c] \subseteq wanted
    BY <1>1, <2>1, <2>2 DEF TypeOK, Traced
  <2>4. UNCHANGED <<intent, act, reply>> /\ todo' \in [Person -> Catalog] /\ seen' \in [Person -> SUBSET Pack]
    BY <1>1, <2>1 DEF talk, TypeOK
  <2>5. "install" \in Phases
    BY DEF Phases
  <2> QED
    BY <1>1, <1>2, <2>1, <2>3, <2>4, <2>5, GotoKeeps
<1>6. CASE request[c].op = "chat"
  <2>1. PICK i \in interpret(c, request[c].message) :
           /\ Goto(c, "think") /\ intent' = [intent EXCEPT ![c] = i]
           /\ UNCHANGED <<place, request, todo, left, seen, outcome, act, reply>>
    BY <1>6 DEF Loaded
  <2>2. /\ request[c].message \in Message
        /\ wants(request[c]) = IF request[c].message.all THEN Offering
                               ELSE request[c].message.named \cup request[c].message.hinted
    BY <1>1, <1>6, RequestFacts
  <2>3. /\ i \in Action
        /\ i.kind = "add_one" => i.target \in request[c].message.named \cup request[c].message.hinted
        /\ i.kind = "add_all" => request[c].message.all
    BY <1>1, <2>1, <2>2, InterpretFacts
  <2>4. /\ pc' \in [Person -> Phases] /\ pc'[c] = "think" /\ \A d \in Person \ {c} : pc'[d] = pc[d]
        /\ intent' \in [Person -> Action] /\ intent'[c] = i /\ \A d \in Person \ {c} : intent'[d] = intent[d]
    BY <1>1, <2>1, <2>3 DEF Goto, TypeOK, Phases
  <2>5. RequestTypes' /\ TalkTypes' /\ Others(c)
    BY <1>1, <2>1, <2>4 DEF TypeOK, RequestTypes, TalkTypes, Others
  <2>6. Traced(c)'
    <3>1. wants(request[c])' = wants(request[c]) /\ wanted' = wanted
      BY <1>1, <1>2, <2>1, SameTypes DEF wants
    <3>2. place[c] = Web => wants(request[c]) \subseteq wanted
      BY <1>1 DEF Traced
    <3>3. request[c].message.all => Offering = wants(request[c])
      BY <2>2
    <3>4. ~request[c].message.all =>
             request[c].message.named \cup request[c].message.hinted = wants(request[c])
      BY <2>2
    <3>5. place[c] = Web => Sought(c, i)
      <4>1. i.kind = "add_one" => i.target \in Offering
        BY <2>2, <2>3 DEF Message
      <4> QED
        BY <2>3, <3>2, <3>3, <3>4, <4>1 DEF Sought
    <3> QED
      BY <1>1, <1>2, <1>6, <2>1, <2>4, <3>1, <3>2, <3>5 DEF Traced, Sought
  <2> QED
    BY <1>2, <2>5, <2>6, QuietKeeps
<1> QED
  BY <1>3, <1>4, <1>5, <1>6

LEMMA ConverseKeeps == ASSUME ChatInv, NEW c \in Person, Converse(c) PROVE ChatInv'
<1>1. TypeOK /\ OnlyAsked /\ Traced(c) /\ pc[c] = "think" /\ intent[c] \in Action
  BY DEF ChatInv, Converse, TypeOK
<1>2. PICK a \in Answers \cup {NoAnswer} :
         /\ act' = [act EXCEPT ![c] = decide(intent[c], a)[1]]
         /\ reply' = [reply EXCEPT ![c] = decide(intent[c], a)[2]]
         /\ swept' = (swept \/ (intent[c].kind = "unknown" /\ decide(intent[c], a)[1].kind = "add_all"))
  BY DEF Converse
<1> DEFINE d1 == decide(intent[c], a)[1]
           d2 == decide(intent[c], a)[2]
<1>3. UNCHANGED <<shared, place, request, todo, left, seen, outcome, intent, answer, bounds, asked>>
  BY DEF Converse
<1>4. /\ wanted \subseteq wanted' /\ HistoryTypes'
      /\ intent[c].kind = "unknown" /\ d1.kind = "add_all" => Offering \subseteq wanted'
  BY <1>1, <1>2, <1>3 DEF TypeOK, HistoryTypes, wanted
<1>5. /\ d1 \in Action /\ d2 \in Action
      /\ place[c] = Web => /\ d1.kind = "add_one" => d1.target \in wanted'
                           /\ d1.kind = "add_all" => Offering \subseteq wanted'
  <2>1. CASE Sought(c, intent[c])
    <3>1. /\ d1 \in Action /\ d2 \in Action
          /\ Sought(c, d1) \/ (intent[c].kind = "unknown" /\ d1.kind = "add_all")
      <4>1. PICK i \in Action : i = intent[c]
        BY <1>1
      <4>2. /\ decide(i, a)[1] \in Action /\ decide(i, a)[2] \in Action
            /\ Sought(c, decide(i, a)[1]) \/ (i.kind = "unknown" /\ decide(i, a)[1].kind = "add_all")
        BY <2>1, <4>1, DecideFacts
      <4> QED
        BY <4>1, <4>2
    <3> QED
      BY <1>2, <1>4, <3>1 DEF Sought
  <2>2. CASE ~Sought(c, intent[c])
    <3>1. place[c] # Web
      BY <1>1, <2>2 DEF Traced
    <3>2. intent[c].kind # "unknown"
      BY <2>2 DEF Sought
    <3>3. d1 \in Action /\ d2 \in Action
      BY <1>1, <3>2, ChatAssumption DEF decide, agrees
    <3> QED
      BY <3>1, <3>3
  <2> QED
    BY <2>1, <2>2
<1> HIDE DEF d1, d2
<1>6. /\ act' = [act EXCEPT ![c] = d1] /\ reply' = [reply EXCEPT ![c] = d2]
  BY <1>2 DEF d1, d2
<1>7. /\ pc' \in [Person -> Phases] /\ pc'[c] = "next" /\ \A d \in Person \ {c} : pc'[d] = pc[d]
      /\ act'[c] = d1 /\ \A d \in Person \ {c} : act'[d] = act[d]
  BY <1>1, <1>5, <1>6 DEF Converse, Goto, TypeOK, Phases
<1>8. TalkTypes'
  BY <1>1, <1>3, <1>5, <1>6 DEF TypeOK, TalkTypes
<1>9. RequestTypes' /\ Others(c) /\ AnswerTypes' /\ SharedTypes' /\ BoundTypes'
  BY <1>1, <1>3, <1>7, SameTypes DEF TypeOK, RequestTypes, Others
<1>10. registry'[Web] \subseteq EntryPoints \cup wanted'
  BY <1>1, <1>3, <1>4 DEF OnlyAsked, shared
<1>11. Traced(c)'
  <2>1. wants(request[c])' = wants(request[c])
    BY <1>3 DEF wants
  <2>2. request[c].op = "chat"
    BY <1>1 DEF Traced
  <2> QED
    BY <1>1, <1>3, <1>4, <1>5, <1>7, <2>1, <2>2 DEF Traced, Sought
<1> QED
  BY <1>4, <1>8, <1>9, <1>10, <1>11, StepKeeps

-----------------------------------------------------------------------------
(* The next steps.                                                          *)

\* The step that is suggested leaves what the person seeks as it is.
LEMMA SuggestKeeps ==
    ASSUME ChatInv, NEW c \in Person, NEW s \in {"none", "catalog", "add", "up", "doctor"},
           pc[c] \in {"next", "nexting"}, Suggest(c, s),
           UNCHANGED <<shared, act, reply, added, plan, bounds, history>>
    PROVE  ChatInv'
<1>1. TypeOK /\ Traced(c)
  BY DEF ChatInv
<1>2. UNCHANGED registry /\ SharedTypes'
  BY <1>1, SameTypes DEF shared
<1>3. AnswerTypes'
  BY <1>1 DEF Suggest, TypeOK, AnswerTypes
<1>4. CASE request[c].op = "next"
  BY <1>2, <1>3, <1>4, EndKeeps DEF Suggest
<1>5. CASE request[c].op # "next"
  <2>1. request[c].op = "chat"
    BY <1>1, <1>5 DEF Traced
  <2>2. Goto(c, "act") /\ UNCHANGED <<place, request, todo, left, seen, outcome, intent>>
    BY <1>5 DEF Suggest
  <2>3. pc' \in [Person -> Phases] /\ pc'[c] = "act" /\ \A d \in Person \ {c} : pc'[d] = pc[d]
    BY <1>1, <2>2 DEF Goto, TypeOK, Phases
  <2>4. RequestTypes' /\ TalkTypes' /\ Others(c)
    BY <1>1, <2>2, <2>3 DEF TypeOK, RequestTypes, TalkTypes, Others
  <2>5. wants(request[c])' = wants(request[c]) /\ wanted' = wanted
    BY <1>1, <2>2, SameTypes DEF wants
  <2>6. Traced(c)'
    BY <1>1, <2>1, <2>2, <2>3, <2>5 DEF Traced, Sought
  <2> QED
    BY <1>2, <1>3, <2>4, <2>6, QuietKeeps
<1> QED
  BY <1>4, <1>5

LEMMA next_stepsKeeps == ASSUME ChatInv, NEW c \in Person, next_steps(c) PROVE ChatInv'
<1>1. CASE packs(c) = {}
  BY <1>1, SuggestKeeps DEF next_steps
<1>2. CASE packs(c) # {}
  <2>1. TypeOK /\ Traced(c) /\ pc[c] = "next"
    BY DEF ChatInv, next_steps
  <2>2. /\ Goto(c, "nexting") /\ seen' = [seen EXCEPT ![c] = packs(c)]
        /\ UNCHANGED <<place, request, todo, left, outcome, intent, step>>
        /\ UNCHANGED <<shared, act, reply, added, plan, bounds, history>> /\ UNCHANGED registry
    BY <1>2 DEF next_steps, shared
  <2>3. pc' \in [Person -> Phases] /\ pc'[c] = "nexting" /\ \A d \in Person \ {c} : pc'[d] = pc[d]
    BY <2>1, <2>2 DEF Goto, TypeOK, Phases
  <2>4. packs(c) \subseteq Pack
    BY <2>1 DEF packs, TypeOK
  <2>5. RequestTypes' /\ TalkTypes' /\ AnswerTypes' /\ SharedTypes' /\ Others(c)
    BY <2>1, <2>2, <2>3, <2>4, SameTypes
    DEF TypeOK, RequestTypes, TalkTypes, AnswerTypes, Others
  <2>6. wants(request[c])' = wants(request[c]) /\ wanted' = wanted
    BY <2>1, <2>2, SameTypes DEF wants
  <2>7. Traced(c)'
    BY <2>1, <2>2, <2>3, <2>6 DEF Traced, Sought
  <2> QED
    BY <2>2, <2>5, <2>7, QuietKeeps
<1> QED
  BY <1>1, <1>2

LEMMA RecommendKeeps == ASSUME ChatInv, NEW c \in Person, Recommend(c) PROVE ChatInv'
<1>1. CASE packs(c) # seen[c]
  BY <1>1, RaiseKeeps DEF Recommend
<1>2. CASE packs(c) = seen[c]
  <2>1. PICK s : s = next_step(seen[c], all_nodes(seen[c]))
    OBVIOUS
  <2>2. s \in {"none", "catalog", "add", "up", "doctor"}
    BY <2>1 DEF next_step
  <2>3. /\ pc[c] = "nexting" /\ Suggest(c, s)
        /\ UNCHANGED <<shared, act, reply, added, plan, bounds, history>>
    BY <1>2, <2>1 DEF Recommend
  <2> QED
    BY <2>2, <2>3, SuggestKeeps
<1> QED
  BY <1>1, <1>2

-----------------------------------------------------------------------------
(* Actions.                                                                 *)

\* A request that goes on and changes no more than what is left for it.
LEMMA OnKeeps ==
    ASSUME ChatInv, NEW c \in Person, NEW p \in {"install", "make", "gather"}, pc[c] # "idle",
           Goto(c, p), UNCHANGED <<place, request, todo, seen, outcome, talk, answer>>,
           NEW os \in SUBSET Offering, left' = [left EXCEPT ![c] = os],
           place[c] = Web => os \subseteq wanted, p = "make" => first(os) \subseteq Pack,
           UNCHANGED <<shared, bounds, history>>
    PROVE  ChatInv'
<1>1. TypeOK
  BY DEF ChatInv
<1>2. /\ left' \in [Person -> SUBSET Offering] /\ left'[c] = os
      /\ \A d \in Person \ {c} : left'[d] = left[d]
      /\ UNCHANGED <<place, request, intent, act, registry, bounds, history>> /\ UNCHANGED reply
      /\ todo' \in [Person -> Catalog] /\ seen' \in [Person -> SUBSET Pack]
      /\ AnswerTypes' /\ SharedTypes'
  BY <1>1, SameTypes DEF TypeOK, talk, shared
<1>3. p \in Phases \ {"idle", "load", "think", "next", "nexting", "act"} /\ p # "remote"
  BY DEF Phases
<1> QED
  BY <1>2, <1>3, GotoKeeps

LEMMA SameLeft ==
    ASSUME TypeOK, NEW c \in Person, UNCHANGED left
    PROVE  left' = [left EXCEPT ![c] = left[c]] /\ left[c] \in SUBSET Offering
BY DEF TypeOK

LEMMA _apply_actionKeeps == ASSUME ChatInv, NEW c \in Person, _apply_action(c) PROVE ChatInv'
<1>1. TypeOK /\ Traced(c) /\ pc[c] = "act" /\ act[c] \in Action
  BY DEF ChatInv, _apply_action, TypeOK
<1>2. /\ request[c].op = "chat" /\ place[c] = Web
      /\ Sought(c, act[c]) /\ left[c] \subseteq wanted /\ wanted \subseteq Offering
      /\ UNCHANGED <<shared, bounds, history>>
  BY <1>1, SameTypes DEF Traced, _apply_action
<1>3. CASE act[c].kind = "add_all"
  <2>1. PICK os : os = list_offerings(c)
    OBVIOUS
  <2>2. Install(c, os) /\ os \subseteq Offering
    BY <1>3, <2>1 DEF _apply_action, list_offerings
  <2>3. os \subseteq wanted
    BY <1>2, <1>3, <2>2 DEF Sought
  <2>4. /\ Goto(c, "install") /\ left' = [left EXCEPT ![c] = os]
        /\ UNCHANGED <<place, request, todo, seen, outcome, talk, answer>>
    BY <2>2 DEF Install
  <2> QED
    BY <1>1, <1>2, <2>2, <2>3, <2>4, OnKeeps
<1>4. CASE act[c].kind = "add_one"
  <2>1. PICK os : os = {act[c].target}
    OBVIOUS
  <2>2. os \subseteq wanted /\ os \in SUBSET Offering
    BY <1>2, <1>4, <2>1 DEF Sought
  <2>3. /\ Goto(c, "install") /\ left' = [left EXCEPT ![c] = os]
        /\ UNCHANGED <<place, request, todo, seen, outcome, talk, answer>>
    BY <1>4, <2>1 DEF _apply_action, Install
  <2> QED
    BY <1>1, <1>2, <2>2, <2>3, OnKeeps
<1>5. CASE act[c].kind \in {"plan", "approve"}
  <2>1. Goto(c, "gather") /\ UNCHANGED <<place, request, todo, left, seen, outcome, talk, answer>>
    BY <1>5 DEF _apply_action
  <2> QED
    BY <1>1, <1>2, <2>1, SameLeft, OnKeeps
<1>6. CASE act[c].kind \notin {"add_all", "add_one", "plan", "approve"}
  <2>1. End(c, "answered") /\ UNCHANGED <<act, reply, answer>>
    BY <1>6 DEF _apply_action
  <2> QED
    BY <1>1, <1>2, <2>1, SameTypes, EndKeeps DEF shared
<1> QED
  BY <1>3, <1>4, <1>5, <1>6

\* An offering that is seen to is crossed off.
LEMMA InstalledFacts ==
    ASSUME TypeOK, NEW c \in Person, Traced(c), NEW o \in Offering, NEW ok \in BOOLEAN,
           pc[c] # "idle", Installed(c, o, ok)
    PROVE  /\ pc' = [pc EXCEPT ![c] = "install"]
           /\ left' = [left EXCEPT ![c] = left[c] \ {o}]
           /\ left[c] \ {o} \in SUBSET Offering /\ (place[c] = Web => left[c] \ {o} \subseteq wanted)
           /\ UNCHANGED <<place, request, todo, seen, outcome, intent, act, reply>> /\ AnswerTypes'
<1>1. /\ pc' = [pc EXCEPT ![c] = "install"]
      /\ left' = [left EXCEPT ![c] = left[c] \ {o}]
      /\ UNCHANGED <<place, request, todo, seen, outcome, intent, act, reply>>
  BY DEF Installed, Goto, talk
<1>2. left[c] \in SUBSET Offering /\ (place[c] = Web => left[c] \subseteq wanted)
  BY DEF TypeOK, Traced
<1>3. AnswerTypes'
  BY DEF Installed, TypeOK, AnswerTypes
<1> QED
  BY <1>1, <1>2, <1>3

\* Packs that are registered for person c are among those c has left.
LEMMA InstallingKeeps ==
    ASSUME ChatInv, NEW c \in Person, NEW o \in left[c], NEW ok \in BOOLEAN,
           pc[c] # "idle", Installed(c, o, ok), UNCHANGED <<offerings, bounds, history>>,
           \/ UNCHANGED registry
           \/ o \in Pack /\ registry' = [registry EXCEPT ![place[c]] = @ \cup {o}]
    PROVE  ChatInv'
<1>1. TypeOK /\ OnlyAsked /\ Traced(c) /\ o \in Offering
  BY DEF ChatInv, TypeOK
<1>2. /\ pc' = [pc EXCEPT ![c] = "install"]
      /\ left' = [left EXCEPT ![c] = left[c] \ {o}]
      /\ left[c] \ {o} \in SUBSET Offering /\ (place[c] = Web => left[c] \ {o} \subseteq wanted)
      /\ UNCHANGED <<place, request, todo, seen, outcome, intent, act, reply>> /\ AnswerTypes'
  BY <1>1, InstalledFacts
<1>3. /\ pc' \in [Person -> Phases] /\ pc'[c] = "install"
      /\ left' \in [Person -> SUBSET Offering] /\ left'[c] = left[c] \ {o}
      /\ \A d \in Person \ {c} : pc'[d] = pc[d] /\ left'[d] = left[d]
  BY <1>1, <1>2 DEF TypeOK, Phases
<1>4. RequestTypes' /\ TalkTypes' /\ BoundTypes' /\ Others(c)
  BY <1>1, <1>2, <1>3, SameTypes DEF TypeOK, RequestTypes, TalkTypes, Others
<1>5. wants(request[c])' = wants(request[c]) /\ wanted' = wanted
  BY <1>1, <1>2, SameTypes DEF wants
<1>6. Traced(c)'
  BY <1>1, <1>2, <1>3, <1>5 DEF Traced
<1>7. SharedTypes' /\ registry'[Web] \subseteq EntryPoints \cup wanted
  <2>1. CASE UNCHANGED registry
    BY <1>1, <2>1 DEF TypeOK, SharedTypes, OnlyAsked
  <2>2. CASE o \in Pack /\ registry' = [registry EXCEPT ![place[c]] = @ \cup {o}]
    <3>1. place[c] \in Process /\ registry \in [Process -> SUBSET Pack] /\ Web \in Process
      BY <1>1 DEF TypeOK, Process
    <3>2. registry' \in [Process -> SUBSET Pack]
      BY <2>2, <3>1
    <3>3. CASE place[c] = Web
      <4>1. o \in wanted
        BY <1>1, <3>3 DEF Traced
      <4> QED
        BY <1>1, <2>2, <3>1, <3>2, <3>3, <4>1 DEF OnlyAsked, SharedTypes, TypeOK
    <3>4. CASE place[c] # Web
      BY <1>1, <2>2, <3>1, <3>2, <3>4 DEF OnlyAsked, SharedTypes, TypeOK
    <3> QED
      BY <3>3, <3>4
  <2> QED
    BY <2>1, <2>2
<1>8. wanted' = wanted /\ HistoryTypes'
  BY <1>1, SameTypes
<1> QED
  BY <1>2, <1>4, <1>6, <1>7, <1>8, StepKeeps

LEMMA install_offeringKeeps ==
    ASSUME ChatInv, NEW c \in Person, install_offering(c) PROVE ChatInv'
<1>1. TypeOK /\ Traced(c) /\ pc[c] = "install" /\ UNCHANGED <<shared, bounds, history>>
  BY DEF ChatInv, install_offering
<1>2. PICK o \in first(left[c]) :
         LET source == offerings[place[c]][o]
         IN  IF source = None THEN Raise(c)
             ELSE IF source # "builtin" \/ o \notin Pack THEN Installed(c, o, FALSE)
             ELSE IF o \in packs(c) THEN Installed(c, o, TRUE)
             ELSE Goto(c, "make") /\ UNCHANGED <<place, request, todo, left, seen, outcome, talk, answer>>
  BY DEF install_offering
<1>3. o \in left[c]
  BY <1>2 DEF first
<1> DEFINE source == offerings[place[c]][o]
<1>4. CASE source = None
  BY <1>1, <1>2, <1>4, RaiseKeeps
<1>5. CASE source # None /\ (source # "builtin" \/ o \notin Pack)
  <2>1. Installed(c, o, FALSE)
    BY <1>2, <1>5
  <2> QED
    BY <1>1, <1>3, <2>1, InstallingKeeps DEF shared
<1>6. CASE source # None /\ source = "builtin" /\ o \in Pack /\ o \in packs(c)
  <2>1. Installed(c, o, TRUE)
    BY <1>2, <1>6
  <2> QED
    BY <1>1, <1>3, <2>1, InstallingKeeps DEF shared
<1>7. CASE source # None /\ source = "builtin" /\ o \in Pack /\ o \notin packs(c)
  <2>1. Goto(c, "make") /\ UNCHANGED <<place, request, todo, left, seen, outcome, talk, answer>>
    BY <1>2, <1>7
  <2>2. first(left[c]) \subseteq Pack
    <3>1. left[c] \subseteq Offering
      BY <1>1 DEF TypeOK
    <3>2. ASSUME NEW q \in first(left[c]) PROVE q = o
      <4>1. Rank[q] <= Rank[o] /\ Rank[o] <= Rank[q] /\ q \in Offering /\ o \in Offering
        BY <1>2, <3>1, <3>2 DEF first
      <4> QED
        BY <4>1, ChatAssumption
    <3> QED
      BY <1>7, <3>2
  <2> QED
    BY <1>1, <2>1, <2>2, SameLeft, OnKeeps DEF Traced
<1> QED
  BY <1>4, <1>5, <1>6, <1>7

LEMMA register_packKeeps == ASSUME ChatInv, NEW c \in Person, register_pack(c) PROVE ChatInv'
<1>1. pc[c] = "make" /\ Traced(c) /\ UNCHANGED <<offerings, bounds, history>>
  BY DEF ChatInv, register_pack
<1>2. PICK o \in first(left[c]) :
         IF o \in packs(c) THEN Raise(c) /\ UNCHANGED registry
         ELSE /\ registry' = [registry EXCEPT ![place[c]] = @ \cup {o}]
              /\ Installed(c, o, TRUE)
  BY DEF register_pack
<1>3. o \in left[c] /\ o \in Pack
  BY <1>1, <1>2 DEF first, Traced
<1>4. CASE Raise(c) /\ UNCHANGED registry
  BY <1>1, <1>4, RaiseKeeps DEF shared
<1>5. CASE registry' = [registry EXCEPT ![place[c]] = @ \cup {o}] /\ Installed(c, o, TRUE)
  BY <1>1, <1>3, <1>5, InstallingKeeps
<1> QED
  BY <1>2, <1>4, <1>5

-----------------------------------------------------------------------------
(* The plan.                                                                *)

LEMMA DoneKeeps == ASSUME ChatInv, NEW c \in Person, Done(c) PROVE ChatInv'
<1>1. /\ TypeOK /\ Traced(c) /\ pc[c] = "install" /\ UNCHANGED <<shared, bounds, history>>
      /\ UNCHANGED registry
  BY DEF ChatInv, Done, shared
<1>2. CASE request[c].op = "chat"
  BY <1>1, <1>2, SameLeft, OnKeeps DEF Done, Traced
<1>3. CASE request[c].op # "chat"
  BY <1>1, <1>3, SameTypes, EndKeeps DEF Done
<1> QED
  BY <1>2, <1>3

LEMMA api_planKeeps == ASSUME ChatInv, NEW c \in Person, api_plan(c) PROVE ChatInv'
<1>1. TypeOK /\ Traced(c) /\ pc[c] = "gather"
  BY DEF ChatInv, api_plan
<1>2. /\ Goto(c, "gathering") /\ seen' = [seen EXCEPT ![c] = packs(c)]
      /\ UNCHANGED <<shared, place, request, todo, left, outcome, answer, bounds, history>>
      /\ UNCHANGED <<intent, act, reply, registry>>
  BY DEF api_plan, talk, shared
<1>3. packs(c) \subseteq Pack
  BY <1>1 DEF packs, TypeOK
<1>4. /\ left' \in [Person -> SUBSET Offering] /\ \A d \in Person \ {c} : left'[d] = left[d]
      /\ place[c] = Web => left'[c] \subseteq wanted
      /\ todo' \in [Person -> Catalog] /\ seen' \in [Person -> SUBSET Pack]
      /\ AnswerTypes' /\ SharedTypes'
  BY <1>1, <1>2, <1>3, SameTypes DEF TypeOK, Traced
<1>5. "gathering" \in Phases
  BY DEF Phases
<1> QED
  BY <1>1, <1>2, <1>4, <1>5, GotoKeeps

LEMMA PlannedKeeps == ASSUME ChatInv, NEW c \in Person, Planned(c) PROVE ChatInv'
<1>1. TypeOK /\ UNCHANGED <<shared, bounds, history>> /\ UNCHANGED registry
  BY DEF ChatInv, Planned, shared
<1>2. CASE Raise(c)
  BY <1>1, <1>2, RaiseKeeps
<1>3. CASE /\ plan' = [plan EXCEPT ![c] = seen[c]] /\ End(c, "answered")
           /\ UNCHANGED <<act, reply, added, step>>
  <2>1. AnswerTypes'
    BY <1>1, <1>3 DEF TypeOK, AnswerTypes
  <2> QED
    BY <1>1, <1>3, <2>1, SameTypes, EndKeeps
<1> QED
  BY <1>2, <1>3 DEF Planned

-----------------------------------------------------------------------------
(* A restart of the server.                                                 *)

LEMMA RestartKeeps == ASSUME ChatInv, Restart PROVE ChatInv'
<1>1. TypeOK /\ EntryPoints \subseteq Pack /\ <<>> \in Catalog /\ NoIntent \in Action
  BY ChatAssumption, NoIntentFacts DEF ChatInv, Catalog
<1> DEFINE hit == {c \in Person : place[c] = Web /\ pc[c] # "idle"}
<1>2. /\ pc' = [c \in Person |-> IF c \in hit THEN "idle" ELSE pc[c]]
      /\ outcome' = [c \in Person |-> IF c \in hit THEN "raised"
                         ELSE IF place[c] = Web /\ outcome[c] = "answered" THEN "none" ELSE outcome[c]]
      /\ todo' = [c \in Person |-> IF c \in hit THEN <<>> ELSE todo[c]]
      /\ left' = [c \in Person |-> IF c \in hit THEN {} ELSE left[c]]
      /\ seen' = [c \in Person |-> IF c \in hit THEN {} ELSE seen[c]]
      /\ intent' = [c \in Person |-> IF c \in hit THEN NoIntent ELSE intent[c]]
      /\ UNCHANGED <<place, request, act, reply>> /\ UNCHANGED answer
      /\ asked' = {} /\ swept' = FALSE
  BY DEF Restart
<1>3. RequestTypes' /\ TalkTypes' /\ AnswerTypes' /\ HistoryTypes'
  <2>1. todo' \in [Person -> Catalog]
    BY <1>1, <1>2 DEF TypeOK
  <2>2. intent' \in [Person -> Action]
    BY <1>1, <1>2 DEF TypeOK
  <2> QED
    BY <1>1, <1>2, <2>1, <2>2, SameTypes DEF TypeOK, RequestTypes, TalkTypes, HistoryTypes, Phases
<1>4. SharedTypes' /\ BoundTypes' /\ registry'[Web] = EntryPoints
  <2>1. NoCatalog \in [Offering -> Source \cup {None}] /\ Web \in Process
    BY DEF NoCatalog, Process
  <2>2. registry' = [registry EXCEPT ![Web] = EntryPoints] /\ offerings' = [offerings EXCEPT ![Web] = NoCatalog]
    BY DEF Restart
  <2>3. restarts' \in 0 .. MaxRestarts /\ requests' = requests
    BY <1>1, ChatAssumption DEF Restart, TypeOK
  <2> QED
    BY <1>1, <2>1, <2>2, <2>3 DEF TypeOK, SharedTypes, BoundTypes
<1>5. ASSUME NEW c \in Person PROVE Traced(c)'
  <2>1. Traced(c) /\ place'[c] = place[c] /\ request'[c] = request[c]
    BY <1>2 DEF ChatInv
  <2>2. CASE c \in hit
    <3>1. pc'[c] = "idle" /\ left'[c] = {}
      BY <1>2, <2>2
    <3> QED
      BY <2>1, <3>1 DEF Traced
  <2>3. CASE c \notin hit
    <3>1. /\ pc'[c] = pc[c] /\ left'[c] = left[c] /\ first(left[c])' = first(left[c])
          /\ place[c] # Web \/ pc[c] = "idle"
      BY <1>2, <2>3 DEF first
    <3> QED
      BY <2>1, <3>1 DEF Traced
  <2> QED
    BY <2>2, <2>3
<1> QED
  BY <1>3, <1>4, <1>5
  DEF ChatInv, TypeOK, OnlyAsked, RequestTypes, TalkTypes, AnswerTypes, SharedTypes, BoundTypes, HistoryTypes, Phases

-----------------------------------------------------------------------------
(* The invariant.                                                           *)

LEMMA InitInv == Init => ChatInv
<1> SUFFICES ASSUME Init PROVE ChatInv
  OBVIOUS
<1>1. /\ <<>> \in Catalog /\ NoIntent \in Action /\ EntryPoints \subseteq Pack /\ Idle \in Request
      /\ NoCatalog \in [Offering -> Source \cup {None}] /\ Web \in Process /\ Idle.op = "next"
      /\ MaxRequests \in Nat /\ MaxRestarts \in Nat
  BY ChatAssumption, NoIntentFacts DEF Catalog, Idle, Request, NoCatalog, Process
<1>2. RequestTypes
  <2>1. todo \in [Person -> Catalog] /\ request \in [Person -> Request]
    BY <1>1 DEF Init
  <2> QED
    BY <1>1, <2>1 DEF Init, RequestTypes, Phases
<1>3. TalkTypes
  BY <1>1 DEF Init, TalkTypes
<1>4. AnswerTypes /\ BoundTypes /\ HistoryTypes
  <2>1. asked = {} /\ swept = FALSE
    BY DEF Init
  <2>2. AnswerTypes /\ BoundTypes
    BY <1>1 DEF Init, AnswerTypes, BoundTypes
  <2> QED
    BY <2>1, <2>2 DEF HistoryTypes
<1>5. SharedTypes /\ registry[Web] = EntryPoints
  BY <1>1 DEF Init, SharedTypes
<1>6. ASSUME NEW c \in Person PROVE Traced(c)
  BY <1>1 DEF Init, Traced
<1> QED
  BY <1>2, <1>3, <1>4, <1>5, <1>6
  DEF ChatInv, TypeOK, OnlyAsked, RequestTypes, TalkTypes, AnswerTypes, SharedTypes, BoundTypes, HistoryTypes, Phases

LEMMA NextInv == ChatInv /\ [Next]_vars => ChatInv'
<1> SUFFICES ASSUME ChatInv, [Next]_vars PROVE ChatInv'
  OBVIOUS
<1>1. ASSUME NEW c \in Person, Ask(c) \/ Repeat(c) \/ Command(c) PROVE ChatInv'
  BY <1>1, AskKeeps, RepeatKeeps, CommandKeeps
<1>2. ASSUME NEW c \in Person, Work(c) PROVE ChatInv'
  BY <1>2, register_offeringKeeps, load_remote_catalogKeeps, LoadedKeeps, ConverseKeeps,
     next_stepsKeeps, RecommendKeeps, _apply_actionKeeps, install_offeringKeeps,
     register_packKeeps, DoneKeeps, api_planKeeps, PlannedKeeps DEF Work
<1>3. CASE Restart
  BY <1>3, RestartKeeps
<1>4. CASE UNCHANGED vars
  <2>1. /\ UNCHANGED <<registry, offerings, pc, place, request, todo, left, seen, outcome>>
        /\ UNCHANGED <<intent, act, reply, added, plan, step, requests, restarts, asked, swept>>
    BY <1>4 DEF vars, request_, talk, answer, history
  <2> QED
    BY <2>1 DEF ChatInv, TypeOK, OnlyAsked, Traced, Sought, wants, wanted, first
<1> QED
  BY <1>1, <1>2, <1>3, <1>4 DEF Next

\* The server's bookkeeping is well formed, and whatever is on its way to the
\* registry has been asked for, by hand or in a chat, unless a model has answered
\* add_all to words the router does not know (server.py:83-103,148-155,172-180).
THEOREM ChatInvariant == Spec => []ChatInv
<1>1. Init => ChatInv
  BY InitInv
<1>2. ChatInv /\ [Next]_vars => ChatInv'
  BY NextInv
<1> QED
  BY <1>1, <1>2, PTL DEF Spec

\* However many people ask at once, the server registers only what was there
\* from the start or was asked for, until a model answers add_all to words the
\* router does not know, which is done without anybody asking (server.py:148-155).
THEOREM OnlyTheAskedFor == Spec => []OnlyAsked
<1>1. ChatInv => OnlyAsked
  BY DEF ChatInv
<1> QED
  BY <1>1, ChatInvariant, PTL

-----------------------------------------------------------------------------
(* What an answer says and keeps.                                           *)

\* A step of person c is nobody else's.
Alone(c) == \A d \in Person \ {c} :
    /\ pc'[d] = pc[d] /\ place'[d] = place[d] /\ request'[d] = request[d]
    /\ todo'[d] = todo[d] /\ left'[d] = left[d] /\ seen'[d] = seen[d]
    /\ act'[d] = act[d] /\ reply'[d] = reply[d] /\ outcome'[d] = outcome[d]
    /\ added'[d] = added[d] /\ plan'[d] = plan[d]

\* Process p loses no pack and no entry of its catalog.
Grows(p) ==
    /\ registry[p] \subseteq registry'[p]
    /\ \A o \in Offering : offerings[p][o] # None => offerings'[p][o] # None

LEMMA StepKept ==
    ASSUME KeptInv, NEW c \in Person, Alone(c), \A d \in Person \ {c} : Grows(place[d]),
           OwnSources', Kept(c)'
    PROVE  KeptInv'
<1>1. ASSUME NEW d \in Person \ {c} PROVE Kept(d)'
  <2>1. ShowsOwn(d) /\ Keeping(d) /\ Fitting(d) /\ Grows(place[d])
    BY DEF KeptInv, Kept
  <2>2. /\ pc'[d] = pc[d] /\ place'[d] = place[d] /\ request'[d] = request[d]
        /\ todo'[d] = todo[d] /\ left'[d] = left[d] /\ seen'[d] = seen[d]
        /\ act'[d] = act[d] /\ reply'[d] = reply[d] /\ outcome'[d] = outcome[d]
        /\ added'[d] = added[d] /\ plan'[d] = plan[d]
    BY DEF Alone
  <2>3. packs(d) \subseteq packs(d)' /\ list_offerings(d) \subseteq list_offerings(d)'
    BY <2>1, <2>2 DEF Grows, packs, list_offerings
  <2>4. Goal(d)' = Goal(d) /\ adding(d)' = adding(d) /\ answered(d, "chat")' = answered(d, "chat")
    BY <2>2 DEF Goal, adding, answered
  <2>5. ShowsOwn(d)'
    <3>1. Entries(todo[d])' = Entries(todo[d]) /\ OwnAreBuiltin(todo[d])' = OwnAreBuiltin(todo[d])
      BY <2>2 DEF Entries, OwnAreBuiltin
    <3> QED
      BY <2>1, <2>2, <2>3, <3>1 DEF ShowsOwn
  <2>6. Keeping(d)'
    BY <2>1, <2>2, <2>3, <2>4 DEF Keeping
  <2>7. Fitting(d)'
    BY <2>1, <2>2 DEF Fitting
  <2> QED
    BY <2>5, <2>6, <2>7 DEF Kept
<1> QED
  BY <1>1 DEF KeptInv

\* A step that leaves the catalogs and the registry alone.
LEMMA SameShared ==
    ASSUME KeptInv, UNCHANGED shared
    PROVE  OwnSources' /\ \A p : Grows(p)
BY DEF KeptInv, OwnSources, Grows, shared

\* A request that ends keeps what it said, if it was answered.
LEMMA EndKept ==
    ASSUME ChatInv, KeptInv, NEW c \in Person, NEW how \in {"answered", "raised"},
           End(c, how), pc[c] # "idle", UNCHANGED <<shared, act, reply, added>>,
           \A d \in Person \ {c} : plan'[d] = plan[d],
           how = "answered" =>
              /\ Goal(c) \cap Own \subseteq packs(c)
              /\ request[c].op = "chat" => pc[c] \in Later
              /\ request[c].op = "chat" /\ adding(c) => added[c] \subseteq plan'[c]
    PROVE  KeptInv'
<1>1. TypeOK /\ Keeping(c) /\ Fitting(c)
  BY DEF ChatInv, KeptInv, Kept
<1>2. /\ pc'[c] = "idle" /\ outcome'[c] = how /\ todo'[c] = <<>> /\ left'[c] = {}
      /\ UNCHANGED <<place, request>>
  BY <1>1 DEF End, Goto, TypeOK
<1>3. Alone(c)
  BY <1>1 DEF End, Goto, TypeOK, Alone
<1>4. packs(c)' = packs(c) /\ Goal(c)' = Goal(c) /\ adding(c)' = adding(c)
  BY <1>2 DEF packs, Goal, adding, shared
<1>5. ShowsOwn(c)'
  BY <1>2 DEF ShowsOwn, OwnAreBuiltin
<1>6. Keeping(c)'
  BY <1>1, <1>2, <1>4 DEF Keeping, answered
<1>7. Fitting(c)'
  BY <1>1, <1>2 DEF Fitting, Later
<1> QED
  BY <1>3, <1>5, <1>6, <1>7, SameShared, StepKept DEF Kept

LEMMA RaiseKept ==
    ASSUME ChatInv, KeptInv, NEW c \in Person, Raise(c), pc[c] # "idle", UNCHANGED shared
    PROVE  KeptInv'
BY EndKept DEF Raise, answer

\* A request that goes on to p, with what it has to add in its hands.
LEMMA GoKept ==
    ASSUME ChatInv, KeptInv, NEW c \in Person, NEW p \in Phases \ {"idle", "load", "remote", "next"},
           Goto(c, p), pc[c] # "idle",
           UNCHANGED <<place, request, todo, outcome, act, reply, added, plan, shared>>,
           \A d \in Person \ {c} : left'[d] = left[d] /\ seen'[d] = seen[d],
           p = "think" => pc[c] = "remote", p \in {"nexting", "act"} => pc[c] \in {"next", "nexting"},
           request[c].op = "chat" /\ p # "think" => pc[c] \in Later,
           left'[c] # {} => p \in {"install", "make"},
           p \in {"install", "make", "gather", "gathering"} =>
              Goal(c) \cap Own \subseteq packs(c) \cup left'[c],
           p = "gathering" => added[c] \subseteq seen'[c]
    PROVE  KeptInv'
<1>1. TypeOK /\ ShowsOwn(c) /\ Keeping(c) /\ Fitting(c)
  BY DEF ChatInv, KeptInv, Kept
<1>2. pc'[c] = p /\ \A d \in Person \ {c} : pc'[d] = pc[d]
  BY <1>1 DEF Goto, TypeOK
<1>3. Alone(c)
  BY <1>2 DEF Alone
<1>4. /\ packs(c)' = packs(c) /\ list_offerings(c)' = list_offerings(c)
      /\ Goal(c)' = Goal(c) /\ adding(c)' = adding(c)
  BY DEF packs, list_offerings, Goal, adding, shared
<1>5. ShowsOwn(c)'
  <2>1. OwnAreBuiltin(todo[c])' = OwnAreBuiltin(todo[c])
    BY DEF OwnAreBuiltin
  <2> QED
    BY <1>1, <1>2, <1>4, <2>1 DEF ShowsOwn
<1>6. Keeping(c)'
  BY <1>1, <1>2, <1>4 DEF Keeping, answered
<1>7. Fitting(c)'
  BY <1>1, <1>2 DEF Fitting, Later
<1> QED
  BY <1>3, <1>5, <1>6, <1>7, SameShared, StepKept DEF Kept

\* Ours are in the catalog that comes with the program, and built in wherever
\* they are listed.
LEMMA OwnFacts ==
    /\ Own \subseteq Entries(Builtin)
    /\ \A t \in Remotes \cup {Builtin, <<>>} : OwnAreBuiltin(t)
<1>1. ASSUME NEW o \in Own PROVE o \in Entries(Builtin)
  <2>1. PICK i \in DOMAIN Builtin : Builtin[i][1] = o
    BY ChatAssumption DEF Own
  <2> QED
    BY <2>1 DEF Entries
<1>2. \A t \in Remotes \cup {Builtin} : OwnAreBuiltin(t)
  BY DEF Own, OwnAreBuiltin
<1>3. OwnAreBuiltin(<<>>)
  BY DEF OwnAreBuiltin
<1> QED
  BY <1>1, <1>2, <1>3

\* A new request has added nothing.
LEMMA BeginKept ==
    ASSUME ChatInv, KeptInv, NEW c \in Person, NEW p \in {Web, c}, NEW r \in Request,
           Begin(c, p, r), pc[c] = "idle",
           \A d \in Person \ {c} : Grows(place[d]), OwnSources'
    PROVE  KeptInv'
<1>1. TypeOK /\ Keeping(c)
  BY DEF ChatInv, KeptInv, Kept
<1>2. /\ place'[c] = p /\ request'[c] = r /\ outcome'[c] = "none" /\ added'[c] = {}
      /\ todo'[c] = IF r.op \in {"plan", "next"} THEN <<>> ELSE Builtin
      /\ UNCHANGED <<left, seen, act, reply>>
  BY <1>1 DEF Begin, TypeOK, talk
<1>3. /\ pc'[c] \in {"gather", "next", "load"} /\ (pc'[c] = "next" => r.op = "next")
      /\ pc'[c] = "load" => r.op \in {"catalog", "add", "chat"}
      /\ pc'[c] = "gather" => r.op = "plan"
  <2>1. pc'[c] = CASE r.op = "plan" -> "gather" [] r.op = "next" -> "next" [] OTHER -> "load"
    BY <1>1 DEF Begin, Goto, TypeOK
  <2> QED
    BY <2>1, RequestFacts
<1>4. Alone(c)
  <2> DEFINE next == CASE r.op = "plan" -> "gather" [] r.op = "next" -> "next" [] OTHER -> "load"
             list == IF r.op \in {"plan", "next"} THEN <<>> ELSE Builtin
  <2>1. pc' = [pc EXCEPT ![c] = next] /\ todo' = [todo EXCEPT ![c] = list]
    BY DEF Begin, Goto
  <2> HIDE DEF next, list
  <2>2. \A d \in Person \ {c} : pc'[d] = pc[d] /\ todo'[d] = todo[d]
    BY <1>1, <2>1 DEF TypeOK
  <2>3. \A d \in Person \ {c} : /\ place'[d] = place[d] /\ request'[d] = request[d]
                               /\ outcome'[d] = outcome[d] /\ added'[d] = added[d] /\ plan'[d] = plan[d]
    BY <1>1 DEF TypeOK, Begin
  <2> QED
    BY <1>2, <2>2, <2>3 DEF Alone
<1>5. ShowsOwn(c)'
  <2>1. OwnAreBuiltin(todo'[c])
    BY <1>2, OwnFacts
  <2>2. pc'[c] = "load" => todo'[c] = Builtin
    BY <1>2, <1>3
  <2>3. pc'[c] = "load" => Own \subseteq Entries(todo'[c])
    BY <2>2, OwnFacts
  <2>4. /\ OwnAreBuiltin(todo[c])' = OwnAreBuiltin(todo'[c])
        /\ Entries(todo[c])' = Entries(todo'[c])
    BY DEF OwnAreBuiltin, Entries
  <2> QED
    BY <1>2, <1>3, <2>1, <2>3, <2>4 DEF ShowsOwn
<1>6. Keeping(c)'
  <2>1. pc'[c] = "gather" => Goal(c)' = {}
    BY <1>2, <1>3 DEF Goal
  <2>2. left'[c] = {}
    BY <1>1, <1>2 DEF Keeping
  <2> QED
    BY <1>2, <1>3, <2>1, <2>2 DEF Keeping, answered
<1>7. Fitting(c)'
  BY <1>2, <1>3 DEF Fitting, Later
<1> QED
  BY <1>4, <1>5, <1>6, <1>7, StepKept DEF Kept

LEMMA AskKept == ASSUME ChatInv, KeptInv, NEW c \in Person, Ask(c) \/ Repeat(c) PROVE KeptInv'
<1>1. UNCHANGED shared /\ pc[c] = "idle" /\ \E r \in Request : Begin(c, Web, r)
  BY DEF Ask, Repeat, ChatInv, TypeOK
<1> QED
  BY <1>1, SameShared, BeginKept

LEMMA CommandKept == ASSUME ChatInv, KeptInv, NEW c \in Person, Command(c) PROVE KeptInv'
<1>1. TypeOK /\ pc[c] = "idle" /\ c # Web
  BY ChatAssumption DEF ChatInv, Command
<1>2. ASSUME NEW p \in Process \ {c} PROVE registry'[p] = registry[p] /\ offerings'[p] = offerings[p]
  BY <1>1 DEF Command, TypeOK
<1>3. ASSUME NEW d \in Person \ {c} PROVE Grows(place[d])
  <2>1. place[d] \in Process \ {c}
    BY <1>1 DEF KeptInv, Kept, Keeping, Process
  <2> QED
    BY <1>2, <2>1 DEF Grows
<1>4. OwnSources'
  <2>1. c \in Process /\ offerings'[c] = NoCatalog /\ Own \subseteq Offering
    BY <1>1, ChatAssumption DEF Command, TypeOK, Process, Own
  <2>2. \A o \in Own : NoCatalog[o] = None
    BY <2>1 DEF NoCatalog
  <2> QED
    BY <1>2, <2>1, <2>2 DEF KeptInv, OwnSources
<1> QED
  BY <1>1, <1>3, <1>4, BeginKept DEF Command

LEMMA TailFacts ==
    ASSUME NEW t \in Catalog, t # <<>>
    PROVE  /\ Entries(t) \subseteq {Head(t)[1]} \cup Entries(Tail(t))
           /\ OwnAreBuiltin(t) => /\ OwnAreBuiltin(Tail(t))
                                  /\ Head(t)[1] \in Own => Head(t)[2] = "builtin"
<1>1. /\ t \in Seq(Offering \X Source) /\ Tail(t) \in Seq(Offering \X Source)
      /\ Len(t) \in Nat \ {0} /\ Len(Tail(t)) = Len(t) - 1 /\ Head(t) = t[1]
      /\ DOMAIN t = 1 .. Len(t) /\ DOMAIN Tail(t) = 1 .. Len(t) - 1
      /\ \A i \in 1 .. Len(t) - 1 : Tail(t)[i] = t[i + 1]
  BY DEF Catalog
<1>2. ASSUME NEW i \in DOMAIN t, i # 1 PROVE i - 1 \in DOMAIN Tail(t) /\ Tail(t)[i - 1] = t[i]
  BY <1>1, <1>2
<1>3. ASSUME NEW o \in Entries(t) PROVE o = Head(t)[1] \/ o \in Entries(Tail(t))
  <2>1. PICK i \in DOMAIN t : t[i][1] = o
    BY DEF Entries
  <2> QED
    BY <1>1, <1>2, <2>1 DEF Entries
<1>4. ASSUME OwnAreBuiltin(t), NEW i \in DOMAIN Tail(t), Tail(t)[i][1] \in Own
      PROVE  Tail(t)[i][2] = "builtin"
  BY <1>1, <1>4 DEF OwnAreBuiltin
<1>5. OwnAreBuiltin(t) /\ Head(t)[1] \in Own => Head(t)[2] = "builtin"
  BY <1>1 DEF OwnAreBuiltin
<1> QED
  BY <1>3, <1>4, <1>5 DEF OwnAreBuiltin

LEMMA register_offeringKept ==
    ASSUME ChatInv, KeptInv, NEW c \in Person, register_offering(c) PROVE KeptInv'
<1>1. TypeOK /\ ShowsOwn(c) /\ Keeping(c) /\ Fitting(c) /\ place[c] \in Process
  BY DEF ChatInv, KeptInv, Kept, TypeOK
<1>2. /\ UNCHANGED <<registry, pc, place, request, left, seen, outcome, act, reply, added, plan>>
      /\ todo' = [todo EXCEPT ![c] = Tail(@)] /\ todo[c] # <<>> /\ pc[c] \in {"load", "remote"}
  BY DEF register_offering, talk, answer
<1> DEFINE o == Head(todo[c])[1]
           v == Head(todo[c])[2]
<1>3. todo[c] \in Catalog /\ o \in Offering /\ v \in Source /\ v # None
  BY <1>1, <1>2, CatalogFacts, ChatAssumption DEF TypeOK
<1>4. /\ Entries(todo[c]) \subseteq {o} \cup Entries(Tail(todo[c]))
      /\ OwnAreBuiltin(Tail(todo[c])) /\ (o \in Own => v = "builtin")
  BY <1>1, <1>2, <1>3, TailFacts DEF ShowsOwn
<1>5. offerings' = [offerings EXCEPT ![place[c]][o] = v]
  BY DEF register_offering
<1> HIDE DEF o, v
<1>6. \A p \in Process, q \in Offering :
         offerings'[p][q] = IF p = place[c] /\ q = o THEN v ELSE offerings[p][q]
  BY <1>1, <1>3, <1>5 DEF TypeOK
<1>7. OwnSources'
  <2>1. Own \subseteq Offering
    BY ChatAssumption DEF Own
  <2> QED
    BY <1>4, <1>6, <2>1 DEF KeptInv, OwnSources
<1>8. \A p \in Process : Grows(p)
  BY <1>2, <1>3, <1>6 DEF Grows
<1>9. Alone(c)
  BY <1>1, <1>2 DEF Alone, TypeOK
<1>10. ShowsOwn(c)'
  <2>1. list_offerings(c) \cup {o} \subseteq list_offerings(c)'
    BY <1>1, <1>2, <1>3, <1>6 DEF list_offerings
  <2>2. todo'[c] = Tail(todo[c])
    BY <1>1, <1>2 DEF TypeOK
  <2>3. Entries(todo[c])' = Entries(Tail(todo[c])) /\ OwnAreBuiltin(todo[c])' = OwnAreBuiltin(Tail(todo[c]))
    BY <2>2 DEF Entries, OwnAreBuiltin
  <2> QED
    BY <1>1, <1>2, <1>4, <2>1, <2>3 DEF ShowsOwn
<1>11. Keeping(c)' /\ Fitting(c)'
  BY <1>1, <1>2 DEF Keeping, Fitting, packs, Goal, adding, answered
<1>12. \A d \in Person \ {c} : Grows(place[d])
  BY <1>1, <1>8 DEF TypeOK
<1> QED
  BY <1>7, <1>9, <1>10, <1>11, <1>12, StepKept DEF Kept

LEMMA load_remote_catalogKept ==
    ASSUME ChatInv, KeptInv, NEW c \in Person, load_remote_catalog(c) PROVE KeptInv'
<1>1. TypeOK /\ ShowsOwn(c) /\ Keeping(c) /\ Fitting(c) /\ pc[c] = "load" /\ todo[c] = <<>>
  BY DEF ChatInv, KeptInv, Kept, load_remote_catalog
<1>2. /\ UNCHANGED shared
      /\ UNCHANGED <<place, request, left, seen, outcome, act, reply, added, plan>>
      /\ \E t \in Remotes \cup {<<>>} : todo' = [todo EXCEPT ![c] = t]
  BY DEF load_remote_catalog, talk, answer
<1>3. pc'[c] = "remote" /\ OwnAreBuiltin(todo'[c])
  BY <1>1, <1>2, OwnFacts DEF load_remote_catalog, Goto, TypeOK
<1>4. Alone(c)
  BY <1>1, <1>2 DEF load_remote_catalog, Goto, Alone, TypeOK
<1>5. ShowsOwn(c)'
  <2>1. Own \subseteq list_offerings(c)
    BY <1>1 DEF ShowsOwn, Entries
  <2>2. list_offerings(c)' = list_offerings(c) /\ OwnAreBuiltin(todo[c])' = OwnAreBuiltin(todo'[c])
    BY <1>2 DEF list_offerings, OwnAreBuiltin, shared
  <2> QED
    BY <1>3, <2>1, <2>2 DEF ShowsOwn
<1>6. Keeping(c)' /\ Fitting(c)'
  BY <1>1, <1>2, <1>3 DEF Keeping, Fitting, packs, Goal, adding, answered, shared, Later
<1> QED
  BY <1>2, <1>4, <1>5, <1>6, SameShared, StepKept DEF Kept

LEMMA LoadedKept == ASSUME ChatInv, KeptInv, NEW c \in Person, Loaded(c) PROVE KeptInv'
<1>1. TypeOK /\ Traced(c) /\ Keeping(c) /\ pc[c] = "remote"
  BY DEF ChatInv, KeptInv, Kept, Loaded
<1>2. UNCHANGED <<shared, added, plan>> /\ request[c].op \in {"catalog", "add", "chat"}
  BY <1>1 DEF Loaded, Traced, answer
<1>3. left[c] = {}
  BY <1>1 DEF Keeping
<1>4. CASE request[c].op = "catalog"
  <2>1. Goal(c) = {}
    BY <1>4 DEF Goal
  <2> QED
    BY <1>1, <1>2, <1>4, <2>1, EndKept DEF Loaded
<1>5. CASE request[c].op = "add"
  <2>1. /\ Goto(c, "install") /\ left' = [left EXCEPT ![c] = {request[c].name}]
        /\ UNCHANGED <<place, request, todo, seen, outcome, act, reply>>
    BY <1>5 DEF Loaded, talk
  <2>2. Goal(c) = {request[c].name} /\ left'[c] = {request[c].name}
        /\ \A d \in Person \ {c} : left'[d] = left[d] /\ seen'[d] = seen[d]
    BY <1>1, <1>5, <2>1 DEF Goal, TypeOK
  <2> QED
    BY <1>1, <1>2, <1>5, <2>1, <2>2, GoKept DEF Phases
<1>6. CASE request[c].op = "chat"
  <2>1. Goto(c, "think") /\ UNCHANGED <<place, request, todo, left, seen, outcome, act, reply>>
    BY <1>6 DEF Loaded
  <2> QED
    BY <1>1, <1>2, <1>3, <2>1, GoKept DEF Phases
<1> QED
  BY <1>2, <1>4, <1>5, <1>6

\* What is said is what is done, but for the offer to add an app.
LEMMA DecideFits ==
    ASSUME NEW i \in Action, NEW a \in Answers \cup {NoAnswer}
    PROVE  LET d == decide(i, a) IN
           d[2] = d[1] \/ (d[1] = NoIntent /\ d[2].kind = "add_one")
<1>1. agrees(i, a) => a = i
  BY ChatAssumption DEF agrees, Action
<1> QED
  BY <1>1 DEF decide

LEMMA ConverseKept == ASSUME ChatInv, KeptInv, NEW c \in Person, Converse(c) PROVE KeptInv'
<1>1. /\ TypeOK /\ Traced(c) /\ ShowsOwn(c) /\ Keeping(c) /\ pc[c] = "think"
      /\ intent[c] \in Action
  BY DEF ChatInv, KeptInv, Kept, Converse, TypeOK
<1>2. PICK a \in Answers \cup {NoAnswer} :
         /\ act' = [act EXCEPT ![c] = decide(intent[c], a)[1]]
         /\ reply' = [reply EXCEPT ![c] = decide(intent[c], a)[2]]
  BY DEF Converse
<1>3. UNCHANGED <<shared, place, request, todo, left, seen, outcome, added, plan>> /\ Goto(c, "next")
  BY DEF Converse, answer
<1>4. \/ reply'[c] = act'[c]
      \/ act'[c] = NoIntent /\ reply'[c].kind = "add_one"
  BY <1>1, <1>2, DecideFits DEF TypeOK
<1>5. pc'[c] = "next" /\ Alone(c)
  BY <1>1, <1>2, <1>3 DEF Goto, Alone, TypeOK
<1>6. ShowsOwn(c)'
  <2>1. list_offerings(c)' = list_offerings(c) /\ OwnAreBuiltin(todo[c])' = OwnAreBuiltin(todo[c])
    BY <1>3 DEF list_offerings, OwnAreBuiltin, shared
  <2> QED
    BY <1>1, <1>5, <2>1 DEF ShowsOwn
<1>7. Keeping(c)'
  BY <1>1, <1>3, <1>5 DEF Keeping, answered, packs, shared
<1>8. Fitting(c)'
  BY <1>4 DEF Fitting
<1> QED
  BY <1>3, <1>5, <1>6, <1>7, <1>8, SameShared, StepKept DEF Kept

LEMMA SuggestKept ==
    ASSUME ChatInv, KeptInv, NEW c \in Person, NEW s, pc[c] \in {"next", "nexting"}, Suggest(c, s),
           UNCHANGED <<shared, act, reply, added, plan>>
    PROVE  KeptInv'
<1>1. TypeOK /\ Keeping(c) /\ left[c] = {}
  BY DEF ChatInv, KeptInv, Kept, Keeping
<1>2. CASE request[c].op = "next"
  <2>1. End(c, "answered") /\ Goal(c) = {}
    BY <1>2 DEF Suggest, Goal
  <2> QED
    BY <1>2, <2>1, EndKept
<1>3. CASE request[c].op # "next"
  <2>1. Goto(c, "act") /\ UNCHANGED <<place, request, todo, left, seen, outcome>>
    BY <1>3 DEF Suggest
  <2> QED
    BY <1>1, <2>1, GoKept DEF Phases, Later
<1> QED
  BY <1>2, <1>3

LEMMA next_stepsKept ==
    ASSUME ChatInv, KeptInv, NEW c \in Person, next_steps(c) \/ Recommend(c) PROVE KeptInv'
<1>1. /\ TypeOK /\ Keeping(c) /\ left[c] = {} /\ UNCHANGED shared
      /\ pc[c] \in {"next", "nexting"}
  BY DEF ChatInv, KeptInv, Kept, Keeping, next_steps, Recommend
<1>2. CASE \E s : Suggest(c, s) /\ UNCHANGED <<act, reply, added, plan>>
  BY <1>1, <1>2, SuggestKept
<1>3. CASE Raise(c)
  BY <1>1, <1>3, RaiseKept
<1>4. CASE /\ Goto(c, "nexting") /\ seen' = [seen EXCEPT ![c] = packs(c)]
           /\ UNCHANGED <<place, request, todo, left, outcome, act, reply, added, plan>>
  <2>1. \A d \in Person \ {c} : left'[d] = left[d] /\ seen'[d] = seen[d]
    BY <1>1, <1>4 DEF TypeOK
  <2> QED
    BY <1>1, <1>4, <2>1, GoKept DEF Phases, Later
<1>5. CASE next_steps(c) /\ packs(c) # {}
  BY <1>4, <1>5 DEF next_steps
<1>6. CASE next_steps(c) /\ packs(c) = {}
  BY <1>2, <1>6 DEF next_steps
<1>7. CASE Recommend(c)
  BY <1>2, <1>3, <1>7 DEF Recommend
<1> QED
  BY <1>5, <1>6, <1>7

LEMMA _apply_actionKept ==
    ASSUME ChatInv, KeptInv, NEW c \in Person, _apply_action(c) PROVE KeptInv'
<1>1. /\ TypeOK /\ ShowsOwn(c) /\ Keeping(c) /\ left[c] = {} /\ pc[c] = "act"
      /\ request[c].op = "chat" /\ UNCHANGED shared
  BY DEF ChatInv, Traced, KeptInv, Kept, Keeping, _apply_action
<1>2. CASE act[c].kind \in {"add_all", "add_one"}
  <2>1. PICK os : Install(c, os) /\ Goal(c) \cap Own \subseteq os
    <3>1. CASE act[c].kind = "add_all"
      BY <1>1, <3>1 DEF _apply_action, Goal, ShowsOwn
    <3>2. CASE act[c].kind = "add_one"
      BY <1>1, <3>2 DEF _apply_action, Goal, adding
    <3> QED
      BY <1>2, <3>1, <3>2
  <2>2. /\ Goto(c, "install") /\ left' = [left EXCEPT ![c] = os]
        /\ UNCHANGED <<place, request, todo, seen, outcome, act, reply, added, plan>>
    BY <2>1 DEF Install, talk, answer
  <2>3. left'[c] = os /\ \A d \in Person \ {c} : left'[d] = left[d] /\ seen'[d] = seen[d]
    BY <1>1, <2>2 DEF TypeOK
  <2> QED
    BY <1>1, <2>1, <2>2, <2>3, GoKept DEF Phases, Later
<1>3. CASE act[c].kind \notin {"add_all", "add_one"}
  <2>1. Goal(c) = {} /\ ~adding(c)
    BY <1>1, <1>3 DEF Goal, adding
  <2>2. CASE act[c].kind \in {"plan", "approve"}
    <3>1. /\ Goto(c, "gather")
          /\ UNCHANGED <<place, request, todo, left, seen, outcome, act, reply, added, plan>>
      BY <2>2 DEF _apply_action, talk, answer
    <3> QED
      BY <1>1, <2>1, <3>1, GoKept DEF Phases, Later
  <2>3. CASE act[c].kind \notin {"plan", "approve"}
    <3>1. End(c, "answered") /\ UNCHANGED <<act, reply, added, plan>>
      BY <1>3, <2>3 DEF _apply_action, answer
    <3> QED
      BY <1>1, <2>1, <3>1, EndKept DEF Later
  <2> QED
    BY <2>2, <2>3
<1> QED
  BY <1>2, <1>3

\* An offering is crossed off that is registered, or that is none of ours.
LEMMA InstalledKept ==
    ASSUME ChatInv, KeptInv, NEW c \in Person, NEW o \in left[c], NEW ok \in BOOLEAN,
           Installed(c, o, ok), pc[c] \in {"install", "make"}, UNCHANGED offerings,
           \/ UNCHANGED registry
           \/ o \in Pack /\ registry' = [registry EXCEPT ![place[c]] = @ \cup {o}],
           IF ok THEN o \in registry'[place[c]] ELSE o \notin Own
    PROVE  KeptInv'
<1>1. TypeOK /\ ShowsOwn(c) /\ Keeping(c) /\ Fitting(c)
  BY DEF ChatInv, KeptInv, Kept
<1>2. /\ UNCHANGED <<place, request, todo, seen, outcome, act, reply, plan>>
      /\ pc'[c] = "install" /\ left'[c] = left[c] \ {o}
      /\ added'[c] = IF ok THEN added[c] \cup {o} ELSE added[c]
  BY <1>1 DEF Installed, Goto, TypeOK, talk
<1>3. Alone(c)
  BY <1>1, <1>2 DEF Installed, Goto, TypeOK, Alone
<1>4. \A p \in Process : Grows(p)
  <2>1. registry \in [Process -> SUBSET Pack]
    BY <1>1 DEF TypeOK
  <2>2. \A p \in Process : registry[p] \subseteq registry'[p]
    BY <2>1
  <2> QED
    BY <2>2 DEF Grows
<1>5. packs(c) \subseteq packs(c)' /\ (ok => o \in packs(c)') /\ Goal(c)' = Goal(c)
  BY <1>1, <1>2, <1>4 DEF packs, Goal, adding, Grows, TypeOK
<1>6. ShowsOwn(c)'
  BY <1>1, <1>2 DEF ShowsOwn, OwnAreBuiltin
<1>7. Keeping(c)'
  BY <1>1, <1>2, <1>5 DEF Keeping, answered
<1>8. Fitting(c)'
  BY <1>1, <1>2 DEF Fitting, Later
<1>9. OwnSources'
  BY DEF KeptInv, OwnSources
<1>10. \A d \in Person \ {c} : Grows(place[d])
  BY <1>1, <1>4 DEF TypeOK
<1> QED
  BY <1>3, <1>6, <1>7, <1>8, <1>9, <1>10, StepKept DEF Kept

LEMMA install_offeringKept ==
    ASSUME ChatInv, KeptInv, NEW c \in Person, install_offering(c) PROVE KeptInv'
<1>1. /\ TypeOK /\ Traced(c) /\ Keeping(c) /\ pc[c] = "install" /\ UNCHANGED <<shared, registry, offerings>>
  BY DEF ChatInv, KeptInv, Kept, install_offering, shared
<1>2. PICK o \in first(left[c]) :
         LET source == offerings[place[c]][o]
         IN  IF source = None THEN Raise(c)
             ELSE IF source # "builtin" \/ o \notin Pack THEN Installed(c, o, FALSE)
             ELSE IF o \in packs(c) THEN Installed(c, o, TRUE)
             ELSE Goto(c, "make") /\ UNCHANGED <<place, request, todo, left, seen, outcome, talk, answer>>
  BY DEF install_offering
<1>3. o \in left[c] /\ place[c] \in Process
  BY <1>1, <1>2 DEF first, TypeOK
<1> DEFINE source == offerings[place[c]][o]
<1>4. CASE source = None
  BY <1>1, <1>2, <1>4, RaiseKept
<1>5. CASE source # None /\ (source # "builtin" \/ o \notin Pack)
  <2>1. Installed(c, o, FALSE)
    BY <1>2, <1>5
  <2>2. o \notin Own
    BY <1>3, <1>5 DEF KeptInv, OwnSources, Own
  <2> QED
    BY <1>1, <1>3, <2>1, <2>2, InstalledKept
<1>6. CASE source # None /\ source = "builtin" /\ o \in Pack /\ o \in packs(c)
  <2>1. Installed(c, o, TRUE)
    BY <1>2, <1>6
  <2> QED
    BY <1>1, <1>3, <1>6, <2>1, InstalledKept DEF packs
<1>7. CASE source # None /\ source = "builtin" /\ o \in Pack /\ o \notin packs(c)
  <2>1. /\ Goto(c, "make")
        /\ UNCHANGED <<place, request, todo, left, seen, outcome, act, reply, added, plan>>
    BY <1>2, <1>7 DEF talk, answer
  <2>2. Goal(c) \cap Own \subseteq packs(c) \cup left[c]
    BY <1>1 DEF Keeping
  <2> QED
    BY <1>1, <2>1, <2>2, GoKept DEF Phases, Later
<1> QED
  BY <1>4, <1>5, <1>6, <1>7

LEMMA register_packKept ==
    ASSUME ChatInv, KeptInv, NEW c \in Person, register_pack(c) PROVE KeptInv'
<1>1. TypeOK /\ Traced(c) /\ place[c] \in Process /\ pc[c] = "make" /\ UNCHANGED offerings
  BY DEF ChatInv, TypeOK, register_pack
<1>2. PICK o \in first(left[c]) :
         IF o \in packs(c) THEN Raise(c) /\ UNCHANGED registry
         ELSE /\ registry' = [registry EXCEPT ![place[c]] = @ \cup {o}]
              /\ Installed(c, o, TRUE)
  BY DEF register_pack
<1>3. o \in left[c] /\ o \in Pack
  BY <1>1, <1>2 DEF first, Traced
<1>4. CASE Raise(c) /\ UNCHANGED registry
  BY <1>1, <1>4, RaiseKept DEF shared
<1>5. CASE registry' = [registry EXCEPT ![place[c]] = @ \cup {o}] /\ Installed(c, o, TRUE)
  <2>1. o \in registry'[place[c]]
    BY <1>1, <1>5 DEF TypeOK
  <2> QED
    BY <1>1, <1>3, <1>5, <2>1, InstalledKept
<1> QED
  BY <1>2, <1>4, <1>5

LEMMA DoneKept ==
    ASSUME ChatInv, KeptInv, NEW c \in Person, Done(c) \/ api_plan(c) PROVE KeptInv'
<1>1. TypeOK /\ Keeping(c) /\ UNCHANGED shared
  BY DEF ChatInv, KeptInv, Kept, Done, api_plan
<1>2. CASE Done(c)
  <2>1. pc[c] = "install" /\ left[c] = {} /\ Goal(c) \cap Own \subseteq packs(c)
    BY <1>1, <1>2 DEF Done, Keeping
  <2>2. CASE request[c].op = "chat"
    <3>1. /\ Goto(c, "gather")
          /\ UNCHANGED <<place, request, todo, left, seen, outcome, act, reply, added, plan>>
      BY <1>2, <2>2 DEF Done, talk, answer
    <3> QED
      BY <1>1, <2>1, <3>1, GoKept DEF Phases, Later
  <2>3. CASE request[c].op # "chat"
    <3>1. End(c, "answered") /\ UNCHANGED <<act, reply, added, plan>>
      BY <1>2, <2>3 DEF Done, answer
    <3> QED
      BY <1>1, <2>1, <2>3, <3>1, EndKept
  <2> QED
    BY <2>2, <2>3
<1>3. CASE api_plan(c)
  <2>1. /\ pc[c] = "gather" /\ Goto(c, "gathering") /\ seen' = [seen EXCEPT ![c] = packs(c)]
        /\ UNCHANGED <<place, request, todo, left, outcome, act, reply, added, plan>>
    BY <1>3 DEF api_plan, talk, answer
  <2>2. /\ seen'[c] = packs(c) /\ left[c] = {} /\ added[c] \subseteq packs(c)
        /\ Goal(c) \cap Own \subseteq packs(c)
        /\ \A d \in Person \ {c} : left'[d] = left[d] /\ seen'[d] = seen[d]
    BY <1>1, <2>1 DEF TypeOK, Keeping
  <2> QED
    BY <1>1, <2>1, <2>2, GoKept DEF Phases, Later
<1> QED
  BY <1>2, <1>3

\* The plan is made of the packs that were there when it was begun.
LEMMA PlannedKept == ASSUME ChatInv, KeptInv, NEW c \in Person, Planned(c) PROVE KeptInv'
<1>1. TypeOK /\ Keeping(c) /\ pc[c] = "gathering" /\ UNCHANGED shared
  BY DEF ChatInv, KeptInv, Kept, Planned
<1>2. CASE Raise(c)
  BY <1>1, <1>2, RaiseKept
<1>3. CASE /\ plan' = [plan EXCEPT ![c] = seen[c]] /\ End(c, "answered")
           /\ UNCHANGED <<act, reply, added, step>>
  <2>1. plan'[c] = seen[c] /\ \A d \in Person \ {c} : plan'[d] = plan[d]
    BY <1>1, <1>3 DEF TypeOK
  <2>2. Goal(c) \cap Own \subseteq packs(c) /\ added[c] \subseteq seen[c]
    BY <1>1 DEF Keeping
  <2> QED
    BY <1>1, <1>3, <2>1, <2>2, EndKept DEF Later
<1> QED
  BY <1>2, <1>3 DEF Planned

\* A restart takes back what the server has answered.
LEMMA RestartKept == ASSUME ChatInv, KeptInv, Restart PROVE KeptInv'
<1>1. TypeOK
  BY DEF ChatInv
<1>2. /\ UNCHANGED <<place, request, act, reply, added, plan>>
      /\ \A c \in Person :
            IF place[c] = Web /\ pc[c] # "idle"
            THEN /\ pc'[c] = "idle" /\ outcome'[c] = "raised" /\ todo'[c] = <<>> /\ left'[c] = {}
            ELSE /\ pc'[c] = pc[c] /\ todo'[c] = todo[c] /\ left'[c] = left[c] /\ seen'[c] = seen[c]
                 /\ outcome'[c] = IF place[c] = Web /\ outcome[c] = "answered" THEN "none" ELSE outcome[c]
  BY DEF Restart, answer
<1>3. /\ \A p \in Process \ {Web} : registry'[p] = registry[p] /\ offerings'[p] = offerings[p]
      /\ offerings'[Web] = NoCatalog
  BY <1>1 DEF Restart, TypeOK, Process
<1>4. OwnSources'
  <2>1. \A o \in Own : NoCatalog[o] = None
    BY ChatAssumption DEF NoCatalog, Own
  <2> QED
    BY <1>3, <2>1 DEF KeptInv, OwnSources
<1>5. ASSUME NEW c \in Person PROVE Kept(c)'
  <2>1. ShowsOwn(c) /\ Keeping(c) /\ Fitting(c) /\ place[c] \in Process
    BY <1>1 DEF KeptInv, Kept, TypeOK
  <2>2. CASE place[c] = Web /\ pc[c] # "idle"
    <3>1. pc'[c] = "idle" /\ outcome'[c] = "raised" /\ todo'[c] = <<>> /\ left'[c] = {}
      BY <1>2, <2>2
    <3> QED
      BY <1>2, <2>1, <3>1 DEF Kept, ShowsOwn, Keeping, Fitting, OwnAreBuiltin, answered, Later
  <2>3. CASE place[c] = Web /\ pc[c] = "idle"
    <3>1. pc'[c] = "idle" /\ outcome'[c] # "answered" /\ todo'[c] = todo[c] /\ left'[c] = left[c]
      BY <1>2, <2>3
    <3> QED
      BY <1>2, <2>1, <2>3, <3>1 DEF Kept, ShowsOwn, Keeping, Fitting, OwnAreBuiltin, answered, Later
  <2>4. CASE place[c] # Web
    <3>1. /\ pc'[c] = pc[c] /\ todo'[c] = todo[c] /\ left'[c] = left[c] /\ seen'[c] = seen[c]
          /\ outcome'[c] = outcome[c]
      BY <1>2, <2>4
    <3>2. packs(c)' = packs(c) /\ list_offerings(c)' = list_offerings(c) /\ Goal(c)' = Goal(c)
      BY <1>2, <1>3, <2>1, <2>4 DEF packs, list_offerings, Goal, adding
    <3>3. ShowsOwn(c)'
      BY <1>2, <2>1, <3>1, <3>2 DEF ShowsOwn, OwnAreBuiltin, Entries
    <3>4. Keeping(c)' /\ Fitting(c)'
      BY <1>2, <2>1, <3>1, <3>2 DEF Keeping, Fitting, answered, adding
    <3> QED
      BY <3>3, <3>4 DEF Kept
  <2> QED
    BY <2>2, <2>3, <2>4
<1> QED
  BY <1>4, <1>5 DEF KeptInv

LEMMA InitKept == Init => KeptInv
<1> SUFFICES ASSUME Init PROVE KeptInv
  OBVIOUS
<1>1. OwnSources
  BY ChatAssumption DEF Init, OwnSources, NoCatalog, Own
<1>2. ASSUME NEW c \in Person PROVE Kept(c)
  BY <1>2 DEF Init, Kept, ShowsOwn, Keeping, Fitting, OwnAreBuiltin, answered, Later
<1> QED
  BY <1>1, <1>2 DEF KeptInv

LEMMA NextKept == ChatInv /\ KeptInv /\ [Next]_vars => KeptInv'
<1> SUFFICES ASSUME ChatInv, KeptInv, [Next]_vars PROVE KeptInv'
  OBVIOUS
<1>1. ASSUME NEW c \in Person, Ask(c) \/ Repeat(c) \/ Command(c) PROVE KeptInv'
  BY <1>1, AskKept, CommandKept
<1>2. ASSUME NEW c \in Person, Work(c) PROVE KeptInv'
  BY <1>2, register_offeringKept, load_remote_catalogKept, LoadedKept, ConverseKept,
     next_stepsKept, _apply_actionKept, install_offeringKept, register_packKept, DoneKept,
     PlannedKept DEF Work
<1>3. CASE Restart
  BY <1>3, RestartKept
<1>4. CASE UNCHANGED vars
  <2>1. /\ UNCHANGED <<registry, offerings, pc, place, request, todo, left, seen, outcome>>
        /\ UNCHANGED <<act, reply, added, plan>>
    BY <1>4 DEF vars, request_, talk, answer
  <2>2. OwnSources'
    BY <2>1 DEF KeptInv, OwnSources
  <2>3. ASSUME NEW c \in Person PROVE Kept(c)'
    <3>1. ShowsOwn(c) /\ Keeping(c) /\ Fitting(c)
      BY DEF KeptInv, Kept
    <3>2. packs(c)' = packs(c) /\ list_offerings(c)' = list_offerings(c) /\ Goal(c)' = Goal(c)
      BY <2>1 DEF packs, list_offerings, Goal, adding
    <3>3. ShowsOwn(c)'
      BY <2>1, <3>1, <3>2 DEF ShowsOwn, OwnAreBuiltin, Entries
    <3>4. Keeping(c)' /\ Fitting(c)'
      BY <2>1, <3>1, <3>2 DEF Keeping, Fitting, answered, adding
    <3> QED
      BY <3>3, <3>4 DEF Kept
  <2> QED
    BY <2>2, <2>3 DEF KeptInv
<1> QED
  BY <1>1, <1>2, <1>3, <1>4 DEF Next

\* However requests meet over the catalog and the registry, what a request is
\* about to add stays within reach of it until it is added (catalog.py:61-75).
THEOREM KeptInvariant == Spec => []KeptInv
<1>1. Init => KeptInv
  BY InitKept
<1>2. ChatInv /\ KeptInv /\ [Next]_vars => KeptInv'
  BY NextKept
<1> QED
  BY <1>1, <1>2, ChatInvariant, PTL DEF Spec

\* An answer keeps its word: what it lists is registered; of the packs that the
\* community catalog leaves built in none is missing that the request was to add;
\* and the plan of a chat has whatever its answer lists
\* (server.py:86-97,172-180).
THEOREM AnswersAreKept == Spec => []AnswerKept
<1>1. ASSUME KeptInv PROVE AnswerKept
  <2> SUFFICES ASSUME NEW c \in Person, outcome[c] = "answered"
               PROVE  /\ added[c] \cup (Due(c) \cap Own) \subseteq packs(c)
                      /\ answered(c, "chat") /\ adding(c) => added[c] \subseteq plan[c]
    BY DEF AnswerKept
  <2>1. Keeping(c)
    BY <1>1 DEF KeptInv, Kept
  <2>2. pc[c] = "idle" /\ left[c] = {}
    BY <2>1 DEF Keeping
  <2>3. Due(c) \subseteq Goal(c)
    BY DEF Due, Goal, answered, adding
  <2> QED
    BY <2>1, <2>2, <2>3 DEF Keeping
<1> QED
  BY <1>1, KeptInvariant, PTL
=============================================================================
