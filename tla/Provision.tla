----------------------------- MODULE Provision -----------------------------
(***************************************************************************)
(* The scripts that set up another application through its HTTP API after a  *)
(* deploy: each looks an object up by its name, creates it if it is missing, *)
(* changes what differs, and hands the primary key it got on to the next     *)
(* request.  A run ends with its script's last step, or at an error, and can  *)
(* always be repeated.                                                       *)
(*                                                                          *)
(* A script is a sequence of steps (Plan), all of them of the few kinds whose *)
(* actions are given here; ProvisionScripts has the scripts.                 *)
(***************************************************************************)
EXTENDS Naturals, Sequences, FiniteSets

CONSTANTS
    Job,            \* processes that run scripts
    Script,
    Plan,           \* the steps of each script
    Scenes,         \* the scripts that each process may run, against one application
    Stock,          \* the objects that may be there to begin with
    Fixed,          \* those that always are: settings
    Unique,         \* names of which the application refuses a second object
    Links,          \* objects that go when an object they refer to goes
    Apps,           \* Authentik applications: what they refer to is a provider
    Counting,       \* scripts that count their errors and go on
    MaxGen,         \* bound: objects of one name, over time
    MaxEvents,      \* bound: runs that do not repeat a failed one, requests that
                    \* fail, lost answers, deaths and changes by hand, together
    MaxEdits        \* bound: changes by hand

Conf == 1 .. 2          \* what a configuration may ask for; 0 is anything else
Steps == UNION {{Plan[x][i] : i \in 1 .. Len(Plan[x])} : x \in Script}
Name == UNION {{s.obj} \cup s.uses : s \in Steps}

Op == {"need",      \* it must be there
       "make",      \* created if it is missing
       "try",       \* the same, and its failure is only a warning
       "loose",     \* the same, without the keys that the run could not get, and
                   \* left out if the application has no such thing (value 0)
       "ensure",    \* created, or changed where it differs
       "secret",    \* the same, and its secret is always sent
       "whole",     \* the same, and all of it is always sent
       "tile",      \* the same, but an existing provider is left alone
       "add",       \* a link of which the application itself keeps only one
       "key",       \* its secret is sent
       "fill",      \* set where it is empty
       "check",     \* a login with its secret
       "list",      \* a list for the steps entry and link, read once
       "entry",     \* created, or changed where it differs in the list
       "link",      \* the same, unless the list has its value elsewhere
       "prune"}     \* the links that are not wanted are deleted

Step == [op : Op, obj : Name, uses : SUBSET Name, val : [Conf -> Nat]]

ASSUME ProvisionAssumption ==
    /\ Script # {} /\ Plan \in [Script -> Seq(Step)]
    /\ \A x \in Script : Len(Plan[x]) > 0
    /\ Scenes \subseteq [Job -> SUBSET Script]
    /\ Stock \cup Fixed \subseteq Name /\ Unique \subseteq Name /\ Links \subseteq Name
    /\ Apps \subseteq Name /\ Counting \subseteq Script
    /\ MaxGen \in Nat \ {0} /\ MaxEvents \in Nat /\ MaxEdits \in Nat

\* Steps that leave a run with the key of their object, or end it.
Getting == {"need", "ensure", "secret", "whole", "tile"}

\* Steps that may create their object, and steps that may change it.
Creating == {"make", "try", "loose", "ensure", "secret", "whole", "tile", "entry", "link"}
Updating == {"ensure", "secret", "whole", "tile", "key", "fill", "entry", "link"}

\* Who changes an application comes with its provider, or, for the tile, without.
ASSUME AppsAssumption ==
    /\ Apps \cap Links = {}
    /\ \A x \in Script : \A i \in 1 .. Len(Plan[x]) : Plan[x][i].obj \in Apps =>
          \/ Plan[x][i].op = "need"
          \/ Plan[x][i].op = "tile" /\ Plan[x][i].uses = {}
          \/ /\ Plan[x][i].op = "ensure" /\ x \notin Counting
             /\ \E k \in 1 .. (i - 1) : Plan[x][k].op \in Getting /\ Plan[x][k].obj \in Plan[x][i].uses

Linking == {s.obj : s \in {r \in Steps : r.op = "link"}}
linksOf(x) == {i \in 1 .. Len(Plan[x]) : Plan[x][i].op = "link"}

\* Only steps of the kind link make the accounts' links.  They come after a list
\* of all of them, links are pruned before there is a list, and an error ends
\* such a script.
ASSUME LinksAssumption ==
    /\ Linking \subseteq Links
    /\ \A x \in Script : \A i \in 1 .. Len(Plan[x]) : Plan[x][i].obj \in Linking => i \in linksOf(x)
    /\ \A x \in Script : linksOf(x) # {} =>
          /\ x \notin Counting
          /\ \A i \in linksOf(x) : \E k \in 1 .. (i - 1) : Plan[x][k].op = "list"
          /\ \A k \in 1 .. Len(Plan[x]) : Plan[x][k].op = "list" =>
                /\ Linking \subseteq Plan[x][k].uses
                /\ \A i \in k .. Len(Plan[x]) : Plan[x][i].op # "prune"

\* The fingerprints that configuration c of script x gives to two accounts.
twice(x, c) ==
    {Plan[x][i].val[c] : i \in {m \in linksOf(x) : \E k \in linksOf(x) :
        Plan[x][k].obj # Plan[x][m].obj /\ Plan[x][k].val[c] = Plan[x][m].val[c]}}
Twice == UNION {twice(x, c) : x \in Script, c \in Conf}

Adding == {s.obj : s \in {r \in Steps : r.op = "add"}}

\* A link of which the application keeps only one is made by steps of the kind
\* add alone, always between the same objects; none is there to begin with, and
\* an error ends such a script.  The objects of a list have names of their own.
ASSUME OnceAssumption ==
    /\ Adding \subseteq Links \cap Unique /\ Adding \cap (Stock \cup Fixed) = {}
    /\ \A s, r \in Steps : s.obj \in Adding /\ r.obj = s.obj => s.op = "add" /\ s.uses = r.uses
    /\ \A s \in Steps : s.op = "add" => s.uses \subseteq Unique \ Links
    /\ \A s \in Steps : s.op \in {"entry", "link"} => s.obj \in Unique
    /\ \A x \in Script : \A i \in 1 .. Len(Plan[x]) : Plan[x][i].op = "add" =>
          /\ x \notin Counting
          /\ \A n \in Plan[x][i].uses :
                \E k \in 1 .. (i - 1) : Plan[x][k].op \in Getting /\ Plan[x][k].obj = n

\* While no request has failed, a run has the key of the object of such a step.
Gets == Getting \cup {"make"}
\* Step i of script x comes after one that gets it the key of n.
got(x, i, n) == \E k \in 1 .. (i - 1) : Plan[x][k].op \in Gets /\ Plan[x][k].obj = n

\* Steps that are done when their object refers to all that they name.
Referring == {"ensure", "entry", "link", "secret", "whole", "add"}

ASSUME InPlaceAssumption == \A x \in Script : \A i \in 1 .. Len(Plan[x]) : LET s == Plan[x][i] IN
    \* What a step refers to has a name of its own, is no link, and has been got.
    /\ s.op \in Referring \cup {"prune"} =>
          s.uses \subseteq Unique \ Links /\ \A n \in s.uses : got(x, i, n)
    /\ s.op = "make" => \A n \in s.uses : got(x, i, n)
    \* No step changes what an earlier one has set.
    /\ s.op \in Updating => \A k \in 1 .. (i - 1) : Plan[x][k].obj = s.obj =>
          \/ Plan[x][k].op \in {"need", "make", "try", "loose", "list", "prune"}
          \/ s.op = "key" /\ Plan[x][k].op \notin {"secret", "whole", "key", "check"}
    \* Prune deletes none of the links that earlier steps made, and later steps
    \* make none that it would have deleted.
    /\ s.op = "prune" =>
          /\ s.obj \in Unique \ Links /\ got(x, i, s.obj)
          /\ \A k \in 1 .. (i - 1) : LET r == Plan[x][k] IN r.obj \in Links =>
                /\ r.op \in Referring \cup {"try", "list", "prune"}
                /\ s.obj \in r.uses => s.uses \cap r.uses # {}
          /\ \A k \in (i + 1) .. Len(Plan[x]) : LET r == Plan[x][k] IN r.obj \in Links =>
                r.op # "fill" /\ s.obj \notin r.uses
    \* A list has what the steps after it look up, and nothing else writes those.
    /\ s.op = "list" => \A k \in i .. Len(Plan[x]) : Plan[x][k].op # "prune"
    /\ s.op \in {"entry", "link"} =>
          /\ \E k \in 1 .. (i - 1) : Plan[x][k].op = "list"
          /\ \A k \in 1 .. (i - 1) : LET r == Plan[x][k] IN
                /\ r.op = "list" => s.obj \in r.uses
                /\ r.obj = s.obj => r.op \in {"list", "need", "check"}

VARIABLES
    objs,           \* the objects of the application
    born,           \* how many of each name there have been
    scene, script, conf,
    phase,          \* idle, look, post, patch, prune, ok, failed
    step,
    known,          \* the primary keys the run has
    seen,           \* the object it changes and the fields it sends
    listed,         \* the objects it has listed
    errors,         \* an error was counted
    events, edits,
    disturbed,      \* history: runs during which others changed what they name
    shared          \* history: what such runs wrote

run == <<script, conf, phase, step, known, seen, listed, errors>>
vars == <<objs, born, scene, run, events, edits, disturbed, shared>>

Field == {"body", "secret", "refs"}
Key == Name \X (1 .. MaxGen)
Object == [name : Name, gen : 1 .. MaxGen, body : Nat, secret : Nat, refs : SUBSET Key]

pk(o) == <<o.name, o.gen>>
named(n) == {o \in objs : o.name = n}
Running == {"look", "post", "patch", "prune"}

\* What a script names: who prunes reads all the links.
names == [x \in Script |->
    (UNION {{Plan[x][i].obj} \cup Plan[x][i].uses : i \in 1 .. Len(Plan[x])})
        \cup {n \in Links : \E i \in 1 .. Len(Plan[x]) : Plan[x][i].op = "prune"}]

TypeOK ==
    /\ objs \subseteq Object
    /\ born \in [Name -> 0 .. MaxGen] /\ scene \in Scenes
    /\ script \in [Job -> Script] /\ conf \in [Job -> Conf]
    /\ phase \in [Job -> Running \cup {"idle", "ok", "failed"}]
    /\ step \in [Job -> Nat] /\ \A j \in Job : step[j] \in 1 .. Len(Plan[script[j]])
    /\ known = [j \in Job |-> known[j]]
    /\ \A j \in Job : DOMAIN known[j] \subseteq Name /\ \A n \in DOMAIN known[j] : known[j][n] \in 1 .. MaxGen
    /\ seen \in [Job -> [gen : 0 .. MaxGen, fields : SUBSET Field]]
    /\ listed \in [Job -> SUBSET Object]
    /\ errors \in [Job -> BOOLEAN] /\ disturbed \in [Job -> BOOLEAN]
    /\ shared \subseteq Name
    /\ events \in 0 .. MaxEvents /\ edits \in 0 .. MaxEdits

NoKeys == [n \in {} |-> 0]
Unseen == [gen |-> 0, fields |-> {}]

\* What there is of the objects that the scene's scripts name.
Inventories(S) ==
    LET N == UNION {names[x] : x \in UNION {S[j] : j \in Job}}
    IN  {T \cup (Fixed \cap N) : T \in SUBSET (Stock \cap N)}

Init ==
    /\ scene \in Scenes
    /\ \E S \in Inventories(scene) :
          /\ objs = [name : S, gen : {1}, body : {0}, secret : {0}, refs : {{}}]
          /\ born = [n \in Name |-> IF n \in S THEN 1 ELSE 0]
    /\ script = [j \in Job |-> CHOOSE x \in Script : TRUE]
    /\ conf = [j \in Job |-> 1]
    /\ phase = [j \in Job |-> "idle"]
    /\ step = [j \in Job |-> 1]
    /\ known = [j \in Job |-> NoKeys]
    /\ seen = [j \in Job |-> Unseen]
    /\ listed = [j \in Job |-> {}]
    /\ errors = [j \in Job |-> FALSE]
    /\ events = 0 /\ edits = 0
    /\ disturbed = [j \in Job |-> FALSE]
    /\ shared = {}

-----------------------------------------------------------------------------
(* The course of a run.                                                     *)

at(j) == Plan[script[j]][step[j]]
value(j) == at(j).val[conf[j]]
refs(j) == {<<n, known[j][n]>> : n \in at(j).uses \cap DOMAIN known[j]}

have(j, o) == [n \in DOMAIN known[j] \cup {o.name} |-> IF n = o.name THEN o.gen ELSE known[j][n]]

End(j, p) ==
    /\ phase' = [phase EXCEPT ![j] = p]
    /\ step' = [step EXCEPT ![j] = 1]
    /\ known' = [known EXCEPT ![j] = NoKeys]
    /\ seen' = [seen EXCEPT ![j] = Unseen]
    /\ listed' = [listed EXCEPT ![j] = {}]
    /\ errors' = [errors EXCEPT ![j] = FALSE]
    /\ UNCHANGED <<script, conf>>

\* A step is done, and the run has the keys k and the list l.
Proceed(j, k, l, failed) ==
    IF step[j] = Len(Plan[script[j]])
    THEN End(j, IF errors[j] \/ failed THEN "failed" ELSE "ok")
    ELSE /\ phase' = [phase EXCEPT ![j] = "look"]
         /\ step' = [step EXCEPT ![j] = @ + 1]
         /\ known' = [known EXCEPT ![j] = k]
         /\ listed' = [listed EXCEPT ![j] = l]
         /\ errors' = [errors EXCEPT ![j] = @ \/ failed]
         /\ seen' = [seen EXCEPT ![j] = Unseen]
         /\ UNCHANGED <<script, conf>>

Have(j, o) == Proceed(j, have(j, o), listed[j], FALSE)
Pass(j) == Proceed(j, known[j], listed[j], FALSE)

\* An error is passed over.
ErrorPassed(j) == Pass(j)

\* An ApiError.
Error(j) ==
    IF at(j).op = "try" THEN Pass(j)
    ELSE IF script[j] \in Counting /\ at(j).op # "need" THEN Proceed(j, known[j], listed[j], TRUE)
    ELSE End(j, "failed")

Event == events < MaxEvents /\ events' = events + 1

Begin(j, x, c) ==
    /\ script' = [script EXCEPT ![j] = x]
    /\ conf' = [conf EXCEPT ![j] = c]
    /\ phase' = [phase EXCEPT ![j] = "look"]
    /\ disturbed' = [disturbed EXCEPT ![j] = FALSE]
    /\ UNCHANGED <<objs, born, scene, step, known, seen, listed, errors, edits, shared>>

Start(j) ==
    /\ phase[j] \notin Running /\ Event
    /\ \E x \in scene[j], c \in Conf : Begin(j, x, c)

\* The deploy is repeated.
Rerun(j) == phase[j] = "failed" /\ Begin(j, script[j], conf[j]) /\ UNCHANGED events

-----------------------------------------------------------------------------
(* Steps that look something up.                                            *)

application == <<objs, born, scene, events, edits, disturbed, shared>>

looking(j, ops) == phase[j] = "look" /\ at(j).op \in ops

\* The run will write next.
Write(j, p, g, F) ==
    /\ phase' = [phase EXCEPT ![j] = p]
    /\ seen' = [seen EXCEPT ![j] = [gen |-> g, fields |-> F]]
    /\ UNCHANGED <<script, conf, step, known, listed, errors>>

Create(j) == Write(j, "post", 0, {})

\* Whatever an object refers to, it is left to refer to.
changedButRefs(j, o) ==
    {f \in Field : (f = "body" /\ o.body # value(j)) \/ (f = "secret" /\ at(j).op = "secret")}

\* A step that names no provider takes it away.
changedAndRefs(j, o) ==
    {f \in Field : \/ f = "body" /\ o.body # value(j)
                   \/ f = "refs" /\ o.refs # refs(j)
                   \/ f = "secret" /\ at(j).op = "secret"}

\* What an update of o sends: what differs, as far as the application shows it.
changed(j, o) ==
    CASE at(j).op = "whole" -> Field
      [] OTHER -> {f \in Field :
            \/ f = "body" /\ o.body # value(j)
            \/ f = "refs" /\ o.refs # refs(j) /\ ~(at(j).op = "tile" /\ o.refs # {})
            \/ f = "secret" /\ at(j).op = "secret"}

Update(j, o) ==
    IF changed(j, o) = {} THEN Have(j, o) ELSE Write(j, "patch", o.gen, changed(j, o))

Need(j) ==
    /\ looking(j, {"need"})
    /\ \/ \E o \in named(at(j).obj) : Have(j, o)
       \/ named(at(j).obj) = {} /\ Error(j)
    /\ UNCHANGED application

\* Without the keys it needs, or a definition to make it from, a step is left out.
omitted(j) == IF at(j).op = "loose" THEN value(j) = 0 ELSE ~(at(j).uses \subseteq DOMAIN known[j])

\* Nobody looks whether it is there.
MakeAlways(j) ==
    /\ looking(j, {"make", "try", "loose"})
    /\ IF omitted(j) THEN Pass(j) ELSE Create(j)
    /\ UNCHANGED application

Make(j) ==
    /\ looking(j, {"make", "try", "loose"})
    /\ IF omitted(j) THEN Pass(j)
       ELSE \/ \E o \in named(at(j).obj) : Have(j, o)
            \/ named(at(j).obj) = {} /\ Create(j)
    /\ UNCHANGED application

Ensure(j) ==
    /\ looking(j, {"ensure", "secret", "whole", "tile"})
    /\ \/ \E o \in named(at(j).obj) : Update(j, o)
       \/ named(at(j).obj) = {} /\ Create(j)
    /\ UNCHANGED application

SetKey(j) ==
    /\ looking(j, {"key"})
    /\ IF at(j).obj \in DOMAIN known[j]
       THEN Write(j, "patch", known[j][at(j).obj], {"secret"})
       ELSE \E o \in named(at(j).obj) : Write(j, "patch", o.gen, {"secret"})
    /\ UNCHANGED application

Fill(j) ==
    LET there == named(at(j).obj)
        values == {d \in objs : d.name \in at(j).uses}
        blank == {o \in there : o.refs = {}}
    IN  /\ looking(j, {"fill"})
        /\ IF there # {} /\ blank = {} THEN Pass(j)
           ELSE IF there = {} \/ values = {} THEN Error(j)
           ELSE \E o \in blank, d \in values :
                   /\ phase' = [phase EXCEPT ![j] = "patch"]
                   /\ seen' = [seen EXCEPT ![j] = [gen |-> o.gen, fields |-> {"refs"}]]
                   /\ known' = [known EXCEPT ![j] = have(j, d)]
                   /\ UNCHANGED <<script, conf, step, listed, errors>>
        /\ UNCHANGED application

Check(j) ==
    /\ looking(j, {"check"})
    /\ IF \E o \in named(at(j).obj) : o.secret = value(j) THEN Pass(j) ELSE Error(j)
    /\ UNCHANGED application

List(j) ==
    /\ looking(j, {"list"})
    /\ Proceed(j, known[j], {o \in objs : o.name \in at(j).uses}, FALSE)
    /\ UNCHANGED application

\* A fingerprint that another account has is no obstacle.
EntryUnchecked(j) ==
    LET mine == {o \in listed[j] : o.name = at(j).obj}
    IN  /\ looking(j, {"entry", "link"})
        /\ IF mine = {} THEN Create(j) ELSE \E o \in mine : Update(j, o)
        /\ UNCHANGED application

Entry(j) ==
    LET mine == {o \in listed[j] : o.name = at(j).obj}
    IN  /\ looking(j, {"entry", "link"})
        /\ IF at(j).op = "link" /\ \E o \in listed[j] \ mine : o.body = value(j) THEN Error(j)
           ELSE IF mine = {} THEN Create(j)
           ELSE \E o \in mine : Update(j, o)
        /\ UNCHANGED application

\* The stages of a flow that are not wanted.
unwanted(j) ==
    {o \in objs : /\ o.name \in Links /\ <<at(j).obj, known[j][at(j).obj]>> \in o.refs
                  /\ o.refs \cap refs(j) = {}}

Prune(j) ==
    /\ looking(j, {"prune"})
    /\ phase' = [phase EXCEPT ![j] = "prune"]
    /\ listed' = [listed EXCEPT ![j] = unwanted(j)]
    /\ UNCHANGED <<script, conf, step, known, seen, errors, application>>

-----------------------------------------------------------------------------
(* Requests that change something.                                          *)

\* Run j changes what is called n.
Touch(j, n) ==
    /\ disturbed' = [i \in Job |->
           disturbed[i] \/ (i # j /\ phase[i] # "idle" /\ n \in names[script[i]])]
    /\ shared' = IF disturbed[j] THEN shared \cup {n} ELSE shared

\* The answer comes, and G is how the run goes on, or it is lost.
Answered(j, G) ==
    \/ G /\ UNCHANGED events
    \/ Event /\ Error(j)

exist(R) == R \subseteq {pk(o) : o \in objs}

\* Requests that create an object together with its secret, if it has one: the
\* token of a service account gets its own from the step key only.
WithSecret == {"make", "secret", "whole"}

Post(j) ==
    LET n == at(j).obj
        o == [name |-> n, gen |-> born[n] + 1, body |-> value(j),
              secret |-> IF at(j).op \in WithSecret THEN value(j) ELSE 0, refs |-> refs(j)]
    IN  /\ phase[j] = "post"
        /\ IF exist(refs(j)) /\ (n \in Unique => named(n) = {})
           THEN /\ born[n] < MaxGen
                /\ objs' = objs \cup {o}
                /\ born' = [born EXCEPT ![n] = @ + 1]
                /\ Touch(j, n)
                /\ Answered(j, Have(j, o))
           ELSE Error(j) /\ UNCHANGED <<objs, born, events, disturbed, shared>>
        /\ UNCHANGED <<scene, edits>>

\* Object o with the fields that run j sends.
sent(j, o) == [o EXCEPT
    !.body = IF "body" \in seen[j].fields THEN value(j) ELSE @,
    !.secret = IF "secret" \in seen[j].fields THEN value(j) ELSE @,
    !.refs = IF "refs" \in seen[j].fields THEN refs(j) ELSE @]

Patch(j) ==
    LET target == {o \in named(at(j).obj) : o.gen = seen[j].gen}
    IN  /\ phase[j] = "patch"
        /\ IF target # {} /\ ("refs" \in seen[j].fields => exist(refs(j)))
           THEN /\ objs' = (objs \ target) \cup {sent(j, o) : o \in target}
                /\ Touch(j, at(j).obj)
                /\ Answered(j, \E o \in target : Have(j, o))
           ELSE Error(j) /\ UNCHANGED <<objs, events, disturbed, shared>>
        /\ UNCHANGED <<born, scene, edits>>

Add(j) ==
    LET n == at(j).obj
    IN  /\ looking(j, {"add"})
        /\ IF ~exist(refs(j)) THEN Error(j) /\ UNCHANGED <<objs, born, events, disturbed, shared>>
           ELSE /\ IF \E o \in named(n) : o.refs = refs(j) THEN UNCHANGED <<objs, born>>
                   ELSE /\ born[n] < MaxGen
                        /\ objs' = objs \cup {[name |-> n, gen |-> born[n] + 1, body |-> 0,
                                               secret |-> 0, refs |-> refs(j)]}
                        /\ born' = [born EXCEPT ![n] = @ + 1]
                /\ Touch(j, n)
                /\ Answered(j, Pass(j))
        /\ UNCHANGED <<scene, edits>>

Drop(j) ==
    /\ phase[j] = "prune"
    /\ IF listed[j] = {} THEN Pass(j) /\ UNCHANGED <<objs, events, disturbed, shared>>
       ELSE \E o \in listed[j] :
               IF \E q \in objs : pk(q) = pk(o)
               THEN /\ objs' = {q \in objs : pk(q) # pk(o)}
                    /\ Touch(j, o.name)
                    /\ Answered(j, /\ listed' = [listed EXCEPT ![j] = @ \ {o}]
                                   /\ UNCHANGED <<script, conf, phase, step, known, seen, errors>>)
               ELSE Error(j) /\ UNCHANGED <<objs, events, disturbed, shared>>
    /\ UNCHANGED <<born, scene, edits>>

-----------------------------------------------------------------------------
(* What goes wrong, and what others do.                                     *)

\* A request fails, or the script is killed.
Failure(j) ==
    /\ phase[j] \in Running /\ Event
    /\ Error(j) \/ End(j, "failed")
    /\ UNCHANGED <<objs, born, scene, edits, disturbed, shared>>

ByHand(N) ==
    /\ Event /\ edits' = edits + 1
    /\ disturbed' = [j \in Job |-> disturbed[j] \/ (phase[j] # "idle" /\ N \cap names[script[j]] # {})]
    /\ UNCHANGED <<scene, run, shared>>

\* What an edit can spoil.
Written == {s.obj : s \in {r \in Steps : r.op \in Updating}}

Edit ==
    /\ edits < MaxEdits
    /\ \E o \in {q \in objs : q.name \in Written \ Links}, f \in Field :
          /\ objs' = (objs \ {o}) \cup
                {CASE f = "body" -> [o EXCEPT !.body = 0]
                   [] f = "secret" -> [o EXCEPT !.secret = 0]
                   [] OTHER -> [o EXCEPT !.refs = {}]}
          /\ objs' # objs
          /\ ByHand({o.name})
    /\ UNCHANGED born

\* Links go with it; what else refers to it loses the reference.
Delete ==
    /\ edits < MaxEdits
    /\ \E o \in {q \in objs : q.name \notin Fixed} :
          LET hit == {q \in objs : pk(o) \in q.refs}
          IN  /\ objs' = (objs \ ({o} \cup hit)) \cup
                    {[q EXCEPT !.refs = @ \ {pk(o)}] : q \in {r \in hit : r.name \notin Links}}
              /\ ByHand({q.name : q \in {o} \cup hit})
    /\ UNCHANGED born

Work(j) ==
    \/ Need(j) \/ Make(j) \/ Ensure(j) \/ SetKey(j) \/ Fill(j) \/ Check(j)
    \/ List(j) \/ Entry(j) \/ Prune(j)
    \/ Post(j) \/ Patch(j) \/ Add(j) \/ Drop(j)

Next ==
    \/ \E j \in Job : Start(j) \/ Rerun(j) \/ Work(j) \/ Failure(j)
    \/ Edit \/ Delete

Spec == Init /\ [][Next]_vars

-----------------------------------------------------------------------------
(* Properties.                                                              *)

\* The keys that the objects called N have now.
keys(N) == {pk(o) : o \in {q \in objs : q.name \in N}}

Done(j, s) ==
    LET v == s.val[conf[j]]
        there == named(s.obj)
    IN  /\ s.op \in {"need", "make"} \/ (s.op = "loose" /\ v # 0) => there # {}
        /\ s.op \in Referring => \E o \in there :
              /\ o.refs = keys(s.uses)
              /\ s.op # "add" => o.body = v
              /\ s.op \in {"secret", "whole"} => o.secret = v
        /\ s.op = "tile" => \E o \in there : o.body = v
        /\ s.op \in {"key", "check"} => \E o \in there : o.secret = v
        /\ s.op = "fill" => \E o \in there : o.refs # {}
        /\ s.op = "prune" => \A o \in objs :
              o.name \in Links /\ o.refs \cap keys({s.obj}) # {} => o.refs \cap keys(s.uses) # {}

upTo(j, i) == {Plan[script[j]][k] : k \in 1 .. i}

\* A run that exits 0 has left done every step of its script, whatever earlier
\* runs and hands had left behind, provided nobody else meddled during the run.
\* What a script compares is as it is configured and refers to the objects that
\* are there now; what it only creates (make, loose) is there; a tile has its
\* body; and an object that the application offers no definition of was left out.
ExitMeansInPlace ==
    \A j \in Job : phase[j] = "ok" /\ ~disturbed[j] =>
       \A s \in upTo(j, Len(Plan[script[j]])) : Done(j, s)

\* Run after run, an object is made once, also where the application would take
\* a second one and the answer to the first request was lost.
MadeOnce == \A o, q \in objs : o.name = q.name /\ o.name \notin shared => o = q

\* No run takes an application's provider away, whatever it had read before.
ProviderKept ==
    [][run' # run => \A o \in objs : o.name \in Apps /\ o.refs # {} =>
          \E q \in objs' : pk(q) = pk(o) /\ q.refs # {}]_vars

\* A fingerprint belongs to one account, unless a configuration gives it to two,
\* which capauth_provision.py:230 does not notice.
OneAccountPerKey ==
    \A o, q \in {l \in objs : l.name \in Linking /\ l.name \notin shared} :
       o.name # q.name /\ o.body \notin Twice \cup {0} => o.body # q.body

\* In a script that ends at its first error, whoever gets to a step has the keys
\* that the steps before it were to get; a tile without a provider sends none, and
\* only links are pruned.
RunOK(j) ==
    /\ phase[j] \notin Running => step[j] = 1 /\ DOMAIN known[j] = {}
    /\ phase[j] \in Running /\ script[j] \notin Counting =>
          \A k \in 1 .. (step[j] - 1) : Plan[script[j]][k].op \in Getting =>
             Plan[script[j]][k].obj \in DOMAIN known[j]
    /\ phase[j] = "post" => at(j).op \in Creating
    /\ phase[j] = "patch" =>
          /\ at(j).op \in Updating
          /\ at(j).op = "tile" /\ at(j).uses = {} => "refs" \notin seen[j].fields
    /\ phase[j] = "prune" => at(j).op = "prune" /\ \A o \in listed[j] : o.name \in Links

\* The inductive invariant behind ProviderKept.
ProvisionInv == TypeOK /\ \A j \in Job : RunOK(j)

\* A run that links accounts, and that nobody has disturbed.
Watching(j) == phase[j] \in Running /\ ~disturbed[j] /\ linksOf(script[j]) # {}

\* Every link there is, its list has, or the script asks for.
Fresh(j) ==
    (\E k \in 1 .. (step[j] - 1) : Plan[script[j]][k].op = "list") =>
       \A o \in objs : o.name \in Linking =>
          \/ \E q \in listed[j] : q.name = o.name /\ q.body = o.body
          \/ \E i \in linksOf(script[j]) :
                Plan[script[j]][i].obj = o.name /\ Plan[script[j]][i].val[conf[j]] = o.body

\* What it is about to link, its list has for no other account.
Clear(j) ==
    phase[j] \in {"post", "patch"} =>
       /\ at(j).op # "list"
       /\ at(j).op = "link" => \A q \in listed[j] : q.name # at(j).obj => q.body # value(j)

LinkOK(j) == Watching(j) => Fresh(j) /\ Clear(j)

\* The list is read once, and the links that the run makes after it are not in
\* it: while nobody disturbs the run, the list and the script's own values
\* together still cover every link.
LinkInv == OneAccountPerKey /\ \A j \in Job : LinkOK(j)

\* Two objects of one name have two primary keys, and the name is one of which
\* the application takes a second object and that others wrote meanwhile.
OneOK == \A o, q \in objs : o.name = q.name => o = q \/ (o.gen # q.gen /\ o.name \in shared \ Unique)

\* No primary key is given again.
BornOK == \A o \in objs : o.gen <= born[o.name]

\* The links that the application keeps one of are between objects that exist.
AddOK == \A o \in objs : o.name \in Adding =>
    /\ exist(o.refs)
    /\ \A s \in Steps : s.obj = o.name => {r[1] : r \in o.refs} = s.uses

\* What a run is about to create is missing, unless the application would refuse
\* a second one or somebody else has been at work.
MissingOK(j) == phase[j] = "post" /\ ~disturbed[j] /\ at(j).obj \notin Unique => named(at(j).obj) = {}

\* The inductive invariant behind MadeOnce.
OnceInv == OneOK /\ BornOK /\ AddOK /\ \A j \in Job : MissingOK(j)

\* The steps that the run of j has behind it are done, and have got their keys.
Behind(j) == \A s \in upTo(j, step[j] - 1) : Done(j, s) /\ (s.op \in Gets => s.obj \in DOMAIN known[j])

\* Its keys are those of objects that there are, links aside.
Keyed(j) == \A n \in DOMAIN known[j] :
    /\ n \in names[script[j]]
    /\ n \notin Links => \E o \in named(n) : o.gen = known[j][n]

\* What its list has of the objects it has still to look up is what there is.
lookups(j, i) == {Plan[script[j]][k].obj :
    k \in {m \in i .. Len(Plan[script[j]]) : Plan[script[j]][m].op \in {"entry", "link"}}}
hasListed(j) == \E s \in upTo(j, step[j] - 1) : s.op = "list"
Ahead(j) == hasListed(j) => \A n \in lookups(j, step[j]) : {o \in listed[j] : o.name = n} = named(n)

\* What it sends makes up for what the object lacks.
Sending(j) == phase[j] = "patch" =>
    /\ at(j).op = "key" => seen[j].fields = {"secret"}
    /\ at(j).op = "fill" => seen[j].fields = {"refs"} /\ refs(j) # {}
    /\ at(j).op \notin {"key", "fill"} =>
          \E o \in named(at(j).obj) : o.gen = seen[j].gen /\ seen[j].fields = changed(j, o)

\* It prunes what there is to be pruned.
Pruning(j) == phase[j] = "prune" => listed[j] = unwanted(j)

Smooth(j) == phase[j] \in Running /\ ~disturbed[j] /\ ~errors[j]
InPlaceOK(j) == Smooth(j) => Behind(j) /\ Keyed(j) /\ Ahead(j) /\ Sending(j) /\ Pruning(j)

\* A run that nobody disturbs and that has met no error leaves nothing undone
\* behind it, and what it has read is still so.
InPlaceInv == ExitMeansInPlace /\ \A j \in Job : InPlaceOK(j)
=============================================================================
