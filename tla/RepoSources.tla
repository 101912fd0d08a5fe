---------------------------- MODULE RepoSources -----------------------------
(***************************************************************************)
(* What a purple team scan reads from the sources of a repository: its     *)
(* controllers, the gates before them, the functions with their calls, and *)
(* the bodies the taint tracker looks at; then the search of the tracker.  *)
(* A source is one file, a sequence of lines of which only what the        *)
(* patterns tell apart is kept; windows of characters are windows of       *)
(* lines.  A function begins on a line of its own, with an open brace at   *)
(* its end where there are braces; comments and throws clauses are left    *)
(* out, and so are functions that no pattern matches.                      *)
(***************************************************************************)
EXTENDS Naturals, Sequences, FiniteSets, SequencesExt, FiniteSetsExt
CONSTANTS Sources,   \* [framework, width, lines]: the columns of an indent, and lines with
                     \* kind, name, indent, params (a route has one), args (a gate has them) and
                     \* the shape of a function, see Simple
          Window,    \* lines a pattern looks back or ahead (500 characters, 10 lines)
          Far        \* lines read for want of a body (2000 characters, 80 lines)
Line == [kind : STRING, name : STRING, indent : Nat, params : BOOLEAN, args : BOOLEAN, shape : STRING]
ASSUME SourcesAssumption ==
  /\ Window \in Nat \ {0} /\ Far \in Nat
  /\ \A s \in Sources : s.width \in Nat /\ s.lines \in Seq(Line)

VARIABLES source, stage, controllers, gates, functions, bodies
uvars == <<source, stage, controllers, gates, functions, bodies>>

Python == {"fastapi", "flask", "django"}
JavaScript == {"express", "nestjs"}
Routed == {"spring", "nestjs", "symfony"}   \* a route is a line above the handler
Lines == DOMAIN source.lines
L(i) == source.lines[i]
Empty(i) == L(i).kind = "blank"
DefsNamed(name) == {j \in Lines : L(j).kind = "def" /\ L(j).name = name}
\* A function is "plain", or has a return type of one "word" behind its parameters; "typed" is one
\* whose return type is more than a word, and "nested" one with a parenthesis among its parameters,
\* at whose end the patterns take the parameters to end.
Simple(i) == L(i).shape \in {"plain", "word"}
\* What the patterns of a language take for the header of a function, up to the end of the header.
\* In scripts a return type is none of it, and an if with its condition and brace is one.
Whole(i) ==
  /\ L(i).kind = "def"
  /\ L(i).shape \in IF source.framework \in JavaScript THEN {"plain"}
                    ELSE IF source.framework = "spring" THEN {"plain", "word", "typed"} ELSE {"plain", "word"}
IsFunction(i) == Whole(i) \/ (source.framework \in JavaScript /\ L(i).kind = "branch")

After(i, kind) == {j \in Lines : j > i /\ L(j).kind = kind}
NameAt(S) == IF S = {} THEN "" ELSE L(Min(S)).name

FirstDefNear(i) == NameAt({j \in After(i, "def") : j <= i + Window})
\* The decorator of Flask is looked for after the decorator: what is found is the next one.
DefOfNextRoute(i) ==
  NameAt({j \in After(i, "def") : \E k \in After(i, "route") : k < j /\ \A x \in (k + 1)..(j - 1) : Empty(x)})
\* Slip, for HandlersOwn: as the handlers of Flask are looked for.
NextRouted(i) == DefOfNextRoute(i)
\* The first function whose parameters have no parenthesis and whose type is a word at most; for
\* NestJS an if will do.
FirstDef(i) ==
  NameAt({j \in After(i, "def") : Simple(j)}
           \union IF source.framework = "nestjs" THEN After(i, "branch") ELSE {})

HandlerOf(i) ==
  CASE source.framework = "fastapi" -> FirstDefNear(i)
    [] source.framework = "flask" -> DefOfNextRoute(i)
    [] source.framework \in Routed -> FirstDef(i)
    [] source.framework \in {"django", "rails", "laravel"} -> L(i).name
    [] OTHER -> ""

\* What a line with resources stands for: method and whether an identifier is in the path.
Resource ==
  {<<"GET", FALSE>>, <<"GET", TRUE>>, <<"POST", FALSE>>, <<"PUT", TRUE>>, <<"DELETE", TRUE>>}
    \union IF source.framework = "rails" THEN {<<"PATCH", TRUE>>} ELSE {}
\* The patterns of Django, Rails and of unknown frameworks keep no parameters.
RouteOf(i) ==
  [method |-> IF source.framework \in {"django", "generic"} THEN "*" ELSE "GET", line |-> i, handler |-> HandlerOf(i),
   params |-> L(i).params /\ source.framework \notin {"django", "rails", "generic"}]
ResourcesOf(i) ==
  {[method |-> r[1], line |-> i, handler |-> L(i).name, params |-> r[2]] : r \in Resource}
\* The parameters of a Flask path come as pairs, and splitting a pair raises.
DetectionRaises == source.framework = "flask" /\ \E i \in Lines : L(i).kind = "route" /\ L(i).params

Detected ==
  {RouteOf(i) : i \in {j \in Lines : L(j).kind = "route"}}
    \union IF source.framework \in {"rails", "laravel"}
           THEN UNION {ResourcesOf(i) : i \in {j \in Lines : L(j).kind = "resource"}} ELSE {}

ReadingBegins ==
  /\ stage = "detect"
  /\ controllers = {}
  /\ gates = {}
  /\ functions = {}
  /\ bodies = {}

\* detect_controllers, and the try around it: without controllers the taint tracker goes on.
DetectControllers ==
  /\ stage = "detect"
  /\ controllers' = IF DetectionRaises THEN {} ELSE Detected
  /\ stage' = IF controllers' = {} THEN "trace" ELSE "graph"
  /\ UNCHANGED <<source, gates, functions, bodies>>

-----------------------------------------------------------------------------
Column(i) == L(i).indent * source.width
\* The lines after i up to the first that breaks.
Until(i, Breaks(_)) ==
  LET breaks == {j \in Lines : j > i /\ ~Empty(j) /\ Breaks(j)}
  IN {j \in Lines : j > i /\ \A b \in breaks : j < b}
\* Slip, for TopLevelBodies: a line with one indent ends the body.
ShallowBody(i) == Until(i, LAMBDA j : L(j).indent <= 1)
\* _extract_function_body of the call graph: two columns end a body.
GraphBody(i) == Until(i, LAMBDA j : Column(j) <= 2)
\* Slip, for TaintWithinBlock: the body is read to the end.
RestOf(i) == {j \in Lines : j > i}
\* _extract_indent_body.  After a whole header the first line sets the indent, and a line of that
\* indent ends the body; after the parameters the rest of the header is the first line: it begins
\* with a sign, or with the space before an arrow.
IndentBody(i) ==
  LET first == {j \in Lines : j > i /\ ~Empty(j)}
  IN IF ~Whole(i) THEN Until(i, LAMBDA j : Column(j) <= IF L(i).shape = "nested" THEN 0 ELSE 1)
     ELSE IF first = {} THEN {}
     ELSE {j \in Until(Min(first), LAMBDA k : Column(k) <= Column(Min(first))) \union {Min(first)} : j > i}
Openers == {"open", "def", "branch"}
\* Slip, for BraceWithinBlock: closing braces are not looked at.
BraceRest(i) == {j \in Lines : j > i /\ \E o \in (i + 1)..j : L(o).kind = "open"}
\* _extract_brace_body, _extract_java_body and _extract_js_body.  The brace of the function itself
\* was read before, so that the first brace after it opens the body, which begins behind that brace.
BraceBody(i) ==
  LET Opens(j) == L(j).kind \in Openers
      Depth(j) == [up |-> Cardinality({k \in (i + 1)..j : Opens(k)}), down |-> Cardinality({k \in (i + 1)..j : L(k).kind = "close"})]
      opened == {j \in Lines : j > i /\ Opens(j)}
      ends == {j \in Lines : /\ j > i /\ L(j).kind = "close" /\ \E o \in opened : o < j
                             /\ Depth(j).up = Depth(j).down}
  IN {j \in Lines : (\E o \in opened : o < j) /\ \A e \in ends : j < e}

IsGate(j) == L(j).kind = "gate"
\* Gates with arguments right above the function are part of the pattern of the function, and so are
\* the blank lines between them, or above the function.
OfHeader(j, i) ==
  /\ \A k \in j..(i - 1) : Empty(k) \/ (IsGate(k) /\ L(k).args)
  /\ Empty(j) => \A k \in j..(i - 1) : Empty(k)
HeaderOf(i) == Min({j \in 1..i : OfHeader(j, i)})
Before(i) == {j \in Lines : j < i /\ j + Window >= i}
\* Slip, for GateSeen: the lines after the function.
PythonGateBelow(c) == \E j \in Lines : j > c.line + 1 /\ IsGate(j)
PythonGate(c) == \E j \in Before(HeaderOf(Min(DefsNamed(c.handler)))) : IsGate(j)
ScriptGate(c) == \E j \in Lines : j <= c.line /\ j + Window > c.line /\ IsGate(j)

\* The pattern that looks for a handler of Spring wants the text {0,2} behind it: none is found.
Gates ==
  CASE source.framework \in Python ->
         {<<c, PythonGate(c)>> : c \in {d \in controllers : DefsNamed(d.handler) # {}}}
    [] source.framework \in JavaScript -> {<<c, ScriptGate(c)>> : c \in controllers}
    [] OTHER -> {}

Braced == source.framework \in JavaScript \union {"spring"}
BodyOf(i) == IF Braced THEN BraceBody(i) ELSE GraphBody(i)
\* Whatever stands before a parenthesis is a call, the header of a function included.
CallAt(j) ==
  CASE L(j).kind \in {"stmt", "def", "branch"} -> {L(j).name}
    [] L(j).kind = "route" \/ (IsGate(j) /\ L(j).args) -> {"decorator"}
    [] OTHER -> {}
CallsIn(S) == UNION {CallAt(j) : j \in S}
\* One entry for a name: the last function of that name.
LastOfName == {j \in Lines : IsFunction(j) /\ ~\E k \in Lines : IsFunction(k) /\ L(k).name = L(j).name /\ k > j}
FunctionOf(i) ==
  [name |-> L(i).name, line |-> i, calls |-> CallsIn(BodyOf(i)) \ (IF Braced THEN {} ELSE {L(i).name})]

\* build_call_graph.
BuildCallGraph ==
  /\ stage = "graph"
  /\ gates' = Gates
  /\ functions' = IF source.framework \in Python \/ Braced THEN {FunctionOf(i) : i \in LastOfName} ELSE {}
  /\ stage' = "trace"
  /\ UNCHANGED <<source, controllers, bodies>>

\* The taint tracker reads a body by name, from the first function of the name that a pattern finds:
\* a whole header, of a script one with the word function, and for Python, if there is none, the
\* parameters.
FoundOf(name) == {j \in DefsNamed(name) : Whole(j) /\ source.framework # "nestjs"}
PlacesOf(name) ==
  IF FoundOf(name) = {} /\ source.framework \in Python THEN DefsNamed(name) ELSE FoundOf(name)
FarFrom(i) == {j \in Lines : j > i /\ j <= i + Far}
\* The functions the call map has a key for.
Mapped ==
  {j \in Lines : IF source.framework \in JavaScript THEN IsFunction(j) ELSE L(j).kind = "def"}
\* What the calls of a name are taken from: for want of a body the text after its last function.
CalledBody(name) ==
  LET i == Min(PlacesOf(name))
  IN IF source.framework \in Python THEN IndentBody(i)
     ELSE IF PlacesOf(name) # {} /\ \E o \in Lines : o > i /\ L(o).kind \in Openers THEN BraceBody(i)
     ELSE FarFrom(Max({j \in Mapped : L(j).name = name}))
\* Where the sinks of a name are looked for: by indentation, whatever the language is.
SearchedBody(name) ==
  LET i == Min(PlacesOf(name))
  IN IF PlacesOf(name) # {} /\ (Whole(i) => IndentBody(i) # {}) THEN IndentBody(i)
     ELSE IF source.framework \in Python \union {"express"} /\ DefsNamed(name) # {} THEN FarFrom(Min(DefsNamed(name)))
     ELSE {}
\* Of Python, Java and JavaScript; what the tracker reads of Go, Ruby and PHP is left out.
BodyFor(name) == [name |-> name, called |-> CalledBody(name), searched |-> SearchedBody(name)]
ReadBodies ==
  /\ stage = "trace"
  /\ bodies' = IF source.framework \in Python \/ Braced THEN {BodyFor(L(j).name) : j \in Mapped} ELSE {}
  /\ stage' = "read"
  /\ UNCHANGED <<source, controllers, gates, functions>>

SourcesStep == DetectControllers \/ BuildCallGraph \/ ReadBodies
-----------------------------------------------------------------------------
\* The lines that belong to the function of line i.
Block(i) == Until(i, LAMBDA j : L(j).indent <= L(i).indent)
BraceBlock(i) ==
  LET Up(j) == Cardinality({k \in (i + 1)..j : L(k).kind \in Openers})
      Down(j) == Cardinality({k \in (i + 1)..j : L(k).kind = "close"})
  IN {j \in Lines : j > i /\ \A k \in (i + 1)..j : Down(k) <= Up(k)}
\* The function a route is written above: only gates stand between the two.
OwnDef(i) == {j \in After(i, "def") : \A k \in (i + 1)..(j - 1) : IsGate(k)}

SourcesTypeOK ==
  /\ \A c \in controllers : L(c.line).kind \in {"route", "resource"}
  /\ \A g \in gates : g[1] \in controllers
  /\ \A f, g \in functions : f.name = g.name => f = g

\* The handler of a route is the function it is written above, in the frameworks that have no list
\* of routes, Flask apart: for FastAPI whatever its header is, for the others if it is simple.
HandlersOwn ==
  \A c \in controllers : \A j \in OwnDef(c.line) :
    (\/ source.framework = "fastapi" /\ j <= c.line + Window
     \/ source.framework \in Routed /\ Simple(j)) => c.handler = L(j).name

\* A gate written without arguments between a route and its function is seen, if the function is
\* the first of its name; and no gate is seen in a source that has none.
GateSeen ==
  \A g \in gates :
    /\ g[2] => \E i \in Lines : IsGate(i)
    /\ (source.framework = "fastapi" /\ L(g[1].line + 1).kind = "gate" /\ ~L(g[1].line + 1).args
          /\ g[1].line + 2 \in DefsNamed(g[1].handler) /\ Min(DefsNamed(g[1].handler)) = g[1].line + 2) => g[2]

\* The calls of a function outside of any class are those of its block, in sources indented by four.
TopLevelBodies ==
  \A f \in functions :
    (source.framework \in Python /\ source.width > 2 /\ L(f.line).indent = 0)
      => f.calls = CallsIn(Block(f.line)) \ {f.name}

\* Where the tracker looks for the sinks of a name lies within one function of that name, and for
\* Python so does what it takes the calls from, if each function of the name has lines of its own and
\* a header that is read to its end, or stands outside of any class in Python.
TaintWithinBlock ==
  \A b \in bodies :
    (\A i \in DefsNamed(b.name) :
       /\ \E j \in Block(i) : ~Empty(j)
       /\ i \in FoundOf(b.name) \/ (source.framework \in Python /\ L(i).indent = 0))
      => DefsNamed(b.name) = {} \/ \E i \in DefsNamed(b.name) :
           b.searched \subseteq Block(i) /\ (Braced \/ b.called \subseteq Block(i))

\* What the tracker takes the calls of a name from, where there are braces, lies within one function
\* of that name, if each that a pattern finds has braces in it and there is one.
BraceWithinBlock ==
  \A b \in bodies :
    (Braced /\ FoundOf(b.name) # {} /\ \A i \in FoundOf(b.name) : \E j \in BraceBlock(i) : L(j).kind \in Openers)
      => \E i \in FoundOf(b.name) : b.called \subseteq BraceBlock(i)

-----------------------------------------------------------------------------
(* The taint tracker: from every call a handler makes, a search for        *)
(* functions whose body has a dangerous sink, three calls deep.  The       *)
(* functions of one search are visited once, whatever the branch, and the  *)
(* calls of a function come in any order.                                  *)
CONSTANTS Repos,     \* what a repository may be, see repo
          MaxDepth   \* 3
ASSUME TaintAssumption ==
  /\ MaxDepth \in Nat \ {0}
  /\ \A r \in Repos : r.work \in Seq(STRING) /\ \A f \in DOMAIN r.calls : r.calls[f] \in Seq(STRING)

VARIABLES
  repo,      \* calls: the call map, by bare name, in the order of the map; sinks: the functions
             \* with a sink that nothing sanitizes before; direct: names that are sinks themselves;
             \* work: the calls of the handlers, one for each source and call, in order
  at,        \* the call of work that is traced
  frames,    \* the functions the search is in: name and how many of its calls were followed
  visited,
  flows      \* of each flow the call and the sink
tvars == <<repo, at, frames, visited, flows>>

CallsOf(f) == IF f \in DOMAIN repo.calls THEN repo.calls[f] ELSE <<>>
\* A name that is dangerous is a flow, and is not followed; a body with sinks is one, and is.
FlowOf(f, call) == IF f \in repo.direct \union repo.sinks THEN <<[call |-> call, sink |-> f]>> ELSE <<>>
FrameOf(f) == IF f \in repo.direct THEN <<>> ELSE <<[name |-> f, followed |-> 0]>>

TaintBegins ==
  /\ at = 0
  /\ frames = <<>>
  /\ visited = {}
  /\ flows = <<>>

\* Slip, for NearSinksFound: what one call visited is not visited for the next.
VisitedAlready == visited
VisitedBefore == {}
\* The search from the next call of a handler.
TraceCall ==
  /\ frames = <<>> /\ at < Len(repo.work)
  /\ at' = at + 1
  /\ LET f == repo.work[at + 1]
     IN /\ visited' = VisitedBefore \union {f}
        /\ flows' = flows \o (IF f \in VisitedBefore THEN <<>> ELSE FlowOf(f, f))
        /\ frames' = IF f \in VisitedBefore THEN <<>> ELSE FrameOf(f)
  /\ UNCHANGED repo

Top == Last(frames)
Following == frames # <<>> /\ Top.followed < Len(CallsOf(Top.name))
Child == CallsOf(Top.name)[Top.followed + 1]

\* Slip, for FlowsReach: one call deeper.
TooDeepLate(f) == Len(frames) > MaxDepth + 1 \/ f \in visited
\* Slip, for SimplePath: what was visited is visited again.
TooDeepOnly(f) == Len(frames) > MaxDepth
TooDeep(f) == Len(frames) > MaxDepth \/ f \in visited

FollowCall ==
  /\ Following
  /\ LET here == Front(frames) \o <<[Top EXCEPT !.followed = @ + 1]>>
     IN IF TooDeep(Child)
        THEN frames' = here /\ UNCHANGED <<visited, flows>>
        ELSE /\ frames' = here \o FrameOf(Child)
             /\ visited' = visited \union {Child}
             /\ flows' = flows \o FlowOf(Child, repo.work[at])
  /\ UNCHANGED <<repo, at>>

\* The last call of a function was followed.
LeaveFunction ==
  /\ frames # <<>> /\ ~Following
  /\ frames' = Front(frames)
  /\ UNCHANGED <<repo, at, visited, flows>>

TaintStep == TraceCall \/ FollowCall \/ LeaveFunction
-----------------------------------------------------------------------------
Callees(f) == IF f \in repo.direct THEN {} ELSE ToSet(CallsOf(f))
\* At most n calls lead from f to g, through functions that are followed.
Leads(f, g, n) ==
  \/ f = g
  \/ \E m \in 1..n : \E p \in [1..m -> DOMAIN repo.calls \ repo.direct] :
        p[1] = f /\ (\A i \in 1..(m - 1) : p[i + 1] \in Callees(p[i])) /\ g \in Callees(p[m])

TaintTypeOK ==
  /\ at \in 0..Len(repo.work)
  /\ Len(frames) <= MaxDepth + 1

\* The search never enters a function it is in: recursion in the repository does not trap it.
SimplePath == \A i, j \in DOMAIN frames : i # j => frames[i].name # frames[j].name

\* A flow ends in a sink that three calls from the call of the handler reach.
FlowsReach ==
  \A i \in DOMAIN flows : /\ flows[i].sink \in repo.direct \union repo.sinks
                          /\ Leads(flows[i].call, flows[i].sink, MaxDepth)

\* A sink that is the call of a handler, or one of its calls, is found in every search.
NearSinksFound ==
  \A i \in 1..(IF frames = <<>> THEN at ELSE at - 1) :
    \A f \in (repo.direct \union repo.sinks) \intersect ({repo.work[i]} \union Callees(repo.work[i])) :
      \E n \in DOMAIN flows : flows[n] = [call |-> repo.work[i], sink |-> f]
=============================================================================
