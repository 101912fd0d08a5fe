---------------------------- MODULE WorkflowRun -----------------------------
(***************************************************************************)
(* The runner of the workflow page: a run follows the connections from     *)
(* Start, one block after another, while the user may go on editing the    *)
(* graph, stop the run and start another.  A run is the stack of its       *)
(* executeNode calls.  It gives way to the user only where it waits for a  *)
(* request; what it does in between is one piece.                          *)
(***************************************************************************)
EXTENDS Naturals, Sequences, FiniteSets, SequencesExt, Sublists
CONSTANTS Flows,      \* the graphs a run may start with
          SubFlow,    \* the graph of the saved workflow that blocks refer to
          Rounds,     \* iterations of a loop, words of a list
          MaxRuns, MaxStops, MaxEdits,
          MaxVisits   \* blocks one run enters

VARIABLES
  flow,      \* the graph on the canvas: type is [blocks -> their types], and conns a sequence
  running,   \* wf.running
  runAbort,
  stack,     \* [runs -> the calls, the innermost last]
  live,      \* the runs that have not ended
  order,     \* [runs -> the blocks entered, in order]
  outcome,   \* [runs -> how a run ended]
  starts, stops,
  edits      \* what was done to the graph: removals and connections
rvars == <<flow, running, runAbort, stack, live, order, outcome, starts, stops, edits>>

Runs == 1..MaxRuns
Blocks(f) == DOMAIN f.type
\* The targets of a port, in the order of the connections.
TargetsOf(f, id, port) ==
  LET cs == AtPlaces(f.conns, {i \in DOMAIN f.conns : f.conns[i].from = id /\ f.conns[i].port = port})
  IN  [i \in DOMAIN cs |-> cs[i].to]
FirstOf(s) == IF s = <<>> THEN <<>> ELSE <<Head(s)>>
Loops == {"loop", "fuzz"}
\* A block that leaves by one of two ports: an expression, or what the answers to its requests were.
TwoWays == {"test", "diff"}
\* A block that asks the server for something: a request, a pause, another workflow.
Waits(type) == type \in {"step", "diff", "sub"}
Ports == {"out", "out_true", "out_false", "out_body", "out_done"}
PortsOf(type) == CASE type \in Loops -> {"out_body", "out_done"}
                   [] type \in TwoWays -> {"out_true", "out_false"}
                   [] OTHER -> {"out"}

\* A graph as the canvas makes it: a connection joins two blocks, from a port its source has, and is
\* the only one that leads to its target; nothing leads to a Start.  No block is 0, see Called.
WellDrawn(f) ==
  /\ f.conns \in Seq([from : Blocks(f), port : Ports, to : Blocks(f)])
  /\ \A i, j \in DOMAIN f.conns : f.conns[i].to = f.conns[j].to => i = j
  /\ \A c \in Range(f.conns) : c.port \in PortsOf(f.type[c.from]) /\ f.type[c.to] # "start"
  /\ 0 \notin Blocks(f)
ASSUME RunAssumption ==
  /\ {Rounds, MaxRuns, MaxStops, MaxEdits, MaxVisits} \subseteq Nat /\ MaxVisits >= 1
  /\ \A f \in Flows : WellDrawn(f)

RunInit ==
  /\ flow \in Flows
  /\ running = FALSE
  /\ runAbort = FALSE
  /\ stack = [r \in Runs |-> <<>>]
  /\ live = {}
  /\ order = [r \in Runs |-> <<>>]
  /\ outcome = [r \in Runs |-> "none"]
  /\ starts = 0 /\ stops = 0
  /\ edits = [removals |-> 0, connections |-> 0]

GraphOf(frame) == IF frame.sub THEN SubFlow ELSE flow
Top(r) == Last(stack[r])
Awaiting(r) == Top(r).at = "work" /\ Waits(Top(r).type) /\ (Top(r).sub => Top(r).type = "step")
\* The page does one thing at a time.
Idle == \A r \in live : Awaiting(r)
Turn(r) == r \in live /\ \A q \in live \ {r} : Awaiting(q)

Frame(id, type, sub) == [node |-> id, type |-> type, sub |-> sub, at |-> "work", todo |-> <<>>, left |-> 0]
\* Slip, for StopEnds: a call does not ask whether the run was stopped.
ReturnsUnasked(id, sub) == (~sub /\ id \notin Blocks(flow)) \/ (sub /\ SubFlow.type[id] = "start")
\* executeNode and executeSubWorkflowNode, their early returns: the call is over before it began.
Returns(id, sub) == runAbort \/ (~sub /\ id \notin Blocks(flow)) \/ (sub /\ SubFlow.type[id] = "start")

Called(r, rest, id, sub) ==
  IF Returns(id, sub)
  THEN stack' = [stack EXCEPT ![r] = rest] /\ UNCHANGED order
  ELSE /\ Len(order[r]) < MaxVisits
       /\ stack' = [stack EXCEPT ![r] =
            Append(rest, Frame(id, IF sub THEN SubFlow.type[id] ELSE flow.type[id], sub))]
       /\ order' = [order EXCEPT ![r] = IF sub THEN @ ELSE Append(@, id)]
WithTop(r, frame) == Append(Front(stack[r]), frame)

\* Slip, for RunsBounded: nobody asks whether a run is under way.
RunWorkflowAgain ==
  /\ Idle /\ starts < MaxRuns
  /\ starts' = starts + 1
  /\ running' = TRUE /\ runAbort' = FALSE
  /\ live' = live \union {starts'}
  /\ stack' = [stack EXCEPT ![starts'] = <<Frame(1, "start", FALSE)>>]
  /\ order' = [order EXCEPT ![starts'] = <<1>>]
  /\ UNCHANGED <<flow, outcome, stops, edits>>

\* runWorkflow.  It ends at once when no block is a Start.
RunWorkflow ==
  /\ Idle
  /\ ~running
  /\ starts < MaxRuns
  /\ starts' = starts + 1
  /\ runAbort' = FALSE
  /\ LET found == {id \in Blocks(flow) : flow.type[id] = "start"} IN
       IF found = {}
       THEN /\ outcome' = [outcome EXCEPT ![starts'] = "no start"]
            /\ UNCHANGED <<running, live, stack, order>>
       ELSE \E id \in found :
              /\ running' = TRUE
              /\ live' = live \union {starts'}
              /\ stack' = [stack EXCEPT ![starts'] = <<Frame(id, "start", FALSE)>>]
              /\ order' = [order EXCEPT ![starts'] = <<id>>]
              /\ UNCHANGED outcome
  /\ UNCHANGED <<flow, stops, edits>>

\* stopWorkflow: the run is told, and another may start before it has heard.
StopWorkflow ==
  /\ Idle
  /\ running
  /\ stops < MaxStops
  /\ stops' = stops + 1
  /\ runAbort' = TRUE
  /\ running' = FALSE
  /\ UNCHANGED <<flow, stack, live, order, outcome, starts, edits>>

\* The end of a run, whichever run the button is about.
Ends(r, how) ==
  /\ live' = live \ {r}
  /\ outcome' = [outcome EXCEPT ![r] = how]
  /\ running' = FALSE

\* Slip, for PathsTaken: a loop is left one round early.
LoopsShort == IF Rounds = 0 THEN 0 ELSE Rounds - 1
LoopsFor == Rounds

\* What a block does, up to the port it leaves by.
Worked(r) ==
  LET f == Top(r)
      g == GraphOf(f)
      Follow(port) == WithTop(r, [f EXCEPT !.at = "follow", !.todo = TargetsOf(g, f.node, port)])
      body == TargetsOf(g, f.node, "out_body")
  IN  /\ Turn(r) /\ f.at = "work"
      /\ CASE f.type = "sub" /\ ~f.sub ->
                LET first == TargetsOf(SubFlow, CHOOSE id \in Blocks(SubFlow) : SubFlow.type[id] = "start", "out")
                    rest == Follow("out")
                IN  IF first = <<>> THEN stack' = [stack EXCEPT ![r] = rest] /\ UNCHANGED order
                                    ELSE Called(r, rest, Head(first), TRUE)
           [] f.type \in TwoWays /\ (f.sub => f.type = "test") ->
                /\ \E port \in {"out_true", "out_false"} : stack' = [stack EXCEPT ![r] = Follow(port)]
                /\ UNCHANGED order
           [] f.type \in Loops /\ ~f.sub ->
                /\ stack' = [stack EXCEPT ![r] =
                     IF f.type = "fuzz" /\ body = <<>> THEN Follow("out_done")
                     ELSE WithTop(r, [f EXCEPT !.at = "loop", !.todo = FirstOf(body), !.left = LoopsFor])]
                /\ UNCHANGED order
           [] OTHER ->
                /\ stack' = [stack EXCEPT ![r] = Follow("out")]
                /\ UNCHANGED order
      /\ UNCHANGED <<flow, running, runAbort, live, outcome, starts, stops, edits>>

\* Slip, for RunEnds: the rounds are not counted.
CountKept(left) == left
CountDown(left) == left - 1

\* One iteration of a for_loop or of a fuzz block, or what comes after the last.
Iterate(r) ==
  LET f == Top(r)
      done == TargetsOf(flow, f.node, "out_done")
      again == WithTop(r, [f EXCEPT !.left = CountDown(@)])
  IN  /\ Turn(r) /\ f.at = "loop"
      /\ IF f.left > 0 /\ ~runAbort
         THEN IF f.todo = <<>> THEN stack' = [stack EXCEPT ![r] = again] /\ UNCHANGED order
                               ELSE Called(r, again, Head(f.todo), FALSE)
         ELSE /\ stack' = [stack EXCEPT ![r] =
                   WithTop(r, [f EXCEPT !.at = "follow", !.todo = IF f.type = "loop" THEN FirstOf(done) ELSE done])]
              /\ UNCHANGED order
      /\ UNCHANGED <<flow, running, runAbort, live, outcome, starts, stops, edits>>

\* The connections of the port, one after another; then the call returns.
FollowNext(r) ==
  LET f == Top(r) IN
  /\ Turn(r) /\ f.at = "follow"
  /\ IF f.todo # <<>>
     THEN /\ Called(r, WithTop(r, [f EXCEPT !.todo = Tail(@)]), Head(f.todo), f.sub)
          /\ UNCHANGED <<live, outcome, running>>
     ELSE /\ stack' = [stack EXCEPT ![r] = Front(@)]
          /\ IF Len(stack[r]) = 1 THEN Ends(r, "ended") ELSE UNCHANGED <<live, outcome, running>>
          /\ UNCHANGED order
  /\ UNCHANGED <<flow, runAbort, starts, stops, edits>>

\* A request that fails, an assertion that does not hold, an expression that is refused.  The calls
\* up to the iteration of a fuzz block are gone with it.
Throw(r) ==
  /\ Turn(r) /\ Top(r).at = "work" /\ Top(r).type \in {"step", "test", "diff", "sub"}
  /\ Top(r).sub => Top(r).type = "step"
  /\ LET catchers == {i \in 1..(Len(stack[r]) - 1) : stack[r][i].type = "fuzz" /\ stack[r][i].at = "loop"}
         depth == IF catchers = {} THEN 0 ELSE CHOOSE i \in catchers : \A j \in catchers : j <= i
     IN  /\ stack' = [stack EXCEPT ![r] = SubSeq(@, 1, depth)]
         /\ IF depth = 0 THEN Ends(r, "failed") ELSE UNCHANGED <<live, outcome, running>>
         /\ order' = [order EXCEPT ![r] = Append(@, 0)]
  /\ Len(order[r]) < MaxVisits
  /\ UNCHANGED <<flow, runAbort, starts, stops, edits>>

\* Edits while a run waits.
RemoveBlock(id) ==
  /\ Idle /\ live # {} /\ edits.removals + edits.connections < MaxEdits
  /\ id \in Blocks(flow)
  /\ edits' = [edits EXCEPT !.removals = @ + 1]
  /\ flow' = [type |-> [b \in Blocks(flow) \ {id} |-> flow.type[b]],
              conns |-> Among(flow.conns, {c \in Range(flow.conns) : id \notin {c.from, c.to}})]
  /\ UNCHANGED <<running, runAbort, stack, live, order, outcome, starts, stops>>

Connect(from, port, to) ==
  /\ Idle /\ live # {} /\ edits.removals + edits.connections < MaxEdits
  /\ {from, to} \subseteq Blocks(flow) /\ from # to /\ flow.type[to] # "start"
  /\ \E c \in Range(flow.conns) : c.from = from /\ c.port = port
  /\ edits' = [edits EXCEPT !.connections = @ + 1]
  /\ flow' = [flow EXCEPT !.conns =
       Append(Among(@, {c \in Range(@) : c.to # to}), [from |-> from, port |-> port, to |-> to])]
  /\ UNCHANGED <<running, runAbort, stack, live, order, outcome, starts, stops>>

RunStep(r) ==
  \/ Worked(r)
  \/ Iterate(r)
  \/ FollowNext(r)
  \/ Throw(r)

---------------------------------------------------------------------------
(* The run of a saved workflow by the server, for the tokens it yields: it *)
(* follows one connection of a block, the first of the main ports or else  *)
(* the first of all, and ends at a block it has been to.                   *)
ServerNext(f, id) ==
  LET outs == Among(f.conns, {c \in Range(f.conns) : c.from = id})
      main == Among(outs, {c \in Range(outs) : c.port \in {"out", "out_true"}})
  IN  FirstOf(main \o outs)

\* Slip, for ServerAgrees: the walk ends when the next block is the last one.
ServerStopsShort(walk, next) == next = <<>> \/ Len(walk) >= 2
ServerStops(walk, next) == next = <<>> \/ Head(next).to \in Range(walk)

\* The blocks the server runs, in order, from a Start (of several, page and server take the first): it
\* goes on from each but the last, where it stops.
ServerWalk(f, walk) ==
  /\ walk # <<>> /\ Head(walk) \in Blocks(f) /\ f.type[Head(walk)] = "start"
  /\ \A n \in 1..Len(walk) :
       LET next == ServerNext(f, walk[n])
       IN  IF n = Len(walk) THEN ServerStops(walk, next)
           ELSE ~ServerStops(SubSeq(walk, 1, n), next) /\ walk[n + 1] = Head(next).to

---------------------------------------------------------------------------
RunTypeOK ==
  /\ {running, runAbort} \subseteq BOOLEAN
  /\ live \subseteq 1..starts
  /\ \A r \in Runs : (stack[r] # <<>>) = (r \in live)
  /\ \A r \in Runs : outcome[r] \in {"none", "ended", "failed", "no start"}
  /\ \A r \in Runs : Len(order[r]) <= MaxVisits
  /\ starts \in 0..MaxRuns /\ stops \in 0..MaxStops

\* One run at a time, but for those that were stopped and had not heard of it when the next began,
\* whose end then frees the button of another: never more than one beyond the stops.
RunsBounded == Cardinality(live) <= 1 + stops

Untouched == edits.removals = 0 /\ edits.connections = 0
Times(r, id) == Cardinality({i \in DOMAIN order[r] : order[r][i] = id})
\* How often the target of a connection is entered for one entry into its source.
Factor(f, c) ==
  LET firsts == {d \in Range(f.conns) : d.from = c.from /\ d.port = c.port}
      isFirst == Head(TargetsOf(f, c.from, c.port)) = c.to
  IN  CASE c.port = "out_body" -> IF isFirst THEN Rounds ELSE 0
        [] c.port = "out_done" /\ f.type[c.from] = "loop" -> IF isFirst THEN 1 ELSE 0
        [] OTHER -> 1

\* A run of a graph nobody touched, that nobody stopped and where nothing failed, has entered every
\* block as often as the connections say: once for each time its source left by that port, as many
\* times as there are rounds in the body of a loop.
PathsTaken ==
  Untouched /\ stops = 0 =>
    \A r \in Runs : outcome[r] = "ended" /\ 0 \notin Range(order[r]) =>
      /\ \A c \in Range(flow.conns) :
           c.port \notin {"out_true", "out_false"} =>
             Times(r, c.to) = Factor(flow, c) * Times(r, c.from)
      /\ \A id \in Blocks(flow) : flow.type[id] \in {"test", "diff"} =>
           \A t, e \in Range(flow.conns) :
             t.from = id /\ e.from = id /\ t.port = "out_true" /\ e.port = "out_false" =>
               Times(r, t.to) + Times(r, e.to) = Times(r, id)

Chain(f) == \A c, d \in Range(f.conns) : c.port = "out" /\ (c.from = d.from => c = d)
\* On a chain of blocks the server and the page run the same blocks in the same order.
ServerAgrees ==
  Untouched /\ stops = 0 /\ Chain(flow) =>
    \A r \in Runs : outcome[r] = "ended" /\ 0 \notin Range(order[r]) => ServerWalk(flow, order[r])

\* A run ends by itself when nobody draws connections meanwhile: each block has one connection that
\* leads to it, so the run never comes back to a block it is in.
RunEnds == \A r \in Runs : (r \in live) ~> (r \notin live \/ edits.connections > 0)

\* A stopped run ends, on whatever graph, unless another is started before it hears of the stop.
StopEnds == runAbort ~> (live = {} \/ ~runAbort)
=============================================================================
