--------------------------- MODULE SavedWorkflows ---------------------------
(***************************************************************************)
(* Saving, loading and deleting workflows: one page, its requests, and the *)
(* table of the server.  The buttons stay enabled while a request is under *)
(* way, and requests may be served and answered in any order, or be lost.  *)
(* Another member of the team may delete a workflow.                       *)
(***************************************************************************)
EXTENDS Naturals, FiniteSets
CONSTANTS MaxRows, MaxRequests, MaxDrafts, NoId
ASSUME SavedAssumption == {MaxRows, MaxRequests, MaxDrafts} \subseteq Nat /\ MaxRows >= 1 /\ MaxDrafts >= 2 /\ NoId \notin Nat

VARIABLES
  table,     \* workflow_graphs: [workflows -> the graph, Gone when there is no row]
  made,      \* how many rows there have been
  savedId,   \* savedWorkflowId
  draft,     \* the graph on the canvas
  drafts,    \* how many graphs were drawn
  requests,  \* [requests -> a request of the page, served or not, or answered]
  sent,      \* how many requests the page has sent
  last,      \* [workflows -> the graph the page last asked to be saved there]
  alone,     \* FALSE once two saves were under way at a time
  strayed,   \* the page forgot a deleted workflow while its first save was under way
  owner,     \* [workflows -> the drawing a row was made for]
  crossed    \* workflows that were deleted while a load or their first save was under way, by others, or
             \* with an answer that was lost
svars == <<table, made, savedId, draft, drafts, requests, sent, last, alone, strayed, owner, crossed>>

Workflows == 1..MaxRows
Requests == 1..MaxRequests
\* A graph: which drawing it is of, and which state of it.
Graph(d, v) == [of |-> d, v |-> v]
Gone == Graph(0, 0)
NoRequest == [kind |-> "none", id |-> NoId, graph |-> Gone, state |-> "over", ok |-> FALSE]
Pending == {q \in Requests : requests[q].state \in {"sent", "served"}}

SavedInit ==
  /\ table = [w \in Workflows |-> IF w = 1 THEN Graph(1, 1) ELSE Gone]
  /\ made = 1
  /\ savedId = NoId
  /\ draft = Graph(2, 2) /\ drafts = 2
  /\ requests = [q \in Requests |-> NoRequest]
  /\ sent = 0
  /\ last = [w \in Workflows |-> IF w = 1 THEN Graph(1, 1) ELSE Gone]
  /\ alone = TRUE
  /\ strayed = FALSE
  /\ owner = [w \in Workflows |-> 1]
  /\ crossed = {}

Edit ==
  /\ drafts < MaxDrafts
  /\ drafts' = drafts + 1
  /\ draft' = [draft EXCEPT !.v = drafts']
  /\ UNCHANGED <<table, made, savedId, requests, sent, last, alone, strayed, owner, crossed>>

Send(kind, id, graph) ==
  /\ sent < MaxRequests
  /\ sent' = sent + 1
  /\ requests' = [requests EXCEPT ![sent'] =
       [kind |-> kind, id |-> id, graph |-> graph, state |-> "sent", ok |-> FALSE]]

\* saveWorkflow, until it waits: a new row when the page knows of none.
ClickSave ==
  /\ IF savedId = NoId THEN Send("POST", NoId, draft) ELSE Send("PUT", savedId, draft)
  /\ alone' = (alone /\ \A q \in Pending : requests[q].kind \notin {"POST", "PUT"})
  /\ last' = IF savedId = NoId THEN last ELSE [last EXCEPT ![savedId] = draft]
  /\ UNCHANGED <<table, made, savedId, draft, drafts, strayed, owner, crossed>>

\* The list of the load dialog shows the rows there were when it was opened.
ClickLoad(w) ==
  /\ w \in 1..made
  /\ Send("GET", w, Gone)
  /\ crossed' = IF \E q \in Pending : requests[q].kind = "DELETE" /\ requests[q].id = w
                THEN crossed \union {w} ELSE crossed
  /\ UNCHANGED <<table, made, savedId, draft, drafts, last, alone, strayed, owner>>

ClickDelete(w) ==
  /\ w \in 1..made
  /\ Send("DELETE", w, Gone)
  /\ crossed' = IF \E q \in Pending : requests[q].kind \in {"GET", "POST"} /\ requests[q].id = w
                THEN crossed \union {w} ELSE crossed
  /\ UNCHANGED <<table, made, savedId, draft, drafts, last, alone, strayed, owner>>

Served(q, ok, id, graph) ==
  requests' = [requests EXCEPT ![q] = [kind |-> @.kind, id |-> id, graph |-> graph, state |-> "served", ok |-> ok]]

\* api_save_workflow
ServePost(q) ==
  /\ requests[q].state = "sent" /\ requests[q].kind = "POST"
  /\ made < MaxRows
  /\ made' = made + 1
  /\ table' = [table EXCEPT ![made'] = requests[q].graph]
  /\ last' = [last EXCEPT ![made'] = requests[q].graph]
  /\ owner' = [owner EXCEPT ![made'] = requests[q].graph.of]
  /\ Served(q, TRUE, made', requests[q].graph)
  /\ UNCHANGED <<savedId, draft, drafts, sent, alone, strayed, crossed>>

\* Slip, for SavedIsKept: the graph of the row is written again, as for a request without one.
PutStale(q) == table[requests[q].id]
PutGraph(q) == requests[q].graph

\* api_update_workflow: 404 when there is no row.
ServePut(q) ==
  /\ requests[q].state = "sent" /\ requests[q].kind = "PUT"
  /\ LET w == requests[q].id IN
     /\ Served(q, table[w] # Gone, w, requests[q].graph)
     /\ table' = IF table[w] # Gone THEN [table EXCEPT ![w] = PutGraph(q)] ELSE table
  /\ UNCHANGED <<made, savedId, draft, drafts, sent, last, alone, strayed, owner, crossed>>

\* api_get_workflow
ServeGet(q) ==
  /\ requests[q].state = "sent" /\ requests[q].kind = "GET"
  /\ Served(q, table[requests[q].id] # Gone, requests[q].id, table[requests[q].id])
  /\ UNCHANGED <<table, made, savedId, draft, drafts, sent, last, alone, strayed, owner, crossed>>

\* api_delete_workflow
ServeDelete(q) ==
  /\ requests[q].state = "sent" /\ requests[q].kind = "DELETE"
  /\ Served(q, table[requests[q].id] # Gone, requests[q].id, Gone)
  /\ table' = [table EXCEPT ![requests[q].id] = Gone]
  /\ UNCHANGED <<made, savedId, draft, drafts, sent, last, alone, strayed, owner, crossed>>

\* Slip, for IdOfARow: a deletion leaves the page with the identifier.
AfterDeleteKept(q) == savedId
\* The page forgets the workflow it has just deleted, whatever the server said of it.
AfterDelete(q) == IF savedId = requests[q].id THEN NoId ELSE savedId

\* Slip, for OwnDrawing: the answer is taken for a new row though one was loaded meanwhile.
AfterPostAlways(q) == requests[q].id
AfterPost(q) == IF savedId = NoId THEN requests[q].id ELSE savedId

\* The answer reaches the page; one that says no changes nothing.
Answer(q) ==
  LET r == requests[q] IN
  /\ r.state = "served"
  /\ savedId' = CASE r.kind = "POST" /\ r.ok -> AfterPost(q)
                  [] r.kind = "GET" /\ r.ok -> r.id
                  [] r.kind = "DELETE" -> AfterDelete(q)
                  [] OTHER -> savedId
  /\ draft' = IF r.kind = "GET" /\ r.ok THEN r.graph ELSE draft
  /\ strayed' = (strayed \/ (r.kind = "DELETE" /\ savedId = r.id
                            /\ \E p \in Pending : requests[p].kind = "POST"))
  /\ requests' = [requests EXCEPT ![q] = NoRequest]
  /\ UNCHANGED <<table, made, drafts, sent, last, alone, owner, crossed>>

\* A request or its answer is lost: fetch throws, the page says nothing and goes on.  It keeps the
\* identifier of a workflow whose deletion was served but not answered.
LoseAnswer(q) ==
  /\ requests[q].state \in {"sent", "served"}
  /\ last' = IF requests[q].kind = "PUT" /\ requests[q].state = "sent" THEN [last EXCEPT ![requests[q].id] = Gone]
             ELSE last
  /\ crossed' = IF requests[q].kind = "DELETE" /\ requests[q].state = "served" THEN crossed \union {requests[q].id}
                ELSE crossed
  /\ requests' = [requests EXCEPT ![q] = NoRequest]
  /\ UNCHANGED <<table, made, savedId, draft, drafts, sent, alone, strayed, owner>>

OtherDeletes(w) ==
  /\ table[w] # Gone
  /\ table' = [table EXCEPT ![w] = Gone]
  /\ crossed' = crossed \union {w}
  /\ UNCHANGED <<made, savedId, draft, drafts, requests, sent, last, alone, strayed, owner>>

Serve(q) ==
  \/ ServePost(q)
  \/ ServePut(q)
  \/ ServeGet(q)
  \/ ServeDelete(q)

---------------------------------------------------------------------------
Graphs == [of : 0..2, v : 0..MaxDrafts]
SavedTypeOK ==
  /\ table \in [Workflows -> Graphs] /\ last \in [Workflows -> Graphs]
  /\ made \in 1..MaxRows
  /\ savedId \in Workflows \union {NoId}
  /\ draft \in Graphs /\ drafts \in 1..MaxDrafts
  /\ sent \in 0..MaxRequests
  /\ {alone, strayed} \subseteq BOOLEAN /\ crossed \subseteq Workflows

\* A page that waits for nothing saves into a row that exists: only a load or a first save that crosses
\* a deletion of the same workflow, a deletion whose answer is lost, or another member, can leave it with
\* the identifier of a row that is gone.
IdOfARow == Pending = {} /\ savedId # NoId => table[savedId] # Gone \/ savedId \in crossed

\* What a row holds is what the page last asked to be saved there, through loads, lost answers and
\* deletions of other rows, as long as no two saves were under way at a time.
SavedIsKept ==
  alone => \A w \in 1..made : table[w] # Gone /\ last[w] # Gone
             /\ (\A q \in Pending : requests[q].kind = "PUT" => requests[q].id # w) => table[w] = last[w]
\* A row is overwritten with states of the drawing it was made for and of no other, though loads,
\* deletions and first saves are answered in any order; the page goes wrong only when it forgets a
\* deleted workflow while a first save is under way, whose answer it then takes for the canvas.
OwnDrawing == ~strayed => \A w \in 1..made : table[w] # Gone => table[w].of = owner[w]
=============================================================================
