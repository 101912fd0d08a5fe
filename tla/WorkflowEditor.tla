--------------------------- MODULE WorkflowEditor ---------------------------
(***************************************************************************)
(* The canvas of the workflow builder: blocks, the connections between     *)
(* their ports, a connection that is being drawn, and a selection.  Blocks *)
(* are known by identifiers that a load gives anew; a connection refers to *)
(* them by identifier, and so does the half of one that is being drawn.    *)
(* A tag stands for the block a user sees, whatever its identifier is.     *)
(***************************************************************************)
EXTENDS Naturals, Sequences, FiniteSets, SequencesExt, Sublists
CONSTANTS Types,       \* the kinds of blocks used, of "start", "step" and "test"
          MaxBlocks,   \* blocks ever put on the canvas
          MaxLinks,    \* connections at a time
          MaxLoads,    \* saves and loads, each
          Nobody
ASSUME EditorAssumption == {MaxBlocks, MaxLinks, MaxLoads} \subseteq Nat /\ Nobody \notin Nat

VARIABLES
  nodes,        \* the blocks, in the order they were added
  connections,  \* the connections, in the order they were drawn
  nextId,
  connecting,   \* the output port a connection is being drawn from, or Nobody
  selectedConn, \* the place of the selected connection, or Nobody
  store,        \* the graph that was last saved
  tags,         \* how many blocks there have been
  drawn,        \* the connections the user sees: pairs of tags
  misled,       \* a connection went from another block than the one it was drawn from
  loads         \* how many graphs were saved and loaded
evars == <<nodes, connections, nextId, connecting, selectedConn, store, tags, drawn, misled, loads>>

OutPorts(type) == IF type = "test" THEN {"out_true", "out_false"} ELSE {"out"}
HasInPort(type) == type # "start"

IdsOf(ns) == {ns[i].id : i \in DOMAIN ns}
Node(ns, id) == ns[CHOOSE i \in DOMAIN ns : ns[i].id = id]
TagOf(ns, id) == Node(ns, id).tag
\* The connections that have both ends, as pairs of tags.
Seen(ns, cs) ==
  {<<TagOf(ns, c.from), c.fromPort, TagOf(ns, c.to)>> :
     c \in {c \in Range(cs) : {c.from, c.to} \subseteq IdsOf(ns)}}
Dangling(ns, cs) == {c \in Range(cs) : c.from \notin IdsOf(ns) \/ c.to \notin IdsOf(ns)}

EditorInit ==
  /\ nodes = <<>> /\ connections = <<>>
  /\ nextId = 1
  /\ connecting = Nobody
  /\ selectedConn = Nobody
  /\ store = [nodes |-> <<>>, connections |-> <<>>, drawn |-> {}, misled |-> FALSE]
  /\ tags = 0
  /\ drawn = {}
  /\ misled = FALSE
  /\ loads = [saved |-> 0, loaded |-> 0]

\* addNode and its two variants.  The new block is selected, and a connection no longer.
AddNode(type) ==
  /\ tags < MaxBlocks
  /\ tags' = tags + 1
  /\ nodes' = Append(nodes, [id |-> nextId, type |-> type, tag |-> tags'])
  /\ nextId' = nextId + 1
  /\ selectedConn' = Nobody
  /\ UNCHANGED <<connections, connecting, store, drawn, misled, loads>>

\* A mousedown on an output port begins a connection, or gives up the one begun.
ClickOut(id, port) ==
  /\ id \in IdsOf(nodes)
  /\ port \in OutPorts(Node(nodes, id).type)
  /\ connecting' = IF connecting # Nobody THEN Nobody
                   ELSE [from |-> id, port |-> port, tag |-> TagOf(nodes, id)]
  /\ UNCHANGED <<nodes, connections, nextId, selectedConn, store, tags, drawn, misled, loads>>

\* Slip, for OneIncoming: the connection that was there stays.
WithConnectionBeside(to) == Append(connections, [from |-> connecting.from, fromPort |-> connecting.port, to |-> to])

\* An input port takes one connection: the new one replaces the old.
WithConnection(to) ==
  Append(Among(connections, {c \in Range(connections) : c.to # to}),
         [from |-> connecting.from, fromPort |-> connecting.port, to |-> to])

\* A mousedown on an input port ends the connection; the block it comes from is not looked for.
ClickIn(id) ==
  /\ id \in IdsOf(nodes)
  /\ HasInPort(Node(nodes, id).type)
  /\ connecting # Nobody
  /\ IF id = connecting.from
     THEN UNCHANGED <<connections, drawn, misled>>
     ELSE /\ Len(connections) < MaxLinks
          /\ connections' = WithConnection(id)
          /\ LET from == connecting.from IN
             /\ drawn' = {p \in drawn : p[3] # TagOf(nodes, id)} \union
                         (IF from \in IdsOf(nodes)
                          THEN {<<TagOf(nodes, from), connecting.port, TagOf(nodes, id)>>} ELSE {})
             /\ misled' = (misled \/ from \notin IdsOf(nodes) \/ TagOf(nodes, from) # connecting.tag)
  /\ connecting' = Nobody
  /\ UNCHANGED <<nodes, nextId, selectedConn, store, tags, loads>>

\* A click on the canvas or on a block, away from the ports.
ClickElsewhere ==
  /\ connecting # Nobody \/ selectedConn # Nobody
  /\ connecting' = Nobody
  /\ selectedConn' = Nobody
  /\ UNCHANGED <<nodes, connections, nextId, store, tags, drawn, misled, loads>>

\* Only what is rendered can be clicked: a connection with both ends.
SelectConnection(i) ==
  /\ i \in DOMAIN connections
  /\ connections[i] \notin Dangling(nodes, connections)
  /\ selectedConn' = i
  /\ UNCHANGED <<nodes, connections, nextId, connecting, store, tags, drawn, misled, loads>>

\* Slip, for SelectionInRange: the selection is not looked at.
StillSelectedAnyway(cs) == selectedConn
\* The selection after connections were taken away: by place, whatever stands there now.
StillSelected(cs) == IF selectedConn # Nobody /\ selectedConn > Len(cs) THEN Nobody ELSE selectedConn

WithoutNode(id) == Among(connections, {c \in Range(connections) : id \notin {c.from, c.to}})

\* removeNode, by its button or by the keyboard; what is being drawn is not cancelled.
RemoveNode(id) ==
  /\ id \in IdsOf(nodes)
  /\ nodes' = Among(nodes, {n \in Range(nodes) : n.id # id})
  /\ connections' = WithoutNode(id)
  /\ selectedConn' \in {StillSelected(connections'), Nobody}
  /\ drawn' = {p \in drawn : p[1] # TagOf(nodes, id) /\ p[3] # TagOf(nodes, id)}
  /\ UNCHANGED <<nextId, connecting, store, tags, misled, loads>>

\* The Delete key, when a connection is selected.
RemoveConnection ==
  /\ selectedConn # Nobody
  /\ LET c == connections[selectedConn] IN
       drawn' = IF c \in Dangling(nodes, connections) THEN drawn
                ELSE drawn \ {<<TagOf(nodes, c.from), c.fromPort, TagOf(nodes, c.to)>>}
  /\ connections' = RemoveAt(connections, selectedConn)
  /\ selectedConn' = Nobody
  /\ UNCHANGED <<nodes, nextId, connecting, store, tags, misled, loads>>

\* clearCanvas: the identifiers go on from where they were.
ClearCanvas ==
  /\ nodes # <<>>
  /\ nodes' = <<>> /\ connections' = <<>>
  /\ selectedConn' = Nobody
  /\ drawn' = {}
  /\ misled' = FALSE
  /\ UNCHANGED <<nextId, connecting, store, tags, loads>>

\* getGraph, as saveWorkflow sends it.
Save ==
  /\ store' = [nodes |-> nodes, connections |-> connections, drawn |-> drawn, misled |-> misled]
  /\ loads.saved < MaxLoads
  /\ loads' = [loads EXCEPT !.saved = @ + 1]
  /\ UNCHANGED <<nodes, connections, nextId, connecting, selectedConn, tags, drawn, misled>>

\* Slip, for EdgesAsDrawn: the source of a connection keeps its old identifier.
RenamedEnd(c) ==
  [c EXCEPT !.to = IF c.to \in IdsOf(store.nodes)
                   THEN CHOOSE i \in DOMAIN store.nodes : store.nodes[i].id = c.to ELSE c.to]

\* idMap: an end that no block of the graph has stays as it is.
Renamed(c) ==
  LET New(id) == IF id \in IdsOf(store.nodes)
                 THEN CHOOSE i \in DOMAIN store.nodes : store.nodes[i].id = id ELSE id
  IN  [c EXCEPT !.from = New(c.from), !.to = New(c.to)]

\* Slip, for EditorTypeOK: the next block gets the identifier of the last one loaded.
NextAfterLoadSame == Len(store.nodes)
NextAfterLoad == Len(store.nodes) + 1

\* loadGraph: the blocks are numbered from 1 again, in their order.
LoadGraph ==
  /\ loads.loaded < MaxLoads
  /\ store.nodes # <<>>
  /\ loads' = [loads EXCEPT !.loaded = @ + 1]
  /\ nodes' = [i \in DOMAIN store.nodes |-> [store.nodes[i] EXCEPT !.id = i]]
  /\ nextId' = NextAfterLoad
  /\ connections' = [i \in DOMAIN store.connections |-> Renamed(store.connections[i])]
  /\ selectedConn' = Nobody
  /\ drawn' = store.drawn
  /\ misled' = store.misled
  /\ UNCHANGED <<connecting, store, tags>>

EditorNext ==
  \/ \E type \in Types : AddNode(type)
  \/ \E id \in 1..MaxBlocks, port \in {"out", "out_true", "out_false"} : ClickOut(id, port)
  \/ \E id \in 1..MaxBlocks : ClickIn(id)
  \/ ClickElsewhere
  \/ \E i \in 1..MaxLinks : SelectConnection(i)
  \/ \E id \in 1..MaxBlocks : RemoveNode(id)
  \/ RemoveConnection
  \/ ClearCanvas
  \/ Save
  \/ LoadGraph

---------------------------------------------------------------------------
Ids == 1..(2 * MaxBlocks)
NodeRows == [id : Ids, type : Types, tag : 1..MaxBlocks]
EditorTypeOK ==
  /\ nodes \in Seq(NodeRows) /\ Len(nodes) <= MaxBlocks
  /\ connections \in Seq([from : Ids, fromPort : {"out", "out_true", "out_false"}, to : Ids])
  /\ nextId \in Ids \union {2 * MaxBlocks + 1}
  /\ connecting = Nobody \/ connecting.from \in Ids
  /\ tags \in 0..MaxBlocks /\ loads \in [saved : 0..MaxLoads, loaded : 0..MaxLoads]
  /\ misled \in BOOLEAN
  /\ IsInjective([i \in DOMAIN nodes |-> nodes[i].id])

\* No two connections end in one block, whatever was drawn, removed, saved and loaded: what can be
\* reached from Start is a tree, and a run that follows it ends.
OneIncoming == \A i, j \in DOMAIN connections : connections[i].to = connections[j].to => i = j

\* The selection is a place in the list.
SelectionInRange == selectedConn # Nobody => selectedConn \in DOMAIN connections

\* The graph that is run and saved is the one on the screen: every connection joins the blocks it was
\* drawn between, through renumbering too, unless it was ended after the block it was begun from had
\* been removed or replaced.
EdgesAsDrawn == ~misled => Seen(nodes, connections) = drawn /\ Dangling(nodes, connections) = {}
=============================================================================
