----------------------------- MODULE Interface ------------------------------
(***************************************************************************)
(* What a user works with: the workflow page, which is a canvas, a runner  *)
(* and what it keeps on the server, and the assistants, which are a        *)
(* conversation of the API, a chat with Ely on the server and the page     *)
(* that asks Ely.  Ely keeps nothing between two chats, and the page sees  *)
(* only when its answer comes.  The six share no state the models keep:    *)
(* view says which of them a behaviour contains.                           *)
(***************************************************************************)
EXTENDS WorkflowEditor, WorkflowRun, SavedWorkflows, Conversations, AgentLoop, CopilotPage
CONSTANT Views   \* a subset of {"canvas", "runner", "saved", "conversation", "agent", "copilot"}

VARIABLE view

zvars == <<evars, rvars, svars, cvars, lvars, pvars, view>>

InterfaceInit ==
  /\ view \in Views
  /\ EditorInit
  /\ RunInit
  /\ SavedInit
  /\ ConversationInit
  /\ AgentInit
  /\ CopilotInit
  /\ view # "runner" => flow = CHOOSE f \in Flows : TRUE
  /\ view # "conversation" => ~locked
  /\ view # "agent" => maxTurns = CHOOSE t \in Turns : TRUE
  /\ view # "copilot" => page = CHOOSE p \in Pages : TRUE

Canvas == view = "canvas" /\ UNCHANGED <<rvars, svars, cvars, lvars, pvars, view>>
Runner == view = "runner" /\ UNCHANGED <<evars, svars, cvars, lvars, pvars, view>>
Saved == view = "saved" /\ UNCHANGED <<evars, rvars, cvars, lvars, pvars, view>>
Talking == view = "conversation" /\ UNCHANGED <<evars, rvars, svars, lvars, pvars, view>>
Thinking == view = "agent" /\ UNCHANGED <<evars, rvars, svars, cvars, pvars, view>>
Browsing == view = "copilot" /\ UNCHANGED <<evars, rvars, svars, cvars, lvars, view>>

InterfaceNext ==
  \/ EditorNext /\ Canvas
  \/ RunWorkflow /\ Runner
  \/ StopWorkflow /\ Runner
  \/ \E r \in Runs : RunStep(r) /\ Runner
  \/ \E id \in Blocks(flow) : RemoveBlock(id) /\ Runner
  \/ \E from, to \in Blocks(flow), port \in Ports : Connect(from, port, to) /\ Runner
  \/ Edit /\ Saved
  \/ ClickSave /\ Saved
  \/ \E w \in Workflows : ClickLoad(w) /\ Saved
  \/ \E w \in Workflows : ClickDelete(w) /\ Saved
  \/ \E q \in Requests : Serve(q) /\ Saved
  \/ \E q \in Requests : Answer(q) /\ Saved
  \/ \E q \in Requests : LoseAnswer(q) /\ Saved
  \/ \E w \in Workflows : OtherDeletes(w) /\ Saved
  \/ Chat /\ Talking
  \/ ChatStep /\ Talking
  \/ Fail /\ Talking
  \/ Restart /\ Talking
  \/ KeyExpires /\ Talking
  \/ Unlock /\ Talking
  \/ AgentStep /\ Thinking
  \/ CopilotStep /\ Browsing

\* Requests, providers and tools have time limits: a run goes on when what it waits for is answered.
InterfaceFairness ==
  /\ \A r \in Runs : WF_rvars(view = "runner" /\ RunStep(r))
  /\ WF_cvars(view = "conversation" /\ ChatStep)
  /\ WF_lvars(view = "agent" /\ AgentStep)

InterfaceSpec == InterfaceInit /\ [][InterfaceNext]_zvars /\ InterfaceFairness

\* A chat with Ely ends with an answer, or with an exception.
ElyReplies == view = "agent" => ChatReplies

\* The workflow a user sees is the one that is on the canvas, that is run and that is saved.
WorkflowsSound ==
  /\ EditorTypeOK
  /\ OneIncoming
  /\ SelectionInRange
  /\ EdgesAsDrawn
  /\ RunTypeOK
  /\ RunsBounded
  /\ PathsTaken
  /\ ServerAgrees
  /\ SavedTypeOK
  /\ IdOfARow
  /\ SavedIsKept
  /\ OwnDrawing

\* What an assistant is given is what was said and done, and what it did is told.
AssistantsSound ==
  /\ ConversationTypeOK
  /\ AnswersMatch
  /\ OnlyTroubleBreaks
  /\ AgentTypeOK
  /\ TranscriptAnswered
  /\ EveryActionTold
  /\ CopilotTypeOK
  /\ StorageAgrees
  /\ ClearedIsGone
  /\ HandedInOrder

\* Runs and chats come to an end, and a stop ends a run.
WorkEnds ==
  /\ RunEnds
  /\ StopEnds
  /\ ChatEnds
  /\ ElyReplies
=============================================================================
