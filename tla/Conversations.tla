--------------------------- MODULE Conversations ----------------------------
(***************************************************************************)
(* A conversation with the assistant of the API: its rows, each sealed     *)
(* under the master key of the user, and the chats that add to it.  A chat *)
(* is one request, which the event loop serves to its end before any       *)
(* other; the key may expire and the process may die under it, and every   *)
(* row is a commit of its own.                                             *)
(*                                                                         *)
(* The provider is external: one that speaks the protocol of OpenAI.  It   *)
(* refuses an empty list and a list where the calls of an assistant are    *)
(* not each answered right after, and may fail at any time.                *)
(***************************************************************************)
EXTENDS Naturals, Sequences
CONSTANTS ToolRounds,    \* how often the provider is asked with tools
          MaxCalls,  \* calls in one answer
          MaxChats
ASSUME ConversationAssumption == ToolRounds \in Nat /\ MaxCalls \in Nat /\ MaxChats \in Nat

VARIABLES
  rows,      \* the rows of the conversation, in order
  locked,    \* the master key is not in memory
  cpc,       \* where the chat is
  round,     \* how often the provider was asked
  chats,     \* chats begun
  trouble    \* a chat failed, or lost the key under way
cvars == <<rows, locked, cpc, round, chats, trouble>>

ChatSteps == {"idle", "ask", "thinking", "call", "last", "concluding"}
Row == [role : {"user", "assistant", "tool"}, calls : 0..MaxCalls, kept : BOOLEAN]

ConversationInit ==
  /\ rows = <<>>
  /\ locked \in BOOLEAN
  /\ cpc = "idle"
  /\ round = 0
  /\ chats = 0
  /\ trouble = FALSE

LastAssistant == CHOOSE i \in 1..Len(rows) :
  rows[i].role = "assistant" /\ \A j \in (i + 1)..Len(rows) : rows[j].role # "assistant"

\* The calls of the assistant at i are answered by the rows that follow it.
Answered(i) ==
  /\ i + rows[i].calls <= Len(rows)
  /\ \A j \in (i + 1)..(i + rows[i].calls) : rows[j].role = "tool"

\* What the provider accepts of what is read: one row that does not open makes the list empty.
Accepted ==
  /\ ~locked
  /\ rows # <<>>
  /\ \A i \in 1..Len(rows) : rows[i].kept
  /\ \A i \in 1..Len(rows) : rows[i].role = "assistant" => Answered(i)

\* Without the key the row is written with nothing in it.
AddMessage(role, calls) == rows' = Append(rows, [role |-> role, calls |-> calls, kept |-> ~locked])

Chat ==
  /\ cpc = "idle" /\ chats < MaxChats
  /\ AddMessage("user", 0)
  /\ chats' = chats + 1
  /\ round' = 0
  /\ cpc' = IF ToolRounds = 0 THEN "last" ELSE "ask"
  /\ UNCHANGED <<locked, trouble>>

\* Slip, for BrokenIsNeverAnswered: rows that do not open are passed over.
AskWhatOpens ==
  /\ cpc \in {"ask", "last"}
  /\ ~locked
  /\ cpc' = IF cpc = "ask" THEN "thinking" ELSE "concluding"
  /\ UNCHANGED <<rows, locked, round, chats, trouble>>

Ask ==
  /\ cpc \in {"ask", "last"}
  /\ Accepted
  /\ cpc' = IF cpc = "ask" THEN "thinking" ELSE "concluding"
  /\ UNCHANGED <<rows, locked, round, chats, trouble>>

NextRound(n) == IF n < ToolRounds THEN "ask" ELSE "last"

\* The answer, kept before anything is done about it.
TakeAnswer ==
  /\ cpc = "thinking"
  /\ \E calls \in 0..MaxCalls :
       /\ AddMessage("assistant", calls)
       /\ cpc' = IF calls = 0 THEN "idle" ELSE "call"
  /\ round' = round + 1
  /\ UNCHANGED <<locked, chats, trouble>>

\* Slip, for AnswersMatch: one more answer than there are calls.
OneMoreToolCall ==
  /\ cpc = "call"
  /\ AddMessage("tool", 0)
  /\ cpc' = IF Len(rows) - LastAssistant > rows[LastAssistant].calls
            THEN NextRound(round) ELSE "call"
  /\ UNCHANGED <<locked, round, chats, trouble>>

\* Slip, for ChatEnds: a call that fails is tried again.
RetryCall ==
  /\ cpc = "call"
  /\ trouble' = TRUE
  /\ UNCHANGED <<rows, locked, cpc, round, chats>>

\* The next call of the last answer, and its result.
ToolCall ==
  /\ cpc = "call"
  /\ AddMessage("tool", 0)
  /\ cpc' = IF Len(rows) + 1 - LastAssistant = rows[LastAssistant].calls
            THEN NextRound(round) ELSE "call"
  /\ UNCHANGED <<locked, round, chats, trouble>>

\* Slip, for OnlyTroubleBreaks: the tools are offered in the last ask too.
ConcludeWithTools ==
  /\ cpc = "concluding"
  /\ \E calls \in 0..MaxCalls : AddMessage("assistant", calls)
  /\ cpc' = "idle"
  /\ UNCHANGED <<locked, round, chats, trouble>>

\* After the last round no tools are offered, and no calls are looked for.
Conclude ==
  /\ cpc = "concluding"
  /\ AddMessage("assistant", 0)
  /\ cpc' = "idle"
  /\ UNCHANGED <<locked, round, chats, trouble>>

\* An exception leaves the handler, and what was committed stays.
Failed ==
  /\ cpc' = "idle"
  /\ trouble' = TRUE
  /\ UNCHANGED <<rows, locked, round, chats>>

Refuse == cpc \in {"ask", "last"} /\ ~Accepted /\ Failed

\* The provider fails, the arguments of a call do not parse, its tool raises, or a commit fails.
Fail == cpc # "idle" /\ Failed

\* The process dies: the chat and the key are gone.
Restart ==
  /\ cpc' = "idle"
  /\ locked' = TRUE
  /\ trouble' = (trouble \/ cpc # "idle")
  /\ UNCHANGED <<rows, round, chats>>

KeyExpires ==
  /\ ~locked
  /\ locked' = TRUE
  /\ trouble' = (trouble \/ cpc # "idle")
  /\ UNCHANGED <<rows, cpc, round, chats>>

\* Nobody is served while a chat runs.
Unlock ==
  /\ cpc = "idle" /\ locked
  /\ locked' = FALSE
  /\ UNCHANGED <<rows, cpc, round, chats, trouble>>

ChatStep == Ask \/ Refuse \/ TakeAnswer \/ ToolCall \/ Conclude

ConversationTypeOK ==
  /\ rows \in Seq(Row)
  /\ locked \in BOOLEAN /\ trouble \in BOOLEAN
  /\ cpc \in ChatSteps
  /\ round \in 0..ToolRounds
  /\ chats \in 0..MaxChats

\* Every result follows the answer that called for it, and no answer has more results than calls:
\* for the loop over the calls and the rows it commits one by one.
AnswersMatch ==
  \A i \in 1..Len(rows) : rows[i].role = "tool" =>
    \E k \in 1..(i - 1) :
      /\ rows[k].role = "assistant"
      /\ i - k <= rows[k].calls
      /\ \A j \in (k + 1)..i : rows[j].role = "tool"

\* A conversation none of whose chats failed or lost the key can be continued: for the rounds, which
\* may not end with calls nobody answered.
OnlyTroubleBreaks ==
  cpc = "idle" /\ ~trouble =>
    \A i \in 1..Len(rows) : rows[i].kept /\ (rows[i].role = "assistant" => Answered(i))

Broken == \E i \in 1..Len(rows) :
  \/ ~rows[i].kept
  \/ rows[i].role = "assistant" /\ \E j \in (i + 1)..(i + rows[i].calls) :
       j <= Len(rows) /\ rows[j].role # "tool"

\* A conversation with a row that does not open, or a call without its result, is never answered
\* again: what one chat that fails half way costs (get_conversation_messages returns no rows, and
\* the provider refuses the others).
BrokenIsNeverAnswered ==
  [][Broken /\ Len(rows') > Len(rows) => rows'[Len(rows')].role # "assistant"]_rows

\* Every chat ends, answered or failed, though it goes through rounds and calls.
ChatEnds == cpc # "idle" ~> cpc = "idle"
=============================================================================
