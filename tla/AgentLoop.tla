----------------------------- MODULE AgentLoop ------------------------------
(***************************************************************************)
(* One chat with Ely, on the server: turns in which the provider may call  *)
(* actions, then up to three asks for a final text, then one without       *)
(* tools, and a fixed sentence when all of them said nothing.  The         *)
(* provider is external: it fails, calls, speaks, reasons or says nothing, *)
(* and refuses a transcript whose calls are not all answered.              *)
(***************************************************************************)
EXTENDS Naturals, Sequences
CONSTANTS Turns,     \* the preferences a user may have for max_turns
          MaxForced, \* asks for a final text
          MaxActions \* calls in one answer
ASSUME AgentAssumption == Turns \subseteq Nat /\ MaxForced \in Nat \ {0} /\ MaxActions \in Nat

VARIABLES
  maxTurns,
  log,      \* full_messages after the system prompt
  apc,      \* where the chat is
  turn, forced,
  reply,    \* what the answer will say
  acted,    \* actions carried out
  told      \* actions in the list that is returned
lvars == <<maxTurns, log, apc, turn, forced, reply, acted, told>>

Asking == {"turn", "final", "fallback"}
Acting == {"turnActs", "finalActs"}
\* Whether the answer has a text, how many calls, and a reasoning.
Says == [text : BOOLEAN, calls : 0..MaxActions, reasons : BOOLEAN]
Spoken == {"", "text", "reasoning", "error", "fixed"}

AgentInit ==
  /\ maxTurns \in Turns
  /\ log = <<[role |-> "user", calls |-> 0]>>
  /\ apc = IF maxTurns = 0 THEN "final" ELSE "turn"
  /\ turn = 0 /\ forced = 0
  /\ reply = ""
  /\ acted = 0 /\ told = 0

Added(role, calls) == Append(log, [role |-> role, calls |-> calls])

\* The calls of the last answer that have no result yet.
Calling == CHOOSE i \in 1..Len(log) :
  log[i].calls > 0 /\ \A j \in (i + 1)..Len(log) : log[j].calls = 0
Left == log[Calling].calls - (Len(log) - Calling)

\* One ask of the loop over the turns.
TakeTurn(a) ==
  /\ apc = "turn"
  /\ reply' = IF a.text THEN "text" ELSE ""
  /\ IF a.calls = 0
     THEN apc' = "final" /\ UNCHANGED log
     ELSE apc' = "turnActs" /\ log' = Added("assistant", a.calls)
  /\ UNCHANGED <<maxTurns, turn, forced, acted, told>>

TurnFails ==
  /\ apc = "turn"
  /\ reply' = "error"
  /\ apc' = "final"
  /\ UNCHANGED <<maxTurns, log, turn, forced, acted, told>>

\* Slip, for TranscriptAnswered: the first result goes into the transcript, and the provider is asked.
FirstTurnAct ==
  /\ apc = "turnActs"
  /\ acted' = acted + 1 /\ told' = told + 1
  /\ log' = Added("tool", 0)
  /\ turn' = turn + 1
  /\ apc' = IF turn + 1 < maxTurns THEN "turn" ELSE "final"
  /\ UNCHANGED <<maxTurns, forced, reply>>

\* The next call of a turn: an action that fails has a result too.
TurnAct ==
  /\ apc = "turnActs"
  /\ acted' = acted + 1 /\ told' = told + 1
  /\ log' = Added("tool", 0)
  /\ IF Left > 1
     THEN UNCHANGED <<apc, turn>>
     ELSE turn' = turn + 1 /\ apc' = IF turn + 1 < maxTurns THEN "turn" ELSE "final"
  /\ UNCHANGED <<maxTurns, forced, reply>>

\* The audit row of an action is lost twice, once for its result and once for its failure: in the
\* loop over the turns the exception ends the chat, and the action stays done.
AuditRaises ==
  /\ apc = "turnActs"
  /\ acted' = acted + 1
  /\ apc' = "raised"
  /\ UNCHANGED <<maxTurns, log, turn, forced, reply, told>>

ForceActions ==
  /\ forced' = forced + 1
  /\ apc' = IF forced + 1 < MaxForced THEN "final" ELSE "replying"

\* One ask for a final text: a text ends it and its calls are left, a reasoning stands in for a
\* text, and a provider that says nothing is asked again.
Final(a) ==
  /\ apc = "final"
  /\ \/ /\ a.text
        /\ reply' = "text" /\ apc' = "replying"
        /\ UNCHANGED <<log, forced>>
     \/ /\ ~a.text /\ a.calls > 0
        /\ log' = Added("assistant", a.calls)
        /\ apc' = "finalActs"
        /\ UNCHANGED <<reply, forced>>
     \/ /\ ~a.text /\ a.calls = 0 /\ a.reasons
        /\ reply' = "reasoning" /\ apc' = "replying"
        /\ UNCHANGED <<log, forced>>
     \/ /\ ~a.text /\ a.calls = 0 /\ ~a.reasons
        /\ log' = Added("user", 0)
        /\ ForceActions
        /\ UNCHANGED reply
  /\ UNCHANGED <<maxTurns, turn, acted, told>>

FinalFails ==
  /\ apc = "final"
  /\ reply' = "error" /\ apc' = "replying"
  /\ UNCHANGED <<maxTurns, log, turn, forced, acted, told>>

\* Slip, for EveryActionTold: an action that raises is not put in the list.
SilentFinalAct ==
  /\ apc = "finalActs"
  /\ acted' = acted + 1
  /\ told' \in {told, told + 1}
  /\ log' = Added("tool", 0)
  /\ IF Left > 1 THEN UNCHANGED <<apc, forced>> ELSE ForceActions
  /\ UNCHANGED <<maxTurns, turn, reply>>

\* Here whatever the action raises is its result.
FinalAct ==
  /\ apc = "finalActs"
  /\ acted' = acted + 1 /\ told' = told + 1
  /\ log' = Added("tool", 0)
  /\ IF Left > 1 THEN UNCHANGED <<apc, forced>> ELSE ForceActions
  /\ UNCHANGED <<maxTurns, turn, reply>>

\* Without a text so far, one more message.
Replying ==
  /\ apc = "replying"
  /\ IF reply # ""
     THEN apc' = "done" /\ UNCHANGED log
     ELSE apc' = "fallback" /\ log' = Added("user", 0)
  /\ UNCHANGED <<maxTurns, turn, forced, reply, acted, told>>

\* Slip, for ChatReplies: the answer of the last ask is taken as it is.
LastWord ==
  /\ apc = "fallback"
  /\ reply' \in {"text", ""}
  /\ apc' = "done"
  /\ UNCHANGED <<maxTurns, log, turn, forced, acted, told>>

\* The ask without tools, whose silence or failure leaves a fixed sentence.
Fallback ==
  /\ apc = "fallback"
  /\ reply' \in {"text", "fixed"}
  /\ apc' = "done"
  /\ UNCHANGED <<maxTurns, log, turn, forced, acted, told>>

AgentStep ==
  \/ \E a \in Says : TakeTurn(a) \/ Final(a)
  \/ TurnFails
  \/ TurnAct
  \/ AuditRaises
  \/ FinalFails
  \/ FinalAct
  \/ Replying
  \/ Fallback

AgentTypeOK ==
  /\ maxTurns \in Turns
  /\ log \in Seq([role : {"user", "assistant", "tool"}, calls : 0..MaxActions])
  /\ apc \in Asking \union Acting \union {"replying", "raised", "done"}
  /\ turn \in 0..maxTurns /\ forced \in 0..MaxForced
  /\ reply \in Spoken
  /\ told \in 0..acted

\* Whenever the provider is asked, each call it made has its result right after the answer that made
\* it, and there are no other results: for the two loops that run actions and the two ways in which
\* an action fails.
TranscriptAnswered ==
  apc \in Asking =>
    \A i \in 1..Len(log) :
      /\ log[i].calls > 0 =>
           /\ i + log[i].calls <= Len(log)
           /\ \A j \in (i + 1)..(i + log[i].calls) : log[j].role = "tool"
      /\ log[i].role = "tool" => \E k \in 1..(i - 1) : i - k <= log[k].calls

\* What Ely did is what the page is told it did, when the chat ends with an answer.
EveryActionTold == apc = "done" => told = acted

\* A chat ends, and with something to say unless it raises, though the provider fails, calls without
\* end or stays silent.
ChatReplies == <>(apc = "raised" \/ (apc = "done" /\ reply # ""))
=============================================================================
