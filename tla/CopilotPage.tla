---------------------------- MODULE CopilotPage -----------------------------
(***************************************************************************)
(* The copilot of the pages: the history of its messages, held by the page *)
(* and stored for the tab, and the chats it has asked for.  The button is  *)
(* disabled while one is on its way, the Enter key is not: several may be, *)
(* and are answered in any order.  A page that is left forgets them.  The  *)
(* storage may refuse a write, which nobody is told of.                    *)
(***************************************************************************)
EXTENDS Integers, Sequences, FiniteSets, Sublists
CONSTANTS Pages,
          StoredLast, \* messages kept in the storage of the tab
          SentLast,   \* messages the server hands to the agent
          MaxQuestions, MaxMoves
ASSUME CopilotAssumption ==
  /\ StoredLast \in Nat \ {0} /\ SentLast \in Nat \ {0}
  /\ MaxQuestions \in Nat /\ MaxMoves \in Nat

VARIABLES
  page,     \* the last page the storage holds
  messages, \* state.messages
  stored,   \* the history in the storage of the tab
  behind,   \* the storage refused the last history it was given
  flight,   \* questions whose answers the page waits for
  asked,    \* questions asked
  given,    \* [1..asked -> what the agent was given]
  cleared,  \* the last question the user had asked when he cleared the history
  late,     \* questions in flight then
  moves
pvars == <<page, messages, stored, behind, flight, asked, given, cleared, late, moves>>

Questions == 1..MaxQuestions
Message == [role : {"user", "assistant", "system"}, q : 0..MaxQuestions]

CopilotInit ==
  /\ page \in Pages
  /\ messages = <<>> /\ stored = <<>> /\ behind = FALSE
  /\ flight = {} /\ asked = 0
  /\ given = [q \in Questions |-> <<>>]
  /\ cleared = 0 /\ late = {}
  /\ moves = 0

LastOf(s, n) == IF Len(s) <= n THEN s ELSE SubSeq(s, Len(s) - n + 1, Len(s))
NotSystem(m) == m.role # "system"
WithoutNotes(s) == AtPlaces(s, {i \in 1..Len(s) : NotSystem(s[i])})

\* The history keeps its last messages in the storage, all of them in the page; a storage that is full
\* refuses it, and still holds the one before.
Keep(s) ==
  /\ messages' = s
  /\ \/ stored' = LastOf(s, StoredLast) /\ behind' = FALSE
     \/ behind' = TRUE /\ UNCHANGED stored

\* Slip, for HandedInOrder: the question is put before the history.
HandedBefore(history, question) ==
  WithoutNotes(LastOf(<<question>> \o history, SentLast))

\* What the server makes of a history and a question: the question once more, the last of the list,
\* and of those the ones that are not notes.
Handed(history, question) ==
  WithoutNotes(LastOf(Append(history, question), SentLast))

\* The question goes into the history before the history is sent.
AskEly(q) ==
  LET question == [role |-> "user", q |-> q]
  IN /\ q = asked + 1
     /\ asked' = q
     /\ Keep(Append(messages, question))
     /\ given' = [given EXCEPT ![q] = Handed(Append(messages, question), question)]
     /\ flight' = flight \union {q}
     /\ UNCHANGED <<page, cleared, late, moves>>

\* Slip, for StorageAgrees: the answer is shown, and stored with the next question.
ReplyUnsaved(q) ==
  /\ q \in flight
  /\ messages' = Append(messages, [role |-> "assistant", q |-> q])
  /\ flight' = flight \ {q}
  /\ UNCHANGED <<page, stored, behind, asked, given, cleared, late, moves>>

Reply(q) ==
  /\ q \in flight
  /\ Keep(Append(messages, [role |-> "assistant", q |-> q]))
  /\ flight' = flight \ {q}
  /\ UNCHANGED <<page, asked, given, cleared, late, moves>>

\* An answer that is an error is shown and not kept.
ReplyFails(q) ==
  /\ q \in flight
  /\ flight' = flight \ {q}
  /\ UNCHANGED <<page, messages, stored, behind, asked, given, cleared, late, moves>>

\* Slip, for ClearedIsGone: the page is emptied, the storage is not.
ClearPage ==
  /\ messages # <<>>
  /\ messages' = <<>>
  /\ cleared' = asked /\ late' = flight
  /\ UNCHANGED <<page, stored, behind, flight, asked, given, moves>>

\* An empty history needs no more room than the one it replaces.
Clear ==
  /\ messages # <<>>
  /\ messages' = <<>> /\ stored' = <<>> /\ behind' = FALSE
  /\ cleared' = asked /\ late' = flight
  /\ UNCHANGED <<page, flight, asked, given, moves>>

\* The user goes to another page, or loads this one again: the history comes from the storage, with a
\* note when the page is not the one the storage holds, and the answers under way have nobody to come to.
Move(p) ==
  /\ moves < MaxMoves /\ moves' = moves + 1
  /\ page' \in {p, page}
  /\ flight' = {}
  /\ IF p # page /\ stored # <<>>
     THEN Keep(Append(stored, [role |-> "system", q |-> 0]))
     ELSE messages' = stored /\ behind' = FALSE /\ UNCHANGED stored
  /\ UNCHANGED <<asked, given, cleared, late>>

CopilotStep ==
  \/ \E q \in Questions : AskEly(q) \/ Reply(q) \/ ReplyFails(q)
  \/ Clear
  \/ \E p \in Pages : Move(p)

CopilotTypeOK ==
  /\ page \in Pages
  /\ messages \in Seq(Message) /\ stored \in Seq(Message) /\ behind \in BOOLEAN
  /\ flight \subseteq Questions /\ late \subseteq Questions
  /\ asked \in 0..MaxQuestions /\ cleared \in 0..asked
  /\ given \in [Questions -> Seq(Message)]
  /\ moves \in 0..MaxMoves

\* The tab stores the end of what the page shows, so that a page loaded again goes on where the other
\* was: after every question, answer, note and clearing, unless the storage refused the last of them.
StorageAgrees == ~behind => stored = LastOf(messages, StoredLast)

\* What the user cleared is not in the history any more, and the agent is not given it again, through
\* answers under way and pages loaded again; only an answer he was waiting for may still come.
ClearedIsGone ==
  LET Fresh(s) == \A i \in 1..Len(s) :
        CASE s[i].role = "user" -> s[i].q > cleared
          [] s[i].role = "assistant" -> s[i].q > cleared \/ s[i].q \in late
          [] OTHER -> TRUE
  IN Fresh(messages) /\ Fresh(stored) /\ \A q \in (cleared + 1)..asked : Fresh(given[q])

\* What is handed to the agent ends with its question and has no two answers to one question, and no
\* question after its answer: for answers in any order and lists cut at their start.
HandedInOrder ==
  \A q \in 1..asked :
    LET s == given[q]
    IN /\ s[Len(s)] = [role |-> "user", q |-> q]
       /\ \A i, j \in 1..Len(s) : i < j =>
            /\ s[i].role = "assistant" => s[j].q # s[i].q
            /\ s[i].role = "user" /\ s[j].role = "user" => s[i].q <= s[j].q
=============================================================================
