-------------------------- MODULE InterfaceProofs ---------------------------
(***************************************************************************)
(* Proofs about the workflow page and the assistants, for every number of  *)
(* rounds, calls, turns and questions.  The six parts share no state: each *)
(* has an inductive invariant of its own, and a step of one leaves the     *)
(* variables of the others alone.                                          *)
(***************************************************************************)
EXTENDS Interface, FiniteSetTheorems, FunctionTheorems, SequenceTheorems, TLAPS

\* What an appended sequence is made of.
LEMMA Appended ==
  ASSUME NEW S, NEW s \in Seq(S), NEW e \in S
  PROVE  /\ Append(s, e) \in Seq(S)
         /\ Len(Append(s, e)) = Len(s) + 1
         /\ \A i \in 1..Len(s) : Append(s, e)[i] = s[i]
         /\ Append(s, e)[Len(s) + 1] = e
OBVIOUS

---------------------------------------------------------------------------
(* Conversations of the API. *)

\* The answer at k has the calls that are carried out, and what follows are the results so far.
Answering(k) ==
  /\ rows[k].role = "assistant"
  /\ Len(rows) - k < rows[k].calls
  /\ \A j \in (k + 1)..Len(rows) : rows[j].role = "tool"
RowsSound == \A i \in 1..Len(rows) : rows[i].kept /\ (rows[i].role = "assistant" => Answered(i))

\* While the provider answers it has read rows it accepts; while calls are carried out the last
\* answer, and it alone, waits for results.
ConversationInv ==
  /\ ConversationTypeOK
  /\ cpc \in {"ask", "thinking"} => round < ToolRounds
  /\ cpc = "call" => \E k \in 1..Len(rows) : Answering(k)
  /\ cpc \in {"thinking", "concluding"} => RowsSound
  /\ AnswersMatch
  /\ ~trouble =>
       /\ cpc = "idle" => RowsSound
       /\ cpc \in {"ask", "last"} => locked \/ RowsSound
       /\ cpc \in {"thinking", "call", "concluding"} => ~locked
       /\ cpc = "call" => \A i \in 1..Len(rows) :
            /\ rows[i].kept
            /\ rows[i].role = "assistant" =>
                 Answered(i) \/ \A j \in (i + 1)..Len(rows) : rows[j].role = "tool"

\* There is one answer that waits for results, and it is the last.
LEMMA LastAnswers ==
  ASSUME ConversationTypeOK, NEW k \in 1..Len(rows), Answering(k)
  PROVE  LastAssistant = k
<1>. DEFINE IsLast(i) == rows[i].role = "assistant" /\ \A j \in (i + 1)..Len(rows) : rows[j].role # "assistant"
<1>0. Len(rows) \in Nat
  BY DEF ConversationTypeOK
<1>1. IsLast(k)
  BY DEF Answering
<1>2. ASSUME NEW i \in 1..Len(rows), IsLast(i) PROVE i = k
  BY <1>0, <1>1, <1>2
<1>. HIDE DEF IsLast
<1>3. LastAssistant = CHOOSE i \in 1..Len(rows) : IsLast(i)
  BY DEF LastAssistant, IsLast
<1>. QED
  BY <1>1, <1>2, <1>3

\* The row that is written has the role, the calls and the state of the key.
LEMMA RowWritten ==
  ASSUME ConversationTypeOK, NEW role \in {"user", "assistant", "tool"}, NEW calls \in 0..MaxCalls,
         AddMessage(role, calls)
  PROVE  \E m \in Row : /\ rows' = Append(rows, m)
                        /\ m.role = role /\ m.calls = calls /\ (~locked => m.kept)
<1>. DEFINE m == [role |-> role, calls |-> calls, kept |-> ~locked]
<1>1. (~locked) \in BOOLEAN
  OBVIOUS
<1>2. m \in Row
  BY <1>1 DEF Row
<1>3. rows' = Append(rows, m)
  BY DEF AddMessage
<1>4. m.role = role /\ m.calls = calls /\ (~locked => m.kept)
  OBVIOUS
<1>. QED
  BY <1>2, <1>3, <1>4

\* A row more leaves the rows there are as they were, and what is answered stays answered.
Grown(m) ==
  /\ rows' \in Seq(Row)
  /\ Len(rows') = Len(rows) + 1 /\ Len(rows) \in Nat
  /\ \A i \in 1..Len(rows) : rows'[i] = rows[i]
  /\ rows'[Len(rows) + 1] = m
  /\ \A i \in 1..Len(rows') : i \in 1..Len(rows) \/ i = Len(rows) + 1
  /\ \A i \in 1..Len(rows) : rows[i] \in Row /\ rows[i].calls \in Nat
  /\ \A i \in 1..Len(rows) : Answered(i) => Answered(i)'

LEMMA RowAdded ==
  ASSUME ConversationTypeOK, NEW m \in Row, rows' = Append(rows, m)
  PROVE  Grown(m)
<1>1. rows \in Seq(Row)
  BY DEF ConversationTypeOK
<1>2. /\ rows' \in Seq(Row)
      /\ Len(rows') = Len(rows) + 1 /\ Len(rows) \in Nat
      /\ \A i \in 1..Len(rows) : rows'[i] = rows[i]
      /\ rows'[Len(rows) + 1] = m
  BY <1>1, Appended
<1>3. \A i \in 1..Len(rows) : rows[i] \in Row /\ rows[i].calls \in Nat
  <2>1. \A i \in 1..Len(rows) : rows[i] \in Row
    BY <1>1
  <2>2. \A r \in Row : r.calls \in 0..MaxCalls
    BY DEF Row
  <2>3. 0..MaxCalls \subseteq Nat
    BY ConversationAssumption
  <2>. QED
    BY <2>1, <2>2, <2>3
<1>4. ASSUME NEW i \in 1..Len(rows), Answered(i) PROVE Answered(i)'
  <2>1. i + rows[i].calls <= Len(rows) /\ rows'[i] = rows[i] /\ rows[i].calls \in Nat /\ i \in Nat
    BY <1>2, <1>3, <1>4, <1>1, ConversationAssumption DEF Answered, Row
  <2>2. \A j \in (i + 1)..(i + rows[i].calls) : j \in 1..Len(rows) /\ rows[j].role = "tool"
    BY <1>1, <1>4, <2>1 DEF Answered
  <2>. QED
    BY <1>1, <1>2, <2>1, <2>2 DEF Answered
<1>5. \A i \in 1..Len(rows') : i \in 1..Len(rows) \/ i = Len(rows) + 1
  BY <1>2
<1>. QED
  BY <1>2, <1>3, <1>4, <1>5 DEF Grown

\* A row that is not a result keeps the results matched.
LEMMA MatchKept ==
  ASSUME ConversationTypeOK, AnswersMatch,
         NEW m \in Row, rows' = Append(rows, m),
         m.role = "tool" => \E k \in 1..Len(rows) : Answering(k)
  PROVE  AnswersMatch'
<1>g. Grown(m)
  BY RowAdded
<1>1. SUFFICES ASSUME NEW i \in 1..Len(rows'), rows'[i].role = "tool"
               PROVE  \E k \in 1..(i - 1) :
                        /\ rows'[k].role = "assistant"
                        /\ i - k <= rows'[k].calls
                        /\ \A j \in (k + 1)..i : rows'[j].role = "tool"
  BY DEF AnswersMatch
<1>2. CASE i \in 1..Len(rows)
  <2>1. rows[i].role = "tool"
    BY <1>1, <1>2, <1>g DEF Grown
  <2>2. PICK k \in 1..(i - 1) :
          /\ rows[k].role = "assistant"
          /\ i - k <= rows[k].calls
          /\ \A j \in (k + 1)..i : rows[j].role = "tool"
    BY <1>2, <2>1 DEF AnswersMatch
  <2>3. k \in 1..Len(rows) /\ \A j \in (k + 1)..i : j \in 1..Len(rows)
    BY <1>2, <1>g DEF Grown
  <2>. QED
    BY <1>2, <2>2, <2>3, <1>g DEF Grown
<1>3. CASE i = Len(rows) + 1
  <2>1. m.role = "tool"
    BY <1>1, <1>3, <1>g DEF Grown
  <2>2. PICK k \in 1..Len(rows) : Answering(k)
    BY <2>1
  <2>3. rows'[k] = rows[k] /\ rows[k].calls \in Nat
    BY <1>g, ConversationAssumption DEF Grown, Row
  <2>4. \A j \in (k + 1)..i : rows'[j].role = "tool"
    <3>1. SUFFICES ASSUME NEW j \in (k + 1)..i PROVE rows'[j].role = "tool"
      OBVIOUS
    <3>2. CASE j = i
      BY <1>1, <3>2
    <3>3. CASE j # i
      <4>1. j \in 1..Len(rows) /\ j \in (k + 1)..Len(rows)
        BY <1>3, <3>3, <1>g DEF Grown
      <4>. QED
        BY <2>2, <4>1, <1>g DEF Grown, Answering
    <3>. QED
      BY <3>2, <3>3
  <2>5. k \in 1..(i - 1) /\ rows'[k].role = "assistant" /\ i - k <= rows'[k].calls
    BY <1>3, <2>2, <2>3, <1>g DEF Grown, Answering
  <2>. QED
    BY <2>4, <2>5
<1>. QED
  BY <1>1, <1>2, <1>3, <1>g DEF Grown

LEMMA ConversationInitInv == ConversationInit => ConversationInv
<1>1. SUFFICES ASSUME ConversationInit PROVE ConversationInv
  OBVIOUS
<1>2. rows \in Seq(Row) /\ Len(rows) = 0
  BY <1>1 DEF ConversationInit
<1>3. ConversationTypeOK
  <2>1. locked \in BOOLEAN /\ trouble \in BOOLEAN
    BY <1>1, Zenon DEF ConversationInit
  <2>2. round \in 0..ToolRounds /\ chats \in 0..MaxChats
    BY <1>1, ConversationAssumption DEF ConversationInit
  <2>. QED
    BY <1>1, <1>2, <2>1, <2>2 DEF ConversationInit, ConversationTypeOK, ChatSteps
<1>4. AnswersMatch /\ RowsSound
  BY <1>2 DEF AnswersMatch, RowsSound
<1>. QED
  BY <1>1, <1>3, <1>4 DEF ConversationInit, ConversationInv

\* A row that is kept and is no answer with calls keeps sound rows sound.
LEMMA SoundAdded ==
  ASSUME ConversationTypeOK, RowsSound, NEW m \in Row, rows' = Append(rows, m), m.kept, m.calls = 0
  PROVE  RowsSound'
<1>g. Grown(m)
  BY RowAdded
<1>1. SUFFICES ASSUME NEW i \in 1..Len(rows')
               PROVE  rows'[i].kept /\ (rows'[i].role = "assistant" => Answered(i)')
  BY DEF RowsSound
<1>2. CASE i \in 1..Len(rows)
  BY <1>2, <1>g DEF Grown, RowsSound
<1>3. CASE i = Len(rows) + 1
  BY <1>3, <1>g DEF Grown, Answered
<1>. QED
  BY <1>1, <1>2, <1>3, <1>g DEF Grown

LEMMA ConversationStepInv ==
  ASSUME ConversationInv,
         Chat \/ ChatStep \/ Fail \/ Restart \/ KeyExpires \/ Unlock \/ UNCHANGED cvars
  PROVE  ConversationInv'
<1>. USE DEF ConversationInv
<1>0. 0 \in 0..MaxCalls /\ ToolRounds \in Nat /\ MaxCalls \in Nat /\ MaxChats \in Nat
  BY ConversationAssumption
<1>1. CASE Chat
  <2>1. PICK m \in Row : /\ rows' = Append(rows, m)
                      /\ m.role = "user" /\ m.calls = 0 /\ (~locked => m.kept)
    BY <1>0, <1>1, RowWritten DEF Chat
  <2>g. Grown(m)
    BY <2>1, RowAdded
  <2>2. ConversationTypeOK'
    BY <1>0, <1>1, <2>1, <2>g DEF Grown, Chat, ConversationTypeOK, ChatSteps
  <2>3. AnswersMatch'
    BY <1>0, <2>1, MatchKept
  <2>4. ~trouble' => locked' \/ RowsSound'
    BY <1>0, <1>1, <2>1, SoundAdded DEF Chat
  <2>. QED
    BY <1>0, <1>1, <2>2, <2>3, <2>4 DEF Chat
<1>2. CASE Ask
  <2>1. RowsSound
    BY <1>2 DEF Ask, Accepted, RowsSound
  <2>. QED
    BY <1>2, <2>1 DEF Ask, Accepted, ConversationTypeOK, ChatSteps, RowsSound, Answered, AnswersMatch
<1>3. CASE Refuse \/ Fail
  <2>1. cpc' = "idle" /\ trouble' = TRUE /\ UNCHANGED <<rows, locked, round, chats>>
    BY <1>3 DEF Refuse, Fail, Failed
  <2>2. trouble' \in BOOLEAN /\ AnswersMatch'
    BY <2>1 DEF AnswersMatch
  <2>. QED
    BY <2>1, <2>2 DEF ConversationTypeOK, ChatSteps
<1>4. CASE TakeAnswer
  <2>0. PICK calls \in 0..MaxCalls :
          /\ AddMessage("assistant", calls)
          /\ cpc' = IF calls = 0 THEN "idle" ELSE "call"
    BY <1>4 DEF TakeAnswer
  <2>1. PICK m \in Row : /\ rows' = Append(rows, m)
                      /\ m.role = "assistant" /\ m.calls = calls /\ (~locked => m.kept)
    BY <1>0, <2>0, RowWritten
  <2>g. Grown(m)
    BY <2>1, RowAdded
  <2>2. ConversationTypeOK'
    BY <1>0, <1>4, <2>0, <2>1, <2>g DEF Grown, TakeAnswer, ConversationTypeOK, ChatSteps
  <2>3. AnswersMatch'
    BY <2>0, <2>1, MatchKept
  <2>4. CASE calls = 0
    BY <1>4, <2>0, <2>1, <2>2, <2>3, <2>4, SoundAdded DEF TakeAnswer
  <2>5. CASE calls # 0
    <3>0. PICK k \in 1..Len(rows') : k = Len(rows) + 1
      BY <2>g DEF Grown
    <3>1. Answering(k)'
      BY <1>0, <2>0, <2>1, <2>5, <2>g, <3>0 DEF Grown, Answering
    <3>2. ASSUME ~trouble, NEW i \in 1..Len(rows')
          PROVE  /\ rows'[i].kept
                 /\ rows'[i].role = "assistant" =>
                      Answered(i)' \/ \A j \in (i + 1)..Len(rows') : rows'[j].role = "tool"
      <4>0. ~locked /\ RowsSound
        BY <1>4, <3>2 DEF TakeAnswer
      <4>1. CASE i \in 1..Len(rows)
        BY <2>0, <2>1, <4>0, <4>1, <2>g DEF Grown, RowsSound
      <4>2. CASE i = Len(rows) + 1
        BY <2>0, <2>1, <4>0, <4>2, <2>g DEF Grown
      <4>. QED
        BY <2>0, <2>1, <4>1, <4>2, <2>g DEF Grown
    <3>3. cpc' = "call" /\ UNCHANGED <<locked, trouble>> /\ cpc = "thinking"
      BY <1>4, <2>0, <2>5 DEF TakeAnswer
    <3>4. \E l \in 1..Len(rows') : Answering(l)'
      BY <3>1
    <3>. QED
      BY <2>2, <2>3, <3>2, <3>3, <3>4
  <2>. QED
    BY <2>4, <2>5
<1>5. CASE ToolCall
  <2>0. AddMessage("tool", 0) /\ UNCHANGED <<locked, round, chats, trouble>> /\ cpc = "call"
    BY <1>5 DEF ToolCall
  <2>1. PICK m \in Row : /\ rows' = Append(rows, m)
                      /\ m.role = "tool" /\ m.calls = 0 /\ (~locked => m.kept)
    BY <1>0, <2>0, RowWritten
  <2>g. Grown(m)
    BY <2>1, RowAdded
  <2>2. PICK k \in 1..Len(rows) : Answering(k)
    BY <2>0, <2>1
  <2>3. LastAssistant = k
    BY <2>2, LastAnswers
  <2>4. cpc' = IF Len(rows) + 1 - k = rows[k].calls THEN NextRound(round) ELSE "call"
    BY <1>5, <2>3 DEF ToolCall
  <2>5. /\ rows'[k] = rows[k] /\ rows[k].calls \in Nat /\ k \in 1..Len(rows')
        /\ \A j \in (k + 1)..Len(rows') : rows'[j].role = "tool"
    BY <1>0, <2>0, <2>1, <2>2, <2>g DEF Grown, Answering, Row
  <2>6. ConversationTypeOK' /\ AnswersMatch'
    BY <1>0, <2>0, <2>1, <2>2, <2>4, <2>g, MatchKept DEF Grown, ConversationTypeOK, ChatSteps, NextRound
  <2>7. ASSUME ~trouble, NEW i \in 1..Len(rows')
        PROVE  /\ rows'[i].kept
               /\ rows'[i].role = "assistant" =>
                    \/ Answered(i)'
                    \/ i = k /\ \A j \in (i + 1)..Len(rows') : rows'[j].role = "tool"
    <3>1. CASE i \in 1..Len(rows)
      <4>1. rows[i].kept /\ rows'[i] = rows[i]
        BY <1>0, <2>0, <2>1, <2>7, <3>1, <2>g DEF Grown
      <4>2. ASSUME rows[i].role = "assistant", ~Answered(i) PROVE i = k
        <5>1. \A j \in (i + 1)..Len(rows) : rows[j].role = "tool"
          BY <2>0, <2>1, <2>7, <3>1, <4>2
        <5>. QED
          BY <1>0, <2>0, <2>1, <2>2, <3>1, <4>2, <5>1, <2>g DEF Grown, Answering
      <4>. QED
        BY <1>0, <2>0, <2>1, <2>5, <3>1, <4>1, <4>2, <2>g DEF Grown
    <3>2. CASE i = Len(rows) + 1
      BY <1>0, <2>0, <2>1, <2>7, <3>2, <2>g DEF Grown
    <3>. QED
      BY <1>0, <2>0, <2>1, <3>1, <3>2, <2>g DEF Grown
  <2>8. CASE Len(rows) + 1 - k = rows[k].calls
    <3>0. k + rows'[k].calls = Len(rows') /\ Len(rows') \in Nat
      BY <2>5, <2>8, <2>g DEF Grown
    <3>1. Answered(k)'
      <4>1. \A j \in (k + 1)..(k + rows'[k].calls) : rows'[j].role = "tool"
        BY <2>5, <3>0
      <4>. QED
        BY <3>0, <4>1 DEF Answered
    <3>2. ~trouble => RowsSound'
      BY <2>7, <3>1 DEF RowsSound
    <3>. QED
      BY <1>0, <2>0, <2>1, <2>4, <2>6, <2>8, <3>2 DEF NextRound, ConversationTypeOK
  <2>9. CASE Len(rows) + 1 - k # rows[k].calls
    <3>1. Answering(k)'
      BY <1>0, <2>0, <2>1, <2>2, <2>5, <2>9, <2>g DEF Grown, Answering
    <3>. QED
      BY <2>0, <2>1, <2>4, <2>5, <2>6, <2>7, <2>9, <3>1
  <2>. QED
    BY <2>8, <2>9
<1>6. CASE Conclude
  <2>1. PICK m \in Row : /\ rows' = Append(rows, m)
                      /\ m.role = "assistant" /\ m.calls = 0 /\ (~locked => m.kept)
    BY <1>0, <1>6, RowWritten DEF Conclude
  <2>g. Grown(m)
    BY <2>1, RowAdded
  <2>2. ConversationTypeOK' /\ AnswersMatch'
    BY <1>0, <1>6, <2>1, <2>g, MatchKept DEF Grown, Conclude, ConversationTypeOK, ChatSteps
  <2>. QED
    BY <1>6, <2>1, <2>2, SoundAdded DEF Conclude
<1>7. CASE Restart \/ KeyExpires \/ Unlock \/ UNCHANGED cvars
  <2>0. UNCHANGED <<rows, round, chats>>
    BY <1>7 DEF Restart, KeyExpires, Unlock, cvars
  <2>1. \/ cpc' = "idle" /\ (~trouble' => ~trouble /\ cpc = "idle")
        \/ cpc' = cpc /\ (~trouble' => ~trouble /\ cpc = "idle")
        \/ UNCHANGED <<cpc, locked, trouble>>
    BY <1>7 DEF Restart, KeyExpires, Unlock, cvars
  <2>2. trouble' \in BOOLEAN /\ locked' \in BOOLEAN
    BY <1>7, Zenon DEF Restart, KeyExpires, Unlock, cvars, ConversationTypeOK
  <2>3. ConversationTypeOK'
    BY <2>0, <2>1, <2>2 DEF ConversationTypeOK, ChatSteps
  <2>4. AnswersMatch' /\ RowsSound' = RowsSound /\ \A k \in 1..Len(rows) : Answering(k)' = Answering(k)
    BY <2>0 DEF AnswersMatch, RowsSound, Answering, Answered
  <2>5. (\A i \in 1..Len(rows) : Answered(i)' = Answered(i)) /\ rows' = rows
    BY <2>0 DEF Answered
  <2>6. CASE cpc' = cpc /\ (~trouble' => ~trouble)
    BY <2>0, <2>3, <2>4, <2>5, <2>6, <2>1
  <2>7. CASE cpc' = "idle" /\ (~trouble' => ~trouble /\ cpc = "idle")
    BY <2>0, <2>3, <2>4, <2>7
  <2>. QED
    BY <2>1, <2>6, <2>7
<1>. QED
  BY <1>1, <1>2, <1>3, <1>4, <1>5, <1>6, <1>7 DEF ChatStep

---------------------------------------------------------------------------
(* Chats with Ely. *)

LogRow == [role : {"user", "assistant", "tool"}, calls : 0..MaxActions]

\* The row at i has the results of its calls right after it, and is a result only of a call.
RowAnswered(i) ==
  /\ log[i].calls > 0 =>
       /\ i + log[i].calls <= Len(log)
       /\ \A j \in (i + 1)..(i + log[i].calls) : log[j].role = "tool"
  /\ log[i].role = "tool" => \E k \in 1..(i - 1) : i - k <= log[k].calls
LogAnswered == \A i \in 1..Len(log) : RowAnswered(i)

\* The answer at k has calls without results: those it has are all that follows it.
Waiting(k) ==
  /\ log[k].calls > 0
  /\ Len(log) - k < log[k].calls
  /\ \A j \in (k + 1)..Len(log) : log[j].role = "tool"
  /\ \A i \in 1..Len(log) : i # k => RowAnswered(i)
  /\ log[k].role # "tool"

\* Calls are without results only while they are carried out, or when an audit row ended the chat.
AgentInv ==
  /\ AgentTypeOK
  /\ apc \in {"turn", "turnActs"} => turn < maxTurns
  /\ apc \in {"turn", "turnActs", "final", "finalActs"} => forced < MaxForced
  /\ \A i \in 1..Len(log) : log[i].calls > 0 => log[i].role = "assistant"
  /\ apc \in Asking \union {"replying"} => LogAnswered
  /\ apc \in Acting => \E k \in 1..Len(log) : Waiting(k)
  /\ acted \in Nat /\ (apc # "raised" => told = acted)

LEMMA CallingWaits ==
  ASSUME AgentInv, NEW k \in 1..Len(log), Waiting(k)
  PROVE  Calling = k
<1>. DEFINE IsLast(i) == log[i].calls > 0 /\ \A j \in (i + 1)..Len(log) : log[j].calls = 0
<1>0. Len(log) \in Nat /\ \A i \in 1..Len(log) : log[i].calls \in Nat
  <2>1. log \in Seq(LogRow)
    BY DEF AgentInv, AgentTypeOK, LogRow
  <2>2. \A r \in LogRow : r.calls \in 0..MaxActions
    BY DEF LogRow
  <2>3. 0..MaxActions \subseteq Nat
    BY AgentAssumption
  <2>. QED
    BY <2>1, <2>2, <2>3
<1>1. IsLast(k)
  <2>1. ASSUME NEW j \in (k + 1)..Len(log) PROVE log[j].calls = 0
    <3>1. j \in 1..Len(log) /\ log[j].role = "tool"
      BY <1>0, <2>1 DEF Waiting
    <3>2. ~(log[j].calls > 0)
      BY <3>1 DEF AgentInv
    <3>. QED
      BY <1>0, <3>1, <3>2
  <2>. QED
    BY <2>1 DEF Waiting
<1>2. ASSUME NEW i \in 1..Len(log), IsLast(i) PROVE i = k
  BY <1>0, <1>1, <1>2
<1>. HIDE DEF IsLast
<1>3. Calling = CHOOSE i \in 1..Len(log) : IsLast(i)
  BY DEF Calling, IsLast
<1>. QED
  BY <1>1, <1>2, <1>3

\* A row more leaves those there are as they were, and what is answered stays answered.
LogGrown(m) ==
  /\ log' \in Seq(LogRow) /\ m \in LogRow
  /\ Len(log') = Len(log) + 1 /\ Len(log) \in Nat
  /\ \A i \in 1..Len(log) : log'[i] = log[i]
  /\ log'[Len(log) + 1] = m
  /\ \A i \in 1..Len(log') : i \in 1..Len(log) \/ i = Len(log) + 1
  /\ \A i \in 1..Len(log) : log[i].calls \in Nat
  /\ \A i \in 1..Len(log) : RowAnswered(i) => RowAnswered(i)'

LEMMA LogAdded ==
  ASSUME AgentTypeOK, NEW role \in {"user", "assistant", "tool"}, NEW calls \in 0..MaxActions,
         log' = Added(role, calls)
  PROVE  LogGrown([role |-> role, calls |-> calls])
<1>. DEFINE m == [role |-> role, calls |-> calls]
<1>1. log \in Seq(LogRow) /\ m \in LogRow /\ log' = Append(log, m)
  BY DEF AgentTypeOK, LogRow, Added
<1>. HIDE DEF m
<1>2. /\ log' \in Seq(LogRow)
      /\ Len(log') = Len(log) + 1 /\ Len(log) \in Nat
      /\ \A i \in 1..Len(log) : log'[i] = log[i]
      /\ log'[Len(log) + 1] = m
  BY <1>1, Appended
<1>3. \A i \in 1..Len(log) : log[i].calls \in Nat
  <2>1. \A i \in 1..Len(log) : log[i] \in LogRow
    BY <1>1
  <2>2. \A r \in LogRow : r.calls \in 0..MaxActions
    BY DEF LogRow
  <2>3. 0..MaxActions \subseteq Nat
    BY AgentAssumption
  <2>. QED
    BY <2>1, <2>2, <2>3
<1>4. ASSUME NEW i \in 1..Len(log), RowAnswered(i) PROVE RowAnswered(i)'
  <2>0. log'[i] = log[i] /\ i \in Nat /\ log[i].calls \in Nat
    BY <1>2, <1>3
  <2>1. log[i].calls > 0 =>
          /\ i + log'[i].calls <= Len(log')
          /\ \A j \in (i + 1)..(i + log'[i].calls) : log'[j].role = "tool"
    <3>1. SUFFICES ASSUME log[i].calls > 0
                   PROVE  /\ i + log[i].calls <= Len(log')
                          /\ \A j \in (i + 1)..(i + log[i].calls) : log'[j].role = "tool"
      BY <2>0
    <3>2. /\ i + log[i].calls <= Len(log)
          /\ \A j \in (i + 1)..(i + log[i].calls) : log[j].role = "tool"
      BY <1>4, <3>1 DEF RowAnswered
    <3>3. \A j \in (i + 1)..(i + log[i].calls) : j \in 1..Len(log)
      BY <1>2, <2>0, <3>2
    <3>. QED
      BY <1>2, <2>0, <3>2, <3>3
  <2>2. log[i].role = "tool" => \E k \in 1..(i - 1) : i - k <= log'[k].calls
    <3>1. SUFFICES ASSUME log[i].role = "tool" PROVE \E k \in 1..(i - 1) : i - k <= log'[k].calls
      OBVIOUS
    <3>2. PICK k \in 1..(i - 1) : i - k <= log[k].calls
      BY <1>4, <3>1 DEF RowAnswered
    <3>3. k \in 1..Len(log)
      BY <1>2
    <3>. QED
      BY <1>2, <3>2, <3>3
  <2>. QED
    BY <2>0, <2>1, <2>2 DEF RowAnswered
<1>5. \A i \in 1..Len(log') : i \in 1..Len(log) \/ i = Len(log) + 1
  BY <1>2
<1>6. LogGrown(m)
  BY <1>1, <1>2, <1>3, <1>4, <1>5 DEF LogGrown
<1>. QED
  BY <1>6 DEF m

\* Only an answer has calls, through every kind of row.
LEMMA OnlyAnswersCall ==
  ASSUME NEW m, LogGrown(m), \A i \in 1..Len(log) : log[i].calls > 0 => log[i].role = "assistant",
         m.role = "assistant" \/ m.calls = 0
  PROVE  \A i \in 1..Len(log') : log'[i].calls > 0 => log'[i].role = "assistant"
BY DEF LogGrown

LEMMA UserAdded ==
  ASSUME LogAnswered, NEW m, LogGrown(m), m.role = "user", m.calls = 0
  PROVE  LogAnswered'
<1>1. SUFFICES ASSUME NEW i \in 1..Len(log') PROVE RowAnswered(i)'
  BY DEF LogAnswered
<1>2. CASE i \in 1..Len(log)
  BY <1>2 DEF LogAnswered, LogGrown
<1>3. CASE i = Len(log) + 1
  BY <1>3 DEF RowAnswered, LogGrown
<1>. QED
  BY <1>2, <1>3 DEF LogGrown

LEMMA AnswerAdded ==
  ASSUME LogAnswered, NEW m, LogGrown(m), m.role = "assistant", m.calls > 0
  PROVE  \E k \in 1..Len(log') : Waiting(k)'
<1>1. PICK k \in 1..Len(log') : k = Len(log) + 1
  BY DEF LogGrown
<1>2. log'[k].calls > 0 /\ log'[k].role # "tool"
  BY <1>1 DEF LogGrown
<1>3. m.calls \in Nat /\ log'[k] = m /\ Len(log') - k = 0 /\ (k + 1)..Len(log') = {}
  <2>1. m.calls \in 0..MaxActions /\ 0..MaxActions \subseteq Nat
    BY AgentAssumption DEF LogGrown, LogRow
  <2>. QED
    BY <1>1, <2>1 DEF LogGrown
<1>4. \A i \in 1..Len(log') : i # k => RowAnswered(i)'
  BY <1>1 DEF LogGrown, LogAnswered
<1>5. Waiting(k)'
  BY <1>2, <1>3, <1>4 DEF Waiting
<1>. QED
  BY <1>5

\* A result answers a call: the last of them leaves none without.
LEMMA ResultAdded ==
  ASSUME AgentInv, NEW k \in 1..Len(log), Waiting(k), NEW m, LogGrown(m), m.role = "tool", m.calls = 0
  PROVE  /\ Left > 1 => Waiting(k)'
         /\ ~(Left > 1) => LogAnswered'
         /\ k \in 1..Len(log')
<1>1. Left = log[k].calls - (Len(log) - k)
  BY CallingWaits DEF Left
<1>2. /\ log[k].calls \in Nat /\ Len(log) \in Nat /\ Len(log') = Len(log) + 1
      /\ log'[k] = log[k] /\ k \in 1..Len(log')
  BY DEF LogGrown
<1>3. \A j \in (k + 1)..Len(log') : log'[j].role = "tool"
  <2>1. SUFFICES ASSUME NEW j \in (k + 1)..Len(log') PROVE log'[j].role = "tool"
    OBVIOUS
  <2>2. CASE j = Len(log) + 1
    BY <2>2 DEF LogGrown
  <2>3. CASE j # Len(log) + 1
    <3>1. j \in 1..Len(log) /\ j \in (k + 1)..Len(log)
      BY <1>2, <2>3
    <3>. QED
      BY <3>1 DEF LogGrown, Waiting
  <2>. QED
    BY <2>2, <2>3
<1>4. \A i \in 1..Len(log') : i # k => RowAnswered(i)'
  <2>1. SUFFICES ASSUME NEW i \in 1..Len(log'), i # k PROVE RowAnswered(i)'
    OBVIOUS
  <2>2. CASE i \in 1..Len(log)
    BY <2>1, <2>2 DEF LogGrown, Waiting
  <2>3. CASE i = Len(log) + 1
    <3>1. log'[i] = m /\ k \in 1..(i - 1) /\ i - k <= log'[k].calls
      BY <1>2, <2>3 DEF LogGrown, Waiting
    <3>. QED
      BY <3>1 DEF RowAnswered
  <2>. QED
    BY <2>2, <2>3 DEF LogGrown
<1>5. log'[k].calls > 0 /\ log'[k].role # "tool"
  BY <1>2 DEF Waiting
<1>6. ASSUME Left > 1 PROVE Waiting(k)'
  <2>1. Len(log') - k < log'[k].calls
    BY <1>1, <1>2, <1>6
  <2>. QED
    BY <1>3, <1>4, <1>5, <2>1 DEF Waiting
<1>7. ASSUME ~(Left > 1) PROVE LogAnswered'
  <2>0. Len(log) - k < log[k].calls
    BY DEF Waiting
  <2>1. k + log'[k].calls = Len(log')
    BY <1>1, <1>2, <1>7, <2>0
  <2>2. \A j \in (k + 1)..(k + log'[k].calls) : log'[j].role = "tool"
    BY <1>3, <2>1
  <2>3. RowAnswered(k)'
    BY <1>2, <1>5, <2>1, <2>2 DEF RowAnswered
  <2>. QED
    BY <1>4, <2>3 DEF LogAnswered
<1>. QED
  BY <1>2, <1>6, <1>7

LEMMA AgentInitInv == AgentInit => AgentInv
<1>1. SUFFICES ASSUME AgentInit PROVE AgentInv
  OBVIOUS
<1>0. maxTurns \in Nat /\ MaxForced \in Nat \ {0} /\ MaxActions \in Nat
  BY <1>1, AgentAssumption DEF AgentInit
<1>2. /\ log \in Seq(LogRow) /\ Len(log) = 1
      /\ \A i \in 1..Len(log) : log[i].role = "user" /\ log[i].calls = 0
  <2>1. log = <<[role |-> "user", calls |-> 0]>>
    BY <1>1 DEF AgentInit
  <2>2. [role |-> "user", calls |-> 0] \in LogRow
    BY <1>0 DEF LogRow
  <2>. QED
    BY <2>1, <2>2
<1>3. AgentTypeOK
  <2>1. log \in Seq([role : {"user", "assistant", "tool"}, calls : 0..MaxActions])
    BY <1>2 DEF LogRow
  <2>2. turn \in 0..maxTurns /\ forced \in 0..MaxForced /\ told \in 0..acted
    <3>1. turn = 0 /\ forced = 0 /\ told = 0 /\ acted = 0
      BY <1>1 DEF AgentInit
    <3>. QED
      BY <1>0, <3>1
  <2>. QED
    BY <1>1, <2>1, <2>2 DEF AgentInit, AgentTypeOK, Asking, Acting, Spoken
<1>4. LogAnswered
  BY <1>2 DEF LogAnswered, RowAnswered
<1>5. \A i \in 1..Len(log) : log[i].calls > 0 => log[i].role = "assistant"
  BY <1>2
<1>6. apc \in {"turn", "final"} /\ (apc = "turn" => turn < maxTurns) /\ forced < MaxForced
  <2>1. apc = (IF maxTurns = 0 THEN "final" ELSE "turn") /\ turn = 0 /\ forced = 0
    BY <1>1 DEF AgentInit
  <2>. QED
    BY <1>0, <2>1
<1>7. told = acted /\ acted \in Nat
  BY <1>1 DEF AgentInit
<1>. QED
  BY <1>3, <1>4, <1>5, <1>6, <1>7 DEF AgentInv, Acting

\* A step that leaves the transcript alone.
LEMMA LogUntouched ==
  ASSUME AgentInv, UNCHANGED <<log, maxTurns>>
  PROVE  /\ log' \in Seq(LogRow)
         /\ \A i \in 1..Len(log') : log'[i].calls > 0 => log'[i].role = "assistant"
         /\ LogAnswered => LogAnswered'
         /\ \A k \in 1..Len(log) : Waiting(k) => Waiting(k)'
BY DEF AgentInv, AgentTypeOK, LogRow, LogAnswered, RowAnswered, Waiting

LEMMA AgentStepInv ==
  ASSUME AgentInv, AgentStep \/ UNCHANGED lvars
  PROVE  AgentInv'
<1>. DEFINE Rows == \A i \in 1..Len(log) : log[i].calls > 0 => log[i].role = "assistant"
<1>0. /\ maxTurns \in Nat /\ MaxForced \in Nat \ {0} /\ MaxActions \in Nat
      /\ turn \in Nat /\ forced \in Nat /\ turn \in 0..maxTurns /\ forced \in 0..MaxForced /\ told \in 0..acted /\ log \in Seq(LogRow)
      /\ told \in Nat /\ acted \in Nat
      /\ Rows /\ 0 \in 0..MaxActions
  BY AgentAssumption DEF AgentInv, AgentTypeOK, LogRow
<1>. HIDE DEF Rows
<1>n. /\ maxTurns \in Nat /\ MaxForced \in Nat /\ turn \in Nat /\ forced \in Nat
      /\ told \in Nat /\ acted \in Nat
  BY <1>0
<1>. USE DEF Asking, Acting, Spoken
\* What is left to show of a step, by what it does to the transcript.
<1>a. ASSUME maxTurns' = maxTurns, log' \in Seq(LogRow), Rows',
             apc' \in Asking \union Acting \union {"replying", "raised", "done"},
             turn' \in 0..maxTurns, forced' \in 0..MaxForced, reply' \in Spoken, told' \in 0..acted', acted' \in Nat,
             apc' \in {"turn", "turnActs"} => turn' < maxTurns,
             apc' \in {"turn", "turnActs", "final", "finalActs"} => forced' < MaxForced,
             apc' \in Asking \union {"replying"} => LogAnswered',
             apc' \in Acting => \E k \in 1..Len(log') : Waiting(k)',
             apc' # "raised" => told' = acted'
      PROVE  AgentInv'
  BY <1>0, <1>a DEF AgentInv, AgentTypeOK, LogRow, Rows
<1>b. ASSUME UNCHANGED <<log, maxTurns>>
      PROVE  /\ log' \in Seq(LogRow) /\ Rows'
             /\ LogAnswered => LogAnswered'
             /\ \A k \in 1..Len(log) : Waiting(k) => Waiting(k)'
  BY <1>b, LogUntouched DEF Rows
<1>c. ASSUME NEW role \in {"user", "assistant", "tool"}, NEW calls \in 0..MaxActions, log' = Added(role, calls),
             role = "assistant" \/ calls = 0
      PROVE  /\ LogGrown([role |-> role, calls |-> calls])
             /\ log' \in Seq(LogRow) /\ Rows'
  <2>. DEFINE m == [role |-> role, calls |-> calls]
  <2>1. LogGrown(m)
    BY <1>c, LogAdded DEF AgentInv
  <2>2. m.role = role /\ m.calls = calls
    OBVIOUS
  <2>. HIDE DEF m
  <2>3. Rows'
    BY <1>0, <1>c, <2>1, <2>2, OnlyAnswersCall DEF Rows
  <2>4. log' \in Seq(LogRow)
    BY <2>1 DEF LogGrown
  <2>. QED
    BY <2>1, <2>3, <2>4 DEF m
\* A message to the provider, when everything before it is answered.
<1>d. ASSUME log' = Added("user", 0), LogAnswered
      PROVE  log' \in Seq(LogRow) /\ Rows' /\ LogAnswered'
  <2>. DEFINE m == [role |-> "user", calls |-> 0]
  <2>1. LogGrown(m) /\ log' \in Seq(LogRow) /\ Rows'
    BY <1>0, <1>c, <1>d
  <2>2. m.role = "user" /\ m.calls = 0
    OBVIOUS
  <2>. HIDE DEF m
  <2>. QED
    BY <1>d, <2>1, <2>2, UserAdded
\* An answer with calls.
<1>e. ASSUME NEW calls \in 0..MaxActions, calls > 0, log' = Added("assistant", calls), LogAnswered
      PROVE  log' \in Seq(LogRow) /\ Rows' /\ \E k \in 1..Len(log') : Waiting(k)'
  <2>. DEFINE m == [role |-> "assistant", calls |-> calls]
  <2>1. LogGrown(m) /\ log' \in Seq(LogRow) /\ Rows'
    BY <1>c, <1>e
  <2>2. m.role = "assistant" /\ m.calls > 0
    BY <1>e
  <2>. HIDE DEF m
  <2>. QED
    BY <1>e, <2>1, <2>2, AnswerAdded
\* The result of a call.
<1>f. ASSUME log' = Added("tool", 0), \E k \in 1..Len(log) : Waiting(k)
      PROVE  /\ log' \in Seq(LogRow) /\ Rows'
             /\ Left > 1 => \E k \in 1..Len(log') : Waiting(k)'
             /\ ~(Left > 1) => LogAnswered'
  <2>. DEFINE m == [role |-> "tool", calls |-> 0]
  <2>1. LogGrown(m) /\ log' \in Seq(LogRow) /\ Rows'
    BY <1>0, <1>c, <1>f
  <2>2. m.role = "tool" /\ m.calls = 0
    OBVIOUS
  <2>3. PICK k \in 1..Len(log) : Waiting(k)
    BY <1>f
  <2>. HIDE DEF m
  <2>4. /\ Left > 1 => Waiting(k)'
        /\ ~(Left > 1) => LogAnswered'
        /\ k \in 1..Len(log')
    BY <2>1, <2>2, <2>3, ResultAdded
  <2>. QED
    BY <2>1, <2>4
<1>1. ASSUME NEW a \in Says, TakeTurn(a) PROVE AgentInv'
  <2>1. LogAnswered /\ apc = "turn" /\ turn < maxTurns /\ forced < MaxForced /\ told = acted
    BY <1>1 DEF AgentInv, TakeTurn
  <2>2. a.calls \in 0..MaxActions
    BY DEF Says
  <2>3. reply' \in Spoken /\ UNCHANGED <<maxTurns, turn, forced, acted, told>>
    BY <1>1 DEF TakeTurn
  <2>4. CASE a.calls = 0
    <3>1. apc' = "final" /\ UNCHANGED log
      BY <1>1, <2>4 DEF TakeTurn
    <3>. QED
      BY <1>0, <1>a, <1>b, <2>1, <2>3, <3>1
  <2>5. CASE a.calls # 0
    <3>0. a.calls > 0
      BY <1>0, <2>2, <2>5
    <3>1. apc' = "turnActs" /\ log' = Added("assistant", a.calls) /\ a.calls > 0
      BY <1>1, <2>5, <3>0 DEF TakeTurn
    <3>2. log' \in Seq(LogRow) /\ Rows' /\ \E k \in 1..Len(log') : Waiting(k)'
      BY <1>e, <2>1, <2>2, <3>1
    <3>. QED
      BY <1>0, <1>a, <2>1, <2>3, <3>1, <3>2
  <2>. QED
    BY <2>4, <2>5
<1>2. ASSUME TurnFails \/ FinalFails PROVE AgentInv'
  <2>1. /\ UNCHANGED <<maxTurns, log, turn, forced, acted, told>>
        /\ reply' = "error"
        /\ \/ apc = "turn" /\ apc' = "final"
           \/ apc = "final" /\ apc' = "replying"
    BY <1>2 DEF TurnFails, FinalFails
  <2>2. LogAnswered /\ told = acted /\ forced < MaxForced
    BY <2>1 DEF AgentInv
  <2>. QED
    BY <1>0, <1>a, <1>b, <2>1, <2>2
<1>3. ASSUME TurnAct PROVE AgentInv'
  <2>1. /\ apc = "turnActs" /\ acted' = acted + 1 /\ told' = told + 1 /\ log' = Added("tool", 0)
        /\ UNCHANGED <<maxTurns, forced, reply>>
    BY <1>3 DEF TurnAct
  <2>2. turn < maxTurns /\ forced < MaxForced /\ told = acted /\ reply \in Spoken /\ \E k \in 1..Len(log) : Waiting(k)
    BY <2>1 DEF AgentInv, AgentTypeOK
  <2>3. told' \in 0..acted' /\ acted' \in Nat /\ told' = acted'
    <3>1. told = acted
      BY <2>2
    <3>. QED
      BY <1>n, <2>1, <3>1
  <2>4. /\ log' \in Seq(LogRow) /\ Rows'
        /\ Left > 1 => \E k \in 1..Len(log') : Waiting(k)'
        /\ ~(Left > 1) => LogAnswered'
    BY <1>f, <2>1, <2>2
  <2>5. CASE Left > 1
    <3>1. UNCHANGED <<apc, turn>>
      BY <1>3, <2>5 DEF TurnAct
    <3>. QED
      BY <1>0, <1>a, <2>1, <2>2, <2>3, <2>4, <2>5, <3>1
  <2>6. CASE ~(Left > 1)
    <3>1. turn' = turn + 1 /\ apc' = IF turn + 1 < maxTurns THEN "turn" ELSE "final"
      BY <1>3, <2>6 DEF TurnAct
    <3>2. turn' \in 0..maxTurns /\ apc' \in {"turn", "final"} /\ (apc' = "turn" => turn' < maxTurns)
      <4>1. turn < maxTurns
        BY <2>2
      <4>. QED
        BY <1>n, <3>1, <4>1
    <3>. QED
      BY <1>0, <1>a, <2>1, <2>2, <2>3, <2>4, <2>6, <3>2
  <2>. QED
    BY <2>5, <2>6
<1>4. ASSUME AuditRaises PROVE AgentInv'
  <2>1. /\ acted' = acted + 1 /\ apc' = "raised"
        /\ UNCHANGED <<maxTurns, log, turn, forced, reply, told>>
    BY <1>4 DEF AuditRaises
  <2>2. reply \in Spoken
    BY DEF AgentInv, AgentTypeOK
  <2>3. told' \in 0..acted' /\ acted' \in Nat
    BY <1>0, <2>1
  <2>. QED
    BY <1>0, <1>a, <1>b, <2>1, <2>2, <2>3
<1>5. ASSUME ForceActions, UNCHANGED <<maxTurns, turn>>, forced < MaxForced, log' \in Seq(LogRow), Rows',
             LogAnswered', told' \in 0..acted', acted' \in Nat, told' = acted', reply' \in Spoken
      PROVE  AgentInv'
  <2>1. forced' = forced + 1 /\ apc' = IF forced + 1 < MaxForced THEN "final" ELSE "replying"
    BY <1>5 DEF ForceActions
  <2>2. forced' \in 0..MaxForced /\ apc' \in {"final", "replying"} /\ (apc' = "final" => forced' < MaxForced)
    <3>1. forced < MaxForced
      BY <1>5
    <3>. QED
      BY <1>n, <2>1, <3>1
  <2>. QED
    BY <1>0, <1>a, <1>5, <2>2
<1>6. ASSUME NEW a \in Says, Final(a) PROVE AgentInv'
  <2>1. /\ apc = "final" /\ LogAnswered /\ told = acted /\ forced < MaxForced
        /\ UNCHANGED <<maxTurns, turn, acted, told>> /\ reply \in Spoken
    BY <1>6 DEF Final, AgentInv, AgentTypeOK
  <2>2. a.calls \in 0..MaxActions
    BY DEF Says
  <2>3. CASE apc' = "replying" /\ reply' \in {"text", "reasoning"} /\ UNCHANGED <<log, forced>>
    BY <1>0, <1>a, <1>b, <2>1, <2>3
  <2>4. CASE /\ a.calls > 0 /\ log' = Added("assistant", a.calls) /\ apc' = "finalActs"
             /\ UNCHANGED <<reply, forced>>
    <3>1. log' \in Seq(LogRow) /\ Rows' /\ \E k \in 1..Len(log') : Waiting(k)'
      BY <1>e, <2>1, <2>2, <2>4
    <3>. QED
      BY <1>0, <1>a, <2>1, <2>4, <3>1
  <2>5. CASE log' = Added("user", 0) /\ ForceActions /\ UNCHANGED reply
    <3>1. log' \in Seq(LogRow) /\ Rows' /\ LogAnswered'
      BY <1>d, <2>1, <2>5
    <3>2. told' \in 0..acted' /\ acted' \in Nat /\ told' = acted' /\ reply' \in Spoken
      BY <1>0, <2>1, <2>5
    <3>. QED
      BY <1>5, <2>1, <2>5, <3>1, <3>2
  <2>. QED
    BY <1>6, <2>3, <2>4, <2>5 DEF Final
<1>7. ASSUME FinalAct PROVE AgentInv'
  <2>1. /\ apc = "finalActs" /\ acted' = acted + 1 /\ told' = told + 1 /\ log' = Added("tool", 0)
        /\ UNCHANGED <<maxTurns, turn, reply>>
    BY <1>7 DEF FinalAct
  <2>2. forced < MaxForced /\ told = acted /\ reply \in Spoken /\ \E k \in 1..Len(log) : Waiting(k)
    BY <2>1 DEF AgentInv, AgentTypeOK
  <2>3. told' \in 0..acted' /\ acted' \in Nat /\ told' = acted' /\ reply' \in Spoken
    <3>1. told = acted
      BY <2>2
    <3>2. told' \in 0..acted' /\ acted' \in Nat /\ told' = acted'
      BY <1>n, <2>1, <3>1
    <3>. QED
      BY <2>1, <2>2, <3>2
  <2>4. /\ log' \in Seq(LogRow) /\ Rows'
        /\ Left > 1 => \E k \in 1..Len(log') : Waiting(k)'
        /\ ~(Left > 1) => LogAnswered'
    BY <1>f, <2>1, <2>2
  <2>5. CASE Left > 1
    <3>1. UNCHANGED <<apc, forced>>
      BY <1>7, <2>5 DEF FinalAct
    <3>. QED
      BY <1>0, <1>a, <2>1, <2>2, <2>3, <2>4, <2>5, <3>1
  <2>6. CASE ~(Left > 1)
    <3>1. ForceActions
      BY <1>7, <2>6 DEF FinalAct
    <3>. QED
      BY <1>5, <2>1, <2>2, <2>3, <2>4, <2>6, <3>1
  <2>. QED
    BY <2>5, <2>6
<1>8. ASSUME Replying PROVE AgentInv'
  <2>1. /\ apc = "replying" /\ LogAnswered /\ told = acted /\ reply \in Spoken
        /\ UNCHANGED <<maxTurns, turn, forced, reply, acted, told>>
    BY <1>8 DEF Replying, AgentInv, AgentTypeOK
  <2>2. CASE apc' = "done" /\ UNCHANGED log
    BY <1>0, <1>a, <1>b, <2>1, <2>2
  <2>3. CASE apc' = "fallback" /\ log' = Added("user", 0)
    <3>1. log' \in Seq(LogRow) /\ Rows' /\ LogAnswered'
      BY <1>d, <2>1, <2>3
    <3>. QED
      BY <1>0, <1>a, <2>1, <2>3, <3>1
  <2>. QED
    BY <1>8, <2>2, <2>3 DEF Replying
<1>9. ASSUME Fallback PROVE AgentInv'
  <2>1. /\ apc = "fallback" /\ apc' = "done" /\ reply' \in Spoken
        /\ UNCHANGED <<maxTurns, log, turn, forced, acted, told>>
    BY <1>9 DEF Fallback
  <2>2. told = acted
    BY <2>1 DEF AgentInv
  <2>. QED
    BY <1>0, <1>a, <1>b, <2>1, <2>2
<1>10. ASSUME UNCHANGED lvars PROVE AgentInv'
  <2>1. UNCHANGED <<maxTurns, log, apc, turn, forced, reply, acted, told>>
    BY <1>10 DEF lvars
  <2>2. reply \in Spoken /\ apc \in Asking \union Acting \union {"replying", "raised", "done"}
    BY DEF AgentInv, AgentTypeOK
  <2>3. /\ apc \in {"turn", "turnActs"} => turn < maxTurns
        /\ apc \in {"turn", "turnActs", "final", "finalActs"} => forced < MaxForced
        /\ apc \in Asking \union {"replying"} => LogAnswered
        /\ apc \in Acting => \E k \in 1..Len(log) : Waiting(k)
        /\ apc # "raised" => told = acted
    BY DEF AgentInv
  <2>. QED
    BY <1>0, <1>a, <1>b, <2>1, <2>2, <2>3
<1>. QED
  BY <1>1, <1>2, <1>3, <1>4, <1>6, <1>7, <1>8, <1>9, <1>10 DEF AgentStep

---------------------------------------------------------------------------
(* Parts of sequences. *)

\* t is what is left of s when some of its elements are taken out.
PartOf(t, s) == \E e \in [1..Len(t) -> 1..Len(s)] :
  /\ \A k \in 1..Len(t) : t[k] = s[e[k]]
  /\ \A k, l \in 1..Len(t) : k < l => e[k] < e[l]

\* How many places there are up to one of them.
UpTo(places, i) == Cardinality({j \in places : j <= i})

\* Places are numbered without gaps, in their order.
LEMMA PlacesCounted ==
  ASSUME NEW n \in Nat, NEW places \in SUBSET (1..n)
  PROVE  /\ IsFiniteSet(places) /\ Cardinality(places) \in Nat
         /\ \A i \in places : UpTo(places, i) \in 1..Cardinality(places)
         /\ \A i, j \in places : i < j => UpTo(places, i) < UpTo(places, j)
         /\ \A k \in 1..Cardinality(places) : \E i \in places : UpTo(places, i) = k
<1>. DEFINE f == [i \in places |-> UpTo(places, i)]
            c == Cardinality(places)
<1>0. \A i \in places : i \in 1..n /\ i \in Int
  OBVIOUS
<1>1. IsFiniteSet(places) /\ c \in Nat
  <2>1. IsFiniteSet(1..n)
    BY FS_Interval
  <2>2. IsFiniteSet(places)
    BY <2>1, FS_Subset
  <2>. QED
    BY <2>2, FS_CardinalityType
<1>2. \A i \in places : /\ IsFiniteSet({j \in places : j <= i})
                        /\ UpTo(places, i) \in Nat /\ UpTo(places, i) <= c
  BY <1>1, FS_Subset, FS_CardinalityType DEF UpTo
<1>3. \A i \in places : UpTo(places, i) # 0
  <2>1. \A i \in places : i \in {j \in places : j <= i}
    OBVIOUS
  <2>. QED
    BY <1>2, <2>1, FS_EmptySet DEF UpTo
<1>4. ASSUME NEW i \in places, NEW j \in places, i < j PROVE UpTo(places, i) < UpTo(places, j)
  <2>. DEFINE A == {x \in places : x <= i}
              B == {x \in places : x <= j}
  <2>1. A \in SUBSET B /\ j \in B /\ j \notin A
    <3>1. ASSUME NEW x \in places, x <= i PROVE x <= j
      BY <1>0, <1>4, <3>1
    <3>2. ~(j <= i) /\ j <= j
      BY <1>0, <1>4
    <3>. QED
      BY <3>1, <3>2
  <2>2. Cardinality(A) <= Cardinality(B) /\ Cardinality(A) # Cardinality(B)
    BY <1>2, <2>1, FS_Subset
  <2>. QED
    BY <1>2, <2>2 DEF UpTo
<1>5. \A i \in places : f[i] = UpTo(places, i) /\ f[i] \in 1..c
  <2>1. SUFFICES ASSUME NEW i \in places PROVE UpTo(places, i) \in 1..c
    OBVIOUS
  <2>2. UpTo(places, i) \in Nat /\ UpTo(places, i) <= c /\ UpTo(places, i) # 0
    BY <1>2, <1>3
  <2>. HIDE DEF c
  <2>. QED
    BY <1>1, <2>2
<1>6. f \in Injection(places, 1..c)
  <2>1. f \in [places -> 1..c]
    BY <1>5
  <2>2. \A i, j \in places : f[i] = f[j] => i = j
    <3>1. SUFFICES ASSUME NEW i \in places, NEW j \in places, UpTo(places, i) = UpTo(places, j) PROVE i = j
      OBVIOUS
    <3>a. UpTo(places, i) \in Nat /\ UpTo(places, j) \in Nat
      BY <1>2
    <3>2. ~(UpTo(places, i) < UpTo(places, j)) /\ ~(UpTo(places, j) < UpTo(places, i))
      BY <3>1, <3>a
    <3>. QED
      BY <1>0, <1>4, <3>2
  <2>. HIDE DEF f, c
  <2>. QED
    BY <2>1, <2>2 DEF Injection, IsInjective
<1>7. IsFiniteSet(1..c) /\ Cardinality(1..c) = c
  BY <1>1, FS_Interval
<1>8. f \in Surjection(places, 1..c)
  <2>. HIDE DEF f, c
  <2>. QED
    BY <1>6, <1>7, FS_Injection DEF c
<1>9. \A k \in 1..c : \E i \in places : f[i] = k
  <2>. HIDE DEF f, c
  <2>. QED
    BY <1>8 DEF Surjection
<1>. QED
  BY <1>1, <1>4, <1>5, <1>9

\* The elements at some places are a part of the sequence, with every element that stands there.
LEMMA AtPlacesIsPart ==
  ASSUME NEW S, NEW s \in Seq(S), NEW places \in SUBSET (1..Len(s))
  PROVE  /\ AtPlaces(s, places) \in Seq(S)
         /\ \E e \in [1..Len(AtPlaces(s, places)) -> 1..Len(s)] :
              /\ \A k \in 1..Len(AtPlaces(s, places)) : AtPlaces(s, places)[k] = s[e[k]] /\ e[k] \in places
              /\ \A k, l \in 1..Len(AtPlaces(s, places)) : k < l => e[k] < e[l]
              /\ \A i \in places : \E k \in 1..Len(AtPlaces(s, places)) : e[k] = i
<1>. DEFINE c == Cardinality(places)
            P(k) == CHOOSE i \in places : UpTo(places, i) = k
            e == [k \in 1..c |-> P(k)]
            t == AtPlaces(s, places)
<1>0. Len(s) \in Nat
  OBVIOUS
<1>1. /\ c \in Nat
      /\ \A i \in places : UpTo(places, i) \in 1..c
      /\ \A i, j \in places : i < j => UpTo(places, i) < UpTo(places, j)
      /\ \A k \in 1..c : \E i \in places : UpTo(places, i) = k
  BY <1>0, PlacesCounted
<1>2. \A k \in 1..c : P(k) \in places /\ UpTo(places, P(k)) = k
  BY <1>1
<1>3. t = [k \in 1..c |-> s[P(k)]]
  BY DEF AtPlaces, UpTo
<1>. HIDE DEF P, t, c
<1>a. \A i \in places : i \in 1..Len(s) /\ i \in Int /\ s[i] \in S
  OBVIOUS
<1>4. \A k \in 1..c : P(k) \in 1..Len(s) /\ P(k) \in Int /\ s[P(k)] \in S
  BY <1>2, <1>a
<1>5. t \in Seq(S) /\ Len(t) = c /\ \A k \in 1..c : t[k] = s[P(k)]
  BY <1>1, <1>3, <1>4
<1>6. e \in [1..c -> 1..Len(s)] /\ \A k \in 1..c : e[k] = P(k)
  BY <1>4
<1>7. \A k, l \in 1..c : k < l => e[k] < e[l]
  <2>1. SUFFICES ASSUME NEW k \in 1..c, NEW l \in 1..c, k < l PROVE P(k) < P(l)
    BY <1>6
  <2>2. P(k) \in Int /\ P(l) \in Int /\ P(k) # P(l)
    BY <1>1, <1>2, <1>4, <2>1
  <2>3. ~(P(l) < P(k))
    <3>1. P(k) \in places /\ P(l) \in places /\ UpTo(places, P(k)) = k /\ UpTo(places, P(l)) = l
      BY <1>2
    <3>2. ~(l < k)
      BY <1>1, <2>1
    <3>3. P(l) < P(k) => UpTo(places, P(l)) < UpTo(places, P(k))
      BY <1>1, <3>1
    <3>. QED
      BY <3>1, <3>2, <3>3
  <2>. QED
    BY <2>2, <2>3
<1>8. ASSUME NEW i \in places PROVE \E k \in 1..c : e[k] = i
  <2>. DEFINE k == UpTo(places, i)
  <2>1. k \in 1..c /\ UpTo(places, P(k)) = k /\ P(k) \in places
    BY <1>1, <1>2
  <2>2. P(k) = i
    <3>1. P(k) \in Int /\ i \in Int
      BY <1>a, <2>1
    <3>2. ~(UpTo(places, P(k)) < UpTo(places, i)) /\ ~(UpTo(places, i) < UpTo(places, P(k)))
      BY <1>1, <2>1
    <3>. QED
      BY <1>1, <2>1, <3>1, <3>2
  <2>. HIDE DEF k
  <2>. QED
    BY <1>6, <2>1, <2>2
<1>9. \A k \in 1..c : t[k] = s[e[k]] /\ e[k] \in places
  BY <1>2, <1>5, <1>6
<1>. HIDE DEF e
<1>. QED
  BY <1>5, <1>6, <1>7, <1>8, <1>9 DEF t

\* The elements of a sequence that are in a set are a part of it, with all of them.
LEMMA AmongIsPart ==
  ASSUME NEW X, NEW s \in Seq(X), NEW S
  PROVE  /\ Among(s, S) \in Seq(X) /\ Len(Among(s, S)) <= Len(s)
         /\ Range(Among(s, S)) = Range(s) \intersect S
         /\ \E e \in [1..Len(Among(s, S)) -> 1..Len(s)] :
              /\ \A k \in 1..Len(Among(s, S)) : Among(s, S)[k] = s[e[k]]
              /\ \A k, l \in 1..Len(Among(s, S)) : k < l => e[k] < e[l]
<1>. DEFINE places == {i \in 1..Len(s) : s[i] \in S}
            t == AtPlaces(s, places)
<1>1. places \in SUBSET (1..Len(s)) /\ t = Among(s, S) /\ Len(s) \in Nat
  BY DEF Among
<1>2. \A i \in 1..Len(s) : i \in places <=> s[i] \in S
  OBVIOUS
<1>. HIDE DEF places
<1>3. t \in Seq(X)
  BY <1>1, AtPlacesIsPart
<1>4. PICK e \in [1..Len(t) -> 1..Len(s)] :
        /\ \A k \in 1..Len(t) : t[k] = s[e[k]] /\ e[k] \in places
        /\ \A k, l \in 1..Len(t) : k < l => e[k] < e[l]
        /\ \A i \in places : \E k \in 1..Len(t) : e[k] = i
  BY <1>1, AtPlacesIsPart
<1>. HIDE DEF t
<1>5. DOMAIN t = 1..Len(t) /\ DOMAIN s = 1..Len(s) /\ Len(t) \in Nat
  BY <1>3
<1>6. \A k \in 1..Len(t) : e[k] \in 1..Len(s) /\ e[k] \in places
  BY <1>4
<1>7. Range(t) \subseteq Range(s) \intersect S
  BY <1>2, <1>4, <1>5, <1>6 DEF Range
<1>8. Range(s) \intersect S \subseteq Range(t)
  <2>1. SUFFICES ASSUME NEW i \in 1..Len(s), s[i] \in S PROVE s[i] \in Range(t)
    BY <1>5 DEF Range
  <2>2. PICK k \in 1..Len(t) : e[k] = i
    BY <1>2, <1>4, <2>1
  <2>. QED
    BY <1>4, <1>5, <2>2 DEF Range
<1>9. Len(t) <= Len(s)
  <2>1. e \in Injection(1..Len(t), 1..Len(s))
    <3>1. \A k, l \in 1..Len(t) : e[k] = e[l] => k = l
      <4>1. SUFFICES ASSUME NEW k \in 1..Len(t), NEW l \in 1..Len(t), e[k] = e[l] PROVE k = l
        OBVIOUS
      <4>2. ~(e[k] < e[l]) /\ ~(e[l] < e[k])
        BY <1>1, <1>6, <4>1
      <4>3. ~(k < l) /\ ~(l < k)
        BY <1>4, <4>2
      <4>. QED
        BY <1>5, <4>3
    <3>2. DOMAIN e = 1..Len(t)
      OBVIOUS
    <3>. QED
      BY <3>1, <3>2 DEF Injection, IsInjective
  <2>2. IsFiniteSet(1..Len(s)) /\ Cardinality(1..Len(s)) = Len(s) /\ Cardinality(1..Len(t)) = Len(t)
    <3>1. 1 \in Int /\ Len(s) \in Int /\ Len(t) \in Int /\ Len(s) >= 0 /\ Len(t) >= 0
      BY <1>1, <1>5
    <3>2. IsFiniteSet(1..Len(s)) /\ Cardinality(1..Len(s)) = IF 1 > Len(s) THEN 0 ELSE Len(s) - 1 + 1
      BY <3>1, FS_Interval
    <3>3. Cardinality(1..Len(t)) = IF 1 > Len(t) THEN 0 ELSE Len(t) - 1 + 1
      BY <3>1, FS_Interval
    <3>. QED
      BY <3>1, <3>2, <3>3
  <2>3. Cardinality(1..Len(t)) <= Cardinality(1..Len(s))
    BY <2>1, <2>2, FS_Injection
  <2>. QED
    BY <2>2, <2>3
<1>. QED
  BY <1>1, <1>3, <1>4, <1>7, <1>8, <1>9

\* The end of a sequence is a part of it, and ends as it does.
LEMMA LastOfIsPart ==
  ASSUME NEW S, NEW s \in Seq(S), NEW n \in Nat \ {0}
  PROVE  /\ LastOf(s, n) \in Seq(S)
         /\ PartOf(LastOf(s, n), s)
         /\ Len(LastOf(s, n)) <= n
         /\ s # <<>> => Len(LastOf(s, n)) > 0 /\ LastOf(s, n)[Len(LastOf(s, n))] = s[Len(s)]
<1>1. CASE Len(s) <= n
  <2>1. LastOf(s, n) = s
    BY <1>1 DEF LastOf
  <2>. DEFINE e == [k \in 1..Len(s) |-> k]
  <2>2. e \in [1..Len(s) -> 1..Len(s)] /\ \A k \in 1..Len(s) : e[k] = k
    OBVIOUS
  <2>. HIDE DEF e
  <2>3. PartOf(s, s)
    BY <2>2 DEF PartOf
  <2>. QED
    BY <1>1, <2>1, <2>3
<1>2. CASE ~(Len(s) <= n)
  <2>. DEFINE m == Len(s) - n
              t == SubSeq(s, m + 1, Len(s))
  <2>1. LastOf(s, n) = t /\ m \in Nat /\ Len(s) \in Nat /\ m + n = Len(s)
    BY <1>2 DEF LastOf
  <2>2. t \in Seq(S) /\ Len(t) = n /\ \A k \in 1..n : t[k] = s[m + k]
    <3>1. t \in Seq(S)
      BY <2>1
    <3>2. Len(t) = n /\ \A k \in 1..n : t[k] = s[m + k]
      BY <1>2, <2>1
    <3>. QED
      BY <3>1, <3>2
  <2>. DEFINE e == [k \in 1..n |-> m + k]
  <2>. HIDE DEF m, t
  <2>3. e \in [1..n -> 1..Len(s)] /\ \A k \in 1..n : e[k] = m + k
    BY <2>1
  <2>. HIDE DEF e
  <2>4. PartOf(t, s)
    <3>1. /\ e \in [1..Len(t) -> 1..Len(s)]
          /\ \A k \in 1..Len(t) : t[k] = s[e[k]]
          /\ \A k, l \in 1..Len(t) : k < l => e[k] < e[l]
      BY <2>1, <2>2, <2>3
    <3>. QED
      BY <3>1 DEF PartOf
  <2>. QED
    BY <2>1, <2>2, <2>4
<1>. QED
  BY <1>1, <1>2

---------------------------------------------------------------------------
(* The copilot of the pages. *)

\* No question after its answer, no second answer, and the questions as they were asked.
InOrder(s) == \A i, j \in 1..Len(s) : i < j =>
  /\ s[i].role = "assistant" => s[j].q # s[i].q
  /\ s[i].role = "user" /\ s[j].role = "user" => s[i].q <= s[j].q
\* Nothing that was cleared, but answers that were under way.
Fresh(m, since, waited) ==
  CASE m.role = "user" -> m.q > since
    [] m.role = "assistant" -> m.q > since \/ m.q \in waited
    [] OTHER -> TRUE
AllFresh(s, since, waited) == \A i \in 1..Len(s) : Fresh(s[i], since, waited)
\* Of questions that were asked, and answers that came.
Come(m, n, pending) ==
  /\ m.role = "system" => m.q = 0
  /\ m.role # "system" => m.q \in 1..n
  /\ m.role = "assistant" => m.q \notin pending
AllCome(s, n, pending) == \A i \in 1..Len(s) : Come(s[i], n, pending)
\* What the storage may hold.
Storable(s, n, since, waited, pending) ==
  s \in Seq(Message) /\ Len(s) <= StoredLast /\ InOrder(s) /\ AllFresh(s, since, waited) /\ AllCome(s, n, pending)
EndsWith(s, q) == s[Len(s)] = [role |-> "user", q |-> q]

CopilotInv ==
  /\ CopilotTypeOK
  /\ StorageAgrees
  /\ flight \subseteq 1..asked
  /\ \A q \in flight : q > cleared \/ q \in late
  /\ InOrder(messages) /\ AllFresh(messages, cleared, late) /\ AllCome(messages, asked, flight)
  /\ Storable(stored, asked, cleared, late, flight)
  /\ \A q \in 1..asked : EndsWith(given[q], q) /\ InOrder(given[q])
  /\ \A q \in (cleared + 1)..asked : AllFresh(given[q], cleared, late)

LEMMA PartsToo ==
  ASSUME NEW t, NEW s, PartOf(t, s), Len(t) \in Nat, Len(s) \in Nat
  PROVE  /\ InOrder(s) => InOrder(t)
         /\ \A since, waited : AllFresh(s, since, waited) => AllFresh(t, since, waited)
         /\ \A n, pending : AllCome(s, n, pending) => AllCome(t, n, pending)
<1>1. PICK e \in [1..Len(t) -> 1..Len(s)] :
        /\ \A k \in 1..Len(t) : t[k] = s[e[k]]
        /\ \A k, l \in 1..Len(t) : k < l => e[k] < e[l]
  BY DEF PartOf
<1>2. \A k \in 1..Len(t) : e[k] \in 1..Len(s)
  OBVIOUS
<1>3. ASSUME InOrder(s) PROVE InOrder(t)
  <2>1. SUFFICES ASSUME NEW i \in 1..Len(t), NEW j \in 1..Len(t), i < j
                 PROVE  /\ t[i].role = "assistant" => t[j].q # t[i].q
                        /\ t[i].role = "user" /\ t[j].role = "user" => t[i].q <= t[j].q
    BY DEF InOrder
  <2>2. t[i] = s[e[i]] /\ t[j] = s[e[j]] /\ e[i] \in 1..Len(s) /\ e[j] \in 1..Len(s) /\ e[i] < e[j]
    BY <1>1, <1>2, <2>1
  <2>. QED
    BY <1>3, <2>2 DEF InOrder
<1>4. \A since, waited : AllFresh(s, since, waited) => AllFresh(t, since, waited)
  BY <1>1, <1>2 DEF AllFresh
<1>5. \A n, pending : AllCome(s, n, pending) => AllCome(t, n, pending)
  BY <1>1, <1>2 DEF AllCome
<1>. QED
  BY <1>3, <1>4, <1>5

LEMMA NotesTakenOut ==
  ASSUME NEW s \in Seq(Message), s # <<>>, NotSystem(s[Len(s)])
  PROVE  /\ WithoutNotes(s) \in Seq(Message)
         /\ PartOf(WithoutNotes(s), s)
         /\ WithoutNotes(s)[Len(WithoutNotes(s))] = s[Len(s)]
<1>. DEFINE places == {i \in 1..Len(s) : NotSystem(s[i])}
            t == AtPlaces(s, places)
<1>0. WithoutNotes(s) = t
  BY DEF WithoutNotes
<1>1. Len(s) \in places /\ Len(s) \in Nat /\ places \in SUBSET (1..Len(s))
  OBVIOUS
<1>. HIDE DEF places
<1>2. t \in Seq(Message)
  BY <1>1, AtPlacesIsPart
<1>3. PICK e \in [1..Len(t) -> 1..Len(s)] :
        /\ \A k \in 1..Len(t) : t[k] = s[e[k]] /\ e[k] \in places
        /\ \A k, l \in 1..Len(t) : k < l => e[k] < e[l]
        /\ \A i \in places : \E k \in 1..Len(t) : e[k] = i
  BY <1>1, AtPlacesIsPart
<1>. HIDE DEF t
<1>4. PartOf(t, s)
  BY <1>3 DEF PartOf
<1>5. PICK k \in 1..Len(t) : e[k] = Len(s)
  BY <1>1, <1>3
<1>6. k = Len(t)
  <2>1. Len(t) \in Nat /\ Len(t) \in 1..Len(t) /\ k \in Int
    BY <1>2, <1>5
  <2>2. e[Len(t)] \in 1..Len(s)
    BY <2>1
  <2>3. ~(k < Len(t))
    BY <1>1, <1>3, <1>5, <2>1, <2>2
  <2>. QED
    BY <1>5, <2>1, <2>3
<1>. QED
  BY <1>0, <1>2, <1>3, <1>4, <1>5, <1>6

\* One more message.
LEMMA MessageAdded ==
  ASSUME NEW s \in Seq(Message), NEW m \in Message
  PROVE  /\ Append(s, m) \in Seq(Message) /\ Append(s, m) # <<>> /\ Append(s, m)[Len(Append(s, m))] = m
         /\ /\ InOrder(s)
            /\ \A i \in 1..Len(s) : s[i].role = "assistant" => s[i].q # m.q
            /\ m.role = "user" => \A i \in 1..Len(s) : s[i].role = "user" => s[i].q <= m.q
            => InOrder(Append(s, m))
         /\ \A since, waited : AllFresh(s, since, waited) /\ Fresh(m, since, waited)
                                 => AllFresh(Append(s, m), since, waited)
         /\ \A n, pending : AllCome(s, n, pending) /\ Come(m, n, pending) => AllCome(Append(s, m), n, pending)
<1>. DEFINE t == Append(s, m)
<1>1. /\ t \in Seq(Message) /\ t # <<>> /\ Len(t) = Len(s) + 1 /\ Len(s) \in Nat
      /\ \A i \in 1..Len(s) : t[i] = s[i]
      /\ t[Len(s) + 1] = m
  <2>1. /\ t \in Seq(Message) /\ Len(t) = Len(s) + 1
        /\ \A i \in 1..Len(s) : t[i] = s[i]
        /\ t[Len(s) + 1] = m
    BY Appended
  <2>2. Len(s) \in Nat
    OBVIOUS
  <2>3. t # <<>>
    BY <2>1, <2>2
  <2>. QED
    BY <2>1, <2>2, <2>3
<1>2. \A i \in 1..Len(t) : i \in 1..Len(s) \/ i = Len(s) + 1
  BY <1>1
<1>. HIDE DEF t
<1>3. ASSUME InOrder(s), \A i \in 1..Len(s) : s[i].role = "assistant" => s[i].q # m.q,
             m.role = "user" => \A i \in 1..Len(s) : s[i].role = "user" => s[i].q <= m.q
      PROVE  InOrder(t)
  <2>1. SUFFICES ASSUME NEW i \in 1..Len(t), NEW j \in 1..Len(t), i < j
                 PROVE  /\ t[i].role = "assistant" => t[j].q # t[i].q
                        /\ t[i].role = "user" /\ t[j].role = "user" => t[i].q <= t[j].q
    BY DEF InOrder
  <2>2. i \in 1..Len(s) /\ t[i] = s[i]
    BY <1>1, <2>1
  <2>3. CASE j \in 1..Len(s)
    BY <1>1, <1>3, <2>1, <2>2, <2>3 DEF InOrder
  <2>4. CASE j = Len(s) + 1
    BY <1>1, <1>3, <2>2, <2>4
  <2>. QED
    BY <1>2, <2>3, <2>4
<1>4. \A since, waited : AllFresh(s, since, waited) /\ Fresh(m, since, waited) => AllFresh(t, since, waited)
  BY <1>1, <1>2 DEF AllFresh
<1>5. \A n, pending : AllCome(s, n, pending) /\ Come(m, n, pending) => AllCome(t, n, pending)
  BY <1>1, <1>2 DEF AllCome
<1>. QED
  BY <1>1, <1>3, <1>4, <1>5 DEF t

LEMMA CopilotInitInv == CopilotInit => CopilotInv
<1>1. SUFFICES ASSUME CopilotInit PROVE CopilotInv
  OBVIOUS
<1>0. MaxQuestions \in Nat /\ StoredLast \in Nat /\ MaxMoves \in Nat
  BY CopilotAssumption
<1>2. messages = <<>> /\ stored = <<>> /\ behind = FALSE /\ messages \in Seq(Message) /\ Len(messages) = 0 /\ asked = 0 /\ cleared = 0
      /\ flight = {} /\ late = {} /\ page \in Pages /\ moves = 0 /\ given = [q \in Questions |-> <<>>]
  BY <1>1 DEF CopilotInit
<1>3. given \in [Questions -> Seq(Message)]
  BY <1>2
<1>4. CopilotTypeOK
  <2>1. /\ stored \in Seq(Message) /\ flight \subseteq Questions /\ late \subseteq Questions
        /\ asked \in 0..MaxQuestions /\ cleared \in 0..asked /\ moves \in 0..MaxMoves
    BY <1>0, <1>2
  <2>2. behind \in BOOLEAN
    BY Zenon, <1>2
  <2>. QED
    BY Zenon, <1>2, <1>3, <2>1, <2>2 DEF CopilotTypeOK
<1>5. StorageAgrees
  BY <1>0, <1>2 DEF StorageAgrees, LastOf
<1>6. InOrder(messages) /\ AllFresh(messages, cleared, late) /\ AllCome(messages, asked, flight)
  BY <1>2 DEF InOrder, AllFresh, AllCome
<1>7. Storable(stored, asked, cleared, late, flight)
  BY <1>0, <1>2, <1>6 DEF Storable
<1>. QED
  BY <1>2, <1>4, <1>5, <1>6, <1>7 DEF CopilotInv

\* What a history that is kept has to be, for the history and for its end in the storage.
LEMMA KeptHistory ==
  ASSUME NEW s \in Seq(Message), InOrder(s), NEW n, NEW since, NEW waited, NEW pending,
         AllFresh(s, since, waited), AllCome(s, n, pending)
  PROVE  Storable(LastOf(s, StoredLast), n, since, waited, pending)
<1>. DEFINE t == LastOf(s, StoredLast)
<1>1. t \in Seq(Message) /\ PartOf(t, s) /\ Len(t) <= StoredLast
  BY LastOfIsPart, CopilotAssumption
<1>. HIDE DEF t
<1>2. Len(t) \in Nat /\ Len(s) \in Nat
  BY <1>1
<1>. QED
  BY <1>1, <1>2, PartsToo DEF t, Storable

\* A history that is kept is the one the storage holds, or the storage refused it.
LEMMA KeptOrRefused ==
  ASSUME NEW s, Keep(s)
  PROVE  /\ messages' = s /\ behind' \in BOOLEAN
         /\ ~behind' => stored' = LastOf(messages', StoredLast)
         /\ stored' = stored \/ stored' = LastOf(s, StoredLast)
  BY Zenon DEF Keep

LEMMA FewerWaitedFor ==
  ASSUME NEW s, NEW n, NEW pending, NEW rest, rest \subseteq pending, AllCome(s, n, pending)
  PROVE  AllCome(s, n, rest)
  BY DEF AllCome, Come

\* What the agent is given of a history that ends with the question.
LEMMA HandedOver ==
  ASSUME NEW s \in Seq(Message), InOrder(s), NEW q \in Questions, NEW n \in Nat, AllCome(s, n, {}), n <= q,
         \A i \in 1..Len(s) : s[i].role = "assistant" => s[i].q # q,
         NEW since, NEW waited, AllFresh(s, since, waited), since < q
  PROVE  LET g == Handed(s, [role |-> "user", q |-> q]) IN
         /\ g \in Seq(Message)
         /\ EndsWith(g, q) /\ InOrder(g) /\ AllFresh(g, since, waited)
<1>. DEFINE m == [role |-> "user", q |-> q]
            t == Append(s, m)
            l == LastOf(t, SentLast)
            g == WithoutNotes(l)
<1>1. m \in Message /\ NotSystem(m) /\ m.role = "user" /\ m.q = q /\ Fresh(m, since, waited)
  BY DEF Message, Questions, NotSystem, Fresh
<1>. HIDE DEF m
<1>2. \A i \in 1..Len(s) : s[i].role = "user" => s[i].q <= m.q
  BY <1>1, CopilotAssumption DEF AllCome, Come, Questions
<1>3. /\ t \in Seq(Message) /\ t # <<>> /\ t[Len(t)] = m
      /\ InOrder(t) /\ AllFresh(t, since, waited)
  BY <1>1, <1>2, MessageAdded
<1>. HIDE DEF t
<1>4. l \in Seq(Message) /\ PartOf(l, t) /\ Len(l) > 0 /\ l[Len(l)] = m
  BY <1>3, LastOfIsPart, CopilotAssumption
<1>. HIDE DEF l
<1>5. l # <<>> /\ Len(l) \in Nat /\ Len(t) \in Nat
  BY <1>3, <1>4
<1>6. InOrder(l) /\ AllFresh(l, since, waited)
  BY <1>3, <1>4, <1>5, PartsToo
<1>7. g \in Seq(Message) /\ PartOf(g, l) /\ g[Len(g)] = m
  BY <1>1, <1>4, <1>5, NotesTakenOut
<1>. HIDE DEF g
<1>8. Len(g) \in Nat
  BY <1>7
<1>9. InOrder(g) /\ AllFresh(g, since, waited)
  BY <1>5, <1>6, <1>7, <1>8, PartsToo
<1>10. g = Handed(s, [role |-> "user", q |-> q])
  BY DEF g, l, t, m, Handed
<1>11. EndsWith(g, q)
  BY <1>7 DEF EndsWith, m
<1>. QED
  BY <1>7, <1>9, <1>10, <1>11

LEMMA CopilotStepInv ==
  ASSUME CopilotInv, CopilotStep \/ UNCHANGED pvars
  PROVE  CopilotInv'
<1>0. /\ page \in Pages /\ messages \in Seq(Message)
      /\ stored \in Seq(Message) /\ flight \subseteq Questions /\ late \subseteq Questions
      /\ asked \in 0..MaxQuestions /\ cleared \in 0..asked /\ moves \in 0..MaxMoves
      /\ given \in [Questions -> Seq(Message)]
      /\ flight \subseteq 1..asked /\ \A q \in flight : q > cleared \/ q \in late
      /\ InOrder(messages) /\ AllFresh(messages, cleared, late) /\ AllCome(messages, asked, flight)
      /\ Storable(stored, asked, cleared, late, flight)
      /\ \A q \in 1..asked : EndsWith(given[q], q) /\ InOrder(given[q])
      /\ \A q \in (cleared + 1)..asked : AllFresh(given[q], cleared, late)
  BY DEF CopilotInv, CopilotTypeOK, StorageAgrees
<1>b. behind \in BOOLEAN /\ (~behind => stored = LastOf(messages, StoredLast))
  BY Zenon DEF CopilotInv, CopilotTypeOK, StorageAgrees
<1>n. MaxQuestions \in Nat /\ asked \in Nat /\ cleared \in Nat /\ MaxMoves \in Nat /\ cleared <= asked
  BY <1>0, CopilotAssumption
\* What every step keeps, whatever it does.
<1>a. ASSUME page' \in Pages, messages' \in Seq(Message), moves' \in 0..MaxMoves,
             flight' \subseteq 1..asked', late' \subseteq Questions, asked' \in 0..MaxQuestions,
             cleared' \in 0..asked', given' \in [Questions -> Seq(Message)],
             behind' \in BOOLEAN, ~behind' => stored' = LastOf(messages', StoredLast),
             Storable(stored', asked', cleared', late', flight'),
             \A q \in flight' : q > cleared' \/ q \in late',
             InOrder(messages'), AllFresh(messages', cleared', late'), AllCome(messages', asked', flight'),
             \A q \in 1..asked' : EndsWith(given'[q], q) /\ InOrder(given'[q]),
             \A q \in (cleared' + 1)..asked' : AllFresh(given'[q], cleared', late')
      PROVE  CopilotInv'
  <2>1. flight' \subseteq Questions
    BY <1>n, <1>a DEF Questions
  <2>2. stored' \in Seq(Message) /\ Storable(stored', asked', cleared', late', flight')
    BY <1>a DEF Storable
  <2>3. /\ page' \in Pages /\ messages' \in Seq(Message)
        /\ late' \subseteq Questions /\ asked' \in 0..MaxQuestions /\ cleared' \in 0..asked'
        /\ given' \in [Questions -> Seq(Message)] /\ moves' \in 0..MaxMoves
    BY <1>a
  <2>4. CopilotTypeOK'
    BY Zenon, <1>a, <2>1, <2>2, <2>3 DEF CopilotTypeOK
  <2>5. StorageAgrees'
    BY Zenon, <1>a DEF StorageAgrees
  <2>. QED
    BY <1>a, <2>2, <2>4, <2>5 DEF CopilotInv
<1>1. ASSUME NEW q \in Questions, AskEly(q) PROVE CopilotInv'
  <2>. DEFINE m == [role |-> "user", q |-> q]
              t == Append(messages, m)
  <2>1. /\ q = asked + 1 /\ asked' = q /\ Keep(t)
        /\ given' = [given EXCEPT ![q] = Handed(t, m)]
        /\ flight' = flight \union {q} /\ UNCHANGED <<page, cleared, late, moves>>
    BY <1>1 DEF AskEly
  <2>k. /\ messages' = t /\ behind' \in BOOLEAN /\ (~behind' => stored' = LastOf(messages', StoredLast))
        /\ stored' = stored \/ stored' = LastOf(t, StoredLast)
    BY <2>1, KeptOrRefused
  <2>2. m \in Message /\ m.role = "user" /\ m.q = q /\ Fresh(m, cleared, late) /\ Come(m, q, flight \union {q})
    BY <1>n, <2>1 DEF Message, Questions, Fresh, Come
  <2>3. /\ \A i \in 1..Len(messages) : messages[i].role = "assistant" => messages[i].q # q
        /\ \A i \in 1..Len(messages) : messages[i].role = "user" => messages[i].q <= q
    <3>1. \A i \in 1..Len(messages) : messages[i].role # "system" => messages[i].q \in 1..asked
      BY <1>0 DEF AllCome, Come
    <3>2. \A p \in 1..asked : p # q /\ p <= q
      BY <1>n, <2>1
    <3>. QED
      BY <3>1, <3>2
  <2>4. AllCome(messages, q, flight \union {q}) /\ AllCome(stored, q, flight \union {q})
    <3>1. 1..asked \subseteq 1..q /\ q \notin 1..asked
      BY <1>n, <2>1
    <3>. QED
      BY <1>0, <3>1 DEF AllCome, Come, Storable
  <2>5. AllCome(messages, q, {})
    BY <2>4 DEF AllCome, Come
  <2>6. Come(m, q, {})
    BY <2>2 DEF Come
  <2>. HIDE DEF m
  <2>7. /\ t \in Seq(Message) /\ t # <<>> /\ t[Len(t)] = m
        /\ InOrder(t) /\ AllFresh(t, cleared, late) /\ AllCome(t, q, flight \union {q}) /\ AllCome(t, q, {})
    BY <1>0, <2>2, <2>3, <2>4, <2>5, <2>6, MessageAdded
  <2>8. \A i \in 1..Len(t) : t[i].role = "assistant" => t[i].q # q
    <3>1. /\ \A i \in 1..Len(messages) : t[i] = messages[i]
          /\ Len(t) = Len(messages) + 1 /\ Len(messages) \in Nat
          /\ t[Len(t)] = m
      BY <1>0, <2>2, <2>7, Appended
    <3>2. \A i \in 1..Len(t) : i \in 1..Len(messages) \/ i = Len(t)
      BY <3>1
    <3>. QED
      BY <2>2, <2>3, <3>1, <3>2
  <2>. HIDE DEF t
  <2>. DEFINE g == Handed(t, m)
  <2>9. g \in Seq(Message) /\ EndsWith(g, q) /\ InOrder(g) /\ AllFresh(g, cleared, late)
    <3>1. q \in Nat /\ q <= q /\ cleared < q
      BY <1>n, <2>1
    <3>. QED
      BY <2>7, <2>8, <3>1, HandedOver DEF m
  <2>. HIDE DEF g
  <2>10. given' \in [Questions -> Seq(Message)] /\ given'[q] = g /\ \A p \in Questions : p # q => given'[p] = given[p]
    BY <1>0, <2>1, <2>9 DEF g
  <2>11. /\ \A p \in 1..asked' : EndsWith(given'[p], p) /\ InOrder(given'[p])
         /\ \A p \in (cleared' + 1)..asked' : AllFresh(given'[p], cleared', late')
    <3>1. \A p \in 1..asked' : p \in Questions /\ (p = q \/ p \in 1..asked)
      BY <1>n, <2>1 DEF Questions
    <3>2. \A p \in (cleared' + 1)..asked' : p \in Questions /\ (p = q \/ p \in (cleared + 1)..asked)
      BY <1>n, <2>1 DEF Questions
    <3>. QED
      BY <1>0, <2>1, <2>9, <2>10, <3>1, <3>2
  <2>12. /\ asked' \in 0..MaxQuestions /\ cleared' \in 0..asked' /\ flight' \subseteq 1..asked'
         /\ \A p \in flight' : p > cleared' \/ p \in late'
    BY <1>0, <1>n, <2>1 DEF Questions
  <2>13. Storable(stored', asked', cleared', late', flight')
    <3>1. Storable(LastOf(t, StoredLast), q, cleared, late, flight \union {q})
      BY <2>7, KeptHistory
    <3>2. Storable(stored, q, cleared, late, flight \union {q})
      BY <1>0, <2>4 DEF Storable
    <3>. QED
      BY <2>1, <2>k, <3>1, <3>2
  <2>14. messages' \in Seq(Message) /\ InOrder(messages') /\ AllFresh(messages', cleared', late') /\ AllCome(messages', asked', flight')
    BY <2>1, <2>k, <2>7
  <2>. QED
    BY Zenon, <1>0, <1>a, <2>1, <2>k, <2>10, <2>11, <2>12, <2>13, <2>14
<1>2. ASSUME NEW q \in Questions, Reply(q) PROVE CopilotInv'
  <2>. DEFINE m == [role |-> "assistant", q |-> q]
              t == Append(messages, m)
  <2>1. /\ q \in flight /\ Keep(t) /\ flight' = flight \ {q}
        /\ UNCHANGED <<page, asked, given, cleared, late, moves>>
    BY <1>2 DEF Reply
  <2>k. /\ messages' = t /\ behind' \in BOOLEAN /\ (~behind' => stored' = LastOf(messages', StoredLast))
        /\ stored' = stored \/ stored' = LastOf(t, StoredLast)
    BY <2>1, KeptOrRefused
  <2>2. m \in Message /\ m.role = "assistant" /\ m.q = q /\ Fresh(m, cleared, late) /\ Come(m, asked, flight \ {q})
    BY <1>0, <2>1 DEF Message, Questions, Fresh, Come
  <2>3. \A i \in 1..Len(messages) : messages[i].role = "assistant" => messages[i].q # q
    BY <1>0, <2>1 DEF AllCome, Come
  <2>4. AllCome(messages, asked, flight \ {q}) /\ Storable(stored, asked, cleared, late, flight \ {q})
    BY <1>0, FewerWaitedFor DEF Storable
  <2>. HIDE DEF m
  <2>5. t \in Seq(Message) /\ InOrder(t) /\ AllFresh(t, cleared, late) /\ AllCome(t, asked, flight \ {q})
    BY <1>0, <2>2, <2>3, <2>4, MessageAdded
  <2>. HIDE DEF t
  <2>6. Storable(LastOf(t, StoredLast), asked, cleared, late, flight \ {q})
    BY <2>5, KeptHistory
  <2>7. Storable(stored', asked', cleared', late', flight')
    BY <2>1, <2>k, <2>4, <2>6
  <2>8. messages' \in Seq(Message) /\ InOrder(messages') /\ AllFresh(messages', cleared', late') /\ AllCome(messages', asked', flight')
    BY <2>1, <2>k, <2>5
  <2>9. flight' \subseteq 1..asked' /\ \A p \in flight' : p > cleared' \/ p \in late'
    BY <1>0, <2>1
  <2>. QED
    BY Zenon, <1>0, <1>a, <2>1, <2>k, <2>7, <2>8, <2>9
<1>3. ASSUME NEW q \in Questions, ReplyFails(q) PROVE CopilotInv'
  <2>1. flight' = flight \ {q} /\ UNCHANGED <<page, messages, stored, behind, asked, given, cleared, late, moves>>
    BY <1>3 DEF ReplyFails
  <2>2. AllCome(messages, asked, flight \ {q}) /\ Storable(stored, asked, cleared, late, flight \ {q})
    BY <1>0, FewerWaitedFor DEF Storable
  <2>3. flight' \subseteq 1..asked' /\ \A p \in flight' : p > cleared' \/ p \in late'
    BY <1>0, <2>1
  <2>. QED
    BY Zenon, <1>0, <1>a, <1>b, <2>1, <2>2, <2>3
<1>4. ASSUME Clear PROVE CopilotInv'
  <2>1. /\ messages' = <<>> /\ stored' = <<>> /\ behind' = FALSE /\ cleared' = asked /\ late' = flight
        /\ UNCHANGED <<page, flight, asked, given, moves>>
    BY <1>4 DEF Clear
  <2>2. messages' \in Seq(Message) /\ Len(messages') = 0 /\ stored' = LastOf(messages', StoredLast)
    BY <2>1, CopilotAssumption DEF LastOf
  <2>3. InOrder(messages') /\ AllFresh(messages', cleared', late') /\ AllCome(messages', asked', flight')
    BY <2>2 DEF InOrder, AllFresh, AllCome
  <2>4. cleared' \in 0..asked' /\ (cleared' + 1)..asked' = {}
    BY <1>n, <2>1
  <2>5. Storable(stored', asked', cleared', late', flight')
    BY <2>1, <2>2, <2>3, CopilotAssumption DEF Storable
  <2>6. flight' \subseteq 1..asked' /\ late' \subseteq Questions /\ \A p \in flight' : p > cleared' \/ p \in late'
    BY <1>0, <2>1
  <2>7. \A p \in (cleared' + 1)..asked' : AllFresh(given'[p], cleared', late')
    BY <2>4
  <2>. QED
    BY Zenon, <1>0, <1>a, <2>1, <2>2, <2>3, <2>4, <2>5, <2>6, <2>7
<1>5. ASSUME NEW p \in Pages, Move(p) PROVE CopilotInv'
  <2>1. /\ page' \in {p, page} /\ flight' = {} /\ moves < MaxMoves /\ moves' = moves + 1
        /\ UNCHANGED <<asked, given, cleared, late>>
    BY <1>5 DEF Move
  <2>2. moves' \in 0..MaxMoves
    BY <1>0, <1>n, <2>1
  <2>3. page' \in Pages /\ flight' \subseteq 1..asked' /\ \A q \in flight' : q > cleared' \/ q \in late'
    BY <1>0, <2>1
  <2>4. /\ InOrder(stored) /\ AllFresh(stored, cleared, late) /\ AllCome(stored, asked, {})
        /\ LastOf(stored, StoredLast) = stored /\ Storable(stored, asked, cleared, late, {})
    BY <1>0, FewerWaitedFor DEF Storable, LastOf
  <2>5. CASE messages' = stored /\ behind' = FALSE /\ UNCHANGED stored
    <3>1. behind' \in BOOLEAN /\ (~behind' => stored' = LastOf(messages', StoredLast))
      BY Zenon, <2>4, <2>5
    <3>2. /\ messages' \in Seq(Message) /\ InOrder(messages') /\ AllFresh(messages', cleared', late')
          /\ AllCome(messages', asked', flight') /\ Storable(stored', asked', cleared', late', flight')
      BY <1>0, <2>1, <2>4, <2>5
    <3>. QED
      BY Zenon, <1>0, <1>a, <2>1, <2>2, <2>3, <3>1, <3>2
  <2>6. CASE Keep(Append(stored, [role |-> "system", q |-> 0]))
    <3>. DEFINE m == [role |-> "system", q |-> 0]
                t == Append(stored, m)
    <3>1. /\ messages' = t /\ behind' \in BOOLEAN /\ (~behind' => stored' = LastOf(messages', StoredLast))
          /\ stored' = stored \/ stored' = LastOf(t, StoredLast)
      BY <2>6, KeptOrRefused
    <3>2. m \in Message /\ m.role = "system" /\ m.q = 0 /\ Fresh(m, cleared, late) /\ Come(m, asked, {})
      BY <1>n DEF Message, Fresh, Come
    <3>3. \A i \in 1..Len(stored) : stored[i].role = "assistant" => stored[i].q # 0
      BY <1>n, <2>4 DEF AllCome, Come
    <3>. HIDE DEF m
    <3>4. t \in Seq(Message) /\ InOrder(t) /\ AllFresh(t, cleared, late) /\ AllCome(t, asked, {})
      BY <1>0, <2>4, <3>2, <3>3, MessageAdded
    <3>. HIDE DEF t
    <3>5. Storable(LastOf(t, StoredLast), asked, cleared, late, {})
      BY <3>4, KeptHistory
    <3>6. /\ messages' \in Seq(Message) /\ InOrder(messages') /\ AllFresh(messages', cleared', late')
          /\ AllCome(messages', asked', flight') /\ Storable(stored', asked', cleared', late', flight')
      BY <2>1, <2>4, <3>1, <3>4, <3>5
    <3>. QED
      BY Zenon, <1>0, <1>a, <2>1, <2>2, <2>3, <3>1, <3>6
  <2>. QED
    BY Zenon, <1>5, <2>5, <2>6 DEF Move
<1>6. ASSUME UNCHANGED pvars PROVE CopilotInv'
  BY Zenon, <1>0, <1>6, <1>a, <1>b DEF pvars
<1>. QED
  BY <1>1, <1>2, <1>3, <1>4, <1>5, <1>6 DEF CopilotStep

---------------------------------------------------------------------------
(* The canvas. *)

OutPort == {"out", "out_true", "out_false"}
Link == [from : Ids, fromPort : OutPort, to : Ids]
Distinct(ns) == \A i, j \in DOMAIN ns : ns[i].id = ns[j].id \/ ns[i].tag = ns[j].tag => i = j
OneEach(cs) == \A i, j \in DOMAIN cs : cs[i].to = cs[j].to => i = j
\* What a user sees of a connection.
Pair(ns, c) == <<TagOf(ns, c.from), c.fromPort, TagOf(ns, c.to)>>
\* A graph, on the canvas or in the store: its connections end in its blocks, one in each, and as long
\* as none came from another block than it was drawn from they begin in them and are the drawn ones.
GraphSound(ns, cs, seen, ill) ==
  /\ ns \in Seq(NodeRows) /\ Distinct(ns)
  /\ cs \in Seq(Link) /\ OneEach(cs)
  /\ \A c \in Range(cs) : c.to \in IdsOf(ns)
  /\ ~ill => seen = {Pair(ns, c) : c \in Range(cs)} /\ \A c \in Range(cs) : c.from \in IdsOf(ns)
Below(ns, id, tag) == Len(ns) <= tag /\ \A i \in DOMAIN ns : ns[i].id <= id /\ ns[i].tag <= tag

CanvasInv ==
  /\ tags \in 0..MaxBlocks /\ nextId \in 1..(tags + 1)
  /\ loads \in [saved : 0..MaxLoads, loaded : 0..MaxLoads] /\ misled \in BOOLEAN /\ store.misled \in BOOLEAN
  /\ GraphSound(nodes, connections, drawn, misled) /\ Below(nodes, nextId - 1, tags)
  /\ GraphSound(store.nodes, store.connections, store.drawn, store.misled) /\ Below(store.nodes, MaxBlocks, tags)
  /\ connecting # Nobody => connecting.from \in Ids /\ connecting.port \in OutPort
  /\ selectedConn # Nobody => selectedConn \in DOMAIN connections

\* Blocks are found by their identifiers.
LEMMA Found ==
  ASSUME NEW ns \in Seq(NodeRows), Distinct(ns)
  PROVE  /\ \A i \in DOMAIN ns : ns[i] \in NodeRows /\ ns[i].id \in IdsOf(ns) /\ Node(ns, ns[i].id) = ns[i]
         /\ \A i \in DOMAIN ns : TagOf(ns, ns[i].id) = ns[i].tag
         /\ \A x \in IdsOf(ns) : \E i \in DOMAIN ns : ns[i].id = x
         /\ \A x, y \in IdsOf(ns) : TagOf(ns, x) = TagOf(ns, y) => x = y
         /\ IdsOf(ns) \subseteq Ids
<1>1. ASSUME NEW i \in DOMAIN ns
      PROVE  ns[i] \in NodeRows /\ ns[i].id \in IdsOf(ns) /\ Node(ns, ns[i].id) = ns[i] /\ TagOf(ns, ns[i].id) = ns[i].tag
  <2>. DEFINE j == CHOOSE k \in DOMAIN ns : ns[k].id = ns[i].id
  <2>1. j \in DOMAIN ns /\ ns[j].id = ns[i].id
    OBVIOUS
  <2>2. j = i
    BY <2>1 DEF Distinct
  <2>3. Node(ns, ns[i].id) = ns[i]
    BY <2>2 DEF Node
  <2>. HIDE DEF j
  <2>4. ns[i] \in NodeRows /\ ns[i].id \in IdsOf(ns)
    BY DEF IdsOf
  <2>. QED
    BY <2>3, <2>4 DEF TagOf
<1>2. \A x \in IdsOf(ns) : \E i \in DOMAIN ns : ns[i].id = x
  BY DEF IdsOf
<1>3. \A x, y \in IdsOf(ns) : TagOf(ns, x) = TagOf(ns, y) => x = y
  BY <1>1, <1>2 DEF Distinct
<1>4. IdsOf(ns) \subseteq Ids
  BY <1>1, <1>2 DEF NodeRows
<1>. QED
  BY <1>1, <1>2, <1>3, <1>4

LEMMA PairsSeen ==
  ASSUME NEW ns, NEW cs, NEW seen, NEW ill, GraphSound(ns, cs, seen, ill), ~ill
  PROVE  Seen(ns, cs) = seen /\ Dangling(ns, cs) = {}
<1>1. \A c \in Range(cs) : {c.from, c.to} \subseteq IdsOf(ns)
  BY DEF GraphSound
<1>2. {c \in Range(cs) : {c.from, c.to} \subseteq IdsOf(ns)} = Range(cs)
  BY <1>1
<1>3. Seen(ns, cs) = {Pair(ns, c) : c \in Range(cs)}
  BY <1>2 DEF Seen, Pair
<1>. QED
  BY <1>1, <1>3 DEF GraphSound, Dangling

LEMMA CanvasSound == CanvasInv => EditorTypeOK /\ OneIncoming /\ SelectionInRange /\ EdgesAsDrawn
<1>. SUFFICES ASSUME CanvasInv PROVE EditorTypeOK /\ OneIncoming /\ SelectionInRange /\ EdgesAsDrawn
  OBVIOUS
<1>1. MaxBlocks \in Nat /\ tags \in 0..MaxBlocks /\ nextId \in 1..(tags + 1)
  BY EditorAssumption DEF CanvasInv
<1>2. nextId \in Ids \union {2 * MaxBlocks + 1}
  BY <1>1 DEF Ids
<1>3. nodes \in Seq(NodeRows) /\ Len(nodes) <= tags /\ Len(nodes) \in Nat /\ Distinct(nodes)
  BY DEF CanvasInv, GraphSound, Below
<1>4. Len(nodes) <= MaxBlocks
  BY <1>1, <1>3
<1>5. IsInjective([i \in DOMAIN nodes |-> nodes[i].id])
  BY <1>3 DEF Distinct, IsInjective
<1>6. EditorTypeOK
  BY <1>1, <1>2, <1>3, <1>4, <1>5 DEF CanvasInv, GraphSound, EditorTypeOK, Link, OutPort
<1>7. OneIncoming /\ SelectionInRange
  BY DEF CanvasInv, GraphSound, OneEach, OneIncoming, SelectionInRange
<1>8. EdgesAsDrawn
  BY PairsSeen DEF CanvasInv, EdgesAsDrawn
<1>. QED
  BY <1>6, <1>7, <1>8

\* Connections that are taken out leave one in each block.
LEMMA SomeLinks ==
  ASSUME NEW cs \in Seq(Link), OneEach(cs), NEW S
  PROVE  Among(cs, S) \in Seq(Link) /\ OneEach(Among(cs, S)) /\ Range(Among(cs, S)) = Range(cs) \intersect S
<1>. DEFINE t == Among(cs, S)
<1>1. t \in Seq(Link) /\ Range(t) = Range(cs) \intersect S
  BY AmongIsPart
<1>2. PICK e \in [1..Len(t) -> 1..Len(cs)] :
        /\ \A k \in 1..Len(t) : t[k] = cs[e[k]]
        /\ \A k, l \in 1..Len(t) : k < l => e[k] < e[l]
  BY AmongIsPart
<1>. HIDE DEF t
<1>3. \A k \in 1..Len(t) : e[k] \in 1..Len(cs)
  BY <1>2
<1>4. DOMAIN t = 1..Len(t) /\ DOMAIN cs = 1..Len(cs) /\ Len(t) \in Nat /\ Len(cs) \in Nat
  BY <1>1
<1>5. ASSUME NEW k \in 1..Len(t), NEW l \in 1..Len(t), t[k].to = t[l].to PROVE k = l
  <2>1. e[k] = e[l]
    BY <1>2, <1>3, <1>4, <1>5 DEF OneEach
  <2>2. ~(e[k] < e[l]) /\ ~(e[l] < e[k])
    BY <1>3, <1>4, <2>1
  <2>3. ~(k < l) /\ ~(l < k)
    BY <1>2, <2>2
  <2>. QED
    BY <1>4, <2>3
<1>. QED
  BY <1>1, <1>4, <1>5 DEF OneEach, t

LEMMA LinkRemoved ==
  ASSUME NEW cs \in Seq(Link), OneEach(cs), NEW i \in DOMAIN cs
  PROVE  /\ RemoveAt(cs, i) \in Seq(Link) /\ OneEach(RemoveAt(cs, i))
         /\ Range(RemoveAt(cs, i)) = {c \in Range(cs) : c # cs[i]}
<1>. DEFINE a == SubSeq(cs, 1, i - 1)
            b == SubSeq(cs, i + 1, Len(cs))
            t == RemoveAt(cs, i)
<1>1. i \in 1..Len(cs) /\ Len(cs) \in Nat /\ i \in Int /\ DOMAIN cs = 1..Len(cs)
  OBVIOUS
<1>2. a \in Seq(Link) /\ Len(a) = i - 1 /\ \A k \in 1..(i - 1) : a[k] = cs[k]
  BY <1>1
<1>3. b \in Seq(Link) /\ Len(b) = Len(cs) - i /\ \A k \in 1..(Len(cs) - i) : b[k] = cs[i + k]
  BY <1>1
<1>4. t = a \o b
  BY DEF RemoveAt
<1>. HIDE DEF a, b
<1>5. /\ a \o b \in Seq(Link) /\ Len(a \o b) = Len(a) + Len(b)
      /\ \A k \in 1..(Len(a) + Len(b)) : (a \o b)[k] = IF k <= Len(a) THEN a[k] ELSE b[k - Len(a)]
  <2>1. a \in Seq(Link) /\ b \in Seq(Link)
    BY <1>2, <1>3
  <2>. QED
    BY <2>1, ConcatProperties, Zenon
<1>. HIDE DEF t
<1>6. t \in Seq(Link) /\ Len(t) = Len(cs) - 1 /\ DOMAIN t = 1..(Len(cs) - 1)
  <2>1. (i - 1) + (Len(cs) - i) = Len(cs) - 1
    BY <1>1
  <2>2. t \in Seq(Link) /\ Len(t) = Len(cs) - 1
    BY <1>2, <1>3, <1>4, <1>5, <2>1
  <2>. QED
    BY <2>2
<1>7. ASSUME NEW k \in 1..(Len(cs) - 1) PROVE t[k] = IF k < i THEN cs[k] ELSE cs[k + 1]
  <2>1. CASE k < i
    <3>1. Len(a) = i - 1 /\ Len(b) = Len(cs) - i
      BY <1>2, <1>3
    <3>2. k \in 1..(i - 1) /\ k <= Len(a) /\ k \in 1..(Len(a) + Len(b))
      BY <1>1, <2>1, <3>1
    <3>3. t[k] = a[k] /\ a[k] = cs[k]
      BY <1>2, <1>4, <1>5, <3>2
    <3>. QED
      BY <2>1, <3>3
  <2>2. CASE ~(k < i)
    <3>1. k - (i - 1) \in 1..(Len(cs) - i) /\ i + (k - (i - 1)) = k + 1 /\ ~(k <= i - 1) /\ k \in 1..((i - 1) + (Len(cs) - i))
      BY <1>1, <2>2
    <3>2. Len(a) = i - 1 /\ Len(b) = Len(cs) - i
      BY <1>2, <1>3
    <3>. DEFINE m == k - (i - 1)
    <3>3. k \in 1..(Len(a) + Len(b)) /\ ~(k <= Len(a)) /\ k - Len(a) = m
      BY <3>1, <3>2
    <3>4. m \in 1..(Len(cs) - i) /\ i + m = k + 1
      BY <3>1
    <3>. HIDE DEF m
    <3>5. t[k] = b[m]
      BY <1>4, <1>5, <3>3
    <3>6. b[m] = cs[k + 1]
      BY <1>3, <3>4
    <3>. QED
      BY <2>2, <3>5, <3>6
  <2>. QED
    BY <2>1, <2>2
<1>. DEFINE at == [k \in 1..(Len(cs) - 1) |-> IF k < i THEN k ELSE k + 1]
<1>8. /\ \A k \in 1..(Len(cs) - 1) : at[k] \in 1..Len(cs) /\ at[k] # i /\ t[k] = cs[at[k]]
      /\ \A k, l \in 1..(Len(cs) - 1) : at[k] = at[l] => k = l
      /\ \A n \in 1..Len(cs) : n # i => \E k \in 1..(Len(cs) - 1) : at[k] = n
  <2>1. \A k \in 1..(Len(cs) - 1) : at[k] \in 1..Len(cs) /\ at[k] # i /\ t[k] = cs[at[k]]
    BY <1>1, <1>7
  <2>2. \A k, l \in 1..(Len(cs) - 1) : at[k] = at[l] => k = l
    BY <1>1
  <2>3. ASSUME NEW n \in 1..Len(cs), n # i PROVE \E k \in 1..(Len(cs) - 1) : at[k] = n
    <3>1. CASE n < i
      <4>1. n \in 1..(Len(cs) - 1) /\ at[n] = n
        BY <1>1, <3>1
      <4>. QED
        BY <4>1
    <3>2. CASE n > i
      <4>1. n - 1 \in 1..(Len(cs) - 1) /\ at[n - 1] = n
        BY <1>1, <3>2
      <4>. QED
        BY <4>1
    <3>. QED
      BY <1>1, <2>3, <3>1, <3>2
  <2>. QED
    BY <2>1, <2>2, <2>3
<1>. HIDE DEF at
<1>9. OneEach(t)
  <2>1. SUFFICES ASSUME NEW k \in 1..(Len(cs) - 1), NEW l \in 1..(Len(cs) - 1), t[k].to = t[l].to PROVE k = l
    BY <1>6 DEF OneEach
  <2>2. at[k] \in DOMAIN cs /\ at[l] \in DOMAIN cs /\ cs[at[k]].to = cs[at[l]].to
    BY <1>1, <1>8, <2>1
  <2>3. at[k] = at[l]
    BY <2>2 DEF OneEach
  <2>. QED
    BY <1>8, <2>3
<1>10. Range(t) = {c \in Range(cs) : c # cs[i]}
  <2>1. \A n \in 1..Len(cs) : cs[n] = cs[i] => n = i
    BY <1>1 DEF OneEach
  <2>2. \A k \in 1..(Len(cs) - 1) : t[k] \in Range(cs) /\ t[k] # cs[i]
    <3>1. SUFFICES ASSUME NEW k \in 1..(Len(cs) - 1) PROVE t[k] \in Range(cs) /\ t[k] # cs[i]
      OBVIOUS
    <3>2. at[k] \in 1..Len(cs) /\ at[k] # i /\ t[k] = cs[at[k]]
      BY <1>8
    <3>3. at[k] \in DOMAIN cs
      BY <1>1, <3>2
    <3>. QED
      BY <2>1, <3>2, <3>3 DEF Range
  <2>3. \A n \in 1..Len(cs) : cs[n] # cs[i] => cs[n] \in Range(t)
    <3>1. SUFFICES ASSUME NEW n \in 1..Len(cs), cs[n] # cs[i] PROVE cs[n] \in Range(t)
      OBVIOUS
    <3>2. PICK k \in 1..(Len(cs) - 1) : at[k] = n
      BY <1>8, <3>1
    <3>3. t[k] = cs[n] /\ k \in DOMAIN t
      BY <1>6, <1>8, <3>2
    <3>. QED
      BY <3>3 DEF Range
  <2>. QED
    BY <1>1, <1>6, <2>2, <2>3 DEF Range
<1>. QED
  BY <1>6, <1>9, <1>10 DEF t

\* A connection that is added takes the place of the one that ended there.
LEMMA LinkAdded ==
  ASSUME NEW cs \in Seq(Link), OneEach(cs), NEW new \in Link
  PROVE  LET t == Append(Among(cs, {c \in Range(cs) : c.to # new.to}), new) IN
           t \in Seq(Link) /\ OneEach(t) /\ Range(t) = {c \in Range(cs) : c.to # new.to} \union {new}
<1>. DEFINE S == {c \in Range(cs) : c.to # new.to}
            s == Among(cs, S)
            t == Append(s, new)
<1>1. s \in Seq(Link) /\ OneEach(s) /\ Range(s) = Range(cs) \intersect S
  BY SomeLinks
<1>2. \A c \in Range(s) : c.to # new.to
  BY <1>1
<1>3. Range(s) = S
  BY <1>1
<1>. HIDE DEF s, S
<1>4. /\ t \in Seq(Link) /\ Len(t) = Len(s) + 1 /\ t[Len(s) + 1] = new /\ \A k \in 1..Len(s) : t[k] = s[k]
      /\ DOMAIN t = 1..(Len(s) + 1) /\ DOMAIN s = 1..Len(s) /\ Len(s) \in Nat
  BY <1>1, Appended
<1>. HIDE DEF t
<1>5. \A k \in 1..Len(s) : t[k].to # new.to
  BY <1>2, <1>4 DEF Range
<1>6. OneEach(t)
  <2>1. SUFFICES ASSUME NEW k \in 1..(Len(s) + 1), NEW l \in 1..(Len(s) + 1), t[k].to = t[l].to PROVE k = l
    BY <1>4 DEF OneEach
  <2>2. CASE k \in 1..Len(s) /\ l \in 1..Len(s)
    BY <1>1, <1>4, <2>1, <2>2 DEF OneEach
  <2>3. CASE k \notin 1..Len(s) \/ l \notin 1..Len(s)
    <3>1. (k = Len(s) + 1 \/ k \in 1..Len(s)) /\ (l = Len(s) + 1 \/ l \in 1..Len(s))
      BY <1>4
    <3>. QED
      BY <1>4, <1>5, <2>1, <2>3, <3>1
  <2>. QED
    BY <2>2, <2>3
<1>7. Range(t) = Range(s) \union {new}
  <2>1. 1..(Len(s) + 1) = 1..Len(s) \union {Len(s) + 1}
    BY <1>4
  <2>. QED
    BY <1>4, <2>1 DEF Range
<1>. QED
  BY <1>3, <1>4, <1>6, <1>7 DEF S, s, t

LEMMA LinksKept ==
  ASSUME NEW cs \in Seq(Link), OneEach(cs), NEW new \in Link
  PROVE  Len(cs) <= Len(Append(Among(cs, {c \in Range(cs) : c.to # new.to}), new))
<1>. DEFINE t == Append(Among(cs, {c \in Range(cs) : c.to # new.to}), new)
<1>1. t \in Seq(Link) /\ OneEach(t) /\ Range(t) = {c \in Range(cs) : c.to # new.to} \union {new}
  BY LinkAdded
<1>. HIDE DEF t
<1>2. DOMAIN t = 1..Len(t) /\ Len(t) \in Nat /\ DOMAIN cs = 1..Len(cs) /\ Len(cs) \in Nat
  BY <1>1
<1>3. \A i \in 1..Len(cs) : \E k \in 1..Len(t) : t[k].to = cs[i].to
  <2>1. SUFFICES ASSUME NEW i \in 1..Len(cs) PROVE \E k \in 1..Len(t) : t[k].to = cs[i].to
    OBVIOUS
  <2>2. cs[i] \in Range(cs)
    BY <1>2 DEF Range
  <2>3. \E c \in Range(t) : c.to = cs[i].to
    BY <1>1, <2>2
  <2>. QED
    BY <1>2, <2>3 DEF Range
<1>. DEFINE e == [i \in 1..Len(cs) |-> CHOOSE k \in 1..Len(t) : t[k].to = cs[i].to]
<1>4. e \in [1..Len(cs) -> 1..Len(t)] /\ \A i \in 1..Len(cs) : t[e[i]].to = cs[i].to
  BY <1>3
<1>. HIDE DEF e
<1>5. e \in Injection(1..Len(cs), 1..Len(t))
  <2>1. \A i, j \in 1..Len(cs) : e[i] = e[j] => i = j
    BY <1>2, <1>4 DEF OneEach
  <2>2. DOMAIN e = 1..Len(cs)
    BY <1>4
  <2>. QED
    BY <1>4, <2>1, <2>2 DEF Injection, IsInjective
<1>6. IsFiniteSet(1..Len(t)) /\ Cardinality(1..Len(t)) = Len(t) /\ Cardinality(1..Len(cs)) = Len(cs)
  <2>1. 1 \in Int /\ Len(cs) \in Int /\ Len(t) \in Int /\ Len(cs) >= 0 /\ Len(t) >= 0
    BY <1>2
  <2>2. IsFiniteSet(1..Len(t)) /\ Cardinality(1..Len(t)) = IF 1 > Len(t) THEN 0 ELSE Len(t) - 1 + 1
    BY <2>1, FS_Interval
  <2>3. Cardinality(1..Len(cs)) = IF 1 > Len(cs) THEN 0 ELSE Len(cs) - 1 + 1
    BY <2>1, FS_Interval
  <2>. QED
    BY <2>1, <2>2, <2>3
<1>7. Cardinality(1..Len(cs)) <= Cardinality(1..Len(t))
  BY <1>5, <1>6, FS_Injection
<1>. QED
  BY <1>6, <1>7 DEF t

LEMMA EmptyGraph == GraphSound(<<>>, <<>>, {}, FALSE)
<1>1. <<>> \in Seq(NodeRows) /\ <<>> \in Seq(Link) /\ DOMAIN <<>> = {} /\ Range(<<>>) = {}
  BY DEF Range
<1>. QED
  BY <1>1 DEF GraphSound, Distinct, OneEach

LEMMA GraphLinked ==
  ASSUME NEW ns, NEW cs, NEW seen, NEW ill, GraphSound(ns, cs, seen, ill),
         NEW new \in Link, new.to \in IdsOf(ns), NEW ill2, ~ill2 => ~ill /\ new.from \in IdsOf(ns)
  PROVE  GraphSound(ns, Append(Among(cs, {c \in Range(cs) : c.to # new.to}), new),
                    {p \in seen : p[3] # TagOf(ns, new.to)} \union (IF new.from \in IdsOf(ns) THEN {Pair(ns, new)} ELSE {}),
                    ill2)
<1>. DEFINE t == Append(Among(cs, {c \in Range(cs) : c.to # new.to}), new)
<1>1. cs \in Seq(Link) /\ OneEach(cs) /\ ns \in Seq(NodeRows) /\ Distinct(ns) /\ \A c \in Range(cs) : c.to \in IdsOf(ns)
  BY DEF GraphSound
<1>2. t \in Seq(Link) /\ OneEach(t) /\ Range(t) = {c \in Range(cs) : c.to # new.to} \union {new}
  BY <1>1, LinkAdded
<1>. HIDE DEF t
<1>3. \A c \in Range(t) : c.to \in IdsOf(ns)
  BY <1>1, <1>2
<1>4. ASSUME ~ill2
      PROVE  /\ {p \in seen : p[3] # TagOf(ns, new.to)} \union (IF new.from \in IdsOf(ns) THEN {Pair(ns, new)} ELSE {})
                   = {Pair(ns, c) : c \in Range(t)}
             /\ \A c \in Range(t) : c.from \in IdsOf(ns)
  <2>1. seen = {Pair(ns, c) : c \in Range(cs)} /\ \A c \in Range(cs) : c.from \in IdsOf(ns)
    BY <1>4 DEF GraphSound
  <2>2. \A c : Pair(ns, c)[3] = TagOf(ns, c.to)
    BY DEF Pair
  <2>3. \A c \in Range(cs) : Pair(ns, c)[3] # TagOf(ns, new.to) <=> c.to # new.to
    BY <1>1, <2>2, Found
  <2>. QED
    BY <1>2, <1>4, <2>1, <2>3
<1>. QED
  BY <1>1, <1>2, <1>3, <1>4 DEF GraphSound, t

\* Blocks that are taken out leave the others as they were.
LEMMA BlocksLeft ==
  ASSUME NEW ns \in Seq(NodeRows), Distinct(ns), NEW id \in IdsOf(ns), NEW t, t = Among(ns, {n \in Range(ns) : n.id # id})
  PROVE  /\ t \in Seq(NodeRows) /\ Distinct(t) /\ IdsOf(t) = IdsOf(ns) \ {id}
         /\ \A x \in IdsOf(t) : TagOf(t, x) = TagOf(ns, x) /\ TagOf(ns, x) # TagOf(ns, id)
         /\ \A a, b \in Int : Below(ns, a, b) => Below(t, a, b)
<1>. DEFINE S == {n \in Range(ns) : n.id # id}
<1>0. PICK i \in DOMAIN ns : ns[i].id = id
  BY DEF IdsOf
<1>1. t \in Seq(NodeRows) /\ Range(t) = Range(ns) \intersect S /\ Len(t) <= Len(ns)
  BY AmongIsPart
<1>a. \E e \in [1..Len(Among(ns, S)) -> 1..Len(ns)] :
        /\ \A k \in 1..Len(Among(ns, S)) : Among(ns, S)[k] = ns[e[k]]
        /\ \A k, l \in 1..Len(Among(ns, S)) : k < l => e[k] < e[l]
  BY AmongIsPart
<1>b. t = Among(ns, S)
  OBVIOUS
<1>2. PICK e \in [1..Len(t) -> 1..Len(ns)] :
        /\ \A k \in 1..Len(t) : t[k] = ns[e[k]]
        /\ \A k, l \in 1..Len(t) : k < l => e[k] < e[l]
  <2>. HIDE DEF S
  <2>. QED
    BY <1>a, <1>b
<1>3. Range(t) = S /\ \A n \in S : n.id # id
  BY <1>1
<1>. HIDE DEF S
<1>4. \A k \in 1..Len(t) : e[k] \in 1..Len(ns)
  BY <1>2
<1>5. DOMAIN t = 1..Len(t) /\ DOMAIN ns = 1..Len(ns) /\ Len(t) \in Nat /\ Len(ns) \in Nat
  BY <1>1
<1>6. Distinct(t)
  <2>1. SUFFICES ASSUME NEW k \in 1..Len(t), NEW l \in 1..Len(t), t[k].id = t[l].id \/ t[k].tag = t[l].tag PROVE k = l
    BY <1>5 DEF Distinct
  <2>2. e[k] = e[l]
    <3>1. e[k] \in DOMAIN ns /\ e[l] \in DOMAIN ns
      BY <1>4, <1>5
    <3>2. ns[e[k]].id = ns[e[l]].id \/ ns[e[k]].tag = ns[e[l]].tag
      BY <1>2, <2>1
    <3>. QED
      BY <3>1, <3>2 DEF Distinct
  <2>3. ~(e[k] < e[l]) /\ ~(e[l] < e[k])
    BY <1>4, <1>5, <2>2
  <2>4. ~(k < l) /\ ~(l < k)
    BY <1>2, <2>3
  <2>. QED
    BY <1>5, <2>4
<1>7. \A k \in DOMAIN t : t[k].id # id /\ \E j \in DOMAIN ns : ns[j] = t[k]
  <2>1. SUFFICES ASSUME NEW k \in 1..Len(t) PROVE t[k].id # id /\ \E j \in DOMAIN ns : ns[j] = t[k]
    BY <1>5
  <2>2. t[k] \in Range(t)
    BY <1>5 DEF Range
  <2>. QED
    BY <1>2, <1>3, <1>4, <1>5, <2>2
<1>8. \A j \in DOMAIN ns : ns[j].id # id => \E k \in DOMAIN t : t[k] = ns[j]
  <2>1. SUFFICES ASSUME NEW j \in DOMAIN ns, ns[j].id # id PROVE \E k \in DOMAIN t : t[k] = ns[j]
    OBVIOUS
  <2>2. ns[j] \in Range(t)
    BY <1>3, <2>1 DEF S, Range
  <2>. QED
    BY <2>2 DEF Range
<1>9. IdsOf(t) = IdsOf(ns) \ {id}
  <2>1. \A x \in IdsOf(t) : x \in IdsOf(ns) \ {id}
    BY <1>7 DEF IdsOf
  <2>2. ASSUME NEW j \in DOMAIN ns, ns[j].id # id PROVE ns[j].id \in IdsOf(t)
    <3>1. PICK k \in DOMAIN t : t[k] = ns[j]
      BY <1>8, <2>2
    <3>. QED
      BY <3>1 DEF IdsOf
  <2>3. \A x \in IdsOf(ns) : x # id => x \in IdsOf(t)
    BY <2>2 DEF IdsOf
  <2>. QED
    BY <2>1, <2>3
<1>10. \A x \in IdsOf(t) : TagOf(t, x) = TagOf(ns, x) /\ TagOf(ns, x) # TagOf(ns, id)
  <2>1. SUFFICES ASSUME NEW k \in DOMAIN t
                 PROVE  TagOf(t, t[k].id) = TagOf(ns, t[k].id) /\ TagOf(ns, t[k].id) # TagOf(ns, id)
    BY DEF IdsOf
  <2>2. PICK j \in DOMAIN ns : ns[j] = t[k]
    BY <1>7
  <2>3. TagOf(t, t[k].id) = t[k].tag
    BY <1>1, <1>6, Found
  <2>4. TagOf(ns, ns[j].id) = ns[j].tag /\ TagOf(ns, id) = ns[i].tag
    BY <1>0, Found
  <2>5. ns[j].tag # ns[i].tag
    BY <1>0, <1>7, <2>2 DEF Distinct
  <2>. QED
    BY <2>2, <2>3, <2>4, <2>5
<1>11. \A a, b \in Int : Below(ns, a, b) => Below(t, a, b)
  <2>1. SUFFICES ASSUME NEW a \in Int, NEW b \in Int, Below(ns, a, b) PROVE Below(t, a, b)
    OBVIOUS
  <2>2. \A k \in DOMAIN t : t[k].id <= a /\ t[k].tag <= b
    BY <1>7, <2>1 DEF Below
  <2>3. Len(t) <= b
    BY <1>1, <1>5, <2>1 DEF Below
  <2>. QED
    BY <2>2, <2>3 DEF Below
<1>. QED
  BY <1>1, <1>6, <1>9, <1>10, <1>11

LEMMA GraphWithout ==
  ASSUME NEW ns, NEW cs, NEW seen, NEW ill, GraphSound(ns, cs, seen, ill), NEW id \in IdsOf(ns)
  PROVE  GraphSound(Among(ns, {n \in Range(ns) : n.id # id}), Among(cs, {c \in Range(cs) : id \notin {c.from, c.to}}),
                    {p \in seen : p[1] # TagOf(ns, id) /\ p[3] # TagOf(ns, id)}, ill)
<1>. DEFINE t == Among(ns, {n \in Range(ns) : n.id # id})
            S == {c \in Range(cs) : id \notin {c.from, c.to}}
            u == Among(cs, S)
<1>1. cs \in Seq(Link) /\ OneEach(cs) /\ ns \in Seq(NodeRows) /\ Distinct(ns) /\ \A c \in Range(cs) : c.to \in IdsOf(ns)
  BY DEF GraphSound
<1>2. /\ t \in Seq(NodeRows) /\ Distinct(t) /\ IdsOf(t) = IdsOf(ns) \ {id}
      /\ \A x \in IdsOf(t) : TagOf(t, x) = TagOf(ns, x) /\ TagOf(ns, x) # TagOf(ns, id)
  BY <1>1, BlocksLeft
<1>3. u \in Seq(Link) /\ OneEach(u) /\ Range(u) = Range(cs) \intersect S
  BY <1>1, SomeLinks
<1>4. Range(u) = S /\ \A c \in S : c \in Range(cs) /\ c.from # id /\ c.to # id
  BY <1>3
<1>5. \A c \in Range(cs) : c \in S <=> c.from # id /\ c.to # id
  OBVIOUS
<1>. HIDE DEF t, u, S
<1>6. \A c \in Range(u) : c.to \in IdsOf(t)
  BY <1>1, <1>2, <1>4
<1>7. ASSUME ~ill
      PROVE  /\ {p \in seen : p[1] # TagOf(ns, id) /\ p[3] # TagOf(ns, id)} = {Pair(t, c) : c \in Range(u)}
             /\ \A c \in Range(u) : c.from \in IdsOf(t)
  <2>1. seen = {Pair(ns, c) : c \in Range(cs)} /\ \A c \in Range(cs) : c.from \in IdsOf(ns)
    BY <1>7 DEF GraphSound
  <2>2. \A c : Pair(ns, c)[3] = TagOf(ns, c.to) /\ Pair(ns, c)[1] = TagOf(ns, c.from)
    BY DEF Pair
  <2>3. \A c \in Range(u) : c.from \in IdsOf(t) /\ c.to \in IdsOf(t)
    BY <1>2, <1>4, <1>6, <2>1
  <2>4. \A c \in Range(u) : Pair(t, c) = Pair(ns, c)
    BY <1>2, <2>3 DEF Pair
  <2>5. \A c \in Range(cs) : Pair(ns, c)[1] # TagOf(ns, id) /\ Pair(ns, c)[3] # TagOf(ns, id) <=> c \in S
    BY <1>1, <1>2, <1>5, <2>1, <2>2
  <2>. QED
    BY <1>4, <2>1, <2>3, <2>4, <2>5
<1>. QED
  BY <1>2, <1>3, <1>6, <1>7 DEF GraphSound, t, u, S

LEMMA GraphUnlinked ==
  ASSUME NEW ns, NEW cs, NEW seen, NEW ill, GraphSound(ns, cs, seen, ill), NEW i \in DOMAIN cs
  PROVE  GraphSound(ns, RemoveAt(cs, i), IF cs[i] \in Dangling(ns, cs) THEN seen ELSE seen \ {Pair(ns, cs[i])}, ill)
<1>. DEFINE t == RemoveAt(cs, i)
            left == IF cs[i] \in Dangling(ns, cs) THEN seen ELSE seen \ {Pair(ns, cs[i])}
<1>1. cs \in Seq(Link) /\ OneEach(cs) /\ ns \in Seq(NodeRows) /\ Distinct(ns) /\ \A c \in Range(cs) : c.to \in IdsOf(ns)
  BY DEF GraphSound
<1>2. t \in Seq(Link) /\ OneEach(t) /\ Range(t) = {c \in Range(cs) : c # cs[i]}
  BY <1>1, LinkRemoved
<1>. HIDE DEF t, left
<1>3. \A c \in Range(t) : c.to \in IdsOf(ns)
  BY <1>1, <1>2
<1>4. ASSUME ~ill PROVE left = {Pair(ns, c) : c \in Range(t)} /\ \A c \in Range(t) : c.from \in IdsOf(ns)
  <2>1. seen = {Pair(ns, c) : c \in Range(cs)} /\ \A c \in Range(cs) : c.from \in IdsOf(ns)
    BY <1>4 DEF GraphSound
  <2>2. cs[i] \in Range(cs) /\ cs[i] \notin Dangling(ns, cs)
    BY <1>1, <2>1 DEF Range, Dangling
  <2>3. \A c \in Range(cs) : Pair(ns, c) = Pair(ns, cs[i]) => c = cs[i]
    <3>1. SUFFICES ASSUME NEW j \in DOMAIN cs, Pair(ns, cs[j]) = Pair(ns, cs[i]) PROVE cs[j] = cs[i]
      BY DEF Range
    <3>2. TagOf(ns, cs[j].to) = TagOf(ns, cs[i].to)
      BY <3>1 DEF Pair
    <3>3. cs[j].to \in IdsOf(ns) /\ cs[i].to \in IdsOf(ns)
      BY <1>1 DEF Range
    <3>4. cs[j].to = cs[i].to
      BY <1>1, <3>2, <3>3, Found
    <3>. QED
      BY <1>1, <3>4 DEF OneEach
  <2>. QED
    BY <1>2, <2>1, <2>2, <2>3 DEF left
<1>. QED
  BY <1>1, <1>2, <1>3, <1>4 DEF GraphSound, t, left

\* A graph that is loaded is the one that was saved under other identifiers.
LEMMA GraphLoaded ==
  ASSUME CanvasInv, LoadGraph
  PROVE  GraphSound(nodes', connections', drawn', misled') /\ Below(nodes', nextId' - 1, tags) /\ nextId' \in 1..(tags + 1)
<1>. DEFINE ns == store.nodes
            cs == store.connections
            New(x) == IF x \in IdsOf(ns) THEN CHOOSE i \in DOMAIN ns : ns[i].id = x ELSE x
<1>0. /\ GraphSound(ns, cs, store.drawn, store.misled) /\ Below(ns, MaxBlocks, tags) /\ tags \in 0..MaxBlocks /\ MaxBlocks \in Nat
      /\ nodes' = [i \in DOMAIN ns |-> [ns[i] EXCEPT !.id = i]]
      /\ connections' = [i \in DOMAIN cs |-> Renamed(cs[i])]
      /\ drawn' = store.drawn /\ misled' = store.misled /\ nextId' = Len(ns) + 1
  BY EditorAssumption DEF CanvasInv, LoadGraph, NextAfterLoad
<1>1. cs \in Seq(Link) /\ OneEach(cs) /\ ns \in Seq(NodeRows) /\ Distinct(ns) /\ \A c \in Range(cs) : c.to \in IdsOf(ns)
  BY <1>0 DEF GraphSound
<1>. HIDE DEF ns, cs
<1>2. DOMAIN ns = 1..Len(ns) /\ Len(ns) \in Nat /\ Len(ns) <= tags /\ DOMAIN cs = 1..Len(cs) /\ Len(cs) \in Nat
  BY <1>0, <1>1 DEF Below
<1>3. \A i \in DOMAIN ns : i \in Ids /\ ns[i] \in NodeRows
  BY <1>0, <1>1, <1>2 DEF Ids
<1>4. \A i \in DOMAIN ns : nodes'[i] \in NodeRows /\ nodes'[i].id = i /\ nodes'[i].tag = ns[i].tag
  <2>1. SUFFICES ASSUME NEW i \in DOMAIN ns
                 PROVE  nodes'[i] \in NodeRows /\ nodes'[i].id = i /\ nodes'[i].tag = ns[i].tag
    OBVIOUS
  <2>2. nodes'[i] = [ns[i] EXCEPT !.id = i] /\ ns[i] \in NodeRows /\ i \in Ids
    BY <1>0, <1>3
  <2>3. nodes'[i] = [id |-> i, type |-> ns[i].type, tag |-> ns[i].tag]
    BY <2>2 DEF NodeRows
  <2>4. ns[i].type \in Types /\ ns[i].tag \in 1..MaxBlocks
    BY <2>2 DEF NodeRows
  <2>. QED
    BY <2>2, <2>3, <2>4 DEF NodeRows
<1>5. nodes' \in Seq(NodeRows) /\ DOMAIN nodes' = DOMAIN ns /\ Len(nodes') = Len(ns)
  <2>1. nodes' \in [1..Len(ns) -> NodeRows]
    BY <1>0, <1>2, <1>4
  <2>. QED
    BY <1>2, <2>1
<1>6. Distinct(nodes')
  BY <1>1, <1>4, <1>5 DEF Distinct
<1>7. IdsOf(nodes') = DOMAIN ns
  BY <1>4, <1>5 DEF IdsOf
<1>8. /\ \A x \in IdsOf(ns) : New(x) \in DOMAIN ns /\ ns[New(x)].id = x
      /\ \A x : x \notin IdsOf(ns) => New(x) = x
  BY DEF IdsOf
<1>9. \A x \in IdsOf(ns) : TagOf(nodes', New(x)) = TagOf(ns, x)
  <2>1. SUFFICES ASSUME NEW x \in IdsOf(ns) PROVE TagOf(nodes', New(x)) = TagOf(ns, x)
    OBVIOUS
  <2>. DEFINE i == New(x)
  <2>2. i \in DOMAIN ns /\ ns[i].id = x
    BY <1>8
  <2>. HIDE DEF i, New
  <2>3. TagOf(ns, ns[i].id) = ns[i].tag
    BY <1>1, <2>2, Found
  <2>4. TagOf(nodes', nodes'[i].id) = nodes'[i].tag
    BY <1>5, <1>6, <2>2, Found
  <2>5. nodes'[i].id = i /\ nodes'[i].tag = ns[i].tag
    BY <1>4, <2>2
  <2>6. TagOf(nodes', i) = TagOf(ns, x)
    BY <2>2, <2>3, <2>4, <2>5
  <2>. QED
    BY <2>6 DEF i
<1>10. \A i \in DOMAIN cs : cs[i] \in Link /\ Renamed(cs[i]) = [from |-> New(cs[i].from), fromPort |-> cs[i].fromPort, to |-> New(cs[i].to)]
  <2>1. SUFFICES ASSUME NEW i \in DOMAIN cs PROVE cs[i] \in Link /\ Renamed(cs[i]) = [from |-> New(cs[i].from), fromPort |-> cs[i].fromPort, to |-> New(cs[i].to)]
    OBVIOUS
  <2>2. cs[i] \in Link
    BY <1>1
  <2>3. Renamed(cs[i]) = [cs[i] EXCEPT !.from = New(cs[i].from), !.to = New(cs[i].to)]
    BY DEF Renamed, ns
  <2>. HIDE DEF New
  <2>. QED
    BY <2>2, <2>3 DEF Link
<1>. HIDE DEF New
<1>11. \A x \in Ids : New(x) \in Ids
  BY <1>3, <1>8
<1>12. connections' \in Seq(Link) /\ DOMAIN connections' = DOMAIN cs
       /\ \A i \in DOMAIN cs : connections'[i] = [from |-> New(cs[i].from), fromPort |-> cs[i].fromPort, to |-> New(cs[i].to)]
  <2>1. \A i \in DOMAIN cs : Renamed(cs[i]) \in Link
    BY <1>10, <1>11 DEF Link
  <2>2. connections' \in [1..Len(cs) -> Link]
    BY <1>0, <1>2, <2>1
  <2>. QED
    BY <1>0, <1>2, <1>10, <2>2
<1>13. \A i \in DOMAIN cs : cs[i] \in Range(cs) /\ cs[i].to \in IdsOf(ns)
  BY <1>1 DEF Range
<1>14. OneEach(connections')
  <2>1. SUFFICES ASSUME NEW i \in DOMAIN cs, NEW j \in DOMAIN cs, connections'[i].to = connections'[j].to PROVE i = j
    BY <1>12 DEF OneEach
  <2>2. New(cs[i].to) = New(cs[j].to)
    BY <1>12, <2>1
  <2>3. cs[i].to = cs[j].to
    BY <1>8, <1>13, <2>2
  <2>. QED
    BY <1>1, <2>3 DEF OneEach
<1>15. \A c \in Range(connections') : c.to \in IdsOf(nodes')
  <2>1. SUFFICES ASSUME NEW i \in DOMAIN cs PROVE connections'[i].to \in IdsOf(nodes')
    BY <1>12 DEF Range
  <2>2. connections'[i].to = New(cs[i].to)
    BY <1>12
  <2>3. cs[i].to \in IdsOf(ns)
    BY <1>13
  <2>. QED
    BY <1>7, <1>8, <2>2, <2>3
<1>16. ASSUME ~misled' PROVE drawn' = {Pair(nodes', c) : c \in Range(connections')} /\ \A c \in Range(connections') : c.from \in IdsOf(nodes')
  <2>1. drawn' = {Pair(ns, c) : c \in Range(cs)} /\ \A i \in DOMAIN cs : cs[i].from \in IdsOf(ns)
    BY <1>0, <1>13, <1>16 DEF GraphSound
  <2>2. \A i \in DOMAIN cs : Pair(nodes', connections'[i]) = Pair(ns, cs[i])
    BY <1>9, <1>12, <1>13, <2>1 DEF Pair
  <2>3. drawn' = {Pair(nodes', c) : c \in Range(connections')}
    BY <1>12, <2>1, <2>2 DEF Range
  <2>4. \A i \in DOMAIN cs : connections'[i].from \in IdsOf(nodes')
    BY <1>7, <1>8, <1>12, <2>1
  <2>. QED
    BY <1>12, <2>3, <2>4 DEF Range
<1>17. Below(nodes', nextId' - 1, tags)
  <2>1. \A i \in DOMAIN ns : ns[i].tag <= tags /\ i <= Len(ns)
    BY <1>0, <1>2 DEF Below
  <2>2. nextId' - 1 = Len(ns)
    BY <1>0, <1>2
  <2>3. \A i \in DOMAIN ns : nodes'[i].id = i /\ nodes'[i].tag = ns[i].tag
    BY <1>4
  <2>4. Len(nodes') <= tags /\ \A i \in DOMAIN nodes' : nodes'[i].id <= Len(ns) /\ nodes'[i].tag <= tags
    BY <1>2, <1>5, <2>1, <2>3
  <2>. QED
    BY <2>2, <2>4 DEF Below
<1>18. nextId' \in 1..(tags + 1)
  BY <1>0, <1>2
<1>. QED
  BY <1>5, <1>6, <1>12, <1>14, <1>15, <1>16, <1>17, <1>18 DEF GraphSound

LEMMA CanvasStep == ASSUME CanvasInv, EditorNext PROVE CanvasInv'
<1>0. MaxBlocks \in Nat /\ MaxLoads \in Nat /\ tags \in 0..MaxBlocks /\ nextId \in 1..(tags + 1) /\ Nobody \notin Nat
  BY EditorAssumption DEF CanvasInv
<1>a. /\ nodes \in Seq(NodeRows) /\ Distinct(nodes) /\ connections \in Seq(Link) /\ Below(nodes, nextId - 1, tags)
      /\ GraphSound(nodes, connections, drawn, misled) /\ GraphSound(store.nodes, store.connections, store.drawn, store.misled)
      /\ Below(store.nodes, MaxBlocks, tags)
  BY DEF CanvasInv, GraphSound
<1>1. ASSUME NEW type \in Types, AddNode(type) PROVE CanvasInv'
  <2>. DEFINE new == [id |-> nextId, type |-> type, tag |-> tags + 1]
  <2>1. /\ tags < MaxBlocks /\ tags' = tags + 1 /\ nodes' = Append(nodes, new) /\ nextId' = nextId + 1 /\ selectedConn' = Nobody
        /\ UNCHANGED <<connections, connecting, store, drawn, misled, loads>>
    BY <1>1 DEF AddNode
  <2>2. new \in NodeRows /\ new.id = nextId /\ new.tag = tags + 1
    BY <1>0, <2>1 DEF NodeRows, Ids
  <2>. HIDE DEF new
  <2>3. /\ nodes' \in Seq(NodeRows) /\ Len(nodes') = Len(nodes) + 1 /\ Len(nodes) \in Nat
        /\ nodes'[Len(nodes) + 1] = new /\ \A i \in 1..Len(nodes) : nodes'[i] = nodes[i]
        /\ DOMAIN nodes' = 1..(Len(nodes) + 1) /\ DOMAIN nodes = 1..Len(nodes)
    BY <1>a, <2>1, <2>2, Appended
  <2>4. \A i \in 1..Len(nodes) : nodes[i] \in NodeRows /\ nodes[i].id < nextId /\ nodes[i].tag <= tags /\ nodes[i].id \in Int /\ nodes[i].tag \in Int
    <3>1. SUFFICES ASSUME NEW i \in 1..Len(nodes)
                   PROVE  nodes[i] \in NodeRows /\ nodes[i].id < nextId /\ nodes[i].tag <= tags /\ nodes[i].id \in Int /\ nodes[i].tag \in Int
      OBVIOUS
    <3>2. nodes[i] \in NodeRows /\ i \in DOMAIN nodes
      BY <1>a, <2>3
    <3>3. nodes[i].id \in Int /\ nodes[i].tag \in Int
      BY <3>2 DEF NodeRows, Ids
    <3>4. nodes[i].id <= nextId - 1 /\ nodes[i].tag <= tags
      BY <1>a, <3>2 DEF Below
    <3>. QED
      BY <1>0, <3>2, <3>3, <3>4
  <2>5. \A i \in DOMAIN nodes' : i \in 1..Len(nodes) \/ i = Len(nodes) + 1
    BY <2>3
  <2>6. Distinct(nodes')
    <3>1. SUFFICES ASSUME NEW i \in DOMAIN nodes', NEW j \in DOMAIN nodes', nodes'[i].id = nodes'[j].id \/ nodes'[i].tag = nodes'[j].tag
                   PROVE  i = j
      BY DEF Distinct
    <3>2. CASE i \in 1..Len(nodes) /\ j \in 1..Len(nodes)
      BY <1>a, <2>3, <3>1, <3>2 DEF Distinct
    <3>3. \A k \in 1..Len(nodes) : nodes'[k].id # new.id /\ nodes'[k].tag # new.tag
      BY <1>0, <2>2, <2>3, <2>4
    <3>. QED
      BY <2>3, <2>5, <3>1, <3>2, <3>3
  <2>7. Below(nodes', nextId' - 1, tags')
    <3>1. nextId' - 1 = nextId
      BY <1>0, <2>1
    <3>2. \A i \in DOMAIN nodes' : nodes'[i].id <= nextId /\ nodes'[i].tag <= tags'
      BY <1>0, <2>1, <2>2, <2>3, <2>4, <2>5
    <3>3. Len(nodes') <= tags'
      BY <1>0, <1>a, <2>1, <2>3 DEF Below
    <3>. QED
      BY <3>1, <3>2, <3>3 DEF Below
  <2>8. IdsOf(nodes) \subseteq IdsOf(nodes') /\ \A x \in IdsOf(nodes) : TagOf(nodes', x) = TagOf(nodes, x)
    <3>1. SUFFICES ASSUME NEW i \in DOMAIN nodes
                   PROVE  nodes[i].id \in IdsOf(nodes') /\ TagOf(nodes', nodes[i].id) = TagOf(nodes, nodes[i].id)
      BY DEF IdsOf
    <3>2. i \in DOMAIN nodes' /\ nodes'[i] = nodes[i]
      BY <2>3
    <3>3. TagOf(nodes, nodes[i].id) = nodes[i].tag
      BY <1>a, Found
    <3>4. nodes'[i].id \in IdsOf(nodes') /\ TagOf(nodes', nodes'[i].id) = nodes'[i].tag
      BY <2>3, <2>6, <3>2, Found
    <3>. QED
      BY <3>2, <3>3, <3>4
  <2>9. GraphSound(nodes', connections', drawn', misled')
    <3>1. \A c \in Range(connections) : c.from \in IdsOf(nodes) /\ c.to \in IdsOf(nodes) => Pair(nodes', c) = Pair(nodes, c)
      BY <2>8 DEF Pair
    <3>2. ~misled => {Pair(nodes', c) : c \in Range(connections)} = {Pair(nodes, c) : c \in Range(connections)}
      BY <1>a, <3>1 DEF GraphSound
    <3>. QED
      BY <1>a, <2>1, <2>3, <2>6, <2>8, <3>2 DEF GraphSound
  <2>10. Below(store.nodes, MaxBlocks, tags')
    <3>1. store.nodes \in Seq(NodeRows)
      BY <1>a DEF GraphSound
    <3>2. \A i \in DOMAIN store.nodes : store.nodes[i].tag \in Int
      <4>1. \A i \in DOMAIN store.nodes : store.nodes[i] \in NodeRows
        BY <3>1
      <4>. QED
        BY <4>1 DEF NodeRows
    <3>3. Len(store.nodes) \in Nat
      BY <3>1
    <3>. QED
      BY <1>0, <1>a, <2>1, <3>2, <3>3 DEF Below
  <2>11. tags' \in 0..MaxBlocks /\ nextId' \in 1..(tags' + 1)
    BY <1>0, <2>1
  <2>. QED
    BY <1>a, <2>1, <2>7, <2>9, <2>10, <2>11 DEF CanvasInv
<1>2. ASSUME NEW id \in 1..MaxBlocks, NEW port \in OutPort, ClickOut(id, port) PROVE CanvasInv'
  <2>1. connecting' = Nobody \/ (connecting'.from \in Ids /\ connecting'.port \in OutPort)
    <3>1. id \in Ids
      BY <1>0 DEF Ids
    <3>. QED
      BY <1>2, <3>1 DEF ClickOut
  <2>. QED
    BY <1>2, <2>1 DEF CanvasInv, ClickOut
<1>3. ASSUME NEW id \in 1..MaxBlocks, ClickIn(id) PROVE CanvasInv'
  <2>0. id \in IdsOf(nodes) /\ connecting # Nobody /\ connecting.from \in Ids /\ connecting.port \in OutPort /\ connecting' = Nobody
        /\ UNCHANGED <<nodes, nextId, selectedConn, store, tags, loads>>
    BY <1>3 DEF ClickIn, CanvasInv
  <2>1. CASE id = connecting.from
    <3>1. UNCHANGED <<connections, drawn, misled>>
      BY <1>3, <2>1 DEF ClickIn
    <3>. QED
      BY <2>0, <3>1 DEF CanvasInv
  <2>2. CASE id # connecting.from
    <3>. DEFINE new == [from |-> connecting.from, fromPort |-> connecting.port, to |-> id]
    <3>1. /\ connections' = Append(Among(connections, {c \in Range(connections) : c.to # id}), new)
          /\ drawn' = {p \in drawn : p[3] # TagOf(nodes, id)} \union
                       (IF connecting.from \in IdsOf(nodes)
                        THEN {<<TagOf(nodes, connecting.from), connecting.port, TagOf(nodes, id)>>} ELSE {})
          /\ misled' = (misled \/ connecting.from \notin IdsOf(nodes) \/ TagOf(nodes, connecting.from) # connecting.tag)
      BY <1>3, <2>2 DEF ClickIn, WithConnection
    <3>2. new \in Link /\ new.to = id /\ new.from = connecting.from
      BY <1>0, <2>0 DEF Link, Ids
    <3>3. Pair(nodes, new) = <<TagOf(nodes, connecting.from), connecting.port, TagOf(nodes, id)>>
      BY DEF Pair
    <3>4. (~misled' => ~misled /\ connecting.from \in IdsOf(nodes)) /\ misled' \in BOOLEAN
      BY <3>1
    <3>. HIDE DEF new
    <3>5. GraphSound(nodes, Append(Among(connections, {c \in Range(connections) : c.to # new.to}), new),
                    {p \in drawn : p[3] # TagOf(nodes, new.to)} \union (IF new.from \in IdsOf(nodes) THEN {Pair(nodes, new)} ELSE {}),
                    misled')
      BY <1>a, <2>0, <3>2, <3>4, GraphLinked
    <3>6. GraphSound(nodes, connections', drawn', misled')
      BY <3>1, <3>2, <3>3, <3>5
    <3>7. selectedConn' # Nobody => selectedConn' \in DOMAIN connections'
      <4>1. Len(connections) <= Len(connections') /\ DOMAIN connections' = 1..Len(connections') /\ DOMAIN connections = 1..Len(connections)
            /\ Len(connections) \in Nat /\ Len(connections') \in Nat
        <5>1. OneEach(connections) /\ connections' \in Seq(Link)
          BY <1>a, <3>6 DEF GraphSound
        <5>2. Len(connections) <= Len(Append(Among(connections, {c \in Range(connections) : c.to # new.to}), new))
          BY <1>a, <3>2, <5>1, LinksKept
        <5>. QED
          BY <1>a, <3>1, <3>2, <5>1, <5>2
      <4>2. selectedConn # Nobody => selectedConn \in DOMAIN connections
        BY DEF CanvasInv
      <4>. QED
        BY <2>0, <4>1, <4>2
    <3>. QED
      BY <1>a, <2>0, <3>4, <3>6, <3>7 DEF CanvasInv
  <2>. QED
    BY <2>1, <2>2
<1>4. ASSUME ClickElsewhere PROVE CanvasInv'
  BY <1>4 DEF CanvasInv, ClickElsewhere
<1>5. ASSUME NEW i \in 1..MaxLinks, SelectConnection(i) PROVE CanvasInv'
  BY <1>5 DEF CanvasInv, SelectConnection
<1>6. ASSUME NEW id \in 1..MaxBlocks, RemoveNode(id) PROVE CanvasInv'
  <2>1. /\ id \in IdsOf(nodes) /\ nodes' = Among(nodes, {n \in Range(nodes) : n.id # id})
        /\ connections' = Among(connections, {c \in Range(connections) : id \notin {c.from, c.to}})
        /\ selectedConn' \in {StillSelected(connections'), Nobody}
        /\ drawn' = {p \in drawn : p[1] # TagOf(nodes, id) /\ p[3] # TagOf(nodes, id)}
        /\ UNCHANGED <<nextId, connecting, store, tags, misled, loads>>
    BY <1>6 DEF RemoveNode, WithoutNode
  <2>2. GraphSound(nodes', connections', drawn', misled')
    BY <1>a, <2>1, GraphWithout
  <2>3. nextId - 1 \in Int /\ tags \in Int
    BY <1>0
  <2>4. Below(nodes', nextId - 1, tags)
    BY <1>a, <2>1, <2>3, BlocksLeft
  <2>5. selectedConn' # Nobody => selectedConn' \in DOMAIN connections'
    <3>1. connections' \in Seq(Link)
      BY <2>2 DEF GraphSound
    <3>2. DOMAIN connections' = 1..Len(connections') /\ DOMAIN connections = 1..Len(connections)
          /\ Len(connections) \in Nat /\ Len(connections') \in Nat
      BY <1>a, <3>1
    <3>3. selectedConn # Nobody => selectedConn \in 1..Len(connections)
      BY <3>2 DEF CanvasInv
    <3>. QED
      BY <2>1, <3>2, <3>3 DEF StillSelected
  <2>. QED
    BY <1>a, <2>1, <2>2, <2>4, <2>5 DEF CanvasInv
<1>7. ASSUME RemoveConnection PROVE CanvasInv'
  <2>. DEFINE c == connections[selectedConn]
  <2>1. /\ selectedConn \in DOMAIN connections /\ connections' = RemoveAt(connections, selectedConn) /\ selectedConn' = Nobody
        /\ drawn' = (IF c \in Dangling(nodes, connections) THEN drawn ELSE drawn \ {Pair(nodes, c)})
        /\ UNCHANGED <<nodes, nextId, connecting, store, tags, misled, loads>>
    BY <1>7 DEF RemoveConnection, CanvasInv, Pair
  <2>2. GraphSound(nodes, connections', drawn', misled)
    BY <1>a, <2>1, GraphUnlinked
  <2>. QED
    BY <1>a, <2>1, <2>2 DEF CanvasInv
<1>8. ASSUME ClearCanvas PROVE CanvasInv'
  <2>1. /\ nodes' = <<>> /\ connections' = <<>> /\ selectedConn' = Nobody /\ drawn' = {} /\ misled' = FALSE
        /\ UNCHANGED <<nextId, connecting, store, tags, loads>>
    BY <1>8 DEF ClearCanvas
  <2>2. GraphSound(<<>>, <<>>, {}, FALSE)
    BY EmptyGraph
  <2>3. Below(<<>>, nextId - 1, tags)
    BY <1>0 DEF Below
  <2>. QED
    BY <1>a, <2>1, <2>2, <2>3 DEF CanvasInv
<1>9. ASSUME Save PROVE CanvasInv'
  <2>1. /\ store' = [nodes |-> nodes, connections |-> connections, drawn |-> drawn, misled |-> misled]
        /\ loads.saved < MaxLoads /\ loads' = [loads EXCEPT !.saved = @ + 1]
        /\ UNCHANGED <<nodes, connections, nextId, connecting, selectedConn, tags, drawn, misled>>
    BY <1>9 DEF Save
  <2>2. store'.nodes = nodes /\ store'.connections = connections /\ store'.drawn = drawn /\ store'.misled = misled
    BY <2>1
  <2>3. loads' \in [saved : 0..MaxLoads, loaded : 0..MaxLoads]
    BY <1>0, <2>1 DEF CanvasInv
  <2>4. Below(nodes, MaxBlocks, tags)
    <3>1. \A i \in DOMAIN nodes : nodes[i].id \in Int
      <4>1. \A i \in DOMAIN nodes : nodes[i] \in NodeRows
        BY <1>a
      <4>. QED
        BY <4>1 DEF NodeRows, Ids
    <3>. QED
      BY <1>0, <1>a, <3>1 DEF Below
  <2>. QED
    BY <1>a, <2>1, <2>2, <2>3, <2>4 DEF CanvasInv
<1>10. ASSUME LoadGraph PROVE CanvasInv'
  <2>1. GraphSound(nodes', connections', drawn', misled') /\ Below(nodes', nextId' - 1, tags) /\ nextId' \in 1..(tags + 1)
    BY <1>10, GraphLoaded
  <2>2. /\ loads.loaded < MaxLoads /\ loads' = [loads EXCEPT !.loaded = @ + 1] /\ selectedConn' = Nobody /\ misled' = store.misled
        /\ UNCHANGED <<connecting, store, tags>>
    BY <1>10 DEF LoadGraph
  <2>3. loads' \in [saved : 0..MaxLoads, loaded : 0..MaxLoads]
    BY <1>0, <2>2 DEF CanvasInv
  <2>. QED
    BY <1>a, <2>1, <2>2, <2>3 DEF CanvasInv
<1>. QED
  BY <1>1, <1>2, <1>3, <1>4, <1>5, <1>6, <1>7, <1>8, <1>9, <1>10 DEF EditorNext, OutPort

LEMMA CanvasInitInv == EditorInit => CanvasInv
<1>. SUFFICES ASSUME EditorInit PROVE CanvasInv
  OBVIOUS
<1>1. MaxBlocks \in Nat /\ MaxLoads \in Nat
  BY EditorAssumption
<1>2. /\ nodes = <<>> /\ connections = <<>> /\ drawn = {} /\ misled = FALSE
      /\ store.nodes = <<>> /\ store.connections = <<>> /\ store.drawn = {} /\ store.misled = FALSE
      /\ tags = 0 /\ nextId = 1 /\ connecting = Nobody /\ selectedConn = Nobody
  BY DEF EditorInit
<1>3. GraphSound(<<>>, <<>>, {}, FALSE)
  BY EmptyGraph
<1>4. Below(<<>>, 0, 0) /\ Below(<<>>, MaxBlocks, 0)
  BY DEF Below
<1>5. loads \in [saved : 0..MaxLoads, loaded : 0..MaxLoads]
  BY <1>1 DEF EditorInit
<1>6. tags \in 0..MaxBlocks /\ nextId \in 1..(tags + 1) /\ nextId - 1 = 0
  BY <1>1, <1>2
<1>. QED
  BY <1>2, <1>3, <1>4, <1>5, <1>6 DEF CanvasInv

---------------------------------------------------------------------------
(* The runner of workflows. *)

Plain(s) == s \in Seq(Range(s))
Outcomes == {"none", "ended", "failed", "no start"}

\* One run that holds the button, and one for every stop at the most.
RunInv ==
  /\ running \in BOOLEAN /\ runAbort \in BOOLEAN
  /\ starts \in 0..MaxRuns /\ stops \in 0..MaxStops /\ live \subseteq 1..starts
  /\ stack = [q \in Runs |-> stack[q]] /\ order = [q \in Runs |-> order[q]] /\ outcome \in [Runs -> Outcomes]
  /\ \A r \in Runs : Plain(stack[r]) /\ (stack[r] # <<>> <=> r \in live)
  /\ \A r \in Runs : Plain(order[r]) /\ Len(order[r]) <= MaxVisits
  /\ \A r \in Runs : r \in live \/ r > starts => outcome[r] = "none"
  /\ \A r \in Runs : r > starts => order[r] = <<>>
  /\ Cardinality(live) <= IF running THEN 1 + stops ELSE stops

LEMMA PlainSeq ==
  ASSUME NEW S, NEW s \in Seq(S)
  PROVE  Plain(s) /\ Len(s) \in Nat /\ DOMAIN s = 1..Len(s) /\ \A i \in 1..Len(s) : s[i] \in Range(s)
<1>1. Len(s) \in Nat /\ DOMAIN s = 1..Len(s) /\ s \in [1..Len(s) -> S]
  OBVIOUS
<1>2. \A i \in 1..Len(s) : s[i] \in Range(s)
  BY <1>1 DEF Range
<1>3. s \in [1..Len(s) -> Range(s)]
  BY <1>1, <1>2
<1>. QED
  BY <1>1, <1>2, <1>3 DEF Plain

\* What becomes of a sequence of calls: it grows by one, or keeps its beginning.
LEMMA PlainGrows ==
  ASSUME NEW s, Plain(s), NEW e
  PROVE  Plain(Append(s, e)) /\ Append(s, e) # <<>> /\ Len(Append(s, e)) = Len(s) + 1
<1>1. s \in Seq(Range(s) \union {e})
  BY SeqMonotonic DEF Plain
<1>2. Append(s, e) \in Seq(Range(s) \union {e}) /\ Len(Append(s, e)) = Len(s) + 1 /\ Len(s) \in Nat
  BY <1>1, Appended
<1>3. Plain(Append(s, e))
  BY <1>2, PlainSeq
<1>4. Append(s, e) # <<>>
  BY <1>2
<1>. QED
  BY <1>2, <1>3, <1>4

LEMMA PlainKept ==
  ASSUME NEW s, Plain(s), NEW n \in 0..Len(s)
  PROVE  Plain(SubSeq(s, 1, n)) /\ Len(SubSeq(s, 1, n)) = n /\ \A i \in 1..n : SubSeq(s, 1, n)[i] = s[i]
<1>1. s \in Seq(Range(s)) /\ Len(s) \in Nat /\ 1 \in Int /\ n \in Int /\ \A i \in 1..n : s[i] \in Range(s)
  BY PlainSeq DEF Plain
<1>2. /\ SubSeq(s, 1, n) \in Seq(Range(s))
      /\ Len(SubSeq(s, 1, n)) = IF 1 <= n THEN n - 1 + 1 ELSE 0
      /\ \A i \in 1..(n - 1 + 1) : SubSeq(s, 1, n)[i] = s[1 + i - 1]
  BY <1>1, SubSeqProperties
<1>3. Len(SubSeq(s, 1, n)) = n /\ \A i \in 1..n : SubSeq(s, 1, n)[i] = s[i]
  BY <1>1, <1>2
<1>. QED
  BY <1>2, <1>3, PlainSeq

LEMMA PlainFront ==
  ASSUME NEW s, Plain(s), s # <<>>
  PROVE  /\ Plain(Front(s)) /\ Len(Front(s)) = Len(s) - 1 /\ (Front(s) # <<>> <=> Len(s) # 1)
         /\ Len(s) \in Nat \ {0} /\ \A i \in 1..(Len(s) - 1) : Front(s)[i] = s[i]
<1>1. Len(s) \in Nat \ {0} /\ Len(s) - 1 \in 0..Len(s)
  BY EmptySeq DEF Plain
<1>2. Plain(Front(s)) /\ Len(Front(s)) = Len(s) - 1 /\ \A i \in 1..(Len(s) - 1) : Front(s)[i] = s[i]
  BY <1>1, PlainKept DEF Front
<1>. QED
  BY <1>1, <1>2 DEF Plain

LEMMA LiveFinite ==
  ASSUME RunInv
  PROVE  IsFiniteSet(live) /\ Cardinality(live) \in Nat /\ live \subseteq Runs
<1>1. IsFiniteSet(1..starts)
  BY FS_Interval DEF RunInv
<1>2. live \subseteq Runs
  BY RunAssumption DEF RunInv, Runs
<1>. QED
  BY <1>1, <1>2, FS_Subset, FS_CardinalityType DEF RunInv

\* A run goes on: its calls and what it has entered are other sequences.
LEMMA RunGoesOn ==
  ASSUME RunInv, NEW r \in live, NEW s, NEW o,
         Plain(s), s # <<>>, Plain(o), Len(o) <= MaxVisits,
         stack' = [stack EXCEPT ![r] = s], order' = [order EXCEPT ![r] = o],
         UNCHANGED <<running, runAbort, live, outcome, starts, stops>>
  PROVE  RunInv'
<1>1. r \in Runs /\ r \in 1..starts
  BY LiveFinite DEF RunInv
<1>2. stack' = [q \in Runs |-> stack'[q]] /\ order' = [q \in Runs |-> order'[q]]
  BY DEF RunInv
<1>3. \A q \in Runs : stack'[q] = IF q = r THEN s ELSE stack[q]
  BY <1>1 DEF RunInv
<1>4. \A q \in Runs : order'[q] = IF q = r THEN o ELSE order[q]
  BY <1>1 DEF RunInv
<1>5. \A q \in Runs : Plain(stack'[q]) /\ (stack'[q] # <<>> <=> q \in live)
  BY <1>3 DEF RunInv
<1>6. \A q \in Runs : Plain(order'[q]) /\ Len(order'[q]) <= MaxVisits
  BY <1>4 DEF RunInv
<1>7. \A q \in Runs : q > starts => order'[q] = <<>>
  BY <1>1, <1>4 DEF RunInv
<1>. QED
  BY <1>2, <1>5, <1>6, <1>7 DEF RunInv

\* A run ends, whichever way.
LEMMA RunOver ==
  ASSUME RunInv, NEW r \in live, NEW how \in Outcomes, Ends(r, how), NEW o, Plain(o), Len(o) <= MaxVisits,
         stack' = [stack EXCEPT ![r] = <<>>], order' = [order EXCEPT ![r] = o],
         UNCHANGED <<runAbort, starts, stops>>
  PROVE  RunInv'
<1>1. r \in Runs /\ r \in 1..starts /\ starts \in Nat
  BY LiveFinite DEF RunInv
<1>2. stack' = [q \in Runs |-> stack'[q]] /\ order' = [q \in Runs |-> order'[q]] /\ outcome' \in [Runs -> Outcomes]
  BY DEF RunInv, Ends
<1>3. \A q \in Runs : stack'[q] = IF q = r THEN <<>> ELSE stack[q]
  BY <1>1 DEF RunInv
<1>4. \A q \in Runs : order'[q] = IF q = r THEN o ELSE order[q]
  BY <1>1 DEF RunInv
<1>5. \A q \in Runs : outcome'[q] = IF q = r THEN how ELSE outcome[q]
  BY <1>1 DEF RunInv, Ends
<1>6. live' = live \ {r} /\ ~running' /\ running' \in BOOLEAN
  BY DEF Ends
<1>7. Plain(<<>>)
  BY EmptySeq, PlainSeq
<1>8. \A q \in Runs : Plain(stack'[q]) /\ (stack'[q] # <<>> <=> q \in live')
  BY <1>3, <1>6, <1>7 DEF RunInv
<1>9. \A q \in Runs : Plain(order'[q]) /\ Len(order'[q]) <= MaxVisits
  BY <1>4 DEF RunInv
<1>10. \A q \in Runs : q > starts => order'[q] = <<>>
  BY <1>1, <1>4 DEF RunInv
<1>11. \A q \in Runs : q \in live' \/ q > starts => outcome'[q] = "none"
  <2>. SUFFICES ASSUME NEW q \in Runs, q \in live' \/ q > starts PROVE outcome'[q] = "none"
    OBVIOUS
  <2>1. q # r
    BY <1>1, <1>6
  <2>. QED
    BY <1>5, <1>6, <2>1 DEF RunInv
<1>12. Cardinality(live') = Cardinality(live) - 1 /\ Cardinality(live) \in Nat
  BY <1>6, LiveFinite, FS_RemoveElement
<1>13. Cardinality(live) <= 1 + stops /\ stops \in Nat
  <2>1. stops \in Nat
    BY RunAssumption DEF RunInv
  <2>. QED
    BY <1>12, <2>1 DEF RunInv
<1>14. Cardinality(live') <= IF running' THEN 1 + stops' ELSE stops'
  BY <1>6, <1>12, <1>13
<1>. QED
  BY <1>2, <1>6, <1>8, <1>9, <1>10, <1>11, <1>14 DEF RunInv

\* The call of a block from within a call: the block is entered, or is passed over.
LEMMA Entering ==
  ASSUME RunInv, NEW r \in live, NEW rest, Plain(rest), rest # <<>>, NEW id, NEW sub, Called(r, rest, id, sub)
  PROVE  \E s, o : /\ Plain(s) /\ s # <<>> /\ Plain(o) /\ Len(o) <= MaxVisits
                   /\ stack' = [stack EXCEPT ![r] = s] /\ order' = [order EXCEPT ![r] = o]
<1>1. r \in Runs /\ Plain(order[r]) /\ Len(order[r]) <= MaxVisits /\ order = [order EXCEPT ![r] = order[r]]
  BY LiveFinite DEF RunInv
<1>2. CASE Returns(id, sub)
  BY <1>1, <1>2 DEF Called
<1>3. CASE ~Returns(id, sub)
  <2>. DEFINE x == Frame(id, IF sub THEN SubFlow.type[id] ELSE flow.type[id], sub)
              o == IF sub THEN order[r] ELSE Append(order[r], id)
  <2>1. stack' = [stack EXCEPT ![r] = Append(rest, x)] /\ order' = [order EXCEPT ![r] = o] /\ Len(order[r]) < MaxVisits
    BY <1>1, <1>3 DEF Called
  <2>2. Len(order[r]) \in Nat
    BY <1>1 DEF Plain
  <2>3. Plain(o) /\ Len(o) <= MaxVisits
    BY <1>1, <2>1, <2>2, PlainGrows, RunAssumption
  <2>. HIDE DEF x, o
  <2>4. Plain(Append(rest, x)) /\ Append(rest, x) # <<>>
    BY PlainGrows
  <2>. QED
    BY <2>1, <2>3, <2>4
<1>. QED
  BY <1>2, <1>3

LEMMA WithTopPlain ==
  ASSUME RunInv, NEW r \in live, NEW x
  PROVE  Plain(WithTop(r, x)) /\ WithTop(r, x) # <<>>
BY LiveFinite, PlainFront, PlainGrows DEF RunInv, WithTop

LEMMA WorkedInv ==
  ASSUME RunInv, NEW r \in live, Worked(r)
  PROVE  RunInv'
<1>0. /\ \A x : Plain(WithTop(r, x)) /\ WithTop(r, x) # <<>>
      /\ Plain(order[r]) /\ Len(order[r]) <= MaxVisits /\ order = [order EXCEPT ![r] = order[r]]
      /\ UNCHANGED <<running, runAbort, live, outcome, starts, stops>>
  BY WithTopPlain, LiveFinite DEF RunInv, Worked
<1>1. \/ \E x : stack' = [stack EXCEPT ![r] = WithTop(r, x)] /\ UNCHANGED order
      \/ \E x, id : Called(r, WithTop(r, x), id, TRUE)
  BY Zenon DEF Worked
<1>2. \E s, o : /\ Plain(s) /\ s # <<>> /\ Plain(o) /\ Len(o) <= MaxVisits
                /\ stack' = [stack EXCEPT ![r] = s] /\ order' = [order EXCEPT ![r] = o]
  <2>. DEFINE yes == TRUE
  <2>1. \A x, id : Called(r, WithTop(r, x), id, TRUE) <=> Called(r, WithTop(r, x), id, yes)
    OBVIOUS
  <2>. HIDE DEF yes
  <2>2. CASE \E x, id : Called(r, WithTop(r, x), id, TRUE)
    BY <1>0, <2>1, <2>2, Entering
  <2>3. CASE \E x : stack' = [stack EXCEPT ![r] = WithTop(r, x)] /\ UNCHANGED order
    BY <1>0, <2>3
  <2>. QED
    BY <1>1, <2>2, <2>3
<1>. QED
  BY <1>0, <1>2, RunGoesOn

LEMMA IterateInv ==
  ASSUME RunInv, NEW r \in live, Iterate(r)
  PROVE  RunInv'
<1>0. /\ \A x : Plain(WithTop(r, x)) /\ WithTop(r, x) # <<>>
      /\ Plain(order[r]) /\ Len(order[r]) <= MaxVisits /\ order = [order EXCEPT ![r] = order[r]]
      /\ UNCHANGED <<running, runAbort, live, outcome, starts, stops>>
  BY WithTopPlain, LiveFinite DEF RunInv, Iterate
<1>1. \/ \E x : stack' = [stack EXCEPT ![r] = WithTop(r, x)] /\ UNCHANGED order
      \/ \E x, id : Called(r, WithTop(r, x), id, FALSE)
  BY Zenon DEF Iterate
<1>2. \E s, o : /\ Plain(s) /\ s # <<>> /\ Plain(o) /\ Len(o) <= MaxVisits
                /\ stack' = [stack EXCEPT ![r] = s] /\ order' = [order EXCEPT ![r] = o]
  <2>. DEFINE no == FALSE
  <2>1. \A x, id : Called(r, WithTop(r, x), id, FALSE) <=> Called(r, WithTop(r, x), id, no)
    OBVIOUS
  <2>. HIDE DEF no
  <2>2. CASE \E x, id : Called(r, WithTop(r, x), id, FALSE)
    BY <1>0, <2>1, <2>2, Entering
  <2>3. CASE \E x : stack' = [stack EXCEPT ![r] = WithTop(r, x)] /\ UNCHANGED order
    BY <1>0, <2>3
  <2>. QED
    BY <1>1, <2>2, <2>3
<1>. QED
  BY <1>0, <1>2, RunGoesOn

LEMMA FollowNextInv ==
  ASSUME RunInv, NEW r \in live, FollowNext(r)
  PROVE  RunInv'
<1>0. /\ \A x : Plain(WithTop(r, x)) /\ WithTop(r, x) # <<>>
      /\ Plain(order[r]) /\ Len(order[r]) <= MaxVisits /\ order = [order EXCEPT ![r] = order[r]]
      /\ Plain(stack[r]) /\ stack[r] # <<>>
      /\ UNCHANGED <<runAbort, starts, stops>>
  BY WithTopPlain, LiveFinite DEF RunInv, FollowNext
<1>1. CASE Top(r).todo # <<>>
  <2>1. (\E x, id, sub : Called(r, WithTop(r, x), id, sub)) /\ UNCHANGED <<live, outcome, running>>
    BY <1>1, Zenon DEF FollowNext
  <2>2. \E s, o : /\ Plain(s) /\ s # <<>> /\ Plain(o) /\ Len(o) <= MaxVisits
                  /\ stack' = [stack EXCEPT ![r] = s] /\ order' = [order EXCEPT ![r] = o]
    BY <1>0, <2>1, Entering
  <2>. QED
    BY <1>0, <2>1, <2>2, RunGoesOn
<1>2. CASE Top(r).todo = <<>>
  <2>1. /\ stack' = [stack EXCEPT ![r] = Front(stack[r])] /\ UNCHANGED order
        /\ IF Len(stack[r]) = 1 THEN Ends(r, "ended") ELSE UNCHANGED <<live, outcome, running>>
    BY <1>2 DEF FollowNext
  <2>2. Plain(Front(stack[r])) /\ (Front(stack[r]) # <<>> <=> Len(stack[r]) # 1)
    BY <1>0, PlainFront
  <2>3. CASE Len(stack[r]) = 1
    <3>1. stack' = [stack EXCEPT ![r] = <<>>] /\ order' = [order EXCEPT ![r] = order[r]] /\ "ended" \in Outcomes
      BY <1>0, <2>1, <2>2, <2>3 DEF Outcomes
    <3>. QED
      BY <1>0, <2>1, <2>3, <3>1, RunOver
  <2>4. CASE Len(stack[r]) # 1
    <3>1. order' = [order EXCEPT ![r] = order[r]] /\ Front(stack[r]) # <<>>
      BY <1>0, <2>1, <2>2, <2>4
    <3>. QED
      BY <1>0, <2>1, <2>2, <2>4, <3>1, RunGoesOn
  <2>. QED
    BY <2>3, <2>4
<1>. QED
  BY <1>1, <1>2

\* A set of places has a last one.
LEMMA LastPlace ==
  ASSUME NEW n \in Nat, NEW places \in SUBSET (1..n), places # {}
  PROVE  \E i \in places : \A j \in places : j <= i
<1>. DEFINE c == Cardinality(places)
<1>1. /\ c \in Nat
      /\ \A i \in places : UpTo(places, i) \in 1..c
      /\ \A i, j \in places : i < j => UpTo(places, i) < UpTo(places, j)
      /\ \A k \in 1..c : \E i \in places : UpTo(places, i) = k
  BY PlacesCounted
<1>. HIDE DEF c
<1>2. c \in 1..c
  <2>1. PICK i \in places : TRUE
    OBVIOUS
  <2>2. UpTo(places, i) \in 1..c
    BY <1>1, <2>1
  <2>. QED
    BY <1>1, <2>2
<1>3. PICK i \in places : UpTo(places, i) = c
  BY <1>1, <1>2
<1>4. ASSUME NEW j \in places PROVE j <= i
  <2>1. ~(UpTo(places, i) < UpTo(places, j)) /\ i \in Nat /\ j \in Nat
    BY <1>1, <1>3
  <2>. QED
    BY <1>1, <2>1
<1>. QED
  BY <1>4

\* A failure takes the calls away up to the innermost one that catches it.
LEMMA Thrown ==
  ASSUME RunInv, NEW r \in live, Throw(r)
  PROVE  \E depth \in 0..Len(stack[r]) :
           /\ stack' = [stack EXCEPT ![r] = SubSeq(stack[r], 1, depth)]
           /\ IF depth = 0 THEN Ends(r, "failed") ELSE UNCHANGED <<live, outcome, running>>
           /\ order' = [order EXCEPT ![r] = Append(order[r], 0)]
           /\ Len(order[r]) < MaxVisits
           /\ UNCHANGED <<flow, runAbort, starts, stops, edits>>
<1>. DEFINE n == Len(stack[r])
            catchers == {i \in 1..(n - 1) : stack[r][i].type = "fuzz" /\ stack[r][i].at = "loop"}
            depth == IF catchers = {} THEN 0 ELSE CHOOSE i \in catchers : \A j \in catchers : j <= i
<1>1. n \in Nat
  BY LiveFinite DEF RunInv, Plain
<1>2. /\ stack' = [stack EXCEPT ![r] = SubSeq(@, 1, depth)]
      /\ IF depth = 0 THEN Ends(r, "failed") ELSE UNCHANGED <<live, outcome, running>>
      /\ order' = [order EXCEPT ![r] = Append(@, 0)]
      /\ Len(order[r]) < MaxVisits
      /\ UNCHANGED <<flow, runAbort, starts, stops, edits>>
  BY DEF Throw
<1>3. depth \in 0..n
  <2>1. catchers \subseteq 1..(n - 1) /\ catchers \subseteq Int
    BY <1>1
  <2>2. CASE catchers = {}
    BY <1>1, <2>2
  <2>3. CASE catchers # {}
    <3>. HIDE DEF catchers
    <3>1. n - 1 \in Nat
      <4>1. PICK i \in 1..(n - 1) : TRUE
        BY <2>1, <2>3
      <4>. QED
        BY <1>1, <4>1
    <3>2. \E i \in catchers : \A j \in catchers : j <= i
      BY <2>1, <2>3, <3>1, LastPlace
    <3>3. depth \in catchers
      BY <2>3, <3>2
    <3>. HIDE DEF depth
    <3>. QED
      BY <1>1, <2>1, <3>3
  <2>. QED
    BY <2>2, <2>3
<1>. HIDE DEF depth
<1>. QED
  BY <1>2, <1>3

LEMMA ThrowInv ==
  ASSUME RunInv, NEW r \in live, Throw(r)
  PROVE  RunInv'
<1>0. /\ Plain(order[r]) /\ Len(order[r]) <= MaxVisits /\ Plain(stack[r]) /\ stack[r] # <<>>
  BY LiveFinite DEF RunInv
<1>1. PICK depth \in 0..Len(stack[r]) :
           /\ stack' = [stack EXCEPT ![r] = SubSeq(stack[r], 1, depth)]
           /\ IF depth = 0 THEN Ends(r, "failed") ELSE UNCHANGED <<live, outcome, running>>
           /\ order' = [order EXCEPT ![r] = Append(order[r], 0)]
           /\ Len(order[r]) < MaxVisits
           /\ UNCHANGED <<flow, runAbort, starts, stops, edits>>
  BY Thrown
<1>2. Plain(SubSeq(stack[r], 1, depth)) /\ Len(SubSeq(stack[r], 1, depth)) = depth
  BY <1>0, PlainKept
<1>3. Plain(Append(order[r], 0)) /\ Len(Append(order[r], 0)) <= MaxVisits
  <2>1. Len(order[r]) \in Nat /\ MaxVisits \in Nat
    BY <1>0, RunAssumption DEF Plain
  <2>. QED
    BY <1>0, <1>1, <2>1, PlainGrows
<1>4. CASE depth = 0
  <2>1. SubSeq(stack[r], 1, depth) = <<>> /\ "failed" \in Outcomes
    BY <1>2, <1>4 DEF Plain, Outcomes
  <2>. QED
    BY <1>1, <1>3, <1>4, <2>1, RunOver
<1>5. CASE depth # 0
  <2>1. SubSeq(stack[r], 1, depth) # <<>>
    BY <1>2, <1>5
  <2>. QED
    BY <1>1, <1>2, <1>3, <1>5, <2>1, RunGoesOn
<1>. QED
  BY <1>4, <1>5

LEMMA RunWorkflowInv ==
  ASSUME RunInv, RunWorkflow
  PROVE  RunInv'
<1>. DEFINE n == starts + 1
<1>0. n \in Runs /\ n \notin live /\ starts \in Nat /\ n \in 1..n /\ starts' = n /\ n \in 0..MaxRuns
      /\ ~running /\ Cardinality(live) <= stops /\ stops \in Nat /\ UNCHANGED stops /\ runAbort' = FALSE
  <2>1. starts \in Nat /\ MaxRuns \in Nat /\ starts < MaxRuns /\ starts' = n /\ live \subseteq 1..starts /\ stops \in Nat
    <3>1. starts \in 0..MaxRuns /\ MaxRuns \in Nat /\ live \subseteq 1..starts /\ stops \in Nat
      BY RunAssumption DEF RunInv
    <3>2. starts < MaxRuns /\ starts' = n
      BY DEF RunWorkflow
    <3>. HIDE DEF n
    <3>. QED
      BY <3>1, <3>2
  <2>2. n \in Runs /\ n \notin live /\ n \in 1..n /\ n \in 0..MaxRuns
    BY <2>1 DEF Runs
  <2>3. ~running /\ UNCHANGED stops /\ runAbort' = FALSE
    BY DEF RunWorkflow
  <2>4. Cardinality(live) <= stops
    BY <2>3 DEF RunInv
  <2>. HIDE DEF n
  <2>. QED
    BY <2>1, <2>2, <2>3, <2>4
<1>1. live \subseteq 1..n
  BY <1>0 DEF RunInv
<1>2. CASE /\ outcome' = [outcome EXCEPT ![n] = "no start"]
           /\ UNCHANGED <<running, live, stack, order>>
  <2>1. outcome' \in [Runs -> Outcomes] /\ \A q \in Runs : outcome'[q] = IF q = n THEN "no start" ELSE outcome[q]
    BY <1>0, <1>2 DEF RunInv, Outcomes
  <2>2. \A q \in Runs : q \in live \/ q > n => outcome'[q] = "none"
    <3>. SUFFICES ASSUME NEW q \in Runs, q \in live \/ q > n PROVE outcome'[q] = "none"
      OBVIOUS
    <3>1. q # n /\ (q \in live \/ q > starts)
      BY <1>0 DEF Runs
    <3>. QED
      BY <2>1, <3>1 DEF RunInv
  <2>3. \A q \in Runs : q > n => order[q] = <<>>
    BY <1>0 DEF RunInv, Runs
  <2>. HIDE DEF n
  <2>. QED
    BY <1>0, <1>1, <1>2, <2>1, <2>2, <2>3 DEF RunInv
<1>3. ASSUME NEW id,
             /\ running' = TRUE
             /\ live' = live \union {n}
             /\ stack' = [stack EXCEPT ![n] = <<Frame(id, "start", FALSE)>>]
             /\ order' = [order EXCEPT ![n] = <<id>>]
             /\ UNCHANGED outcome
      PROVE  RunInv'
  <2>. DEFINE s == <<Frame(id, "start", FALSE)>>
              o == <<id>>
  <2>1. Plain(s) /\ s # <<>>
    <3>1. s \in Seq({Frame(id, "start", FALSE)})
      OBVIOUS
    <3>. QED
      BY <3>1, PlainSeq
  <2>2. Plain(o) /\ Len(o) <= MaxVisits
    <3>1. o \in Seq({id}) /\ Len(o) = 1
      OBVIOUS
    <3>. QED
      BY <3>1, PlainSeq, RunAssumption
  <2>3. stack' = [stack EXCEPT ![n] = s] /\ order' = [order EXCEPT ![n] = o]
    BY <1>3
  <2>. HIDE DEF s, o
  <2>4. stack' = [q \in Runs |-> stack'[q]] /\ order' = [q \in Runs |-> order'[q]]
    BY <2>3 DEF RunInv
  <2>5. \A q \in Runs : stack'[q] = IF q = n THEN s ELSE stack[q]
    BY <1>0, <2>3 DEF RunInv
  <2>6. \A q \in Runs : order'[q] = IF q = n THEN o ELSE order[q]
    BY <1>0, <2>3 DEF RunInv
  <2>7. \A q \in Runs : Plain(stack'[q]) /\ (stack'[q] # <<>> <=> q \in live')
    BY <1>3, <2>1, <2>5 DEF RunInv
  <2>8. \A q \in Runs : Plain(order'[q]) /\ Len(order'[q]) <= MaxVisits
    BY <2>2, <2>6 DEF RunInv
  <2>9. \A q \in Runs : q \in live' \/ q > n => outcome'[q] = "none"
    <3>. SUFFICES ASSUME NEW q \in Runs, q \in live' \/ q > n PROVE outcome[q] = "none"
      BY <1>3
    <3>1. q \in live \/ q > starts
      BY <1>0, <1>3 DEF Runs
    <3>. QED
      BY <3>1 DEF RunInv
  <2>10. \A q \in Runs : q > n => order'[q] = <<>>
    BY <1>0, <2>6 DEF RunInv, Runs
  <2>11. Cardinality(live') = Cardinality(live) + 1 /\ Cardinality(live) \in Nat
    BY <1>0, <1>3, LiveFinite, FS_AddElement
  <2>12. Cardinality(live') <= 1 + stops
    BY <1>0, <2>11
  <2>13. live' \subseteq 1..n
    BY <1>0, <1>1, <1>3
  <2>. HIDE DEF n
  <2>. QED
    BY <1>0, <1>3, <2>4, <2>7, <2>8, <2>9, <2>10, <2>12, <2>13 DEF RunInv
<1>. QED
  BY <1>2, <1>3 DEF RunWorkflow

LEMMA StopWorkflowInv ==
  ASSUME RunInv, StopWorkflow
  PROVE  RunInv'
<1>1. stops \in Nat /\ stops' \in 0..MaxStops /\ stops' = 1 + stops
  BY RunAssumption DEF RunInv, StopWorkflow
<1>2. Cardinality(live) <= 1 + stops
  BY DEF RunInv, StopWorkflow
<1>. QED
  BY <1>1, <1>2 DEF RunInv, StopWorkflow

LEMMA RunStepInv ==
  ASSUME RunInv, NEW r \in Runs, RunStep(r)
  PROVE  RunInv'
<1>1. r \in live
  BY DEF RunStep, Worked, Iterate, FollowNext, Throw, Turn
<1>. QED
  BY <1>1, WorkedInv, IterateInv, FollowNextInv, ThrowInv DEF RunStep

LEMMA EditInvRun ==
  ASSUME RunInv, UNCHANGED <<running, runAbort, stack, live, order, outcome, starts, stops>>
  PROVE  RunInv'
BY DEF RunInv

LEMMA RunInitInv == RunInit => RunInv
<1>1. Plain(<<>>) /\ Len(<<>>) = 0
  BY EmptySeq, PlainSeq
<1>2. Cardinality({}) = 0
  BY FS_EmptySet
<1>. SUFFICES ASSUME RunInit PROVE RunInv
  OBVIOUS
<1>3. \A q \in Runs : stack[q] = <<>> /\ order[q] = <<>> /\ outcome[q] = "none"
  BY DEF RunInit
<1>4. /\ running = FALSE /\ runAbort = FALSE /\ live = {} /\ starts = 0 /\ stops = 0
      /\ stack = [q \in Runs |-> stack[q]] /\ order = [q \in Runs |-> order[q]] /\ outcome \in [Runs -> Outcomes]
  BY DEF RunInit, Outcomes
<1>5. 0 <= MaxVisits /\ 0 \in 0..MaxRuns /\ 0 \in 0..MaxStops
  BY RunAssumption
<1>6. \A q \in Runs : Plain(order[q]) /\ Len(order[q]) <= MaxVisits
  BY <1>1, <1>3, <1>5
<1>7. \A q \in Runs : Plain(stack[q]) /\ (stack[q] # <<>> <=> q \in live)
  BY <1>1, <1>3, <1>4
<1>8. Cardinality(live) <= IF running THEN 1 + stops ELSE stops
  BY <1>2, <1>4
<1>9. running \in BOOLEAN /\ runAbort \in BOOLEAN /\ starts \in 0..MaxRuns /\ stops \in 0..MaxStops /\ live \subseteq 1..starts
  BY <1>4, <1>5
<1>10. /\ \A q \in Runs : q \in live \/ q > starts => outcome[q] = "none"
       /\ \A q \in Runs : q > starts => order[q] = <<>>
  BY <1>3
<1>. QED
  BY <1>4, <1>6, <1>7, <1>8, <1>9, <1>10 DEF RunInv

LEMMA RunInvSound == RunInv => RunTypeOK /\ RunsBounded
<1>. SUFFICES ASSUME RunInv PROVE RunTypeOK /\ RunsBounded
  OBVIOUS
<1>1. RunsBounded
  <2>1. stops \in Nat /\ Cardinality(live) \in Nat
    BY RunAssumption, LiveFinite DEF RunInv
  <2>. QED
    BY <2>1 DEF RunInv, RunsBounded
<1>2. {running, runAbort} \subseteq BOOLEAN /\ \A r \in Runs : outcome[r] \in Outcomes
  BY DEF RunInv
<1>3. \A q \in Runs : (stack[q] # <<>>) = (q \in live)
  BY DEF RunInv
<1>. QED
  BY <1>1, <1>2, <1>3 DEF RunInv, RunTypeOK, Outcomes

---------------------------------------------------------------------------
(* What a run that nothing disturbed has entered. *)

Branches == {"out_true", "out_false"}
TimesIn(o, id) == Cardinality({i \in DOMAIN o : o[i] = id})
IsFirst(f, c) == Head(TargetsOf(f, c.from, c.port)) = c.to

\* What a call of the page has yet to follow leads out of its block by one port, and is followed once.
PageCall(f, x) ==
  /\ x.node \in Blocks(f) /\ x.type = f.type[x.node]
  /\ x.at = "loop" => x.type \in Loops /\ x.left \in 0..Rounds /\ x.todo = FirstOf(TargetsOf(f, x.node, "out_body"))
  /\ x.at = "follow" =>
       /\ x.todo \in Seq(Blocks(f)) /\ \A i, j \in DOMAIN x.todo : x.todo[i] = x.todo[j] => i = j
       /\ \E port \in Ports : \A t \in Range(x.todo) : \E c \in Range(f.conns) :
            c.from = x.node /\ c.to = t /\ c.port = port /\ (port \notin Branches => Factor(f, c) = 1)
IsFrame(x) == x = [node |-> x.node, type |-> x.type, sub |-> x.sub, at |-> x.at, todo |-> x.todo, left |-> x.left]
FrameSound(f, x) ==
  /\ IsFrame(x)
  /\ x.sub \in BOOLEAN /\ x.at \in {"work", "loop", "follow"}
  /\ x.sub => x.at # "loop"
  /\ ~x.sub => PageCall(f, x)

\* The calls of the page are the way from Start to where it is; those of a saved workflow come last.
StackSound(f, s) ==
  /\ \A i \in DOMAIN s : FrameSound(f, s[i])
  /\ s # <<>> => ~s[1].sub /\ f.type[s[1].node] = "start"
  /\ \A i, j \in DOMAIN s : i < j /\ s[i].sub => s[j].sub
  /\ \A i \in 2..Len(s) : ~s[i].sub => \E c \in Range(f.conns) : c.from = s[i - 1].node /\ c.to = s[i].node
  /\ \A i, j \in DOMAIN s : ~s[i].sub /\ ~s[j].sub /\ s[i].node = s[j].node => i = j

InCall(s, i, id) == i \in DOMAIN s /\ ~s[i].sub /\ s[i].node = id
\* How often a call has entered the target of a connection of its block.
TakenBy(f, x, c) ==
  CASE x.at = "work" -> 0
    [] x.at = "loop" -> IF c.port = "out_body" /\ IsFirst(f, c) THEN Rounds - x.left ELSE 0
    [] x.at = "follow" -> IF c.to \in Range(x.todo) THEN 0 ELSE Factor(f, c)
EntersAs(f, o, s) ==
  \A c \in Range(f.conns) : c.port \notin Branches =>
    /\ (\A i \in DOMAIN s : ~InCall(s, i, c.from)) => TimesIn(o, c.to) = Factor(f, c) * TimesIn(o, c.from)
    /\ \A i \in DOMAIN s : InCall(s, i, c.from) =>
         TimesIn(o, c.from) >= 1 /\ TimesIn(o, c.to) = Factor(f, c) * (TimesIn(o, c.from) - 1) + TakenBy(f, s[i], c)
Forks(f) == {p \in Range(f.conns) \X Range(f.conns) :
               p[1].from = p[2].from /\ p[1].port = "out_true" /\ p[2].port = "out_false"}
HasParted(x, p) == x.at = "follow" /\ p[1].to \notin Range(x.todo) /\ p[2].to \notin Range(x.todo)
Parts(f, o, s) ==
  \A p \in Forks(f) :
    /\ (\A i \in DOMAIN s : ~InCall(s, i, p[1].from)) => TimesIn(o, p[1].to) + TimesIn(o, p[2].to) = TimesIn(o, p[1].from)
    /\ \A i \in DOMAIN s : InCall(s, i, p[1].from) =>
         TimesIn(o, p[1].to) + TimesIn(o, p[2].to) = TimesIn(o, p[1].from) - 1 + IF HasParted(s[i], p) THEN 1 ELSE 0

\* On a chain the blocks entered are one walk, and only the call of the last has something left to do.
WalkSound(f, o) ==
  /\ o # <<>> => f.type[o[1]] = "start"
  /\ \A i \in 1..(Len(o) - 1) : \E c \in Range(f.conns) : c.from = o[i] /\ c.to = o[i + 1]
  /\ \A i, j \in DOMAIN o : o[i] = o[j] => i = j
WalkGoesOn(f, o, s) ==
  LET end == o[Len(o)] IN
  /\ \A i \in DOMAIN s : ~s[i].sub /\ s[i].node # end => s[i].at = "follow" /\ s[i].todo = <<>>
  /\ \/ \A c \in Range(f.conns) : c.from # end
     \/ \E i \in DOMAIN s : InCall(s, i, end)
          /\ (s[i].at = "follow" => \A c \in Range(f.conns) : c.from = end => c.to \in Range(s[i].todo))
Lined(f, o, s) == WalkSound(f, o) /\ (o # <<>> => WalkGoesOn(f, o, s))

PathSound(f, o, s) ==
  /\ o \in Seq(Blocks(f)) /\ StackSound(f, s) /\ (s # <<>> => o # <<>>)
  /\ EntersAs(f, o, s) /\ Parts(f, o, s)
  /\ Chain(f) => Lined(f, o, s)
PathInv ==
  /\ edits \in [removals : Nat, connections : Nat]
  /\ Untouched /\ stops = 0 =>
       /\ flow \in Flows /\ ~runAbort
       /\ \A r \in Runs : 0 \notin Range(order[r]) =>
            PathSound(flow, order[r], stack[r]) /\ (outcome[r] = "ended" => order[r] # <<>>)

\* The connections of a graph, one of which leads to each block at the most.
LEMMA OneInto ==
  ASSUME NEW f, WellDrawn(f)
  PROVE  /\ f.conns \in Seq([from : Blocks(f), port : Ports, to : Blocks(f)])
         /\ \A c \in Range(f.conns) :
              /\ c \in [from : Blocks(f), port : Ports, to : Blocks(f)]
              /\ c.port \in PortsOf(f.type[c.from]) /\ f.type[c.to] # "start"
         /\ \A c, d \in Range(f.conns) : c.to = d.to => c = d
<1>. DEFINE X == [from : Blocks(f), port : Ports, to : Blocks(f)]
<1>1. f.conns \in Seq(X) /\ \A i, j \in DOMAIN f.conns : f.conns[i].to = f.conns[j].to => i = j
  BY DEF WellDrawn
<1>2. \A c \in Range(f.conns) : c.port \in PortsOf(f.type[c.from]) /\ f.type[c.to] # "start"
  BY DEF WellDrawn
<1>. HIDE DEF X
<1>3. \A c \in Range(f.conns) : c \in X /\ \E i \in DOMAIN f.conns : f.conns[i] = c
  BY <1>1 DEF Range
<1>. QED
  BY <1>1, <1>2, <1>3 DEF X

LEMMA Targets ==
  ASSUME NEW f, WellDrawn(f), NEW id, NEW port
  PROVE  /\ TargetsOf(f, id, port) \in Seq(Blocks(f))
         /\ \A i, j \in DOMAIN TargetsOf(f, id, port) : TargetsOf(f, id, port)[i] = TargetsOf(f, id, port)[j] => i = j
         /\ \A c \in Range(f.conns) : c.from = id /\ c.port = port => c.to \in Range(TargetsOf(f, id, port))
         /\ \A t \in Range(TargetsOf(f, id, port)) : \E c \in Range(f.conns) : c.from = id /\ c.port = port /\ c.to = t
<1>. DEFINE ts == TargetsOf(f, id, port)
<1>. DEFINE X == [from : Blocks(f), port : Ports, to : Blocks(f)]
            S == {c \in Range(f.conns) : c.from = id /\ c.port = port}
            cs == Among(f.conns, S)
<1>1. f.conns \in Seq(X) /\ \A i, j \in DOMAIN f.conns : f.conns[i].to = f.conns[j].to => i = j
  BY DEF WellDrawn
<1>2. ts = [i \in DOMAIN cs |-> cs[i].to]
  <2>. DEFINE places == {i \in DOMAIN f.conns : f.conns[i].from = id /\ f.conns[i].port = port}
  <2>1. places = {i \in 1..Len(f.conns) : f.conns[i] \in S}
    BY <1>1 DEF Range
  <2>2. cs = AtPlaces(f.conns, places)
    BY <2>1, Zenon DEF Among
  <2>. HIDE DEF places, cs
  <2>3. TargetsOf(f, id, port) = LET z == AtPlaces(f.conns, places) IN [i \in DOMAIN z |-> z[i].to]
    BY Zenon DEF TargetsOf, places
  <2>. QED
    BY <2>2, <2>3
<1>3. S \subseteq Range(f.conns) /\ \A c \in Range(f.conns) : c \in S <=> c.from = id /\ c.port = port
  OBVIOUS
<1>. HIDE DEF X, S
<1>4. cs \in Seq(X) /\ Range(cs) = Range(f.conns) \intersect S
  BY <1>1, AmongIsPart
<1>5. PICK e \in [1..Len(cs) -> 1..Len(f.conns)] :
              /\ \A k \in 1..Len(cs) : cs[k] = f.conns[e[k]]
              /\ \A k, l \in 1..Len(cs) : k < l => e[k] < e[l]
  BY <1>1, AmongIsPart
<1>. HIDE DEF cs
<1>6. DOMAIN cs = 1..Len(cs) /\ Len(cs) \in Nat /\ DOMAIN f.conns = 1..Len(f.conns) /\ Len(f.conns) \in Nat
  BY <1>1, <1>4
<1>7. DOMAIN ts = DOMAIN cs /\ \A i \in DOMAIN ts : ts[i] = cs[i].to /\ cs[i] \in X
  BY <1>2, <1>4
<1>8. \A i \in DOMAIN ts : ts[i] \in Blocks(f)
  BY <1>7 DEF X
<1>9. ts \in Seq(Blocks(f))
  BY <1>2, <1>6, <1>7, <1>8
<1>10. ASSUME NEW i \in DOMAIN ts, NEW j \in DOMAIN ts, ts[i] = ts[j] PROVE i = j
  <2>1. i \in 1..Len(cs) /\ j \in 1..Len(cs) /\ e[i] \in DOMAIN f.conns /\ e[j] \in DOMAIN f.conns
    BY <1>6, <1>7
  <2>2. f.conns[e[i]].to = f.conns[e[j]].to
    BY <1>5, <1>7, <1>10, <2>1
  <2>3. e[i] = e[j] /\ e[i] \in Nat
    BY <1>1, <1>6, <2>1, <2>2
  <2>4. ~(e[i] < e[j]) /\ ~(e[j] < e[i])
    BY <2>3
  <2>5. ~(i < j) /\ ~(j < i)
    BY <1>5, <2>1, <2>4
  <2>. QED
    BY <1>6, <2>1, <2>5
<1>11. ASSUME NEW c \in Range(f.conns), c.from = id, c.port = port PROVE c.to \in Range(ts)
  <2>1. c \in Range(cs)
    BY <1>3, <1>4, <1>11
  <2>2. PICK i \in DOMAIN cs : cs[i] = c
    BY <2>1 DEF Range
  <2>. QED
    BY <1>7, <2>2 DEF Range
<1>12. ASSUME NEW t \in Range(ts) PROVE \E c \in Range(f.conns) : c.from = id /\ c.port = port /\ c.to = t
  <2>1. PICK i \in DOMAIN ts : ts[i] = t
    BY DEF Range
  <2>2. cs[i] \in Range(cs)
    BY <1>7 DEF Range
  <2>. QED
    BY <1>3, <1>4, <1>7, <2>1, <2>2
<1>. QED
  BY <1>9, <1>10, <1>11, <1>12

LEMMA FirstTarget ==
  ASSUME NEW X, NEW s \in Seq(X)
  PROVE  /\ s = <<>> => FirstOf(s) = <<>>
         /\ s # <<>> => FirstOf(s) = <<Head(s)>> /\ Head(s) \in Range(s) /\ Head(s) = s[1]
<1>1. s # <<>> => Len(s) \in Nat \ {0} /\ Head(s) = s[1] /\ 1 \in DOMAIN s
  OBVIOUS
<1>. QED
  BY <1>1 DEF FirstOf, Range

LEMMA TimesAppended ==
  ASSUME NEW X, NEW o \in Seq(X), NEW id, NEW b
  PROVE  /\ TimesIn(o, b) \in Nat
         /\ TimesIn(Append(o, id), b) = TimesIn(o, b) + IF b = id THEN 1 ELSE 0
         /\ TimesIn(<<>>, b) = 0
<1>. DEFINE P == {i \in DOMAIN o : o[i] = b}
            n == Len(o)
            Q == {i \in DOMAIN Append(o, id) : Append(o, id)[i] = b}
<1>1. n \in Nat /\ DOMAIN o = 1..n
  OBVIOUS
<1>2. IsFiniteSet(P) /\ Cardinality(P) \in Nat
  <2>1. IsFiniteSet(1..n) /\ P \subseteq 1..n
    BY <1>1, FS_Interval
  <2>. QED
    BY <2>1, FS_Subset, FS_CardinalityType
<1>3. o \in Seq(X \union {id}) /\ id \in X \union {id}
  BY SeqMonotonic
<1>4. /\ DOMAIN Append(o, id) = 1..(n + 1)
      /\ \A i \in 1..n : Append(o, id)[i] = o[i]
      /\ Append(o, id)[n + 1] = id
  <2>1. Append(o, id) \in Seq(X \union {id}) /\ Len(Append(o, id)) = n + 1
    BY <1>3, Appended
  <2>. QED
    BY <1>3, <2>1, Appended
<1>5. Q = IF b = id THEN P \union {n + 1} ELSE P
  <2>1. \A i : i \in 1..(n + 1) <=> i \in 1..n \/ i = n + 1
    BY <1>1
  <2>. QED
    BY <1>1, <1>4, <2>1
<1>6. n + 1 \notin P
  BY <1>1
<1>. HIDE DEF n, P, Q
<1>7. Cardinality(Q) = Cardinality(P) + IF b = id THEN 1 ELSE 0
  <2>1. CASE b = id
    BY <1>2, <1>5, <1>6, <2>1, FS_AddElement
  <2>2. CASE b # id
    BY <1>2, <1>5, <2>2
  <2>. QED
    BY <2>1, <2>2
<1>8. TimesIn(<<>>, b) = 0
  BY FS_EmptySet DEF TimesIn
<1>. QED
  BY <1>2, <1>7, <1>8 DEF TimesIn, P, Q

LEMMA FactorNat ==
  ASSUME NEW f, WellDrawn(f), NEW c \in Range(f.conns)
  PROVE  Factor(f, c) \in Nat
BY RunAssumption DEF Factor

\* The innermost call is replaced, or another one made from it.
WithLast(s, y) == Append(Front(s), y)
LEMMA TopPut ==
  ASSUME NEW s, Plain(s), s # <<>>, NEW y
  PROVE  /\ Plain(WithLast(s, y)) /\ WithLast(s, y) # <<>> /\ Len(WithLast(s, y)) = Len(s) /\ Len(s) \in Nat \ {0}
         /\ DOMAIN WithLast(s, y) = 1..Len(s) /\ DOMAIN s = 1..Len(s)
         /\ WithLast(s, y)[Len(s)] = y /\ Last(WithLast(s, y)) = y /\ Last(s) = s[Len(s)]
         /\ \A i \in 1..Len(s) : i # Len(s) => WithLast(s, y)[i] = s[i]
<1>. DEFINE s2 == Append(Front(s), y)
<1>1. /\ Plain(Front(s)) /\ Len(Front(s)) = Len(s) - 1
      /\ Len(s) \in Nat \ {0} /\ \A i \in 1..(Len(s) - 1) : Front(s)[i] = s[i]
  BY PlainFront
<1>. HIDE DEF s2
<1>2. Front(s) \in Seq(Range(Front(s)) \union {y})
  BY <1>1, SeqMonotonic DEF Plain
<1>3. /\ s2 \in Seq(Range(Front(s)) \union {y}) /\ Len(s2) = Len(Front(s)) + 1
      /\ s2[Len(Front(s)) + 1] = y /\ \A i \in 1..Len(Front(s)) : s2[i] = Front(s)[i]
  BY <1>2, Appended DEF s2
<1>4. Len(s2) = Len(s) /\ s2[Len(s)] = y
  BY <1>1, <1>3
<1>5. \A i \in 1..Len(s) : i # Len(s) => i \in 1..(Len(s) - 1)
  BY <1>1
<1>6. \A i \in 1..Len(s) : i # Len(s) => s2[i] = s[i]
  BY <1>1, <1>3, <1>5
<1>7. Plain(s2) /\ s2 # <<>> /\ DOMAIN s2 = 1..Len(s)
  <2>1. Plain(s2) /\ DOMAIN s2 = 1..Len(s2)
    BY <1>3, PlainSeq
  <2>2. s2 # <<>>
    BY <1>1, <1>3, <1>4
  <2>. QED
    BY <1>4, <2>1, <2>2
<1>8. DOMAIN s = 1..Len(s)
  BY PlainSeq DEF Plain
<1>. QED
  BY <1>1, <1>4, <1>6, <1>7, <1>8 DEF Last, WithLast, s2

LEMMA TopAdded ==
  ASSUME NEW s, Plain(s), NEW z
  PROVE  /\ Plain(Append(s, z)) /\ Append(s, z) # <<>> /\ Len(Append(s, z)) = Len(s) + 1 /\ Len(s) \in Nat
         /\ DOMAIN Append(s, z) = 1..(Len(s) + 1) /\ DOMAIN s = 1..Len(s)
         /\ Append(s, z)[Len(s) + 1] = z /\ Last(Append(s, z)) = z
         /\ \A i \in 1..Len(s) : Append(s, z)[i] = s[i]
<1>. DEFINE s2 == Append(s, z)
<1>1. s \in Seq(Range(s) \union {z}) /\ Len(s) \in Nat /\ DOMAIN s = 1..Len(s)
  BY SeqMonotonic, PlainSeq DEF Plain
<1>2. /\ s2 \in Seq(Range(s) \union {z}) /\ Len(s2) = Len(s) + 1
      /\ s2[Len(s) + 1] = z /\ \A i \in 1..Len(s) : s2[i] = s[i]
  BY <1>1, Appended
<1>3. Plain(s2) /\ DOMAIN s2 = 1..(Len(s) + 1)
  BY <1>2, PlainSeq
<1>4. s2 # <<>>
  BY <1>1, <1>2
<1>. QED
  BY <1>1, <1>2, <1>3, <1>4 DEF Last

\* What was entered stays accounted for when the calls of the page are in the same blocks and have
\* entered as much from there.
LEMMA SameCalls ==
  ASSUME NEW f, NEW o, NEW s, NEW s2, EntersAs(f, o, s), Parts(f, o, s),
         \A i, id : InCall(s2, i, id) <=> InCall(s, i, id),
         \A c \in Range(f.conns), i \in DOMAIN s :
           InCall(s, i, c.from) /\ c.port \notin Branches => TakenBy(f, s2[i], c) = TakenBy(f, s[i], c),
         \A p \in Forks(f), i \in DOMAIN s :
           InCall(s, i, p[1].from) => (HasParted(s2[i], p) <=> HasParted(s[i], p))
  PROVE  EntersAs(f, o, s2) /\ Parts(f, o, s2)
<1>1. \A i, id : InCall(s, i, id) => i \in DOMAIN s
  BY DEF InCall
<1>2. \A i, id : InCall(s2, i, id) => i \in DOMAIN s2
  BY DEF InCall
<1>3. ASSUME NEW c \in Range(f.conns), c.port \notin Branches
      PROVE  /\ (\A i \in DOMAIN s2 : ~InCall(s2, i, c.from)) => TimesIn(o, c.to) = Factor(f, c) * TimesIn(o, c.from)
             /\ \A i \in DOMAIN s2 : InCall(s2, i, c.from) =>
                  TimesIn(o, c.from) >= 1 /\ TimesIn(o, c.to) = Factor(f, c) * (TimesIn(o, c.from) - 1) + TakenBy(f, s2[i], c)
  <2>1. (\A i \in DOMAIN s2 : ~InCall(s2, i, c.from)) => \A i \in DOMAIN s : ~InCall(s, i, c.from)
    BY <1>1, <1>2
  <2>2. \A i \in DOMAIN s2 : InCall(s2, i, c.from) =>
          i \in DOMAIN s /\ InCall(s, i, c.from) /\ TakenBy(f, s2[i], c) = TakenBy(f, s[i], c)
    BY <1>1, <1>3
  <2>. QED
    BY <1>3, <2>1, <2>2 DEF EntersAs
<1>4. ASSUME NEW p \in Forks(f)
      PROVE  /\ (\A i \in DOMAIN s2 : ~InCall(s2, i, p[1].from)) => TimesIn(o, p[1].to) + TimesIn(o, p[2].to) = TimesIn(o, p[1].from)
             /\ \A i \in DOMAIN s2 : InCall(s2, i, p[1].from) =>
                  TimesIn(o, p[1].to) + TimesIn(o, p[2].to) = TimesIn(o, p[1].from) - 1 + IF HasParted(s2[i], p) THEN 1 ELSE 0
  <2>1. (\A i \in DOMAIN s2 : ~InCall(s2, i, p[1].from)) => \A i \in DOMAIN s : ~InCall(s, i, p[1].from)
    BY <1>1, <1>2
  <2>2. \A i \in DOMAIN s2 : InCall(s2, i, p[1].from) =>
          i \in DOMAIN s /\ InCall(s, i, p[1].from) /\ (HasParted(s2[i], p) <=> HasParted(s[i], p))
    BY <1>1
  <2>. QED
    BY <2>1, <2>2 DEF Parts
<1>. QED
  BY <1>3, <1>4 DEF EntersAs, Parts

\* Within the run of a saved workflow the calls of the page stay as they are.
LEMMA SubCalls ==
  ASSUME NEW f, NEW o, NEW s, NEW s2, PathSound(f, o, s), Plain(s), Plain(s2), s # <<>>,
         \A i \in DOMAIN s : ~s[i].sub => i \in DOMAIN s2 /\ s2[i] = s[i],
         \A i \in DOMAIN s2 : ~s2[i].sub => i \in DOMAIN s /\ s2[i] = s[i],
         \A i \in DOMAIN s2 : s2[i].sub => FrameSound(f, s2[i]),
         \A i, j \in DOMAIN s2 : i < j /\ s2[i].sub => s2[j].sub
  PROVE  PathSound(f, o, s2)
<1>0. /\ StackSound(f, s) /\ o # <<>> /\ EntersAs(f, o, s) /\ Parts(f, o, s) /\ o \in Seq(Blocks(f))
      /\ DOMAIN s = 1..Len(s) /\ Len(s) \in Nat \ {0} /\ DOMAIN s2 = 1..Len(s2) /\ Len(s2) \in Nat
  BY PlainSeq, EmptySeq DEF PathSound, Plain
<1>1. StackSound(f, s2)
  <2>1. \A i \in DOMAIN s2 : FrameSound(f, s2[i])
    BY <1>0 DEF StackSound
  <2>2. ~s2[1].sub /\ f.type[s2[1].node] = "start"
    BY <1>0 DEF StackSound
  <2>3. ASSUME NEW i \in 2..Len(s2), ~s2[i].sub
        PROVE  \E c \in Range(f.conns) : c.from = s2[i - 1].node /\ c.to = s2[i].node
    <3>1. i \in DOMAIN s2 /\ i - 1 \in DOMAIN s2 /\ i - 1 < i
      BY <1>0
    <3>2. ~s2[i - 1].sub
      BY <2>3, <3>1
    <3>3. s2[i] = s[i] /\ s2[i - 1] = s[i - 1] /\ i \in 2..Len(s) /\ ~s[i].sub
      BY <1>0, <2>3, <3>1, <3>2
    <3>. QED
      BY <1>0, <3>3 DEF StackSound
  <2>4. \A i, j \in DOMAIN s2 : ~s2[i].sub /\ ~s2[j].sub /\ s2[i].node = s2[j].node => i = j
    BY <1>0 DEF StackSound
  <2>. QED
    BY <2>1, <2>2, <2>3, <2>4 DEF StackSound
<1>2. \A i, id : InCall(s2, i, id) <=> InCall(s, i, id)
  BY DEF InCall
<1>3. \A i, id : InCall(s, i, id) => s2[i] = s[i]
  BY DEF InCall
<1>4. EntersAs(f, o, s2) /\ Parts(f, o, s2)
  BY <1>0, <1>2, <1>3, SameCalls
<1>5. Lined(f, o, s) => Lined(f, o, s2)
  <2>1. SUFFICES ASSUME WalkGoesOn(f, o, s) PROVE WalkGoesOn(f, o, s2)
    BY DEF Lined
  <2>. DEFINE end == o[Len(o)]
  <2>2. \A i \in DOMAIN s2 : ~s2[i].sub /\ s2[i].node # end => s2[i].at = "follow" /\ s2[i].todo = <<>>
    BY <2>1 DEF WalkGoesOn
  <2>3. (\A c \in Range(f.conns) : c.from # end)
        \/ \E i \in DOMAIN s : InCall(s, i, end)
             /\ (s[i].at = "follow" => \A c \in Range(f.conns) : c.from = end => c.to \in Range(s[i].todo))
    BY <2>1 DEF WalkGoesOn
  <2>4. ASSUME NEW i \in DOMAIN s, InCall(s, i, end) PROVE i \in DOMAIN s2 /\ s2[i] = s[i] /\ InCall(s2, i, end)
    BY <1>2, <2>4 DEF InCall
  <2>. HIDE DEF end
  <2>5. (\A c \in Range(f.conns) : c.from # end)
        \/ \E i \in DOMAIN s2 : InCall(s2, i, end)
             /\ (s2[i].at = "follow" => \A c \in Range(f.conns) : c.from = end => c.to \in Range(s2[i].todo))
    BY <2>3, <2>4
  <2>. QED
    BY <2>2, <2>5 DEF WalkGoesOn, end
<1>. QED
  BY <1>0, <1>1, <1>4, <1>5 DEF PathSound

LEMMA Distributes ==
  ASSUME NEW a \in Nat, NEW b \in Nat
  PROVE  a * (b - 1) + a = a * b /\ a * ((b + 1) - 1) = a * b
OBVIOUS

\* When the page is in no saved workflow, all calls are its own.
LEMMA PageOnly ==
  ASSUME NEW f, NEW s, StackSound(f, s), Plain(s), s # <<>>, ~Last(s).sub
  PROVE  /\ \A i \in 1..Len(s) : ~s[i].sub /\ FrameSound(f, s[i]) /\ PageCall(f, s[i])
         /\ DOMAIN s = 1..Len(s) /\ Len(s) \in Nat \ {0} /\ Last(s) = s[Len(s)]
         /\ \A i, id : InCall(s, i, id) <=> i \in 1..Len(s) /\ s[i].node = id
<1>1. DOMAIN s = 1..Len(s) /\ Len(s) \in Nat \ {0} /\ Last(s) = s[Len(s)]
  BY PlainSeq, EmptySeq DEF Plain, Last
<1>2. ASSUME NEW i \in 1..Len(s) PROVE ~s[i].sub
  <2>1. i \in 1..Len(s) /\ Len(s) \in Nat
    BY <1>1
  <2>2. i = Len(s) \/ i < Len(s)
    BY <2>1
  <2>3. i < Len(s) => ~s[i].sub
    BY <1>1, <2>1 DEF StackSound
  <2>4. i = Len(s) => ~s[i].sub
    BY <1>1
  <2>. QED
    BY <2>2, <2>3, <2>4
<1>3. \A i \in 1..Len(s) : FrameSound(f, s[i]) /\ PageCall(f, s[i])
  BY <1>1, <1>2 DEF StackSound, FrameSound
<1>. QED
  BY <1>1, <1>2, <1>3 DEF InCall

\* A call of the page goes on and enters no block.
LEMMA TopGoesOn ==
  ASSUME NEW f, WellDrawn(f), NEW o, NEW s, PathSound(f, o, s), Plain(s), s # <<>>,
         ~Last(s).sub, Last(s).at # "follow",
         NEW y, FrameSound(f, y), ~y.sub, y.node = Last(s).node,
         \A c \in Range(f.conns) : c.from = Last(s).node /\ c.port \notin Branches => TakenBy(f, y, c) = TakenBy(f, Last(s), c),
         \A p \in Forks(f) : p[1].from = Last(s).node => ~HasParted(y, p),
         y.at = "follow" => \A c \in Range(f.conns) : c.from = Last(s).node /\ c.port = "out" => c.to \in Range(y.todo)
  PROVE  PathSound(f, o, WithLast(s, y))
<1>. DEFINE x == Last(s)
            s2 == WithLast(s, y)
<1>. DEFINE n == Len(s)
<1>0. /\ StackSound(f, s) /\ o # <<>> /\ EntersAs(f, o, s) /\ Parts(f, o, s) /\ o \in Seq(Blocks(f))
      /\ Chain(f) => Lined(f, o, s)
  BY DEF PathSound
<1>1. /\ \A i \in 1..n : ~s[i].sub /\ FrameSound(f, s[i]) /\ PageCall(f, s[i])
      /\ DOMAIN s = 1..n /\ n \in Nat \ {0} /\ x = s[n]
      /\ \A i, id : InCall(s, i, id) <=> i \in 1..n /\ s[i].node = id
  BY <1>0, PageOnly
<1>2. /\ Plain(s2) /\ s2 # <<>> /\ Len(s2) = n /\ DOMAIN s2 = 1..n /\ s2[n] = y
      /\ \A i \in 1..n : i # n => s2[i] = s[i]
  BY TopPut
<1>. HIDE DEF n
<1>3. \A i \in 1..n : ~s2[i].sub /\ s2[i].node = s[i].node /\ FrameSound(f, s2[i])
  BY <1>1, <1>2
<1>4. StackSound(f, s2)
  <2>1. ~s2[1].sub /\ f.type[s2[1].node] = "start"
    <3>1. f.type[s[1].node] = "start"
      BY <1>0 DEF StackSound
    <3>2. 1 \in 1..n
      BY <1>1
    <3>. QED
      BY <1>3, <3>1, <3>2
  <2>2. ASSUME NEW i \in 2..Len(s2)
        PROVE  \E c \in Range(f.conns) : c.from = s2[i - 1].node /\ c.to = s2[i].node
    <3>1. i \in 2..n /\ n \in Nat
      BY <1>1, <1>2
    <3>2. i \in 1..n /\ i - 1 \in 1..n /\ i \in 2..Len(s)
      BY <3>1 DEF n
    <3>. QED
      BY <1>0, <1>1, <1>3, <3>2 DEF StackSound
  <2>3. \A i, j \in DOMAIN s2 : s2[i].node = s2[j].node => i = j
    BY <1>0, <1>1, <1>2, <1>3 DEF StackSound
  <2>. QED
    BY <1>2, <1>3, <2>1, <2>2, <2>3 DEF StackSound
<1>5. \A i, id : InCall(s2, i, id) <=> InCall(s, i, id)
  BY <1>1, <1>2, <1>3 DEF InCall
<1>6. ASSUME NEW c \in Range(f.conns), NEW i \in DOMAIN s, InCall(s, i, c.from), c.port \notin Branches
      PROVE  TakenBy(f, s2[i], c) = TakenBy(f, s[i], c)
  <2>1. CASE i = n
    BY <1>1, <1>2, <1>6, <2>1
  <2>2. CASE i # n
    BY <1>1, <1>2, <2>2
  <2>. QED
    BY <2>1, <2>2
<1>7. ASSUME NEW p \in Forks(f), NEW i \in DOMAIN s, InCall(s, i, p[1].from)
      PROVE  HasParted(s2[i], p) <=> HasParted(s[i], p)
  <2>1. CASE i = n
    <3>1. ~HasParted(x, p)
      BY DEF HasParted
    <3>2. ~HasParted(y, p)
      BY <1>1, <1>7, <2>1
    <3>. QED
      BY <1>1, <1>2, <2>1, <3>1, <3>2
  <2>2. CASE i # n
    BY <1>1, <1>2, <2>2
  <2>. QED
    BY <2>1, <2>2
<1>8. EntersAs(f, o, s2) /\ Parts(f, o, s2)
  BY <1>0, <1>5, <1>6, <1>7, SameCalls
<1>9. ASSUME Chain(f), WalkGoesOn(f, o, s) PROVE WalkGoesOn(f, o, s2)
  <2>. DEFINE end == o[Len(o)]
  <2>1. \A i \in DOMAIN s : ~s[i].sub /\ s[i].node # end => s[i].at = "follow" /\ s[i].todo = <<>>
    BY <1>9 DEF WalkGoesOn
  <2>. HIDE DEF end
  <2>2. x.node = end
    BY <1>1, <2>1
  <2>3. \A i \in DOMAIN s2 : ~s2[i].sub /\ s2[i].node # end => s2[i].at = "follow" /\ s2[i].todo = <<>>
    BY <1>1, <1>2, <2>1, <2>2
  <2>4. InCall(s2, n, end) /\ n \in DOMAIN s2
    BY <1>1, <1>2, <1>3, <2>2 DEF InCall
  <2>5. \A c \in Range(f.conns) : c.port = "out"
    BY <1>9 DEF Chain
  <2>6. s2[n].at = "follow" => \A c \in Range(f.conns) : c.from = end => c.to \in Range(s2[n].todo)
    BY <1>2, <2>2, <2>5
  <2>. QED
    BY <2>3, <2>4, <2>6 DEF WalkGoesOn, end
<1>10. Chain(f) => Lined(f, o, s2)
  BY <1>0, <1>9 DEF Lined
<1>. QED
  BY <1>0, <1>2, <1>4, <1>8, <1>10 DEF PathSound

\* A call of the page with nothing left to follow returns.
LEMMA CallReturns ==
  ASSUME NEW f, WellDrawn(f), NEW o, NEW s, PathSound(f, o, s), Plain(s), s # <<>>,
         ~Last(s).sub, Last(s).at = "follow", Last(s).todo = <<>>
  PROVE  PathSound(f, o, Front(s))
<1>. DEFINE x == Last(s)
            s2 == Front(s)
<1>. DEFINE n == Len(s)
<1>0. /\ StackSound(f, s) /\ o # <<>> /\ EntersAs(f, o, s) /\ Parts(f, o, s) /\ o \in Seq(Blocks(f))
      /\ Chain(f) => Lined(f, o, s)
  BY DEF PathSound
<1>1. /\ \A i \in 1..n : ~s[i].sub /\ FrameSound(f, s[i]) /\ PageCall(f, s[i])
      /\ DOMAIN s = 1..n /\ n \in Nat \ {0} /\ x = s[n]
      /\ \A i, id : InCall(s, i, id) <=> i \in 1..n /\ s[i].node = id
  BY <1>0, PageOnly
<1>2. Plain(s2) /\ Len(s2) = n - 1 /\ \A i \in 1..(n - 1) : s2[i] = s[i]
  BY PlainFront
<1>3. DOMAIN s2 = 1..(n - 1)
  BY <1>2, PlainSeq DEF Plain
<1>. HIDE DEF n
<1>4. \A i : i \in 1..n <=> i \in 1..(n - 1) \/ i = n
  BY <1>1
<1>5. \A i \in 1..(n - 1) : i # n /\ i \in 1..n
  BY <1>1
<1>6. StackSound(f, s2)
  <2>1. s2 # <<>> => ~s2[1].sub /\ f.type[s2[1].node] = "start"
    <3>1. SUFFICES ASSUME s2 # <<>> PROVE 1 \in 1..(n - 1)
      BY <1>0, <1>2 DEF StackSound
    <3>. QED
      BY <1>1, <1>2, <3>1, EmptySeq DEF Plain
  <2>2. ASSUME NEW i \in 2..Len(s2)
        PROVE  \E c \in Range(f.conns) : c.from = s2[i - 1].node /\ c.to = s2[i].node
    <3>1. i \in 1..(n - 1) /\ i - 1 \in 1..(n - 1) /\ i \in 2..Len(s)
      BY <1>1, <1>2 DEF n
    <3>2. s2[i] = s[i] /\ s2[i - 1] = s[i - 1] /\ ~s[i].sub
      BY <1>1, <1>2, <1>5, <3>1
    <3>3. \E c \in Range(f.conns) : c.from = s[i - 1].node /\ c.to = s[i].node
      BY <1>0, <3>1, <3>2 DEF StackSound
    <3>. QED
      BY <3>2, <3>3
  <2>3. \A i, j \in DOMAIN s2 : s2[i].node = s2[j].node => i = j
    BY <1>0, <1>1, <1>2, <1>3, <1>5 DEF StackSound
  <2>. QED
    BY <1>1, <1>2, <1>3, <1>5, <2>1, <2>2, <2>3 DEF StackSound
<1>7. \A i, id : InCall(s2, i, id) <=> InCall(s, i, id) /\ i # n
  BY <1>1, <1>2, <1>3, <1>4, <1>5 DEF InCall
<1>8. \A i \in 1..n : s[i].node = x.node => i = n
  BY <1>0, <1>1 DEF StackSound
<1>9. \A c \in Range(f.conns) : TakenBy(f, x, c) = Factor(f, c)
  BY DEF TakenBy, Range
<1>10. \A p \in Forks(f) : HasParted(x, p)
  BY DEF HasParted, Range
<1>11. ASSUME NEW c \in Range(f.conns), c.port \notin Branches
       PROVE  /\ (\A i \in DOMAIN s2 : ~InCall(s2, i, c.from)) => TimesIn(o, c.to) = Factor(f, c) * TimesIn(o, c.from)
              /\ \A i \in DOMAIN s2 : InCall(s2, i, c.from) =>
                   TimesIn(o, c.from) >= 1 /\ TimesIn(o, c.to) = Factor(f, c) * (TimesIn(o, c.from) - 1) + TakenBy(f, s2[i], c)
  <2>1. ASSUME NEW i \in DOMAIN s2, InCall(s2, i, c.from)
        PROVE  TimesIn(o, c.from) >= 1 /\ TimesIn(o, c.to) = Factor(f, c) * (TimesIn(o, c.from) - 1) + TakenBy(f, s2[i], c)
    <3>1. InCall(s, i, c.from) /\ i \in DOMAIN s /\ s2[i] = s[i]
      BY <1>1, <1>2, <1>3, <1>5, <1>7, <2>1
    <3>. QED
      BY <1>0, <1>11, <3>1 DEF EntersAs
  <2>2. ASSUME \A i \in DOMAIN s2 : ~InCall(s2, i, c.from)
        PROVE  TimesIn(o, c.to) = Factor(f, c) * TimesIn(o, c.from)
    <3>1. \A i \in DOMAIN s : i # n => ~InCall(s, i, c.from)
      BY <1>1, <1>3, <1>4, <1>7, <2>2
    <3>2. CASE ~InCall(s, n, c.from)
      <4>1. \A i \in DOMAIN s : ~InCall(s, i, c.from)
        BY <3>1, <3>2
      <4>. QED
        BY <1>0, <1>11, <4>1 DEF EntersAs
    <3>3. CASE InCall(s, n, c.from)
      <4>1. n \in DOMAIN s
        BY <1>1
      <4>2. TimesIn(o, c.from) >= 1 /\ TimesIn(o, c.to) = Factor(f, c) * (TimesIn(o, c.from) - 1) + TakenBy(f, s[n], c)
        BY <1>0, <1>11, <3>3, <4>1 DEF EntersAs
      <4>3. TimesIn(o, c.to) = Factor(f, c) * (TimesIn(o, c.from) - 1) + Factor(f, c)
        BY <1>1, <1>9, <4>2
      <4>4. Factor(f, c) \in Nat /\ TimesIn(o, c.from) \in Nat
        BY <1>0, FactorNat, TimesAppended
      <4>. QED
        BY <4>3, <4>4, Distributes
    <3>. QED
      BY <3>2, <3>3
  <2>. QED
    BY <2>1, <2>2
<1>12. ASSUME NEW p \in Forks(f)
       PROVE  /\ (\A i \in DOMAIN s2 : ~InCall(s2, i, p[1].from)) => TimesIn(o, p[1].to) + TimesIn(o, p[2].to) = TimesIn(o, p[1].from)
              /\ \A i \in DOMAIN s2 : InCall(s2, i, p[1].from) =>
                   TimesIn(o, p[1].to) + TimesIn(o, p[2].to) = TimesIn(o, p[1].from) - 1 + IF HasParted(s2[i], p) THEN 1 ELSE 0
  <2>1. ASSUME NEW i \in DOMAIN s2, InCall(s2, i, p[1].from)
        PROVE  TimesIn(o, p[1].to) + TimesIn(o, p[2].to) = TimesIn(o, p[1].from) - 1 + IF HasParted(s2[i], p) THEN 1 ELSE 0
    <3>1. InCall(s, i, p[1].from) /\ i \in DOMAIN s /\ s2[i] = s[i]
      BY <1>1, <1>2, <1>3, <1>5, <1>7, <2>1
    <3>. QED
      BY <1>0, <3>1 DEF Parts
  <2>2. ASSUME \A i \in DOMAIN s2 : ~InCall(s2, i, p[1].from)
        PROVE  TimesIn(o, p[1].to) + TimesIn(o, p[2].to) = TimesIn(o, p[1].from)
    <3>1. \A i \in DOMAIN s : i # n => ~InCall(s, i, p[1].from)
      BY <1>1, <1>3, <1>4, <1>7, <2>2
    <3>2. CASE ~InCall(s, n, p[1].from)
      <4>1. \A i \in DOMAIN s : ~InCall(s, i, p[1].from)
        BY <3>1, <3>2
      <4>. QED
        BY <1>0, <4>1 DEF Parts
    <3>3. CASE InCall(s, n, p[1].from)
      <4>1. n \in DOMAIN s /\ HasParted(s[n], p)
        BY <1>1, <1>10
      <4>2. TimesIn(o, p[1].to) + TimesIn(o, p[2].to) = TimesIn(o, p[1].from) - 1 + 1
        BY <1>0, <3>3, <4>1 DEF Parts
      <4>3. TimesIn(o, p[1].from) \in Nat
        BY <1>0, TimesAppended
      <4>. QED
        BY <4>2, <4>3
    <3>. QED
      BY <3>2, <3>3
  <2>. QED
    BY <2>1, <2>2
<1>13. EntersAs(f, o, s2) /\ Parts(f, o, s2)
  BY <1>11, <1>12 DEF EntersAs, Parts
<1>14. ASSUME WalkGoesOn(f, o, s) PROVE WalkGoesOn(f, o, s2)
  <2>. DEFINE end == o[Len(o)]
  <2>1. \A i \in DOMAIN s : ~s[i].sub /\ s[i].node # end => s[i].at = "follow" /\ s[i].todo = <<>>
    BY <1>14 DEF WalkGoesOn
  <2>2. (\A c \in Range(f.conns) : c.from # end)
        \/ \E i \in DOMAIN s : InCall(s, i, end)
             /\ (s[i].at = "follow" => \A c \in Range(f.conns) : c.from = end => c.to \in Range(s[i].todo))
    BY <1>14 DEF WalkGoesOn
  <2>. HIDE DEF end
  <2>3. \A i \in DOMAIN s2 : ~s2[i].sub /\ s2[i].node # end => s2[i].at = "follow" /\ s2[i].todo = <<>>
    BY <1>1, <1>2, <1>3, <1>5, <2>1
  <2>4. ASSUME NEW i \in DOMAIN s, InCall(s, i, end),
               s[i].at = "follow" => \A c \in Range(f.conns) : c.from = end => c.to \in Range(s[i].todo)
        PROVE  (\A c \in Range(f.conns) : c.from # end)
               \/ \E j \in DOMAIN s2 : InCall(s2, j, end)
                    /\ (s2[j].at = "follow" => \A c \in Range(f.conns) : c.from = end => c.to \in Range(s2[j].todo))
    <3>1. CASE i = n
      BY <1>1, <2>4, <3>1 DEF Range
    <3>2. CASE i # n
      <4>1. InCall(s2, i, end) /\ i \in DOMAIN s2 /\ s2[i] = s[i]
        BY <1>1, <1>2, <1>3, <1>4, <1>7, <2>4, <3>2
      <4>. QED
        BY <2>4, <4>1
    <3>. QED
      BY <3>1, <3>2
  <2>5. (\A c \in Range(f.conns) : c.from # end)
        \/ \E j \in DOMAIN s2 : InCall(s2, j, end)
             /\ (s2[j].at = "follow" => \A c \in Range(f.conns) : c.from = end => c.to \in Range(s2[j].todo))
    BY <2>2, <2>4
  <2>. QED
    BY <2>3, <2>5 DEF WalkGoesOn, end
<1>15. Chain(f) => Lined(f, o, s2)
  BY <1>0, <1>14 DEF Lined
<1>. QED
  BY <1>0, <1>6, <1>13, <1>15 DEF PathSound

\* A call of the page enters the target of a connection of its block, which it has not been in.
LEMMA NotOnTheWay ==
  ASSUME NEW f, WellDrawn(f), NEW s, StackSound(f, s), Plain(s), s # <<>>, ~Last(s).sub,
         NEW d \in Range(f.conns), d.from = Last(s).node
  PROVE  \A i \in 1..Len(s) : s[i].node # d.to
<1>1. /\ \A i \in 1..Len(s) : ~s[i].sub
      /\ DOMAIN s = 1..Len(s) /\ Len(s) \in Nat \ {0} /\ Last(s) = s[Len(s)]
  BY PageOnly
<1>2. SUFFICES ASSUME NEW i \in 1..Len(s), s[i].node = d.to PROVE FALSE
  OBVIOUS
<1>3. CASE i = 1
  <2>1. f.type[s[1].node] = "start"
    BY DEF StackSound
  <2>. QED
    BY <1>2, <1>3, <2>1, OneInto
<1>4. CASE i # 1
  <2>1. i \in 2..Len(s) /\ i - 1 \in 1..Len(s) /\ Len(s) \in 1..Len(s) /\ i - 1 # Len(s)
    BY <1>1, <1>4
  <2>2. PICK c \in Range(f.conns) : c.from = s[i - 1].node /\ c.to = s[i].node
    BY <1>1, <2>1 DEF StackSound
  <2>3. c = d
    BY <1>2, <2>2, OneInto
  <2>4. s[i - 1].node = s[Len(s)].node
    BY <1>1, <2>2, <2>3
  <2>. QED
    BY <1>1, <2>1, <2>4 DEF StackSound
<1>. QED
  BY <1>3, <1>4

\* The innermost call is now y, and has made the call z.
Pushed(s, y, z, s2) ==
  /\ Plain(s2) /\ s2 # <<>> /\ Len(s2) = Len(s) + 1 /\ s2[Len(s)] = y /\ s2[Len(s) + 1] = z
  /\ \A i \in 1..Len(s) : i # Len(s) => s2[i] = s[i]

LEMMA PutAndAdded ==
  ASSUME NEW s, Plain(s), s # <<>>, NEW y, NEW z
  PROVE  Pushed(s, y, z, Append(WithLast(s, y), z))
<1>. DEFINE t == WithLast(s, y)
<1>1. Plain(t) /\ Len(t) = Len(s) /\ Len(s) \in Nat \ {0} /\ t[Len(s)] = y /\ \A i \in 1..Len(s) : i # Len(s) => t[i] = s[i]
  BY TopPut
<1>. HIDE DEF t
<1>2. /\ Plain(Append(t, z)) /\ Append(t, z) # <<>> /\ Len(Append(t, z)) = Len(t) + 1
      /\ Append(t, z)[Len(t) + 1] = z
      /\ \A i \in 1..Len(t) : Append(t, z)[i] = t[i]
  BY <1>1, TopAdded
<1>3. Append(t, z)[Len(s)] = y
  BY <1>1, <1>2
<1>. QED
  BY <1>1, <1>2, <1>3 DEF Pushed, t

\* The calls after a block was entered: the innermost is the one of that block.
LEMMA StackEntered ==
  ASSUME NEW f, WellDrawn(f), NEW s, StackSound(f, s), Plain(s), s # <<>>,
         ~Last(s).sub, NEW y, FrameSound(f, y), ~y.sub, y.node = Last(s).node,
         NEW d \in Range(f.conns), d.from = Last(s).node,
         NEW z, FrameSound(f, z), ~z.sub, z.node = d.to, NEW s2, Pushed(s, y, z, s2)
  PROVE  /\ StackSound(f, s2) /\ Plain(s2) /\ s2 # <<>> /\ Len(s) \in Nat \ {0}
         /\ DOMAIN s2 = 1..(Len(s) + 1) /\ DOMAIN s = 1..Len(s) /\ s2[Len(s)] = y /\ s2[Len(s) + 1] = z /\ Last(s) = s[Len(s)]
         /\ \A i \in 1..Len(s) : i # Len(s) => s2[i] = s[i]
         /\ \A i, id : InCall(s, i, id) <=> i \in 1..Len(s) /\ s[i].node = id
         /\ \A i, id : InCall(s2, i, id) <=> (i \in 1..Len(s) /\ s[i].node = id) \/ (i = Len(s) + 1 /\ id = d.to)
         /\ \A i, j \in 1..Len(s) : s[i].node = s[j].node => i = j
         /\ \A i \in 1..Len(s) : s[i].node # d.to
<1>. DEFINE n == Len(s)
            x == Last(s)
<1>1. /\ \A i \in 1..n : ~s[i].sub /\ FrameSound(f, s[i]) /\ PageCall(f, s[i])
      /\ DOMAIN s = 1..n /\ n \in Nat \ {0} /\ x = s[n]
      /\ \A i, id : InCall(s, i, id) <=> i \in 1..n /\ s[i].node = id
  BY PageOnly
<1>2. \A i \in 1..n : s[i].node # d.to
  BY NotOnTheWay
<1>6. /\ Plain(s2) /\ s2 # <<>> /\ Len(s2) = n + 1
      /\ DOMAIN s2 = 1..(n + 1) /\ s2[n + 1] = z /\ s2[n] = y
      /\ \A i \in 1..n : i # n => s2[i] = s[i]
  <2>1. /\ Plain(s2) /\ s2 # <<>> /\ Len(s2) = n + 1 /\ s2[n + 1] = z /\ s2[n] = y
        /\ \A i \in 1..n : i # n => s2[i] = s[i]
    BY DEF Pushed
  <2>2. DOMAIN s2 = 1..Len(s2)
    BY <2>1, PlainSeq DEF Plain
  <2>. QED
    BY <2>1, <2>2
<1>8. \A i \in 1..n : ~s2[i].sub /\ s2[i].node = s[i].node /\ FrameSound(f, s2[i])
  BY <1>1, <1>6
<1>9. \A i : i \in 1..(n + 1) <=> i \in 1..n \/ i = n + 1
  BY <1>1
<1>10. \A i \in 1..(n + 1) : ~s2[i].sub /\ FrameSound(f, s2[i])
  BY <1>6, <1>8, <1>9
<1>11. \A i, id : InCall(s2, i, id) <=> (i \in 1..n /\ s[i].node = id) \/ (i = n + 1 /\ id = d.to)
  BY <1>6, <1>8, <1>9 DEF InCall
<1>12. \A i, j \in 1..n : s[i].node = s[j].node => i = j
  BY <1>1 DEF StackSound
<1>13. StackSound(f, s2)
  <2>1. f.type[s2[1].node] = "start"
    <3>1. f.type[s[1].node] = "start" /\ 1 \in 1..n
      BY <1>1 DEF StackSound
    <3>. QED
      BY <1>8, <3>1
  <2>2. ASSUME NEW i \in 2..(n + 1)
        PROVE  \E c \in Range(f.conns) : c.from = s2[i - 1].node /\ c.to = s2[i].node
    <3>1. CASE i = n + 1
      <4>1. i - 1 = n
        BY <1>1, <3>1
      <4>2. s2[i - 1].node = d.from /\ s2[i].node = d.to
        BY <1>6, <3>1, <4>1
      <4>. QED
        BY <4>2
    <3>2. CASE i # n + 1
      <4>1. i \in 2..n /\ i \in 1..n /\ i - 1 \in 1..n
        BY <1>1, <3>2
      <4>2. \E c \in Range(f.conns) : c.from = s[i - 1].node /\ c.to = s[i].node
        BY <1>1, <4>1 DEF StackSound
      <4>. QED
        BY <1>8, <4>1, <4>2
    <3>. QED
      BY <3>1, <3>2
  <2>3. \A i, j \in 1..(n + 1) : s2[i].node = s2[j].node => i = j
    <3>1. \A i \in 1..n : s2[i].node # s2[n + 1].node
      BY <1>2, <1>6, <1>8
    <3>. QED
      BY <1>8, <1>9, <1>12, <3>1
  <2>4. 1 \in 1..(n + 1)
    BY <1>1
  <2>5. \A i \in 1..(n + 1) : FrameSound(f, s2[i]) /\ ~s2[i].sub
    BY <1>10
  <2>. QED
    BY <1>6, <2>1, <2>2, <2>3, <2>4, <2>5 DEF StackSound
<1>. QED
  BY <1>1, <1>2, <1>6, <1>11, <1>12, <1>13

\* A call of the page goes on and enters the target of one connection of its block.
LEMMA BlockEntered ==
  ASSUME NEW f, WellDrawn(f), NEW o, NEW s, PathSound(f, o, s), Plain(s), s # <<>>,
         ~Last(s).sub,
         NEW y, FrameSound(f, y), ~y.sub, y.node = Last(s).node,
         NEW d \in Range(f.conns), d.from = Last(s).node,
         \A c \in Range(f.conns) : c.from = Last(s).node /\ c.port \notin Branches =>
           TakenBy(f, Last(s), c) \in Int /\ TakenBy(f, y, c) = TakenBy(f, Last(s), c) + IF c = d THEN 1 ELSE 0,
         \A p \in Forks(f) : p[1].from = Last(s).node =>
           IF d \in {p[1], p[2]} THEN HasParted(y, p) /\ ~HasParted(Last(s), p) ELSE HasParted(y, p) <=> HasParted(Last(s), p),
         Chain(f) => Last(s).at = "follow" /\ Last(s).todo # <<>> /\ y.at = "follow" /\ y.todo = <<>>,
         NEW z, FrameSound(f, z), ~z.sub, z.node = d.to, z.at = "work",
         NEW s2, Pushed(s, y, z, s2)
  PROVE  PathSound(f, Append(o, d.to), s2)
<1>. DEFINE x == Last(s)
            o2 == Append(o, d.to)
<1>. DEFINE n == Len(s)
<1>0. /\ StackSound(f, s) /\ o # <<>> /\ EntersAs(f, o, s) /\ Parts(f, o, s) /\ o \in Seq(Blocks(f))
      /\ Chain(f) => Lined(f, o, s)
  BY DEF PathSound
<1>1. /\ StackSound(f, s2) /\ Plain(s2) /\ s2 # <<>> /\ n \in Nat \ {0}
      /\ DOMAIN s2 = 1..(n + 1) /\ DOMAIN s = 1..n /\ s2[n] = y /\ s2[n + 1] = z /\ x = s[n]
      /\ \A i \in 1..n : i # n => s2[i] = s[i]
      /\ \A i, id : InCall(s, i, id) <=> i \in 1..n /\ s[i].node = id
      /\ \A i, id : InCall(s2, i, id) <=> (i \in 1..n /\ s[i].node = id) \/ (i = n + 1 /\ id = d.to)
      /\ \A i, j \in 1..n : s[i].node = s[j].node => i = j
      /\ \A i \in 1..n : s[i].node # d.to
  BY <1>0, StackEntered
<1>. HIDE DEF n
<1>2. /\ \A c \in Range(f.conns) : c.to = d.to <=> c = d
      /\ d.from # d.to /\ d.to \in Blocks(f) /\ f.type[d.to] # "start"
  <2>1. d.from # d.to
    BY <1>1
  <2>. QED
    BY <2>1, OneInto
<1>3. /\ \A b : TimesIn(o2, b) = TimesIn(o, b) + IF b = d.to THEN 1 ELSE 0
      /\ \A b : TimesIn(o, b) \in Nat
  BY <1>0, TimesAppended
<1>4. \A i : i \in 1..(n + 1) <=> i \in 1..n \/ i = n + 1
  BY <1>1
<1>5. ASSUME NEW c \in Range(f.conns), c.port \notin Branches
      PROVE  /\ (\A i \in DOMAIN s2 : ~InCall(s2, i, c.from)) => TimesIn(o2, c.to) = Factor(f, c) * TimesIn(o2, c.from)
             /\ \A i \in DOMAIN s2 : InCall(s2, i, c.from) =>
                  TimesIn(o2, c.from) >= 1 /\ TimesIn(o2, c.to) = Factor(f, c) * (TimesIn(o2, c.from) - 1) + TakenBy(f, s2[i], c)
  <2>0. /\ Factor(f, c) \in Nat
        /\ (\A i \in DOMAIN s : ~InCall(s, i, c.from)) => TimesIn(o, c.to) = Factor(f, c) * TimesIn(o, c.from)
        /\ \A i \in DOMAIN s : InCall(s, i, c.from) =>
             TimesIn(o, c.from) >= 1 /\ TimesIn(o, c.to) = Factor(f, c) * (TimesIn(o, c.from) - 1) + TakenBy(f, s[i], c)
    BY <1>0, <1>5, FactorNat DEF EntersAs
  <2>1. CASE c.from = d.to
    <3>1. \A i \in DOMAIN s : ~InCall(s, i, c.from)
      BY <1>1, <2>1
    <3>2. c.to # d.to
      BY <1>2, <2>1
    <3>3. TimesIn(o2, c.to) = TimesIn(o, c.to) /\ TimesIn(o2, c.from) = TimesIn(o, c.from) + 1
      BY <1>3, <2>1, <3>2
    <3>4. InCall(s2, n + 1, c.from) /\ n + 1 \in DOMAIN s2 /\ \A i : InCall(s2, i, c.from) => i = n + 1
      BY <1>1, <1>4, <2>1
    <3>5. TakenBy(f, z, c) = 0
      BY DEF TakenBy
    <3>6. TimesIn(o2, c.to) = Factor(f, c) * (TimesIn(o2, c.from) - 1) + 0 /\ TimesIn(o2, c.from) >= 1
      <4>1. TimesIn(o, c.to) = Factor(f, c) * TimesIn(o, c.from) /\ TimesIn(o, c.from) \in Nat
        BY <1>3, <2>0, <3>1
      <4>2. TimesIn(o2, c.from) - 1 = TimesIn(o, c.from) /\ TimesIn(o2, c.from) >= 1
        BY <3>3, <4>1
      <4>3. Factor(f, c) * TimesIn(o, c.from) \in Nat
        BY <1>3, <4>1
      <4>. QED
        BY <3>3, <4>1, <4>2, <4>3
    <3>. QED
      BY <1>1, <3>4, <3>5, <3>6
  <2>2. CASE c.from = x.node
    <3>1. InCall(s, n, c.from) /\ n \in DOMAIN s /\ n \in 1..n
      BY <1>1, <2>2
    <3>2. InCall(s2, n, c.from) /\ n \in DOMAIN s2 /\ \A i : InCall(s2, i, c.from) => i = n
      <4>1. s[n].node = c.from /\ c.from # d.to
        BY <1>1, <1>2, <2>2
      <4>2. \A i : InCall(s2, i, c.from) => i \in 1..n /\ s[i].node = s[n].node
        BY <1>1, <4>1
      <4>. QED
        BY <1>1, <1>4, <3>1, <4>1, <4>2
    <3>3. TimesIn(o2, c.from) = TimesIn(o, c.from)
      BY <1>2, <1>3, <2>2
    <3>4. TimesIn(o2, c.to) = TimesIn(o, c.to) + IF c = d THEN 1 ELSE 0
      BY <1>2, <1>3
    <3>5. TakenBy(f, x, c) \in Int /\ TakenBy(f, y, c) = TakenBy(f, x, c) + IF c = d THEN 1 ELSE 0
      BY <1>5, <2>2
    <3>6. TimesIn(o, c.from) >= 1 /\ TimesIn(o, c.to) = Factor(f, c) * (TimesIn(o, c.from) - 1) + TakenBy(f, x, c)
      BY <1>1, <2>0, <3>1
    <3>7. TimesIn(o2, c.to) = Factor(f, c) * (TimesIn(o2, c.from) - 1) + TakenBy(f, y, c)
      <4>. DEFINE k == Factor(f, c) * (TimesIn(o, c.from) - 1)
      <4>1. k \in Int
        BY <1>3, <2>0
      <4>2. k = Factor(f, c) * (TimesIn(o2, c.from) - 1) /\ TimesIn(o, c.to) = k + TakenBy(f, x, c)
        BY <3>3, <3>6
      <4>. HIDE DEF k
      <4>3. TimesIn(o2, c.to) = k + TakenBy(f, y, c)
        BY <3>4, <3>5, <4>1, <4>2
      <4>. QED
        BY <4>2, <4>3
    <3>. QED
      BY <1>1, <3>2, <3>3, <3>6, <3>7
  <2>3. CASE c.from # d.to /\ c.from # x.node
    <3>1. c # d /\ c.to # d.to
      BY <1>2, <2>3
    <3>2. TimesIn(o2, c.to) = TimesIn(o, c.to) /\ TimesIn(o2, c.from) = TimesIn(o, c.from)
      BY <1>3, <2>3, <3>1
    <3>3. \A i : InCall(s2, i, c.from) <=> InCall(s, i, c.from)
      BY <1>1, <2>3
    <3>4. \A i : InCall(s, i, c.from) => i \in DOMAIN s /\ i \in DOMAIN s2 /\ s2[i] = s[i]
      BY <1>1, <1>4, <2>3
    <3>. QED
      BY <2>0, <3>2, <3>3, <3>4
  <2>. QED
    BY <2>1, <2>2, <2>3
<1>6. ASSUME NEW p \in Forks(f)
      PROVE  /\ (\A i \in DOMAIN s2 : ~InCall(s2, i, p[1].from)) => TimesIn(o2, p[1].to) + TimesIn(o2, p[2].to) = TimesIn(o2, p[1].from)
             /\ \A i \in DOMAIN s2 : InCall(s2, i, p[1].from) =>
                  TimesIn(o2, p[1].to) + TimesIn(o2, p[2].to) = TimesIn(o2, p[1].from) - 1 + IF HasParted(s2[i], p) THEN 1 ELSE 0
  <2>0. /\ (\A i \in DOMAIN s : ~InCall(s, i, p[1].from)) => TimesIn(o, p[1].to) + TimesIn(o, p[2].to) = TimesIn(o, p[1].from)
        /\ \A i \in DOMAIN s : InCall(s, i, p[1].from) =>
             TimesIn(o, p[1].to) + TimesIn(o, p[2].to) = TimesIn(o, p[1].from) - 1 + IF HasParted(s[i], p) THEN 1 ELSE 0
    BY <1>0 DEF Parts
  <2>a. p[1] \in Range(f.conns) /\ p[2] \in Range(f.conns) /\ p[1].from = p[2].from /\ p[1] # p[2]
    BY DEF Forks
  <2>b. /\ p[1].to = d.to <=> p[1] = d
        /\ p[2].to = d.to <=> p[2] = d
    BY <1>2, <2>a
  <2>c. TimesIn(o, p[1].to) \in Nat /\ TimesIn(o, p[2].to) \in Nat /\ TimesIn(o, p[1].from) \in Nat
    BY <1>3
  <2>1. CASE p[1].from = d.to
    <3>1. \A i \in DOMAIN s : ~InCall(s, i, p[1].from)
      BY <1>1, <2>1
    <3>2. p[1] # d /\ p[2] # d
      BY <1>2, <2>1, <2>a
    <3>3. /\ TimesIn(o2, p[1].to) = TimesIn(o, p[1].to) /\ TimesIn(o2, p[2].to) = TimesIn(o, p[2].to)
          /\ TimesIn(o2, p[1].from) = TimesIn(o, p[1].from) + 1
      BY <1>3, <2>1, <2>b, <3>2
    <3>4. InCall(s2, n + 1, p[1].from) /\ n + 1 \in DOMAIN s2 /\ \A i : InCall(s2, i, p[1].from) => i = n + 1
      BY <1>1, <1>4, <2>1
    <3>5. ~HasParted(z, p)
      BY DEF HasParted
    <3>6. TimesIn(o2, p[1].to) + TimesIn(o2, p[2].to) = TimesIn(o2, p[1].from) - 1 + 0
      BY <2>0, <2>c, <3>1, <3>3
    <3>. QED
      BY <1>1, <3>4, <3>5, <3>6
  <2>2. CASE p[1].from = x.node
    <3>1. InCall(s, n, p[1].from) /\ n \in DOMAIN s /\ n \in 1..n
      BY <1>1, <2>2
    <3>2. InCall(s2, n, p[1].from) /\ n \in DOMAIN s2 /\ \A i : InCall(s2, i, p[1].from) => i = n
      BY <1>1, <1>2, <1>4, <2>2, <3>1
    <3>3. TimesIn(o2, p[1].from) = TimesIn(o, p[1].from)
      BY <1>2, <1>3, <2>2
    <3>4. TimesIn(o, p[1].to) + TimesIn(o, p[2].to) = TimesIn(o, p[1].from) - 1 + IF HasParted(x, p) THEN 1 ELSE 0
      BY <1>1, <2>0, <3>1
    <3>5. TimesIn(o2, p[1].to) + TimesIn(o2, p[2].to) = TimesIn(o2, p[1].from) - 1 + IF HasParted(y, p) THEN 1 ELSE 0
      <4>1. CASE d = p[1]
        <5>1. HasParted(y, p) /\ ~HasParted(x, p)
          BY <2>2, <4>1
        <5>2. TimesIn(o2, p[1].to) = TimesIn(o, p[1].to) + 1 /\ TimesIn(o2, p[2].to) = TimesIn(o, p[2].to)
          BY <1>3, <2>a, <2>b, <4>1
        <5>3. TimesIn(o, p[1].to) + TimesIn(o, p[2].to) = TimesIn(o, p[1].from) - 1 + 0
          BY <3>4, <5>1
        <5>4. TimesIn(o2, p[1].to) + TimesIn(o2, p[2].to) = TimesIn(o2, p[1].from) - 1 + 1
          BY <2>c, <3>3, <5>2, <5>3
        <5>. QED
          BY <5>1, <5>4
      <4>2. CASE d = p[2]
        <5>1. HasParted(y, p) /\ ~HasParted(x, p)
          BY <2>2, <4>2
        <5>2. TimesIn(o2, p[1].to) = TimesIn(o, p[1].to) /\ TimesIn(o2, p[2].to) = TimesIn(o, p[2].to) + 1
          BY <1>3, <2>a, <2>b, <4>2
        <5>3. TimesIn(o, p[1].to) + TimesIn(o, p[2].to) = TimesIn(o, p[1].from) - 1 + 0
          BY <3>4, <5>1
        <5>4. TimesIn(o2, p[1].to) + TimesIn(o2, p[2].to) = TimesIn(o2, p[1].from) - 1 + 1
          BY <2>c, <3>3, <5>2, <5>3
        <5>. QED
          BY <5>1, <5>4
      <4>3. CASE d \notin {p[1], p[2]}
        <5>1. HasParted(y, p) <=> HasParted(x, p)
          BY <2>2, <4>3
        <5>2. TimesIn(o2, p[1].to) = TimesIn(o, p[1].to) /\ TimesIn(o2, p[2].to) = TimesIn(o, p[2].to)
          BY <1>3, <2>b, <4>3
        <5>. QED
          BY <3>3, <3>4, <5>1, <5>2
      <4>. QED
        BY <4>1, <4>2, <4>3
    <3>. QED
      BY <1>1, <3>2, <3>5
  <2>3. CASE p[1].from # d.to /\ p[1].from # x.node
    <3>1. p[1] # d /\ p[2] # d
      BY <2>3, <2>a
    <3>2. /\ TimesIn(o2, p[1].to) = TimesIn(o, p[1].to) /\ TimesIn(o2, p[2].to) = TimesIn(o, p[2].to)
          /\ TimesIn(o2, p[1].from) = TimesIn(o, p[1].from)
      BY <1>3, <2>3, <2>b, <3>1
    <3>3. \A i : InCall(s2, i, p[1].from) <=> InCall(s, i, p[1].from)
      BY <1>1, <2>3
    <3>4. \A i : InCall(s, i, p[1].from) => i \in DOMAIN s /\ i \in DOMAIN s2 /\ s2[i] = s[i]
      BY <1>1, <1>4, <2>3
    <3>. QED
      BY <2>0, <3>2, <3>3, <3>4
  <2>. QED
    BY <2>1, <2>2, <2>3
<1>7. EntersAs(f, o2, s2) /\ Parts(f, o2, s2)
  BY <1>5, <1>6 DEF EntersAs, Parts
<1>8. o2 \in Seq(Blocks(f)) /\ o2 # <<>>
  BY <1>0, <1>2
<1>. DEFINE m == Len(o)
<1>9. /\ m \in Nat \ {0} /\ DOMAIN o = 1..m /\ DOMAIN o2 = 1..(m + 1) /\ Len(o2) = m + 1
      /\ o2[m + 1] = d.to /\ \A i \in 1..m : o2[i] = o[i]
  <2>1. m \in Nat \ {0} /\ DOMAIN o = 1..m
    BY <1>0
  <2>2. Len(o2) = m + 1 /\ o2[m + 1] = d.to /\ \A i \in 1..m : o2[i] = o[i]
    BY <1>0, <1>2
  <2>. QED
    BY <1>8, <2>1, <2>2
<1>10. ASSUME Chain(f), WalkSound(f, o), WalkGoesOn(f, o, s)
       PROVE  WalkSound(f, o2) /\ WalkGoesOn(f, o2, s2)
  <2>. HIDE DEF m
  <2>0. /\ f.type[o[1]] = "start"
        /\ \A i \in 1..(m - 1) : \E c \in Range(f.conns) : c.from = o[i] /\ c.to = o[i + 1]
        /\ \A i, j \in DOMAIN o : o[i] = o[j] => i = j
        /\ \A i \in DOMAIN s : ~s[i].sub /\ s[i].node # o[m] => s[i].at = "follow" /\ s[i].todo = <<>>
    BY <1>0, <1>10 DEF WalkSound, WalkGoesOn, m
  <2>1. x.node = o[m] /\ x.at = "follow" /\ y.at = "follow" /\ y.todo = <<>>
    BY <1>1, <1>10, <2>0
  <2>2. \A i : i \in 1..(m + 1) <=> i \in 1..m \/ i = m + 1
    BY <1>9
  <2>3. 1 \in 1..m /\ m \in 1..m
    BY <1>9
  <2>4. \A i \in 1..m : o[i] # d.to
    <3>1. SUFFICES ASSUME NEW i \in 1..m, o[i] = d.to PROVE FALSE
      OBVIOUS
    <3>2. i # 1
      BY <1>2, <2>0, <3>1
    <3>3. i - 1 \in 1..(m - 1) /\ i - 1 \in 1..m /\ i - 1 # m /\ (i - 1) + 1 = i
      BY <1>9, <3>2
    <3>4. PICK c \in Range(f.conns) : c.from = o[i - 1] /\ c.to = o[i]
      BY <2>0, <3>3
    <3>5. o[i - 1] = o[m]
      BY <1>2, <2>1, <3>1, <3>4
    <3>. QED
      BY <1>9, <2>0, <2>3, <3>3, <3>5
  <2>5. \A i, j \in 1..(m + 1) : o2[i] = o2[j] => i = j
    BY <1>9, <2>0, <2>2, <2>4
  <2>6. ASSUME NEW i \in 1..m PROVE \E c \in Range(f.conns) : c.from = o2[i] /\ c.to = o2[i + 1]
    <3>1. CASE i = m
      BY <1>9, <2>1, <2>3, <3>1
    <3>2. CASE i # m
      <4>1. i \in 1..(m - 1) /\ i + 1 \in 1..m
        BY <1>9, <3>2
      <4>. QED
        BY <1>9, <2>0, <4>1
    <3>. QED
      BY <3>1, <3>2
  <2>7. WalkSound(f, o2)
    <3>1. f.type[o2[1]] = "start"
      BY <1>9, <2>0, <2>3
    <3>2. 1..(Len(o2) - 1) = 1..m
      BY <1>9
    <3>. QED
      BY <1>9, <2>5, <2>6, <3>1, <3>2 DEF WalkSound
  <2>8. ASSUME NEW i \in DOMAIN s2, ~s2[i].sub, s2[i].node # d.to
        PROVE  s2[i].at = "follow" /\ s2[i].todo = <<>>
    <3>1. i \in 1..n
      BY <1>1, <1>4, <2>8
    <3>2. CASE i = n
      BY <1>1, <2>1, <3>2
    <3>3. CASE i # n
      <4>1. s2[i] = s[i] /\ n \in 1..n
        BY <1>1, <3>1, <3>3
      <4>2. s[i].node # s[n].node
        BY <1>1, <3>1, <3>3, <4>1
      <4>. QED
        BY <1>1, <2>0, <2>1, <2>8, <3>1, <4>1, <4>2
    <3>. QED
      BY <3>2, <3>3
  <2>9. n + 1 \in DOMAIN s2 /\ InCall(s2, n + 1, d.to) /\ s2[n + 1].at # "follow"
    BY <1>1, <1>4
  <2>10. o2[Len(o2)] = d.to
    BY <1>9
  <2>11. WalkGoesOn(f, o2, s2)
    BY <2>8, <2>9, <2>10 DEF WalkGoesOn
  <2>. QED
    BY <2>7, <2>11
<1>11. Chain(f) => Lined(f, o2, s2)
  BY <1>0, <1>10 DEF Lined
<1>. QED
  BY <1>1, <1>7, <1>8, <1>11 DEF PathSound

\* How a port is followed, by the block and the port.
LEMMA PortsFollowed ==
  ASSUME NEW f, WellDrawn(f), NEW c \in Range(f.conns)
  PROVE  /\ f.type[c.from] \in Loops => c.port \in {"out_body", "out_done"}
         /\ f.type[c.from] \in TwoWays => c.port \in Branches
         /\ f.type[c.from] \notin Loops \union TwoWays => c.port = "out"
         /\ c.port = "out_body" => Factor(f, c) = IF IsFirst(f, c) THEN Rounds ELSE 0
         /\ c.port = "out_done" /\ f.type[c.from] = "loop" => Factor(f, c) = IF IsFirst(f, c) THEN 1 ELSE 0
         /\ c.port # "out_body" /\ ~(c.port = "out_done" /\ f.type[c.from] = "loop") => Factor(f, c) = 1
<1>1. c.port \in PortsOf(f.type[c.from])
  BY OneInto
<1>2. /\ f.type[c.from] \in Loops => c.port \in {"out_body", "out_done"}
      /\ f.type[c.from] \in TwoWays => c.port \in Branches
      /\ f.type[c.from] \notin Loops \union TwoWays => c.port = "out"
  BY <1>1 DEF PortsOf, Loops, TwoWays, Branches
<1>3. /\ c.port = "out_body" => Factor(f, c) = IF IsFirst(f, c) THEN Rounds ELSE 0
      /\ c.port = "out_done" /\ f.type[c.from] = "loop" => Factor(f, c) = IF IsFirst(f, c) THEN 1 ELSE 0
      /\ c.port # "out_body" /\ ~(c.port = "out_done" /\ f.type[c.from] = "loop") => Factor(f, c) = 1
  BY DEF Factor, IsFirst
<1>. QED
  BY <1>2, <1>3

\* The first target of a port, and the connection that leads to it.
LEMMA TheFirst ==
  ASSUME NEW f, WellDrawn(f), NEW id, NEW port
  PROVE  /\ FirstOf(TargetsOf(f, id, port)) \in Seq(Blocks(f))
         /\ \A i, j \in DOMAIN FirstOf(TargetsOf(f, id, port)) : i = j
         /\ \A c \in Range(f.conns) : c.from = id /\ c.port = port =>
              TargetsOf(f, id, port) # <<>> /\ (IsFirst(f, c) <=> c.to \in Range(FirstOf(TargetsOf(f, id, port))))
         /\ \A t \in Range(FirstOf(TargetsOf(f, id, port))) :
              \E c \in Range(f.conns) : c.from = id /\ c.port = port /\ c.to = t /\ IsFirst(f, c)
         /\ FirstOf(TargetsOf(f, id, port)) # <<>> =>
              Head(FirstOf(TargetsOf(f, id, port))) \in Range(FirstOf(TargetsOf(f, id, port)))
         /\ TargetsOf(f, id, port) = <<>> <=> FirstOf(TargetsOf(f, id, port)) = <<>>
<1>. DEFINE ts == TargetsOf(f, id, port)
<1>1. /\ ts \in Seq(Blocks(f))
      /\ \A c \in Range(f.conns) : c.from = id /\ c.port = port => c.to \in Range(ts)
      /\ \A t \in Range(ts) : \E c \in Range(f.conns) : c.from = id /\ c.port = port /\ c.to = t
  BY Targets
<1>2. \A c \in Range(f.conns) : c.from = id /\ c.port = port => (IsFirst(f, c) <=> Head(ts) = c.to)
  BY DEF IsFirst
<1>. HIDE DEF ts
<1>3. CASE ts = <<>>
  <2>1. FirstOf(ts) = <<>> /\ Range(<<>>) = {} /\ DOMAIN <<>> = {} /\ <<>> \in Seq(Blocks(f))
    BY <1>3 DEF FirstOf, Range
  <2>2. \A c \in Range(f.conns) : ~(c.from = id /\ c.port = port)
    BY <1>1, <1>3, <2>1
  <2>. QED
    BY <1>3, <2>1, <2>2 DEF ts
<1>4. CASE ts # <<>>
  <2>1. Head(ts) \in Range(ts) /\ Head(ts) \in Blocks(f) /\ FirstOf(ts) = <<Head(ts)>>
    <3>1. Len(ts) \in Nat \ {0} /\ Head(ts) = ts[1] /\ 1 \in DOMAIN ts /\ ts[1] \in Blocks(f)
      BY <1>1, <1>4
    <3>. QED
      BY <1>4, <3>1 DEF FirstOf, Range
  <2>. DEFINE h == Head(ts)
  <2>2. <<h>> \in Seq(Blocks(f)) /\ Range(<<h>>) = {h} /\ Head(<<h>>) = h /\ <<h>> # <<>> /\ \A i, j \in DOMAIN <<h>> : i = j
    BY <2>1 DEF Range
  <2>. HIDE DEF h
  <2>3. FirstOf(ts) = <<h>> /\ h \in Range(ts) /\ \A c \in Range(f.conns) : c.from = id /\ c.port = port => (IsFirst(f, c) <=> h = c.to)
    BY <1>2, <2>1 DEF h
  <2>. QED
    BY <1>1, <1>4, <2>2, <2>3 DEF ts
<1>. QED
  BY <1>3, <1>4

\* What becomes of a call when it goes on, and the call it makes.
FollowingOn(x, todo) == [x EXCEPT !.at = "follow", !.todo = todo]
Looping(x, todo) == [x EXCEPT !.at = "loop", !.todo = todo, !.left = Rounds]
RoundLess(x) == [x EXCEPT !.left = x.left - 1]
TargetLess(x) == [x EXCEPT !.todo = Tail(x.todo)]
PageFrame(f, id) == Frame(id, f.type[id], FALSE)

\* A call comes to the connections it follows.
LEMMA ComesToFollow ==
  ASSUME NEW f, WellDrawn(f), NEW o, NEW s, PathSound(f, o, s), Plain(s), s # <<>>,
         ~Last(s).sub, Last(s).at # "follow", NEW port \in Ports, NEW todo \in Seq(Blocks(f)),
         \A i, j \in DOMAIN todo : todo[i] = todo[j] => i = j,
         \A t \in Range(todo) : \E c \in Range(f.conns) :
           c.from = Last(s).node /\ c.to = t /\ c.port = port /\ (port \notin Branches => Factor(f, c) = 1),
         \A c \in Range(f.conns) : c.from = Last(s).node /\ c.port \notin Branches =>
           TakenBy(f, Last(s), c) = IF c.to \in Range(todo) THEN 0 ELSE Factor(f, c),
         \A p \in Forks(f) : p[1].from = Last(s).node => p[1].to \in Range(todo) \/ p[2].to \in Range(todo),
         \A c \in Range(f.conns) : c.from = Last(s).node /\ c.port = "out" => c.to \in Range(todo)
  PROVE  PathSound(f, o, WithLast(s, FollowingOn(Last(s), todo)))
<1>. DEFINE x == Last(s)
            y == [x EXCEPT !.at = "follow", !.todo = todo]
<1>1. FrameSound(f, x) /\ PageCall(f, x)
  <2>1. StackSound(f, s)
    BY DEF PathSound
  <2>2. Len(s) \in 1..Len(s) /\ x = s[Len(s)] /\ \A i \in 1..Len(s) : FrameSound(f, s[i]) /\ PageCall(f, s[i])
    BY <2>1, PageOnly
  <2>. QED
    BY <2>2
<1>. HIDE DEF x
<1>2. IsFrame(y) /\ y.node = x.node /\ y.type = x.type /\ y.sub = x.sub /\ y.at = "follow" /\ y.todo = todo
  <2>1. PICK w : w = y
    OBVIOUS
  <2>2. IsFrame(x)
    BY <1>1 DEF FrameSound
  <2>3. IsFrame(w) /\ w.node = x.node /\ w.type = x.type /\ w.sub = x.sub /\ w.at = "follow" /\ w.todo = todo
    BY <2>1, <2>2 DEF IsFrame
  <2>. HIDE DEF y
  <2>. QED
    BY <2>1, <2>3
<1>. HIDE DEF y
<1>3. ~x.sub /\ x.sub \in BOOLEAN
  BY <1>1 DEF FrameSound, x
<1>4. PageCall(f, y)
  <2>1. x.node \in Blocks(f) /\ x.type = f.type[x.node]
    BY <1>1 DEF PageCall
  <2>2. \A t \in Range(todo) : \E c \in Range(f.conns) :
          c.from = x.node /\ c.to = t /\ c.port = port /\ (port \notin Branches => Factor(f, c) = 1)
    BY DEF x
  <2>. QED
    BY <1>2, <2>1, <2>2 DEF PageCall
<1>5. FrameSound(f, y) /\ ~y.sub
  BY <1>2, <1>3, <1>4 DEF FrameSound
<1>6. \A c \in Range(f.conns) : c.from = x.node /\ c.port \notin Branches => TakenBy(f, y, c) = TakenBy(f, x, c)
  <2>1. \A c \in Range(f.conns) : TakenBy(f, y, c) = IF c.to \in Range(todo) THEN 0 ELSE Factor(f, c)
    BY <1>2 DEF TakenBy
  <2>. QED
    BY <2>1 DEF x
<1>7. \A p \in Forks(f) : p[1].from = x.node => ~HasParted(y, p)
  BY <1>2 DEF HasParted, x
<1>8. \A c \in Range(f.conns) : c.from = x.node /\ c.port = "out" => c.to \in Range(y.todo)
  BY <1>2 DEF x
<1>9. PathSound(f, o, WithLast(s, y))
  BY <1>2, <1>5, <1>6, <1>7, <1>8, TopGoesOn DEF x
<1>. QED
  BY <1>9 DEF x, y, FollowingOn

\* The innermost call of the page is one of a block of the graph.
LEMMA TopCall ==
  ASSUME NEW f, NEW o, NEW s, PathSound(f, o, s), Plain(s), s # <<>>, ~Last(s).sub
  PROVE  /\ FrameSound(f, Last(s)) /\ PageCall(f, Last(s)) /\ IsFrame(Last(s)) /\ Last(s).sub \in BOOLEAN
         /\ Last(s).node \in Blocks(f) /\ Last(s).type = f.type[Last(s).node] /\ Last(s).at \in {"work", "loop", "follow"}
<1>1. StackSound(f, s)
  BY DEF PathSound
<1>2. Len(s) \in 1..Len(s) /\ Last(s) = s[Len(s)] /\ \A i \in 1..Len(s) : FrameSound(f, s[i]) /\ PageCall(f, s[i])
  BY <1>1, PageOnly
<1>3. FrameSound(f, Last(s)) /\ PageCall(f, Last(s))
  BY <1>2
<1>. QED
  BY <1>3 DEF FrameSound, PageCall

\* A block has done its work and leaves by a port.
LEMMA WorkFollows ==
  ASSUME NEW f, WellDrawn(f), NEW o, NEW s, PathSound(f, o, s), Plain(s), s # <<>>,
         ~Last(s).sub, Last(s).at = "work", NEW port,
         \/ Last(s).type \notin Loops \union TwoWays /\ port = "out"
         \/ Last(s).type \in TwoWays /\ port \in Branches
         \/ Last(s).type = "fuzz" /\ port = "out_done" /\ TargetsOf(f, Last(s).node, "out_body") = <<>>
  PROVE  PathSound(f, o, WithLast(s, FollowingOn(Last(s), TargetsOf(f, Last(s).node, port))))
<1>. DEFINE x == Last(s)
            todo == TargetsOf(f, x.node, port)
<1>1. /\ todo \in Seq(Blocks(f))
      /\ \A i, j \in DOMAIN todo : todo[i] = todo[j] => i = j
      /\ \A c \in Range(f.conns) : c.from = x.node /\ c.port = port => c.to \in Range(todo)
      /\ \A t \in Range(todo) : \E c \in Range(f.conns) : c.from = x.node /\ c.port = port /\ c.to = t
  BY Targets
<1>2. x.type = f.type[x.node]
  BY TopCall
<1>. HIDE DEF x, todo
<1>3. /\ port \in Ports /\ port # "out_body" /\ ~(port = "out_done" /\ x.type = "loop")
      /\ \/ x.type \notin Loops \union TwoWays /\ port = "out"
         \/ x.type \in TwoWays /\ port \in Branches
         \/ x.type = "fuzz" /\ port = "out_done" /\ TargetsOf(f, x.node, "out_body") = <<>>
  BY DEF Ports, Branches, x, Loops, TwoWays
<1>4. \A c \in Range(f.conns) : c.from = x.node /\ c.port = port => Factor(f, c) = 1
  BY <1>2, <1>3, PortsFollowed
<1>5. ASSUME NEW c \in Range(f.conns), c.from = x.node, c.port \notin Branches
      PROVE  c.to \in Range(todo)
  <2>1. f.type[c.from] = x.type
    BY <1>2, <1>5
  <2>2. CASE x.type \notin Loops \union TwoWays
    BY <1>1, <1>3, <1>5, <2>1, <2>2, PortsFollowed DEF Loops
  <2>3. CASE x.type \in TwoWays
    BY <1>5, <2>1, <2>3, PortsFollowed
  <2>4. CASE x.type \in Loops
    <3>1. port = "out_done" /\ TargetsOf(f, x.node, "out_body") = <<>>
      BY <1>3, <2>4 DEF Loops, TwoWays
    <3>2. c.port # "out_body"
      BY <1>5, <3>1, TheFirst
    <3>. QED
      BY <1>1, <1>5, <2>1, <2>4, <3>1, <3>2, PortsFollowed
  <2>. QED
    BY <2>2, <2>3, <2>4
<1>6. \A c \in Range(f.conns) : c.from = x.node /\ c.port \notin Branches =>
        TakenBy(f, x, c) = IF c.to \in Range(todo) THEN 0 ELSE Factor(f, c)
  <2>1. \A c \in Range(f.conns) : TakenBy(f, x, c) = 0
    BY DEF TakenBy, x
  <2>. QED
    BY <1>5, <2>1
<1>7. ASSUME NEW p \in Forks(f), p[1].from = x.node
      PROVE  p[1].to \in Range(todo) \/ p[2].to \in Range(todo)
  <2>1. p[1] \in Range(f.conns) /\ p[2] \in Range(f.conns) /\ p[2].from = x.node /\ p[1].port = "out_true" /\ p[2].port = "out_false"
    BY <1>7 DEF Forks
  <2>2. x.type \in TwoWays
    <3>1. x.type \in Loops => p[1].port \in {"out_body", "out_done"}
      BY <1>2, <1>7, <2>1, PortsFollowed
    <3>2. x.type \notin Loops \union TwoWays => p[1].port = "out"
      BY <1>2, <1>7, <2>1, PortsFollowed
    <3>. QED
      BY <2>1, <3>1, <3>2
  <2>3. port \in Branches
    BY <1>3, <2>2 DEF TwoWays, Loops
  <2>. QED
    BY <1>1, <1>7, <2>1, <2>3 DEF Branches
<1>8. \A c \in Range(f.conns) : c.from = x.node /\ c.port = "out" => c.to \in Range(todo)
  BY <1>5 DEF Branches
<1>9. \A t \in Range(todo) : \E c \in Range(f.conns) :
        c.from = x.node /\ c.to = t /\ c.port = port /\ (port \notin Branches => Factor(f, c) = 1)
  BY <1>1, <1>4
<1>10. PathSound(f, o, WithLast(s, FollowingOn(x, todo)))
  BY <1>1, <1>3, <1>6, <1>7, <1>8, <1>9, ComesToFollow DEF x
<1>. QED
  BY <1>10 DEF x, todo

\* The rounds of a loop are over.
LEMMA LoopEnds ==
  ASSUME NEW f, WellDrawn(f), NEW o, NEW s, PathSound(f, o, s), Plain(s), s # <<>>,
         ~Last(s).sub, Last(s).at = "loop", ~(Last(s).left > 0)
  PROVE  PathSound(f, o, WithLast(s, FollowingOn(Last(s),
           IF Last(s).type = "loop" THEN FirstOf(TargetsOf(f, Last(s).node, "out_done")) ELSE TargetsOf(f, Last(s).node, "out_done"))))
<1>. DEFINE x == Last(s)
            done == TargetsOf(f, x.node, "out_done")
            todo == IF x.type = "loop" THEN FirstOf(done) ELSE done
<1>1. /\ done \in Seq(Blocks(f))
      /\ \A i, j \in DOMAIN done : done[i] = done[j] => i = j
      /\ \A c \in Range(f.conns) : c.from = x.node /\ c.port = "out_done" => c.to \in Range(done)
      /\ \A t \in Range(done) : \E c \in Range(f.conns) : c.from = x.node /\ c.port = "out_done" /\ c.to = t
  BY Targets
<1>2. /\ FirstOf(done) \in Seq(Blocks(f))
      /\ \A i, j \in DOMAIN FirstOf(done) : i = j
      /\ \A c \in Range(f.conns) : c.from = x.node /\ c.port = "out_done" =>
           (IsFirst(f, c) <=> c.to \in Range(FirstOf(done)))
      /\ \A t \in Range(FirstOf(done)) :
           \E c \in Range(f.conns) : c.from = x.node /\ c.port = "out_done" /\ c.to = t /\ IsFirst(f, c)
  BY TheFirst
<1>3. x.type = f.type[x.node] /\ x.type \in Loops /\ x.at = "loop" /\ x.left \in 0..Rounds /\ ~(x.left > 0)
  BY TopCall DEF PageCall
<1>4. x.left = 0 /\ Rounds \in Nat
  BY <1>3, RunAssumption
<1>. HIDE DEF x, done
<1>5. todo \in Seq(Blocks(f)) /\ \A i, j \in DOMAIN todo : todo[i] = todo[j] => i = j
  BY <1>1, <1>2
<1>6. \A t \in Range(todo) : \E c \in Range(f.conns) :
        c.from = x.node /\ c.to = t /\ c.port = "out_done" /\ ("out_done" \notin Branches => Factor(f, c) = 1)
  <2>1. CASE x.type = "loop"
    <3>1. \A c \in Range(f.conns) : c.from = x.node /\ c.port = "out_done" /\ IsFirst(f, c) => Factor(f, c) = 1
      BY <1>3, <2>1, PortsFollowed
    <3>. QED
      BY <1>2, <2>1, <3>1
  <2>2. CASE x.type # "loop"
    <3>1. \A c \in Range(f.conns) : c.from = x.node /\ c.port = "out_done" => Factor(f, c) = 1
      BY <1>3, <2>2, PortsFollowed
    <3>. QED
      BY <1>1, <2>2, <3>1
  <2>. QED
    BY <2>1, <2>2
<1>7. ASSUME NEW c \in Range(f.conns), c.from = x.node, c.port \notin Branches
      PROVE  TakenBy(f, x, c) = IF c.to \in Range(todo) THEN 0 ELSE Factor(f, c)
  <2>1. c.port \in {"out_body", "out_done"}
    BY <1>3, <1>7, PortsFollowed
  <2>2. TakenBy(f, x, c) = IF c.port = "out_body" /\ IsFirst(f, c) THEN Rounds ELSE 0
    BY <1>3, <1>4 DEF TakenBy
  <2>3. CASE c.port = "out_body"
    <3>1. c.to \notin Range(todo)
      <4>1. SUFFICES ASSUME c.to \in Range(todo) PROVE FALSE
        OBVIOUS
      <4>2. PICK d \in Range(f.conns) : d.port = "out_done" /\ d.to = c.to
        BY <1>6, <4>1
      <4>. QED
        BY <2>3, <4>2, OneInto
    <3>2. Factor(f, c) = IF IsFirst(f, c) THEN Rounds ELSE 0
      BY <2>3, PortsFollowed
    <3>. QED
      BY <2>2, <2>3, <3>1, <3>2
  <2>4. CASE c.port = "out_done"
    <3>1. TakenBy(f, x, c) = 0
      BY <2>2, <2>4
    <3>2. CASE x.type = "loop"
      <4>1. Factor(f, c) = IF IsFirst(f, c) THEN 1 ELSE 0
        BY <1>3, <1>7, <2>4, <3>2, PortsFollowed
      <4>2. IsFirst(f, c) <=> c.to \in Range(todo)
        BY <1>2, <1>7, <2>4, <3>2
      <4>. QED
        BY <3>1, <4>1, <4>2
    <3>3. CASE x.type # "loop"
      BY <1>1, <1>7, <2>4, <3>1, <3>3
    <3>. QED
      BY <3>2, <3>3
  <2>. QED
    BY <2>1, <2>3, <2>4
<1>8. \A c \in Range(f.conns) : c.from = x.node => c.port \in {"out_body", "out_done"}
  BY <1>3, PortsFollowed
<1>9. \A p \in Forks(f) : p[1].from # x.node
  BY <1>8 DEF Forks
<1>10. ~x.sub /\ x.at # "follow" /\ "out_done" \in Ports
  BY <1>3 DEF x, Ports
<1>. HIDE DEF todo
<1>11. PathSound(f, o, WithLast(s, FollowingOn(x, todo)))
  BY <1>5, <1>6, <1>7, <1>8, <1>9, <1>10, ComesToFollow DEF x
<1>. QED
  BY <1>11 DEF x, todo, done

LEMMA LoopStarts ==
  ASSUME NEW f, WellDrawn(f), NEW o, NEW s, PathSound(f, o, s), Plain(s), s # <<>>,
         ~Last(s).sub, Last(s).at = "work", Last(s).type \in Loops
  PROVE  PathSound(f, o, WithLast(s, Looping(Last(s), FirstOf(TargetsOf(f, Last(s).node, "out_body")))))
<1>. DEFINE x == Last(s)
            todo == FirstOf(TargetsOf(f, x.node, "out_body"))
            y == [x EXCEPT !.at = "loop", !.todo = todo, !.left = Rounds]
<1>1. /\ IsFrame(x) /\ x.sub \in BOOLEAN /\ ~x.sub /\ x.at = "work" /\ x.type \in Loops
      /\ x.node \in Blocks(f) /\ x.type = f.type[x.node]
  BY TopCall
<1>. HIDE DEF x, todo
<1>2. /\ IsFrame(y) /\ y.node = x.node /\ y.type = x.type /\ y.sub = x.sub
      /\ y.at = "loop" /\ y.todo = todo /\ y.left = Rounds
  <2>1. PICK w : w = y
    OBVIOUS
  <2>2. /\ IsFrame(w) /\ w.node = x.node /\ w.type = x.type /\ w.sub = x.sub
        /\ w.at = "loop" /\ w.todo = todo /\ w.left = Rounds
    BY <1>1, <2>1 DEF IsFrame
  <2>. HIDE DEF y
  <2>. QED
    BY <2>1, <2>2
<1>. HIDE DEF y
<1>3. PageCall(f, y)
  <2>1. Rounds \in 0..Rounds
    BY RunAssumption
  <2>. QED
    BY <1>1, <1>2, <2>1 DEF PageCall, todo
<1>4. FrameSound(f, y) /\ ~y.sub /\ y.node = x.node
  BY <1>1, <1>2, <1>3 DEF FrameSound
<1>5. \A c \in Range(f.conns) : TakenBy(f, y, c) = TakenBy(f, x, c)
  <2>1. \A c \in Range(f.conns) : TakenBy(f, x, c) = 0
    BY <1>1 DEF TakenBy
  <2>2. Rounds - Rounds = 0
    BY RunAssumption
  <2>3. \A c \in Range(f.conns) : TakenBy(f, y, c) = 0
    BY <1>2, <2>2 DEF TakenBy
  <2>. QED
    BY <2>1, <2>3
<1>6. \A p \in Forks(f) : ~HasParted(y, p)
  BY <1>2 DEF HasParted
<1>7. y.at # "follow" /\ x.at # "follow"
  BY <1>1, <1>2
<1>8. PathSound(f, o, WithLast(s, y))
  BY <1>1, <1>4, <1>5, <1>6, <1>7, TopGoesOn DEF x
<1>. QED
  BY <1>8 DEF x, y, todo, Looping

\* A round of a loop in whose body nothing is drawn.
LEMMA RoundWithout ==
  ASSUME NEW f, WellDrawn(f), NEW o, NEW s, PathSound(f, o, s), Plain(s), s # <<>>,
         ~Last(s).sub, Last(s).at = "loop", Last(s).left > 0, Last(s).todo = <<>>
  PROVE  PathSound(f, o, WithLast(s, RoundLess(Last(s))))
<1>. DEFINE x == Last(s)
            y == [x EXCEPT !.left = x.left - 1]
<1>1. /\ IsFrame(x) /\ x.sub \in BOOLEAN /\ ~x.sub /\ x.at = "loop" /\ x.type \in Loops
      /\ x.node \in Blocks(f) /\ x.type = f.type[x.node]
      /\ x.left \in 0..Rounds /\ x.left > 0 /\ x.todo = FirstOf(TargetsOf(f, x.node, "out_body")) /\ x.todo = <<>>
  BY TopCall DEF PageCall
<1>. HIDE DEF x
<1>2. /\ IsFrame(y) /\ y.node = x.node /\ y.type = x.type /\ y.sub = x.sub
      /\ y.at = "loop" /\ y.todo = x.todo /\ y.left = x.left - 1
  <2>1. PICK w : w = y
    OBVIOUS
  <2>2. /\ IsFrame(w) /\ w.node = x.node /\ w.type = x.type /\ w.sub = x.sub
        /\ w.at = "loop" /\ w.todo = x.todo /\ w.left = x.left - 1
    BY <1>1, <2>1 DEF IsFrame
  <2>. HIDE DEF y
  <2>. QED
    BY <2>1, <2>2
<1>. HIDE DEF y
<1>3. PageCall(f, y)
  <2>1. x.left - 1 \in 0..Rounds
    BY <1>1, RunAssumption
  <2>. QED
    BY <1>1, <1>2, <2>1 DEF PageCall
<1>4. FrameSound(f, y) /\ ~y.sub /\ y.node = x.node
  BY <1>1, <1>2, <1>3 DEF FrameSound
<1>5. \A c \in Range(f.conns) : c.from = x.node => c.port # "out_body" /\ c.port # "out_true"
  <2>1. \A c \in Range(f.conns) : c.from = x.node => c.port # "out_body"
    BY <1>1, TheFirst
  <2>2. \A c \in Range(f.conns) : c.from = x.node => c.port \in {"out_body", "out_done"}
    BY <1>1, PortsFollowed
  <2>. QED
    BY <2>1, <2>2
<1>6. \A c \in Range(f.conns) : c.from = x.node => TakenBy(f, y, c) = TakenBy(f, x, c)
  BY <1>1, <1>2, <1>5 DEF TakenBy
<1>7. \A p \in Forks(f) : ~HasParted(y, p)
  BY <1>2 DEF HasParted
<1>8. y.at # "follow" /\ x.at # "follow"
  BY <1>1, <1>2
<1>9. PathSound(f, o, WithLast(s, y))
  BY <1>1, <1>4, <1>6, <1>7, <1>8, TopGoesOn DEF x
<1>. QED
  BY <1>9 DEF x, y, RoundLess

\* A round of a loop enters the body.
LEMMA RoundEnters ==
  ASSUME NEW f, WellDrawn(f), NEW o, NEW s, PathSound(f, o, s), Plain(s), s # <<>>,
         ~Last(s).sub, Last(s).at = "loop", Last(s).left > 0, Last(s).todo # <<>>
  PROVE  /\ Head(Last(s).todo) \in Blocks(f)
         /\ PathSound(f, Append(o, Head(Last(s).todo)),
              Append(WithLast(s, RoundLess(Last(s))),
                     PageFrame(f, Head(Last(s).todo))))
<1>. DEFINE x == Last(s)
            y == [x EXCEPT !.left = x.left - 1]
            h == Head(x.todo)
            z == Frame(h, f.type[h], FALSE)
<1>1. /\ IsFrame(x) /\ x.sub \in BOOLEAN /\ ~x.sub /\ x.at = "loop" /\ x.type \in Loops
      /\ x.node \in Blocks(f) /\ x.type = f.type[x.node]
      /\ x.left \in 0..Rounds /\ x.left > 0 /\ x.todo = FirstOf(TargetsOf(f, x.node, "out_body")) /\ x.todo # <<>>
  BY TopCall DEF PageCall
<1>. HIDE DEF x
<1>2. /\ IsFrame(y) /\ y.node = x.node /\ y.type = x.type /\ y.sub = x.sub
      /\ y.at = "loop" /\ y.todo = x.todo /\ y.left = x.left - 1
  <2>1. PICK w : w = y
    OBVIOUS
  <2>2. /\ IsFrame(w) /\ w.node = x.node /\ w.type = x.type /\ w.sub = x.sub
        /\ w.at = "loop" /\ w.todo = x.todo /\ w.left = x.left - 1
    BY <1>1, <2>1 DEF IsFrame
  <2>. HIDE DEF y
  <2>. QED
    BY <2>1, <2>2
<1>. HIDE DEF y
<1>3. PageCall(f, y)
  <2>1. x.left - 1 \in 0..Rounds
    BY <1>1, RunAssumption
  <2>. QED
    BY <1>1, <1>2, <2>1 DEF PageCall
<1>4. FrameSound(f, y) /\ ~y.sub /\ y.node = x.node
  BY <1>1, <1>2, <1>3 DEF FrameSound
<1>5. h \in Range(x.todo)
  BY <1>1, TheFirst
<1>6. PICK d \in Range(f.conns) : d.from = x.node /\ d.port = "out_body" /\ d.to = h /\ IsFirst(f, d)
  BY <1>1, <1>5, TheFirst
<1>. HIDE DEF h
<1>7. h \in Blocks(f)
  BY <1>6, OneInto
<1>8. FrameSound(f, z) /\ ~z.sub /\ z.node = h /\ z.at = "work"
  BY <1>7 DEF Frame, FrameSound, IsFrame, PageCall
<1>. HIDE DEF z
<1>9. ASSUME NEW c \in Range(f.conns), c.from = x.node
      PROVE  TakenBy(f, x, c) \in Int /\ TakenBy(f, y, c) = TakenBy(f, x, c) + IF c = d THEN 1 ELSE 0
  <2>1. (c.port = "out_body" /\ IsFirst(f, c)) <=> c = d
    <3>1. ASSUME c.port = "out_body", IsFirst(f, c) PROVE c = d
      <4>1. c.to = d.to
        BY <1>6, <1>9, <3>1 DEF IsFirst
      <4>. QED
        BY <4>1, OneInto
    <3>. QED
      BY <1>6, <3>1
  <2>2. TakenBy(f, x, c) = IF c = d THEN Rounds - x.left ELSE 0
    BY <1>1, <2>1 DEF TakenBy
  <2>3. TakenBy(f, y, c) = IF c = d THEN Rounds - (x.left - 1) ELSE 0
    BY <1>2, <2>1 DEF TakenBy
  <2>4. Rounds \in Nat /\ x.left \in Nat
    BY <1>1, RunAssumption
  <2>5. Rounds - x.left \in Int /\ Rounds - (x.left - 1) = (Rounds - x.left) + 1
    BY <2>4
  <2>. QED
    BY <2>2, <2>3, <2>5
<1>10. \A p \in Forks(f) : p[1].from # x.node
  <2>1. \A c \in Range(f.conns) : c.from = x.node => c.port \in {"out_body", "out_done"}
    BY <1>1, PortsFollowed
  <2>. QED
    BY <2>1 DEF Forks
<1>11. ~Chain(f)
  BY <1>6 DEF Chain
<1>12. Pushed(s, y, z, Append(WithLast(s, y), z))
  BY PutAndAdded
<1>. DEFINE s2 == Append(WithLast(s, y), z)
<1>. HIDE DEF s2
<1>13. PathSound(f, Append(o, d.to), s2)
  <2>1. Pushed(s, y, z, s2)
    BY <1>12 DEF s2
  <2>. QED
    BY <1>1, <1>4, <1>6, <1>8, <1>9, <1>10, <1>11, <2>1, BlockEntered DEF x
<1>. QED
  BY <1>6, <1>7, <1>13 DEF x, y, z, h, s2, RoundLess, PageFrame

\* What is left after the first of different things.
LEMMA TheRest ==
  ASSUME NEW X, NEW s \in Seq(X), s # <<>>, \A i, j \in DOMAIN s : s[i] = s[j] => i = j
  PROVE  /\ Head(s) \in X /\ Head(s) \in Range(s) /\ Tail(s) \in Seq(X)
         /\ \A i, j \in DOMAIN Tail(s) : Tail(s)[i] = Tail(s)[j] => i = j
         /\ \A t : t \in Range(Tail(s)) <=> t \in Range(s) /\ t # Head(s)
         /\ (\A t \in Range(s) : t = Head(s)) => Tail(s) = <<>>
<1>. DEFINE n == Len(s)
            u == Tail(s)
<1>1. n \in Nat \ {0} /\ DOMAIN s = 1..n /\ Head(s) = s[1] /\ 1 \in 1..n /\ \A i \in 1..n : s[i] \in X
  OBVIOUS
<1>2. u \in Seq(X) /\ Len(u) = n - 1 /\ DOMAIN u = 1..(n - 1) /\ \A i \in 1..(n - 1) : u[i] = s[i + 1]
  OBVIOUS
<1>. HIDE DEF n, u
<1>3. \A i \in 1..(n - 1) : i + 1 \in 1..n /\ i + 1 # 1
  BY <1>1
<1>4. \A i \in 1..n : i = 1 \/ (i - 1 \in 1..(n - 1) /\ (i - 1) + 1 = i)
  BY <1>1
<1>5. \A i, j \in DOMAIN u : u[i] = u[j] => i = j
  <2>1. SUFFICES ASSUME NEW i \in 1..(n - 1), NEW j \in 1..(n - 1), u[i] = u[j] PROVE i = j
    BY <1>2
  <2>2. s[i + 1] = s[j + 1] /\ i + 1 \in DOMAIN s /\ j + 1 \in DOMAIN s
    BY <1>1, <1>2, <1>3, <2>1
  <2>3. i + 1 = j + 1
    BY <2>2
  <2>. QED
    BY <1>1, <2>3
<1>6. ASSUME NEW t PROVE t \in Range(u) <=> t \in Range(s) /\ t # Head(s)
  <2>1. ASSUME t \in Range(u) PROVE t \in Range(s) /\ t # Head(s)
    <3>1. PICK i \in 1..(n - 1) : u[i] = t
      BY <1>2, <2>1 DEF Range
    <3>2. s[i + 1] = t /\ i + 1 \in DOMAIN s /\ i + 1 # 1
      BY <1>1, <1>2, <1>3, <3>1
    <3>. QED
      BY <1>1, <3>2 DEF Range
  <2>2. ASSUME t \in Range(s), t # Head(s) PROVE t \in Range(u)
    <3>1. PICK i \in 1..n : s[i] = t
      BY <1>1, <2>2 DEF Range
    <3>2. i - 1 \in 1..(n - 1) /\ (i - 1) + 1 = i
      BY <1>1, <1>4, <2>2, <3>1
    <3>3. u[i - 1] = t /\ i - 1 \in DOMAIN u
      BY <1>2, <3>1, <3>2
    <3>. QED
      BY <3>3 DEF Range
  <2>. QED
    BY <2>1, <2>2
<1>7. ASSUME \A t \in Range(s) : t = Head(s) PROVE u = <<>>
  <2>1. Range(u) = {}
    BY <1>6, <1>7
  <2>2. 1..(n - 1) = {}
    BY <1>2, <2>1 DEF Range
  <2>3. n - 1 = 0
    BY <1>1, <2>2
  <2>. QED
    BY <1>2, <2>3
<1>8. Head(s) \in X /\ Head(s) \in Range(s)
  BY <1>1 DEF Range
<1>. QED
  BY <1>2, <1>5, <1>6, <1>7, <1>8 DEF u

\* A connection of the port is followed.
LEMMA FollowEnters ==
  ASSUME NEW f, WellDrawn(f), NEW o, NEW s, PathSound(f, o, s), Plain(s), s # <<>>,
         ~Last(s).sub, Last(s).at = "follow", Last(s).todo # <<>>
  PROVE  /\ Head(Last(s).todo) \in Blocks(f)
         /\ PathSound(f, Append(o, Head(Last(s).todo)),
              Append(WithLast(s, TargetLess(Last(s))),
                     PageFrame(f, Head(Last(s).todo))))
<1>. DEFINE x == Last(s)
            y == [x EXCEPT !.todo = Tail(x.todo)]
            h == Head(x.todo)
            z == Frame(h, f.type[h], FALSE)
<1>1. /\ IsFrame(x) /\ x.sub \in BOOLEAN /\ ~x.sub /\ x.at = "follow" /\ x.todo # <<>>
      /\ x.node \in Blocks(f) /\ x.type = f.type[x.node]
      /\ x.todo \in Seq(Blocks(f)) /\ \A i, j \in DOMAIN x.todo : x.todo[i] = x.todo[j] => i = j
  BY TopCall DEF PageCall
<1>2. PICK port \in Ports : \A t \in Range(x.todo) : \E c \in Range(f.conns) :
            c.from = x.node /\ c.to = t /\ c.port = port /\ (port \notin Branches => Factor(f, c) = 1)
  BY TopCall DEF PageCall
<1>. HIDE DEF x
<1>3. /\ h \in Blocks(f) /\ h \in Range(x.todo) /\ Tail(x.todo) \in Seq(Blocks(f))
      /\ \A i, j \in DOMAIN Tail(x.todo) : Tail(x.todo)[i] = Tail(x.todo)[j] => i = j
      /\ \A t : t \in Range(Tail(x.todo)) <=> t \in Range(x.todo) /\ t # h
      /\ (\A t \in Range(x.todo) : t = h) => Tail(x.todo) = <<>>
  BY <1>1, TheRest
<1>4. /\ IsFrame(y) /\ y.node = x.node /\ y.type = x.type /\ y.sub = x.sub
      /\ y.at = "follow" /\ y.todo = Tail(x.todo)
  <2>1. PICK w : w = y
    OBVIOUS
  <2>2. /\ IsFrame(w) /\ w.node = x.node /\ w.type = x.type /\ w.sub = x.sub
        /\ w.at = "follow" /\ w.todo = Tail(x.todo)
    BY <1>1, <2>1 DEF IsFrame
  <2>. HIDE DEF y
  <2>. QED
    BY <2>1, <2>2
<1>. HIDE DEF y, h
<1>5. FrameSound(f, y) /\ ~y.sub /\ y.node = x.node
  <2>1. \A t \in Range(y.todo) : \E c \in Range(f.conns) :
            c.from = y.node /\ c.to = t /\ c.port = port /\ (port \notin Branches => Factor(f, c) = 1)
    BY <1>2, <1>3, <1>4
  <2>2. PageCall(f, y)
    BY <1>1, <1>3, <1>4, <2>1 DEF PageCall
  <2>. QED
    BY <1>1, <1>4, <2>2 DEF FrameSound
<1>6. PICK d \in Range(f.conns) : d.from = x.node /\ d.to = h /\ d.port = port /\ (port \notin Branches => Factor(f, d) = 1)
  BY <1>2, <1>3
<1>7. FrameSound(f, z) /\ ~z.sub /\ z.node = h /\ z.at = "work"
  BY <1>3 DEF Frame, FrameSound, IsFrame, PageCall
<1>. HIDE DEF z
<1>8. \A c \in Range(f.conns) : c.to = h <=> c = d
  BY <1>6, OneInto
<1>9. ASSUME NEW c \in Range(f.conns), c.port \notin Branches
      PROVE  TakenBy(f, x, c) \in Int /\ TakenBy(f, y, c) = TakenBy(f, x, c) + IF c = d THEN 1 ELSE 0
  <2>1. TakenBy(f, x, c) = IF c.to \in Range(x.todo) THEN 0 ELSE Factor(f, c)
    BY <1>1 DEF TakenBy
  <2>2. TakenBy(f, y, c) = IF c.to \in Range(x.todo) /\ c # d THEN 0 ELSE Factor(f, c)
    BY <1>3, <1>4, <1>8 DEF TakenBy
  <2>3. Factor(f, c) \in Nat
    BY FactorNat
  <2>4. CASE c = d
    <3>1. TakenBy(f, x, c) = 0
      BY <1>3, <1>6, <2>1, <2>4
    <3>2. Factor(f, c) = 1
      BY <1>6, <1>9, <2>4
    <3>. QED
      BY <2>2, <2>4, <3>1, <3>2
  <2>5. CASE c # d
    BY <2>1, <2>2, <2>3, <2>5
  <2>. QED
    BY <2>4, <2>5
<1>10. ASSUME NEW p \in Forks(f), p[1].from = x.node
       PROVE  IF d \in {p[1], p[2]} THEN HasParted(y, p) /\ ~HasParted(x, p) ELSE HasParted(y, p) <=> HasParted(x, p)
  <2>1. p[1] \in Range(f.conns) /\ p[2] \in Range(f.conns) /\ p[1].port = "out_true" /\ p[2].port = "out_false"
    BY DEF Forks
  <2>2. /\ HasParted(x, p) <=> p[1].to \notin Range(x.todo) /\ p[2].to \notin Range(x.todo)
        /\ HasParted(y, p) <=> p[1].to \notin Range(y.todo) /\ p[2].to \notin Range(y.todo)
    BY <1>1, <1>4 DEF HasParted
  <2>3. \A c \in Range(f.conns) : c.to \in Range(y.todo) <=> c.to \in Range(x.todo) /\ c # d
    BY <1>3, <1>4, <1>8
  <2>4. ASSUME NEW c \in Range(f.conns), c.to \in Range(x.todo) PROVE c.port = port
    <3>1. PICK e \in Range(f.conns) : e.from = x.node /\ e.to = c.to /\ e.port = port
      BY <1>2, <2>4
    <3>2. e = c
      BY <3>1, OneInto
    <3>. QED
      BY <3>1, <3>2
  <2>5. CASE d = p[1]
    <3>1. p[2].port # port
      BY <1>6, <2>1, <2>5
    <3>2. p[2].to \notin Range(x.todo) /\ p[1].to \in Range(x.todo)
      BY <1>3, <1>6, <2>1, <2>4, <2>5, <3>1
    <3>. QED
      BY <2>1, <2>2, <2>3, <2>5, <3>2
  <2>6. CASE d = p[2]
    <3>1. p[1].port # port
      BY <1>6, <2>1, <2>6
    <3>2. p[1].to \notin Range(x.todo) /\ p[2].to \in Range(x.todo)
      BY <1>3, <1>6, <2>1, <2>4, <2>6, <3>1
    <3>. QED
      BY <2>1, <2>2, <2>3, <2>6, <3>2
  <2>7. CASE d \notin {p[1], p[2]}
    BY <2>1, <2>2, <2>3, <2>7
  <2>. QED
    BY <2>5, <2>6, <2>7
<1>11. ASSUME Chain(f) PROVE y.todo = <<>>
  <2>1. \A t \in Range(x.todo) : t = h
    BY <1>2, <1>6, <1>11 DEF Chain
  <2>. QED
    BY <1>3, <1>4, <2>1
<1>12. Pushed(s, y, z, Append(WithLast(s, y), z))
  BY PutAndAdded
<1>. DEFINE s2 == Append(WithLast(s, y), z)
<1>. HIDE DEF s2
<1>13. PathSound(f, Append(o, d.to), s2)
  <2>1. Pushed(s, y, z, s2)
    BY <1>12 DEF s2
  <2>2. x.at = "follow" /\ x.todo # <<>> /\ ~x.sub /\ y.at = "follow" /\ d.from = x.node /\ z.node = d.to
    BY <1>1, <1>4, <1>6, <1>7
  <2>. QED
    BY <1>5, <1>7, <1>9, <1>10, <1>11, <2>1, <2>2, BlockEntered DEF x
<1>. QED
  BY <1>3, <1>6, <1>13 DEF x, y, z, h, s2, TargetLess, PageFrame

\* Within the run of a saved workflow: a call goes on, makes another one, or returns.
LEMMA SubTurns ==
  ASSUME NEW f, NEW o, NEW s, PathSound(f, o, s), Plain(s), s # <<>>, Last(s).sub,
         NEW y, FrameSound(f, y), y.sub
  PROVE  PathSound(f, o, WithLast(s, y))
<1>. DEFINE t == WithLast(s, y)
            n == Len(s)
<1>1. /\ Plain(t) /\ t # <<>> /\ n \in Nat /\ DOMAIN t = 1..n /\ DOMAIN s = 1..n
      /\ \A i \in 1..n : i # n => t[i] = s[i]
  BY TopPut
<1>2. /\ \A i, j \in DOMAIN s : i < j /\ s[i].sub => s[j].sub
      /\ \A i \in DOMAIN s : FrameSound(f, s[i])
  BY DEF PathSound, StackSound
<1>3. FrameSound(f, t[n]) /\ t[n].sub /\ s[n].sub
  BY TopPut
<1>. HIDE DEF t, n
<1>4. /\ \A i \in DOMAIN s : ~s[i].sub => i \in DOMAIN t /\ t[i] = s[i]
      /\ \A i \in DOMAIN t : ~t[i].sub => i \in DOMAIN s /\ t[i] = s[i]
      /\ \A i \in DOMAIN t : FrameSound(f, t[i])
  BY <1>1, <1>2, <1>3
<1>5. ASSUME NEW i \in DOMAIN t, NEW j \in DOMAIN t, i < j, t[i].sub PROVE t[j].sub
  <2>1. CASE j = n
    BY <1>3, <2>1
  <2>2. CASE j # n
    <3>1. i \in 1..n /\ j \in 1..n /\ i < j /\ i # n
      BY <1>1, <1>5
    <3>. QED
      BY <1>1, <1>2, <1>5, <2>2, <3>1
  <2>. QED
    BY <2>1, <2>2
<1>6. PathSound(f, o, t)
  BY <1>1, <1>4, <1>5, SubCalls
<1>. QED
  BY <1>6 DEF t

LEMMA SubCalled ==
  ASSUME NEW f, NEW o, NEW s, PathSound(f, o, s), Plain(s), s # <<>>,
         NEW z, FrameSound(f, z), z.sub
  PROVE  PathSound(f, o, Append(s, z))
<1>. DEFINE t == Append(s, z)
            n == Len(s)
<1>1. /\ Plain(t) /\ n \in Nat /\ DOMAIN t = 1..(n + 1) /\ DOMAIN s = 1..n
      /\ t[n + 1] = z /\ \A i \in 1..n : t[i] = s[i]
  BY TopAdded
<1>. HIDE DEF t, n
<1>2. /\ \A i, j \in DOMAIN s : i < j /\ s[i].sub => s[j].sub
      /\ \A i \in DOMAIN s : FrameSound(f, s[i])
  BY DEF PathSound, StackSound
<1>3. \A i : i \in 1..(n + 1) <=> i \in 1..n \/ i = n + 1
  BY <1>1
<1>4. /\ \A i \in DOMAIN s : ~s[i].sub => i \in DOMAIN t /\ t[i] = s[i]
      /\ \A i \in DOMAIN t : ~t[i].sub => i \in DOMAIN s /\ t[i] = s[i]
      /\ \A i \in DOMAIN t : FrameSound(f, t[i])
  BY <1>1, <1>2, <1>3
<1>5. ASSUME NEW i \in DOMAIN t, NEW j \in DOMAIN t, i < j, t[i].sub PROVE t[j].sub
  <2>1. CASE j = n + 1
    BY <1>1, <2>1
  <2>2. CASE j # n + 1
    <3>1. i \in 1..n /\ j \in 1..n
      BY <1>1, <1>5, <2>2
    <3>. QED
      BY <1>1, <1>2, <1>5, <3>1
  <2>. QED
    BY <2>1, <2>2
<1>6. PathSound(f, o, t)
  BY <1>1, <1>4, <1>5, SubCalls
<1>. QED
  BY <1>6 DEF t

LEMMA SubReturns ==
  ASSUME NEW f, NEW o, NEW s, PathSound(f, o, s), Plain(s), s # <<>>, Last(s).sub
  PROVE  PathSound(f, o, Front(s))
<1>. DEFINE t == Front(s)
            n == Len(s)
<1>1. Plain(t) /\ Len(t) = n - 1 /\ n \in Nat \ {0} /\ \A i \in 1..(n - 1) : t[i] = s[i]
  BY PlainFront
<1>2. DOMAIN s = 1..n /\ Last(s) = s[n]
  BY PlainSeq DEF Plain, Last
<1>3. DOMAIN t = 1..(n - 1)
  BY <1>1, PlainSeq DEF Plain
<1>. HIDE DEF t, n
<1>4. /\ \A i, j \in DOMAIN s : i < j /\ s[i].sub => s[j].sub
      /\ \A i \in DOMAIN s : FrameSound(f, s[i])
  BY DEF PathSound, StackSound
<1>5. \A i : i \in 1..n <=> i \in 1..(n - 1) \/ i = n
  BY <1>1
<1>6. /\ \A i \in DOMAIN s : ~s[i].sub => i \in DOMAIN t /\ t[i] = s[i]
      /\ \A i \in DOMAIN t : i \in DOMAIN s /\ t[i] = s[i] /\ FrameSound(f, t[i])
  BY <1>1, <1>2, <1>3, <1>4, <1>5
<1>7. \A i, j \in DOMAIN t : i < j /\ t[i].sub => t[j].sub
  BY <1>4, <1>6
<1>8. PathSound(f, o, t)
  BY <1>1, <1>6, <1>7, SubCalls
<1>. QED
  BY <1>8 DEF t

\* A step of one run: the others are as they were.
LEMMA OthersKept ==
  ASSUME RunInv, PathInv, NEW r \in live, UNCHANGED <<flow, runAbort, stops, edits>>,
         \A q \in Runs \ {r} : stack'[q] = stack[q] /\ order'[q] = order[q] /\ outcome'[q] = outcome[q],
         Untouched /\ stops = 0 /\ 0 \notin Range(order'[r]) =>
           PathSound(flow, order'[r], stack'[r]) /\ (outcome'[r] = "ended" => order'[r] # <<>>)
  PROVE  PathInv'
<1>1. r \in Runs
  BY LiveFinite
<1>2. (Untouched' <=> Untouched) /\ edits' = edits /\ stops' = stops /\ flow' = flow /\ runAbort' = runAbort
  BY DEF Untouched
<1>3. ASSUME Untouched, stops = 0, NEW q \in Runs, 0 \notin Range(order'[q])
      PROVE  PathSound(flow, order'[q], stack'[q]) /\ (outcome'[q] = "ended" => order'[q] # <<>>)
  BY <1>1, <1>3 DEF PathInv
<1>. QED
  BY <1>2, <1>3 DEF PathInv

LEMMA RunPath ==
  ASSUME RunInv, PathInv, Untouched, stops = 0, NEW r \in live, 0 \notin Range(order[r])
  PROVE  /\ r \in Runs /\ WellDrawn(flow) /\ ~runAbort /\ outcome[r] = "none"
         /\ PathSound(flow, order[r], stack[r]) /\ order[r] # <<>>
         /\ Plain(stack[r]) /\ stack[r] # <<>> /\ Plain(order[r])
<1>1. r \in Runs
  BY LiveFinite
<1>2. Plain(stack[r]) /\ stack[r] # <<>> /\ Plain(order[r]) /\ outcome[r] = "none"
  BY <1>1 DEF RunInv
<1>3. flow \in Flows /\ ~runAbort /\ PathSound(flow, order[r], stack[r])
  BY <1>1 DEF PathInv
<1>4. order[r] # <<>>
  BY <1>2, <1>3 DEF PathSound
<1>. QED
  BY <1>1, <1>2, <1>3, <1>4, RunAssumption

LEMMA RangeGrows ==
  ASSUME NEW s, Plain(s), NEW e
  PROVE  Range(s) \subseteq Range(Append(s, e)) /\ e \in Range(Append(s, e))
<1>1. DOMAIN Append(s, e) = 1..(Len(s) + 1) /\ DOMAIN s = 1..Len(s) /\ Len(s) \in Nat
      /\ Append(s, e)[Len(s) + 1] = e /\ \A i \in 1..Len(s) : Append(s, e)[i] = s[i]
  BY TopAdded
<1>2. Len(s) + 1 \in 1..(Len(s) + 1) /\ \A i \in 1..Len(s) : i \in 1..(Len(s) + 1)
  BY <1>1
<1>. QED
  BY <1>1, <1>2 DEF Range

\* What a call changes, whether the block is entered or passed over.
LEMMA CalledOnly ==
  ASSUME RunInv, NEW r \in live, NEW rest, NEW id, NEW sub, Called(r, rest, id, sub)
  PROVE  /\ \A q \in Runs \ {r} : stack'[q] = stack[q] /\ order'[q] = order[q]
         /\ 0 \notin Range(order'[r]) => 0 \notin Range(order[r])
<1>1. r \in Runs /\ Plain(order[r])
  BY LiveFinite DEF RunInv
<1>2. /\ \E s : stack' = [stack EXCEPT ![r] = s]
      /\ \/ order' = order
         \/ order' = [order EXCEPT ![r] = order[r]]
         \/ order' = [order EXCEPT ![r] = Append(order[r], id)]
  BY DEF Called
<1>3. /\ \A q \in Runs \ {r} : stack'[q] = stack[q] /\ order'[q] = order[q]
      /\ order'[r] \in {order[r], Append(order[r], id)}
  BY <1>1, <1>2 DEF RunInv
<1>. QED
  BY <1>1, <1>3, RangeGrows

\* A frame within a saved workflow is as any other; nobody counts what it enters.
LEMMA SubFrame ==
  ASSUME NEW f, NEW id, NEW type
  PROVE  FrameSound(f, Frame(id, type, TRUE)) /\ Frame(id, type, TRUE).sub
BY DEF Frame, FrameSound, IsFrame

LEMMA SubGoesOn ==
  ASSUME NEW f, NEW x, FrameSound(f, x), x.sub, NEW todo
  PROVE  /\ FrameSound(f, FollowingOn(x, todo)) /\ FollowingOn(x, todo).sub
         /\ FrameSound(f, TargetLess(x)) /\ TargetLess(x).sub
<1>1. IsFrame(x) /\ x.sub = TRUE /\ x.at \in {"work", "loop", "follow"} /\ x.at # "loop"
  BY DEF FrameSound
<1>2. PICK y : y = FollowingOn(x, todo)
  OBVIOUS
<1>3. IsFrame(y) /\ y.sub = TRUE /\ y.at = "follow"
  BY <1>1, <1>2 DEF IsFrame, FollowingOn
<1>4. PICK z : z = TargetLess(x)
  OBVIOUS
<1>5. IsFrame(z) /\ z.sub = TRUE /\ z.at = x.at
  BY <1>1, <1>4 DEF IsFrame, TargetLess
<1>6. FrameSound(f, y) /\ y.sub
  BY <1>3 DEF FrameSound
<1>7. FrameSound(f, z) /\ z.sub
  BY <1>1, <1>5 DEF FrameSound
<1>. QED
  BY <1>2, <1>4, <1>6, <1>7

\* What Worked does, by the kind of the block.
Follows(r, port) == WithTop(r, FollowingOn(Top(r), TargetsOf(GraphOf(Top(r)), Top(r).node, port)))
LEMMA WorkedCases ==
  ASSUME NEW r, Worked(r)
  PROVE  /\ Top(r).at = "work"
         /\ UNCHANGED <<flow, running, runAbort, live, outcome, starts, stops, edits>>
         /\ \/ /\ ~Top(r).sub /\ Top(r).type = "sub"
               /\ \E id : Called(r, Follows(r, "out"), id, TRUE)
            \/ /\ ~Top(r).sub /\ Top(r).type \in Loops
               /\ stack' = [stack EXCEPT ![r] = WithTop(r, Looping(Top(r), FirstOf(TargetsOf(flow, Top(r).node, "out_body"))))]
               /\ UNCHANGED order
            \/ \E port :
                 /\ \/ Top(r).sub
                    \/ Top(r).type \notin Loops \union TwoWays /\ port = "out"
                    \/ Top(r).type \in TwoWays /\ port \in Branches
                    \/ /\ Top(r).type = "fuzz" /\ port = "out_done"
                       /\ TargetsOf(flow, Top(r).node, "out_body") = <<>>
                 /\ stack' = [stack EXCEPT ![r] = Follows(r, port)]
                 /\ UNCHANGED order
<1>. DEFINE body == TargetsOf(GraphOf(Top(r)), Top(r).node, "out_body")
            first == TargetsOf(SubFlow, CHOOSE id \in Blocks(SubFlow) : SubFlow.type[id] = "start", "out")
            IsSub == Top(r).type = "sub" /\ ~Top(r).sub
            IsFork == Top(r).type \in TwoWays /\ (Top(r).sub => Top(r).type = "test")
            IsLoop == Top(r).type \in Loops /\ ~Top(r).sub
            AsSub == IF first = <<>> THEN stack' = [stack EXCEPT ![r] = Follows(r, "out")] /\ UNCHANGED order
                                     ELSE Called(r, Follows(r, "out"), Head(first), TRUE)
            AsFork == (\E port \in {"out_true", "out_false"} : stack' = [stack EXCEPT ![r] = Follows(r, port)]) /\ UNCHANGED order
            AsLoop == /\ stack' = [stack EXCEPT ![r] =
                           IF Top(r).type = "fuzz" /\ body = <<>> THEN Follows(r, "out_done")
                           ELSE WithTop(r, [Top(r) EXCEPT !.at = "loop", !.todo = FirstOf(body), !.left = LoopsFor])]
                      /\ UNCHANGED order
            AsAny == stack' = [stack EXCEPT ![r] = Follows(r, "out")] /\ UNCHANGED order
<1>1. /\ Top(r).at = "work"
      /\ UNCHANGED <<flow, running, runAbort, live, outcome, starts, stops, edits>>
      /\ CASE IsSub -> AsSub [] IsFork -> AsFork [] IsLoop -> AsLoop [] OTHER -> AsAny
  BY DEF Worked, Follows, FollowingOn
<1>2. body = TargetsOf(flow, Top(r).node, "out_body") \/ Top(r).sub
  BY DEF GraphOf
<1>3. \/ IsSub /\ ~IsFork /\ ~IsLoop /\ Top(r).type \notin Loops \union TwoWays
      \/ IsFork /\ ~IsSub /\ ~IsLoop /\ Top(r).type \in TwoWays
      \/ IsLoop /\ ~IsSub /\ ~IsFork
      \/ ~IsSub /\ ~IsFork /\ ~IsLoop /\ (Top(r).sub \/ Top(r).type \notin Loops \union TwoWays)
  BY DEF Loops, TwoWays
<1>. HIDE DEF body, first
<1>4. CASE IsSub /\ ~IsFork /\ ~IsLoop /\ Top(r).type \notin Loops \union TwoWays
  <2>. HIDE DEF IsFork, AsFork, IsLoop, AsLoop, AsAny
  <2>1. AsSub
    <3>. HIDE DEF IsSub, AsSub
    <3>. QED
      BY <1>1, <1>4
  <2>2. \/ stack' = [stack EXCEPT ![r] = Follows(r, "out")] /\ UNCHANGED order
        \/ Called(r, Follows(r, "out"), Head(first), TRUE)
    BY <2>1, Zenon
  <2>. QED
    BY <1>1, <1>4, <2>2
<1>5. CASE IsFork /\ ~IsSub /\ ~IsLoop /\ Top(r).type \in TwoWays
  <2>. HIDE DEF IsFork, IsLoop, AsLoop, AsAny, IsSub, AsSub
  <2>1. AsFork
    <3>. HIDE DEF AsFork
    <3>. QED
      BY <1>1, <1>5
  <2>. QED
    BY <1>1, <1>5, <2>1 DEF Branches
<1>6. CASE IsLoop /\ ~IsSub /\ ~IsFork
  <2>. HIDE DEF IsFork, AsFork, AsAny, IsSub, AsSub
  <2>1. AsLoop
    <3>. HIDE DEF AsLoop, IsLoop
    <3>. QED
      BY <1>1, <1>6
  <2>2. ~Top(r).sub /\ Top(r).type \in Loops /\ body = TargetsOf(flow, Top(r).node, "out_body")
    BY <1>2, <1>6
  <2>. HIDE DEF IsLoop
  <2>. QED
    BY <1>1, <2>1, <2>2 DEF LoopsFor, Looping
<1>7. CASE ~IsSub /\ ~IsFork /\ ~IsLoop /\ (Top(r).sub \/ Top(r).type \notin Loops \union TwoWays)
  <2>. HIDE DEF IsFork, AsFork, IsLoop, AsLoop, IsSub, AsSub
  <2>1. AsAny
    <3>. HIDE DEF AsAny
    <3>. QED
      BY <1>1, <1>7
  <2>. QED
    BY <1>1, <1>7, <2>1
<1>. QED
  BY <1>3, <1>4, <1>5, <1>6, <1>7

LEMMA WorkedPath ==
  ASSUME RunInv, PathInv, NEW r \in live, Worked(r)
  PROVE  PathInv'
<1>. DEFINE s == stack[r]
            o == order[r]
            x == Last(s)
<1>0. r \in Runs /\ UNCHANGED <<flow, runAbort, outcome, stops, edits>>
  BY LiveFinite DEF Worked
<1>1. Top(r) = x /\ \A y : WithTop(r, y) = WithLast(s, y)
  BY DEF Top, WithTop, WithLast
<1>. DEFINE yes == TRUE
<1>2. \A rest, id : Called(r, rest, id, TRUE) <=> Called(r, rest, id, yes)
  OBVIOUS
<1>3. yes = TRUE
  OBVIOUS
<1>. HIDE DEF yes, s, o, x
<1>4. Top(r).at = "work"
  BY WorkedCases, Zenon
<1>5. \/ /\ ~Top(r).sub /\ Top(r).type = "sub"
         /\ \E id : Called(r, Follows(r, "out"), id, yes)
      \/ /\ ~Top(r).sub /\ Top(r).type \in Loops
         /\ stack' = [stack EXCEPT ![r] = WithTop(r, Looping(Top(r), FirstOf(TargetsOf(flow, Top(r).node, "out_body"))))]
         /\ UNCHANGED order
      \/ \E port :
           /\ \/ Top(r).sub
              \/ Top(r).type \notin Loops \union TwoWays /\ port = "out"
              \/ Top(r).type \in TwoWays /\ port \in Branches
              \/ /\ Top(r).type = "fuzz" /\ port = "out_done"
                 /\ TargetsOf(flow, Top(r).node, "out_body") = <<>>
           /\ stack' = [stack EXCEPT ![r] = Follows(r, port)]
           /\ UNCHANGED order
  BY <1>2, WorkedCases, Zenon
<1>6. /\ \A q \in Runs \ {r} : stack'[q] = stack[q] /\ order'[q] = order[q]
      /\ 0 \notin Range(order'[r]) => 0 \notin Range(order[r])
  <2>1. CASE \E id : Called(r, Follows(r, "out"), id, yes)
    BY <2>1, CalledOnly
  <2>2. CASE (\E z : stack' = [stack EXCEPT ![r] = z]) /\ UNCHANGED order
    BY <1>0, <2>2 DEF RunInv
  <2>. QED
    BY <1>5, <2>1, <2>2, Zenon
<1>7. ASSUME Untouched, stops = 0, 0 \notin Range(order'[r])
      PROVE  PathSound(flow, order'[r], stack'[r]) /\ order'[r] # <<>>
  <2>1. /\ WellDrawn(flow) /\ ~runAbort
        /\ PathSound(flow, o, s) /\ o # <<>>
        /\ Plain(s) /\ s # <<>>
    BY <1>6, <1>7, RunPath DEF s, o
  <2>2. FrameSound(flow, x)
    <3>1. DOMAIN s = 1..Len(s) /\ Len(s) \in Nat \ {0} /\ x = s[Len(s)]
      BY <2>1, TopPut DEF x
    <3>2. Len(s) \in DOMAIN s
      BY <3>1
    <3>. QED
      BY <2>1, <3>1, <3>2 DEF PathSound, StackSound
  <2>3. CASE ~Top(r).sub /\ Top(r).type = "sub" /\ \E id : Called(r, Follows(r, "out"), id, yes)
    <3>1. PICK id : Called(r, Follows(r, "out"), id, yes)
      BY <2>3
    <3>2. ~Last(s).sub /\ Last(s).at = "work" /\ Last(s).type \notin Loops \union TwoWays
      BY <1>1, <1>4, <2>3 DEF Loops, TwoWays, x
    <3>3. PathSound(flow, o, WithLast(s, FollowingOn(Last(s), TargetsOf(flow, Last(s).node, "out"))))
      BY <2>1, <3>2, WorkFollows
    <3>4. Follows(r, "out") = WithLast(s, FollowingOn(Last(s), TargetsOf(flow, Last(s).node, "out")))
      <4>1. Follows(r, "out") = WithLast(s, FollowingOn(x, TargetsOf(GraphOf(x), x.node, "out")))
        BY <1>1, Zenon DEF Follows
      <4>2. GraphOf(x) = flow
        BY <3>2 DEF GraphOf, x
      <4>. QED
        BY <4>1, <4>2, Zenon DEF x
    <3>5. PathSound(flow, o, Follows(r, "out"))
      BY <3>3, <3>4, Zenon
    <3>6. Plain(Follows(r, "out")) /\ Follows(r, "out") # <<>>
      <4>1. \A y : Plain(WithLast(s, y)) /\ WithLast(s, y) # <<>>
        BY <2>1, TopPut
      <4>. QED
        BY <3>4, <4>1, Zenon
    <3>7. /\ order'[r] = order[r]
          /\ \/ stack'[r] = Follows(r, "out")
             \/ stack'[r] = Append(Follows(r, "out"), Frame(id, SubFlow.type[id], yes))
      <4>. DEFINE rest == Follows(r, "out")
                  z == Frame(id, SubFlow.type[id], yes)
      <4>1. /\ order' = order \/ order' = [order EXCEPT ![r] = order[r]]
            /\ stack' = [stack EXCEPT ![r] = rest] \/ stack' = [stack EXCEPT ![r] = Append(rest, z)]
        BY <1>3, <3>1, Zenon DEF Called
      <4>. HIDE DEF rest, z
      <4>. QED
        BY <1>0, <4>1 DEF RunInv, rest, z
    <3>8. \A z : FrameSound(flow, z) /\ z.sub => PathSound(flow, o, Append(Follows(r, "out"), z))
      BY <3>5, <3>6, SubCalled
    <3>9. FrameSound(flow, Frame(id, SubFlow.type[id], TRUE)) /\ Frame(id, SubFlow.type[id], TRUE).sub
      BY SubFrame
    <3>10. PathSound(flow, o, Append(Follows(r, "out"), Frame(id, SubFlow.type[id], yes)))
      BY <1>3, <3>8, <3>9, Zenon
    <3>. QED
      BY <2>1, <3>5, <3>7, <3>10, Zenon DEF o
  <2>4. CASE /\ ~Top(r).sub /\ Top(r).type \in Loops
             /\ stack' = [stack EXCEPT ![r] = WithTop(r, Looping(Top(r), FirstOf(TargetsOf(flow, Top(r).node, "out_body"))))]
             /\ UNCHANGED order
    <3>1. ~Last(s).sub /\ Last(s).at = "work" /\ Last(s).type \in Loops
      BY <1>1, <1>4, <2>4, Zenon DEF x
    <3>2. PathSound(flow, o, WithLast(s, Looping(Last(s), FirstOf(TargetsOf(flow, Last(s).node, "out_body")))))
      BY <2>1, <3>1, LoopStarts
    <3>. DEFINE z == WithTop(r, Looping(Top(r), FirstOf(TargetsOf(flow, Top(r).node, "out_body"))))
    <3>3. PathSound(flow, o, z)
      BY <1>1, <3>2, Zenon DEF x
    <3>4. stack' = [stack EXCEPT ![r] = z] /\ order' = order
      BY <2>4, Zenon
    <3>. HIDE DEF z
    <3>5. stack'[r] = z /\ order'[r] = order[r]
      BY <1>0, <3>4 DEF RunInv
    <3>. QED
      BY <2>1, <3>3, <3>5, Zenon DEF o
  <2>5. ASSUME NEW port,
               stack' = [stack EXCEPT ![r] = Follows(r, port)], UNCHANGED order,
               \/ Top(r).sub
               \/ Top(r).type \notin Loops \union TwoWays /\ port = "out"
               \/ Top(r).type \in TwoWays /\ port \in Branches
               \/ /\ Top(r).type = "fuzz" /\ port = "out_done"
                  /\ TargetsOf(flow, Top(r).node, "out_body") = <<>>
        PROVE  PathSound(flow, order'[r], stack'[r]) /\ order'[r] # <<>>
    <3>1. order'[r] = order[r] /\ stack'[r] = Follows(r, port)
      BY <1>0, <2>5 DEF RunInv
    <3>2. Follows(r, port) = WithLast(s, FollowingOn(x, TargetsOf(GraphOf(x), x.node, port)))
      BY <1>1, Zenon DEF Follows
    <3>3. CASE x.sub
      <4>1. \A y : FrameSound(flow, y) /\ y.sub => PathSound(flow, o, WithLast(s, y))
        BY <2>1, <3>3, SubTurns DEF x
      <4>2. \A todo : /\ FrameSound(flow, FollowingOn(x, todo))
                      /\ FollowingOn(x, todo).sub
        BY <2>2, <3>3, SubGoesOn, Zenon
      <4>3. PathSound(flow, o, Follows(r, port))
        BY <3>2, <4>1, <4>2, Zenon
      <4>. QED
        BY <2>1, <3>1, <4>3, Zenon DEF o
    <3>4. CASE ~x.sub
      <4>1. GraphOf(x) = flow
        BY <3>4 DEF GraphOf
      <4>2. \/ Last(s).type \notin Loops \union TwoWays /\ port = "out"
            \/ Last(s).type \in TwoWays /\ port \in Branches
            \/ Last(s).type = "fuzz" /\ port = "out_done" /\ TargetsOf(flow, Last(s).node, "out_body") = <<>>
        BY <1>1, <2>5, <3>4, Zenon DEF x
      <4>3. ~Last(s).sub /\ Last(s).at = "work"
        BY <1>1, <1>4, <3>4, Zenon DEF x
      <4>4. PathSound(flow, o, WithLast(s, FollowingOn(Last(s), TargetsOf(flow, Last(s).node, port))))
        BY <2>1, <4>2, <4>3, WorkFollows
      <4>5. PathSound(flow, o, Follows(r, port))
        BY <3>2, <4>1, <4>4, Zenon DEF x
      <4>. QED
        BY <2>1, <3>1, <4>5, Zenon DEF o
    <3>. QED
      BY <3>3, <3>4
  <2>. QED
    BY <1>5, <2>3, <2>4, <2>5, Zenon
<1>. QED
  BY <1>0, <1>6, <1>7, OthersKept

LEMMA IteratePath ==
  ASSUME RunInv, PathInv, NEW r \in live, Iterate(r)
  PROVE  PathInv'
<1>. DEFINE s == stack[r]
            o == order[r]
            x == Last(s)
            done == TargetsOf(flow, Top(r).node, "out_done")
            ended == IF Top(r).type = "loop" THEN FirstOf(done) ELSE done
            no == FALSE
<1>0. r \in Runs /\ UNCHANGED <<flow, runAbort, outcome, stops, edits>>
  BY LiveFinite DEF Iterate
<1>1. Top(r) = x /\ \A y : WithTop(r, y) = WithLast(s, y)
  BY DEF Top, WithTop, WithLast
<1>2. Top(r).at = "loop"
  BY DEF Iterate
<1>3. IF Top(r).left > 0 /\ ~runAbort
      THEN IF Top(r).todo = <<>> THEN stack' = [stack EXCEPT ![r] = WithTop(r, RoundLess(Top(r)))] /\ UNCHANGED order
                                 ELSE Called(r, WithTop(r, RoundLess(Top(r))), Head(Top(r).todo), no)
      ELSE /\ stack' = [stack EXCEPT ![r] = WithTop(r, FollowingOn(Top(r), ended))]
           /\ UNCHANGED order
  BY DEF Iterate, RoundLess, FollowingOn, CountDown
<1>4. no = FALSE
  OBVIOUS
<1>. HIDE DEF s, o, x, ended, done, no
<1>5. \/ Called(r, WithTop(r, RoundLess(Top(r))), Head(Top(r).todo), no)
      \/ (\E z : stack' = [stack EXCEPT ![r] = z]) /\ UNCHANGED order
  BY <1>3, Zenon
<1>6. /\ \A q \in Runs \ {r} : stack'[q] = stack[q] /\ order'[q] = order[q]
      /\ 0 \notin Range(order'[r]) => 0 \notin Range(order[r])
  <2>1. CASE Called(r, WithTop(r, RoundLess(Top(r))), Head(Top(r).todo), no)
    BY <2>1, CalledOnly
  <2>2. CASE (\E z : stack' = [stack EXCEPT ![r] = z]) /\ UNCHANGED order
    BY <1>0, <2>2 DEF RunInv
  <2>. QED
    BY <1>5, <2>1, <2>2
<1>7. ASSUME Untouched, stops = 0, 0 \notin Range(order'[r])
      PROVE  PathSound(flow, order'[r], stack'[r]) /\ order'[r] # <<>>
  <2>1. /\ WellDrawn(flow) /\ ~runAbort
        /\ PathSound(flow, o, s) /\ o # <<>>
        /\ Plain(s) /\ s # <<>> /\ Plain(o)
    BY <1>6, <1>7, RunPath DEF s, o
  <2>2. ~Last(s).sub
    <3>1. DOMAIN s = 1..Len(s) /\ Len(s) \in Nat \ {0} /\ Last(s) = s[Len(s)]
      BY <2>1, TopPut
    <3>2. Len(s) \in DOMAIN s
      BY <3>1
    <3>3. FrameSound(flow, Last(s))
      BY <2>1, <3>1, <3>2 DEF PathSound, StackSound
    <3>4. Last(s).at = "loop"
      BY <1>1, <1>2, Zenon DEF x
    <3>. QED
      BY <3>3, <3>4 DEF FrameSound
  <2>3. Last(s).at = "loop" /\ Top(r) = Last(s)
    BY <1>1, <1>2, Zenon DEF x
  <2>4. CASE Top(r).left > 0 /\ Top(r).todo = <<>>
    <3>1. stack' = [stack EXCEPT ![r] = WithTop(r, RoundLess(Top(r)))] /\ UNCHANGED order
      BY <1>3, <2>1, <2>4, Zenon
    <3>2. stack'[r] = WithTop(r, RoundLess(Top(r))) /\ order'[r] = order[r]
      BY <1>0, <3>1 DEF RunInv
    <3>3. Last(s).left > 0 /\ Last(s).todo = <<>>
      BY <2>3, <2>4, Zenon
    <3>4. PathSound(flow, o, WithLast(s, RoundLess(Last(s))))
      BY <2>1, <2>2, <2>3, <3>3, RoundWithout
    <3>. QED
      BY <1>1, <2>1, <2>3, <3>2, <3>4, Zenon DEF o
  <2>5. CASE Top(r).left > 0 /\ Top(r).todo # <<>>
    <3>. DEFINE h == Head(Top(r).todo)
    <3>1. Called(r, WithTop(r, RoundLess(Top(r))), h, no)
      BY <1>3, <2>1, <2>5, Zenon
    <3>2. Last(s).left > 0 /\ Last(s).todo # <<>> /\ h = Head(Last(s).todo)
      BY <2>3, <2>5, Zenon
    <3>. HIDE DEF h
    <3>3. /\ Head(Last(s).todo) \in Blocks(flow)
          /\ PathSound(flow, Append(o, Head(Last(s).todo)), Append(WithLast(s, RoundLess(Last(s))), PageFrame(flow, Head(Last(s).todo))))
      BY <2>1, <2>2, <2>3, <3>2, RoundEnters
    <3>4. /\ stack'[r] = Append(WithTop(r, RoundLess(Top(r))), Frame(h, flow.type[h], FALSE))
          /\ order'[r] = Append(order[r], h)
      <4>. DEFINE rest == WithTop(r, RoundLess(Top(r)))
                  z == Frame(h, flow.type[h], no)
      <4>1. ~Returns(h, no)
        BY <1>4, <2>1, <3>2, <3>3, Zenon DEF Returns
      <4>2. stack' = [stack EXCEPT ![r] = Append(rest, z)] /\ order' = [order EXCEPT ![r] = Append(order[r], h)]
        BY <1>4, <3>1, <4>1, Zenon DEF Called
      <4>. HIDE DEF rest, z
      <4>3. stack'[r] = Append(rest, z) /\ order'[r] = Append(order[r], h)
        BY <1>0, <4>2 DEF RunInv
      <4>. QED
        BY <1>4, <4>3, Zenon DEF rest, z
    <3>5. PathSound(flow, order'[r], stack'[r])
      BY <1>1, <2>3, <3>2, <3>3, <3>4, Zenon DEF PageFrame, o
    <3>6. Append(o, h) # <<>>
      BY <2>1, TopAdded
    <3>. QED
      BY <3>4, <3>5, <3>6, Zenon DEF o
  <2>6. CASE ~(Top(r).left > 0)
    <3>1. stack' = [stack EXCEPT ![r] = WithTop(r, FollowingOn(Top(r), ended))] /\ UNCHANGED order
      BY <1>3, <2>6, Zenon
    <3>2. stack'[r] = WithTop(r, FollowingOn(Top(r), ended)) /\ order'[r] = order[r]
      BY <1>0, <3>1 DEF RunInv
    <3>3. ~(Last(s).left > 0)
      BY <2>3, <2>6, Zenon
    <3>4. PathSound(flow, o, WithLast(s, FollowingOn(Last(s),
            IF Last(s).type = "loop" THEN FirstOf(TargetsOf(flow, Last(s).node, "out_done"))
                                     ELSE TargetsOf(flow, Last(s).node, "out_done"))))
      BY <2>1, <2>2, <2>3, <3>3, LoopEnds
    <3>5. PathSound(flow, o, WithLast(s, FollowingOn(Last(s), ended)))
      BY <2>3, <3>4, Zenon DEF ended, done
    <3>. QED
      BY <1>1, <2>1, <2>3, <3>2, <3>5, Zenon DEF o
  <2>. QED
    BY <2>4, <2>5, <2>6, Zenon
<1>. QED
  BY <1>0, <1>6, <1>7, OthersKept

LEMMA FollowNextPath ==
  ASSUME RunInv, PathInv, NEW r \in live, FollowNext(r)
  PROVE  PathInv'
<1>. DEFINE s == stack[r]
            o == order[r]
            x == Last(s)
            h == Head(Top(r).todo)
            rest == WithTop(r, TargetLess(Top(r)))
            sub == Top(r).sub
<1>0. r \in Runs /\ UNCHANGED <<flow, runAbort, stops, edits>>
  BY LiveFinite DEF FollowNext
<1>1. Top(r) = x /\ \A y : WithTop(r, y) = WithLast(s, y)
  BY DEF Top, WithTop, WithLast
<1>2. Top(r).at = "follow"
  BY DEF FollowNext
<1>3. \/ Top(r).todo # <<>> /\ Called(r, rest, h, sub) /\ UNCHANGED outcome
      \/ /\ Top(r).todo = <<>> /\ stack' = [stack EXCEPT ![r] = Front(stack[r])] /\ UNCHANGED order
         /\ UNCHANGED outcome \/ outcome' = [outcome EXCEPT ![r] = "ended"]
  BY DEF FollowNext, TargetLess, Ends
<1>4. sub = Last(s).sub /\ Top(r) = Last(s) /\ Last(s).at = "follow"
  BY <1>1, <1>2, Zenon
<1>. HIDE DEF s, o, x, h, rest, sub
<1>5. \A q \in Runs \ {r} : stack'[q] = stack[q] /\ order'[q] = order[q] /\ outcome'[q] = outcome[q]
  <2>1. CASE Called(r, rest, h, sub) /\ UNCHANGED outcome
    BY <2>1, CalledOnly
  <2>2. CASE /\ stack' = [stack EXCEPT ![r] = Front(stack[r])] /\ UNCHANGED order
             /\ UNCHANGED outcome \/ outcome' = [outcome EXCEPT ![r] = "ended"]
    BY <1>0, <2>2 DEF RunInv
  <2>. QED
    BY <1>3, <2>1, <2>2
<1>6. 0 \notin Range(order'[r]) => 0 \notin Range(order[r])
  <2>1. CASE Called(r, rest, h, sub)
    BY <2>1, CalledOnly
  <2>. QED
    BY <1>3, <2>1
<1>7. ASSUME Untouched, stops = 0, 0 \notin Range(order'[r])
      PROVE  PathSound(flow, order'[r], stack'[r]) /\ order'[r] # <<>>
  <2>1. /\ WellDrawn(flow) /\ ~runAbort
        /\ PathSound(flow, o, s) /\ o # <<>>
        /\ Plain(s) /\ s # <<>> /\ Plain(o)
    BY <1>6, <1>7, RunPath DEF s, o
  <2>2. FrameSound(flow, Last(s))
    <3>1. DOMAIN s = 1..Len(s) /\ Len(s) \in Nat \ {0} /\ Last(s) = s[Len(s)]
      BY <2>1, TopPut
    <3>2. Len(s) \in DOMAIN s
      BY <3>1
    <3>. QED
      BY <2>1, <3>1, <3>2 DEF PathSound, StackSound
  <2>3. Last(s).sub = FALSE \/ Last(s).sub = TRUE
    BY <2>2 DEF FrameSound
  <2>4. CASE Top(r).todo # <<>> /\ Called(r, rest, h, sub) /\ Last(s).sub = FALSE
    <3>1. ~Last(s).sub /\ Last(s).todo # <<>> /\ h = Head(Last(s).todo) /\ sub = FALSE
      BY <1>4, <2>4, Zenon DEF h
    <3>2. /\ Head(Last(s).todo) \in Blocks(flow)
          /\ PathSound(flow, Append(o, Head(Last(s).todo)), Append(WithLast(s, TargetLess(Last(s))), PageFrame(flow, Head(Last(s).todo))))
      BY <1>4, <2>1, <3>1, FollowEnters
    <3>3. /\ stack'[r] = Append(rest, Frame(h, flow.type[h], FALSE))
          /\ order'[r] = Append(order[r], h)
      <4>. DEFINE z == Frame(h, flow.type[h], sub)
      <4>1. ~Returns(h, sub)
        BY <2>1, <3>1, <3>2, Zenon DEF Returns
      <4>2. stack' = [stack EXCEPT ![r] = Append(rest, z)] /\ order' = [order EXCEPT ![r] = Append(order[r], h)]
        BY <2>4, <3>1, <4>1, Zenon DEF Called
      <4>. HIDE DEF z
      <4>3. stack'[r] = Append(rest, z) /\ order'[r] = Append(order[r], h)
        BY <1>0, <4>2 DEF RunInv
      <4>. QED
        BY <3>1, <4>3, Zenon DEF z
    <3>4. rest = WithLast(s, TargetLess(Last(s)))
      BY <1>1, <1>4, Zenon DEF rest
    <3>5. PathSound(flow, order'[r], stack'[r])
      BY <3>1, <3>2, <3>3, <3>4, Zenon DEF PageFrame, o
    <3>6. Append(o, h) # <<>>
      BY <2>1, TopAdded
    <3>. QED
      BY <3>3, <3>5, <3>6, Zenon DEF o
  <2>5. CASE Top(r).todo # <<>> /\ Called(r, rest, h, sub) /\ Last(s).sub = TRUE
    <3>1. Last(s).sub /\ sub = TRUE
      BY <1>4, <2>5, Zenon
    <3>2. rest = WithLast(s, TargetLess(Last(s)))
      BY <1>1, <1>4, Zenon DEF rest
    <3>3. \A y : FrameSound(flow, y) /\ y.sub => PathSound(flow, o, WithLast(s, y))
      BY <2>1, <3>1, SubTurns
    <3>4. FrameSound(flow, TargetLess(Last(s))) /\ TargetLess(Last(s)).sub
      BY <2>2, <3>1, SubGoesOn, Zenon
    <3>5. PathSound(flow, o, rest)
      BY <3>2, <3>3, <3>4, Zenon
    <3>6. Plain(rest) /\ rest # <<>>
      <4>1. \A y : Plain(WithLast(s, y)) /\ WithLast(s, y) # <<>>
        BY <2>1, TopPut
      <4>. QED
        BY <3>2, <4>1, Zenon
    <3>7. \A z : FrameSound(flow, z) /\ z.sub => PathSound(flow, o, Append(rest, z))
      BY <3>5, <3>6, SubCalled
    <3>8. FrameSound(flow, Frame(h, SubFlow.type[h], TRUE)) /\ Frame(h, SubFlow.type[h], TRUE).sub
      BY SubFrame
    <3>9. PathSound(flow, o, Append(rest, Frame(h, SubFlow.type[h], sub)))
      BY <3>1, <3>7, <3>8, Zenon
    <3>10. order'[r] = order[r] /\ (stack'[r] = rest \/ stack'[r] = Append(rest, Frame(h, SubFlow.type[h], sub)))
      <4>. DEFINE z == Frame(h, SubFlow.type[h], sub)
      <4>1. /\ order' = order \/ order' = [order EXCEPT ![r] = order[r]]
            /\ stack' = [stack EXCEPT ![r] = rest] \/ stack' = [stack EXCEPT ![r] = Append(rest, z)]
        BY <2>5, <3>1, Zenon DEF Called
      <4>. HIDE DEF z
      <4>. QED
        BY <1>0, <4>1 DEF RunInv, z
    <3>. QED
      BY <2>1, <3>5, <3>9, <3>10, Zenon DEF o
  <2>6. CASE /\ Top(r).todo = <<>> /\ stack' = [stack EXCEPT ![r] = Front(stack[r])] /\ UNCHANGED order
    <3>1. stack'[r] = Front(s) /\ order'[r] = o
      BY <1>0, <2>6 DEF RunInv, s, o
    <3>2. Last(s).todo = <<>>
      BY <1>4, <2>6, Zenon
    <3>3. CASE Last(s).sub = TRUE
      <4>1. Last(s).sub
        BY <3>3
      <4>2. PathSound(flow, o, Front(s))
        BY <2>1, <4>1, SubReturns
      <4>. QED
        BY <2>1, <3>1, <4>2
    <3>4. CASE Last(s).sub = FALSE
      <4>1. ~Last(s).sub
        BY <3>4
      <4>2. PathSound(flow, o, Front(s))
        BY <1>4, <2>1, <3>2, <4>1, CallReturns
      <4>. QED
        BY <2>1, <3>1, <4>2
    <3>. QED
      BY <2>3, <3>3, <3>4
  <2>. QED
    BY <1>3, <2>3, <2>4, <2>5, <2>6, Zenon
<1>. QED
  BY <1>0, <1>5, <1>7, OthersKept

\* What a failure leaves behind is not a path.
LEMMA ThrowPath ==
  ASSUME RunInv, PathInv, NEW r \in live, Throw(r)
  PROVE  PathInv'
<1>1. r \in Runs /\ Plain(order[r])
  BY LiveFinite DEF RunInv
<1>2. /\ \E z : stack' = [stack EXCEPT ![r] = z]
      /\ outcome' = outcome \/ outcome' = [outcome EXCEPT ![r] = "failed"]
      /\ order' = [order EXCEPT ![r] = Append(order[r], 0)]
      /\ UNCHANGED <<flow, runAbort, stops, edits>>
  BY Thrown DEF Ends
<1>3. \A q \in Runs \ {r} : stack'[q] = stack[q] /\ order'[q] = order[q] /\ outcome'[q] = outcome[q]
  BY <1>1, <1>2 DEF RunInv
<1>4. order'[r] = Append(order[r], 0)
  BY <1>1, <1>2 DEF RunInv
<1>5. 0 \in Range(order'[r])
  BY <1>1, <1>4, RangeGrows
<1>. QED
  BY <1>2, <1>3, <1>5, OthersKept

\* A run begins: it has entered its Start, and nothing else.
LEMMA PathStarts ==
  ASSUME NEW f, WellDrawn(f)
  PROVE  /\ PathSound(f, <<>>, <<>>)
         /\ \A id \in Blocks(f) : f.type[id] = "start" => PathSound(f, <<id>>, <<Frame(id, "start", FALSE)>>)
<1>1. <<>> \in Seq(Blocks(f)) /\ DOMAIN <<>> = {} /\ Len(<<>>) = 0
  OBVIOUS
<1>2. \A b : TimesIn(<<>>, b) = 0
  BY <1>1, TimesAppended
<1>3. PathSound(f, <<>>, <<>>)
  <2>1. \A i, id : ~InCall(<<>>, i, id)
    BY <1>1 DEF InCall
  <2>2. EntersAs(f, <<>>, <<>>)
    <3>1. \A c \in Range(f.conns) : Factor(f, c) * 0 = 0
      BY FactorNat
    <3>. QED
      BY <1>2, <2>1, <3>1 DEF EntersAs
  <2>3. Parts(f, <<>>, <<>>)
    BY <1>2, <2>1 DEF Parts
  <2>4. StackSound(f, <<>>)
    BY <1>1 DEF StackSound
  <2>5. Lined(f, <<>>, <<>>)
    BY <1>1 DEF Lined, WalkSound
  <2>. QED
    BY <1>1, <2>2, <2>3, <2>4, <2>5 DEF PathSound
<1>4. ASSUME NEW id \in Blocks(f), f.type[id] = "start"
      PROVE  PathSound(f, <<id>>, <<Frame(id, "start", FALSE)>>)
  <2>. DEFINE o == <<id>>
              z == Frame(id, "start", FALSE)
              s == <<z>>
  <2>1. FrameSound(f, z) /\ ~z.sub /\ z.node = id /\ z.at = "work"
    BY <1>4 DEF Frame, FrameSound, IsFrame, PageCall
  <2>. HIDE DEF z
  <2>2. DOMAIN s = {1} /\ Len(s) = 1 /\ s[1] = z /\ DOMAIN o = {1} /\ Len(o) = 1 /\ o[1] = id /\ s # <<>> /\ o # <<>>
        /\ o \in Seq(Blocks(f)) /\ o = Append(<<>>, id)
    OBVIOUS
  <2>. HIDE DEF s, o
  <2>3. \A b : TimesIn(o, b) = IF b = id THEN 1 ELSE 0
    <3>1. \A b : TimesIn(Append(<<>>, id), b) = TimesIn(<<>>, b) + IF b = id THEN 1 ELSE 0
      <4>1. \A b : \A u \in Seq(Blocks(f)) : TimesIn(Append(u, id), b) = TimesIn(u, b) + IF b = id THEN 1 ELSE 0
        BY TimesAppended
      <4>. QED
        BY <1>1, <4>1, Zenon
    <3>2. \A b : TimesIn(o, b) = 0 + IF b = id THEN 1 ELSE 0
      BY <1>2, <2>2, <3>1
    <3>. QED
      BY <3>2
  <2>4. \A i, b : InCall(s, i, b) <=> i = 1 /\ b = id
    BY <2>1, <2>2 DEF InCall
  <2>5. \A c \in Range(f.conns) : c.to # id
    BY <1>4, OneInto
  <2>6. \A c \in Range(f.conns) : TakenBy(f, s[1], c) = 0
    BY <2>1, <2>2 DEF TakenBy
  <2>7. EntersAs(f, o, s)
    <3>1. SUFFICES ASSUME NEW c \in Range(f.conns), c.port \notin Branches
          PROVE  /\ (\A i \in DOMAIN s : ~InCall(s, i, c.from)) => TimesIn(o, c.to) = Factor(f, c) * TimesIn(o, c.from)
                 /\ \A i \in DOMAIN s : InCall(s, i, c.from) =>
                      TimesIn(o, c.from) >= 1 /\ TimesIn(o, c.to) = Factor(f, c) * (TimesIn(o, c.from) - 1) + TakenBy(f, s[i], c)
      BY DEF EntersAs
    <3>2. TimesIn(o, c.to) = 0
      BY <2>3, <2>5
    <3>3. Factor(f, c) * 0 = 0 /\ Factor(f, c) * (1 - 1) + 0 = 0
      BY FactorNat
    <3>4. CASE c.from = id
      <4>1. TimesIn(o, c.from) = 1
        BY <2>3, <3>4
      <4>2. InCall(s, 1, c.from) /\ \A i \in DOMAIN s : TakenBy(f, s[i], c) = 0
        BY <2>2, <2>4, <2>6, <3>4
      <4>. QED
        BY <2>2, <3>2, <3>3, <4>1, <4>2
    <3>5. CASE c.from # id
      <4>1. TimesIn(o, c.from) = 0
        BY <2>3, <3>5
      <4>2. \A i \in DOMAIN s : ~InCall(s, i, c.from)
        BY <2>4, <3>5
      <4>. QED
        BY <3>2, <3>3, <4>1, <4>2
    <3>. QED
      BY <3>4, <3>5
  <2>8. Parts(f, o, s)
    <3>1. SUFFICES ASSUME NEW p \in Forks(f)
          PROVE  /\ (\A i \in DOMAIN s : ~InCall(s, i, p[1].from)) => TimesIn(o, p[1].to) + TimesIn(o, p[2].to) = TimesIn(o, p[1].from)
                 /\ \A i \in DOMAIN s : InCall(s, i, p[1].from) =>
                      TimesIn(o, p[1].to) + TimesIn(o, p[2].to) = TimesIn(o, p[1].from) - 1 + IF HasParted(s[i], p) THEN 1 ELSE 0
      BY DEF Parts
    <3>2. p[1] \in Range(f.conns) /\ p[2] \in Range(f.conns)
      BY DEF Forks
    <3>3. TimesIn(o, p[1].to) = 0 /\ TimesIn(o, p[2].to) = 0
      BY <2>3, <2>5, <3>2
    <3>4. CASE p[1].from = id
      <4>1. TimesIn(o, p[1].from) = 1 /\ InCall(s, 1, p[1].from)
        BY <2>3, <2>4, <3>4
      <4>2. \A i \in DOMAIN s : ~HasParted(s[i], p)
        BY <2>1, <2>2 DEF HasParted
      <4>. QED
        BY <2>2, <3>3, <4>1, <4>2
    <3>5. CASE p[1].from # id
      <4>1. TimesIn(o, p[1].from) = 0
        BY <2>3, <3>5
      <4>2. \A i \in DOMAIN s : ~InCall(s, i, p[1].from)
        BY <2>4, <3>5
      <4>. QED
        BY <3>3, <4>1, <4>2
    <3>. QED
      BY <3>4, <3>5
  <2>9. StackSound(f, s)
    <3>1. \A i \in DOMAIN s : i = 1
      BY <2>2
    <3>2. \A i \in 2..Len(s) : FALSE
      BY <2>2
    <3>. QED
      BY <1>4, <2>1, <2>2, <3>1, <3>2 DEF StackSound
  <2>10. WalkSound(f, o)
    <3>1. \A i \in 1..(Len(o) - 1) : FALSE
      BY <2>2
    <3>. QED
      BY <1>4, <2>2, <3>1 DEF WalkSound
  <2>11. WalkGoesOn(f, o, s)
    <3>1. o[Len(o)] = id
      BY <2>2
    <3>2. InCall(s, 1, id) /\ 1 \in DOMAIN s /\ s[1].at # "follow" /\ \A i \in DOMAIN s : s[i].node = id
      BY <2>1, <2>2, <2>4
    <3>. QED
      BY <3>1, <3>2 DEF WalkGoesOn
  <2>12. PathSound(f, o, s)
    BY <2>2, <2>7, <2>8, <2>9, <2>10, <2>11 DEF PathSound, Lined
  <2>. QED
    BY <2>12 DEF o, s, z
<1>. QED
  BY <1>3, <1>4

LEMMA RunWorkflowPath ==
  ASSUME RunInv, PathInv, RunWorkflow
  PROVE  PathInv'
<1>. DEFINE n == starts + 1
<1>1. n \in Runs /\ starts' = n /\ starts \in Nat /\ n > starts
  <2>1. starts \in Nat /\ MaxRuns \in Nat /\ starts < MaxRuns /\ starts' = n
    <3>1. starts \in 0..MaxRuns /\ MaxRuns \in Nat
      BY RunAssumption DEF RunInv
    <3>2. starts < MaxRuns /\ starts' = n
      BY Zenon DEF RunWorkflow
    <3>. HIDE DEF n
    <3>. QED
      BY <3>1, <3>2
  <2>. QED
    BY <2>1 DEF Runs
<1>2. runAbort' = FALSE /\ UNCHANGED <<flow, stops, edits>>
  BY Zenon DEF RunWorkflow
<1>3. order[n] = <<>> /\ outcome[n] = "none"
  BY <1>1 DEF RunInv
<1>4. /\ outcome' = [outcome EXCEPT ![n] = "no start"] \/ outcome' = outcome
      /\ \/ UNCHANGED <<stack, order>>
         \/ \E id \in Blocks(flow) :
              /\ flow.type[id] = "start"
              /\ stack' = [stack EXCEPT ![n] = <<Frame(id, "start", FALSE)>>]
              /\ order' = [order EXCEPT ![n] = <<id>>]
  BY <1>1, Zenon DEF RunWorkflow
<1>. HIDE DEF n
<1>5. \A q \in Runs : outcome'[q] = "ended" => outcome[q] = "ended"
  BY <1>1, <1>4 DEF RunInv
<1>6. (Untouched' <=> Untouched) /\ edits' = edits /\ stops' = stops /\ flow' = flow /\ ~runAbort'
  BY <1>2 DEF Untouched
<1>7. ASSUME Untouched, stops = 0, NEW q \in Runs, 0 \notin Range(order'[q])
      PROVE  PathSound(flow, order'[q], stack'[q]) /\ (outcome'[q] = "ended" => order'[q] # <<>>)
  <2>1. CASE order'[q] = order[q] /\ stack'[q] = stack[q]
    BY <1>5, <1>7, <2>1 DEF PathInv
  <2>2. CASE ~(order'[q] = order[q] /\ stack'[q] = stack[q])
    <3>1. PICK id \in Blocks(flow) :
              /\ flow.type[id] = "start"
              /\ stack' = [stack EXCEPT ![n] = <<Frame(id, "start", FALSE)>>]
              /\ order' = [order EXCEPT ![n] = <<id>>]
      BY <1>4, <2>2
    <3>. DEFINE s == <<Frame(id, "start", FALSE)>>
                o == <<id>>
    <3>2. stack' = [stack EXCEPT ![n] = s] /\ order' = [order EXCEPT ![n] = o]
      BY <3>1
    <3>3. o # <<>>
      OBVIOUS
    <3>4. WellDrawn(flow)
      BY <1>7, RunAssumption DEF PathInv
    <3>5. PathSound(flow, o, s)
      BY <3>1, <3>4, PathStarts, Zenon
    <3>. HIDE DEF s, o
    <3>6. q = n /\ stack'[q] = s /\ order'[q] = o
      BY <1>1, <2>2, <3>2 DEF RunInv
    <3>. QED
      BY <3>3, <3>5, <3>6
  <2>. QED
    BY <2>1, <2>2
<1>. QED
  BY <1>6, <1>7 DEF PathInv

LEMMA StopWorkflowPath ==
  ASSUME RunInv, PathInv, StopWorkflow
  PROVE  PathInv'
<1>1. stops' # 0 /\ edits' = edits
  BY RunAssumption DEF RunInv, StopWorkflow
<1>. QED
  BY <1>1 DEF PathInv

LEMMA RemoveBlockPath ==
  ASSUME PathInv, NEW id, RemoveBlock(id)
  PROVE  PathInv'
<1>1. edits' \in [removals : Nat, connections : Nat] /\ edits'.removals # 0
  BY DEF RemoveBlock, PathInv
<1>. QED
  BY <1>1 DEF PathInv, Untouched

LEMMA ConnectPath ==
  ASSUME PathInv, NEW from, NEW to, NEW port, Connect(from, port, to)
  PROVE  PathInv'
<1>1. edits' \in [removals : Nat, connections : Nat] /\ edits'.connections # 0
  BY DEF Connect, PathInv
<1>. QED
  BY <1>1 DEF PathInv, Untouched

LEMMA RunStepPath ==
  ASSUME RunInv, PathInv, NEW r \in Runs, RunStep(r)
  PROVE  PathInv'
<1>1. r \in live
  BY DEF RunStep, Worked, Iterate, FollowNext, Throw, Turn
<1>. QED
  BY <1>1, WorkedPath, IteratePath, FollowNextPath, ThrowPath DEF RunStep

LEMMA RunInitPath == RunInit => PathInv
<1>. SUFFICES ASSUME RunInit PROVE PathInv
  OBVIOUS
<1>1. WellDrawn(flow) /\ flow \in Flows /\ ~runAbort /\ edits \in [removals : Nat, connections : Nat]
  BY RunAssumption DEF RunInit
<1>2. \A r \in Runs : order[r] = <<>> /\ stack[r] = <<>> /\ outcome[r] # "ended"
  BY DEF RunInit
<1>3. PathSound(flow, <<>>, <<>>)
  BY <1>1, PathStarts
<1>. QED
  BY <1>1, <1>2, <1>3 DEF PathInv

\* Where the server goes on to on a chain.
LEMMA ServerGoesOn ==
  ASSUME NEW f, WellDrawn(f), Chain(f), NEW id
  PROVE  /\ (\A c \in Range(f.conns) : c.from # id) => ServerNext(f, id) = <<>>
         /\ \A c \in Range(f.conns) : c.from = id => ServerNext(f, id) = <<c>>
<1>. DEFINE X == [from : Blocks(f), port : Ports, to : Blocks(f)]
            outs == Among(f.conns, {c \in Range(f.conns) : c.from = id})
            main == Among(outs, {c \in Range(outs) : c.port \in {"out", "out_true"}})
<1>1. f.conns \in Seq(X)
  BY OneInto
<1>2. outs \in Seq(X) /\ \A c : c \in Range(outs) <=> c \in Range(f.conns) /\ c.from = id
  <2>. HIDE DEF X
  <2>. QED
    BY <1>1, AmongIsPart
<1>3. main \in Seq(X) /\ \A c : c \in Range(main) <=> c \in Range(outs) /\ c.port \in {"out", "out_true"}
  <2>. HIDE DEF X, outs
  <2>. QED
    BY <1>2, AmongIsPart
<1>4. ServerNext(f, id) = FirstOf(main \o outs)
  BY DEF ServerNext
<1>. HIDE DEF X, outs, main
<1>5. ASSUME \A c \in Range(f.conns) : c.from # id PROVE ServerNext(f, id) = <<>>
  <2>1. \A c : c \notin Range(outs) /\ c \notin Range(main)
    BY <1>2, <1>3, <1>5
  <2>2. \A s \in Seq(X) : (\A c : c \notin Range(s)) => s = <<>>
    <3>1. SUFFICES ASSUME NEW s \in Seq(X), s # <<>> PROVE s[1] \in Range(s)
      BY Zenon
    <3>2. DOMAIN s = 1..Len(s) /\ Len(s) \in Nat \ {0}
      BY <3>1
    <3>3. 1 \in DOMAIN s
      BY <3>2
    <3>. QED
      BY <3>3 DEF Range
  <2>3. outs = <<>> /\ main = <<>>
    BY <1>2, <1>3, <2>1, <2>2
  <2>4. main \o outs = <<>>
    BY <2>3
  <2>. QED
    BY <1>4, <2>4 DEF FirstOf
<1>6. ASSUME NEW c \in Range(f.conns), c.from = id PROVE ServerNext(f, id) = <<c>>
  <2>1. c.port = "out" /\ \A d \in Range(f.conns) : d.from = id => d = c
    BY <1>6 DEF Chain
  <2>2. c \in Range(main) /\ \A d \in Range(main) : d = c
    BY <1>2, <1>3, <1>6, <2>1
  <2>3. main # <<>> /\ main[1] \in Range(main)
    <3>1. DOMAIN main = 1..Len(main) /\ Len(main) \in Nat
      BY <1>3
    <3>2. PICK i \in DOMAIN main : main[i] = c
      BY <2>2 DEF Range
    <3>3. 1 \in DOMAIN main
      BY <3>1, <3>2
    <3>. QED
      BY <3>1, <3>3 DEF Range
  <2>4. main[1] = c
    BY <2>2, <2>3
  <2>5. main \o outs # <<>> /\ Head(main \o outs) = main[1]
    BY <1>2, <1>3, <2>3
  <2>. QED
    BY <1>4, <2>4, <2>5 DEF FirstOf
<1>. QED
  BY <1>5, <1>6

\* What the runner promises of a run that nothing disturbed.
LEMMA PathInvSound == RunInv /\ PathInv => PathsTaken /\ ServerAgrees
<1>. SUFFICES ASSUME RunInv, PathInv PROVE PathsTaken /\ ServerAgrees
  OBVIOUS
<1>1. ASSUME Untouched, stops = 0, NEW r \in Runs, outcome[r] = "ended", 0 \notin Range(order[r])
      PROVE  PathSound(flow, order[r], <<>>) /\ WellDrawn(flow) /\ order[r] # <<>>
  <2>1. stack[r] = <<>>
    BY <1>1 DEF RunInv
  <2>. QED
    BY <1>1, <2>1, RunAssumption DEF PathInv
<1>2. ASSUME NEW i, NEW id PROVE ~InCall(<<>>, i, id)
  BY DEF InCall
<1>3. PathsTaken
  <2>1. SUFFICES ASSUME Untouched, stops = 0, NEW r \in Runs, outcome[r] = "ended", 0 \notin Range(order[r])
        PROVE /\ \A c \in Range(flow.conns) :
                   c.port \notin {"out_true", "out_false"} =>
                     Times(r, c.to) = Factor(flow, c) * Times(r, c.from)
              /\ \A id \in Blocks(flow) : flow.type[id] \in {"test", "diff"} =>
                   \A t, e \in Range(flow.conns) :
                     t.from = id /\ e.from = id /\ t.port = "out_true" /\ e.port = "out_false" =>
                       Times(r, t.to) + Times(r, e.to) = Times(r, id)
    BY DEF PathsTaken
  <2>. DEFINE o == order[r]
  <2>2. EntersAs(flow, o, <<>>) /\ Parts(flow, o, <<>>)
    BY <1>1, <2>1 DEF PathSound
  <2>3. \A id : Times(r, id) = TimesIn(o, id)
    BY DEF Times, TimesIn
  <2>. HIDE DEF o
  <2>4. \A c \in Range(flow.conns) : c.port \notin Branches => TimesIn(o, c.to) = Factor(flow, c) * TimesIn(o, c.from)
    BY <1>2, <2>2 DEF EntersAs
  <2>5. ASSUME NEW t \in Range(flow.conns), NEW e \in Range(flow.conns),
               t.from = e.from, t.port = "out_true", e.port = "out_false"
        PROVE  TimesIn(o, t.to) + TimesIn(o, e.to) = TimesIn(o, t.from)
    <3>1. <<t, e>> \in Forks(flow)
      BY <2>5 DEF Forks
    <3>. QED
      BY <1>2, <2>2, <3>1 DEF Parts
  <2>. QED
    BY <2>3, <2>4, <2>5 DEF Branches
<1>4. ServerAgrees
  <2>1. SUFFICES ASSUME Untouched, stops = 0, Chain(flow), NEW r \in Runs, outcome[r] = "ended", 0 \notin Range(order[r])
        PROVE  ServerWalk(flow, order[r])
    BY DEF ServerAgrees
  <2>. DEFINE o == order[r]
              n == Len(o)
  <2>2. PathSound(flow, o, <<>>) /\ WellDrawn(flow) /\ o # <<>>
    BY <1>1, <2>1
  <2>. HIDE DEF o
  <2>3. o \in Seq(Blocks(flow)) /\ WalkSound(flow, o) /\ WalkGoesOn(flow, o, <<>>)
    BY <2>1, <2>2 DEF PathSound, Lined
  <2>4. n \in Nat \ {0} /\ DOMAIN o = 1..n /\ Head(o) = o[1] /\ o[1] \in Blocks(flow)
    BY <2>2, <2>3
  <2>5. \A c \in Range(flow.conns) : c.from # o[n]
    <3>1. \A i \in DOMAIN <<>> : ~InCall(<<>>, i, o[n])
      BY <1>2
    <3>. QED
      BY <2>3, <3>1 DEF WalkGoesOn
  <2>6. ServerStops(o, ServerNext(flow, o[n]))
    BY <2>1, <2>2, <2>5, ServerGoesOn DEF ServerStops
  <2>7. ASSUME NEW k \in 1..n, k # n
        PROVE  ~ServerStops(SubSeq(o, 1, k), ServerNext(flow, o[k])) /\ o[k + 1] = Head(ServerNext(flow, o[k])).to
    <3>. HIDE DEF n
    <3>1. k \in 1..(n - 1) /\ k + 1 \in 1..n /\ k \in Nat /\ k <= n
      <4>1. n \in Nat \ {0} /\ k \in 1..n /\ k # n
        BY <2>4, <2>7
      <4>. QED
        BY <4>1
    <3>2. PICK c \in Range(flow.conns) : c.from = o[k] /\ c.to = o[k + 1]
      BY <2>3, <3>1 DEF WalkSound, n
    <3>3. ServerNext(flow, o[k]) = <<c>>
      BY <2>1, <2>2, <3>2, ServerGoesOn
    <3>4. Range(SubSeq(o, 1, k)) = {o[j] : j \in 1..k}
      <4>1. DOMAIN SubSeq(o, 1, k) = 1..k /\ \A j \in 1..k : SubSeq(o, 1, k)[j] = o[j]
        BY <2>3, <3>1 DEF n
      <4>. QED
        BY <4>1 DEF Range
    <3>5. o[k + 1] \notin Range(SubSeq(o, 1, k))
      <4>1. \A j \in 1..k : j \in 1..n /\ j # k + 1
        BY <2>4, <3>1
      <4>2. \A j \in 1..k : o[j] # o[k + 1]
        BY <2>3, <2>4, <3>1, <4>1 DEF WalkSound
      <4>. QED
        BY <3>4, <4>2
    <3>. QED
      BY <3>2, <3>3, <3>5 DEF ServerStops
  <2>8. ServerWalk(flow, o)
    <3>1. flow.type[o[1]] = "start"
      BY <2>2, <2>3 DEF WalkSound
    <3>. QED
      BY <2>2, <2>4, <2>6, <2>7, <3>1 DEF ServerWalk
  <2>. QED
    BY <2>8 DEF o
<1>. QED
  BY <1>3, <1>4

---------------------------------------------------------------------------
(* Saved workflows. *)

Drawings == {g \in Graphs : g.of # 0 /\ g.v # 0}
Request == [kind : {"none", "POST", "PUT", "GET", "DELETE"}, id : Workflows \union {NoId}, graph : Graphs,
            state : {"sent", "served", "over"}, ok : BOOLEAN]
\* A request that is under way.
Under(r, kind) == r.kind = kind /\ r.state \in {"sent", "served"}
KnownOne(r, n) ==
  /\ r.kind = "none" <=> r.state = "over"
  /\ r.kind \in {"PUT", "GET", "DELETE"} => r.id \in 1..n
  /\ Under(r, "POST") /\ r.state = "sent" => r.id = NoId
  /\ Under(r, "POST") /\ r.state = "served" => r.id \in 1..n /\ r.ok
  /\ r.kind \in {"POST", "PUT"} => r.graph \in Drawings
  /\ r.kind = "GET" /\ r.state = "served" /\ r.ok => r.graph \in Drawings
Known(rs, n) == \A q \in Requests : KnownOne(rs[q], n)

\* A save that is under way writes the drawing the row is of, and what the page takes for the row of
\* its canvas is of the same drawing.
DrawingInv ==
  ~strayed =>
    /\ \A w \in 1..made : table[w] # Gone => table[w].of = owner[w]
    /\ savedId # NoId => draft.of = owner[savedId]
    /\ \A q \in Requests :
         /\ Under(requests[q], "PUT") => requests[q].graph.of = owner[requests[q].id]
         /\ Under(requests[q], "POST") /\ requests[q].state = "served" => requests[q].graph.of = owner[requests[q].id]
         /\ Under(requests[q], "GET") /\ requests[q].state = "served" /\ requests[q].ok => requests[q].graph.of = owner[requests[q].id]
         /\ Under(requests[q], "POST") /\ savedId = NoId => requests[q].graph.of = draft.of

\* A workflow that is gone, and not by a crossing, is one the page has yet to hear of.
RowInv ==
  /\ savedId # NoId /\ savedId \notin crossed /\ table[savedId] = Gone =>
       \E q \in Requests : Under(requests[q], "DELETE") /\ requests[q].state = "served" /\ requests[q].id = savedId
  /\ \A q \in Requests : requests[q].state = "served" /\ requests[q].kind \in {"GET", "POST"} /\ requests[q].ok =>
       requests[q].id \in crossed \/ table[requests[q].id] # Gone
  /\ \A p, q \in Requests :
       Under(requests[p], "DELETE") /\ (Under(requests[q], "GET") \/ Under(requests[q], "POST")) /\ requests[p].id = requests[q].id =>
         requests[p].id \in crossed

\* With one save at a time, what is not there yet is on its way.
LastInv ==
  alone =>
    /\ \A p, q \in Requests :
         (Under(requests[p], "PUT") \/ Under(requests[p], "POST")) /\ (Under(requests[q], "PUT") \/ Under(requests[q], "POST")) => p = q
    /\ \A q \in Requests : Under(requests[q], "PUT") /\ requests[q].state = "sent" => requests[q].graph = last[requests[q].id]
    /\ \A w \in 1..made :
         table[w] # Gone /\ last[w] # Gone
           /\ (\A q \in Requests : Under(requests[q], "PUT") /\ requests[q].state = "sent" => requests[q].id # w) => table[w] = last[w]

SavedInv ==
  /\ table \in [Workflows -> Drawings \union {Gone}] /\ last \in [Workflows -> Graphs] /\ owner \in [Workflows -> 0..2]
  /\ made \in 1..MaxRows /\ \A w \in Workflows : w > made => table[w] = Gone
  /\ savedId \in 1..made \union {NoId}
  /\ draft \in Drawings /\ drafts \in 1..MaxDrafts
  /\ requests \in [Requests -> Request] /\ sent \in 0..MaxRequests
  /\ \A q \in Requests : q > sent => requests[q] = NoRequest
  /\ alone \in BOOLEAN /\ strayed \in BOOLEAN /\ crossed \subseteq 1..made
  /\ Known(requests, made)
  /\ DrawingInv /\ RowInv /\ LastInv

LEMMA SavedTypes ==
  ASSUME SavedInv
  PROVE  /\ made \in 1..MaxRows /\ 1..made \subseteq Workflows /\ MaxRows \in Nat /\ MaxRequests \in Nat /\ MaxDrafts \in Nat
         /\ Gone \in Graphs /\ Gone \notin Drawings /\ Drawings \subseteq Graphs
         /\ NoRequest \in Request /\ NoId \notin Workflows
         /\ \A g \in Graphs : g.of \in 0..2 /\ g.v \in 0..MaxDrafts
<1>1. made \in 1..MaxRows /\ MaxRows \in Nat /\ MaxRequests \in Nat /\ MaxDrafts \in Nat /\ NoId \notin Nat
  BY SavedAssumption DEF SavedInv
<1>2. 1..made \subseteq Workflows /\ NoId \notin Workflows
  BY <1>1 DEF Workflows
<1>3. Gone \in Graphs /\ Gone \notin Drawings /\ Drawings \subseteq Graphs /\ \A g \in Graphs : g.of \in 0..2 /\ g.v \in 0..MaxDrafts
  BY <1>1 DEF Gone, Graph, Graphs, Drawings
<1>. QED
  BY <1>1, <1>2, <1>3 DEF NoRequest, Request

\* What a row of requests is when one of them changes.
Becomes(q, r) ==
  /\ requests' \in [Requests -> Request] /\ requests'[q] = r
  /\ \A p \in Requests : p # q => requests'[p] = requests[p]

\* A request that is sent takes a place that was free.
LEMMA SentOne ==
  ASSUME SavedInv, NEW kind \in {"POST", "PUT", "GET", "DELETE"}, NEW id \in Workflows \union {NoId}, NEW graph \in Graphs,
         Send(kind, id, graph)
  PROVE  \E q \in Requests, r \in Request :
           /\ r.kind = kind /\ r.id = id /\ r.graph = graph /\ r.state = "sent"
           /\ requests[q] = NoRequest /\ Becomes(q, r)
           /\ sent' \in 0..MaxRequests /\ \A p \in Requests : p > sent' => requests'[p] = NoRequest
<1>. DEFINE q == sent'
            r == [kind |-> kind, id |-> id, graph |-> graph, state |-> "sent", ok |-> FALSE]
<1>1. sent \in 0..MaxRequests /\ sent' = sent + 1 /\ sent < MaxRequests /\ MaxRequests \in Nat
  BY SavedTypes DEF Send, SavedInv
<1>2. q \in Requests /\ q > sent /\ \A p \in Requests : p > q => p > sent /\ p # q
  BY <1>1 DEF Requests
<1>3. r \in Request
  BY DEF Request
<1>4. requests' = [requests EXCEPT ![q] = r] /\ requests \in [Requests -> Request]
  BY DEF Send, SavedInv
<1>5. r.kind = kind /\ r.id = id /\ r.graph = graph /\ r.state = "sent"
  OBVIOUS
<1>6. requests[q] = NoRequest /\ \A p \in Requests : p > q => requests[p] = NoRequest
  BY <1>2 DEF SavedInv
<1>. HIDE DEF r
<1>7. Becomes(q, r)
  BY <1>2, <1>3, <1>4 DEF Becomes
<1>8. \A p \in Requests : p > q => requests'[p] = NoRequest
  BY <1>2, <1>6, <1>7 DEF Becomes
<1>9. q \in 0..MaxRequests
  BY <1>1
<1>. HIDE DEF q
<1>. QED
  BY <1>2, <1>3, <1>5, <1>6, <1>7, <1>8, <1>9 DEF q

LEMMA EditInv == SavedInv /\ Edit => SavedInv'
<1>. SUFFICES ASSUME SavedInv, Edit PROVE SavedInv'
  OBVIOUS
<1>1. drafts' = drafts + 1 /\ drafts \in 1..MaxDrafts /\ drafts < MaxDrafts /\ draft \in Drawings /\ MaxDrafts \in Nat
  BY SavedTypes DEF SavedInv, Edit
<1>2. draft' \in Drawings /\ draft'.of = draft.of
  BY <1>1 DEF Edit, Drawings, Graphs
<1>3. drafts' \in 1..MaxDrafts
  BY <1>1
<1>4. UNCHANGED <<table, made, savedId, requests, sent, last, alone, strayed, owner, crossed>>
  BY DEF Edit
<1>5. DrawingInv'
  BY <1>2, <1>4 DEF SavedInv, DrawingInv, Under
<1>6. RowInv' /\ LastInv' /\ Known(requests, made)'
  BY <1>4 DEF SavedInv, RowInv, LastInv, Known, KnownOne, Under
<1>. QED
  BY <1>2, <1>3, <1>4, <1>5, <1>6 DEF SavedInv

LEMMA ClickSaveInv == SavedInv /\ ClickSave => SavedInv'
<1>. SUFFICES ASSUME SavedInv, ClickSave PROVE SavedInv'
  OBVIOUS
<1>. DEFINE kind == IF savedId = NoId THEN "POST" ELSE "PUT"
<1>0. draft \in Drawings /\ draft \in Graphs /\ savedId \in 1..made \union {NoId} /\ NoId \notin 1..made /\ savedId \in Workflows \union {NoId}
  BY SavedTypes DEF SavedInv
<1>1. Send(kind, savedId, draft)
  BY DEF ClickSave
<1>2. kind \in {"POST", "PUT"} /\ (kind = "POST" <=> savedId = NoId)
  OBVIOUS
<1>. HIDE DEF kind
<1>3. PICK q \in Requests, r \in Request :
        /\ r.kind = kind /\ r.id = savedId /\ r.graph = draft /\ r.state = "sent"
        /\ requests[q] = NoRequest /\ Becomes(q, r)
        /\ sent' \in 0..MaxRequests /\ \A p \in Requests : p > sent' => requests'[p] = NoRequest
  BY <1>0, <1>1, <1>2, SentOne
<1>4. /\ UNCHANGED <<table, made, savedId, draft, drafts, strayed, owner, crossed>>
      /\ last' = IF savedId = NoId THEN last ELSE [last EXCEPT ![savedId] = draft]
      /\ alone' = (alone /\ \A p \in Pending : requests[p].kind \notin {"POST", "PUT"})
  BY DEF ClickSave
<1>10. savedId # NoId => savedId \in Workflows
  BY <1>0, SavedTypes
<1>5. /\ last' \in [Workflows -> Graphs]
      /\ \A w \in Workflows : w # savedId => last'[w] = last[w]
      /\ savedId # NoId => last'[savedId] = draft
  BY <1>0, <1>4, <1>10 DEF SavedInv
<1>11. alone' \in BOOLEAN
  BY <1>4 DEF SavedInv
<1>6. Known(requests', made')
  <2>1. KnownOne(r, made)
    BY <1>0, <1>2, <1>3 DEF KnownOne, Under
  <2>. QED
    BY <1>3, <1>4, <2>1 DEF SavedInv, Known, Becomes
<1>7. DrawingInv'
  BY <1>0, <1>2, <1>3, <1>4 DEF SavedInv, DrawingInv, Under, Becomes, NoRequest
<1>8. RowInv'
  BY <1>0, <1>2, <1>3, <1>4 DEF SavedInv, RowInv, Under, Becomes, NoRequest, Known, KnownOne
<1>9. LastInv'
  <2>1. SUFFICES ASSUME alone' PROVE LastInv'
    BY DEF LastInv
  <2>2. alone /\ \A p \in Requests : ~Under(requests[p], "PUT") /\ ~Under(requests[p], "POST")
    BY <1>4, <2>1 DEF Pending, Under
  <2>3. \A p \in Requests : p # q => ~Under(requests'[p], "PUT") /\ ~Under(requests'[p], "POST")
    BY <1>3, <2>2 DEF Becomes
  <2>4. requests'[q] = r /\ r.kind = kind /\ r.id = savedId /\ r.graph = draft /\ r.state = "sent"
    BY <1>3 DEF Becomes
  <2>5. \A w \in 1..made : table[w] # Gone /\ last[w] # Gone => table[w] = last[w]
    BY <2>2 DEF SavedInv, LastInv
  <2>6. ASSUME NEW w \in 1..made', table'[w] # Gone, last'[w] # Gone,
               \A p \in Requests : Under(requests'[p], "PUT") /\ requests'[p].state = "sent" => requests'[p].id # w
        PROVE  table'[w] = last'[w]
    <3>1. CASE kind = "PUT"
      <4>1. Under(r, "PUT")
        BY <2>4, <3>1 DEF Under
      <4>2. w # savedId /\ w \in Workflows
        BY <1>4, <2>4, <2>6, <4>1, SavedTypes
      <4>. QED
        BY <1>4, <1>5, <2>5, <2>6, <4>2
    <3>2. CASE kind = "POST"
      BY <1>2, <1>4, <2>5, <2>6, <3>2
    <3>. QED
      BY <1>2, <3>1, <3>2
  <2>7. \A p \in Requests : Under(requests'[p], "PUT") /\ requests'[p].state = "sent" => requests'[p].graph = last'[requests'[p].id]
    <3>1. kind = "PUT" => draft = last'[savedId]
      <4>1. kind = "PUT" => savedId # NoId
        BY <1>2
      <4>2. savedId # NoId => last'[savedId] = draft
        BY <1>5
      <4>. QED
        BY <4>1, <4>2
    <3>2. Under(requests'[q], "PUT") => kind = "PUT"
      BY <2>4 DEF Under
    <3>. QED
      BY <2>3, <2>4, <3>1, <3>2
  <2>8. \A p1, p2 \in Requests :
          (Under(requests'[p1], "PUT") \/ Under(requests'[p1], "POST")) /\ (Under(requests'[p2], "PUT") \/ Under(requests'[p2], "POST")) => p1 = p2
    BY <2>3
  <2>. QED
    BY <2>6, <2>7, <2>8 DEF LastInv, Under
<1>. QED
  BY <1>3, <1>4, <1>5, <1>6, <1>7, <1>8, <1>9, <1>11 DEF SavedInv, Becomes

LEMMA ClickLoadInv == SavedInv /\ (\E w \in Workflows : ClickLoad(w)) => SavedInv'
<1>. SUFFICES ASSUME SavedInv, NEW w \in Workflows, ClickLoad(w) PROVE SavedInv'
  OBVIOUS
<1>1. w \in 1..made /\ Send("GET", w, Gone)
  BY DEF ClickLoad
<1>2. PICK q \in Requests, r \in Request :
        /\ r.kind = "GET" /\ r.id = w /\ r.graph = Gone /\ r.state = "sent"
        /\ requests[q] = NoRequest /\ Becomes(q, r)
        /\ sent' \in 0..MaxRequests /\ \A p \in Requests : p > sent' => requests'[p] = NoRequest
  BY <1>1, SavedTypes, SentOne
<1>3. UNCHANGED <<table, made, savedId, draft, drafts, last, alone, strayed, owner>>
  BY DEF ClickLoad
<1>4. /\ crossed \subseteq crossed' /\ crossed' \subseteq 1..made
      /\ \A p \in Requests : Under(requests[p], "DELETE") /\ requests[p].id = w => w \in crossed'
  BY <1>1 DEF ClickLoad, SavedInv, Pending, Under
<1>5. Known(requests', made')
  <2>1. KnownOne(r, made)
    BY <1>1, <1>2 DEF KnownOne, Under
  <2>. QED
    BY <1>2, <1>3, <2>1 DEF SavedInv, Known, Becomes
<1>6. DrawingInv'
  BY <1>2, <1>3 DEF SavedInv, DrawingInv, Under, Becomes
<1>7. RowInv'
  <2>0. RowInv /\ requests'[q] = r /\ \A p \in Requests : p # q => requests'[p] = requests[p]
    BY <1>2 DEF SavedInv, Becomes
  <2>1. \A p \in Requests : \A k : Under(requests[p], k) => Under(requests'[p], k) /\ requests'[p] = requests[p]
    BY <1>2, <2>0 DEF Under, NoRequest
  <2>2. savedId # NoId /\ savedId \notin crossed' /\ table[savedId] = Gone =>
          \E p \in Requests : Under(requests'[p], "DELETE") /\ requests'[p].state = "served" /\ requests'[p].id = savedId
    BY <1>4, <2>0, <2>1 DEF RowInv
  <2>3. \A p \in Requests : requests'[p].state = "served" /\ requests'[p].kind \in {"GET", "POST"} /\ requests'[p].ok =>
          requests'[p].id \in crossed' \/ table[requests'[p].id] # Gone
    BY <1>2, <1>4, <2>0 DEF RowInv
  <2>4. \A p, p1 \in Requests :
          Under(requests'[p], "DELETE") /\ (Under(requests'[p1], "GET") \/ Under(requests'[p1], "POST")) /\ requests'[p].id = requests'[p1].id =>
            requests'[p].id \in crossed'
    <3>. SUFFICES ASSUME NEW p \in Requests, NEW p1 \in Requests, Under(requests'[p], "DELETE"),
                         Under(requests'[p1], "GET") \/ Under(requests'[p1], "POST"), requests'[p].id = requests'[p1].id
                  PROVE  requests'[p].id \in crossed'
      OBVIOUS
    <3>1. p # q /\ requests'[p] = requests[p]
      BY <1>2, <2>0 DEF Under
    <3>2. CASE p1 = q
      BY <1>2, <1>4, <2>0, <3>1, <3>2
    <3>3. CASE p1 # q
      <4>1. requests'[p1] = requests[p1]
        BY <2>0, <3>3
      <4>. QED
        BY <1>4, <2>0, <3>1, <4>1 DEF RowInv
    <3>. QED
      BY <3>2, <3>3
  <2>. QED
    BY <1>3, <2>2, <2>3, <2>4 DEF RowInv, Under
<1>8. LastInv'
  BY <1>2, <1>3 DEF SavedInv, LastInv, Under, Becomes, NoRequest
<1>. QED
  BY <1>2, <1>3, <1>4, <1>5, <1>6, <1>7, <1>8 DEF SavedInv, Becomes

LEMMA ClickDeleteInv == SavedInv /\ (\E w \in Workflows : ClickDelete(w)) => SavedInv'
<1>. SUFFICES ASSUME SavedInv, NEW w \in Workflows, ClickDelete(w) PROVE SavedInv'
  OBVIOUS
<1>1. w \in 1..made /\ Send("DELETE", w, Gone)
  BY DEF ClickDelete
<1>2. PICK q \in Requests, r \in Request :
        /\ r.kind = "DELETE" /\ r.id = w /\ r.graph = Gone /\ r.state = "sent"
        /\ requests[q] = NoRequest /\ Becomes(q, r)
        /\ sent' \in 0..MaxRequests /\ \A p \in Requests : p > sent' => requests'[p] = NoRequest
  BY <1>1, SavedTypes, SentOne
<1>3. UNCHANGED <<table, made, savedId, draft, drafts, last, alone, strayed, owner>>
  BY DEF ClickDelete
<1>4. /\ crossed \subseteq crossed' /\ crossed' \subseteq 1..made
      /\ \A p \in Requests : (Under(requests[p], "GET") \/ Under(requests[p], "POST")) /\ requests[p].id = w => w \in crossed'
  BY <1>1 DEF ClickDelete, SavedInv, Pending, Under
<1>5. Known(requests', made')
  <2>1. KnownOne(r, made)
    BY <1>1, <1>2 DEF KnownOne, Under
  <2>. QED
    BY <1>2, <1>3, <2>1 DEF SavedInv, Known, Becomes
<1>6. DrawingInv'
  BY <1>2, <1>3 DEF SavedInv, DrawingInv, Under, Becomes
<1>7. RowInv'
  <2>0. RowInv /\ requests'[q] = r /\ \A p \in Requests : p # q => requests'[p] = requests[p]
    BY <1>2 DEF SavedInv, Becomes
  <2>1. \A p \in Requests : \A k : Under(requests[p], k) => Under(requests'[p], k) /\ requests'[p] = requests[p]
    BY <1>2, <2>0 DEF Under, NoRequest
  <2>2. savedId # NoId /\ savedId \notin crossed' /\ table[savedId] = Gone =>
          \E p \in Requests : Under(requests'[p], "DELETE") /\ requests'[p].state = "served" /\ requests'[p].id = savedId
    BY <1>4, <2>0, <2>1 DEF RowInv
  <2>3. \A p \in Requests : requests'[p].state = "served" /\ requests'[p].kind \in {"GET", "POST"} /\ requests'[p].ok =>
          requests'[p].id \in crossed' \/ table[requests'[p].id] # Gone
    BY <1>2, <1>4, <2>0 DEF RowInv
  <2>4. \A p, p1 \in Requests :
          Under(requests'[p], "DELETE") /\ (Under(requests'[p1], "GET") \/ Under(requests'[p1], "POST")) /\ requests'[p].id = requests'[p1].id =>
            requests'[p].id \in crossed'
    <3>. SUFFICES ASSUME NEW p \in Requests, NEW p1 \in Requests, Under(requests'[p], "DELETE"),
                         Under(requests'[p1], "GET") \/ Under(requests'[p1], "POST"), requests'[p].id = requests'[p1].id
                  PROVE  requests'[p].id \in crossed'
      OBVIOUS
    <3>1. p1 # q /\ requests'[p1] = requests[p1]
      BY <1>2, <2>0 DEF Under
    <3>2. CASE p = q
      BY <1>2, <1>4, <2>0, <3>1, <3>2
    <3>3. CASE p # q
      <4>1. requests'[p] = requests[p]
        BY <2>0, <3>3
      <4>. QED
        BY <1>4, <2>0, <3>1, <4>1 DEF RowInv
    <3>. QED
      BY <3>2, <3>3
  <2>. QED
    BY <1>3, <2>2, <2>3, <2>4 DEF RowInv, Under
<1>8. LastInv'
  BY <1>2, <1>3 DEF SavedInv, LastInv, Under, Becomes, NoRequest
<1>. QED
  BY <1>2, <1>3, <1>4, <1>5, <1>6, <1>7, <1>8 DEF SavedInv, Becomes

\* A request that is served is the same request with an answer.
LEMMA ServedOne ==
  ASSUME SavedInv, NEW q \in Requests, NEW ok \in BOOLEAN, NEW id \in Workflows \union {NoId}, NEW graph \in Graphs,
         requests[q].state = "sent", Served(q, ok, id, graph)
  PROVE  \E r \in Request :
           /\ r.kind = requests[q].kind /\ r.id = id /\ r.graph = graph /\ r.state = "served" /\ r.ok = ok
           /\ Becomes(q, r) /\ \A p \in Requests : p > sent => requests'[p] = NoRequest
<1>. DEFINE r == [kind |-> requests[q].kind, id |-> id, graph |-> graph, state |-> "served", ok |-> ok]
<1>1. requests \in [Requests -> Request] /\ requests[q] \in Request
  BY DEF SavedInv
<1>2. r \in Request
  BY <1>1 DEF Request
<1>3. requests' = [requests EXCEPT ![q] = r]
  BY <1>1 DEF Served
<1>4. r.kind = requests[q].kind /\ r.id = id /\ r.graph = graph /\ r.state = "served" /\ r.ok = ok
  OBVIOUS
<1>. HIDE DEF r
<1>5. Becomes(q, r)
  BY <1>1, <1>2, <1>3 DEF Becomes
<1>6. \A p \in Requests : p > sent => requests'[p] = NoRequest
  BY <1>5 DEF SavedInv, Becomes, NoRequest
<1>. QED
  BY <1>2, <1>4, <1>5, <1>6

LEMMA ServePostInv == ASSUME SavedInv, NEW q \in Requests, ServePost(q) PROVE SavedInv'
<1>. DEFINE w == made + 1
            g == requests[q].graph
<1>0. requests[q] \in Request /\ requests[q].kind = "POST" /\ requests[q].state = "sent" /\ g \in Drawings /\ Under(requests[q], "POST")
  BY DEF SavedInv, ServePost, Known, KnownOne, Under
<1>1. w \in Workflows /\ w \in 1..MaxRows /\ w \notin 1..made /\ 1..w = 1..made \union {w} /\ w # NoId
  BY SavedTypes DEF ServePost, Workflows
<1>2. made' = w /\ Served(q, TRUE, w, g) /\ UNCHANGED <<savedId, draft, drafts, sent, alone, strayed, crossed>>
      /\ table' = [table EXCEPT ![w] = g] /\ last' = [last EXCEPT ![w] = g] /\ owner' = [owner EXCEPT ![w] = g.of]
  BY DEF ServePost
<1>3. g \in Graphs /\ g.of \in 0..2
  BY <1>0, SavedTypes
<1>4. PICK r \in Request :
        /\ r.kind = "POST" /\ r.id = w /\ r.graph = g /\ r.state = "served" /\ r.ok = TRUE
        /\ Becomes(q, r) /\ \A p \in Requests : p > sent => requests'[p] = NoRequest
  <2>. DEFINE yes == TRUE
  <2>1. Served(q, yes, w, g) /\ requests[q].state = "sent" /\ yes \in BOOLEAN
    BY <1>0, <1>2
  <2>2. w \in Workflows \union {NoId}
    BY <1>1
  <2>. HIDE DEF w, g, yes
  <2>3. \E r \in Request :
           /\ r.kind = requests[q].kind /\ r.id = w /\ r.graph = g /\ r.state = "served" /\ r.ok = yes
           /\ Becomes(q, r) /\ \A p \in Requests : p > sent => requests'[p] = NoRequest
    BY <1>3, <2>1, <2>2, ServedOne
  <2>. QED
    BY <1>0, <2>3 DEF yes
<1>. HIDE DEF w, g
<1>5. /\ table' \in [Workflows -> Drawings \union {Gone}] /\ last' \in [Workflows -> Graphs] /\ owner' \in [Workflows -> 0..2]
      /\ table'[w] = g /\ last'[w] = g /\ owner'[w] = g.of
      /\ \A x \in Workflows : x # w => table'[x] = table[x] /\ last'[x] = last[x] /\ owner'[x] = owner[x]
  BY <1>0, <1>1, <1>2, <1>3 DEF SavedInv
<1>6. \A x \in 1..made : x \in Workflows /\ x # w
  BY <1>1, SavedTypes
<1>7. Known(requests', made')
  <2>1. KnownOne(r, w)
    BY <1>0, <1>1, <1>4 DEF KnownOne, Under
  <2>2. \A x : KnownOne(x, made) => KnownOne(x, w)
    BY <1>1 DEF KnownOne
  <2>. QED
    BY <1>2, <1>4, <2>1, <2>2 DEF SavedInv, Known, Becomes
<1>8. savedId \in 1..made' \union {NoId} /\ crossed \subseteq 1..made' /\ \A x \in Workflows : x > made' => table'[x] = Gone
  <2>1. \A x \in Workflows : x > w => x > made /\ x # w
    BY <1>1, SavedTypes DEF Workflows, w
  <2>. QED
    BY <1>1, <1>2, <1>5, <2>1 DEF SavedInv
<1>9. \A p \in Requests : requests[p].kind \in {"PUT", "GET", "DELETE"} => requests[p].id \in 1..made
  BY DEF SavedInv, Known, KnownOne
<1>10. \A p \in Requests : Under(requests[p], "POST") => (requests[p].state = "served" /\ requests[p].id \in 1..made) \/ requests[p].id = NoId
  BY DEF SavedInv, Known, KnownOne, Under
<1>11. DrawingInv'
  <2>1. SUFFICES ASSUME ~strayed' PROVE DrawingInv'
    BY DEF DrawingInv
  <2>2. ~strayed /\ savedId' = savedId /\ draft' = draft /\ made' = w
    BY <1>2, <2>1
  <2>3. requests'[q] = r /\ (\A p \in Requests : p # q => requests'[p] = requests[p]) /\ requests[q].graph = g
    BY <1>4 DEF Becomes, g
  <2>4. \A x \in 1..made' : table'[x] # Gone => table'[x].of = owner'[x]
    BY <1>1, <1>5, <1>6, <2>2 DEF SavedInv, DrawingInv
  <2>5. savedId' # NoId => draft'.of = owner'[savedId']
    BY <1>5, <1>6, <2>2 DEF SavedInv, DrawingInv
  <2>6. ASSUME NEW p \in Requests
        PROVE  /\ Under(requests'[p], "PUT") => requests'[p].graph.of = owner'[requests'[p].id]
               /\ Under(requests'[p], "POST") /\ requests'[p].state = "served" => requests'[p].graph.of = owner'[requests'[p].id]
               /\ Under(requests'[p], "GET") /\ requests'[p].state = "served" /\ requests'[p].ok => requests'[p].graph.of = owner'[requests'[p].id]
               /\ Under(requests'[p], "POST") /\ savedId' = NoId => requests'[p].graph.of = draft'.of
    <3>1. CASE p = q
      <4>1. ~Under(r, "PUT") /\ ~Under(r, "GET")
        BY <1>4 DEF Under
      <4>2. savedId = NoId => g.of = draft.of
        BY <1>0, <2>2, <2>3 DEF SavedInv, DrawingInv
      <4>. QED
        BY <1>4, <1>5, <2>2, <2>3, <3>1, <4>1, <4>2
    <3>2. CASE p # q
      <4>1. requests'[p] = requests[p]
        BY <2>3, <3>2
      <4>2. (Under(requests[p], "PUT") \/ Under(requests[p], "GET") \/ (Under(requests[p], "POST") /\ requests[p].state = "served")) =>
              owner'[requests[p].id] = owner[requests[p].id]
        <5>1. Under(requests[p], "PUT") \/ Under(requests[p], "GET") => requests[p].id \in 1..made
          BY <1>9 DEF Under
        <5>2. Under(requests[p], "POST") /\ requests[p].state = "served" => requests[p].id \in 1..made
          BY DEF SavedInv, Known, KnownOne
        <5>. QED
          BY <1>5, <1>6, <5>1, <5>2
      <4>. QED
        BY <2>2, <4>1, <4>2 DEF SavedInv, DrawingInv
    <3>. QED
      BY <3>1, <3>2
  <2>. QED
    BY <2>4, <2>5, <2>6 DEF DrawingInv, Under
<1>12. RowInv'
  BY <1>0, <1>1, <1>2, <1>4, <1>5, <1>6, <1>9, <1>10, SavedTypes DEF SavedInv, RowInv, Under, Becomes
<1>13. LastInv'
  <2>1. SUFFICES ASSUME alone' PROVE LastInv'
    BY DEF LastInv
  <2>2. alone /\ made' = w /\ LastInv
    BY <1>2, <2>1 DEF SavedInv
  <2>3. requests'[q] = r /\ \A p \in Requests : p # q => requests'[p] = requests[p]
    BY <1>4 DEF Becomes
  <2>4. Under(requests[q], "POST") /\ Under(r, "POST") /\ ~Under(r, "PUT")
    BY <1>0, <1>4 DEF Under
  <2>5. \A p \in Requests : p # q => ~Under(requests'[p], "PUT") /\ ~Under(requests'[p], "POST")
    BY <2>2, <2>3, <2>4 DEF LastInv
  <2>6. \A p \in Requests : ~Under(requests'[p], "PUT")
    BY <2>3, <2>4, <2>5
  <2>7. \A p \in Requests : ~Under(requests[p], "PUT")
    BY <2>3, <2>4, <2>5 DEF Under, LastInv
  <2>8. ASSUME NEW x \in 1..made', table'[x] # Gone, last'[x] # Gone
        PROVE  table'[x] = last'[x]
    <3>1. CASE x = w
      BY <1>5, <3>1
    <3>2. CASE x # w
      <4>1. x \in 1..made
        BY <1>1, <2>2, <3>2, SavedTypes
      <4>2. table'[x] = table[x] /\ last'[x] = last[x]
        BY <1>5, <1>6, <4>1
      <4>. QED
        BY <2>2, <2>7, <2>8, <4>1, <4>2 DEF LastInv
    <3>. QED
      BY <3>1, <3>2
  <2>. QED
    BY <2>5, <2>6, <2>8 DEF LastInv
<1>. QED
  BY <1>1, <1>2, <1>4, <1>5, <1>7, <1>8, <1>11, <1>12, <1>13 DEF SavedInv, Becomes

LEMMA ServePutInv == ASSUME SavedInv, NEW q \in Requests, ServePut(q) PROVE SavedInv'
<1>. DEFINE w == requests[q].id
            g == requests[q].graph
            found == table[w] # Gone
<1>0. /\ requests[q] \in Request /\ requests[q].kind = "PUT" /\ requests[q].state = "sent" /\ g \in Drawings
      /\ Under(requests[q], "PUT") /\ w \in 1..made
  BY DEF SavedInv, ServePut, Known, KnownOne, Under
<1>1. w \in Workflows /\ w \in Workflows \union {NoId} /\ g \in Graphs /\ found \in BOOLEAN /\ w # NoId
  BY <1>0, SavedTypes
<1>2. Served(q, found, w, g) /\ UNCHANGED <<made, savedId, draft, drafts, sent, last, alone, strayed, owner, crossed>>
      /\ table' = IF found THEN [table EXCEPT ![w] = g] ELSE table
  BY DEF ServePut, PutGraph
<1>. HIDE DEF w, g, found
<1>3. requests[q].state = "sent"
  BY <1>0
<1>4. PICK r \in Request :
        /\ r.kind = requests[q].kind /\ r.id = w /\ r.graph = g /\ r.state = "served" /\ r.ok = found
        /\ Becomes(q, r) /\ \A p \in Requests : p > sent => requests'[p] = NoRequest
  BY <1>1, <1>2, <1>3, ServedOne
<1>5. /\ table' \in [Workflows -> Drawings \union {Gone}]
      /\ \A x \in Workflows : x # w => table'[x] = table[x]
      /\ table'[w] = IF table[w] # Gone THEN g ELSE Gone
      /\ \A x \in Workflows : table'[x] = Gone <=> table[x] = Gone
  BY <1>0, <1>1, <1>2, SavedTypes DEF SavedInv, found
<1>6. requests'[q] = r /\ r.kind = "PUT" /\ requests[q].id = w /\ requests[q].graph = g /\ \A p \in Requests : p # q => requests'[p] = requests[p]
  BY <1>0, <1>4 DEF Becomes, w, g
<1>7. Known(requests', made')
  <2>1. KnownOne(r, made)
    BY <1>0, <1>4, <1>6 DEF KnownOne, Under
  <2>. QED
    BY <1>2, <1>6, <2>1 DEF SavedInv, Known
<1>8. DrawingInv'
  <2>1. SUFFICES ASSUME ~strayed' PROVE DrawingInv'
    BY DEF DrawingInv
  <2>2. ~strayed /\ UNCHANGED <<made, savedId, draft, owner>>
    BY <1>2, <2>1
  <2>3. g.of = owner[w]
    BY <1>0, <1>6, <2>2 DEF SavedInv, DrawingInv
  <2>4. \A x \in 1..made : table'[x] # Gone => table'[x].of = owner[x]
    <3>1. \A x \in 1..made : x \in Workflows
      BY SavedTypes
    <3>. QED
      BY <1>5, <2>2, <2>3, <3>1 DEF SavedInv, DrawingInv
  <2>. QED
    BY <1>4, <1>6, <2>2, <2>3, <2>4 DEF SavedInv, DrawingInv, Under
<1>9. RowInv'
  <2>1. RowInv /\ UNCHANGED <<savedId, crossed>>
    BY <1>2 DEF SavedInv
  <2>2. \A p \in Requests : \A k : k # "PUT" => (Under(requests'[p], k) <=> Under(requests[p], k))
    BY <1>0, <1>6 DEF Under
  <2>3. \A p \in Requests : requests'[p].kind # "PUT" => requests'[p] = requests[p]
    BY <1>6
  <2>4. savedId # NoId => savedId \in Workflows
    BY SavedTypes DEF SavedInv
  <2>5. savedId # NoId /\ savedId \notin crossed /\ table'[savedId] = Gone =>
          \E p \in Requests : Under(requests'[p], "DELETE") /\ requests'[p].state = "served" /\ requests'[p].id = savedId
    BY <1>5, <2>1, <2>2, <2>3, <2>4 DEF RowInv, Under
  <2>6. \A p \in Requests : requests'[p].state = "served" /\ requests'[p].kind \in {"GET", "POST"} /\ requests'[p].ok =>
          requests'[p].id \in crossed \/ table'[requests'[p].id] # Gone
    <3>1. \A p \in Requests : requests[p].state = "served" /\ requests[p].kind \in {"GET", "POST"} => requests[p].id \in Workflows
      BY SavedTypes DEF SavedInv, Known, KnownOne, Under
    <3>. QED
      BY <1>5, <2>1, <2>3, <3>1 DEF RowInv
  <2>7. \A p, p1 \in Requests :
          Under(requests'[p], "DELETE") /\ (Under(requests'[p1], "GET") \/ Under(requests'[p1], "POST")) /\ requests'[p].id = requests'[p1].id =>
            requests'[p].id \in crossed
    BY <2>1, <2>3 DEF RowInv, Under
  <2>. QED
    BY <2>1, <2>5, <2>6, <2>7 DEF RowInv, Under
<1>10. LastInv'
  <2>1. SUFFICES ASSUME alone' PROVE LastInv'
    BY DEF LastInv
  <2>2. alone /\ UNCHANGED <<made, last>>
    BY <1>2, <2>1
  <2>3. \A p \in Requests : p # q => ~Under(requests'[p], "PUT") /\ ~Under(requests'[p], "POST")
    BY <1>0, <1>6, <2>2 DEF SavedInv, LastInv
  <2>4. last[w] = g
    BY <1>0, <1>6, <2>2 DEF SavedInv, LastInv
  <2>5. ~(Under(r, "PUT") /\ r.state = "sent")
    BY <1>4
  <2>6. ASSUME NEW x \in 1..made, table'[x] # Gone, last[x] # Gone PROVE table'[x] = last[x]
    <3>1. x \in Workflows
      BY SavedTypes
    <3>2. CASE x = w
      BY <1>1, <1>5, <2>4, <2>6, <3>2
    <3>3. CASE x # w
      <4>1. \A p \in Requests : Under(requests[p], "PUT") => p = q
        BY <1>0, <2>2 DEF SavedInv, LastInv
      <4>2. \A p \in Requests : Under(requests[p], "PUT") => requests[p].id # x
        BY <1>6, <3>3, <4>1
      <4>. QED
        BY <1>5, <2>2, <2>6, <3>1, <3>3, <4>2 DEF SavedInv, LastInv
    <3>. QED
      BY <3>2, <3>3
  <2>. QED
    BY <1>6, <2>2, <2>3, <2>5, <2>6 DEF LastInv, Under
<1>11. \A x \in Workflows : x > made' => table'[x] = Gone
  BY <1>2, <1>5 DEF SavedInv
<1>. QED
  BY <1>2, <1>4, <1>5, <1>7, <1>8, <1>9, <1>10, <1>11 DEF SavedInv, Becomes

LEMMA ServeGetInv == ASSUME SavedInv, NEW q \in Requests, ServeGet(q) PROVE SavedInv'
<1>. DEFINE w == requests[q].id
            g == table[w]
            found == table[w] # Gone
<1>0. /\ requests[q] \in Request /\ requests[q].kind = "GET" /\ requests[q].state = "sent"
      /\ Under(requests[q], "GET") /\ w \in 1..made
  BY DEF SavedInv, ServeGet, Known, KnownOne, Under
<1>1. /\ w \in Workflows /\ w \in Workflows \union {NoId} /\ g \in Drawings \union {Gone} /\ g \in Graphs
      /\ found \in BOOLEAN /\ w # NoId /\ (found => g \in Drawings)
  BY <1>0, SavedTypes DEF SavedInv
<1>2. Served(q, found, w, g) /\ UNCHANGED <<table, made, savedId, draft, drafts, sent, last, alone, strayed, owner, crossed>>
  BY DEF ServeGet
<1>. HIDE DEF w, g, found
<1>3. requests[q].state = "sent"
  BY <1>0
<1>4. PICK r \in Request :
        /\ r.kind = requests[q].kind /\ r.id = w /\ r.graph = g /\ r.state = "served" /\ r.ok = found
        /\ Becomes(q, r) /\ \A p \in Requests : p > sent => requests'[p] = NoRequest
  BY <1>1, <1>2, <1>3, ServedOne
<1>6. requests'[q] = r /\ r.kind = "GET" /\ requests[q].id = w /\ \A p \in Requests : p # q => requests'[p] = requests[p]
  BY <1>0, <1>4 DEF Becomes, w
<1>7. Known(requests', made')
  <2>1. KnownOne(r, made)
    BY <1>0, <1>1, <1>4, <1>6 DEF KnownOne, Under
  <2>. QED
    BY <1>2, <1>6, <2>1 DEF SavedInv, Known
<1>8. DrawingInv'
  <2>1. SUFFICES ASSUME ~strayed' PROVE DrawingInv'
    BY DEF DrawingInv
  <2>2. ~strayed /\ UNCHANGED <<table, made, savedId, draft, owner>>
    BY <1>2, <2>1
  <2>3. r.ok => g.of = owner[w]
    BY <1>0, <1>4, <2>2 DEF SavedInv, DrawingInv, g, found
  <2>. QED
    BY <1>4, <1>6, <2>2, <2>3 DEF SavedInv, DrawingInv, Under
<1>9. RowInv'
  <2>1. RowInv /\ UNCHANGED <<savedId, crossed, table>>
    BY <1>2 DEF SavedInv
  <2>2. \A p \in Requests : \A k : Under(requests'[p], k) <=> Under(requests[p], k)
    BY <1>0, <1>4, <1>6 DEF Under
  <2>3. \A p \in Requests : requests'[p].id = requests[p].id
    BY <1>4, <1>6
  <2>4. r.ok => table[w] # Gone
    BY <1>4 DEF found
  <2>5. \A p \in Requests : requests'[p].state = "served" /\ requests'[p].kind \in {"GET", "POST"} /\ requests'[p].ok =>
          requests'[p].id \in crossed \/ table[requests'[p].id] # Gone
    BY <1>4, <1>6, <2>1, <2>4 DEF RowInv
  <2>6. savedId # NoId /\ savedId \notin crossed /\ table[savedId] = Gone =>
          \E p \in Requests : Under(requests'[p], "DELETE") /\ requests'[p].state = "served" /\ requests'[p].id = savedId
    <3>1. \A p \in Requests : Under(requests[p], "DELETE") => requests'[p] = requests[p]
      BY <1>0, <1>6 DEF Under
    <3>. QED
      BY <2>1, <3>1 DEF RowInv
  <2>7. \A p, p1 \in Requests :
          Under(requests'[p], "DELETE") /\ (Under(requests'[p1], "GET") \/ Under(requests'[p1], "POST")) /\ requests'[p].id = requests'[p1].id =>
            requests'[p].id \in crossed
    BY <2>1, <2>2, <2>3 DEF RowInv
  <2>. QED
    BY <2>1, <2>5, <2>6, <2>7 DEF RowInv, Under
<1>10. LastInv'
  <2>1. \A p \in Requests : p = q => ~Under(requests'[p], "PUT") /\ ~Under(requests'[p], "POST") /\ ~Under(requests[p], "PUT") /\ ~Under(requests[p], "POST")
    BY <1>0, <1>6 DEF Under
  <2>. QED
    BY <1>2, <1>6, <2>1 DEF SavedInv, LastInv, Under
<1>. QED
  BY <1>2, <1>4, <1>7, <1>8, <1>9, <1>10 DEF SavedInv, Becomes

LEMMA ServeDeleteInv == ASSUME SavedInv, NEW q \in Requests, ServeDelete(q) PROVE SavedInv'
<1>. DEFINE w == requests[q].id
            found == table[w] # Gone
<1>0. /\ requests[q] \in Request /\ requests[q].kind = "DELETE" /\ requests[q].state = "sent"
      /\ Under(requests[q], "DELETE") /\ w \in 1..made
  BY DEF SavedInv, ServeDelete, Known, KnownOne, Under
<1>1. w \in Workflows /\ w \in Workflows \union {NoId} /\ Gone \in Graphs /\ found \in BOOLEAN
  BY <1>0, SavedTypes
<1>2. Served(q, found, w, Gone) /\ UNCHANGED <<made, savedId, draft, drafts, sent, last, alone, strayed, owner, crossed>>
      /\ table' = [table EXCEPT ![w] = Gone]
  BY DEF ServeDelete
<1>. HIDE DEF w, found
<1>3. requests[q].state = "sent"
  BY <1>0
<1>4. PICK r \in Request :
        /\ r.kind = requests[q].kind /\ r.id = w /\ r.graph = Gone /\ r.state = "served" /\ r.ok = found
        /\ Becomes(q, r) /\ \A p \in Requests : p > sent => requests'[p] = NoRequest
  BY <1>1, <1>2, <1>3, ServedOne
<1>5. /\ table' \in [Workflows -> Drawings \union {Gone}]
      /\ \A x \in Workflows : table'[x] = IF x = w THEN Gone ELSE table[x]
  BY <1>1, <1>2 DEF SavedInv
<1>6. requests'[q] = r /\ r.kind = "DELETE" /\ requests[q].id = w /\ \A p \in Requests : p # q => requests'[p] = requests[p]
  BY <1>0, <1>4 DEF Becomes, w
<1>7. Known(requests', made')
  <2>1. KnownOne(r, made)
    BY <1>0, <1>1, <1>4, <1>6 DEF KnownOne, Under
  <2>. QED
    BY <1>2, <1>6, <2>1 DEF SavedInv, Known
<1>12. \A x \in 1..made : x \in Workflows
  BY SavedTypes
<1>8. DrawingInv'
  BY <1>2, <1>5, <1>6, <1>12 DEF SavedInv, DrawingInv, Under
<1>9. RowInv'
  <2>1. RowInv /\ UNCHANGED <<savedId, crossed>>
    BY <1>2 DEF SavedInv
  <2>2. \A p \in Requests : \A k : Under(requests'[p], k) <=> Under(requests[p], k)
    BY <1>0, <1>4, <1>6 DEF Under
  <2>3. \A p \in Requests : requests'[p].id = requests[p].id
    BY <1>4, <1>6
  <2>4. savedId # NoId => savedId \in Workflows
    BY SavedTypes DEF SavedInv
  <2>5. ASSUME NEW p \in Requests, requests'[p].state = "served", requests'[p].kind \in {"GET", "POST"}, requests'[p].ok
        PROVE  requests'[p].id \in crossed \/ table'[requests'[p].id] # Gone
    <3>1. p # q /\ requests'[p] = requests[p] /\ requests[p].id \in Workflows
      BY <1>6, <2>5, SavedTypes DEF SavedInv, Known, KnownOne, Under
    <3>2. requests[p].id \in crossed \/ table[requests[p].id] # Gone
      BY <2>1, <2>5, <3>1 DEF RowInv
    <3>3. requests[p].id = w => w \in crossed
      BY <1>0, <1>6, <2>1, <2>5, <3>1 DEF RowInv, Under
    <3>. QED
      BY <1>5, <3>1, <3>2, <3>3
  <2>6. ASSUME savedId # NoId, savedId \notin crossed, table'[savedId] = Gone
        PROVE  \E p \in Requests : Under(requests'[p], "DELETE") /\ requests'[p].state = "served" /\ requests'[p].id = savedId
    <3>1. CASE savedId = w
      BY <1>0, <1>4, <1>6, <2>2, <2>3, <3>1
    <3>2. CASE savedId # w
      <4>1. savedId \in Workflows /\ table[savedId] = Gone
        BY <1>5, <2>4, <2>6, <3>2
      <4>2. PICK p \in Requests : Under(requests[p], "DELETE") /\ requests[p].state = "served" /\ requests[p].id = savedId
        BY <2>1, <2>6, <4>1 DEF RowInv
      <4>3. requests'[p] = requests[p]
        BY <1>3, <1>6, <4>2
      <4>. QED
        BY <4>2, <4>3
    <3>. QED
      BY <3>1, <3>2
  <2>7. \A p, p1 \in Requests :
          Under(requests'[p], "DELETE") /\ (Under(requests'[p1], "GET") \/ Under(requests'[p1], "POST")) /\ requests'[p].id = requests'[p1].id =>
            requests'[p].id \in crossed
    BY <2>1, <2>2, <2>3 DEF RowInv
  <2>. QED
    BY <2>1, <2>5, <2>6, <2>7 DEF RowInv, Under
<1>10. LastInv'
  <2>1. \A p \in Requests : p = q => ~Under(requests'[p], "PUT") /\ ~Under(requests'[p], "POST") /\ ~Under(requests[p], "PUT") /\ ~Under(requests[p], "POST")
    BY <1>0, <1>6 DEF Under
  <2>. QED
    BY <1>2, <1>5, <1>6, <1>12, <2>1 DEF SavedInv, LastInv, Under
<1>11. \A x \in Workflows : x > made' => table'[x] = Gone
  BY <1>2, <1>5 DEF SavedInv
<1>. QED
  BY <1>2, <1>4, <1>5, <1>7, <1>8, <1>9, <1>10, <1>11 DEF SavedInv, Becomes

\* A request that is over leaves nothing behind.
LEMMA OverOne ==
  ASSUME SavedInv, NEW q \in Requests, requests' = [requests EXCEPT ![q] = NoRequest]
  PROVE  /\ Becomes(q, NoRequest) /\ \A p \in Requests : p > sent => requests'[p] = NoRequest
         /\ \A k : ~Under(requests'[q], k)
         /\ \A p \in Requests : requests'[p] = requests[p] \/ (requests'[p].state = "over" /\ p = q)
<1>1. requests \in [Requests -> Request] /\ NoRequest \in Request
  BY SavedTypes DEF SavedInv
<1>2. Becomes(q, NoRequest)
  BY <1>1 DEF Becomes
<1>3. NoRequest.state = "over" /\ \A k : ~Under(NoRequest, k)
  BY DEF NoRequest, Under
<1>4. requests'[q] = NoRequest /\ \A p \in Requests : p # q => requests'[p] = requests[p]
  BY <1>2 DEF Becomes
<1>5. \A p \in Requests : p > sent => requests'[p] = NoRequest
  BY <1>4 DEF SavedInv
<1>6. \A k : ~Under(requests'[q], k)
  BY <1>3, <1>4, Zenon
<1>7. \A p \in Requests : requests'[p] = requests[p] \/ (requests'[p].state = "over" /\ p = q)
  BY <1>3, <1>4
<1>. QED
  BY <1>2, <1>5, <1>6, <1>7

LEMMA AnswerInv == ASSUME SavedInv, NEW q \in Requests, Answer(q) PROVE SavedInv'
<1>. DEFINE r == requests[q]
<1>0. r \in Request /\ r.state = "served" /\ KnownOne(r, made) /\ r.kind \in {"POST", "PUT", "GET", "DELETE"}
  BY DEF SavedInv, Answer, Known, KnownOne, Request
<1>1. r.id \in 1..made /\ r.id \in Workflows /\ r.id # NoId /\ (r.kind = "POST" => r.ok)
  BY <1>0, SavedTypes DEF KnownOne, Under
<1>2. /\ requests' = [requests EXCEPT ![q] = NoRequest]
      /\ UNCHANGED <<table, made, drafts, sent, last, alone, owner, crossed>>
      /\ draft' = (IF r.kind = "GET" /\ r.ok THEN r.graph ELSE draft)
      /\ strayed' = (strayed \/ (r.kind = "DELETE" /\ savedId = r.id /\ \E p \in Pending : requests[p].kind = "POST"))
  BY DEF Answer
<1>3. /\ r.kind = "POST" => savedId' = IF savedId = NoId THEN r.id ELSE savedId
      /\ r.kind = "GET" /\ r.ok => savedId' = r.id
      /\ r.kind = "DELETE" => savedId' = IF savedId = r.id THEN NoId ELSE savedId
      /\ r.kind = "PUT" \/ (r.kind = "GET" /\ ~r.ok) => savedId' = savedId
  BY <1>0, <1>1 DEF Answer, AfterPost, AfterDelete
<1>4. /\ Becomes(q, NoRequest) /\ \A p \in Requests : p > sent => requests'[p] = NoRequest
      /\ \A k : ~Under(requests'[q], k)
      /\ \A p \in Requests : requests'[p] = requests[p] \/ (requests'[p].state = "over" /\ p = q)
  BY <1>2, OverOne
<1>12. strayed' \in BOOLEAN
  BY <1>2 DEF SavedInv
<1>. HIDE DEF r
<1>5. savedId \in 1..made \union {NoId}
  BY DEF SavedInv
<1>6. savedId' \in 1..made' \union {NoId} /\ draft' \in Drawings
  <2>1. r.kind = "GET" /\ r.ok => r.graph \in Drawings
    BY <1>0 DEF KnownOne
  <2>2. draft' \in Drawings
    BY <1>2, <2>1 DEF SavedInv
  <2>3. savedId' \in {savedId, r.id, NoId}
    BY <1>0, <1>3
  <2>. QED
    BY <1>1, <1>2, <1>5, <2>2, <2>3
<1>7. Known(requests', made')
  <2>1. KnownOne(NoRequest, made)
    BY DEF KnownOne, NoRequest, Under
  <2>. QED
    BY <1>2, <1>4, <2>1 DEF SavedInv, Known, Becomes
<1>8. DrawingInv'
  <2>1. SUFFICES ASSUME ~strayed' PROVE DrawingInv'
    BY DEF DrawingInv
  <2>2. ~strayed /\ UNCHANGED <<table, made, owner>> /\ ~(r.kind = "DELETE" /\ savedId = r.id /\ \E p \in Pending : requests[p].kind = "POST")
    BY <1>2, <2>1
  <2>3. /\ r.kind = "POST" => r.graph.of = owner[r.id] /\ (savedId = NoId => r.graph.of = draft.of)
        /\ r.kind = "GET" /\ r.ok => r.graph.of = owner[r.id]
    BY <1>0, <2>2 DEF SavedInv, DrawingInv, Under, r
  <2>4. savedId # NoId => draft.of = owner[savedId]
    BY <2>2 DEF SavedInv, DrawingInv
  <2>5. savedId' # NoId => draft'.of = owner[savedId']
    <3>1. CASE r.kind = "POST"
      BY <1>2, <1>3, <2>3, <2>4, <3>1
    <3>2. CASE r.kind = "GET" /\ r.ok
      BY <1>2, <1>3, <2>3, <2>4, <3>2
    <3>3. CASE r.kind = "DELETE" \/ r.kind = "PUT" \/ (r.kind = "GET" /\ ~r.ok)
      BY <1>2, <1>3, <2>4, <3>3
    <3>. QED
      BY <1>0, <3>1, <3>2, <3>3
  <2>6. \A p \in Requests : Under(requests'[p], "POST") /\ savedId' = NoId => requests'[p].graph.of = draft'.of
    <3>1. SUFFICES ASSUME NEW p \in Requests, Under(requests'[p], "POST"), savedId' = NoId PROVE requests'[p].graph.of = draft'.of
      OBVIOUS
    <3>2. Under(requests[p], "POST") /\ requests'[p] = requests[p]
      BY <1>4, <3>1
    <3>3. \E p1 \in Pending : requests[p1].kind = "POST"
      BY <3>2 DEF Under, Pending
    <3>4. savedId = NoId /\ draft' = draft
      BY <1>0, <1>1, <1>2, <1>3, <2>2, <3>1, <3>3
    <3>. QED
      BY <2>2, <3>2, <3>4 DEF SavedInv, DrawingInv
  <2>7. \A p \in Requests :
         /\ Under(requests'[p], "PUT") => requests'[p].graph.of = owner[requests'[p].id]
         /\ Under(requests'[p], "POST") /\ requests'[p].state = "served" => requests'[p].graph.of = owner[requests'[p].id]
         /\ Under(requests'[p], "GET") /\ requests'[p].state = "served" /\ requests'[p].ok => requests'[p].graph.of = owner[requests'[p].id]
    BY <1>4, <2>2 DEF SavedInv, DrawingInv
  <2>8. \A x \in 1..made : table[x] # Gone => table[x].of = owner[x]
    BY <2>2 DEF SavedInv, DrawingInv
  <2>. QED
    BY <2>2, <2>5, <2>6, <2>7, <2>8 DEF DrawingInv, Under
<1>9. RowInv'
  <2>1. RowInv /\ UNCHANGED <<table, crossed>>
    BY <1>2 DEF SavedInv
  <2>2. ASSUME savedId' # NoId, savedId' \notin crossed, table[savedId'] = Gone
        PROVE  \E p \in Requests : Under(requests'[p], "DELETE") /\ requests'[p].state = "served" /\ requests'[p].id = savedId'
    <3>1. (r.kind = "POST" \/ (r.kind = "GET" /\ r.ok)) => r.id \in crossed \/ table[r.id] # Gone
      BY <1>0, <1>1, <2>1 DEF RowInv, r
    <3>2. savedId' = savedId /\ (r.kind = "DELETE" => r.id # savedId)
      BY <1>0, <1>3, <2>2, <3>1
    <3>3. PICK p \in Requests : Under(requests[p], "DELETE") /\ requests[p].state = "served" /\ requests[p].id = savedId
      BY <2>1, <2>2, <3>2 DEF RowInv
    <3>4. p # q
      BY <3>2, <3>3 DEF Under, r
    <3>. QED
      BY <1>4, <3>2, <3>3, <3>4 DEF Becomes
  <2>3. \A p \in Requests : requests'[p].state = "served" /\ requests'[p].kind \in {"GET", "POST"} /\ requests'[p].ok =>
          requests'[p].id \in crossed \/ table[requests'[p].id] # Gone
    BY <1>4, <2>1 DEF RowInv
  <2>4. \A p, p1 \in Requests :
          Under(requests'[p], "DELETE") /\ (Under(requests'[p1], "GET") \/ Under(requests'[p1], "POST")) /\ requests'[p].id = requests'[p1].id =>
            requests'[p].id \in crossed
    BY <1>4, <2>1 DEF RowInv
  <2>. QED
    BY <2>1, <2>2, <2>3, <2>4 DEF RowInv, Under
<1>10. LastInv'
  <2>1. ~(Under(requests[q], "PUT") /\ requests[q].state = "sent")
    BY <1>0 DEF r
  <2>. QED
    BY <1>2, <1>4, <2>1 DEF SavedInv, LastInv, Under, Becomes
<1>. QED
  BY <1>2, <1>4, <1>6, <1>7, <1>8, <1>9, <1>10, <1>12 DEF SavedInv, Becomes

LEMMA LoseAnswerInv == ASSUME SavedInv, NEW q \in Requests, LoseAnswer(q) PROVE SavedInv'
<1>. DEFINE w == requests[q].id
            unsent == requests[q].kind = "PUT" /\ requests[q].state = "sent"
            unheard == requests[q].kind = "DELETE" /\ requests[q].state = "served"
<1>0. requests[q].state \in {"sent", "served"} /\ (requests[q].kind \in {"PUT", "DELETE"} => w \in 1..made)
  BY DEF SavedInv, LoseAnswer, Known, KnownOne, Under
<1>2. /\ requests' = [requests EXCEPT ![q] = NoRequest]
      /\ UNCHANGED <<table, made, savedId, draft, drafts, sent, alone, strayed, owner>>
      /\ crossed' = IF unheard THEN crossed \union {w} ELSE crossed
      /\ last' = IF unsent THEN [last EXCEPT ![w] = Gone] ELSE last
  BY DEF LoseAnswer
<1>4. /\ Becomes(q, NoRequest) /\ \A p \in Requests : p > sent => requests'[p] = NoRequest
      /\ \A k : ~Under(requests'[q], k)
      /\ \A p \in Requests : requests'[p] = requests[p] \/ (requests'[p].state = "over" /\ p = q)
  BY <1>2, OverOne
<1>1. unsent => w \in Workflows
  BY <1>0, SavedTypes
<1>. HIDE DEF w
<1>5. /\ last' \in [Workflows -> Graphs]
      /\ \A x \in Workflows : last'[x] = IF unsent /\ x = w THEN Gone ELSE last[x]
  BY <1>1, <1>2, SavedTypes DEF SavedInv
<1>7. Known(requests', made')
  <2>1. KnownOne(NoRequest, made)
    BY DEF KnownOne, NoRequest, Under
  <2>. QED
    BY <1>2, <1>4, <2>1 DEF SavedInv, Known, Becomes
<1>8. DrawingInv'
  BY <1>2, <1>4 DEF SavedInv, DrawingInv, Under
<1>11. crossed \subseteq crossed' /\ crossed' \subseteq 1..made' /\ (unheard => w \in crossed')
  BY <1>0, <1>2 DEF SavedInv
<1>9. RowInv'
  <2>1. RowInv /\ UNCHANGED <<savedId, table>>
    BY <1>2 DEF SavedInv
  <2>2. ASSUME savedId # NoId, savedId \notin crossed', table[savedId] = Gone
        PROVE  \E p \in Requests : Under(requests'[p], "DELETE") /\ requests'[p].state = "served" /\ requests'[p].id = savedId
    <3>1. PICK p \in Requests : Under(requests[p], "DELETE") /\ requests[p].state = "served" /\ requests[p].id = savedId
      BY <1>11, <2>1, <2>2 DEF RowInv
    <3>2. p # q
      BY <1>11, <2>2, <3>1 DEF Under, w
    <3>. QED
      BY <1>4, <3>1, <3>2 DEF Becomes
  <2>3. \A p \in Requests : requests'[p].state = "served" /\ requests'[p].kind \in {"GET", "POST"} /\ requests'[p].ok =>
          requests'[p].id \in crossed' \/ table[requests'[p].id] # Gone
    BY <1>4, <1>11, <2>1 DEF RowInv
  <2>4. \A p, p1 \in Requests :
          Under(requests'[p], "DELETE") /\ (Under(requests'[p1], "GET") \/ Under(requests'[p1], "POST")) /\ requests'[p].id = requests'[p1].id =>
            requests'[p].id \in crossed'
    BY <1>4, <1>11, <2>1 DEF RowInv
  <2>. QED
    BY <2>1, <2>2, <2>3, <2>4 DEF RowInv, Under
<1>10. LastInv'
  <2>1. SUFFICES ASSUME alone' PROVE LastInv'
    BY DEF LastInv
  <2>2. alone /\ UNCHANGED <<table, made>>
    BY <1>2, <2>1
  <2>3. unsent => \A p \in Requests : ~Under(requests'[p], "PUT") /\ ~Under(requests'[p], "POST")
    <3>1. unsent => Under(requests[q], "PUT")
      BY DEF Under
    <3>. QED
      BY <1>4, <2>2, <3>1 DEF SavedInv, LastInv
  <2>4. \A p, p1 \in Requests :
          (Under(requests'[p], "PUT") \/ Under(requests'[p], "POST")) /\ (Under(requests'[p1], "PUT") \/ Under(requests'[p1], "POST")) => p = p1
    BY <1>4, <2>2 DEF SavedInv, LastInv
  <2>5. ASSUME NEW p \in Requests, Under(requests'[p], "PUT"), requests'[p].state = "sent"
        PROVE  requests'[p].graph = last'[requests'[p].id]
    <3>1. ~unsent /\ requests'[p] = requests[p] /\ last' = last
      BY <1>2, <1>4, <2>3, <2>5
    <3>. QED
      BY <2>2, <2>5, <3>1 DEF SavedInv, LastInv
  <2>6. ASSUME NEW x \in 1..made, table[x] # Gone, last'[x] # Gone,
               \A p \in Requests : Under(requests'[p], "PUT") /\ requests'[p].state = "sent" => requests'[p].id # x
        PROVE  table[x] = last'[x]
    <3>1. x \in Workflows /\ last'[x] = last[x] /\ ~(unsent /\ x = w)
      BY <1>5, <2>6, SavedTypes
    <3>2. \A p \in Requests : Under(requests[p], "PUT") /\ requests[p].state = "sent" => requests[p].id # x
      BY <1>4, <2>6, <3>1 DEF Becomes, Under, w
    <3>. QED
      BY <2>2, <2>6, <3>1, <3>2 DEF SavedInv, LastInv
  <2>. QED
    BY <2>2, <2>4, <2>5, <2>6 DEF LastInv, Under
<1>. QED
  BY <1>2, <1>4, <1>5, <1>7, <1>8, <1>9, <1>10, <1>11 DEF SavedInv, Becomes

LEMMA OtherDeletesInv == ASSUME SavedInv, NEW w \in Workflows, OtherDeletes(w) PROVE SavedInv'
<1>1. /\ table' = [table EXCEPT ![w] = Gone] /\ table[w] # Gone /\ crossed' = crossed \union {w}
      /\ UNCHANGED <<made, savedId, draft, drafts, requests, sent, last, alone, strayed, owner>>
  BY DEF OtherDeletes
<1>2. w \in 1..made
  <2>1. ~(w > made)
    BY <1>1 DEF SavedInv
  <2>. QED
    BY <2>1, SavedTypes DEF Workflows
<1>3. /\ table' \in [Workflows -> Drawings \union {Gone}]
      /\ \A x \in Workflows : table'[x] = IF x = w THEN Gone ELSE table[x]
  BY <1>1 DEF SavedInv
<1>4. \A x \in 1..made : x \in Workflows
  BY SavedTypes
<1>5. crossed' \subseteq 1..made' /\ \A x \in Workflows : x > made' => table'[x] = Gone
  BY <1>1, <1>2, <1>3 DEF SavedInv
<1>6. Known(requests, made)' /\ DrawingInv'
  BY <1>1, <1>3, <1>4 DEF SavedInv, Known, KnownOne, DrawingInv, Under
<1>7. RowInv'
  <2>1. savedId # NoId => savedId \in Workflows
    BY SavedTypes DEF SavedInv
  <2>2. \A p \in Requests : requests[p].state = "served" /\ requests[p].kind \in {"GET", "POST"} => requests[p].id \in Workflows
    BY SavedTypes DEF SavedInv, Known, KnownOne, Under
  <2>. QED
    BY <1>1, <1>3, <2>1, <2>2 DEF SavedInv, RowInv, Under
<1>8. LastInv'
  BY <1>1, <1>3, <1>4 DEF SavedInv, LastInv, Under
<1>. QED
  BY <1>1, <1>3, <1>5, <1>6, <1>7, <1>8 DEF SavedInv

LEMMA SavedInitInv == SavedInit => SavedInv
<1>. SUFFICES ASSUME SavedInit PROVE SavedInv
  OBVIOUS
<1>1. 1 \in 1..MaxRows /\ 2 \in 1..MaxDrafts /\ MaxRequests \in Nat /\ MaxRows \in Nat /\ MaxDrafts \in Nat /\ NoId \notin Workflows
  BY SavedAssumption DEF Workflows
<1>2. Graph(1, 1) \in Drawings /\ Graph(2, 2) \in Drawings /\ Gone \in Graphs /\ Graph(1, 1) \in Graphs /\ Graph(1, 1) # Gone /\ Gone \notin Drawings
  BY <1>1 DEF Graph, Gone, Drawings, Graphs
<1>3. NoRequest \in Request
  BY <1>2 DEF Request, NoRequest
<1>4. \A q \in Requests : requests[q] = NoRequest
  BY DEF SavedInit
<1>5. \A k : ~Under(NoRequest, k)
  BY DEF NoRequest, Under
<1>6. KnownOne(NoRequest, 1) /\ NoRequest.state = "over"
  BY DEF NoRequest, KnownOne, Under
<1>7. Known(requests, made)
  BY <1>4, <1>6 DEF SavedInit, Known
<1>8. Graph(1, 1).of = 1
  BY DEF Graph
<1>9. 1..1 = {1} /\ 1 \in Workflows
  BY <1>1 DEF Workflows
<1>10. DrawingInv /\ RowInv /\ LastInv
  BY <1>4, <1>5, <1>6, <1>8, <1>9 DEF SavedInit, DrawingInv, RowInv, LastInv
<1>11. /\ table \in [Workflows -> Drawings \union {Gone}] /\ last \in [Workflows -> Graphs] /\ owner \in [Workflows -> 0..2]
       /\ \A w \in Workflows : w > 1 => table[w] = Gone
  BY <1>2 DEF SavedInit, Workflows
<1>12. requests \in [Requests -> Request]
  BY <1>3 DEF SavedInit
<1>13. /\ made = 1 /\ savedId = NoId /\ draft \in Drawings /\ drafts = 2 /\ sent = 0 /\ crossed = {}
       /\ alone = TRUE /\ strayed = FALSE
  BY <1>2 DEF SavedInit
<1>14. sent \in 0..MaxRequests
  BY <1>1, <1>13
<1>15. alone \in BOOLEAN /\ strayed \in BOOLEAN
  BY DEF SavedInit
<1>. QED
  BY <1>1, <1>4, <1>7, <1>10, <1>11, <1>12, <1>13, <1>14, <1>15 DEF SavedInv

LEMMA SavedInvSound == SavedInv => SavedTypeOK /\ IdOfARow /\ SavedIsKept /\ OwnDrawing
<1>. SUFFICES ASSUME SavedInv PROVE SavedTypeOK /\ IdOfARow /\ SavedIsKept /\ OwnDrawing
  OBVIOUS
<1>1. SavedTypeOK
  <2>1. \A w \in Workflows : table[w] \in Graphs
    BY SavedTypes DEF SavedInv
  <2>2. table \in [Workflows -> Graphs]
    BY <2>1 DEF SavedInv
  <2>3. draft \in Graphs /\ savedId \in Workflows \union {NoId} /\ crossed \subseteq Workflows
    BY SavedTypes DEF SavedInv
  <2>4. {alone, strayed} \subseteq BOOLEAN
    BY DEF SavedInv
  <2>. QED
    BY <2>2, <2>3, <2>4 DEF SavedInv, SavedTypeOK
<1>2. IdOfARow
  BY DEF SavedInv, RowInv, IdOfARow, Pending, Under
<1>3. SavedIsKept
  <2>1. SUFFICES ASSUME alone, NEW w \in 1..made, table[w] # Gone, last[w] # Gone,
                        \A q \in Pending : requests[q].kind = "PUT" => requests[q].id # w
                 PROVE  table[w] = last[w]
    BY DEF SavedIsKept
  <2>2. \A q \in Requests : Under(requests[q], "PUT") => requests[q].id # w
    BY <2>1 DEF Pending, Under
  <2>. QED
    BY <2>1, <2>2 DEF SavedInv, LastInv
<1>4. OwnDrawing
  BY DEF SavedInv, DrawingInv, OwnDrawing
<1>. QED
  BY <1>1, <1>2, <1>3, <1>4

---------------------------------------------------------------------------
(* The assistants together. *)

AssistantsInv == ConversationInv /\ AgentInv /\ CopilotInv

\* What a step of the page may be for the assistants: one of theirs, or none of them.
LEMMA AssistantSteps ==
  ASSUME [InterfaceNext]_zvars
  PROVE  /\ Chat \/ ChatStep \/ Fail \/ Restart \/ KeyExpires \/ Unlock \/ UNCHANGED cvars
         /\ AgentStep \/ UNCHANGED lvars
         /\ CopilotStep \/ UNCHANGED pvars
BY Zenon DEF InterfaceNext, zvars, Canvas, Runner, Saved, Talking, Thinking, Browsing

LEMMA AssistantsStep == AssistantsInv /\ [InterfaceNext]_zvars => AssistantsInv'
<1>1. SUFFICES ASSUME AssistantsInv, [InterfaceNext]_zvars PROVE AssistantsInv'
  OBVIOUS
<1>2. ConversationInv'
  BY <1>1, AssistantSteps, ConversationStepInv DEF AssistantsInv
<1>3. AgentInv'
  BY <1>1, AssistantSteps, AgentStepInv DEF AssistantsInv
<1>4. CopilotInv'
  BY <1>1, AssistantSteps, CopilotStepInv DEF AssistantsInv
<1>. QED
  BY <1>2, <1>3, <1>4 DEF AssistantsInv

LEMMA AssistantsInvariant == InterfaceSpec => []AssistantsInv
<1>1. InterfaceInit => AssistantsInv
  BY ConversationInitInv, AgentInitInv, CopilotInitInv DEF InterfaceInit, AssistantsInv
<1>. QED
  BY <1>1, AssistantsStep, PTL DEF InterfaceSpec

LEMMA ClearedStaysGone ==
  ASSUME CopilotInv
  PROVE  ClearedIsGone /\ HandedInOrder
<1>1. \A s, since, waited : AllFresh(s, since, waited) <=>
        \A i \in 1..Len(s) :
          CASE s[i].role = "user" -> s[i].q > since
            [] s[i].role = "assistant" -> s[i].q > since \/ s[i].q \in waited
            [] OTHER -> TRUE
  BY DEF AllFresh, Fresh
<1>2. AllFresh(messages, cleared, late) /\ AllFresh(stored, cleared, late)
  BY DEF CopilotInv, Storable
<1>3. \A q \in (cleared + 1)..asked : AllFresh(given[q], cleared, late)
  BY DEF CopilotInv
<1>4. ClearedIsGone
  BY <1>2, <1>3 DEF ClearedIsGone, AllFresh, Fresh
<1>5. HandedInOrder
  BY DEF CopilotInv, HandedInOrder, EndsWith, InOrder
<1>. QED
  BY <1>4, <1>5

\* What an assistant is given is what was said and done, and what it did is told: every result in a
\* conversation answers the call before it, every chat without trouble can be continued, the provider
\* is never asked with calls that nothing answers, every action is in the list, and the history of
\* the copilot is handed on in its order and without what was cleared.
THEOREM AssistantsStaySound == InterfaceSpec => []AssistantsSound
<1>1. AssistantsInv => AssistantsSound
  <2>1. SUFFICES ASSUME AssistantsInv PROVE AssistantsSound
    OBVIOUS
  <2>2. ConversationTypeOK /\ AnswersMatch
    BY <2>1 DEF AssistantsInv, ConversationInv
  <2>3. OnlyTroubleBreaks
    BY <2>1 DEF AssistantsInv, ConversationInv, OnlyTroubleBreaks, RowsSound
  <2>4. AgentTypeOK /\ EveryActionTold
    BY <2>1 DEF AssistantsInv, AgentInv, EveryActionTold
  <2>5. TranscriptAnswered
    BY <2>1 DEF AssistantsInv, AgentInv, TranscriptAnswered, LogAnswered, RowAnswered
  <2>6. CopilotTypeOK /\ StorageAgrees /\ ClearedIsGone /\ HandedInOrder
    BY <2>1, ClearedStaysGone DEF AssistantsInv, CopilotInv
  <2>. QED
    BY <2>2, <2>3, <2>4, <2>5, <2>6 DEF AssistantsSound
<1>. QED
  BY <1>1, AssistantsInvariant, PTL

\* Before the provider answers it was given rows that open and whose calls are answered, and an answer
\* is written right after: a broken conversation never gets one.
THEOREM BrokenStaysUnanswered == InterfaceSpec => BrokenIsNeverAnswered
<1>1. ASSUME AssistantsInv, [InterfaceNext]_zvars, Broken, Len(rows') > Len(rows)
      PROVE  rows'[Len(rows')].role # "assistant"
  <2>1. ConversationTypeOK /\ (cpc \in {"thinking", "concluding"} => RowsSound)
    BY <1>1 DEF AssistantsInv, ConversationInv
  <2>2. ~RowsSound
    <3>1. ASSUME RowsSound, NEW i \in 1..Len(rows), rows[i].role = "assistant",
                 NEW j \in (i + 1)..(i + rows[i].calls)
          PROVE  rows[j].role = "tool"
      BY <3>1 DEF RowsSound, Answered
    <3>. QED
      BY <1>1, <3>1 DEF Broken, RowsSound
  <2>3. cpc \notin {"thinking", "concluding"}
    BY <2>1, <2>2
  <2>4. ~UNCHANGED rows
    BY <1>1, <2>1 DEF ConversationTypeOK
  <2>5. Chat \/ ToolCall
    BY <1>1, <2>3, <2>4, AssistantSteps
       DEF ChatStep, Ask, Refuse, Failed, TakeAnswer, Conclude, Fail, Restart, KeyExpires, Unlock, cvars
  <2>6. AddMessage("user", 0) \/ AddMessage("tool", 0)
    BY <2>5 DEF Chat, ToolCall
  <2>7. \E m \in Row : rows' = Append(rows, m) /\ m.role # "assistant"
    BY <2>1, <2>6, RowWritten, ConversationAssumption
  <2>. QED
    BY <2>1, <2>7, RowAdded DEF Grown
<1>2. AssistantsInv /\ [InterfaceNext]_zvars =>
        [Broken /\ Len(rows') > Len(rows) => rows'[Len(rows')].role # "assistant"]_rows
  BY <1>1
<1>. QED
  BY <1>2, AssistantsInvariant, PTL DEF InterfaceSpec, BrokenIsNeverAnswered

---------------------------------------------------------------------------
(* The workflow page together. *)

WorkflowsInv == CanvasInv /\ RunInv /\ PathInv /\ SavedInv

\* What a step of the page may be for the workflows: one of theirs, or none of them.
LEMMA WorkflowSteps ==
  ASSUME [InterfaceNext]_zvars
  PROVE  /\ EditorNext \/ UNCHANGED evars
         /\ \/ RunWorkflow \/ StopWorkflow
            \/ \E r \in Runs : RunStep(r)
            \/ \E id : RemoveBlock(id)
            \/ \E from, to, port : Connect(from, port, to)
            \/ UNCHANGED rvars
         /\ \/ Edit \/ ClickSave
            \/ \E w \in Workflows : ClickLoad(w)
            \/ \E w \in Workflows : ClickDelete(w)
            \/ \E q \in Requests : Serve(q) \/ Answer(q) \/ LoseAnswer(q)
            \/ \E w \in Workflows : OtherDeletes(w)
            \/ UNCHANGED svars
BY Zenon DEF InterfaceNext, zvars, Canvas, Runner, Saved, Talking, Thinking, Browsing

LEMMA CanvasUntouched == CanvasInv /\ UNCHANGED evars => CanvasInv'
BY DEF CanvasInv, evars

LEMMA RunUntouched == RunInv /\ PathInv /\ UNCHANGED rvars => RunInv' /\ PathInv'
<1>1. ASSUME RunInv, UNCHANGED rvars PROVE RunInv'
  BY <1>1, EditInvRun DEF rvars
<1>2. ASSUME PathInv, UNCHANGED rvars PROVE PathInv'
  BY <1>2 DEF PathInv, Untouched, rvars
<1>. QED
  BY <1>1, <1>2

LEMMA SavedUntouched == SavedInv /\ UNCHANGED svars => SavedInv'
BY DEF SavedInv, DrawingInv, RowInv, LastInv, svars

LEMMA RunnerStep ==
  ASSUME RunInv, PathInv, [InterfaceNext]_zvars
  PROVE  RunInv' /\ PathInv'
<1>1. CASE RunWorkflow
  BY <1>1, RunWorkflowInv, RunWorkflowPath
<1>2. CASE StopWorkflow
  BY <1>2, StopWorkflowInv, StopWorkflowPath
<1>3. CASE \E r \in Runs : RunStep(r)
  BY <1>3, RunStepInv, RunStepPath
<1>4. CASE \E id : RemoveBlock(id)
  <2>1. RunInv'
    BY <1>4, EditInvRun DEF RemoveBlock
  <2>. QED
    BY <1>4, <2>1, RemoveBlockPath
<1>5. CASE \E from, to, port : Connect(from, port, to)
  <2>1. RunInv'
    BY <1>5, EditInvRun DEF Connect
  <2>. QED
    BY <1>5, <2>1, ConnectPath
<1>6. CASE UNCHANGED rvars
  BY <1>6, RunUntouched
<1>. QED
  BY <1>1, <1>2, <1>3, <1>4, <1>5, <1>6, WorkflowSteps

LEMMA SavedStep ==
  ASSUME SavedInv, [InterfaceNext]_zvars
  PROVE  SavedInv'
<1>1. ASSUME NEW q \in Requests, Serve(q) PROVE SavedInv'
  BY <1>1, ServePostInv, ServePutInv, ServeGetInv, ServeDeleteInv DEF Serve
<1>. QED
  BY <1>1, WorkflowSteps, EditInv, ClickSaveInv, ClickLoadInv, ClickDeleteInv, AnswerInv, LoseAnswerInv,
     OtherDeletesInv, SavedUntouched

LEMMA WorkflowsStep == WorkflowsInv /\ [InterfaceNext]_zvars => WorkflowsInv'
<1>1. SUFFICES ASSUME WorkflowsInv, [InterfaceNext]_zvars PROVE WorkflowsInv'
  OBVIOUS
<1>2. CanvasInv'
  BY <1>1, WorkflowSteps, CanvasStep, CanvasUntouched DEF WorkflowsInv
<1>3. RunInv' /\ PathInv'
  BY <1>1, RunnerStep DEF WorkflowsInv
<1>4. SavedInv'
  BY <1>1, SavedStep DEF WorkflowsInv
<1>. QED
  BY <1>2, <1>3, <1>4 DEF WorkflowsInv

LEMMA WorkflowsInvariant == InterfaceSpec => []WorkflowsInv
<1>1. InterfaceInit => WorkflowsInv
  BY CanvasInitInv, RunInitInv, RunInitPath, SavedInitInv DEF InterfaceInit, WorkflowsInv
<1>. QED
  BY <1>1, WorkflowsStep, PTL DEF InterfaceSpec

\* The workflow a user sees is the one that is on the canvas, that is run and that is saved: each
\* block has one connection into it and the lines are those that were drawn; there is one run beyond
\* the stops at the most, and one that nothing disturbed has entered each block as often as the
\* connections say and, on a chain, as the server does; what was saved is kept under the id of its row.
THEOREM WorkflowsStaySound == InterfaceSpec => []WorkflowsSound
<1>1. WorkflowsInv => WorkflowsSound
  BY CanvasSound, RunInvSound, PathInvSound, SavedInvSound DEF WorkflowsInv, WorkflowsSound
<1>. QED
  BY <1>1, WorkflowsInvariant, PTL
=============================================================================
