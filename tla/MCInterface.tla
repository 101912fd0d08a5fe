---------------------------- MODULE MCInterface -----------------------------
EXTENDS Interface, TLC

C(from, port, to) == [from |-> from, port |-> port, to |-> to]
\* A chain with a saved workflow in it.
Chained == [type |-> <<"start", "step", "sub", "step">>,
            conns |-> <<C(1, "out", 2), C(2, "out", 3), C(3, "out", 4)>>]
\* A loop, and what comes after it.
Looped == [type |-> <<"start", "loop", "step", "step">>,
           conns |-> <<C(1, "out", 2), C(2, "out_body", 3), C(2, "out_done", 4)>>]
\* A list of words, whose failures are caught.
Fuzzed == [type |-> <<"start", "fuzz", "step", "test">>,
           conns |-> <<C(1, "out", 2), C(2, "out_body", 3), C(2, "out_done", 4)>>]
\* Two connections of one port, and two ports of one block.
Branched == [type |-> <<"start", "diff", "step", "step", "step">>,
             conns |-> <<C(1, "out", 2), C(2, "out_true", 3), C(2, "out_false", 4), C(1, "out", 5)>>]
MCFlows == {Chained, Looped, Fuzzed, Branched}
MCSubFlow == [type |-> <<"start", "step", "loop", "step">>,
              conns |-> <<C(1, "out", 2), C(2, "out", 3), C(3, "out_body", 4)>>]
EditorTypes == {"start", "step"}
AllViews == {"canvas", "runner", "saved", "conversation", "agent", "copilot"}
MCTurns == {0, 2}
TwoPages == {"app", "pentest"}
=============================================================================
