---------------------------- MODULE SessionLimit ----------------------------
(***************************************************************************)
(* What the key table promises of a session, whatever clients ask: it is   *)
(* opened once, signs at most 1 + MaxRefreshes access tokens, and once     *)
(* closed signs nothing any more.                                          *)
(***************************************************************************)
EXTENDS Naturals
CONSTANTS Keys, MaxRefreshes

VARIABLES
  open,    \* the sessions the server still knows
  signed   \* signed[k]: the access tokens signed under k

Init ==
  /\ open = {}
  /\ signed = [k \in Keys |-> 0]

Open(k) ==
  /\ signed[k] = 0
  /\ open' = open \cup {k}
  /\ signed' = [signed EXCEPT ![k] = 1]

Extend(k) ==
  /\ k \in open
  /\ signed[k] <= MaxRefreshes
  /\ signed' = [signed EXCEPT ![k] = @ + 1]
  /\ UNCHANGED open

Close(k) ==
  /\ k \in open
  /\ open' = open \ {k}
  /\ UNCHANGED signed

Next == \E k \in Keys : Open(k) \/ Extend(k) \/ Close(k)

Spec == Init /\ [][Next]_<<open, signed>>

\* The bound follows: no session outlives its tokens.
Bounded == \A k \in Keys : signed[k] <= MaxRefreshes + 1
=============================================================================
