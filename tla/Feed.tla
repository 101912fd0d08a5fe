-------------------------------- MODULE Feed --------------------------------
(***************************************************************************)
(* What a client of redteam/scan_events.py may count on: the events it is  *)
(* sent after the first come in the order of their publication, each at    *)
(* most once; some may be missing; and the stream ends by itself only when *)
(* the scan is over.  (The first event is a replay of the latest one, and  *)
(* may come again.)                                                        *)
(***************************************************************************)
EXTENDS Naturals

CONSTANT Streams

VARIABLES
  published, \* number of events published; an event is its number
  closed,    \* the scan is over
  phase,     \* phase[s]: "new", "open", "ended" by the server, "quit" by the client
  seen       \* seen[s]: the last event sent after the replay

feed == <<published, closed, phase, seen>>

FeedInit ==
  /\ published = 0 /\ closed = FALSE
  /\ phase = [s \in Streams |-> "new"]
  /\ seen = [s \in Streams |-> 0]

Emit ==
  /\ ~closed
  /\ published' = published + 1
  /\ UNCHANGED <<closed, phase, seen>>

Close ==
  /\ closed' = TRUE
  /\ UNCHANGED <<published, phase, seen>>

\* The event being published may already be past this stream, or not yet.
Join(s) ==
  /\ phase[s] = "new"
  /\ phase' = [phase EXCEPT ![s] = "open"]
  /\ \E n \in {published - 1, published} \cap Nat : seen' = [seen EXCEPT ![s] = n]
  /\ UNCHANGED <<published, closed>>

Relay(s) ==
  /\ phase[s] = "open"
  /\ \E n \in seen[s] + 1 .. published : seen' = [seen EXCEPT ![s] = n]
  /\ UNCHANGED <<published, closed, phase>>

\* The last event may be sent as the stream ends.
End(s) ==
  /\ phase[s] = "open" /\ closed
  /\ phase' = [phase EXCEPT ![s] = "ended"]
  /\ \E n \in seen[s] .. published : seen' = [seen EXCEPT ![s] = n]
  /\ UNCHANGED <<published, closed>>

Quit(s) ==
  /\ phase[s] = "open"
  /\ phase' = [phase EXCEPT ![s] = "quit"]
  /\ UNCHANGED <<published, closed, seen>>

FeedNext ==
  \/ Emit \/ Close
  \/ \E s \in Streams : Join(s) \/ Relay(s) \/ End(s) \/ Quit(s)

FeedSpec == FeedInit /\ [][FeedNext]_feed
=============================================================================
