----------------------------- MODULE ScanEvents -----------------------------
(***************************************************************************)
(* redteam/scan_events.py for one scan: the scan thread publishes, the     *)
(* event loop sends each subscriber what its queue holds.                  *)
(*                                                                         *)
(* publish and cleanup walk the list of queues by index while the event    *)
(* loop appends to it and removes from it: no lock is taken (`writer').    *)
(* A subscriber reads its queue in a thread of the default executor.  When *)
(* its 15 seconds pass it gives up waiting, but the thread goes on, and    *)
(* takes the next message for nobody (`parked').                           *)
(*                                                                         *)
(* Events are numbered; data and heartbeats (is_stuck has no caller) are   *)
(* left out.                                                               *)
(***************************************************************************)
EXTENDS Naturals, Sequences, SequencesExt

CONSTANTS
  Streams,  \* requests for the stream of this scan
  QueueMax, \* 100 in the code
  Workers,  \* threads of the default executor
  Leavers,  \* streams whose client may go away
  Events    \* bound of the events published before "done"

ASSUME EventParameters == QueueMax \in Nat \ {0} /\ Workers \in Nat /\ Leavers \subseteq Streams /\ Events \in Nat

\* The event cleanup puts into the queues.
Cleaned == 0

VARIABLES
  count,  \* events published
  doneAt, \* number of the "done" event, or 0
  latest, \* _last_events: number of the latest event, or 0
  done,   \* _done
  subs,   \* _subscribers: the list of queues, each named by its stream
  queue,  \* queue[s]
  writer, \* the walk of publish or cleanup over the list: its step, its
          \* index, and the queues found full
  stream, \* stream[s]: the step of the subscriber
  seen,   \* seen[s]: the last event its queue gave it
  parked  \* parked[s]: executor threads waiting on queue[s] for nobody

broker == <<count, doneAt, latest, done, subs, queue, writer>>
clients == <<stream, seen, parked>>
evars == <<broker, clients>>

Idle == [step |-> "idle", at |-> 1, full |-> <<>>]

\* Steps of a subscriber that waits: it was sent the replay; it asks for a
\* thread of the executor; its thread waits on the queue.
Waiting == {"replayed", "queued", "getting"}

EventsInit ==
  /\ count = 0 /\ doneAt = 0 /\ latest = 0 /\ done = FALSE
  /\ subs = <<>> /\ queue = [s \in Streams |-> <<>>] /\ writer = Idle
  /\ stream = [s \in Streams |-> "new"]
  /\ seen = [s \in Streams |-> 0] /\ parked = [s \in Streams |-> 0]

-----------------------------------------------------------------------------
(* publish and cleanup, called by the scan thread.                         *)

\* Slip, for ImplementsFeed: events are published after "done".
PublishLate(isDone) ==
  /\ writer.step = "idle"
  /\ count' = count + 1 /\ latest' = count + 1
  /\ doneAt' = IF isDone THEN count + 1 ELSE doneAt
  /\ writer' = [Idle EXCEPT !.step = IF isDone THEN "mark" ELSE "put"]
  /\ UNCHANGED <<done, subs, queue, clients>>

\* The event becomes the latest one; nothing happens after "done".
Publish(isDone) ==
  /\ writer.step = "idle"
  /\ IF done
     THEN UNCHANGED <<count, latest, doneAt, writer>>
     ELSE /\ count' = count + 1 /\ latest' = count + 1
          /\ doneAt' = IF isDone THEN count + 1 ELSE doneAt
          /\ writer' = [Idle EXCEPT !.step = IF isDone THEN "mark" ELSE "put"]
  /\ UNCHANGED <<done, subs, queue, clients>>

MarkDone ==
  /\ writer.step = "mark"
  /\ done' = TRUE /\ writer' = [writer EXCEPT !.step = "put"]
  /\ UNCHANGED <<count, doneAt, latest, subs, queue, clients>>

\* Slip, for EventsTypeOK: the queue is created without a maxsize.
PutUnbounded(event, step) ==
  /\ writer.step = step /\ writer.at <= Len(subs)
  /\ queue' = [queue EXCEPT ![subs[writer.at]] = Append(@, event)]
  /\ writer' = [writer EXCEPT !.at = @ + 1]
  /\ UNCHANGED <<count, doneAt, latest, done, subs, clients>>

\* One turn of `for q in list', whatever was removed from the list before it.
Put(event, step) ==
  /\ writer.step = step /\ writer.at <= Len(subs)
  /\ LET s == subs[writer.at]
         isFull == Len(queue[s]) >= QueueMax
     IN /\ queue' = IF isFull THEN queue ELSE [queue EXCEPT ![s] = Append(@, event)]
        /\ writer' = [writer EXCEPT !.at = @ + 1,
                                    !.full = IF isFull /\ step = "put" THEN Append(@, s) ELSE @]
  /\ UNCHANGED <<count, doneAt, latest, done, subs, clients>>

\* The queues found full are dropped from the list, one after the other.
DropFull ==
  /\ (writer.step = "put" /\ writer.at > Len(subs)) \/ writer.step = "drop"
  /\ IF writer.full = <<>>
     THEN writer' = Idle /\ UNCHANGED subs
     ELSE /\ writer' = [writer EXCEPT !.step = "drop", !.full = Tail(@)]
          /\ subs' = RemoveFirst(subs, Head(writer.full))
  /\ UNCHANGED <<count, doneAt, latest, done, queue, clients>>

StartCleanup ==
  /\ writer.step = "idle"
  /\ done' = TRUE /\ writer' = [Idle EXCEPT !.step = "clean"]
  /\ UNCHANGED <<count, doneAt, latest, subs, queue, clients>>

\* Its queues and its latest event are forgotten; _done stays.
Forget ==
  /\ writer.step = "clean" /\ writer.at > Len(subs)
  /\ subs' = <<>> /\ latest' = 0 /\ writer' = Idle
  /\ UNCHANGED <<count, doneAt, done, queue, clients>>

Write == MarkDone \/ Put(count, "put") \/ DropFull \/ Put(Cleaned, "clean") \/ Forget

-----------------------------------------------------------------------------
(* subscribe(), one generator per stream.                                  *)

\* Executor threads in use: 0 is the one that a stream waits for, the others were left behind.
InUse == UNION {{s} \X ((IF stream[s] = "getting" THEN 0 ELSE 1)..parked[s]) : s \in Streams}
Busy == Cardinality(InUse)

Step(s, from, to) == stream[s] = from /\ stream' = [stream EXCEPT ![s] = to]

\* The finally clause, in the step that ends the loop.
Leave(s, from, to) ==
  /\ Step(s, from, to)
  /\ subs' = RemoveFirst(subs, s)

\* The queue joins the list, and the latest event is sent.
Subscribe(s) ==
  /\ Step(s, "new", "replayed")
  /\ subs' = Append(subs, s)
  /\ seen' = [seen EXCEPT ![s] = IF writer.step \in {"mark", "put"} THEN count - 1 ELSE count]
  /\ UNCHANGED <<count, doneAt, latest, done, queue, writer, parked>>

\* A client that goes away then leaves before the try: its queue stays.
QuitAtReplay(s) ==
  /\ latest # 0 /\ s \in Leavers
  /\ Step(s, "replayed", "gone")
  /\ UNCHANGED <<broker, seen, parked>>

\* The loop is entered unless the scan is over by now.
EnterLoop(s) ==
  /\ IF done THEN Leave(s, "replayed", "ended")
             ELSE Step(s, "replayed", "queued") /\ UNCHANGED subs
  /\ UNCHANGED <<count, doneAt, latest, done, queue, writer, seen, parked>>

\* run_in_executor: as soon as a thread is free.
StartGet(s) ==
  /\ Step(s, "queued", "getting")
  /\ Busy < Workers
  /\ UNCHANGED <<broker, seen, parked>>

IsDone(event) == event = Cleaned \/ event = doneAt

\* The event is sent; "done" ends the stream.
Receive(s) ==
  /\ queue[s] # <<>>
  /\ LET event == Head(queue[s])
     IN /\ Step(s, "getting", IF IsDone(event) THEN "done" ELSE "queued")
        /\ seen' = IF event = Cleaned THEN seen ELSE [seen EXCEPT ![s] = event]
  /\ queue' = [queue EXCEPT ![s] = Tail(@)]
  /\ UNCHANGED <<count, doneAt, latest, done, subs, writer, parked>>

\* A thread that nobody waits for any more takes a message.
Swallow(s) ==
  /\ parked[s] > 0 /\ queue[s] # <<>>
  /\ queue' = [queue EXCEPT ![s] = Tail(@)]
  /\ parked' = [parked EXCEPT ![s] = @ - 1]
  /\ UNCHANGED <<count, doneAt, latest, done, subs, writer, stream, seen>>

\* The thread that waits stays behind; one that never started is cancelled.
Abandon(s) == parked' = [parked EXCEPT ![s] = IF stream[s] = "getting" THEN @ + 1 ELSE @]

\* Slip, for StreamsEnd: a stream that times out never asks whether the scan is over.
TimeOutDeaf(s) ==
  /\ Step(s, "getting", "queued") /\ Abandon(s)
  /\ UNCHANGED <<broker, seen>>

\* 15 seconds without a message.
TimeOut(s) ==
  /\ \E from \in {"queued", "getting"} :
       IF done THEN Leave(s, from, "ended") ELSE Step(s, from, "queued") /\ UNCHANGED subs
  /\ Abandon(s)
  /\ UNCHANGED <<count, doneAt, latest, done, queue, writer, seen>>

\* The client goes away.
QuitInLoop(s) ==
  /\ s \in Leavers
  /\ \E from \in {"queued", "getting"} : Leave(s, from, "gone")
  /\ Abandon(s)
  /\ UNCHANGED <<count, doneAt, latest, done, queue, writer, seen>>

\* After "done" was sent.
Finish(s) ==
  /\ Leave(s, "done", "ended")
  /\ UNCHANGED <<count, doneAt, latest, done, queue, writer, seen, parked>>

\* What the event loop owes every stream: to run its next step.
Serve(s) == EnterLoop(s) \/ StartGet(s) \/ Receive(s) \/ TimeOut(s) \/ Finish(s)

(* The scan, as the broker sees it: events, "done" unless even that fails,  *)
(* cleanup.  (A module that extends this one has the real scan.)            *)

Publishing == count < Events /\ Publish(FALSE)
Finishing == doneAt = 0 /\ Publish(TRUE)
Ending == (done => latest # 0) /\ StartCleanup

EventsNext ==
  \/ Publishing \/ Finishing \/ Ending \/ Write
  \/ \E s \in Streams :
       Subscribe(s) \/ Serve(s) \/ Swallow(s) \/ QuitAtReplay(s) \/ QuitInLoop(s)

\* A scan ends; publish goes on; the event loop serves every stream.
EventsSpec ==
  /\ EventsInit /\ [][EventsNext]_evars
  /\ WF_evars(Finishing \/ Ending) /\ WF_evars(Write) /\ \A s \in Streams : WF_evars(Serve(s))

-----------------------------------------------------------------------------

EventsTypeOK ==
  /\ count \in Nat /\ doneAt \in 0..count /\ latest \in 0..count /\ done \in BOOLEAN
  /\ subs \in Seq(Streams) /\ IsInjective(subs)
  /\ queue \in [Streams -> Seq(0..count)] /\ \A s \in Streams : Len(queue[s]) <= QueueMax
  /\ writer.step \in {"idle", "mark", "put", "drop", "clean"} /\ writer.at \in Nat \ {0}
  /\ stream \in [Streams -> Waiting \cup {"new", "done", "ended", "gone"}]
  /\ seen \in [Streams -> 0..count] /\ parked \in [Streams -> Nat] /\ Busy <= Workers

Phase(s) == CASE stream[s] = "new" -> "new"
              [] stream[s] \in {"done", "ended"} -> "ended"
              [] stream[s] = "gone" -> "quit"
              [] OTHER -> "open"

Promise == INSTANCE Feed WITH published <- count, closed <- done,
                              phase <- [s \in Streams |-> Phase(s)], seen <- seen

\* The broker keeps the promise of Feed: nothing is sent out of order or
\* twice, nothing is published after the end, and no stream ends before it.
ImplementsFeed == Promise!FeedSpec

\* Every stream ends: one whose "done" event was lost, whose queue was
\* dropped, or that found no thread to wait in.
StreamsEnd == \A s \in Streams : stream[s] \in Waiting ~> stream[s] \in {"ended", "gone"}
=============================================================================
