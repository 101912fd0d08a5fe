----------------------------- MODULE GreyProofs -----------------------------
(***************************************************************************)
(* For any streams, queue length, threads and bounds, and however the      *)
(* thread, the broker, the streams and the user interleave: the broker     *)
(* keeps the promise of Feed, the report uses it as a scan does, and the   *)
(* report agrees with its findings and leaves no sandbox.                  *)
(***************************************************************************)
EXTENDS GreyReport, FiniteSetTheorems, SequenceTheorems, TLAPS

-----------------------------------------------------------------------------
(* Lists and queues.                                                        *)

\* What becomes of a list without repetitions when an element is removed from it: the others move
\* towards the front.
LEMMA Removed ==
  ASSUME NEW S, NEW q \in Seq(S), IsInjective(q), NEW e
  PROVE  LET r == RemoveFirst(q, e)
         IN /\ r \in Seq(S) /\ IsInjective(r)
            /\ \A i \in 1..Len(r) : \E j \in 1..Len(q) : i <= j /\ r[i] = q[j]
<1> DEFINE r == RemoveFirst(q, e)
<1>1. CASE ~\E i \in 1..Len(q) : q[i] = e
  <2>1. r = q
    BY <1>1 DEF RemoveFirst
  <2>. QED
    BY <2>1
<1>2. CASE \E i \in 1..Len(q) : q[i] = e
  <2>1. PICK k \in 1..Len(q) : q[k] = e
    BY <1>2
  <2>2. DOMAIN q = 1..Len(q) /\ \A i, j \in 1..Len(q) : q[i] = q[j] => i = j
    BY LenProperties DEF IsInjective
  <2>3. {i \in 1..Len(q) : q[i] = e} = {k}
    BY <2>1, <2>2
  <2>4. Min({k}) = k
    BY <2>1 DEF Min
  <2>5. SelectInSeq(q, LAMBDA v : v = e) = k
    BY <2>3, <2>4 DEF SelectInSeq
  <2> DEFINE a == SubSeq(q, 1, k - 1)
             b == SubSeq(q, k + 1, Len(q))
  <2>6. r = a \o b
    BY <1>2, <2>5 DEF RemoveFirst, RemoveAt
  <2>7. /\ a \in Seq(S) /\ Len(a) = k - 1
        /\ \A i \in 1..(k - 1) : a[i] = q[i]
    <3>1. \A i \in 1..(k - 1) : q[i] \in S
      BY <2>1, ElementOfSeq
    <3>. QED
      BY <2>1, <3>1, SubSeqProperties
  <2>8. /\ b \in Seq(S) /\ Len(b) = Len(q) - k
        /\ \A i \in 1..(Len(q) - k) : b[i] = q[k + i]
    <3>1. \A i \in (k + 1)..Len(q) : q[i] \in S
      BY <2>1, ElementOfSeq
    <3>. QED
      BY <2>1, <3>1, SubSeqProperties
  <2>. HIDE DEF a, b
  <2>9. /\ r \in Seq(S) /\ Len(r) = Len(q) - 1
        /\ \A i \in 1..Len(r) : r[i] = IF i < k THEN q[i] ELSE q[i + 1]
    <3>1. /\ r \in Seq(S) /\ Len(r) = Len(a) + Len(b)
          /\ \A i \in 1..(Len(a) + Len(b)) : r[i] = IF i <= Len(a) THEN a[i] ELSE b[i - Len(a)]
      <4>1. a \in Seq(S) /\ b \in Seq(S)
        BY <2>7, <2>8
      <4>2. /\ a \o b \in Seq(S) /\ Len(a \o b) = Len(a) + Len(b)
            /\ \A i \in 1..(Len(a) + Len(b)) : (a \o b)[i] = IF i <= Len(a) THEN a[i] ELSE b[i - Len(a)]
        BY <4>1, ConcatProperties, Zenon
      <4>. QED
        BY <2>6, <4>2, Zenon
    <3>2. Len(r) = Len(q) - 1 /\ Len(q) \in Nat
      BY <2>7, <2>8, <3>1, LenProperties
    <3>3. ASSUME NEW i \in 1..Len(r)
          PROVE  r[i] = IF i < k THEN q[i] ELSE q[i + 1]
      <4>1. CASE i < k
        BY <2>7, <2>8, <3>1, <3>2, <4>1
      <4>2. CASE i >= k
        <5>1. r[i] = b[i - (k - 1)] /\ i - (k - 1) \in 1..(Len(q) - k)
          BY <2>7, <2>8, <3>1, <3>2, <4>2
        <5>2. b[i - (k - 1)] = q[k + (i - (k - 1))] /\ k + (i - (k - 1)) = i + 1
          BY <2>8, <5>1
        <5>. QED
          BY <4>2, <5>1, <5>2
      <4>. QED
        BY <2>1, <3>2, <4>1, <4>2
    <3>. QED
      BY <3>1, <3>2, <3>3
  <2>10. DOMAIN r = 1..Len(r)
    BY <2>9, LenProperties
  <2>. HIDE DEF r
  <2>11. IsInjective(r)
    BY <2>1, <2>2, <2>9, <2>10 DEF IsInjective
  <2>12. ASSUME NEW i \in 1..Len(r)
         PROVE  \E j \in 1..Len(q) : i <= j /\ r[i] = q[j]
    BY <2>1, <2>9
  <2>. QED
    BY <2>9, <2>11, <2>12 DEF r
<1>. QED
  BY <1>1, <1>2

\* The elements of a list or a queue that another joins at the end, or whose first one is taken.
LEMMA Joined ==
  ASSUME NEW S, NEW q \in Seq(S), NEW e \in S
  PROVE  /\ Append(q, e) \in Seq(S) /\ Len(Append(q, e)) = Len(q) + 1
         /\ \A i \in 1..(Len(q) + 1) : Append(q, e)[i] = IF i = Len(q) + 1 THEN e ELSE q[i]
  BY AppendProperties, LenProperties

LEMMA JoinedOnce ==
  ASSUME NEW S, NEW q \in Seq(S), IsInjective(q), NEW e \in S, \A i \in 1..Len(q) : q[i] # e
  PROVE  IsInjective(Append(q, e))
<1>1. DOMAIN q = 1..Len(q) /\ DOMAIN Append(q, e) = 1..(Len(q) + 1) /\ Len(q) \in Nat
  BY Joined, LenProperties
<1>2. \A i, j \in 1..Len(q) : q[i] = q[j] => i = j
  BY <1>1 DEF IsInjective
<1>3. \A i \in 1..(Len(q) + 1) : Append(q, e)[i] = IF i = Len(q) + 1 THEN e ELSE q[i]
  BY Joined
<1>. QED
  BY <1>1, <1>2, <1>3 DEF IsInjective

LEMMA Taken ==
  ASSUME NEW S, NEW q \in Seq(S), q # <<>>
  PROVE  /\ Head(q) = q[1] /\ q[1] \in S /\ 1 \in 1..Len(q)
         /\ Tail(q) \in Seq(S) /\ Len(Tail(q)) = Len(q) - 1
         /\ \A i \in 1..Len(Tail(q)) : Tail(q)[i] = q[i + 1] /\ i + 1 \in 1..Len(q)
<1>1. Len(q) \in Nat \ {0}
  BY EmptySeq, LenProperties
<1>. QED
  BY <1>1, HeadTailProperties, ElementOfSeq

LEMMA Wider ==
  ASSUME NEW S, NEW R, S \subseteq R, NEW q \in Seq(S)
  PROVE  q \in Seq(R)
<1>1. q \in [1..Len(q) -> S] /\ Len(q) \in Nat
  BY LenProperties
<1>2. q \in [1..Len(q) -> R]
  BY <1>1
<1>. QED
  BY <1>1, <1>2, SeqDef

-----------------------------------------------------------------------------
(* Threads of the executor.                                                 *)

Slots(st, pk) == UNION {{s} \X ((IF st[s] = "getting" THEN 0 ELSE 1)..pk[s]) : s \in Streams}

LEMMA SlotOf ==
  ASSUME NEW st, NEW pk \in [Streams -> Nat], NEW x
  PROVE  x \in Slots(st, pk) <=> \E s \in Streams, n \in Nat :
                                   x = <<s, n>> /\ n <= pk[s] /\ (n = 0 => st[s] = "getting")
  BY DEF Slots

\* A stream takes a thread.
LEMMA ThreadTaken ==
  ASSUME NEW st, NEW sq, NEW pk \in [Streams -> Nat], NEW s \in Streams,
         \A z \in Streams \ {s} : sq[z] = st[z], st[s] # "getting", sq[s] = "getting",
         IsFiniteSet(Slots(st, pk))
  PROVE  /\ IsFiniteSet(Slots(sq, pk))
         /\ Cardinality(Slots(sq, pk)) = Cardinality(Slots(st, pk)) + 1
<1>1. Slots(sq, pk) = Slots(st, pk) \cup {<<s, 0>>}
  BY SlotOf
<1>2. <<s, 0>> \notin Slots(st, pk)
  BY SlotOf
<1>. QED
  BY <1>1, <1>2, FS_AddElement

\* It gives it back.
LEMMA ThreadReturned ==
  ASSUME NEW st, NEW sq, NEW pk \in [Streams -> Nat], NEW s \in Streams,
         \A z \in Streams \ {s} : sq[z] = st[z], st[s] = "getting", sq[s] # "getting",
         IsFiniteSet(Slots(st, pk))
  PROVE  /\ IsFiniteSet(Slots(sq, pk))
         /\ Cardinality(Slots(sq, pk)) = Cardinality(Slots(st, pk)) - 1
<1>1. Slots(sq, pk) = Slots(st, pk) \ {<<s, 0>>}
  BY SlotOf
<1>2. <<s, 0>> \in Slots(st, pk)
  BY SlotOf
<1>. QED
  BY <1>1, <1>2, FS_RemoveElement

\* It leaves it behind.
LEMMA ThreadLeft ==
  ASSUME NEW st, NEW sq, NEW pk \in [Streams -> Nat], NEW s \in Streams,
         \A z \in Streams \ {s} : sq[z] = st[z], st[s] = "getting", sq[s] # "getting",
         IsFiniteSet(Slots(st, pk)), NEW pl \in [Streams -> Nat],
         pl[s] = pk[s] + 1, \A z \in Streams \ {s} : pl[z] = pk[z]
  PROVE  /\ IsFiniteSet(Slots(sq, pl))
         /\ Cardinality(Slots(sq, pl)) = Cardinality(Slots(st, pk))
<1>1. IsFiniteSet(Slots(sq, pk)) /\ Cardinality(Slots(sq, pk)) = Cardinality(Slots(st, pk)) - 1
  BY ThreadReturned
<1>2. Slots(sq, pl) = Slots(sq, pk) \cup {<<s, pk[s] + 1>>}
  BY SlotOf
<1>3. <<s, pk[s] + 1>> \notin Slots(sq, pk)
  BY SlotOf
<1>4. ASSUME NEW x, x \notin Slots(sq, pk)
      PROVE  /\ IsFiniteSet(Slots(sq, pk) \cup {x})
             /\ Cardinality(Slots(sq, pk) \cup {x}) = Cardinality(Slots(sq, pk)) + 1
  BY <1>1, <1>4, FS_AddElement
<1>5. Cardinality(Slots(st, pk)) \in Nat
  BY FS_CardinalityType
<1>6. /\ IsFiniteSet(Slots(sq, pl))
      /\ Cardinality(Slots(sq, pl)) = Cardinality(Slots(sq, pk)) + 1
  BY <1>2, <1>3, <1>4, Zenon
<1>. QED
  BY <1>1, <1>5, <1>6

\* A thread that was left behind ends.
LEMMA ThreadEnded ==
  ASSUME NEW st, NEW pk \in [Streams -> Nat], NEW s \in Streams, pk[s] > 0,
         IsFiniteSet(Slots(st, pk)), NEW pl \in [Streams -> Nat],
         pl[s] = pk[s] - 1, \A z \in Streams \ {s} : pl[z] = pk[z]
  PROVE  /\ IsFiniteSet(Slots(st, pl))
         /\ Cardinality(Slots(st, pl)) = Cardinality(Slots(st, pk)) - 1
<1>1. Slots(st, pl) = Slots(st, pk) \ {<<s, pk[s]>>}
  BY SlotOf
<1>2. <<s, pk[s]>> \in Slots(st, pk)
  BY SlotOf
<1>3. /\ IsFiniteSet(Slots(st, pk) \ {<<s, pk[s]>>})
      /\ Cardinality(Slots(st, pk) \ {<<s, pk[s]>>}) = Cardinality(Slots(st, pk)) - 1
  BY <1>2, FS_RemoveElement
<1>. QED
  BY <1>1, <1>3

\* The other steps of a stream concern no thread.
LEMMA ThreadsKept ==
  ASSUME NEW st, NEW sq, NEW pk, \A z \in Streams : sq[z] = "getting" <=> st[z] = "getting"
  PROVE  Slots(sq, pk) = Slots(st, pk)
  BY DEF Slots

-----------------------------------------------------------------------------
(* The broker.                                                              *)

\* The walk of publish or cleanup.
Walk == [step : {"idle", "mark", "put", "drop", "clean"}, at : Nat \ {0}, full : Seq(Streams)]

\* What the walk is doing says where the scan is: "done" is in no queue before the scan is marked.
WalkAgrees ==
  /\ writer.step \in {"mark", "put"} => count > 0
  /\ writer.step = "mark" => ~done /\ doneAt = count
  /\ writer.step = "clean" => done
  /\ doneAt # 0 /\ writer.step # "mark" => done

\* The event that ends a stream comes when the scan is over, and the others come in order, after
\* those the stream was sent.
QueueAgrees(s) ==
  /\ stream[s] = "new" => queue[s] = <<>>
  /\ \A i \in 1..Len(queue[s]) : IsDone(queue[s][i]) => done
  /\ stream[s] \in Waiting =>
       \A i \in 1..Len(queue[s]) : queue[s][i] # 0 => seen[s] < queue[s][i]
  /\ \A i, j \in 1..Len(queue[s]) : i < j /\ queue[s][j] # 0 => queue[s][i] < queue[s][j]

\* The event that is being put into the queues is new to those that the walk has not reached.
Unreached(s) == seen[s] < count /\ \A i \in 1..Len(queue[s]) : queue[s][i] < count
NewToTheRest ==
  writer.step \in {"mark", "put"} =>
    \A i \in 1..Len(subs) : i >= writer.at => Unreached(subs[i])

\* The inductive invariant of the broker.
EInv ==
  /\ EventsTypeOK /\ writer \in Walk /\ IsFiniteSet(InUse)
  /\ \A i \in 1..Len(subs) : stream[subs[i]] # "new"
  /\ WalkAgrees /\ NewToTheRest
  /\ \A s \in Streams : QueueAgrees(s)

LEMMA InitEInv == EventsInit => EInv
<1> SUFFICES ASSUME EventsInit
             PROVE  EInv
  OBVIOUS
<1>1. InUse = {}
  BY DEF InUse, EventsInit
<1>2. Busy = 0 /\ IsFiniteSet(InUse)
  BY <1>1, FS_EmptySet DEF Busy
<1>3. \A S : <<>> \in Seq(S) /\ Len(<<>>) = 0 /\ IsInjective(<<>>)
  BY EmptySeq DEF IsInjective
<1>4. EventsTypeOK
  <2>1. queue \in [Streams -> Seq(0..count)] /\ \A s \in Streams : Len(queue[s]) <= QueueMax
    BY <1>3, EventParameters DEF EventsInit
  <2>2. /\ writer.step = "idle" /\ writer.at = 1
        /\ stream \in [Streams -> {"new"}] /\ seen \in [Streams -> {0}] /\ parked \in [Streams -> {0}]
    BY DEF EventsInit, Idle
  <2>3. count \in Nat /\ doneAt \in 0..count /\ latest \in 0..count
    <3>1. count = 0 /\ doneAt = 0 /\ latest = 0
      BY DEF EventsInit
    <3>. QED
      BY <3>1
  <2>6. done \in BOOLEAN
    BY DEF EventsInit
  <2>4. subs \in Seq(Streams) /\ IsInjective(subs)
    BY <1>3 DEF EventsInit
  <2>5. /\ stream \in [Streams -> Waiting \cup {"new", "done", "ended", "gone"}]
        /\ seen \in [Streams -> 0..count] /\ parked \in [Streams -> Nat]
    BY <2>2, <2>3
  <2>. QED
    BY <1>2, <2>1, <2>2, <2>3, <2>4, <2>5, <2>6, EventParameters DEF EventsTypeOK
<1>5. writer \in Walk /\ WalkAgrees /\ NewToTheRest
  BY <1>3 DEF EventsInit, Idle, Walk, WalkAgrees, NewToTheRest
<1>6. (\A i \in 1..Len(subs) : stream[subs[i]] # "new") /\ \A s \in Streams : QueueAgrees(s)
  BY <1>3 DEF EventsInit, QueueAgrees, Waiting
<1>. QED
  BY <1>2, <1>4, <1>5, <1>6 DEF EInv

\* What the invariant says of the lists and the queues, element by element.
LEMMA BrokerTypes ==
  ASSUME EInv
  PROVE  /\ count \in Nat /\ doneAt \in 0..count /\ latest \in 0..count /\ done \in BOOLEAN
         /\ subs \in Seq(Streams) /\ IsInjective(subs) /\ Len(subs) \in Nat
         /\ \A i \in 1..Len(subs) : subs[i] \in Streams /\ stream[subs[i]] # "new"
         /\ \A i, j \in 1..Len(subs) : subs[i] = subs[j] => i = j
         /\ queue \in [Streams -> Seq(0..count)]
         /\ \A s \in Streams : Len(queue[s]) \in Nat /\ Len(queue[s]) <= QueueMax
         /\ \A s \in Streams : \A i \in 1..Len(queue[s]) : queue[s][i] \in 0..count
         /\ writer \in Walk /\ writer.at \in Nat \ {0} /\ writer.full \in Seq(Streams)
         /\ stream \in [Streams -> Waiting \cup {"new", "done", "ended", "gone"}]
         /\ seen \in [Streams -> 0..count] /\ parked \in [Streams -> Nat]
<1>1. /\ subs \in Seq(Streams) /\ IsInjective(subs)
      /\ queue \in [Streams -> Seq(0..count)]
      /\ writer \in Walk
  BY DEF EInv, EventsTypeOK
<1>2. Len(subs) \in Nat /\ DOMAIN subs = 1..Len(subs) /\ \A i \in 1..Len(subs) : subs[i] \in Streams
  BY <1>1, LenProperties, ElementOfSeq
<1>3. ASSUME NEW s \in Streams
      PROVE  Len(queue[s]) \in Nat /\ \A i \in 1..Len(queue[s]) : queue[s][i] \in 0..count
  <2>1. queue[s] \in Seq(0..count)
    BY <1>1
  <2>. QED
    BY <2>1, LenProperties, ElementOfSeq
<1>4. \A i, j \in 1..Len(subs) : subs[i] = subs[j] => i = j
  BY <1>1, <1>2 DEF IsInjective
<1>5. writer.at \in Nat \ {0} /\ writer.full \in Seq(Streams)
  BY <1>1 DEF Walk
<1>. QED
  BY <1>1, <1>2, <1>3, <1>4, <1>5 DEF EInv, EventsTypeOK

\* The steps of the thread concern no thread of the executor.
LEMMA ClientsKept == UNCHANGED clients => InUse' = InUse /\ Busy' = Busy
  BY DEF clients, InUse, Busy

LEMMA PublishKeeps ==
  ASSUME EInv, NEW isDone \in BOOLEAN, Publish(isDone)
  PROVE  EInv'
<1>0. UNCHANGED <<done, subs, queue, stream, seen, parked>> /\ InUse' = InUse /\ Busy' = Busy
  BY ClientsKept DEF Publish, clients
<1>1. CASE done
  BY <1>0, <1>1 DEF Publish, EInv, EventsTypeOK, WalkAgrees, NewToTheRest, Unreached, QueueAgrees, IsDone
<1>2. CASE ~done
  <2>1. /\ count' = count + 1 /\ latest' = count + 1
        /\ doneAt' = IF isDone THEN count + 1 ELSE doneAt
        /\ writer' = [Idle EXCEPT !.step = IF isDone THEN "mark" ELSE "put"]
        /\ writer.step = "idle"
    BY <1>2 DEF Publish
  <2>2. /\ writer' \in Walk /\ writer'.at = 1
        /\ writer'.step = IF isDone THEN "mark" ELSE "put"
    <3>1. <<>> \in Seq(Streams)
      BY EmptySeq
    <3>2. CASE isDone
      <4>1. writer' = [step |-> "mark", at |-> 1, full |-> <<>>]
        BY <2>1, <3>2 DEF Idle
      <4>. QED
        BY <3>1, <3>2, <4>1 DEF Walk
    <3>3. CASE ~isDone
      <4>1. writer' = [step |-> "put", at |-> 1, full |-> <<>>]
        BY <2>1, <3>3 DEF Idle
      <4>. QED
        BY <3>1, <3>3, <4>1 DEF Walk
    <3>. QED
      BY <3>2, <3>3
  <2>3. queue' \in [Streams -> Seq(0..count')]
    <3>1. \A s \in Streams : queue[s] \in Seq(0..count')
      BY <2>1, BrokerTypes, Wider
    <3>. QED
      BY <1>0, <3>1, BrokerTypes
  <2>4. EventsTypeOK'
    <3>1. /\ count' \in Nat /\ doneAt' \in 0..count' /\ latest' \in 0..count' /\ done' \in BOOLEAN
          /\ \A n \in 0..count : n \in 0..count'
      BY <1>0, <2>1, BrokerTypes
    <3>2. seen' \in [Streams -> 0..count'] /\ parked' \in [Streams -> Nat]
      BY <1>0, <3>1, BrokerTypes
    <3>3. /\ writer'.step \in {"idle", "mark", "put", "drop", "clean"} /\ writer'.at \in Nat \ {0}
      BY <2>2
    <3>4. /\ subs' \in Seq(Streams) /\ IsInjective(subs)' /\ Busy' <= Workers
          /\ \A s \in Streams : Len(queue'[s]) <= QueueMax
          /\ stream' \in [Streams -> Waiting \cup {"new", "done", "ended", "gone"}]
      BY <1>0 DEF EInv, EventsTypeOK
    <3>. QED
      BY <2>3, <3>1, <3>2, <3>3, <3>4 DEF EventsTypeOK
  <2>5. WalkAgrees'
    BY <1>0, <1>2, <2>1, <2>2, BrokerTypes DEF EInv, WalkAgrees
  <2>6. NewToTheRest'
    <3>1. ASSUME NEW i \in 1..Len(subs)
          PROVE  Unreached(subs[i])'
      <4>1. /\ subs[i] \in Streams /\ count \in Nat /\ seen[subs[i]] \in 0..count
            /\ \A j \in 1..Len(queue[subs[i]]) : queue[subs[i]][j] \in 0..count
        BY BrokerTypes
      <4>. QED
        BY <1>0, <2>1, <4>1 DEF Unreached
    <3>. QED
      BY <1>0, <3>1 DEF NewToTheRest
  <2>7. ASSUME NEW s \in Streams
        PROVE  QueueAgrees(s)'
    <3>1. \A i \in 1..Len(queue[s]) : queue[s][i] \in 0..count
      BY BrokerTypes
    <3>2. \A i \in 1..Len(queue[s]) : IsDone(queue[s][i])' => IsDone(queue[s][i])
      BY <1>0, <2>1, <3>1, BrokerTypes DEF IsDone
    <3>. QED
      BY <1>0, <3>2 DEF EInv, QueueAgrees
  <2>. QED
    BY <1>0, <2>2, <2>4, <2>5, <2>6, <2>7 DEF EInv
<1>. QED
  BY <1>1, <1>2

LEMMA MarkKeeps == EInv /\ MarkDone => EInv'
<1> SUFFICES ASSUME EInv, MarkDone
             PROVE  EInv'
  OBVIOUS
<1>0. UNCHANGED <<count, doneAt, latest, subs, queue, stream, seen, parked>> /\ InUse' = InUse /\ Busy' = Busy
  BY ClientsKept DEF MarkDone, clients
<1>1. /\ done' = TRUE /\ writer.step = "mark" /\ writer' \in Walk
      /\ writer'.step = "put" /\ writer'.at = writer.at
  BY BrokerTypes DEF MarkDone, Walk
<1>2. EventsTypeOK'
  BY <1>0, <1>1, BrokerTypes DEF EInv, EventsTypeOK
<1>3. WalkAgrees' /\ NewToTheRest'
  BY <1>0, <1>1, BrokerTypes DEF EInv, WalkAgrees, NewToTheRest, Unreached
<1>4. \A s \in Streams : QueueAgrees(s)'
  BY <1>0, <1>1 DEF EInv, QueueAgrees
<1>. QED
  BY <1>0, <1>1, <1>2, <1>3, <1>4 DEF EInv

LEMMA IdleWalk == Idle \in Walk /\ Idle.step = "idle"
  BY EmptySeq DEF Idle, Walk

\* The turn of a walk on one queue.
LEMMA PutKeeps ==
  ASSUME EInv, NEW event, NEW step, Put(event, step),
         (event = count /\ step = "put") \/ (event = Cleaned /\ step = "clean")
  PROVE  EInv'
<1> DEFINE s == subs[writer.at]
           isFull == Len(queue[s]) >= QueueMax
<1>0. /\ UNCHANGED <<count, doneAt, latest, done, subs, stream, seen, parked>>
      /\ InUse' = InUse /\ Busy' = Busy
  BY ClientsKept DEF Put, clients
<1>1. /\ writer.step = step /\ writer.at \in 1..Len(subs) /\ s \in Streams
      /\ queue' = IF isFull THEN queue ELSE [queue EXCEPT ![s] = Append(@, event)]
      /\ writer' = [writer EXCEPT !.at = @ + 1,
                                  !.full = IF isFull /\ step = "put" THEN Append(@, s) ELSE @]
  BY BrokerTypes DEF Put
<1>2. writer' \in Walk /\ writer'.step = step /\ writer'.at = writer.at + 1
  <2> DEFINE full == IF isFull /\ step = "put" THEN Append(writer.full, s) ELSE writer.full
  <2>1. full \in Seq(Streams)
    BY <1>1, BrokerTypes, AppendProperties
  <2>2. writer' = [writer EXCEPT !.at = writer.at + 1, !.full = full]
    BY <1>1
  <2>. HIDE DEF full
  <2>3. writer \in Walk /\ writer.at \in Nat \ {0}
    BY BrokerTypes
  <2>4. writer.at + 1 \in Nat \ {0}
    BY <2>3
  <2>. QED
    BY <1>1, <2>1, <2>2, <2>3, <2>4 DEF Walk
<1>3. event \in 0..count /\ (IsDone(event) => done) /\ (event # 0 => event = count /\ step = "put")
  <2>1. /\ count \in Nat /\ doneAt \in 0..count
        /\ step = "put" => count > 0 /\ (doneAt # 0 => done)
        /\ step = "clean" => done
    BY <1>1, BrokerTypes DEF EInv, WalkAgrees
  <2>2. CASE event = count /\ step = "put"
    BY <2>1, <2>2 DEF IsDone, Cleaned
  <2>3. CASE event = Cleaned /\ step = "clean"
    BY <2>1, <2>3 DEF IsDone, Cleaned
  <2>. QED
    BY <2>2, <2>3
<1>4. step = "put" => \A i \in writer.at..Len(subs) : Unreached(subs[i])
  BY <1>1, BrokerTypes DEF EInv, NewToTheRest
\* What the queue of s becomes.
<1>5. \/ queue' = queue
      \/ /\ Len(queue[s]) < QueueMax /\ \A z \in Streams \ {s} : queue'[z] = queue[z]
         /\ queue' \in [Streams -> Seq(0..count)]
         /\ Len(queue'[s]) = Len(queue[s]) + 1
         /\ \A i \in 1..Len(queue'[s]) :
              queue'[s][i] = IF i = Len(queue[s]) + 1 THEN event ELSE queue[s][i]
  <2>1. CASE isFull
    BY <1>1, <2>1
  <2>2. CASE ~isFull
    <3>1. queue' = [queue EXCEPT ![s] = Append(queue[s], event)]
      BY <1>1, <2>2
    <3>2. queue[s] \in Seq(0..count)
      BY <1>1, BrokerTypes
    <3>3. /\ Append(queue[s], event) \in Seq(0..count) /\ Len(Append(queue[s], event)) = Len(queue[s]) + 1
          /\ \A i \in 1..(Len(queue[s]) + 1) :
               Append(queue[s], event)[i] = IF i = Len(queue[s]) + 1 THEN event ELSE queue[s][i]
      <4>1. event \in 0..count
        BY <1>3
      <4>. QED
        BY <3>2, <4>1, Joined
    <3>4. queue'[s] = Append(queue[s], event) /\ \A z \in Streams \ {s} : queue'[z] = queue[z]
      <4>1. queue \in [Streams -> Seq(0..count)] /\ s \in Streams
        BY <1>1, BrokerTypes
      <4>. QED
        BY <3>1, <4>1
    <3>5. queue' \in [Streams -> Seq(0..count)]
      <4>1. queue \in [Streams -> Seq(0..count)] /\ Append(queue[s], event) \in Seq(0..count)
        BY <3>3, BrokerTypes
      <4>. QED
        BY <3>1, <4>1, Zenon
    <3>6. Len(queue[s]) < QueueMax
      <4>1. Len(queue[s]) \in Nat /\ QueueMax \in Nat
        BY <1>1, BrokerTypes, EventParameters
      <4>. QED
        BY <2>2, <4>1
    <3>. QED
      BY <3>3, <3>4, <3>5, <3>6
  <2>. QED
    BY <2>1, <2>2
<1>6. s \in Streams /\ writer.at \in 1..Len(subs) /\ subs[writer.at] = s
  BY <1>1
<1>. HIDE DEF s, isFull
<1>7. queue' \in [Streams -> Seq(0..count)] /\ \A z \in Streams : Len(queue'[z]) <= QueueMax
  <2>1. CASE queue' = queue
    BY <2>1, BrokerTypes
  <2>2. CASE queue' # queue
    <3>1. /\ queue' \in [Streams -> Seq(0..count)] /\ Len(queue[s]) < QueueMax
          /\ Len(queue'[s]) = Len(queue[s]) + 1 /\ \A z \in Streams \ {s} : queue'[z] = queue[z]
      BY <1>5, <2>2
    <3>2. Len(queue'[s]) <= QueueMax
      BY <1>6, <3>1, BrokerTypes, EventParameters
    <3>. QED
      BY <3>1, <3>2, BrokerTypes
  <2>. QED
    BY <2>1, <2>2
<1>8. EventsTypeOK'
  BY <1>0, <1>2, <1>7, BrokerTypes DEF EInv, EventsTypeOK, Walk
<1>9. WalkAgrees'
  BY <1>0, <1>1, <1>2 DEF EInv, WalkAgrees
<1>10. NewToTheRest'
  <2>1. ASSUME step = "put", NEW i \in 1..Len(subs), i >= writer.at + 1
        PROVE  Unreached(subs[i])'
    <3>1. subs[i] \in Streams /\ subs[i] # s /\ Unreached(subs[i])
      <4>1. i \in writer.at..Len(subs) /\ i # writer.at
        <5>1. Len(subs) \in Nat /\ writer.at \in Nat
          BY BrokerTypes
        <5>. QED
          BY <2>1, <5>1
      <4>2. subs[i] \in Streams /\ subs[i] # subs[writer.at]
        BY <1>6, <4>1, BrokerTypes
      <4>. QED
        BY <1>4, <1>6, <2>1, <4>1, <4>2
    <3>2. queue'[subs[i]] = queue[subs[i]]
      BY <1>5, <3>1
    <3>. QED
      BY <1>0, <3>1, <3>2 DEF Unreached
  <2>2. step \in {"put", "clean"}
    OBVIOUS
  <2>. QED
    BY <1>0, <1>2, <2>1, <2>2 DEF NewToTheRest
<1>11. ASSUME NEW z \in Streams
       PROVE  QueueAgrees(z)'
  <2>1. CASE queue'[z] = queue[z]
    BY <1>0, <2>1 DEF EInv, QueueAgrees, IsDone
  <2>2. CASE queue'[z] # queue[z]
    <3>1. /\ z = s /\ Len(queue[z]) \in Nat /\ Len(queue'[z]) = Len(queue[z]) + 1
          /\ \A i \in 1..Len(queue'[z]) :
               queue'[z][i] = IF i = Len(queue[z]) + 1 THEN event ELSE queue[z][i]
      BY <1>5, <2>2, BrokerTypes
    <3>2. QueueAgrees(z) /\ stream[z] # "new"
      BY <1>6, <3>1, BrokerTypes DEF EInv
    <3>3. event # 0 => Unreached(z) /\ event = count
      BY <1>3, <1>4, <1>6, <3>1
    <3>4. \A i \in 1..Len(queue'[z]) : IsDone(queue'[z][i]) => done
      BY <1>3, <3>1, <3>2 DEF QueueAgrees
    <3>5. stream[z] \in Waiting =>
            \A i \in 1..Len(queue'[z]) : queue'[z][i] # 0 => seen[z] < queue'[z][i]
      BY <3>1, <3>2, <3>3 DEF QueueAgrees, Unreached
    <3>6. ASSUME NEW i \in 1..Len(queue'[z]), NEW j \in 1..Len(queue'[z]), i < j, queue'[z][j] # 0
          PROVE  queue'[z][i] < queue'[z][j]
      <4>1. i \in 1..Len(queue[z]) /\ queue'[z][i] = queue[z][i]
        BY <3>1, <3>6
      <4>2. CASE j = Len(queue[z]) + 1
        BY <3>1, <3>3, <3>6, <4>1, <4>2 DEF Unreached
      <4>3. CASE j # Len(queue[z]) + 1
        BY <3>1, <3>2, <3>6, <4>1, <4>3 DEF QueueAgrees
      <4>. QED
        BY <4>2, <4>3
    <3>. QED
      BY <1>0, <3>2, <3>4, <3>5, <3>6 DEF QueueAgrees, IsDone
  <2>. QED
    BY <2>1, <2>2
<1>. QED
  BY <1>0, <1>2, <1>8, <1>9, <1>10, <1>11, BrokerTypes DEF EInv

\* A list of queues from which some were removed.
LEMMA Shorter ==
  ASSUME EInv, NEW e
  PROVE  LET r == RemoveFirst(subs, e)
         IN /\ r \in Seq(Streams) /\ IsInjective(r)
            /\ \A i \in 1..Len(r) : \E j \in 1..Len(subs) : i <= j /\ r[i] = subs[j]
  BY BrokerTypes, Removed

LEMMA DropKeeps == EInv /\ DropFull => EInv'
<1> SUFFICES ASSUME EInv, DropFull
             PROVE  EInv'
  OBVIOUS
<1>0. /\ UNCHANGED <<count, doneAt, latest, done, queue, stream, seen, parked>>
      /\ InUse' = InUse /\ Busy' = Busy
  BY ClientsKept DEF DropFull, clients
<1>1. writer' \in Walk /\ writer'.step \in {"idle", "drop"} /\ writer.step # "mark"
  <2>0. writer.step # "mark"
    BY DEF DropFull
  <2>1. CASE writer.full = <<>>
    <3>1. writer' = Idle
      BY <2>1 DEF DropFull
    <3>. QED
      BY <2>0, <3>1, IdleWalk
  <2>2. CASE writer.full # <<>>
    <3>1. writer' = [writer EXCEPT !.step = "drop", !.full = Tail(writer.full)]
      BY <2>2 DEF DropFull
    <3>2. writer \in Walk /\ Tail(writer.full) \in Seq(Streams)
      BY <2>2, BrokerTypes, HeadTailProperties
    <3>. QED
      BY <2>0, <3>1, <3>2 DEF Walk
  <2>. QED
    BY <2>1, <2>2
<1>2. /\ subs' \in Seq(Streams) /\ IsInjective(subs)'
      /\ \A i \in 1..Len(subs') : \E j \in 1..Len(subs) : i <= j /\ subs'[i] = subs[j]
  <2>1. CASE writer.full = <<>>
    <3>1. subs' = subs
      BY <2>1 DEF DropFull
    <3>. QED
      BY <3>1, BrokerTypes
  <2>2. CASE writer.full # <<>>
    <3>1. subs' = RemoveFirst(subs, Head(writer.full))
      BY <2>2 DEF DropFull
    <3>. QED
      BY <3>1, Shorter
  <2>. QED
    BY <2>1, <2>2
<1>3. EventsTypeOK'
  BY <1>0, <1>1, <1>2, BrokerTypes DEF EInv, EventsTypeOK, Walk
<1>4. ASSUME NEW i \in 1..Len(subs')
      PROVE  stream'[subs'[i]] # "new"
  <2>1. PICK j \in 1..Len(subs) : subs'[i] = subs[j]
    BY <1>2
  <2>. QED
    BY <1>0, <2>1, BrokerTypes
<1>5. WalkAgrees' /\ NewToTheRest'
  BY <1>0, <1>1 DEF EInv, WalkAgrees, NewToTheRest
<1>6. \A s \in Streams : QueueAgrees(s)'
  BY <1>0 DEF EInv, QueueAgrees, IsDone
<1>. QED
  BY <1>0, <1>1, <1>3, <1>4, <1>5, <1>6 DEF EInv

LEMMA CleanupKeeps ==
  ASSUME EInv, StartCleanup \/ Forget
  PROVE  EInv'
<1>0. /\ UNCHANGED <<count, doneAt, queue, stream, seen, parked>>
      /\ InUse' = InUse /\ Busy' = Busy
  BY ClientsKept DEF StartCleanup, Forget, clients
<1>1. /\ writer' \in Walk /\ writer'.step \in {"idle", "clean"} /\ writer.step # "mark"
      /\ (writer'.step = "clean" => done') /\ (done => done')
      /\ latest' \in {0, latest} /\ done' \in BOOLEAN
  <2>1. CASE StartCleanup
    <3>1. writer' = [Idle EXCEPT !.step = "clean"] /\ done' = TRUE /\ latest' = latest /\ writer.step = "idle"
      BY <2>1 DEF StartCleanup
    <3>2. writer' \in Walk /\ writer'.step = "clean"
      BY <3>1, IdleWalk DEF Walk
    <3>. QED
      BY <3>1, <3>2
  <2>2. CASE Forget
    <3>1. writer' = Idle /\ done' = done /\ latest' = 0 /\ writer.step = "clean"
      BY <2>2 DEF Forget
    <3>. QED
      BY <3>1, IdleWalk, BrokerTypes
  <2>. QED
    BY <2>1, <2>2
<1>2. subs' = subs \/ subs' = <<>>
  BY DEF StartCleanup, Forget
<1>3. subs' \in Seq(Streams) /\ IsInjective(subs)' /\ \A i \in 1..Len(subs') : stream'[subs'[i]] # "new"
  <2>1. CASE subs' = subs
    BY <1>0, <2>1, BrokerTypes
  <2>2. CASE subs' = <<>>
    BY <2>2, EmptySeq DEF IsInjective
  <2>. QED
    BY <1>2, <2>1, <2>2
<1>4. EventsTypeOK'
  BY <1>0, <1>1, <1>3, BrokerTypes DEF EInv, EventsTypeOK, Walk
<1>5. WalkAgrees' /\ NewToTheRest'
  BY <1>0, <1>1 DEF EInv, WalkAgrees, NewToTheRest
<1>6. \A s \in Streams : QueueAgrees(s)'
  BY <1>0, <1>1 DEF EInv, QueueAgrees, IsDone
<1>. QED
  BY <1>0, <1>1, <1>3, <1>4, <1>5, <1>6 DEF EInv

\* The steps of the streams leave what is published as it is.
Told == UNCHANGED <<count, doneAt, latest, done>>

LEMMA SubscribeKeeps ==
  ASSUME EInv, NEW s \in Streams, Subscribe(s)
  PROVE  EInv'
<1> DEFINE start == IF writer.step \in {"mark", "put"} THEN count - 1 ELSE count
<1>1. /\ stream[s] = "new" /\ stream' = [stream EXCEPT ![s] = "replayed"]
      /\ subs' = Append(subs, s) /\ seen' = [seen EXCEPT ![s] = start]
      /\ UNCHANGED <<count, doneAt, latest, done, queue, writer, parked>>
  BY DEF Subscribe, Step
<1>2. start \in 0..count /\ (writer.step \in {"mark", "put"} => start < count)
  BY BrokerTypes DEF EInv, WalkAgrees
<1>. HIDE DEF start
<1>3. InUse' = InUse /\ Busy' = Busy
  <2>1. \A z \in Streams : stream'[z] = "getting" <=> stream[z] = "getting"
    BY <1>1, BrokerTypes
  <2>. QED
    BY <1>1, <2>1, ThreadsKept DEF InUse, Busy, Slots
<1>4. queue[s] = <<>>
  BY <1>1 DEF EInv, QueueAgrees
<1>5. \A i \in 1..Len(subs) : subs[i] # s
  BY <1>1, BrokerTypes
<1>6. subs' \in Seq(Streams) /\ IsInjective(subs)'
  BY <1>1, <1>5, BrokerTypes, Joined, JoinedOnce
<1>7. Len(subs') = Len(subs) + 1 /\ \A i \in 1..Len(subs') : subs'[i] = IF i = Len(subs) + 1 THEN s ELSE subs[i]
  BY <1>1, BrokerTypes, Joined
<1>8. /\ stream' \in [Streams -> Waiting \cup {"new", "done", "ended", "gone"}]
      /\ seen' \in [Streams -> 0..count]
  BY <1>1, <1>2, BrokerTypes DEF Waiting
<1>9. EventsTypeOK'
  BY <1>1, <1>3, <1>6, <1>8, BrokerTypes DEF EInv, EventsTypeOK
<1>10. ASSUME NEW i \in 1..Len(subs')
       PROVE  stream'[subs'[i]] # "new"
  <2>1. CASE i = Len(subs) + 1
    BY <1>1, <1>7, <2>1, BrokerTypes
  <2>2. CASE i # Len(subs) + 1
    BY <1>1, <1>7, <2>2, BrokerTypes
  <2>. QED
    BY <2>1, <2>2
<1>11. NewToTheRest'
  <2>1. ASSUME writer.step \in {"mark", "put"}, NEW i \in 1..Len(subs'), i >= writer.at
        PROVE  Unreached(subs[i])'
    <3>1. CASE i = Len(subs) + 1
      <4>1. subs'[i] = s /\ seen'[s] = start /\ start < count /\ queue'[s] = <<>>
        BY <1>1, <1>2, <1>4, <1>7, <2>1, <3>1, BrokerTypes
      <4>. QED
        BY <1>1, <4>1, EmptySeq DEF Unreached
    <3>2. CASE i # Len(subs) + 1
      <4>1. i \in 1..Len(subs) /\ subs'[i] = subs[i] /\ subs[i] # s /\ subs[i] \in Streams
        <5>1. Len(subs) \in Nat /\ i \in 1..(Len(subs) + 1) /\ subs'[i] = subs[i]
          BY <1>7, <3>2, BrokerTypes
        <5>2. i \in 1..Len(subs)
          BY <3>2, <5>1
        <5>. QED
          BY <1>5, <5>1, <5>2, BrokerTypes
      <4>2. Unreached(subs[i])
        BY <2>1, <4>1 DEF EInv, NewToTheRest
      <4>. QED
        BY <1>1, <4>1, <4>2, BrokerTypes DEF Unreached
    <3>. QED
      BY <3>1, <3>2
  <2>. QED
    BY <1>1, <2>1 DEF NewToTheRest
<1>12. ASSUME NEW z \in Streams
       PROVE  QueueAgrees(z)'
  <2>1. CASE z = s
    BY <1>1, <1>4, <2>1, EmptySeq DEF QueueAgrees
  <2>2. CASE z # s
    BY <1>1, <2>2, BrokerTypes DEF EInv, QueueAgrees, IsDone
  <2>. QED
    BY <2>1, <2>2
<1>. QED
  BY <1>1, <1>3, <1>9, <1>10, <1>11, <1>12, BrokerTypes DEF EInv, WalkAgrees

\* A stream goes on, or ends and its queue leaves the list; it was sent nothing.
Moves(s, st) ==
  /\ stream' = [stream EXCEPT ![s] = st]
  /\ subs' \in {subs, RemoveFirst(subs, s)}
  /\ UNCHANGED <<count, doneAt, latest, done, queue, writer, seen>>

LEMMA MoveKeeps ==
  ASSUME EInv, NEW s \in Streams, stream[s] # "new",
         NEW st \in Waiting \cup {"done", "ended", "gone"}, Moves(s, st),
         stream[s] \notin Waiting => st \notin Waiting,
         parked' \in [Streams -> Nat], IsFiniteSet(InUse'), Busy' <= Workers
  PROVE  EInv'
<1>1. /\ stream' = [stream EXCEPT ![s] = st] /\ subs' \in {subs, RemoveFirst(subs, s)}
      /\ UNCHANGED <<count, doneAt, latest, done, queue, writer, seen>>
  BY DEF Moves
<1>2. /\ subs' \in Seq(Streams) /\ IsInjective(subs)'
      /\ \A i \in 1..Len(subs') : \E j \in 1..Len(subs) : i <= j /\ subs'[i] = subs[j]
  <2>1. CASE subs' = subs
    BY <2>1, BrokerTypes
  <2>2. CASE subs' = RemoveFirst(subs, s)
    BY <2>2, Shorter
  <2>. QED
    BY <1>1, <2>1, <2>2
<1>3. /\ stream' \in [Streams -> Waiting \cup {"new", "done", "ended", "gone"}]
      /\ stream'[s] = st /\ \A z \in Streams \ {s} : stream'[z] = stream[z]
  BY <1>1, BrokerTypes
<1>4. EventsTypeOK'
  BY <1>1, <1>2, <1>3, BrokerTypes DEF EInv, EventsTypeOK
<1>5. ASSUME NEW i \in 1..Len(subs')
      PROVE  stream'[subs'[i]] # "new"
  <2>1. PICK j \in 1..Len(subs) : subs'[i] = subs[j]
    BY <1>2
  <2>2. st # "new"
    BY DEF Waiting
  <2>. QED
    BY <1>3, <2>1, <2>2, BrokerTypes
<1>6. NewToTheRest'
  <2>1. ASSUME writer.step \in {"mark", "put"}, NEW i \in 1..Len(subs'), i >= writer.at
        PROVE  Unreached(subs'[i])
    <3>1. PICK j \in 1..Len(subs) : i <= j /\ subs'[i] = subs[j]
      BY <1>2
    <3>2. Len(subs') \in Nat /\ Len(subs) \in Nat /\ writer.at \in Nat
      BY <1>2, BrokerTypes, LenProperties
    <3>3. j >= writer.at
      BY <2>1, <3>1, <3>2
    <3>. QED
      BY <2>1, <3>1, <3>3 DEF EInv, NewToTheRest
  <2>. QED
    BY <1>1, <2>1 DEF NewToTheRest, Unreached
<1>7. ASSUME NEW z \in Streams
      PROVE  QueueAgrees(z)'
  <2>1. CASE z = s
    <3>1. st # "new"
      BY DEF Waiting
    <3>. QED
      BY <1>1, <1>3, <2>1, <3>1 DEF EInv, QueueAgrees, IsDone
  <2>2. CASE z # s
    BY <1>1, <1>3, <2>2 DEF EInv, QueueAgrees, IsDone
  <2>. QED
    BY <2>1, <2>2
<1>. QED
  BY <1>1, <1>4, <1>5, <1>6, <1>7, BrokerTypes DEF EInv, WalkAgrees

\* A message is taken from a queue, and sent or not.
Takes(s, st, last) ==
  /\ queue[s] # <<>> /\ queue' = [queue EXCEPT ![s] = Tail(@)]
  /\ stream' = [stream EXCEPT ![s] = st] /\ seen' = [seen EXCEPT ![s] = last]
  /\ UNCHANGED <<count, doneAt, latest, done, subs, writer>>

LEMMA TakeKeeps ==
  ASSUME EInv, NEW s \in Streams, NEW st, NEW last, Takes(s, st, last),
         (st \in {"queued", "done"} /\ stream[s] = "getting") \/ st = stream[s],
         last = seen[s] \/ (last = Head(queue[s]) /\ last # 0),
         parked' \in [Streams -> Nat], IsFiniteSet(InUse'), Busy' <= Workers
  PROVE  EInv'
<1>1. /\ queue[s] # <<>> /\ queue' = [queue EXCEPT ![s] = Tail(@)]
      /\ stream' = [stream EXCEPT ![s] = st] /\ seen' = [seen EXCEPT ![s] = last]
      /\ UNCHANGED <<count, doneAt, latest, done, subs, writer>>
  BY DEF Takes
<1>2. /\ Head(queue[s]) = queue[s][1] /\ 1 \in 1..Len(queue[s])
      /\ Tail(queue[s]) \in Seq(0..count) /\ Len(Tail(queue[s])) = Len(queue[s]) - 1
      /\ \A i \in 1..Len(Tail(queue[s])) :
           Tail(queue[s])[i] = queue[s][i + 1] /\ i + 1 \in 1..Len(queue[s])
  <2>1. queue[s] \in Seq(0..count)
    BY BrokerTypes
  <2>. QED
    BY <1>1, <2>1, Taken
<1>3. queue'[s] = Tail(queue[s]) /\ \A z \in Streams \ {s} : queue'[z] = queue[z]
  BY <1>1, BrokerTypes
<1>4. queue' \in [Streams -> Seq(0..count)] /\ \A z \in Streams : Len(queue'[z]) <= QueueMax
  <2>1. queue' \in [Streams -> Seq(0..count)]
    BY <1>1, <1>2, BrokerTypes
  <2>2. Len(queue'[s]) <= QueueMax
    BY <1>2, <1>3, BrokerTypes, EventParameters
  <2>. QED
    BY <1>3, <2>1, <2>2, BrokerTypes
<1>5. stream[s] # "new" /\ st # "new"
  BY <1>1 DEF EInv, QueueAgrees
<1>6. /\ stream' \in [Streams -> Waiting \cup {"new", "done", "ended", "gone"}]
      /\ stream'[s] = st /\ \A z \in Streams \ {s} : stream'[z] = stream[z]
  BY <1>1, BrokerTypes DEF Waiting
<1>7. last \in 0..count /\ seen[s] \in 0..count
  BY <1>2, BrokerTypes
<1>8. /\ seen' \in [Streams -> 0..count]
      /\ seen'[s] = last /\ \A z \in Streams \ {s} : seen'[z] = seen[z]
  BY <1>1, <1>7, BrokerTypes
<1>9. EventsTypeOK'
  BY <1>1, <1>4, <1>6, <1>8, BrokerTypes DEF EInv, EventsTypeOK
<1>10. \A i \in 1..Len(subs') : stream'[subs'[i]] # "new"
  BY <1>1, <1>5, <1>6, BrokerTypes
<1>11. ASSUME NEW z \in Streams, Unreached(z)
       PROVE  Unreached(z)'
  <2>1. CASE z = s
    <3>1. last < count
      BY <1>2, <1>11, <2>1 DEF Unreached
    <3>2. \A i \in 1..Len(queue'[s]) : queue'[s][i] < count
      BY <1>2, <1>3, <1>11, <2>1 DEF Unreached
    <3>. QED
      BY <1>1, <1>8, <2>1, <3>1, <3>2 DEF Unreached
  <2>2. CASE z # s
    BY <1>1, <1>3, <1>8, <1>11, <2>2 DEF Unreached
  <2>. QED
    BY <2>1, <2>2
<1>12. NewToTheRest'
  <2>1. ASSUME writer.step \in {"mark", "put"}, NEW i \in 1..Len(subs), i >= writer.at
        PROVE  Unreached(subs[i])'
    <3>1. subs[i] \in Streams /\ Unreached(subs[i])
      BY <2>1, BrokerTypes DEF EInv, NewToTheRest
    <3>2. \A z \in Streams : Unreached(z) => Unreached(z)'
      BY <1>11
    <3>3. PICK z \in Streams : z = subs[i]
      BY <3>1
    <3>4. Unreached(z)'
      BY <3>1, <3>2, <3>3
    <3>. QED
      BY <1>1, <3>3, <3>4 DEF Unreached
  <2>. QED
    BY <1>1, <2>1 DEF NewToTheRest, Unreached
<1>13. ASSUME NEW z \in Streams
       PROVE  QueueAgrees(z)'
  <2>1. QueueAgrees(z)
    BY DEF EInv
  <2>2. CASE z = s
    <3> DEFINE q == queue[s]
               r == queue'[s]
    <3>1. /\ Len(q) \in Nat /\ Len(r) = Len(q) - 1
          /\ \A i \in 1..Len(r) : r[i] = q[i + 1] /\ i + 1 \in 1..Len(q)
      BY <1>2, <1>3, BrokerTypes
    <3>2. /\ \A i \in 1..Len(q) : IsDone(q[i]) => done
          /\ stream[s] \in Waiting => \A i \in 1..Len(q) : q[i] # 0 => seen[s] < q[i]
          /\ \A i, j \in 1..Len(q) : i < j /\ q[j] # 0 => q[i] < q[j]
      BY <2>1, <2>2 DEF QueueAgrees
    <3>3. st \in Waiting => stream[s] \in Waiting
      BY DEF Waiting
    <3>4. last = seen[s] \/ (last = q[1] /\ 1 \in 1..Len(q))
      BY <1>2
    <3>. HIDE DEF q, r
    <3>5. \A i \in 1..Len(r) : IsDone(r[i]) => done
      BY <3>1, <3>2
    <3>6. ASSUME st \in Waiting, NEW i \in 1..Len(r), r[i] # 0
          PROVE  last < r[i]
      <4>1. i + 1 \in 1..Len(q) /\ r[i] = q[i + 1] /\ 1 < i + 1
        BY <3>1
      <4>. QED
        BY <3>2, <3>3, <3>4, <3>6, <4>1
    <3>7. ASSUME NEW i \in 1..Len(r), NEW j \in 1..Len(r), i < j, r[j] # 0
          PROVE  r[i] < r[j]
      <4>1. i + 1 < j + 1
        BY <3>1, <3>7
      <4>. QED
        BY <3>1, <3>2, <3>7, <4>1
    <3>8. r = queue'[s] /\ done' = done /\ doneAt' = doneAt /\ stream'[s] = st /\ seen'[s] = last
      BY <1>1, <1>6, <1>8 DEF r
    <3>9. \A i \in 1..Len(queue'[s]) : IsDone(queue[s][i])' => done'
      <4>1. \A i \in 1..Len(queue'[s]) : IsDone(queue'[s][i]) => done
        BY <3>5, <3>8
      <4>. QED
        BY <3>8, <4>1 DEF IsDone
    <3>10. stream'[s] # "new"
      BY <1>5, <1>6
    <3>11. stream'[s] \in Waiting =>
             \A i \in 1..Len(queue'[s]) : queue'[s][i] # 0 => seen'[s] < queue'[s][i]
      BY <3>6, <3>8
    <3>12. \A i, j \in 1..Len(queue'[s]) : i < j /\ queue'[s][j] # 0 => queue'[s][i] < queue'[s][j]
      BY <3>7, <3>8
    <3>. QED
      BY <2>2, <3>9, <3>10, <3>11, <3>12 DEF QueueAgrees
  <2>3. CASE z # s
    BY <1>1, <1>3, <1>6, <1>8, <2>1, <2>3 DEF QueueAgrees, IsDone
  <2>. QED
    BY <2>2, <2>3
<1>. QED
  BY <1>1, <1>9, <1>10, <1>12, <1>13, BrokerTypes DEF EInv, WalkAgrees

\* What a step does to the threads of the executor.
LEMMA InUseIs == /\ InUse = Slots(stream, parked) /\ InUse' = Slots(stream', parked')
                 /\ Busy = Cardinality(InUse) /\ Busy' = Cardinality(InUse')
  BY DEF InUse, Slots, Busy

LEMMA NoThread ==
  ASSUME EInv, NEW s \in Streams, NEW st, stream' = [stream EXCEPT ![s] = st],
         stream[s] # "getting", st # "getting", parked' = parked
  PROVE  IsFiniteSet(InUse') /\ Busy' <= Workers
<1>1. \A z \in Streams : stream'[z] = "getting" <=> stream[z] = "getting"
  BY BrokerTypes
<1>2. InUse' = InUse
  BY <1>1, InUseIs, ThreadsKept
<1>. QED
  BY <1>2, InUseIs DEF EInv, EventsTypeOK

LEMMA ThreadGivenUp ==
  ASSUME EInv, NEW s \in Streams, NEW st, stream' = [stream EXCEPT ![s] = st],
         st # "getting", Abandon(s)
  PROVE  parked' \in [Streams -> Nat] /\ IsFiniteSet(InUse') /\ Busy' <= Workers
<1>1. CASE stream[s] = "getting"
  <2>1. /\ parked' \in [Streams -> Nat] /\ parked'[s] = parked[s] + 1
        /\ \A z \in Streams \ {s} : parked'[z] = parked[z]
    BY <1>1, BrokerTypes DEF Abandon
  <2>2. stream'[s] # "getting" /\ \A z \in Streams \ {s} : stream'[z] = stream[z]
    BY BrokerTypes
  <2>3. parked \in [Streams -> Nat] /\ IsFiniteSet(Slots(stream, parked))
    BY BrokerTypes, InUseIs DEF EInv
  <2>4. /\ IsFiniteSet(Slots(stream', parked'))
        /\ Cardinality(Slots(stream', parked')) = Cardinality(Slots(stream, parked))
    <3>1. \A sq : \A pl \in [Streams -> Nat] :
            /\ sq[s] # "getting" /\ (\A z \in Streams \ {s} : sq[z] = stream[z])
            /\ pl[s] = parked[s] + 1 /\ (\A z \in Streams \ {s} : pl[z] = parked[z])
            => /\ IsFiniteSet(Slots(sq, pl))
               /\ Cardinality(Slots(sq, pl)) = Cardinality(Slots(stream, parked))
      BY <1>1, <2>3, ThreadLeft
    <3>. QED
      BY <2>1, <2>2, <3>1, Zenon
  <2>. QED
    BY <2>1, <2>4, InUseIs DEF EInv, EventsTypeOK
<1>2. CASE stream[s] # "getting"
  <2>1. parked' = parked
    BY <1>2, BrokerTypes DEF Abandon
  <2>. QED
    BY <1>2, <2>1, NoThread, BrokerTypes
<1>. QED
  BY <1>1, <1>2

\* The steps of one stream.
StreamStep(s) == Subscribe(s) \/ Serve(s) \/ Swallow(s) \/ QuitAtReplay(s) \/ QuitInLoop(s)

LEMMA LoopSteps ==
  ASSUME EInv, NEW s \in Streams, EnterLoop(s) \/ TimeOut(s) \/ QuitInLoop(s)
  PROVE  EInv'
<1>1. CASE EnterLoop(s)
  <2>1. PICK st \in {"queued", "ended"} : Moves(s, st) /\ stream[s] = "replayed" /\ parked' = parked
    BY <1>1 DEF EnterLoop, Leave, Step, Moves
  <2>2. IsFiniteSet(InUse') /\ Busy' <= Workers
    BY <2>1, NoThread DEF Moves
  <2>. QED
    BY <2>1, <2>2, MoveKeeps, BrokerTypes DEF Waiting
<1>2. CASE TimeOut(s) \/ QuitInLoop(s)
  <2>1. PICK st \in {"queued", "ended", "gone"} :
          Moves(s, st) /\ stream[s] \in {"queued", "getting"} /\ Abandon(s)
    BY <1>2 DEF TimeOut, QuitInLoop, Leave, Step, Moves
  <2>2. parked' \in [Streams -> Nat] /\ IsFiniteSet(InUse') /\ Busy' <= Workers
    BY <2>1, ThreadGivenUp DEF Moves
  <2>. QED
    BY <2>1, <2>2, MoveKeeps DEF Waiting
<1>. QED
  BY <1>1, <1>2

LEMMA EndSteps ==
  ASSUME EInv, NEW s \in Streams, QuitAtReplay(s) \/ Finish(s)
  PROVE  EInv'
<1>1. PICK st \in {"ended", "gone"} : Moves(s, st) /\ stream[s] \in {"replayed", "done"} /\ parked' = parked
  BY DEF QuitAtReplay, Finish, Leave, Step, Moves, broker
<1>2. IsFiniteSet(InUse') /\ Busy' <= Workers
  BY <1>1, NoThread DEF Moves
<1>. QED
  BY <1>1, <1>2, MoveKeeps, BrokerTypes DEF Waiting

LEMMA StartGetKeeps ==
  ASSUME EInv, NEW s \in Streams, StartGet(s)
  PROVE  EInv'
<1>1. Moves(s, "getting") /\ stream[s] = "queued" /\ parked' = parked /\ Busy < Workers
  BY DEF StartGet, Step, Moves, broker
<1>2. stream'[s] = "getting" /\ \A z \in Streams \ {s} : stream'[z] = stream[z]
  BY <1>1, BrokerTypes DEF Moves
<1>3. parked \in [Streams -> Nat] /\ IsFiniteSet(Slots(stream, parked))
  BY BrokerTypes, InUseIs DEF EInv
<1>4. /\ IsFiniteSet(Slots(stream', parked))
      /\ Cardinality(Slots(stream', parked)) = Cardinality(Slots(stream, parked)) + 1
  BY <1>1, <1>2, <1>3, ThreadTaken
<1>5. IsFiniteSet(InUse') /\ Busy' = Busy + 1
  BY <1>1, <1>4, InUseIs
<1>6. Busy \in Nat
  BY <1>3, InUseIs, FS_CardinalityType
<1>. QED
  BY <1>1, <1>3, <1>5, <1>6, MoveKeeps, EventParameters DEF Waiting

LEMMA ReceiveKeeps ==
  ASSUME EInv, NEW s \in Streams, Receive(s)
  PROVE  EInv'
<1>1. PICK st \in {"queued", "done"}, last \in {seen[s], Head(queue[s])} :
        /\ Takes(s, st, last) /\ stream[s] = "getting" /\ parked' = parked
        /\ last = seen[s] \/ last # 0
  <2> DEFINE event == Head(queue[s])
             last == IF event = Cleaned THEN seen[s] ELSE event
  <2>1. seen' = [seen EXCEPT ![s] = last]
    BY BrokerTypes DEF Receive
  <2>. QED
    BY <2>1 DEF Receive, Step, Takes, Cleaned
<1>2. st # "getting" /\ stream'[s] = st /\ \A z \in Streams \ {s} : stream'[z] = stream[z]
  BY <1>1, BrokerTypes DEF Takes
<1>3. parked \in [Streams -> Nat] /\ IsFiniteSet(Slots(stream, parked))
  BY BrokerTypes, InUseIs DEF EInv
<1>4. /\ IsFiniteSet(Slots(stream', parked))
      /\ Cardinality(Slots(stream', parked)) = Cardinality(Slots(stream, parked)) - 1
  BY <1>1, <1>2, <1>3, ThreadReturned
<1>5. IsFiniteSet(InUse') /\ Busy' = Busy - 1
  BY <1>1, <1>4, InUseIs
<1>6. Busy \in Nat /\ Busy <= Workers
  BY <1>3, InUseIs, FS_CardinalityType DEF EInv, EventsTypeOK
<1>7. Busy' <= Workers
  BY <1>5, <1>6, EventParameters
<1>. QED
  BY <1>1, <1>3, <1>5, <1>7, TakeKeeps

LEMMA SwallowKeeps ==
  ASSUME EInv, NEW s \in Streams, Swallow(s)
  PROVE  EInv'
<1>1. Takes(s, stream[s], seen[s])
  BY BrokerTypes DEF Swallow, Takes
<1>2. stream' = stream /\ parked[s] > 0 /\ parked' = [parked EXCEPT ![s] = @ - 1]
  BY DEF Swallow
<1>3. parked \in [Streams -> Nat] /\ IsFiniteSet(Slots(stream, parked)) /\ parked' \in [Streams -> Nat]
  BY <1>2, BrokerTypes, InUseIs DEF EInv
<1>4. /\ IsFiniteSet(Slots(stream, parked'))
      /\ Cardinality(Slots(stream, parked')) = Cardinality(Slots(stream, parked)) - 1
  <2>1. parked'[s] = parked[s] - 1 /\ \A z \in Streams \ {s} : parked'[z] = parked[z]
    BY <1>2, <1>3
  <2>. QED
    <3>1. \A pl \in [Streams -> Nat] :
            pl[s] = parked[s] - 1 /\ (\A z \in Streams \ {s} : pl[z] = parked[z]) =>
              /\ IsFiniteSet(Slots(stream, pl))
              /\ Cardinality(Slots(stream, pl)) = Cardinality(Slots(stream, parked)) - 1
      BY <1>2, <1>3, ThreadEnded
    <3>. QED
      BY <1>3, <2>1, <3>1, Zenon
<1>5. IsFiniteSet(InUse') /\ Busy' = Busy - 1
  BY <1>2, <1>4, InUseIs
<1>6. Busy \in Nat /\ Busy <= Workers
  BY <1>3, InUseIs, FS_CardinalityType DEF EInv, EventsTypeOK
<1>7. Busy' <= Workers
  BY <1>5, <1>6, EventParameters
<1>. QED
  BY <1>1, <1>3, <1>5, <1>7, TakeKeeps

LEMMA StreamSteps ==
  ASSUME EInv, NEW s \in Streams, StreamStep(s)
  PROVE  EInv'
  BY SubscribeKeeps, LoopSteps, EndSteps, StartGetKeeps, ReceiveKeeps, SwallowKeeps DEF StreamStep, Serve

LEMMA WriterSteps ==
  ASSUME EInv, Write \/ StartCleanup \/ \E isDone \in BOOLEAN : Publish(isDone)
  PROVE  EInv'
<1>1. CASE Write
  BY <1>1, MarkKeeps, PutKeeps, DropKeeps, CleanupKeeps DEF Write
<1>2. CASE StartCleanup
  BY <1>2, CleanupKeeps
<1>3. CASE \E isDone \in BOOLEAN : Publish(isDone)
  BY <1>3, PublishKeeps
<1>. QED
  BY <1>1, <1>2, <1>3

LEMMA StepEInv == EInv /\ [EventsNext]_evars => EInv'
<1> SUFFICES ASSUME EInv, [EventsNext]_evars
             PROVE  EInv'
  OBVIOUS
<1>1. CASE UNCHANGED evars
  BY <1>1 DEF evars, broker, clients, EInv, EventsTypeOK, WalkAgrees, NewToTheRest, Unreached,
              QueueAgrees, IsDone, InUse, Busy
<1>2. CASE Publishing \/ Finishing \/ Ending \/ Write
  BY <1>2, WriterSteps DEF Publishing, Finishing, Ending
<1>3. CASE \E s \in Streams : StreamStep(s)
  BY <1>3, StreamSteps
<1>. QED
  BY <1>1, <1>2, <1>3 DEF EventsNext, StreamStep

-----------------------------------------------------------------------------
(* The promise of Feed.                                                     *)

PhaseOf(st) == CASE st = "new" -> "new"
                 [] st \in {"done", "ended"} -> "ended"
                 [] st = "gone" -> "quit"
                 [] OTHER -> "open"
Phases == [s \in Streams |-> Phase(s)]

LEMMA PhaseTable ==
  /\ PhaseOf("new") = "new" /\ PhaseOf("done") = "ended" /\ PhaseOf("ended") = "ended"
  /\ PhaseOf("gone") = "quit" /\ \A st \in Waiting : PhaseOf(st) = "open"
  BY DEF PhaseOf, Waiting

LEMMA PhaseIs == \A s \in Streams : Phase(s) = PhaseOf(stream[s]) /\ Phases[s] = PhaseOf(stream[s])
  BY DEF Phase, PhaseOf, Phases

\* A stream that moves changes its own phase.
LEMMA PhaseMoves ==
  ASSUME EInv, NEW s \in Streams, NEW st, stream' = [stream EXCEPT ![s] = st]
  PROVE  Phases' = [Phases EXCEPT ![s] = PhaseOf(st)]
<1>1. stream'[s] = st /\ \A z \in Streams \ {s} : stream'[z] = stream[z]
  BY BrokerTypes
<1>2. Phases' = [z \in Streams |-> PhaseOf(stream'[z])]
  BY DEF Phases, Phase, PhaseOf
<1>3. Phases = [z \in Streams |-> PhaseOf(stream[z])]
  BY DEF Phases, Phase, PhaseOf
<1>. QED
  BY <1>1, <1>2, <1>3

LEMMA PhaseKept ==
  ASSUME EInv, NEW s \in Streams, NEW st, stream' = [stream EXCEPT ![s] = st],
         PhaseOf(st) = PhaseOf(stream[s])
  PROVE  Phases' = Phases
<1>1. Phases' = [Phases EXCEPT ![s] = PhaseOf(st)]
  BY PhaseMoves
<1>2. Phases = [z \in Streams |-> PhaseOf(stream[z])]
  BY DEF Phases, Phase, PhaseOf
<1>. QED
  BY <1>1, <1>2

\* The actions of Feed over the state of the broker.
LEMMA FeedIs ==
  /\ Promise!feed = <<count, done, Phases, seen>>
  /\ Promise!Emit <=> ~done /\ count' = count + 1 /\ UNCHANGED <<done, Phases, seen>>
  /\ Promise!Close <=> done' = TRUE /\ UNCHANGED <<count, Phases, seen>>
  /\ \A s \in Streams :
       /\ Promise!Join(s) <=> /\ Phases[s] = "new" /\ Phases' = [Phases EXCEPT ![s] = "open"]
                              /\ \E n \in {count - 1, count} \cap Nat : seen' = [seen EXCEPT ![s] = n]
                              /\ UNCHANGED <<count, done>>
       /\ Promise!Relay(s) <=> /\ Phases[s] = "open"
                               /\ \E n \in seen[s] + 1 .. count : seen' = [seen EXCEPT ![s] = n]
                               /\ UNCHANGED <<count, done, Phases>>
       /\ Promise!End(s) <=> /\ Phases[s] = "open" /\ done
                             /\ Phases' = [Phases EXCEPT ![s] = "ended"]
                             /\ \E n \in seen[s] .. count : seen' = [seen EXCEPT ![s] = n]
                             /\ UNCHANGED <<count, done>>
       /\ Promise!Quit(s) <=> /\ Phases[s] = "open" /\ Phases' = [Phases EXCEPT ![s] = "quit"]
                              /\ UNCHANGED <<count, done, seen>>
  BY DEF Promise!feed, Promise!Emit, Promise!Close, Promise!Join, Promise!Relay, Promise!End,
         Promise!Quit, Phases

FeedStep == [Promise!FeedNext]_(Promise!feed)

LEMMA FeedStepIs ==
  /\ Promise!Emit => FeedStep
  /\ Promise!Close => FeedStep
  /\ \A s \in Streams : Promise!Join(s) \/ Promise!Relay(s) \/ Promise!End(s) \/ Promise!Quit(s) => FeedStep
  /\ UNCHANGED <<count, done, Phases, seen>> => FeedStep
<1>1. UNCHANGED <<count, done, Phases, seen>> => FeedStep
  BY DEF FeedStep, Promise!feed, Phases
<1>. QED
  BY <1>1, Zenon DEF FeedStep, Promise!FeedNext

LEMMA FeedInit == EventsInit => Promise!FeedInit
  BY DEF EventsInit, Promise!FeedInit, Phase

LEMMA WriterFeeds ==
  ASSUME EInv, Write \/ StartCleanup \/ \E isDone \in BOOLEAN : Publish(isDone)
  PROVE  FeedStep
<1>1. Phases' = Phases /\ seen' = seen
  BY DEF Write, MarkDone, Put, DropFull, Forget, StartCleanup, Publish, clients, Phases, Phase
<1>2. CASE \E isDone \in BOOLEAN : Publish(isDone)
  <2>1. CASE done
    BY <1>1, <1>2, <2>1, FeedStepIs DEF Publish
  <2>2. CASE ~done
    <3>1. Promise!Emit
      BY <1>1, <1>2, <2>2, FeedIs DEF Publish
    <3>. QED
      BY <3>1, FeedStepIs
  <2>. QED
    BY <2>1, <2>2
<1>3. CASE MarkDone \/ StartCleanup
  <2>1. Promise!Close
    BY <1>1, <1>3, FeedIs DEF MarkDone, StartCleanup
  <2>. QED
    BY <2>1, FeedStepIs
<1>4. CASE Put(count, "put") \/ Put(Cleaned, "clean") \/ DropFull \/ Forget
  BY <1>1, <1>4, FeedStepIs DEF Put, DropFull, Forget
<1>. QED
  BY <1>2, <1>3, <1>4 DEF Write

LEMMA ReceiveFeeds ==
  ASSUME EInv, NEW s \in Streams, Receive(s)
  PROVE  FeedStep
<1> DEFINE event == Head(queue[s])
<1>1. event = queue[s][1] /\ 1 \in 1..Len(queue[s]) /\ event \in 0..count
  BY BrokerTypes, Taken DEF Receive
<1>2. /\ stream[s] = "getting"
      /\ stream' = [stream EXCEPT ![s] = IF IsDone(event) THEN "done" ELSE "queued"]
      /\ seen' = IF event = Cleaned THEN seen ELSE [seen EXCEPT ![s] = event]
      /\ UNCHANGED <<count, done>>
  BY DEF Receive, Step
<1>3. (IsDone(event) => done) /\ (event # 0 => seen[s] < event) /\ seen[s] \in 0..count
  BY <1>1, <1>2, BrokerTypes DEF EInv, QueueAgrees, Waiting
<1>4. Phases[s] = "open"
  BY <1>2, PhaseIs, PhaseTable DEF Waiting
<1>. HIDE DEF event
<1>5. CASE IsDone(event)
  <2>1. Phases' = [Phases EXCEPT ![s] = "ended"]
    <3>1. stream' = [stream EXCEPT ![s] = "done"] /\ PhaseOf("done") = "ended"
      BY <1>2, <1>5, PhaseTable
    <3>2. Phases' = [Phases EXCEPT ![s] = PhaseOf("done")]
      BY <3>1, PhaseMoves, Zenon
    <3>. QED
      BY <3>1, <3>2
  <2>2. \E n \in seen[s] .. count : seen' = [seen EXCEPT ![s] = n]
    <3>1. CASE event = Cleaned
      BY <1>2, <1>3, <3>1, BrokerTypes
    <3>2. CASE event # Cleaned
      <4>1. event \in seen[s]..count
        BY <1>1, <1>3, <3>2, BrokerTypes DEF Cleaned
      <4>. QED
        BY <1>2, <3>2, <4>1
    <3>. QED
      BY <3>1, <3>2
  <2>3. Promise!End(s)
    BY <1>2, <1>3, <1>4, <1>5, <2>1, <2>2, FeedIs
  <2>. QED
    BY <2>3, FeedStepIs
<1>6. CASE ~IsDone(event)
  <2>1. Phases' = Phases
    <3>1. stream' = [stream EXCEPT ![s] = "queued"]
      BY <1>2, <1>6
    <3>2. PhaseOf("queued") = PhaseOf(stream[s])
      BY <1>2, PhaseTable DEF Waiting
    <3>. QED
      BY <3>1, <3>2, PhaseKept
  <2>2. event # Cleaned /\ event \in seen[s] + 1 .. count
    BY <1>1, <1>3, <1>6, BrokerTypes DEF IsDone, Cleaned
  <2>3. Promise!Relay(s)
    BY <1>2, <1>4, <2>1, <2>2, FeedIs
  <2>. QED
    BY <2>3, FeedStepIs
<1>. QED
  BY <1>5, <1>6

\* Any other step of a stream in the loop.
LEMMA MovesFeed ==
  ASSUME EInv, NEW s \in Streams, NEW st, Moves(s, st),
         \/ stream[s] \in Waiting /\ st \in Waiting \cup {"gone"}
         \/ stream[s] \in Waiting /\ st = "ended" /\ done
         \/ stream[s] = "done" /\ st = "ended"
  PROVE  FeedStep
<1>1. stream' = [stream EXCEPT ![s] = st] /\ UNCHANGED <<count, done, seen>>
  BY DEF Moves
<1>2. seen[s] \in seen[s]..count /\ seen' = [seen EXCEPT ![s] = seen[s]]
  BY <1>1, BrokerTypes
<1>3. CASE PhaseOf(st) = PhaseOf(stream[s])
  BY <1>1, <1>3, PhaseKept, FeedStepIs
<1>4. CASE stream[s] \in Waiting /\ st = "gone"
  <2>1. Phases' = [Phases EXCEPT ![s] = "quit"] /\ Phases[s] = "open"
    <3>1. Phases' = [Phases EXCEPT ![s] = PhaseOf(st)] /\ Phases[s] = PhaseOf(stream[s])
      BY <1>1, PhaseMoves, PhaseIs
    <3>. QED
      BY <1>4, <3>1, PhaseTable
  <2>2. Promise!Quit(s)
    BY <1>1, <2>1, FeedIs
  <2>. QED
    BY <2>2, FeedStepIs
<1>5. CASE stream[s] \in Waiting /\ st = "ended" /\ done
  <2>1. Phases' = [Phases EXCEPT ![s] = "ended"] /\ Phases[s] = "open"
    <3>1. Phases' = [Phases EXCEPT ![s] = PhaseOf(st)] /\ Phases[s] = PhaseOf(stream[s])
      BY <1>1, PhaseMoves, PhaseIs
    <3>. QED
      BY <1>5, <3>1, PhaseTable
  <2>2. Promise!End(s)
    BY <1>1, <1>2, <1>5, <2>1, FeedIs
  <2>. QED
    BY <2>2, FeedStepIs
<1>. QED
  BY <1>3, <1>4, <1>5, PhaseTable

LEMMA StreamFeeds ==
  ASSUME EInv, NEW s \in Streams, StreamStep(s)
  PROVE  FeedStep
<1>1. CASE Subscribe(s)
  <2> DEFINE start == IF writer.step \in {"mark", "put"} THEN count - 1 ELSE count
  <2>1. /\ stream[s] = "new" /\ stream' = [stream EXCEPT ![s] = "replayed"]
        /\ seen' = [seen EXCEPT ![s] = start] /\ UNCHANGED <<count, done>>
    BY <1>1 DEF Subscribe, Step
  <2>2. start \in {count - 1, count} \cap Nat
    BY BrokerTypes DEF EInv, WalkAgrees
  <2>. HIDE DEF start
  <2>3. Phases' = [Phases EXCEPT ![s] = "open"] /\ Phases[s] = "new"
    <3>1. Phases' = [Phases EXCEPT ![s] = PhaseOf("replayed")] /\ Phases[s] = PhaseOf(stream[s])
      BY <2>1, PhaseMoves, PhaseIs
    <3>. QED
      BY <2>1, <3>1, PhaseTable DEF Waiting
  <2>4. Promise!Join(s)
    BY <2>1, <2>2, <2>3, FeedIs
  <2>. QED
    BY <2>4, FeedStepIs
<1>2. CASE EnterLoop(s)
  <2>1. PICK st \in {"queued", "ended"} : Moves(s, st) /\ stream[s] = "replayed" /\ (st = "ended" => done)
    BY <1>2 DEF EnterLoop, Leave, Step, Moves
  <2>. QED
    BY <2>1, MovesFeed DEF Waiting
<1>3. CASE TimeOut(s) \/ QuitInLoop(s)
  <2>1. PICK st \in {"queued", "ended", "gone"} :
          Moves(s, st) /\ stream[s] \in {"queued", "getting"} /\ (st = "ended" => done)
    BY <1>3 DEF TimeOut, QuitInLoop, Leave, Step, Moves
  <2>. QED
    BY <2>1, MovesFeed DEF Waiting
<1>4. CASE StartGet(s) \/ QuitAtReplay(s)
  <2>1. PICK st \in {"getting", "gone"} : Moves(s, st) /\ stream[s] \in Waiting
    BY <1>4 DEF StartGet, QuitAtReplay, Step, Moves, broker, Waiting
  <2>. QED
    BY <2>1, MovesFeed DEF Waiting
<1>5. CASE Finish(s)
  <2>1. Moves(s, "ended") /\ stream[s] = "done"
    BY <1>5 DEF Finish, Leave, Step, Moves
  <2>. QED
    BY <2>1, MovesFeed
<1>6. CASE Swallow(s)
  BY <1>6, FeedStepIs DEF Swallow, Phases, Phase
<1>. QED
  BY <1>1, <1>2, <1>3, <1>4, <1>5, <1>6, ReceiveFeeds DEF StreamStep, Serve

LEMMA StepFeeds == EInv /\ [EventsNext]_evars => FeedStep
<1> SUFFICES ASSUME EInv, [EventsNext]_evars
             PROVE  FeedStep
  OBVIOUS
<1>1. CASE UNCHANGED evars
  BY <1>1, FeedStepIs DEF evars, broker, clients, Phases, Phase
<1>2. CASE Publishing \/ Finishing \/ Ending \/ Write
  BY <1>2, WriterFeeds DEF Publishing, Finishing, Ending
<1>3. CASE \E s \in Streams : StreamStep(s)
  BY <1>3, StreamFeeds
<1>. QED
  BY <1>1, <1>2, <1>3 DEF EventsNext, StreamStep

\* Of every behaviour in which the broker is used as a scan uses it.
LEMMA EventsInvariance == ImplementsEvents => []EInv
<1>. QED
  BY InitEInv, StepEInv, PTL DEF ImplementsEvents

LEMMA EventsFeed == ImplementsEvents => ImplementsFeed
<1>1. EInv /\ [EventsNext]_evars => [Promise!FeedNext]_(Promise!feed)
  BY StepFeeds DEF FeedStep
<1>. QED
  BY <1>1, FeedInit, EventsInvariance, PTL DEF ImplementsEvents, ImplementsFeed, Promise!FeedSpec

-----------------------------------------------------------------------------
(* The report.                                                              *)

Early == {"new", "refused", "collect", "save", "saved", "spawn", "fetch", "refine", "created",
          "refined", "complete", "failing"}

\* No scan publishes more than its bounds let it, up to the last message before "done".
Most(n) == n <= Modules + Found + 2 \/ n <= Rounds
EventsBounded ==
  /\ thread \in {"new", "refused"} => count = 0
  /\ thread = "collect" => count <= Modules
  /\ thread = "save" => count + left <= Modules + Found + 1
  /\ thread = "saved" => count + left <= Modules + Found
  /\ thread \in {"spawn", "fetch", "refine"} => Most(count)
  /\ thread = "created" => count < Rounds
  /\ thread = "refined" => count = 0 \/ Most(count - 1)

\* "done" is published once, at the end of the thread, and the latest event is forgotten after it.
DoneAtTheEnd ==
  /\ thread \in Early => doneAt = 0 /\ ~done
  /\ thread # "over" => latest = count /\ writer.step # "clean" /\ (done => doneAt # 0)

\* The inductive invariant of the report.
GInv ==
  /\ EInv /\ GreyTypeOK /\ CountersAgree
  /\ thread \in Early \cup {"finally", "cleanup", "over"}
  /\ thread = "new" => row = NoReport
  /\ thread \in {"cleanup", "over"} => ~sandbox
  /\ EventsBounded /\ DoneAtTheEnd

RowSound == row \in Reports \cup {NoReport} /\ stored \in [Sources -> Nat] /\ CountersAgree

LEMMA GreyTypes ==
  ASSUME GInv
  PROVE  /\ RowSound /\ left \in 0..Found /\ sandbox \in BOOLEAN
         /\ told \in {"nothing", "completed", "failed"}
         /\ thread \in Early \cup {"finally", "cleanup", "over"}
         /\ EInv /\ count \in Nat /\ doneAt \in 0..count /\ latest \in 0..count /\ done \in BOOLEAN
  BY BrokerTypes DEF GInv, GreyTypeOK, RowSound

LEMMA FoundNothing == None \in [Sources -> Nat] /\ Total(None) = 0 /\ None["ai"] = 0 /\ None["deterministic"] = 0
  BY DEF None, Total, Sources

\* One finding more or less in the rows and in the counters.
LEMMA MoreOrLess ==
  ASSUME NEW f \in [Sources -> Nat], NEW source \in Sources
  PROVE  /\ More(f, source) \in [Sources -> Nat] /\ Total(More(f, source)) = Total(f) + 1
         /\ f[source] > 0 => /\ Less(f, source) \in [Sources -> Nat]
                            /\ Total(Less(f, source)) = Total(f) - 1
<1>1. f["deterministic"] \in Nat /\ f["ai"] \in Nat /\ source \in {"deterministic", "ai"}
  BY DEF Sources
<1>2. More(f, source) \in [Sources -> Nat] /\ (f[source] > 0 => Less(f, source) \in [Sources -> Nat])
  BY DEF More, Less
<1>3. /\ More(f, source)[source] = f[source] + 1 /\ Less(f, source)[source] = f[source] - 1
      /\ \A z \in Sources \ {source} : More(f, source)[z] = f[z] /\ Less(f, source)[z] = f[z]
  BY DEF More, Less
<1>4. CASE source = "ai"
  BY <1>1, <1>2, <1>3, <1>4 DEF Total, Sources
<1>5. CASE source = "deterministic"
  BY <1>1, <1>2, <1>3, <1>5 DEF Total, Sources
<1>. QED
  BY <1>1, <1>4, <1>5

LEMMA RowCounted ==
  ASSUME NEW r \in Reports, NEW c \in [Sources -> Nat], NEW n \in Nat
  PROVE  LET q == [r EXCEPT !.total = n, !.counts = c]
         IN q \in Reports /\ q # NoReport /\ q.counts = c /\ q.total = n
  BY ReportParameters DEF Reports

LEMMA CountedRow ==
  ASSUME RowSound, row # NoReport, NEW source \in Sources,
         \/ /\ stored' = More(stored, source)
            /\ row' = [row EXCEPT !.total = @ + 1, !.counts = More(row.counts, source)]
         \/ /\ stored[source] > 0 /\ stored' = Less(stored, source)
            /\ row' = [row EXCEPT !.total = @ - 1, !.counts = Less(row.counts, source)]
  PROVE  RowSound'
<1>1. /\ stored \in [Sources -> Nat] /\ row \in Reports /\ Total(stored) \in Nat
      /\ row.counts = stored /\ row.total = Total(stored)
  BY DEF RowSound, CountersAgree, Total, Sources
<1>2. /\ stored' \in [Sources -> Nat] /\ Total(stored') \in Nat
      /\ row' = [row EXCEPT !.total = Total(stored'), !.counts = stored']
  <2>1. CASE stored' = More(stored, source) /\ row' = [row EXCEPT !.total = @ + 1, !.counts = More(row.counts, source)]
    <3>1. stored' \in [Sources -> Nat] /\ Total(stored') = Total(stored) + 1
      BY <1>1, <2>1, MoreOrLess
    <3>2. Total(stored') \in Nat
      BY <1>1, <3>1
    <3>. QED
      BY <1>1, <2>1, <3>1, <3>2
  <2>2. CASE /\ stored[source] > 0 /\ stored' = Less(stored, source)
             /\ row' = [row EXCEPT !.total = @ - 1, !.counts = Less(row.counts, source)]
    <3>1. stored' \in [Sources -> Nat] /\ Total(stored') = Total(stored) - 1
      BY <1>1, <2>2, MoreOrLess
    <3>2. Total(stored') \in Nat
      BY <3>1 DEF Total, Sources
    <3>. QED
      BY <1>1, <2>2, <3>1, <3>2
  <2>. QED
    BY <2>1, <2>2
<1>3. row' \in Reports /\ row' # NoReport /\ row'.counts = stored' /\ row'.total = Total(stored')
  <2>1. \A c \in [Sources -> Nat], n \in Nat :
          LET q == [row EXCEPT !.total = n, !.counts = c]
          IN q \in Reports /\ q # NoReport /\ q.counts = c /\ q.total = n
    BY <1>1, RowCounted, Zenon
  <2>. QED
    BY <1>2, <2>1, Zenon
<1>. QED
  BY <1>2, <1>3 DEF RowSound, CountersAgree, Total

\* The update of the status reaches no row.
LEMMA NoUpdate ==
  ASSUME RowSound, NEW status, UpdateReport(status)
  PROVE  row' = row
<1>1. row # NoReport => row.id = Rid
  BY DEF RowSound, Reports
<1>. QED
  BY <1>1, ReportParameters DEF UpdateReport

LEMMA AddKeepsRow ==
  ASSUME RowSound, NEW source \in Sources, NEW added, AddFinding(source, added)
  PROVE  RowSound' /\ UNCHANGED evars /\ thread' \in {thread, added} /\ (row = NoReport => row' = NoReport)
<1>1. CASE row = NoReport
  BY <1>1 DEF AddFinding, RowSound, CountersAgree, Total
<1>2. CASE row # NoReport
  <2>1. /\ stored' = More(stored, source)
        /\ row' = [row EXCEPT !.total = @ + 1, !.counts = More(row.counts, source)]
        /\ thread' = added /\ UNCHANGED evars
    BY <1>2 DEF AddFinding
  <2>2. RowSound'
    BY <1>2, <2>1, CountedRow
  <2>. QED
    BY <1>2, <2>1, <2>2
<1>. QED
  BY <1>1, <1>2 DEF AddFinding

\* What keeps the row and the findings.
LEMMA SameRow == RowSound /\ UNCHANGED <<row, stored>> => RowSound'
  BY DEF RowSound, CountersAgree, Total

LEMMA RequestsKeepRow ==
  ASSUME RowSound, (CreateReport /\ row = NoReport) \/ DeleteReport \/ \E source \in Sources : DeleteFinding(source)
  PROVE  RowSound'
<1>1. CASE CreateReport /\ row = NoReport
  <2>1. Total(stored) = 0 /\ stored \in [Sources -> Nat]
    BY <1>1 DEF RowSound, CountersAgree
  <2>2. stored = None
    BY <2>1 DEF Total, Sources, None
  <2>3. row' = [id |-> Rid, status |-> "running", counts |-> None, total |-> 0] /\ stored' = None
    BY <1>1, <2>2 DEF CreateReport
  <2>4. row' \in Reports
    BY <2>3, FoundNothing DEF Reports
  <2>. QED
    BY <2>3, <2>4, FoundNothing, ReportParameters DEF RowSound, CountersAgree, Total
<1>2. CASE DeleteReport
  BY <1>2, FoundNothing DEF DeleteReport, RowSound, CountersAgree, Total
<1>3. CASE \E source \in Sources : DeleteFinding(source)
  <2>1. PICK source \in Sources : DeleteFinding(source)
    BY <1>3
  <2>. QED
    BY <2>1, CountedRow DEF DeleteFinding
<1>. QED
  BY <1>1, <1>2, <1>3


\* What the thread and the broker know of each other.
ThreadSound ==
  /\ left \in 0..Found /\ sandbox \in BOOLEAN /\ told \in {"nothing", "completed", "failed"}
  /\ thread \in Early \cup {"finally", "cleanup", "over"}
  /\ thread = "new" => row = NoReport
  /\ thread \in {"cleanup", "over"} => ~sandbox
  /\ EventsBounded /\ DoneAtTheEnd

\* The three parts of the invariant.
LEMMA GreyParts == GInv <=> EInv /\ RowSound /\ ThreadSound
  BY DEF GInv, EInv, RowSound, ThreadSound, GreyTypeOK

LEMMA PartsNext == EInv' /\ RowSound' /\ ThreadSound' => GInv'
<1>1. EInv /\ RowSound /\ ThreadSound => GInv
  BY GreyParts
<1>. QED
  BY <1>1, PTL

LEMMA Bounds ==
  /\ Found \in Nat /\ Modules \in Nat /\ Rounds \in Nat /\ Events \in Nat
  /\ Modules + Found + 6 <= Events /\ Rounds + 4 <= Events
  BY ReportParameters, EventParameters

LEMMA OneMore ==
  ASSUME NEW m \in Nat, NEW f \in Nat, NEW n \in Nat, n <= m, NEW k \in 0..f
  PROVE  (n + 1) + k <= m + f + 1
  OBVIOUS

LEMMA InitGInv == GreyInit => GInv
<1> SUFFICES ASSUME GreyInit
             PROVE  GInv
  OBVIOUS
<1>1. EInv /\ count = 0 /\ doneAt = 0 /\ latest = 0 /\ ~done /\ writer.step = "idle"
  BY InitEInv DEF GreyInit, EventsInit, Idle
<1>2. RowSound
  BY FoundNothing DEF GreyInit, RowSound, CountersAgree
<1>3. ThreadSound
  <2>1. EventsBounded /\ DoneAtTheEnd
    BY <1>1 DEF GreyInit, EventsBounded, DoneAtTheEnd
  <2>2. /\ thread = "new" /\ left = 0 /\ sandbox = FALSE /\ told = "nothing" /\ row = NoReport
        /\ 0 \in 0..Found
    BY Bounds DEF GreyInit
  <2>. QED
    BY <2>1, <2>2 DEF ThreadSound, Early
<1>. QED
  BY <1>1, <1>2, <1>3, GreyParts

\* An event of the thread, while the broker is within its bounds.
LEMMA ProgressIs ==
  ASSUME GInv, NEW from \in Early \ {"new", "refused", "complete", "failing", "spawn"}, NEW to,
         Progress(from, to)
  PROVE  /\ Publishing /\ thread = from /\ thread' = to
         /\ count' = count + 1 /\ latest' = count + 1 /\ UNCHANGED <<doneAt, done>>
         /\ writer'.step = "put" /\ doneAt = 0 /\ ~done
<1>1. doneAt = 0 /\ ~done /\ thread = from /\ thread' = to /\ Publish(FALSE)
  BY DEF GInv, DoneAtTheEnd, Progress
<1>2. count < Events
  <2>1. count \in Nat /\ left \in 0..Found
    BY GreyTypes
  <2>. QED
    BY <1>1, <2>1, Bounds DEF GInv, EventsBounded, Most, Early
<1>3. /\ count' = count + 1 /\ latest' = count + 1 /\ UNCHANGED <<doneAt, done>>
      /\ writer' = [Idle EXCEPT !.step = "put"]
  BY <1>1 DEF Publish
<1>. QED
  BY <1>1, <1>2, <1>3 DEF Publishing, Idle

\* A request keeps the thread and the broker as they are.
LEMMA RequestSteps ==
  ASSUME GInv, CreateReport \/ DeleteReport \/ \E source \in Sources : DeleteFinding(source)
  PROVE  [EventsNext]_evars /\ RowSound' /\ ThreadSound'
<1>1. RowSound /\ ThreadSound
  BY GreyParts
<1>2. CreateReport => row = NoReport
  BY <1>1 DEF CreateReport, ThreadSound
<1>3. RowSound'
  BY <1>1, <1>2, RequestsKeepRow
<1>4. /\ UNCHANGED <<left, sandbox, told, count, doneAt, latest, done, writer, evars>>
      /\ \/ thread = "new" /\ thread' \in {"collect", "refused"}
         \/ thread' = thread /\ row # NoReport
  BY DEF CreateReport, DeleteReport, DeleteFinding, evars, broker
<1>5. ThreadSound'
  <2>1. CASE thread = "new" /\ thread' \in {"collect", "refused"}
    BY <1>1, <1>4, <2>1, ReportParameters DEF ThreadSound, Early, EventsBounded, DoneAtTheEnd, Most
  <2>2. CASE thread' = thread /\ row # NoReport
    BY <1>1, <1>4, <2>2 DEF ThreadSound, EventsBounded, DoneAtTheEnd, Most
  <2>. QED
    BY <1>4, <2>1, <2>2
<1>. QED
  BY <1>3, <1>4, <1>5

\* The steps of the thread that publish an event.
LEMMA ProgressSteps ==
  ASSUME GInv,
         CollectModule \/ EndCollection \/ PublishFinding \/ EndSaving \/ Refine \/ SkipRefining
           \/ LastProgress
  PROVE  [EventsNext]_evars /\ RowSound' /\ ThreadSound'
<1>1. RowSound /\ ThreadSound /\ count \in Nat
  BY GreyParts, GreyTypes
<1>2. /\ UNCHANGED <<row, stored, sandbox, told>> /\ left' \in 0..Found
      /\ left' = left \/ (thread = "collect" /\ thread' = "save")
  <2>1. left \in 0..Found
    BY <1>1 DEF ThreadSound
  <2>2. CASE EndCollection
    BY <2>2 DEF EndCollection, Progress
  <2>3. CASE CollectModule \/ PublishFinding \/ EndSaving \/ Refine \/ SkipRefining \/ LastProgress
    <3>1. UNCHANGED <<row, stored, left, sandbox, told>>
      BY <2>3, Zenon DEF CollectModule, PublishFinding, EndSaving, Refine, SkipRefining, LastProgress
    <3>. QED
      BY <2>1, <3>1
  <2>. QED
    BY <2>2, <2>3
<1>3. PICK from \in Early \ {"new", "refused", "complete", "failing", "spawn"},
           to \in {"collect", "save", "spawn", "refine", "refined", "complete"} :
        /\ Progress(from, to)
        /\ \/ from = "collect" /\ to = "collect" /\ count < Modules
           \/ from = "collect" /\ to = "save"
           \/ from = "saved" /\ to = "save"
           \/ from = "created" /\ to = "refine"
           \/ from = "save" /\ to = "spawn" /\ left = 0
           \/ from = "refine" /\ to = "refine" /\ count < Rounds
           \/ from \in {"fetch", "refine"} /\ to = "refined"
           \/ from = "refined" /\ to = "complete"
  BY DEF CollectModule, EndCollection, PublishFinding, EndSaving, Refine, SkipRefining,
         LastProgress, Early
<1>4. /\ Publishing /\ thread = from /\ thread' = to
      /\ count' = count + 1 /\ latest' = count + 1 /\ UNCHANGED <<doneAt, done>>
      /\ writer'.step = "put" /\ doneAt = 0 /\ ~done
  BY <1>3, ProgressIs
<1>5. EventsBounded'
  <2>1. EventsBounded /\ left \in 0..Found
    BY <1>1 DEF ThreadSound
  <2>2. CASE to \in {"collect", "spawn"}
    BY <1>1, <1>3, <1>4, <2>1, <2>2, Bounds DEF EventsBounded, Most
  <2>4. CASE to = "save"
    <3>1. from = "collect" \/ (from = "saved" /\ left' = left)
      BY <1>2, <1>3, <1>4, <2>4
    <3>2. CASE from = "collect"
      <4>1. count <= Modules /\ left' \in 0..Found /\ count' = count + 1
        BY <1>2, <1>4, <2>1, <3>2 DEF EventsBounded
      <4>2. count' + left' <= Modules + Found + 1
        <5>1. count \in Nat /\ Found \in Nat /\ Modules \in Nat /\ left' \in 0..Found
          BY <1>1, <4>1, Bounds
        <5>. QED
          BY <4>1, <5>1, OneMore
      <4>. QED
        BY <1>4, <2>4, <4>2 DEF EventsBounded
    <3>3. CASE from = "saved" /\ left' = left
      <4>1. count + left <= Modules + Found /\ left' = left /\ count' = count + 1
        BY <1>4, <2>1, <3>3 DEF EventsBounded
      <4>. QED
        BY <1>1, <1>4, <2>1, <2>4, <4>1, Bounds DEF EventsBounded
    <3>. QED
      BY <3>1, <3>2, <3>3
  <2>3. CASE to \in {"refine", "refined", "complete"}
    BY <1>1, <1>3, <1>4, <2>1, <2>3, Bounds DEF EventsBounded, Most
  <2>. QED
    BY <2>2, <2>3, <2>4
<1>6. DoneAtTheEnd'
  BY <1>4 DEF DoneAtTheEnd
<1>7. ThreadSound'
  BY <1>1, <1>2, <1>4, <1>5, <1>6 DEF ThreadSound, Early
<1>. QED
  BY <1>1, <1>2, <1>4, <1>7, SameRow DEF EventsNext

\* The steps of the thread that the broker does not see.
LEMMA SilentSteps ==
  ASSUME GInv,
         SaveFinding \/ SpawnSandbox \/ FetchFindings \/ CreateFinding \/ EndRefining \/ Raise
           \/ FailToFail \/ DestroySandbox
  PROVE  [EventsNext]_evars /\ RowSound' /\ ThreadSound'
<1>1. RowSound /\ ThreadSound /\ count \in Nat
  BY GreyParts, GreyTypes
<1>2. CASE SaveFinding \/ CreateFinding
  <2>1. PICK source \in Sources, added \in {"saved", "created"} :
          /\ AddFinding(source, added) /\ UNCHANGED <<sandbox, told>>
          /\ \/ added = "saved" /\ thread = "save" /\ left > 0 /\ left' = left - 1
             \/ added = "created" /\ thread = "refine" /\ count < Rounds /\ left' = left
    BY <1>2 DEF SaveFinding, CreateFinding, Sources
  <2>2. RowSound' /\ UNCHANGED evars /\ thread' \in {thread, added}
    BY <1>1, <2>1, AddKeepsRow
  <2>3. UNCHANGED <<count, doneAt, latest, done, writer>>
    BY <2>2 DEF evars, broker
  <2>4. EventsBounded'
    BY <1>1, <2>1, <2>2, <2>3, Bounds DEF EventsBounded, Most, ThreadSound
  <2>5. DoneAtTheEnd'
    BY <1>1, <2>1, <2>2, <2>3 DEF DoneAtTheEnd, ThreadSound, Early
  <2>6. ThreadSound'
    BY <1>1, <2>1, <2>2, <2>4, <2>5, Bounds DEF ThreadSound, Early
  <2>. QED
    BY <2>2, <2>6
<1>3. CASE SpawnSandbox \/ FetchFindings \/ EndRefining \/ Raise \/ FailToFail \/ DestroySandbox
  <2>1. /\ UNCHANGED <<row, stored, left, told, evars>> /\ sandbox' \in BOOLEAN
        /\ UNCHANGED <<count, doneAt, latest, done, writer>>
    BY <1>1, <1>3 DEF SpawnSandbox, FetchFindings, EndRefining, Raise, FailToFail, DestroySandbox,
                      ThreadSound, evars, broker
  <2>2. \/ thread = "spawn" /\ thread' = "fetch"
        \/ thread = "fetch" /\ thread' \in {"refined", "refine"}
        \/ thread = "refine" /\ thread' = "refined"
        \/ thread \in Early /\ thread' = "failing"
        \/ thread = "failing" /\ thread' = "finally"
        \/ thread = "finally" /\ thread' = "cleanup" /\ ~sandbox'
    BY <1>3 DEF SpawnSandbox, FetchFindings, EndRefining, Raise, FailToFail, DestroySandbox, Early
  <2>3. EventsBounded'
    <3>1. EventsBounded
      BY <1>1 DEF ThreadSound
    <3>2. thread = "fetch" => Most(count) /\ (count = 0 \/ Most(count - 1))
      BY <1>1, <3>1, Bounds DEF EventsBounded, Most
    <3>3. thread = "refine" => Most(count) /\ (count = 0 \/ Most(count - 1))
      BY <1>1, <3>1, Bounds DEF EventsBounded, Most
    <3>. QED
      BY <2>1, <2>2, <3>1, <3>2, <3>3 DEF EventsBounded, Most
  <2>4. DoneAtTheEnd'
    BY <1>1, <2>1, <2>2 DEF DoneAtTheEnd, ThreadSound, Early
  <2>5. ThreadSound'
    BY <1>1, <2>1, <2>2, <2>3, <2>4 DEF ThreadSound, Early
  <2>. QED
    BY <1>1, <2>1, <2>5, SameRow
<1>. QED
  BY <1>2, <1>3

\* "done" is published by a thread that did not publish it yet.
LEMMA LastSteps ==
  ASSUME GInv, Complete \/ Fail
  PROVE  [EventsNext]_evars /\ RowSound' /\ ThreadSound'
<1>1. RowSound /\ ThreadSound /\ count \in Nat
  BY GreyParts, GreyTypes
<1>2. PICK status \in {"completed", "failed"} :
        /\ thread \in {"complete", "failing"} /\ thread' = "finally"
        /\ UpdateReport(status) /\ told' = status /\ Publish(TRUE)
        /\ UNCHANGED <<stored, left, sandbox>>
  BY DEF Complete, Fail
<1>3. row' = row
  BY <1>1, <1>2, NoUpdate
<1>4. doneAt = 0 /\ ~done
  BY <1>1, <1>2 DEF ThreadSound, DoneAtTheEnd, Early
<1>5. /\ count' = count + 1 /\ latest' = count + 1 /\ done' = done
      /\ writer' = [Idle EXCEPT !.step = "mark"]
  BY <1>2, <1>4 DEF Publish
<1>6. writer'.step = "mark"
  BY <1>5 DEF Idle
<1>7. EventsBounded' /\ DoneAtTheEnd'
  BY <1>2, <1>4, <1>5, <1>6 DEF EventsBounded, DoneAtTheEnd, Early
<1>8. ThreadSound'
  BY <1>1, <1>2, <1>7 DEF ThreadSound
<1>9. Finishing
  BY <1>2, <1>4 DEF Finishing
<1>. QED
  BY <1>1, <1>2, <1>3, <1>8, <1>9, SameRow DEF EventsNext

LEMMA CleanupSteps ==
  ASSUME GInv, CleanupEvents
  PROVE  [EventsNext]_evars /\ RowSound' /\ ThreadSound'
<1>1. RowSound /\ ThreadSound /\ count \in Nat /\ doneAt \in 0..count
  BY GreyParts, GreyTypes
<1>2. /\ thread = "cleanup" /\ thread' = "over" /\ StartCleanup
      /\ UNCHANGED <<row, stored, left, sandbox, told>>
  BY DEF CleanupEvents
<1>3. Ending
  BY <1>1, <1>2 DEF Ending, ThreadSound, DoneAtTheEnd
<1>4. ThreadSound'
  BY <1>1, <1>2 DEF ThreadSound, EventsBounded, DoneAtTheEnd, Early
<1>. QED
  BY <1>1, <1>2, <1>3, <1>4, SameRow DEF EventsNext

\* The walk of publish, and the streams.
LEMMA OtherSteps ==
  ASSUME GInv, Writing \/ \E s \in Streams : OpenStream(s) \/ Serving(s) \/ Departing(s)
  PROVE  [EventsNext]_evars /\ RowSound' /\ ThreadSound'
<1>1. RowSound /\ ThreadSound /\ count \in Nat /\ doneAt \in 0..count /\ WalkAgrees
  BY GreyParts, GreyTypes DEF EInv
<1>2. UNCHANGED <<row, stored, thread, left, sandbox, told>>
  BY DEF Writing, OpenStream, Serving, Departing, report
<1>3. CASE \E s \in Streams : OpenStream(s) \/ Serving(s) \/ Departing(s)
  <2>1. PICK s \in Streams :
          Subscribe(s) \/ Serve(s) \/ Swallow(s) \/ QuitAtReplay(s) \/ QuitInLoop(s)
    BY <1>3 DEF OpenStream, Serving, Departing
  <2>2. EventsNext
    BY <2>1 DEF EventsNext
  <2>3. UNCHANGED <<count, doneAt, latest, done, writer>>
    BY <2>1 DEF Subscribe, Serve, Swallow, QuitAtReplay, QuitInLoop, EnterLoop, StartGet, Receive,
                TimeOut, Finish, broker
  <2>4. ThreadSound'
    BY <1>1, <1>2, <2>3 DEF ThreadSound, EventsBounded, DoneAtTheEnd, Most
  <2>. QED
    BY <1>1, <1>2, <2>2, <2>4, SameRow
<1>4. CASE Writing
  <2>1. EventsNext /\ UNCHANGED <<count, doneAt>> /\ Write
    BY <1>4 DEF Writing, EventsNext, Write, MarkDone, Put, DropFull, Forget
  <2>2. thread # "over" => latest' = latest /\ writer'.step # "clean" /\ (done' => doneAt # 0)
    <3> SUFFICES ASSUME thread # "over"
                 PROVE  latest' = latest /\ writer'.step # "clean" /\ (done' => doneAt # 0)
      OBVIOUS
    <3>1. writer.step # "clean" /\ (done => doneAt # 0)
      BY <1>1 DEF ThreadSound, DoneAtTheEnd
    <3>2. writer \in Walk
      BY DEF GInv, EInv
    <3>3. CASE MarkDone
      <4>1. doneAt # 0
        BY <1>1, <3>3 DEF MarkDone, WalkAgrees
      <4>. QED
        BY <3>2, <3>3, <4>1 DEF MarkDone, Walk
    <3>4. CASE Put(count, "put")
      BY <3>1, <3>2, <3>4 DEF Put, Walk
    <3>5. CASE DropFull
      <4>1. /\ UNCHANGED <<latest, done>>
            /\ writer' = Idle \/ writer' = [writer EXCEPT !.step = "drop", !.full = Tail(@)]
        BY <3>5, Zenon DEF DropFull
      <4>2. writer' = [writer EXCEPT !.step = "drop", !.full = Tail(@)] => writer'.step = "drop"
        BY <3>2 DEF Walk
      <4>3. writer' = Idle => writer'.step = "idle"
        BY DEF Idle
      <4>. QED
        BY <3>1, <4>1, <4>2, <4>3
    <3>. QED
      BY <2>1, <3>1, <3>3, <3>4, <3>5 DEF Write, Put, Forget
  <2>3. thread \in Early => ~done'
    <3>1. thread \in Early => doneAt = 0 /\ ~done /\ thread # "over"
      BY <1>1 DEF ThreadSound, DoneAtTheEnd, Early
    <3>. QED
      BY <2>2, <3>1
  <2>4. ThreadSound'
    BY <1>1, <1>2, <2>1, <2>2, <2>3 DEF ThreadSound, EventsBounded, DoneAtTheEnd, Most
  <2>. QED
    BY <1>1, <1>2, <2>1, <2>4, SameRow
<1>. QED
  BY <1>3, <1>4

LEMMA StepGInv == GInv /\ [GreyNext]_gvars => GInv' /\ [EventsNext]_evars
<1> SUFFICES ASSUME GInv, [GreyNext]_gvars
             PROVE  GInv' /\ [EventsNext]_evars
  OBVIOUS
<1>1. CASE UNCHANGED gvars
  <2>1. UNCHANGED <<row, stored, thread, left, sandbox, told, evars, count, doneAt, latest, done, writer>>
    BY <1>1 DEF gvars, report, evars, broker
  <2>2. EInv /\ RowSound /\ ThreadSound
    BY GreyParts
  <2>3. ThreadSound'
    BY <2>1, <2>2 DEF ThreadSound, EventsBounded, DoneAtTheEnd, Most
  <2>. QED
    <3>1. EInv' /\ RowSound'
      BY <2>1, <2>2, StepEInv, SameRow
    <3>. QED
      BY <2>1, <2>3, <3>1, PartsNext, Zenon
<1>2. CASE GreyNext
  <2>1. [EventsNext]_evars /\ RowSound' /\ ThreadSound'
    BY <1>2, RequestSteps, ProgressSteps, SilentSteps, LastSteps, CleanupSteps, OtherSteps
    DEF GreyNext, Scan
  <2>2. EInv'
    BY <2>1, StepEInv, GreyParts
  <2>. QED
    BY <2>1, <2>2, PartsNext, Zenon
<1>. QED
  BY <1>1, <1>2

\* Of every behaviour of a report and of the streams of its scan.
LEMMA GreyInvariant == GreySpec => []GInv
<1>. QED
  BY InitGInv, StepGInv, PTL DEF GreySpec

-----------------------------------------------------------------------------
(* The theorems.                                                            *)

\* The counters of a report agree with its findings while the scan adds some and the user deletes
\* some, or the report; and a thread that is over leaves no container, however many findings,
\* streams and executor threads there are.
THEOREM ReportIsSound == GreySpec => []ReportSound
<1>1. GInv => ReportSound
  BY DEF GInv, ReportSound, SandboxReleased
<1>. QED
  BY <1>1, GreyInvariant, PTL

\* _run_scan uses the broker as scan_events.py expects of a scan: it publishes "done" at most once,
\* cleans up once, and nothing follows "done".
THEOREM ScanUsesTheBroker == GreySpec => ImplementsEvents
<1>1. GreyInit => EventsInit
  BY DEF GreyInit
<1>. QED
  BY <1>1, StepGInv, GreyInvariant, PTL DEF GreySpec, ImplementsEvents

\* Whatever the interleaving of publish, cleanup and the generators, no stream of a scan is sent
\* an event twice or out of order, none ends before the scan, and nothing is published after "done".
THEOREM BrokerKeepsItsPromise == EventsSpec => ImplementsFeed
<1>1. EventsSpec => ImplementsEvents
  BY PTL DEF EventsSpec, ImplementsEvents
<1>. QED
  BY <1>1, EventsFeed, PTL

\* The streams of a report's scan are served as Feed promises.
THEOREM ReportKeepsThePromise == GreySpec => ImplementsFeed
  BY ScanUsesTheBroker, EventsFeed, PTL

\* No queue holds more than its maximum, none is listed twice, and no more threads of the executor
\* are in use than there are, those left behind by a stream that timed out included.
THEOREM BrokerIsBounded == EventsSpec => []EventsTypeOK
<1>1. EventsSpec => ImplementsEvents
  BY PTL DEF EventsSpec, ImplementsEvents
<1>2. EInv => EventsTypeOK
  BY DEF EInv
<1>. QED
  BY <1>1, <1>2, EventsInvariance, PTL
=============================================================================
