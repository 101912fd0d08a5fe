--------------------------- MODULE ConnectionPool ---------------------------
(***************************************************************************)
(* The SQLite connections of the process.  close puts a connection back on *)
(* a stack as it is, with the transaction it may have open; the next       *)
(* handler takes it from there.  Some database functions close in a        *)
(* finally clause, others only when nothing was raised: then the           *)
(* connection is collected, and with it its transaction.                   *)
(***************************************************************************)
EXTENDS Naturals, Sequences, FiniteSets, SequencesExt
CONSTANTS Handlers,
          Careful,    \* those of them that close in a finally clause
          Statements, \* the statements of a handler
          MaxIdle,    \* _POOL_MAX
          NoConn
ASSUME PoolAssumption ==
  /\ IsFiniteSet(Handlers) /\ Careful \subseteq Handlers
  /\ Statements \in Nat /\ MaxIdle \in Nat
  /\ NoConn \notin Nat

VARIABLES
  pool,     \* the idle connections, the next one last
  opened,   \* the number of connections made
  hpc,      \* [Handlers -> where a handler is]
  hconn,    \* [Handlers -> its connection]
  run,      \* [Handlers -> the statements it has executed]
  open,     \* [connections -> [Handlers -> statements in its open transaction]]
  wlock,    \* the connection that holds the write lock of the database
  durable   \* [Handlers -> its statements that are committed]
cvars == <<pool, opened, hpc, hconn, run, open, wlock, durable>>

Conns == 1..Cardinality(Handlers)
Nothing == [h \in Handlers |-> 0]
HGo(h, place) == hpc' = [hpc EXCEPT ![h] = place]

PoolInit ==
  /\ pool = <<>>
  /\ opened = 0
  /\ hpc = [h \in Handlers |-> "idle"]
  /\ hconn = [h \in Handlers |-> NoConn]
  /\ run = Nothing
  /\ open = [c \in Conns |-> Nothing]
  /\ wlock = NoConn
  /\ durable = Nothing

\* Slip, for OneHolder: the connection stays on the stack.
GetConnectionKept(h, place) ==
  /\ hpc[h] = "idle"
  /\ IF pool # <<>>
     THEN hconn' = [hconn EXCEPT ![h] = Last(pool)] /\ UNCHANGED opened
     ELSE opened' = opened + 1 /\ hconn' = [hconn EXCEPT ![h] = opened']
  /\ HGo(h, place)
  /\ UNCHANGED <<pool, run, open, wlock, durable>>

\* _sqlite_get: the probe "SELECT 1" of an idle connection does not look at its transaction.
GetConnection(h, place) ==
  /\ hpc[h] = "idle"
  /\ IF pool # <<>>
     THEN /\ hconn' = [hconn EXCEPT ![h] = Last(pool)]
          /\ pool' = Front(pool)
          /\ UNCHANGED opened
     ELSE /\ opened' = opened + 1
          /\ hconn' = [hconn EXCEPT ![h] = opened']
          /\ UNCHANGED pool
  /\ HGo(h, place)
  /\ UNCHANGED <<run, open, wlock, durable>>

\* The first statement that writes takes the write lock of the database.
Write(h) ==
  /\ hpc[h] = "open"
  /\ run[h] < Statements
  /\ wlock \in {NoConn, hconn[h]}
  /\ wlock' = hconn[h]
  /\ open' = [open EXCEPT ![hconn[h]][h] = @ + 1]
  /\ run' = [run EXCEPT ![h] = @ + 1]
  /\ UNCHANGED <<pool, opened, hpc, hconn, durable>>

\* A statement that is refused, or the code between two of them, raises.  sqlite3 has begun the
\* transaction all the same.
Raise(h) ==
  /\ hpc[h] = "open"
  /\ wlock \in {NoConn, hconn[h]}
  /\ wlock' = hconn[h]
  /\ HGo(h, "raised")
  /\ UNCHANGED <<pool, opened, hconn, run, open, durable>>

\* Slip, for HandlersEnd: the wait for the lock has no limit.
LockedForEver(h) == FALSE /\ UNCHANGED cvars

\* busy_timeout is over and another connection still has the lock.
Locked(h) ==
  /\ hpc[h] = "open"
  /\ run[h] < Statements
  /\ wlock \notin {NoConn, hconn[h]}
  /\ HGo(h, "raised")
  /\ UNCHANGED <<pool, opened, hconn, run, open, wlock, durable>>

\* A handler that only reads gives the connection back without a commit.
OnlyReads(h) ==
  /\ hpc[h] = "reading"
  /\ \/ HGo(h, "done")
     \/ HGo(h, "raised")
  /\ UNCHANGED <<pool, opened, hconn, run, open, wlock, durable>>

\* Slip, for AnsweredIsDurable: the commit is forgotten.
CommitForgotten(h) ==
  /\ hpc[h] = "open"
  /\ run[h] = Statements
  /\ HGo(h, "done")
  /\ UNCHANGED <<pool, opened, hconn, run, open, wlock, durable>>

\* The commit of a connection is that of everything in its transaction.
Commit(h) ==
  /\ hpc[h] = "open"
  /\ run[h] = Statements
  /\ durable' = [g \in Handlers |-> durable[g] + open[hconn[h]][g]]
  /\ open' = [open EXCEPT ![hconn[h]] = Nothing]
  /\ wlock' = IF wlock = hconn[h] THEN NoConn ELSE wlock
  /\ HGo(h, "done")
  /\ UNCHANGED <<pool, opened, hconn, run>>

\* Slip, for LockReachable: the transaction outlives the connection.
EndedNever(c) == UNCHANGED <<open, wlock>>

\* What SQLite does with the transaction of a connection that is closed or collected.
Ended(c) ==
  /\ open' = [open EXCEPT ![c] = Nothing]
  /\ wlock' = IF wlock = c THEN NoConn ELSE wlock

\* Slip, for WorkspaceTypeOK: the pool has no limit.
PutAlways(h) == pool' = Append(pool, hconn[h]) /\ UNCHANGED <<open, wlock>>

\* _sqlite_put: without a rollback; a connection the pool has no room for is closed.
Put(h) ==
  IF Len(pool) < MaxIdle
  THEN pool' = Append(pool, hconn[h]) /\ UNCHANGED <<open, wlock>>
  ELSE UNCHANGED pool /\ Ended(hconn[h])

Close(h) ==
  /\ \/ hpc[h] = "done"
     \/ hpc[h] = "raised" /\ h \in Careful
  /\ Put(h)
  /\ hconn' = [hconn EXCEPT ![h] = NoConn]
  /\ HGo(h, IF hpc[h] = "done" THEN "answered" ELSE "failed")
  /\ UNCHANGED <<opened, run, durable>>

\* Slip, for AllOrNothing: every handler closes.
DropClosing(h) ==
  /\ hpc[h] = "raised"
  /\ h \notin Careful
  /\ Put(h)
  /\ hconn' = [hconn EXCEPT ![h] = NoConn]
  /\ HGo(h, "failed")
  /\ UNCHANGED <<opened, run, durable>>

\* Nothing closes the connection: it goes with the frame of the function.
Drop(h) ==
  /\ hpc[h] = "raised"
  /\ h \notin Careful
  /\ Ended(hconn[h])
  /\ hconn' = [hconn EXCEPT ![h] = NoConn]
  /\ HGo(h, "failed")
  /\ UNCHANGED <<pool, opened, run, durable>>

HandlerStep(h) ==
  \/ Write(h)
  \/ Raise(h)
  \/ Locked(h)
  \/ OnlyReads(h)
  \/ Commit(h)
  \/ Close(h)
  \/ Drop(h)

---------------------------------------------------------------------------
PoolTypeOK ==
  /\ pool \in Seq(Conns) /\ Len(pool) <= MaxIdle
  /\ opened \in 0..Cardinality(Handlers)
  /\ hpc \in [Handlers -> {"idle", "open", "reading", "raised", "done", "answered", "failed"}]
  /\ hconn \in [Handlers -> Conns \union {NoConn}]
  /\ run \in [Handlers -> 0..Statements]
  /\ open \in [Conns -> [Handlers -> 0..Statements]]
  /\ wlock \in Conns \union {NoConn}
  /\ durable \in [Handlers -> 0..Statements]

\* A connection is with one handler or once in the pool, however handlers end: two threads never
\* write into one transaction at a time.
OneHolder ==
  /\ \A g, h \in Handlers : g # h /\ hconn[g] # NoConn => hconn[g] # hconn[h]
  /\ \A h \in Handlers : hconn[h] \notin Range(pool)
  /\ IsInjective(pool)

\* What a handler has answered for is durable, all of it.
AnsweredIsDurable == \A h \in Handlers : hpc[h] = "answered" => durable[h] = run[h]

\* A failed handler leaves a part of its work in the database only when it had closed its connection
\* in a finally clause, and another handler committed it; the others are all or nothing.
AllOrNothing == \A h \in Handlers \ Careful : durable[h] \in {0, Statements}

\* The write lock is held by a connection some handler has, or by one that a failed handler put
\* back; it never goes to a connection nobody can reach.
LockReachable == wlock # NoConn => wlock \in Range(pool) \union {hconn[h] : h \in Handlers}

\* A handler that has a connection ends, though others hold the lock: the wait has a limit.
HandlersEnd == \A h \in Handlers : (hpc[h] \in {"open", "reading"}) ~> (hpc[h] \in {"answered", "failed"})

\* What a handler answers is durable and whole, though connections go round with their transactions
\* open.
PoolSound ==
  /\ PoolTypeOK
  /\ OneHolder
  /\ AnsweredIsDurable
  /\ AllOrNothing
  /\ LockReachable
=============================================================================
