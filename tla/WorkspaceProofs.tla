--------------------------- MODULE WorkspaceProofs --------------------------
(***************************************************************************)
(* For any handlers, statements and room in the pool: a connection has one *)
(* holder, and what was answered for is durable.  For any readers, writers *)
(* and lifetimes: how old an answer of the cache may be, and by what way.  *)
(* For any members and rows: what a deletion of folders takes and leaves,  *)
(* and that a tree shows what there is.                                    *)
(***************************************************************************)
EXTENDS Workspace, FiniteSetTheorems, WellFoundedInduction, TLAPS

-----------------------------------------------------------------------------
(* The stack of idle connections.                                          *)

LEMMA TakenFromStack ==
  ASSUME NEW S, NEW s \in Seq(S), s # <<>>, IsInjective(s)
  PROVE  /\ Front(s) \in Seq(S) /\ Len(Front(s)) = Len(s) - 1 /\ IsInjective(Front(s))
         /\ Last(s) \in S /\ Last(s) \in Range(s)
         /\ Range(s) = Range(Front(s)) \union {Last(s)} /\ Last(s) \notin Range(Front(s))
<1>1. Len(s) \in Nat \ {0} /\ DOMAIN s = 1..Len(s)
  OBVIOUS
<1>2. Front(s) \in Seq(S) /\ Len(Front(s)) = Len(s) - 1
  BY <1>1 DEF Front
<1>3. DOMAIN Front(s) = 1..(Len(s) - 1) /\ \A i \in 1..(Len(s) - 1) : Front(s)[i] = s[i]
  BY <1>1 DEF Front
<1>. QED
  BY <1>1, <1>2, <1>3 DEF Last, Range, IsInjective

LEMMA PutOnStack ==
  ASSUME NEW S, NEW s \in Seq(S), NEW x \in S, x \notin Range(s), IsInjective(s)
  PROVE  /\ Append(s, x) \in Seq(S) /\ Len(Append(s, x)) = Len(s) + 1 /\ IsInjective(Append(s, x))
         /\ Range(Append(s, x)) = Range(s) \union {x}
<1>1. /\ Append(s, x) \in Seq(S) /\ Len(Append(s, x)) = Len(s) + 1 /\ Len(s) \in Nat
      /\ DOMAIN s = 1..Len(s) /\ DOMAIN Append(s, x) = 1..(Len(s) + 1)
      /\ \A i \in 1..Len(s) : Append(s, x)[i] = s[i]
      /\ Append(s, x)[Len(s) + 1] = x
  OBVIOUS
<1>. QED
  BY <1>1 DEF Range, IsInjective
-----------------------------------------------------------------------------
(* Connections.                                                            *)

Holding == {"open", "reading", "raised", "done"}
Started == {h \in Handlers : hpc[h] # "idle"}

\* A handler has a connection exactly while it is between taking and giving it
\* back; connections have numbers up to the last one opened, and none was opened
\* for two handlers.
Holders ==
  /\ OneHolder
  /\ \A h \in Handlers : hconn[h] # NoConn <=> hpc[h] \in Holding
  /\ \A h \in Handlers : hconn[h] # NoConn => hconn[h] <= opened
  /\ \A c \in Range(pool) : c <= opened
  /\ opened <= Cardinality(Started)
  /\ LockReachable

\* The statements of g: those in an open transaction are all in one, and with the
\* durable ones never more than g executed.
Books(g) ==
  /\ \A c \in Conns : durable[g] + open[c][g] <= run[g]
  /\ \A c, d \in Conns : open[c][g] > 0 /\ open[d][g] > 0 => c = d
  /\ hpc[g] \in {"idle", "reading"} => run[g] = 0
  /\ hpc[g] \in {"open", "raised"} => durable[g] = 0 /\ open[hconn[g]][g] = run[g]
  /\ hpc[g] \in {"done", "answered"} => durable[g] = run[g] /\ run[g] \in {0, Statements}
  /\ hpc[g] = "failed" /\ g \notin Careful => durable[g] = 0 /\ \A c \in Conns : open[c][g] = 0

PInv == PoolTypeOK /\ Holders /\ \A g \in Handlers : Books(g)

LEMMA HandlersFinite == Cardinality(Handlers) \in Nat
  BY FS_CardinalityType, PoolAssumption

LEMMA StartedBound ==
  /\ IsFiniteSet(Started) /\ Cardinality(Started) \in Nat
  /\ Cardinality(Started) <= Cardinality(Handlers)
<1>1. Started \in SUBSET Handlers
  BY DEF Started
<1>. QED
  BY <1>1, FS_Subset, FS_CardinalityType, PoolAssumption

LEMMA InitPInv ==
  ASSUME PoolInit
  PROVE  PInv
<1>1. PoolTypeOK
  BY HandlersFinite, PoolAssumption DEF PoolInit, PoolTypeOK, Nothing
<1>2. Holders
  BY StartedBound, PoolAssumption
     DEF PoolInit, Holders, OneHolder, Holding, Range, IsInjective, LockReachable
<1>3. \A g \in Handlers : Books(g)
  BY DEF PoolInit, Books, Nothing
<1>. QED
  BY <1>1, <1>2, <1>3 DEF PInv

\* The connection of a handler that runs is one of the connections.
LEMMA Held ==
  ASSUME PInv, NEW h \in Handlers, hpc[h] \in Holding
  PROVE  hconn[h] \in Conns /\ hconn[h] # NoConn /\ hconn[h] \notin Range(pool)
  BY DEF PInv, PoolTypeOK, Holders, OneHolder

LEMMA GetConnectionStep ==
  ASSUME PInv, NEW h \in Handlers, NEW place \in {"open", "reading"}, GetConnection(h, place)
  PROVE  PInv'
<1>0. PoolTypeOK /\ Holders /\ hpc[h] = "idle" /\ hconn[h] = NoConn
  BY DEF PInv, Holders, GetConnection, Holding
<1>1. hpc' = [hpc EXCEPT ![h] = place] /\ UNCHANGED <<run, open, wlock, durable>>
  BY DEF GetConnection, HGo
<1>2. Started' = Started \union {h} /\ h \notin Started
  BY <1>0, <1>1 DEF Started, PoolTypeOK
<1>3. Cardinality(Started') = Cardinality(Started) + 1
  BY <1>2, StartedBound, FS_AddElement
<1>4. Cardinality(Started') <= Cardinality(Handlers)
  <2>1. Started' \in SUBSET Handlers
    BY DEF Started
  <2>. QED
    BY <2>1, FS_Subset, PoolAssumption
<1>5. PICK c \in Conns :
         /\ hconn' = [hconn EXCEPT ![h] = c]
         /\ \A g \in Handlers : hconn[g] # c
         /\ pool' \in Seq(Conns) /\ Len(pool') <= MaxIdle /\ IsInjective(pool')
         /\ c \notin Range(pool') /\ Range(pool') \subseteq Range(pool) /\ Range(pool) \subseteq Range(pool') \union {c}
         /\ c <= opened' /\ opened <= opened' /\ opened' <= Cardinality(Started')
         /\ opened' \in 0..Cardinality(Handlers)
  <2>1. CASE pool # <<>>
    <3>1. hconn' = [hconn EXCEPT ![h] = Last(pool)] /\ pool' = Front(pool) /\ opened' = opened
      BY <2>1 DEF GetConnection
    <3>2. pool \in Seq(Conns) /\ IsInjective(pool) /\ Len(pool) <= MaxIdle
      BY <1>0 DEF PoolTypeOK, Holders, OneHolder
    <3>3. /\ pool' \in Seq(Conns) /\ Len(pool') = Len(pool) - 1 /\ IsInjective(pool')
          /\ Last(pool) \in Conns /\ Last(pool) \in Range(pool)
          /\ Range(pool) = Range(pool') \union {Last(pool)} /\ Last(pool) \notin Range(pool')
      BY <2>1, <3>1, <3>2, TakenFromStack
    <3>4. Len(pool') <= MaxIdle
      BY <3>2, <3>3, PoolAssumption
    <3>5. Last(pool) <= opened /\ opened <= Cardinality(Started) /\ opened \in 0..Cardinality(Handlers)
          /\ \A g \in Handlers : hconn[g] # Last(pool)
      BY <1>0, <3>3 DEF Holders, OneHolder, PoolTypeOK
    <3>6. opened <= Cardinality(Started')
      BY <1>3, <3>5, StartedBound, HandlersFinite
    <3>10. /\ Last(pool) \in Conns
           /\ hconn' = [hconn EXCEPT ![h] = Last(pool)]
           /\ \A g \in Handlers : hconn[g] # Last(pool)
           /\ pool' \in Seq(Conns) /\ Len(pool') <= MaxIdle /\ IsInjective(pool')
           /\ Last(pool) \notin Range(pool') /\ Range(pool') \subseteq Range(pool)
           /\ Range(pool) \subseteq Range(pool') \union {Last(pool)}
      BY <3>1, <3>3, <3>4, <3>5
    <3>11. /\ Last(pool) <= opened' /\ opened <= opened' /\ opened' <= Cardinality(Started')
           /\ opened' \in 0..Cardinality(Handlers)
      BY <3>1, <3>5, <3>6, HandlersFinite
    <3>. QED
      BY <3>10, <3>11
  <2>2. CASE pool = <<>>
    <3>1. hconn' = [hconn EXCEPT ![h] = opened + 1] /\ pool' = pool /\ opened' = opened + 1
      BY <2>2 DEF GetConnection
    <3>2. opened \in Nat /\ opened <= Cardinality(Started)
      BY <1>0, HandlersFinite DEF PoolTypeOK, Holders
    <3>3. opened + 1 \in Conns /\ opened + 1 <= Cardinality(Started') /\ opened + 1 \in 0..Cardinality(Handlers)
      BY <1>3, <1>4, <3>2, StartedBound, HandlersFinite DEF Conns
    <3>4. ASSUME NEW g \in Handlers
          PROVE  hconn[g] # opened + 1
      <4>1. hconn[g] # NoConn => hconn[g] <= opened
        BY <1>0 DEF Holders
      <4>2. NoConn # opened + 1
        BY <3>2, PoolAssumption
      <4>. QED
        BY <3>2, <4>1, <4>2
    <3>5. Range(pool) = {}
      BY <2>2 DEF Range
    <3>10. /\ opened + 1 \in Conns
           /\ hconn' = [hconn EXCEPT ![h] = opened + 1]
           /\ \A g \in Handlers : hconn[g] # opened + 1
           /\ pool' \in Seq(Conns) /\ Len(pool') <= MaxIdle /\ IsInjective(pool')
           /\ opened + 1 \notin Range(pool') /\ Range(pool') \subseteq Range(pool)
           /\ Range(pool) \subseteq Range(pool') \union {opened + 1}
      BY <1>0, <3>1, <3>3, <3>4, <3>5 DEF PoolTypeOK, Holders, OneHolder
    <3>11. /\ opened + 1 <= opened' /\ opened <= opened' /\ opened' <= Cardinality(Started')
           /\ opened' \in 0..Cardinality(Handlers)
      BY <3>1, <3>2, <3>3
    <3>. QED
      BY <3>10, <3>11
  <2>. QED
    BY <2>1, <2>2
<1>6. \A g \in Handlers : hconn'[g] = IF g = h THEN c ELSE hconn[g]
  BY <1>0, <1>5 DEF PoolTypeOK
<1>7. c # NoConn /\ c \in Nat
  BY <1>5, PoolAssumption, HandlersFinite DEF Conns
<1>8. PoolTypeOK'
  BY <1>0, <1>1, <1>5 DEF PoolTypeOK
<1>9. OneHolder'
  BY <1>0, <1>5, <1>6, <1>7 DEF OneHolder, Holders
<1>10. LockReachable'
  <2>1. ASSUME wlock # NoConn
        PROVE  wlock \in Range(pool') \union {hconn'[g] : g \in Handlers}
    <3>1. wlock \in Range(pool) \/ \E g \in Handlers : wlock = hconn[g]
      BY <1>0, <2>1 DEF Holders, LockReachable
    <3>2. wlock \in Range(pool') \/ \E g \in Handlers : wlock = hconn'[g]
      BY <1>0, <1>5, <1>6, <2>1, <3>1
    <3>. QED
      BY <3>2
  <2>. QED
    BY <1>1, <2>1 DEF LockReachable
<1>11. Holders'
  <2>1. \A g \in Handlers : hconn'[g] # NoConn <=> hpc'[g] \in Holding
    BY <1>0, <1>1, <1>6, <1>7 DEF Holders, Holding, PoolTypeOK
  <2>2. \A g \in Handlers : hconn'[g] # NoConn => hconn'[g] <= opened'
    <3>1. ASSUME NEW g \in Handlers, g # h, hconn[g] # NoConn
          PROVE  hconn[g] <= opened'
      <4>1. hconn[g] \in Conns /\ hconn[g] <= opened /\ opened \in Nat /\ opened' \in Nat
        BY <1>0, <1>5, <3>1, HandlersFinite DEF Holders, PoolTypeOK
      <4>. QED
        BY <1>5, <4>1, HandlersFinite DEF Conns
    <3>. QED
      BY <1>5, <1>6, <3>1
  <2>3. \A d \in Range(pool') : d <= opened'
    <3>1. ASSUME NEW d \in Range(pool')
          PROVE  d <= opened'
      <4>0. d \in Conns
        BY <1>5, <3>1 DEF Range
      <4>1. d \in Conns /\ d <= opened /\ opened \in Nat /\ opened' \in Nat
        BY <1>0, <1>5, <3>1, <4>0, HandlersFinite DEF Holders, PoolTypeOK
      <4>. QED
        BY <1>5, <4>1, HandlersFinite DEF Conns
    <3>. QED
      BY <3>1
  <2>. QED
    BY <1>5, <1>9, <1>10, <2>1, <2>2, <2>3 DEF Holders
<1>12. ASSUME NEW g \in Handlers
       PROVE  Books(g)'
  <2>1. Books(g) /\ Books(h)
    BY DEF PInv
  <2>2. CASE g # h
    BY <1>0, <1>1, <1>6, <2>1, <2>2 DEF Books, PoolTypeOK
  <2>3. CASE g = h
    <3>0. run[h] = 0 /\ durable[h] \in Nat /\ \A d \in Conns : open[d][h] \in Nat
      BY <1>0, <2>1, PoolAssumption DEF Books, PoolTypeOK
    <3>1. run[h] = 0 /\ durable[h] = 0 /\ \A d \in Conns : open[d][h] = 0
      BY <1>5, <2>1, <3>0 DEF Books
    <3>. QED
      BY <1>0, <1>1, <1>5, <1>6, <2>1, <2>3, <3>1 DEF Books, PoolTypeOK
  <2>. QED
    BY <2>2, <2>3
<1>. QED
  BY <1>8, <1>11, <1>12 DEF PInv
\* A handler that goes on with its connection.
LEMMA GoesOn ==
  ASSUME PInv, NEW h \in Handlers, hpc[h] \in Holding, NEW p \in Holding,
         hpc' = [hpc EXCEPT ![h] = p], UNCHANGED <<pool, opened, hconn>>,
         wlock' \in {wlock, hconn[h], NoConn}
  PROVE  Holders' /\ wlock' \in Conns \union {NoConn}
<1>1. PoolTypeOK /\ Holders
  BY DEF PInv
<1>2. Started' = Started
  BY <1>1 DEF Started, PoolTypeOK, Holding
<1>3. LockReachable'
  BY <1>1 DEF Holders, LockReachable
<1>4. OneHolder'
  BY <1>1 DEF Holders, OneHolder
<1>5. \A g \in Handlers : hconn'[g] # NoConn <=> hpc'[g] \in Holding
  BY <1>1 DEF Holders, PoolTypeOK
<1>6. Holders'
  BY <1>1, <1>2, <1>3, <1>4, <1>5 DEF Holders
<1>. QED
  BY <1>1, <1>6, Held DEF PoolTypeOK

\* A handler that ends: its connection is put on the stack, or goes with its transaction.
LEMMA GivesBack ==
  ASSUME PInv, NEW h \in Handlers, hpc[h] \in Holding, NEW p \in {"answered", "failed"},
         hpc' = [hpc EXCEPT ![h] = p], hconn' = [hconn EXCEPT ![h] = NoConn], opened' = opened,
         \/ /\ Len(pool) < MaxIdle
            /\ pool' = Append(pool, hconn[h]) /\ wlock' = wlock
         \/ pool' = pool /\ wlock' = (IF wlock = hconn[h] THEN NoConn ELSE wlock)
  PROVE  /\ Holders'
         /\ wlock' \in Conns \union {NoConn}
         /\ pool' \in Seq(Conns) /\ Len(pool') <= MaxIdle
<1>1. PoolTypeOK /\ Holders
  BY DEF PInv
<1>2. Started' = Started
  BY <1>1 DEF Started, PoolTypeOK, Holding
<1>3. /\ hconn[h] \in Conns /\ hconn[h] # NoConn /\ hconn[h] \notin Range(pool) /\ hconn[h] <= opened
      /\ pool \in Seq(Conns) /\ IsInjective(pool) /\ Len(pool) <= MaxIdle
  BY <1>1, Held DEF Holders, OneHolder, PoolTypeOK
<1>4. \A g \in Handlers : hconn'[g] = IF g = h THEN NoConn ELSE hconn[g]
  BY <1>1 DEF PoolTypeOK
<1>5. /\ pool' \in Seq(Conns) /\ Len(pool') <= MaxIdle /\ IsInjective(pool')
      /\ Range(pool') \in {Range(pool), Range(pool) \union {hconn[h]}}
  <2>1. CASE pool' = pool
    BY <1>3, <2>1
  <2>2. CASE Len(pool) < MaxIdle /\ pool' = Append(pool, hconn[h])
    <3>1. /\ pool' \in Seq(Conns) /\ Len(pool') = Len(pool) + 1 /\ IsInjective(pool')
          /\ Range(pool') = Range(pool) \union {hconn[h]}
      BY <1>3, <2>2, PutOnStack
    <3>. QED
      BY <1>3, <2>2, <3>1, PoolAssumption
  <2>. QED
    BY <2>1, <2>2
<1>6. OneHolder'
  <2>1. NoConn \notin Range(pool')
    BY <1>5, PoolAssumption, HandlersFinite DEF Range, Conns
  <2>2. \A g \in Handlers : g # h /\ hconn[g] # NoConn => hconn[g] \notin Range(pool')
    BY <1>1, <1>3, <1>5 DEF Holders, OneHolder
  <2>3. \A g \in Handlers : hconn'[g] \notin Range(pool')
    BY <1>4, <2>1, <2>2
  <2>. QED
    BY <1>1, <1>4, <1>5, <2>3 DEF Holders, OneHolder
<1>7. LockReachable'
  <2>1. ASSUME wlock' # NoConn
        PROVE  wlock' \in Range(pool') \/ \E g \in Handlers : wlock' = hconn'[g]
    <3>1. wlock' = wlock /\ (wlock \in Range(pool) \/ \E g \in Handlers : wlock = hconn[g])
      BY <1>1, <2>1 DEF Holders, LockReachable
    <3>2. CASE wlock \in Range(pool)
      BY <1>5, <3>1, <3>2
    <3>3. ASSUME NEW g \in Handlers, wlock = hconn[g], g # h
          PROVE  wlock' \in Range(pool') \/ \E f \in Handlers : wlock' = hconn'[f]
      BY <1>4, <3>1, <3>3
    <3>4. CASE wlock = hconn[h]
      <4>1. pool' = Append(pool, hconn[h])
        BY <2>1, <3>1, <3>4
      <4>2. Range(pool') = Range(pool) \union {hconn[h]}
        BY <1>3, <4>1, PutOnStack
      <4>. QED
        BY <3>1, <3>4, <4>2
    <3>. QED
      BY <3>1, <3>2, <3>3, <3>4
  <2>. QED
    BY <2>1 DEF LockReachable
<1>8. Holders'
  <2>1. \A g \in Handlers : hconn'[g] # NoConn <=> hpc'[g] \in Holding
    BY <1>1, <1>4 DEF Holders, Holding, PoolTypeOK
  <2>2. \A g \in Handlers : hconn'[g] # NoConn => hconn'[g] <= opened'
    BY <1>1, <1>4 DEF Holders
  <2>3. \A c \in Range(pool') : c <= opened'
    BY <1>1, <1>3, <1>5 DEF Holders
  <2>. QED
    BY <1>1, <1>2, <1>6, <1>7, <2>1, <2>2, <2>3 DEF Holders
<1>9. wlock' \in Conns \union {NoConn}
  BY <1>1 DEF PoolTypeOK
<1>. QED
  BY <1>5, <1>8, <1>9
\* The books of one handler, as numbers.
LEMMA BookTypes ==
  ASSUME PInv, NEW g \in Handlers
  PROVE  /\ Books(g)
         /\ run[g] \in 0..Statements /\ durable[g] \in 0..Statements
         /\ \A c \in Conns : open[c][g] \in 0..Statements
         /\ Statements \in Nat
  BY PoolAssumption DEF PInv, PoolTypeOK

LEMMA WriteStep ==
  ASSUME PInv, NEW h \in Handlers, Write(h)
  PROVE  PInv'
<1> DEFINE c == hconn[h]
<1>0. PoolTypeOK /\ hpc[h] = "open" /\ c \in Conns /\ c # NoConn
  BY Held DEF PInv, Write, Holding
<1>1. /\ open' = [open EXCEPT ![c] = [open[c] EXCEPT ![h] = open[c][h] + 1]]
      /\ run' = [run EXCEPT ![h] = run[h] + 1]
      /\ run[h] < Statements
      /\ hpc' = hpc /\ hconn' = hconn /\ durable' = durable
  BY DEF Write
<1>2. hpc' = [hpc EXCEPT ![h] = "open"]
  BY <1>0, <1>1 DEF PoolTypeOK
<1>3. Holders' /\ wlock' \in Conns \union {NoConn}
  BY <1>0, <1>2, GoesOn DEF Write, Holding
<1>4. run[h] \in Nat /\ open[c][h] = run[h] /\ durable[h] = 0 /\ \A d \in Conns : open[d][h] \in Nat
  BY <1>0, BookTypes DEF Books
<1>5. \A d \in Conns : d # c => open[d][h] = 0
  BY <1>0, <1>4, BookTypes DEF Books
<1> HIDE DEF c
<1>6. /\ \A d \in Conns, g \in Handlers :
           open'[d][g] = IF d = c /\ g = h THEN run[h] + 1 ELSE open[d][g]
      /\ \A g \in Handlers : run'[g] = IF g = h THEN run[h] + 1 ELSE run[g]
  BY <1>0, <1>1, <1>4 DEF PoolTypeOK
<1>7. run[h] + 1 \in 0..Statements
  BY <1>1, <1>4, PoolAssumption
<1>8. run' \in [Handlers -> 0..Statements] /\ open' \in [Conns -> [Handlers -> 0..Statements]]
  BY <1>0, <1>1, <1>4, <1>7 DEF PoolTypeOK
<1>9. PoolTypeOK'
  BY <1>0, <1>1, <1>3, <1>8 DEF PoolTypeOK, Write
<1>10. ASSUME NEW g \in Handlers
       PROVE  Books(g)'
  <2>1. CASE g # h
    BY <1>1, <1>6, <2>1, BookTypes DEF Books
  <2>2. CASE g = h
    <3>1. hconn'[h] = c /\ hpc'[h] = "open" /\ durable'[h] = 0
      BY <1>0, <1>1, <1>4 DEF c
    <3>. QED
      BY <1>0, <1>4, <1>5, <1>6, <2>2, <3>1 DEF Books
  <2>. QED
    BY <2>1, <2>2
<1>. QED
  BY <1>3, <1>9, <1>10 DEF PInv

\* The steps of a handler that leave every transaction as it is.
LEMMA OtherSteps ==
  ASSUME PInv, NEW h \in Handlers, Raise(h) \/ Locked(h) \/ OnlyReads(h)
  PROVE  PInv'
<1>0. PoolTypeOK /\ hpc[h] \in Holding /\ UNCHANGED <<pool, opened, hconn, run, open, durable>>
  BY DEF PInv, Raise, Locked, OnlyReads, Holding
<1>1. PICK p \in {"raised", "done"} :
         /\ hpc' = [hpc EXCEPT ![h] = p]
         /\ wlock' \in {wlock, hconn[h]}
         /\ (hpc[h] = "open" /\ p = "raised") \/ hpc[h] = "reading"
  BY DEF Raise, Locked, OnlyReads, HGo
<1>2. Holders' /\ wlock' \in Conns \union {NoConn}
  BY <1>0, <1>1, GoesOn DEF Holding
<1>3. PoolTypeOK'
  BY <1>0, <1>1, <1>2 DEF PoolTypeOK
<1>4. ASSUME NEW g \in Handlers
      PROVE  Books(g)'
  <2>1. CASE g # h \/ hpc[h] = "open"
    BY <1>0, <1>1, <2>1, BookTypes DEF Books, PoolTypeOK
  <2>2. CASE g = h /\ hpc[h] = "reading"
    <3>1. hconn[h] \in Conns
      BY <1>0, Held
    <3>2. run[h] = 0 /\ durable[h] = 0 /\ \A c \in Conns : open[c][h] = 0
      BY <2>2, <3>1, BookTypes DEF Books
    <3>. QED
      BY <1>0, <1>1, <2>2, <3>1, <3>2 DEF Books, PoolTypeOK
  <2>. QED
    BY <1>1, <2>1, <2>2
<1>. QED
  BY <1>2, <1>3, <1>4 DEF PInv

\* A commit makes durable what the connection carries: of another handler only what
\* one that failed has left there.
LEMMA CommitStep ==
  ASSUME PInv, NEW h \in Handlers, Commit(h)
  PROVE  PInv'
<1> DEFINE c == hconn[h]
<1>0. PoolTypeOK /\ Holders /\ hpc[h] = "open" /\ c \in Conns /\ c # NoConn
  BY Held DEF PInv, Commit, Holding
<1>1. /\ durable' = [g \in Handlers |-> durable[g] + open[c][g]]
      /\ open' = [open EXCEPT ![c] = Nothing]
      /\ hpc' = [hpc EXCEPT ![h] = "done"]
      /\ run[h] = Statements /\ wlock' \in {wlock, hconn[h], NoConn}
      /\ UNCHANGED <<pool, opened, hconn, run>>
  BY DEF Commit, HGo
<1>2. Holders' /\ wlock' \in Conns \union {NoConn}
  BY <1>0, <1>1, GoesOn DEF Holding
<1>3. \A g \in Handlers : durable[g] + open[c][g] \in 0..Statements
  BY <1>0, BookTypes DEF Books
<1>4. Nothing \in [Handlers -> 0..Statements]
  BY PoolAssumption DEF Nothing
<1>5. PoolTypeOK'
  BY <1>0, <1>1, <1>2, <1>3, <1>4 DEF PoolTypeOK
<1>6. ASSUME NEW g \in Handlers
      PROVE  Books(g)'
  <2>1. /\ \A d \in Conns : open'[d][g] = IF d = c THEN 0 ELSE open[d][g]
        /\ durable'[g] = durable[g] + open[c][g] /\ run'[g] = run[g] /\ hconn'[g] = hconn[g]
    BY <1>0, <1>1 DEF PoolTypeOK, Nothing
  <2>2. open[c][g] > 0 => \A d \in Conns : d # c => open[d][g] = 0
    BY <1>0, BookTypes DEF Books
  <2>3. CASE g = h
    <3>1. durable[h] = 0 /\ open[c][h] = run[h] /\ hpc'[h] = "done" /\ Statements \in Nat
      BY <1>0, <1>1, BookTypes DEF Books, PoolTypeOK
    <3>2. \A d \in Conns : d # c => open[d][h] = 0
      BY <1>0, <3>1, BookTypes DEF Books
    <3>. QED
      BY <1>0, <1>1, <2>1, <2>3, <3>1, <3>2 DEF Books
  <2>4. CASE g # h
    <3>0. hpc'[g] = hpc[g] /\ open[c][g] \in Nat /\ durable[g] \in Nat /\ run[g] \in Nat
          /\ \A d \in Conns : open[d][g] \in Nat
      BY <1>0, <1>1, <2>4, BookTypes DEF PoolTypeOK
    <3>1. CASE hpc[g] \in {"open", "raised"}
      <4>1. hconn[g] \in Conns /\ hconn[g] # c
        BY <1>0, <2>4, <3>1, Held DEF Holding, Holders, OneHolder
      <4>2. open[c][g] = 0
        BY <1>0, <3>0, <3>1, <4>1, BookTypes DEF Books
      <4>. QED
        BY <2>1, <3>0, <3>1, <4>1, <4>2, BookTypes DEF Books
    <3>2. CASE hpc[g] \notin {"open", "raised"}
      <4>1. hpc[g] \in {"idle", "reading", "done", "answered"} => durable[g] = run[g] /\ open[c][g] = 0
        BY <1>0, <3>0, BookTypes DEF Books
      <4>2. hpc[g] = "failed" /\ g \notin Careful => open[c][g] = 0
        BY <1>0, BookTypes DEF Books
      <4>3. \A d \in Conns : durable'[g] + open'[d][g] <= run[g]
        BY <1>0, <2>1, <2>2, <3>0, BookTypes DEF Books
      <4>. QED
        BY <2>1, <3>0, <3>2, <4>1, <4>2, <4>3, BookTypes DEF Books
    <3>. QED
      BY <3>1, <3>2
  <2>. QED
    BY <2>3, <2>4
<1>. QED
  BY <1>2, <1>5, <1>6 DEF PInv

LEMMA EndSteps ==
  ASSUME PInv, NEW h \in Handlers, Close(h) \/ Drop(h)
  PROVE  PInv'
<1> DEFINE c == hconn[h]
<1>0. PoolTypeOK /\ Holders /\ hpc[h] \in Holding /\ c \in Conns
  BY Held DEF PInv, Close, Drop, Holding
<1>1. PICK p \in {"answered", "failed"} :
         /\ hpc' = [hpc EXCEPT ![h] = p] /\ hconn' = [hconn EXCEPT ![h] = NoConn]
         /\ UNCHANGED <<opened, run, durable>>
         /\ (hpc[h] = "done" /\ p = "answered") \/ (hpc[h] = "raised" /\ p = "failed")
         /\ \/ Len(pool) < MaxIdle /\ pool' = Append(pool, c) /\ wlock' = wlock /\ open' = open
            \/ /\ pool' = pool /\ wlock' = IF wlock = c THEN NoConn ELSE wlock
               /\ open' = [open EXCEPT ![c] = Nothing]
         /\ p = "failed" /\ h \notin Careful => open' = [open EXCEPT ![c] = Nothing]
  <2>1. CASE Close(h)
    <3>1. \/ Len(pool) < MaxIdle /\ pool' = Append(pool, c) /\ wlock' = wlock /\ open' = open
          \/ /\ pool' = pool /\ wlock' = IF wlock = c THEN NoConn ELSE wlock
             /\ open' = [open EXCEPT ![c] = Nothing]
      BY <2>1 DEF Close, Put, Ended
    <3>2. hconn' = [hconn EXCEPT ![h] = NoConn] /\ UNCHANGED <<opened, run, durable>>
      BY <2>1 DEF Close
    <3>3. CASE hpc[h] = "done"
      <4>1. hpc' = [hpc EXCEPT ![h] = "answered"]
        BY <2>1, <3>3 DEF Close, HGo
      <4>. QED
        BY <3>1, <3>2, <3>3, <4>1
    <3>4. CASE hpc[h] = "raised" /\ h \in Careful
      <4>1. hpc' = [hpc EXCEPT ![h] = "failed"]
        BY <2>1, <3>4 DEF Close, HGo
      <4>. QED
        BY <3>1, <3>2, <3>4, <4>1
    <3>. QED
      BY <2>1, <3>3, <3>4 DEF Close
  <2>2. CASE Drop(h)
    BY <2>2 DEF Drop, Ended, HGo
  <2>. QED
    BY <2>1, <2>2
<1>2. /\ Holders' /\ wlock' \in Conns \union {NoConn}
      /\ pool' \in Seq(Conns) /\ Len(pool') <= MaxIdle
  BY <1>0, <1>1, GivesBack
<1>3. Nothing \in [Handlers -> 0..Statements]
  BY PoolAssumption DEF Nothing
<1>4. PoolTypeOK'
  BY <1>0, <1>1, <1>2, <1>3 DEF PoolTypeOK
<1>5. ASSUME NEW g \in Handlers
      PROVE  Books(g)'
  <2>1. /\ \A d \in Conns : open'[d][g] = open[d][g] \/ (d = c /\ open'[d][g] = 0)
        /\ durable'[g] = durable[g] /\ run'[g] = run[g]
        /\ g # h => hconn'[g] = hconn[g] /\ hpc'[g] = hpc[g]
        /\ hpc'[h] = p
    <3>1. \A d \in Conns : open'[d][g] = open[d][g] \/ (d = c /\ open'[d][g] = 0)
      <4>1. CASE open' = open
        BY <4>1
      <4>2. CASE open' = [open EXCEPT ![c] = Nothing]
        BY <1>0, <4>2 DEF PoolTypeOK, Nothing
      <4>. QED
        BY <1>1, <4>1, <4>2
    <3>. QED
      BY <1>0, <1>1, <3>1 DEF PoolTypeOK
  <2>2. /\ \A d \in Conns : open'[d][g] \in Nat /\ open[d][g] \in Nat
        /\ durable[g] \in Nat /\ run[g] \in Nat
    BY <2>1, BookTypes
  <2>3. CASE g # h
    <3>1. hpc[g] \in {"open", "raised"} => hconn[g] \in Conns /\ hconn[g] # c
      BY <1>0, <2>3, Held, PoolAssumption DEF Holding, Holders, OneHolder
    <3>. QED
      BY <2>1, <2>2, <2>3, <3>1, BookTypes DEF Books
  <2>4. CASE g = h
    <3>1. CASE hpc[h] = "done"
      BY <1>1, <2>1, <2>2, <2>4, <3>1, BookTypes DEF Books
    <3>2. CASE hpc[h] = "raised"
      <4>1. p = "failed" /\ durable[h] = 0 /\ open[c][h] = run[h]
        BY <1>1, <3>2, BookTypes DEF Books
      <4>2. \A d \in Conns : d # c => open[d][h] = 0
        BY <1>0, <2>2, <2>4, <4>1, BookTypes DEF Books
      <4>3. h \notin Careful => \A d \in Conns : open'[d][h] = 0
        BY <1>0, <1>1, <4>1, <4>2 DEF PoolTypeOK, Nothing
      <4>. QED
        BY <2>1, <2>2, <2>4, <4>1, <4>2, <4>3, BookTypes DEF Books
    <3>. QED
      BY <1>1, <3>1, <3>2
  <2>. QED
    BY <2>3, <2>4
<1>. QED
  BY <1>2, <1>4, <1>5 DEF PInv
LEMMA StepPInv ==
  ASSUME PInv,
         \/ UNCHANGED cvars
         \/ \E h \in Handlers, place \in {"open", "reading"} : GetConnection(h, place)
         \/ \E h \in Handlers : HandlerStep(h)
  PROVE  PInv'
<1>1. CASE UNCHANGED cvars
  BY <1>1 DEF cvars, PInv, PoolTypeOK, Holders, OneHolder, LockReachable, Started, Books
<1>. QED
  BY <1>1, GetConnectionStep, WriteStep, OtherSteps, CommitStep, EndSteps DEF HandlerStep

-----------------------------------------------------------------------------
(* Cached reads.                                                           *)

Writing == {w \in Writers : wpc[w] # "idle"}

\* What a request that is under way took, it took since it began.
Flights ==
  /\ \A x \in InFlight : began[x] <= now /\ now <= began[x] + Flight
  /\ \A r \in Readers : rpc[r] = "read" =>
       got[r] <= version /\ (got[r] < version => began[r] <= replaced[got[r]])

\* The versions are counted by their writers.
Counted ==
  /\ version = Cardinality(Writing)
  /\ acked <= version
  /\ \A v \in Versions : replaced[v] <= now

\* An entry ends in time, counted from now and from the commit that made it old; an
\* entry older than the last answered change is one of the late ones.
EntryAged ==
  entry # NoEntry =>
    /\ entry.v <= version
    /\ entry.expires <= now + Ttl
    /\ entry.v < version => entry.expires <= replaced[entry.v] + Ttl + Flight
    /\ entry.v < acked => entry.v \in late

DInv ==
  /\ CacheTypeOK
  /\ Flights /\ Counted /\ EntryAged
  /\ \A r \in Readers : floor[r] <= acked
  /\ LagBounded /\ WritesSeen

LEMMA Numbers ==
  /\ Ttl \in Nat /\ Flight \in Nat /\ MaxTime \in Nat
  /\ Cardinality(Writers) \in Nat /\ Versions \subseteq Nat
  /\ Readers \intersect Writers = {}
  /\ \A e \in [v : Versions, expires : 0..(MaxTime + Ttl)] : e # NoEntry
<1>1. Cardinality(Writers) \in Nat /\ Ttl \in Nat /\ Flight \in Nat /\ MaxTime \in Nat
      /\ Readers \intersect Writers = {}
  BY FS_CardinalityType, CacheAssumption
<1>2. Versions \subseteq Nat /\ 0..(MaxTime + Ttl) \subseteq Nat
  BY <1>1 DEF Versions
<1>3. \A e \in [v : Versions, expires : 0..(MaxTime + Ttl)] : e # NoEntry
  BY <1>2, CacheAssumption
<1>. QED
  BY <1>1, <1>2, <1>3

LEMMA InitDInv ==
  ASSUME CacheInit
  PROVE  DInv
<1>1. Writing = {} /\ Cardinality({}) = 0
  BY FS_EmptySet DEF CacheInit, Writing
<1>2. CacheTypeOK
  BY Numbers DEF CacheInit, CacheTypeOK, Versions
<1>3. InFlight = {}
  BY DEF CacheInit, InFlight
<1>. QED
  BY <1>1, <1>2, <1>3, Numbers
     DEF CacheInit, DInv, Flights, Counted, EntryAged, LagBounded, WritesSeen, Versions

\* The numbers of a state, for the steps below.
LEMMA CacheNumbers ==
  ASSUME CacheTypeOK
  PROVE  /\ now \in Nat /\ now <= MaxTime /\ version \in Nat /\ acked \in Nat
         /\ \A v \in Versions : v \in Nat /\ replaced[v] \in Nat /\ replaced[v] <= MaxTime
         /\ \A x \in Readers \union Writers : began[x] \in Nat
         /\ \A r \in Readers : /\ got[r] \in Versions /\ floor[r] \in Versions
                               /\ got[r] \in Nat /\ floor[r] \in Nat /\ lag[r] \in Nat
         /\ entry # NoEntry => /\ entry.v \in Versions /\ entry.v \in Nat
                               /\ entry.expires \in Nat
<1>1. \A v \in Versions : v \in Nat
  BY Numbers
<1>2. now \in Nat /\ now <= MaxTime /\ version \in Nat /\ acked \in Nat
  BY <1>1, Numbers DEF CacheTypeOK
<1>3. \A v \in Versions : replaced[v] \in Nat /\ replaced[v] <= MaxTime
  BY Numbers DEF CacheTypeOK
<1>4. \A x \in Readers \union Writers : began[x] \in Nat
  BY Numbers DEF CacheTypeOK
<1>5. \A r \in Readers : got[r] \in Versions /\ floor[r] \in Versions /\ lag[r] \in Nat
  BY Numbers DEF CacheTypeOK
<1>6. entry # NoEntry => entry.v \in Versions /\ entry.expires \in Nat
  BY Numbers DEF CacheTypeOK
<1>. QED
  BY <1>1, <1>2, <1>3, <1>4, <1>5, <1>6

LEMMA RequestStep ==
  ASSUME DInv, NEW r \in Readers, Request(r)
  PROVE  DInv'
<1>0. CacheTypeOK
  BY DEF DInv
<1>1. /\ rpc[r] = "idle" /\ rpc' = [rpc EXCEPT ![r] = "ask"] /\ began' = [began EXCEPT ![r] = now]
      /\ floor' = [floor EXCEPT ![r] = acked]
      /\ UNCHANGED <<acting, now, version, replaced, entry, got, wpc, acked, lag, late>>
  BY DEF Request
<1>2. CacheTypeOK'
  BY <1>0, <1>1 DEF CacheTypeOK
<1>3. /\ \A q \in Readers : rpc'[q] = (IF q = r THEN "ask" ELSE rpc[q])
      /\ \A x \in Readers \union Writers : began'[x] = (IF x = r THEN now ELSE began[x])
      /\ \A q \in Readers : floor'[q] = (IF q = r THEN acked ELSE floor[q])
  BY <1>0, <1>1 DEF CacheTypeOK
<1>4. InFlight' \subseteq InFlight \union {r} /\ InFlight' \subseteq Readers \union Writers
  BY <1>1, <1>3 DEF InFlight
<1>5. Flights'
  BY <1>0, <1>1, <1>3, <1>4, CacheNumbers, Numbers DEF DInv, Flights
<1>6. Counted' /\ EntryAged' /\ LagBounded'
  BY <1>1 DEF DInv, Counted, Writing, EntryAged, LagBounded
<1>7. WritesSeen' /\ \A q \in Readers : floor'[q] <= acked'
  BY <1>0, <1>1, <1>3, CacheNumbers DEF DInv, WritesSeen
<1>. QED
  BY <1>2, <1>5, <1>6, <1>7 DEF DInv

\* A reader is handed version v: what has to be known of v.
LEMMA HandedOver ==
  ASSUME DInv, NEW r \in Readers, rpc[r] \in {"ask", "read"}, NEW v \in Versions, Served(r, v),
         v <= version, v # version => now <= replaced[v] + Ttl + Flight,
         late \subseteq late', late' \subseteq Versions, v < acked => v \in late',
         UNCHANGED <<acting, now, version, replaced, wpc, acked, floor>>,
         entry' = NoEntry \/ entry' \in [v : Versions, expires : 0..(MaxTime + Ttl)],
         EntryAged'
  PROVE  DInv'
<1>0. CacheTypeOK
  BY DEF DInv
<1>1. /\ got' = [got EXCEPT ![r] = v] /\ rpc' = [rpc EXCEPT ![r] = "served"]
      /\ began' = [began EXCEPT ![r] = 0]
      /\ lag' = [lag EXCEPT ![r] = IF v = version THEN 0 ELSE now - replaced[v]]
  BY DEF Served
<1>2. (IF v = version THEN 0 ELSE now - replaced[v]) \in 0..MaxTime
  BY <1>0, CacheNumbers, Numbers DEF DInv, Counted
<1>3. (IF v = version THEN 0 ELSE now - replaced[v]) <= Ttl + Flight
  BY <1>0, CacheNumbers, Numbers DEF DInv
<1>4. CacheTypeOK'
  BY <1>0, <1>1, <1>2, Numbers DEF CacheTypeOK
<1>5. /\ \A q \in Readers : rpc'[q] = (IF q = r THEN "served" ELSE rpc[q])
      /\ \A q \in Readers : got'[q] = (IF q = r THEN v ELSE got[q])
      /\ \A x \in Readers \union Writers : began'[x] = (IF x = r THEN 0 ELSE began[x])
  BY <1>0, <1>1 DEF CacheTypeOK
<1>6. InFlight' \subseteq InFlight /\ r \notin InFlight' /\ InFlight' \subseteq Readers \union Writers
  BY <1>5, Numbers DEF InFlight
<1>7. Flights'
  BY <1>5, <1>6 DEF DInv, Flights
<1>8. Counted'
  BY DEF DInv, Counted, Writing
<1>9. LagBounded'
  BY <1>0, <1>1, <1>3 DEF DInv, LagBounded, CacheTypeOK
<1>10. WritesSeen'
  <2>1. v < floor[r] => v < acked
    BY <1>0, CacheNumbers, Numbers DEF DInv
  <2>. QED
    BY <1>5, <2>1 DEF DInv, WritesSeen
<1>. QED
  BY <1>4, <1>7, <1>8, <1>9, <1>10 DEF DInv

LEMMA AskStep ==
  ASSUME DInv, NEW r \in Readers, Ask(r)
  PROVE  DInv'
<1>0. CacheTypeOK /\ rpc[r] = "ask" /\ UNCHANGED <<acting, now, version, replaced, wpc, acked, floor, late>>
  BY DEF DInv, Ask
<1>1. CASE entry # NoEntry /\ now <= entry.expires
  <2>1. Served(r, entry.v) /\ entry' = entry
    BY <1>1 DEF Ask
  <2>2. entry.v \in Versions /\ entry.v <= version /\ entry.v \in Nat /\ version \in Nat
    BY <1>0, <1>1, CacheNumbers DEF DInv, EntryAged
  <2>3. entry.v # version => now <= replaced[entry.v] + Ttl + Flight
    BY <1>0, <1>1, <2>2, CacheNumbers, Numbers DEF DInv, EntryAged
  <2>4. entry.v < acked => entry.v \in late
    BY <1>1 DEF DInv, EntryAged
  <2>5. EntryAged'
    BY <1>0, <2>1 DEF DInv, EntryAged
  <2>6. late' \subseteq Versions /\ (entry' = NoEntry \/ entry' \in [v : Versions, expires : 0..(MaxTime + Ttl)])
    BY <1>0, <2>1 DEF CacheTypeOK
  <2>. QED
    BY <1>0, <2>1, <2>2, <2>3, <2>4, <2>5, <2>6, HandedOver
<1>2. CASE ~(entry # NoEntry /\ now <= entry.expires)
  <2>1. /\ entry' = NoEntry /\ rpc' = [rpc EXCEPT ![r] = "miss"] /\ UNCHANGED <<got, lag, began>>
    BY <1>2 DEF Ask
  <2>2. CacheTypeOK'
    BY <1>0, <2>1 DEF CacheTypeOK
  <2>3. \A q \in Readers : rpc'[q] = (IF q = r THEN "miss" ELSE rpc[q])
    BY <1>0, <2>1 DEF CacheTypeOK
  <2>4. InFlight' = InFlight
    BY <1>0, <2>1, <2>3 DEF InFlight
  <2>. QED
    BY <1>0, <2>1, <2>2, <2>3, <2>4
       DEF DInv, Flights, Counted, Writing, EntryAged, LagBounded, WritesSeen
<1>. QED
  BY <1>1, <1>2
LEMMA ReadRowStep ==
  ASSUME DInv, NEW r \in Readers, ReadRow(r)
  PROVE  DInv'
<1>0. CacheTypeOK
  BY DEF DInv
<1>1. /\ rpc[r] = "miss" /\ got' = [got EXCEPT ![r] = version] /\ rpc' = [rpc EXCEPT ![r] = "read"]
      /\ UNCHANGED <<acting, now, version, replaced, entry, began, wpc, acked, floor, lag, late>>
  BY DEF ReadRow
<1>2. CacheTypeOK'
  BY <1>0, <1>1 DEF CacheTypeOK
<1>3. /\ \A q \in Readers : rpc'[q] = (IF q = r THEN "read" ELSE rpc[q])
      /\ \A q \in Readers : got'[q] = (IF q = r THEN version ELSE got[q])
  BY <1>0, <1>1 DEF CacheTypeOK
<1>4. InFlight' = InFlight
  BY <1>1, <1>3 DEF InFlight
<1>5. Flights'
  BY <1>0, <1>1, <1>3, <1>4, CacheNumbers DEF DInv, Flights
<1>6. WritesSeen'
  BY <1>1, <1>3 DEF DInv, WritesSeen
<1>. QED
  BY <1>1, <1>2, <1>5, <1>6 DEF DInv, Counted, Writing, EntryAged, LagBounded

LEMMA StoreStep ==
  ASSUME DInv, NEW r \in Readers, Store(r)
  PROVE  DInv'
<1>0. CacheTypeOK /\ rpc[r] = "read" /\ Served(r, got[r])
      /\ UNCHANGED <<acting, now, version, replaced, wpc, acked, floor>>
  BY DEF DInv, Store
<1>1. /\ entry' = [v |-> got[r], expires |-> now + Ttl]
      /\ late' = IF got[r] < acked THEN late \union {got[r]} ELSE late
  BY DEF Store
<1>2. /\ got[r] \in Versions /\ got[r] \in Nat /\ version \in Nat /\ now \in Nat /\ now <= MaxTime
      /\ began[r] \in Nat /\ replaced[got[r]] \in Nat
  BY <1>0, CacheNumbers
<1>3. r \in InFlight
  BY <1>0 DEF InFlight
<1>4. got[r] <= version /\ (got[r] < version => began[r] <= replaced[got[r]]) /\ now <= began[r] + Flight
  BY <1>0, <1>3 DEF DInv, Flights
<1>5. got[r] # version => now <= replaced[got[r]] + Flight
  <2>1. Flight \in Nat
    BY Numbers
  <2>2. got[r] # version => began[r] <= replaced[got[r]]
    BY <1>2, <1>4
  <2>. QED
    BY <1>2, <1>4, <2>1, <2>2
<1>6. entry' \in [v : Versions, expires : 0..(MaxTime + Ttl)]
  BY <1>1, <1>2, Numbers
<1>7. entry'.v = got[r] /\ entry'.expires = now + Ttl
  BY <1>1
<1>8. late \subseteq late' /\ late' \subseteq Versions /\ (got[r] < acked => got[r] \in late')
  BY <1>0, <1>1, <1>2 DEF CacheTypeOK
<1>9. EntryAged'
  BY <1>0, <1>2, <1>4, <1>5, <1>7, <1>8, Numbers DEF EntryAged
<1>10. got[r] # version => now <= replaced[got[r]] + Ttl + Flight
  BY <1>2, <1>5, Numbers
<1>. QED
  BY <1>0, <1>2, <1>4, <1>6, <1>8, <1>9, <1>10, HandedOver

LEMMA ChangeStep ==
  ASSUME DInv, NEW w \in Writers, Change(w)
  PROVE  DInv'
<1>0. CacheTypeOK /\ Counted /\ Flights /\ EntryAged
  BY DEF DInv
<1>1. /\ wpc[w] = "idle" /\ version' = version + 1 /\ replaced' = [replaced EXCEPT ![version] = now]
      /\ wpc' = [wpc EXCEPT ![w] = "committed"] /\ began' = [began EXCEPT ![w] = now]
      /\ UNCHANGED <<acting, now, entry, rpc, got, acked, floor, lag, late>>
  BY DEF Change
<1>2. Writing' = Writing \union {w} /\ w \notin Writing /\ Writing' \in SUBSET Writers /\ Writing \in SUBSET Writers
  BY <1>0, <1>1 DEF Writing, CacheTypeOK
<1>3. version' = Cardinality(Writing') /\ version' <= Cardinality(Writers)
  <2>1. IsFiniteSet(Writing) /\ IsFiniteSet(Writing')
    BY <1>2, FS_Subset, CacheAssumption
  <2>2. Cardinality(Writing') = Cardinality(Writing) + 1
    BY <1>2, <2>1, FS_AddElement
  <2>3. Cardinality(Writing') <= Cardinality(Writers)
    BY <1>2, FS_Subset, CacheAssumption
  <2>. QED
    BY <1>0, <1>1, <2>2, <2>3 DEF Counted
<1>4. version \in Versions /\ version \in Nat /\ version' \in Versions /\ now \in 0..MaxTime /\ now \in Nat
  <2>1. version \in Versions /\ version \in Nat /\ now \in 0..MaxTime /\ now \in Nat
    BY <1>0, CacheNumbers DEF CacheTypeOK
  <2>. QED
    BY <1>1, <1>3, <2>1, Numbers DEF Versions
<1>5. CacheTypeOK'
  BY <1>0, <1>1, <1>4 DEF CacheTypeOK
<1>6. \A v \in Versions : replaced'[v] = IF v = version THEN now ELSE replaced[v]
  BY <1>0, <1>1 DEF CacheTypeOK
<1>7. \A x \in Readers \union Writers : began'[x] = IF x = w THEN now ELSE began[x]
  BY <1>0, <1>1 DEF CacheTypeOK
<1>8. InFlight' \subseteq InFlight \union {w} /\ InFlight \subseteq Readers \union Writers
  BY <1>0, <1>1 DEF InFlight, CacheTypeOK
<1>9. Flights'
  <2>1. \A x \in InFlight' : began'[x] <= now' /\ now' <= began'[x] + Flight
    BY <1>0, <1>1, <1>4, <1>7, <1>8, Numbers DEF Flights
  <2>2. ASSUME NEW r \in Readers, rpc'[r] = "read"
        PROVE  got'[r] <= version' /\ (got'[r] < version' => began'[r] <= replaced'[got'[r]])
    <3>1. r \in InFlight /\ r # w /\ rpc[r] = "read"
      BY <1>1, <2>2, Numbers DEF InFlight
    <3>2. /\ got[r] <= version /\ (got[r] < version => began[r] <= replaced[got[r]])
          /\ began[r] <= now /\ got[r] \in Versions /\ got[r] \in Nat
      BY <1>0, <3>1, CacheNumbers DEF Flights
    <3>3. began'[r] = began[r] /\ got'[r] = got[r]
      BY <1>1, <1>7, <3>1
    <3>. QED
      BY <1>1, <1>4, <1>6, <3>2, <3>3
  <2>. QED
    BY <2>1, <2>2 DEF Flights
<1>10. Counted'
  BY <1>0, <1>1, <1>3, <1>4, <1>6, CacheNumbers DEF Counted
<1>11. EntryAged'
  <2>1. ASSUME entry # NoEntry
        PROVE  /\ entry.v <= version' /\ entry.expires <= now + Ttl
               /\ entry.v < version' => entry.expires <= replaced'[entry.v] + Ttl + Flight
               /\ entry.v < acked => entry.v \in late
    <3>1. /\ entry.v \in Versions /\ entry.v \in Nat /\ entry.expires \in Nat /\ entry.v <= version
          /\ entry.expires <= now + Ttl
          /\ entry.v < version => entry.expires <= replaced[entry.v] + Ttl + Flight
          /\ entry.v < acked => entry.v \in late
      BY <1>0, <2>1, CacheNumbers DEF EntryAged
    <3>2. entry.v < version' => entry.expires <= replaced'[entry.v] + Ttl + Flight
      BY <1>1, <1>4, <1>6, <3>1, Numbers
    <3>. QED
      BY <1>1, <1>4, <3>1, <3>2
  <2>. QED
    BY <1>1, <2>1 DEF EntryAged
<1>. QED
  BY <1>1, <1>5, <1>9, <1>10, <1>11 DEF DInv, LagBounded, WritesSeen

LEMMA WithdrawStep ==
  ASSUME DInv, NEW w \in Writers, Withdraw(w)
  PROVE  DInv'
<1>0. CacheTypeOK
  BY DEF DInv
<1>1. /\ wpc[w] = "committed" /\ wpc' = [wpc EXCEPT ![w] = "answered"] /\ began' = [began EXCEPT ![w] = 0]
      /\ (entry' = NoEntry /\ acked' = version) \/ (entry' = entry /\ acked' = acked)
      /\ UNCHANGED <<acting, now, version, replaced, rpc, got, floor, lag, late>>
  BY DEF Withdraw
<1>2. CacheTypeOK'
  BY <1>0, <1>1, Numbers DEF CacheTypeOK
<1>3. \A x \in Readers \union Writers : began'[x] = IF x = w THEN 0 ELSE began[x]
  BY <1>0, <1>1 DEF CacheTypeOK
<1>4. InFlight' \subseteq InFlight /\ w \notin InFlight' /\ InFlight \subseteq Readers \union Writers
  BY <1>0, <1>1, Numbers DEF InFlight, CacheTypeOK
<1>5. Flights'
  <2>1. \A r \in Readers : r # w
    BY Numbers
  <2>. QED
    BY <1>1, <1>3, <1>4, <2>1 DEF DInv, Flights
<1>6. Writing' = Writing
  BY <1>0, <1>1 DEF Writing, CacheTypeOK
<1>7. acked <= acked' /\ acked' <= version /\ acked' \in Nat
  BY <1>0, <1>1, CacheNumbers DEF DInv, Counted
<1>8. Counted'
  BY <1>1, <1>6, <1>7 DEF DInv, Counted
<1>9. EntryAged'
  BY <1>1 DEF DInv, EntryAged
<1>10. \A r \in Readers : floor'[r] <= acked'
  BY <1>0, <1>1, <1>7, CacheNumbers DEF DInv
<1>. QED
  BY <1>1, <1>2, <1>5, <1>8, <1>9, <1>10 DEF DInv, LagBounded, WritesSeen

LEMMA PrunedAndTick ==
  ASSUME DInv, Pruned \/ Tick
  PROVE  DInv'
<1>0. CacheTypeOK
  BY DEF DInv
<1>1. CASE Pruned
  BY <1>0, <1>1 DEF Pruned, DInv, CacheTypeOK, Flights, InFlight, Counted, Writing, EntryAged, LagBounded, WritesSeen
<1>2. CASE Tick
  <2>1. /\ now' = now + 1 /\ now < MaxTime
        /\ \A x \in InFlight : now < began[x] + Flight
        /\ UNCHANGED <<acting, version, replaced, entry, rpc, got, began, wpc, acked, floor, lag, late>>
    BY <1>2 DEF Tick
  <2>2. CacheTypeOK'
    BY <1>0, <2>1, Numbers DEF CacheTypeOK
  <2>3. InFlight' = InFlight /\ InFlight \subseteq Readers \union Writers
    BY <2>1 DEF InFlight
  <2>4. Flights'
    BY <1>0, <2>1, <2>3, CacheNumbers, Numbers DEF DInv, Flights
  <2>5. Counted'
    BY <1>0, <2>1, CacheNumbers DEF DInv, Counted, Writing
  <2>6. EntryAged'
    BY <1>0, <2>1, CacheNumbers, Numbers DEF DInv, EntryAged
  <2>. QED
    BY <2>1, <2>2, <2>4, <2>5, <2>6 DEF DInv, LagBounded, WritesSeen
<1>. QED
  BY <1>1, <1>2

LEMMA StepDInv ==
  ASSUME DInv,
         \/ UNCHANGED dvars
         \/ \E r \in Readers : ReaderStep(r)
         \/ \E w \in Writers : WriterStep(w)
         \/ Pruned \/ Tick
  PROVE  DInv'
<1>1. CASE UNCHANGED dvars
  BY <1>1 DEF dvars, DInv, CacheTypeOK, Flights, InFlight, Counted, Writing, EntryAged, LagBounded, WritesSeen
<1>. QED
  BY <1>1, RequestStep, AskStep, ReadRowStep, StoreStep, ChangeStep, WithdrawStep, PrunedAndTick
     DEF ReaderStep, WriterStep
-----------------------------------------------------------------------------
(* Folders.                                                                *)

\* A folder below one that a deletion has looked below was found by it, or came later.
Collected ==
  \A u \in Members : deletion[u] # None =>
    \A p \in deletion[u].ids \ deletion[u].ask, f \in FolderIds :
      folders[f] # None /\ folders[f].parent = p => f \in deletion[u].ids \union chance

TInv == TreeTypeOK /\ OrphansExplained /\ Collected

\* No row and no deletion is None, and None is no identifier.
LEMMA Sentinel ==
  /\ \A x \in FolderRow \union SavedRow \union Deletion : x # None
  /\ None \notin FolderIds /\ None \notin RequestIds
  /\ MaxFolders \in Nat /\ MaxRequests \in Nat /\ MaxDeletions \in Nat
  BY NoneAssumption, TreeAssumption DEF FolderIds, RequestIds

LEMMA InitTInv ==
  ASSUME TreeInit
  PROVE  TInv
  BY Sentinel DEF TreeInit, TInv, TreeTypeOK, OrphansExplained, Collected, Ids

\* The rows a state may hold.
LEMMA TreeRows ==
  ASSUME TreeTypeOK
  PROVE  /\ \A f \in FolderIds : folders[f] # None => folders[f] \in FolderRow
         /\ \A r \in RequestIds : saved[r] # None => saved[r] \in SavedRow
         /\ \A u \in Members : deletion[u] # None => deletion[u] \in Deletion
         /\ used.folders \in Nat /\ used.saved \in Nat /\ used.deletions \in Nat
         /\ DOMAIN folders = FolderIds /\ DOMAIN saved = RequestIds
  BY Sentinel DEF TreeTypeOK

LEMMA CreateFolderStep ==
  ASSUME TInv, NEW u \in Members, NEW f \in FolderIds, NEW parent \in FolderIds \union {None},
         NEW team \in BOOLEAN, CreateFolder(u, f, parent, team)
  PROVE  TInv'
<1> DEFINE r == [parent |-> parent, author |-> u, team |-> team]
<1>0. TreeTypeOK /\ UNCHANGED <<saved, deletion>>
  BY DEF TInv, CreateFolder
<1>1. r \in FolderRow /\ r # None /\ r.parent = parent
  BY Sentinel DEF FolderRow
<1>2. folders' = [folders EXCEPT ![f] = r] /\ used' = [used EXCEPT !.folders = f]
  BY DEF CreateFolder
<1> HIDE DEF r
<1>3. /\ chance \subseteq chance' /\ chance' \subseteq chance \union {f}
      /\ parent # None /\ ~Exists(parent) => f \in chance'
      /\ (\E v \in Members : deletion[v] # None) => f \in chance'
  BY DEF CreateFolder
<1>4. f \in 0..MaxFolders
  BY Sentinel DEF FolderIds
<1>5. TreeTypeOK'
  BY <1>0, <1>1, <1>2, <1>3, <1>4 DEF TreeTypeOK
<1>6. \A x \in FolderIds : folders'[x] = IF x = f THEN r ELSE folders[x]
  BY <1>0, <1>2, TreeRows DEF TreeTypeOK
<1>7. OrphansExplained'
  <2>1. ASSUME NEW x \in FolderIds, folders'[x] # None, folders'[x].parent # None,
               folders'[folders'[x].parent] = None
        PROVE  x \in chance'
    <3>1. CASE x = f
      <4>1. parent # None /\ parent \in FolderIds /\ folders'[parent] = None
        BY <1>1, <1>6, <2>1, <3>1
      <4>2. ~Exists(parent)
        BY <1>1, <1>6, <4>1 DEF Exists
      <4>. QED
        BY <1>3, <3>1, <4>1, <4>2
    <3>2. CASE x # f
      <4>1. folders[x] # None /\ folders[x].parent # None /\ folders[x].parent \in FolderIds
        BY <1>0, <1>6, <2>1, <3>2, TreeRows DEF FolderRow
      <4>2. ~Exists(folders[x].parent)
        BY <1>1, <1>6, <2>1, <3>2, <4>1 DEF Exists
      <4>. QED
        BY <1>0, <1>3, <4>1, <4>2, TreeRows DEF TInv, OrphansExplained, Ids
    <3>. QED
      BY <3>1, <3>2
  <2>2. DOMAIN folders' = FolderIds
    BY <1>5 DEF TreeTypeOK
  <2>. QED
    BY <2>1, <2>2 DEF OrphansExplained, Ids, Exists
<1>8. Collected'
  BY <1>0, <1>3, <1>6 DEF TInv, Collected
<1>. QED
  BY <1>5, <1>7, <1>8 DEF TInv

LEMMA RequestSteps ==
  ASSUME TInv, NEW u \in Members, NEW r \in RequestIds,
         \/ \E folder \in FolderIds \union {None}, team \in BOOLEAN : CreateRequest(u, r, folder, team)
         \/ \E folder \in FolderIds : MoveRequest(u, r, folder)
         \/ DeleteRequest(u, r)
  PROVE  TInv'
<1>0. TreeTypeOK /\ UNCHANGED <<folders, deletion, chance>>
  BY DEF TInv, CreateRequest, MoveRequest, DeleteRequest
<1>1. TreeTypeOK'
  <2>1. ASSUME NEW folder \in FolderIds \union {None}, NEW team \in BOOLEAN, CreateRequest(u, r, folder, team)
        PROVE  TreeTypeOK'
    <3>1. Exists(folder) => folders[folder].team \in BOOLEAN
      BY <1>0, TreeRows DEF Exists, FolderRow
    <3>2. (team \/ (Exists(folder) /\ folders[folder].team)) \in BOOLEAN
      OBVIOUS
    <3>3. [folder |-> folder, author |-> u, team |-> team \/ (Exists(folder) /\ folders[folder].team)] \in SavedRow
      BY <3>2 DEF SavedRow
    <3>4. r \in 0..MaxRequests
      BY Sentinel DEF RequestIds
    <3>5. saved' \in [RequestIds -> SavedRow \union {None}]
      BY <1>0, <2>1, <3>3 DEF CreateRequest, TreeTypeOK
    <3>6. used' = [used EXCEPT !.saved = r]
      BY <2>1 DEF CreateRequest
    <3>. QED
      BY <1>0, <3>4, <3>5, <3>6 DEF TreeTypeOK
  <2>2. ASSUME NEW folder \in FolderIds, MoveRequest(u, r, folder)
        PROVE  TreeTypeOK'
    <3>1. saved[r] \in SavedRow
      BY <1>0, <2>2, TreeRows DEF MoveRequest
    <3>2. [saved[r] EXCEPT !.folder = folder] \in SavedRow
      BY <3>1 DEF SavedRow
    <3>. QED
      BY <1>0, <2>2, <3>2 DEF MoveRequest, TreeTypeOK
  <2>3. CASE DeleteRequest(u, r)
    BY <1>0, <2>3 DEF DeleteRequest, TreeTypeOK
  <2>. QED
    BY <2>1, <2>2, <2>3
<1>. QED
  BY <1>0, <1>1 DEF TInv, OrphansExplained, Collected, Ids, Exists

LEMMA DeletionSteps ==
  ASSUME TInv, NEW u \in Members, NEW f \in FolderIds, DeleteFolder(u, f) \/ Collect(u, f)
  PROVE  TInv'
<1>0. TreeTypeOK /\ UNCHANGED <<folders, saved, chance>>
  BY DEF TInv, DeleteFolder, Collect
<1>1. OrphansExplained'
  BY <1>0 DEF TInv, OrphansExplained, Ids, Exists
<1>2. CASE DeleteFolder(u, f)
  <2> DEFINE d == [ask |-> {f}, ids |-> {f}]
  <2>1. d \in Deletion /\ d.ask = {f} /\ d.ids = {f} /\ deletion' = [deletion EXCEPT ![u] = d]
    BY <1>2 DEF DeleteFolder, Deletion
  <2> HIDE DEF d
  <2>2. used' = [used EXCEPT !.deletions = used.deletions + 1] /\ used.deletions + 1 \in 0..MaxDeletions
    BY <1>0, <1>2, TreeRows, Sentinel DEF DeleteFolder
  <2>3. \A v \in Members : deletion'[v] = IF v = u THEN d ELSE deletion[v]
    BY <1>0, <2>1 DEF TreeTypeOK
  <2>4. used' \in [folders : 0..MaxFolders, saved : 0..MaxRequests, deletions : 0..MaxDeletions]
    BY <1>0, <2>2 DEF TreeTypeOK
  <2>5. TreeTypeOK'
    BY <1>0, <2>1, <2>3, <2>4 DEF TreeTypeOK
  <2>6. Collected'
    BY <1>0, <2>1, <2>3 DEF TInv, Collected
  <2>. QED
    BY <1>1, <2>5, <2>6 DEF TInv
<1>3. CASE Collect(u, f)
  <2> DEFINE children == {x \in Ids(folders) : folders[x].parent = f}
             d == [ask |-> (deletion[u].ask \ {f}) \union children, ids |-> deletion[u].ids \union children]
  <2>0. deletion[u] # None /\ deletion[u] \in Deletion /\ deletion[u].ask \subseteq deletion[u].ids
    BY <1>0, <1>3, TreeRows DEF Collect, TreeTypeOK
  <2>1. deletion' = [deletion EXCEPT ![u] = d] /\ used' = used
    BY <1>3 DEF Collect
  <2>2. children \subseteq FolderIds
    BY <1>0, TreeRows DEF Ids
  <2>3. /\ d \in Deletion
        /\ d.ask = (deletion[u].ask \ {f}) \union children /\ d.ids = deletion[u].ids \union children
    BY <2>0, <2>2 DEF Deletion
  <2>4. \A x \in FolderIds : folders[x] # None /\ folders[x].parent = f => x \in children
    BY <1>0, TreeRows DEF Ids
  <2> HIDE DEF d, children
  <2>5. \A v \in Members : deletion'[v] = IF v = u THEN d ELSE deletion[v]
    BY <1>0, <2>1 DEF TreeTypeOK
  <2>6. d.ask \subseteq d.ids
    BY <2>0, <2>3
  <2>7. TreeTypeOK'
    BY <1>0, <2>1, <2>3, <2>5, <2>6 DEF TreeTypeOK
  <2>8. ASSUME NEW p \in d.ids \ d.ask, NEW x \in FolderIds, folders[x] # None, folders[x].parent = p
        PROVE  x \in d.ids \union chance
    <3>1. CASE p = f
      BY <2>3, <2>4, <2>8, <3>1
    <3>2. CASE p # f
      <4>1. p \in deletion[u].ids \ deletion[u].ask
        BY <2>3, <2>8, <3>2
      <4>. QED
        BY <2>0, <2>3, <2>8, <4>1 DEF TInv, Collected
    <3>. QED
      BY <3>1, <3>2
  <2>9. Collected'
    BY <1>0, <2>5, <2>8 DEF TInv, Collected
  <2>. QED
    BY <1>1, <2>7, <2>9 DEF TInv
<1>. QED
  BY <1>2, <1>3

LEMMA EraseStep ==
  ASSUME TInv, NEW u \in Members, EraseCollected(u)
  PROVE  TInv'
<1> DEFINE ids == deletion[u].ids
           stay == {x \in Ids(folders) :
                      /\ folders[x].parent \in ids
                      /\ folders[x].author # u /\ Deletes(u, folders[folders[x].parent])}
<1>0. TreeTypeOK /\ deletion[u] # None /\ deletion[u].ask = {} /\ used' = used
  BY DEF TInv, EraseCollected
<1>1. /\ saved' = [r \in RequestIds |->
                     IF saved[r] # None /\ saved[r].folder \in ids /\ Deletes(u, saved[r])
                     THEN None ELSE saved[r]]
      /\ folders' = [f \in FolderIds |-> IF f \in ids /\ Deletes(u, folders[f]) THEN None ELSE folders[f]]
      /\ chance' = chance \union stay
      /\ deletion' = [deletion EXCEPT ![u] = None]
  BY DEF EraseCollected
<1>2. stay \subseteq FolderIds
  BY <1>0, TreeRows DEF Ids
<1>3. \A x \in FolderIds : folders[x] # None /\ folders[x].parent \in ids /\ folders[x].author # u
                           /\ Deletes(u, folders[folders[x].parent]) => x \in stay
  BY <1>0, TreeRows DEF Ids
<1> HIDE DEF ids, stay
<1>4. TreeTypeOK'
  <2>1. /\ saved' \in [RequestIds -> SavedRow \union {None}]
        /\ folders' \in [FolderIds -> FolderRow \union {None}]
    BY <1>0, <1>1 DEF TreeTypeOK
  <2>2. deletion' \in [Members -> Deletion \union {None}] /\ chance' \subseteq FolderIds
    BY <1>0, <1>1, <1>2 DEF TreeTypeOK
  <2>3. \A v \in Members : deletion'[v] # None => deletion'[v] = deletion[v]
    BY <1>0, <1>1 DEF TreeTypeOK
  <2>. QED
    BY <1>0, <2>1, <2>2, <2>3 DEF TreeTypeOK
<1>5. OrphansExplained'
  <2>1. ASSUME NEW x \in FolderIds, folders'[x] # None, folders'[x].parent # None,
               folders'[folders'[x].parent] = None
        PROVE  x \in chance'
    <3>1. folders'[x] = folders[x] /\ ~(x \in ids /\ Deletes(u, folders[x]))
      BY <1>1, <2>1
    <3>2. PICK p \in FolderIds : p = folders[x].parent
      BY <1>0, <2>1, <3>1, TreeRows DEF FolderRow
    <3>3. CASE folders[p] = None
      <4>1. x \in Ids(folders) /\ ~Exists(folders[x].parent)
        BY <1>0, <2>1, <3>1, <3>2, <3>3, TreeRows DEF Ids, Exists
      <4>. QED
        BY <1>1, <2>1, <3>1, <4>1 DEF TInv, OrphansExplained
    <3>4. CASE folders[p] # None
      <4>1. p \in ids /\ Deletes(u, folders[p])
        BY <1>1, <2>1, <3>1, <3>2, <3>4
      <4>2. x \in ids \union chance
        BY <1>0, <2>1, <3>1, <3>2, <4>1 DEF TInv, Collected, ids
      <4>3. x \in ids => folders[x].author # u
        BY <2>1, <3>1 DEF Deletes
      <4>. QED
        BY <1>1, <1>3, <2>1, <3>1, <3>2, <4>1, <4>2, <4>3
    <3>. QED
      BY <3>3, <3>4
  <2>2. DOMAIN folders' = FolderIds
    BY <1>4 DEF TreeTypeOK
  <2>. QED
    BY <2>1, <2>2 DEF OrphansExplained, Ids, Exists
<1>6. Collected'
  <2>1. \A v \in Members : deletion'[v] # None => deletion'[v] = deletion[v] /\ deletion[v] # None
    BY <1>0, <1>1 DEF TreeTypeOK
  <2>2. \A f \in FolderIds : folders'[f] # None => folders'[f] = folders[f]
    BY <1>1
  <2>. QED
    BY <1>1, <2>1, <2>2 DEF TInv, Collected
<1>. QED
  BY <1>4, <1>5, <1>6 DEF TInv

LEMMA StepTInv ==
  ASSUME TInv, UNCHANGED fvars \/ \E u \in Members : TreeStep(u)
  PROVE  TInv'
<1>1. CASE UNCHANGED fvars
  BY <1>1 DEF fvars, TInv, TreeTypeOK, OrphansExplained, Collected, Ids, Exists
<1>. QED
  BY <1>1, CreateFolderStep, RequestSteps, DeletionSteps, EraseStep DEF TreeStep
\* Only the DELETE statements end a deletion, and they take rows of its user.
LEMMA DeletionEnds ==
  ASSUME TInv, UNCHANGED fvars \/ \E v \in Members : TreeStep(v),
         NEW u \in Members, deletion[u] # None, deletion'[u] = None
  PROVE  /\ \A f \in FolderIds : folders'[f] # folders[f] =>
              folders[f].author = u /\ f \in deletion[u].ids
         /\ \A r \in RequestIds : saved'[r] # saved[r] =>
              saved[r].author = u /\ saved[r].folder \in deletion[u].ids
<1>0. TreeTypeOK
  BY DEF TInv
<1>2. ASSUME NEW v \in Members, NEW f \in FolderIds, DeleteFolder(v, f) \/ Collect(v, f)
      PROVE  FALSE
  <2>1. \E d \in Deletion : deletion' = [deletion EXCEPT ![v] = d]
    <3>1. CASE DeleteFolder(v, f)
      <4>1. [ask |-> {f}, ids |-> {f}] \in Deletion
        BY DEF Deletion
      <4>. QED
        BY <3>1, <4>1 DEF DeleteFolder
    <3>2. CASE Collect(v, f)
      <4> DEFINE children == {x \in Ids(folders) : folders[x].parent = f}
      <4>1. children \subseteq FolderIds /\ deletion[v] \in Deletion
        BY <1>0, <3>2, TreeRows DEF Ids, Collect
      <4>2. [ask |-> (deletion[v].ask \ {f}) \union children, ids |-> deletion[v].ids \union children] \in Deletion
        BY <4>1 DEF Deletion
      <4>. QED
        BY <3>2, <4>2 DEF Collect
    <3>. QED
      BY <1>2, <3>1, <3>2
  <2>. QED
    BY <1>0, <2>1, Sentinel DEF TreeTypeOK
<1>3. ASSUME NEW v \in Members, EraseCollected(v)
      PROVE  v = u /\ saved' = [r \in RequestIds |->
                     IF saved[r] # None /\ saved[r].folder \in deletion[u].ids /\ Deletes(u, saved[r])
                     THEN None ELSE saved[r]]
             /\ folders' = [f \in FolderIds |->
                     IF f \in deletion[u].ids /\ Deletes(u, folders[f]) THEN None ELSE folders[f]]
  <2>1. v = u
    BY <1>0, <1>3 DEF EraseCollected, TreeTypeOK
  <2>. QED
    BY <1>3, <2>1 DEF EraseCollected
<1>4. ASSUME NEW v \in Members, EraseCollected(v)
      PROVE  /\ \A f \in FolderIds : folders'[f] # folders[f] =>
                  folders[f].author = u /\ f \in deletion[u].ids
             /\ \A r \in RequestIds : saved'[r] # saved[r] =>
                  saved[r].author = u /\ saved[r].folder \in deletion[u].ids
  BY <1>3, <1>4 DEF Deletes
<1>5. deletion' # deletion
  OBVIOUS
<1>. QED
  BY <1>2, <1>4, <1>5 DEF TreeStep, fvars, CreateFolder, CreateRequest, MoveRequest, DeleteRequest

-----------------------------------------------------------------------------
(* The three together.                                                     *)

LEMMA PartSteps ==
  [WorkspaceNext]_wvars =>
    /\ \/ UNCHANGED cvars
       \/ \E h \in Handlers, place \in {"open", "reading"} : GetConnection(h, place)
       \/ \E h \in Handlers : HandlerStep(h)
    /\ \/ UNCHANGED dvars
       \/ \E r \in Readers : ReaderStep(r)
       \/ \E w \in Writers : WriterStep(w)
       \/ Pruned \/ Tick
    /\ UNCHANGED fvars \/ \E u \in Members : TreeStep(u)
    /\ part' = part
  BY DEF WorkspaceNext, wvars, Pool, Cache, Tree

LEMMA Invariance == WorkspaceSpec => [](PInv /\ DInv /\ TInv /\ part \in Parts)
<1>1. WorkspaceInit => PInv /\ DInv /\ TInv /\ part \in Parts
  BY InitPInv, InitDInv, InitTInv DEF WorkspaceInit
<1>2. PInv /\ DInv /\ TInv /\ part \in Parts /\ [WorkspaceNext]_wvars
        => (PInv /\ DInv /\ TInv /\ part \in Parts)'
  BY PartSteps, StepPInv, StepDInv, StepTInv
<1>. QED
  BY <1>1, <1>2, PTL DEF WorkspaceSpec

\* Connections, cache and rows keep their types, the bounds of the pool among them.
THEOREM TypeCorrect == WorkspaceSpec => []WorkspaceTypeOK
<1>1. PInv /\ DInv /\ TInv /\ part \in Parts => WorkspaceTypeOK
  BY DEF PInv, DInv, TInv, WorkspaceTypeOK
<1>. QED
  BY <1>1, Invariance, PTL

\* However handlers end, no connection has two holders.
THEOREM ConnectionsHaveOneHolder == WorkspaceSpec => []OneHolder
<1>1. PInv => OneHolder
  BY DEF PInv, Holders
<1>. QED
  BY <1>1, Invariance, PTL

\* An answer is for work that is durable, all of it.
THEOREM AnswersAreDurable == WorkspaceSpec => []AnsweredIsDurable
<1>1. PInv => AnsweredIsDurable
  BY DEF PInv, Books, AnsweredIsDurable
<1>. QED
  BY <1>1, Invariance, PTL

\* A handler that does not close in a finally clause leaves all its work or nothing.
THEOREM WorkIsWhole == WorkspaceSpec => []AllOrNothing
<1>1. ASSUME PInv, NEW h \in Handlers \ Careful
      PROVE  durable[h] \in {0, Statements}
  <2>1. Books(h) /\ durable[h] \in Nat /\ PoolTypeOK
    BY <1>1, BookTypes DEF PInv
  <2>2. CASE hpc[h] \in {"idle", "reading"}
    <3>1. Cardinality(Handlers) # 0
      BY <1>1, FS_EmptySet, PoolAssumption
    <3>2. 1 \in Conns
      BY <3>1, HandlersFinite DEF Conns
    <3>3. open[1][h] \in Nat
      BY <1>1, <3>2, BookTypes
    <3>. QED
      BY <2>1, <2>2, <3>2, <3>3 DEF Books
  <2>3. CASE hpc[h] \notin {"idle", "reading"}
    BY <1>1, <2>1, <2>3 DEF Books, PoolTypeOK
  <2>. QED
    BY <2>2, <2>3
<1>2. PInv => AllOrNothing
  BY <1>1 DEF AllOrNothing
<1>. QED
  BY <1>2, Invariance, PTL

\* The write lock is never with a connection that nobody can reach.
THEOREM LockStaysReachable == WorkspaceSpec => []LockReachable
<1>1. PInv => LockReachable
  BY DEF PInv, Holders
<1>. QED
  BY <1>1, Invariance, PTL

\* No answer is older than an entry lives and the handler that stored it took.
THEOREM AnswersAge == WorkspaceSpec => []LagBounded
<1>1. DInv => LagBounded
  BY DEF DInv
<1>. QED
  BY <1>1, Invariance, PTL

\* An answer older than an answered change is one that was stored late.
THEOREM ChangesSeen == WorkspaceSpec => []WritesSeen
<1>1. DInv => WritesSeen
  BY DEF DInv
<1>. QED
  BY <1>1, Invariance, PTL

\* A folder without its parent has a reason.
THEOREM OrphansHaveReasons == WorkspaceSpec => []OrphansExplained
<1>1. TInv => OrphansExplained
  BY DEF TInv
<1>. QED
  BY <1>1, Invariance, PTL

\* A deletion takes rows of its user only, in the folders it collected.
THEOREM DeletionsKeepToThemselves == WorkspaceSpec => DeletionKeepsToItself
<1>1. TInv /\ [WorkspaceNext]_wvars =>
        [\A u \in Members : deletion[u] # None /\ deletion'[u] = None =>
           /\ \A f \in FolderIds : folders'[f] # folders[f] =>
                folders[f].author = u /\ f \in deletion[u].ids
           /\ \A r \in RequestIds : saved'[r] # saved[r] =>
                saved[r].author = u /\ saved[r].folder \in deletion[u].ids]_fvars
  BY PartSteps, DeletionEnds
<1>. QED
  BY <1>1, Invariance, PTL DEF WorkspaceSpec, DeletionKeepsToItself

\* What a handler answers is durable and whole, and connections and lock have their holders, for any
\* handlers and any size of the pool.
THEOREM PoolStaysSound == WorkspaceSpec => []PoolSound
<1>1. PInv => PoolTypeOK
  BY DEF PInv
<1>. QED
  BY <1>1, Invariance, ConnectionsHaveOneHolder, AnswersAreDurable, WorkIsWhole, LockStaysReachable, PTL
     DEF PoolSound

\* What is read through a cache is as old as the code allows and no older, for any readers, writers
\* and lifetimes.
THEOREM ReadsStaySound == WorkspaceSpec => []ReadsSound
<1>1. DInv => CacheTypeOK
  BY DEF DInv
<1>. QED
  BY <1>1, Invariance, AnswersAge, ChangesSeen, PTL DEF ReadsSound
-----------------------------------------------------------------------------
(* What a tree shows.                                                       *)

\* A parent is older than its folder.
Rooted ==
  \A f \in FolderIds :
    folders[f] # None => f <= used.folders /\ (folders[f].parent # None => folders[f].parent < f)

LEMMA StepRooted ==
  ASSUME TInv, Rooted, UNCHANGED fvars \/ \E v \in Members : TreeStep(v)
  PROVE  Rooted'
<1>0. TreeTypeOK /\ used.folders \in Nat
  BY TreeRows DEF TInv
<1>1. CASE UNCHANGED fvars
  BY <1>1 DEF Rooted, fvars
<1>2. ASSUME NEW v \in Members, NEW f \in FolderIds, NEW parent \in FolderIds \union {None},
             NEW team \in BOOLEAN, CreateFolder(v, f, parent, team)
      PROVE  Rooted'
  <2> DEFINE r == [parent |-> parent, author |-> v, team |-> team]
  <2>1. r.parent = parent
    OBVIOUS
  <2>2. /\ f = used.folders + 1 /\ (parent = None \/ parent \in 1..used.folders)
        /\ folders' = [folders EXCEPT ![f] = r] /\ used' = [used EXCEPT !.folders = f]
    BY <1>2 DEF CreateFolder, Given
  <2> HIDE DEF r
  <2>3. used'.folders = f /\ \A x \in FolderIds : folders'[x] = IF x = f THEN r ELSE folders[x]
    BY <1>0, <2>2 DEF TreeTypeOK
  <2>4. ASSUME NEW x \in FolderIds, folders'[x] # None
        PROVE  x <= f /\ (folders'[x].parent # None => folders'[x].parent < x)
    <3>1. CASE x = f
      BY <1>0, <2>1, <2>2, <2>3, <3>1, Sentinel DEF FolderIds
    <3>2. CASE x # f
      <4>1. folders'[x] = folders[x] /\ folders[x] # None
        BY <2>3, <2>4, <3>2
      <4>. QED
        BY <1>0, <2>2, <4>1, Sentinel DEF Rooted, FolderIds
    <3>. QED
      BY <3>1, <3>2
  <2>. QED
    BY <2>3, <2>4 DEF Rooted
<1>3. ASSUME NEW v \in Members,
             \/ \E r \in RequestIds :
                  \/ \E folder \in FolderIds \union {None}, team \in BOOLEAN : CreateRequest(v, r, folder, team)
                  \/ \E folder \in FolderIds : MoveRequest(v, r, folder)
                  \/ DeleteRequest(v, r)
             \/ \E f \in FolderIds : DeleteFolder(v, f) \/ Collect(v, f)
      PROVE  Rooted'
  <2>1. folders' = folders
    BY <1>3 DEF CreateRequest, MoveRequest, DeleteRequest, DeleteFolder, Collect
  <2>2. used'.folders = used.folders
    BY <1>0, <1>3 DEF CreateRequest, MoveRequest, DeleteRequest, DeleteFolder, Collect, TreeTypeOK
  <2>. QED
    BY <2>1, <2>2 DEF Rooted
<1>4. ASSUME NEW v \in Members, EraseCollected(v)
      PROVE  Rooted'
  <2>1. used' = used /\ \A f \in FolderIds : folders'[f] # None => folders'[f] = folders[f]
    BY <1>4 DEF EraseCollected
  <2>. QED
    BY <2>1 DEF Rooted
<1>. QED
  BY <1>1, <1>2, <1>3, <1>4 DEF TreeStep

LEMMA LeastNatural ==
  ASSUME NEW T, T \subseteq Nat, T # {}
  PROVE  \E m \in T : \A k \in T : m <= k
<1>1. \E m \in T : \A k \in T : <<k, m>> \notin OpToRel(<, Nat)
  BY NatLessThanWellFounded, WFMin
<1>2. \A m, k \in T : k < m => <<k, m>> \in OpToRel(<, Nat)
  BY DEF OpToRel
<1>3. \E m \in T : \A k \in T : ~(k < m)
  BY <1>1, <1>2, Zenon
<1>. QED
  BY <1>3

\* Induction over the naturals, with a set in the place of the predicate.
LEMMA CountingUp ==
  ASSUME NEW G, 0 \in G, \A n \in Nat : n \in G => n + 1 \in G
  PROVE  Nat \subseteq G
<1>1. SUFFICES ASSUME Nat \ G # {}
               PROVE  FALSE
  OBVIOUS
<1>2. PICK m \in Nat \ G : \A k \in Nat \ G : m <= k
  BY <1>1, LeastNatural
<1>3. m - 1 \in Nat /\ m - 1 \in G
  BY <1>2
<1>. QED
  BY <1>2, <1>3

\* One level of a tree after the other.
NextLevel(u, level) == level \union UNION {FoldersUnder(u, p) : p \in level}
LevelStep(g, u, n) == IF n = 0 THEN {None} ELSE NextLevel(u, g[n - 1])
Levels(g, u, bound) == g = [n \in 0..bound |-> LevelStep(g, u, n)]

LEMMA ReachedExpanded ==
  ASSUME NEW u
  PROVE  Reached(u) = (CHOOSE g : Levels(g, u, Cardinality(FolderIds)))[Cardinality(FolderIds)]
  BY Zenon DEF Reached, Levels, LevelStep, NextLevel

LEMMA LevelsExist ==
  ASSUME NEW u, NEW bound \in Nat
  PROVE  \E g : Levels(g, u, bound)
<1> DEFINE Solved == {n \in Nat : \E g : Levels(g, u, n)}
<1>1. 0 \in Solved
  <2>1. [n \in 0..0 |-> {None}] = [n \in 0..0 |-> LevelStep([m \in 0..0 |-> {None}], u, n)]
    BY DEF LevelStep
  <2>. QED
    BY <2>1 DEF Levels
<1>2. ASSUME NEW n \in Nat, n \in Solved
      PROVE  n + 1 \in Solved
  <2>1. PICK g : Levels(g, u, n)
    BY <1>2
  <2> DEFINE h == [m \in 0..(n + 1) |-> LevelStep(g, u, m)]
  <2>2. ASSUME NEW m \in 0..(n + 1)
        PROVE  LevelStep(g, u, m) = LevelStep(h, u, m)
    <3>1. CASE m = 0
      BY <3>1 DEF LevelStep
    <3>2. CASE m # 0
      <4>1. m - 1 \in 0..n /\ m - 1 \in 0..(n + 1)
        BY <3>2
      <4>2. g[m - 1] = LevelStep(g, u, m - 1) /\ h[m - 1] = LevelStep(g, u, m - 1)
        BY <2>1, <4>1, Zenon DEF Levels
      <4>. QED
        BY <3>2, <4>2, Zenon DEF LevelStep
    <3>. QED
      BY <3>1, <3>2
  <2>3. h = [m \in 0..(n + 1) |-> LevelStep(h, u, m)]
    BY <2>2, Zenon
  <2>4. \E f : Levels(f, u, n + 1)
    BY <2>3, Zenon DEF Levels
  <2>. QED
    BY <2>4
<1>3. Nat \subseteq Solved
  <2> HIDE DEF Solved
  <2>. QED
    BY <1>1, <1>2, CountingUp
<1>. QED
  BY <1>3

\* Whatever level a folder is at, its identifier is no less.
LEMMA MapIsReached ==
  ASSUME TInv, Rooted, NEW u
  PROVE  None \in Reached(u) /\ FolderMap(u) \subseteq Reached(u)
<1>0. TreeTypeOK /\ MaxFolders \in Nat /\ None \notin Nat
  BY Sentinel, TreeAssumption DEF TInv
<1>1. Cardinality(FolderIds) = MaxFolders
  BY <1>0, FS_Interval DEF FolderIds
<1> DEFINE g == CHOOSE f : Levels(f, u, MaxFolders)
<1>2. Levels(g, u, MaxFolders) /\ Reached(u) = g[MaxFolders]
  <2>1. \E f : Levels(f, u, MaxFolders)
    BY <1>0, LevelsExist
  <2>2. Levels(g, u, MaxFolders)
    BY <2>1, Zenon
  <2>3. Reached(u) = g[MaxFolders]
    BY <1>1, ReachedExpanded
  <2>. QED
    BY <2>2, <2>3
<1> HIDE DEF g
<1>3. g[0] = {None} /\ \A n \in Nat : n + 1 <= MaxFolders => g[n + 1] = NextLevel(u, g[n])
  <2>1. \A n \in 0..MaxFolders : g[n] = LevelStep(g, u, n)
    BY <1>2, Zenon DEF Levels
  <2>2. 0 \in 0..MaxFolders /\ g[0] = {None}
    <3>1. 0 \in 0..MaxFolders
      BY <1>0
    <3>. QED
      BY <2>1, <3>1 DEF LevelStep
  <2>3. ASSUME NEW n \in Nat, n + 1 <= MaxFolders
        PROVE  g[n + 1] = NextLevel(u, g[n])
    <3>1. n + 1 \in 0..MaxFolders /\ n + 1 # 0 /\ (n + 1) - 1 = n
      BY <1>0, <2>3
    <3>2. g[n + 1] = LevelStep(g, u, n + 1)
      BY <2>1, <3>1
    <3>. QED
      BY <3>1, <3>2 DEF LevelStep
  <2>. QED
    BY <2>2, <2>3
<1> DEFINE G == {n \in Nat : n <= MaxFolders =>
                    None \in g[n] /\ \A f \in FolderMap(u) : f <= n => f \in g[n]}
<1>4. \A f \in FolderMap(u) :
        /\ f \in 1..MaxFolders /\ folders[f] # None
        /\ Under(u, folders[f].parent) \in {None} \union FolderMap(u)
        /\ Under(u, folders[f].parent) \in FolderMap(u) => Under(u, folders[f].parent) < f
        /\ f \in FoldersUnder(u, Under(u, folders[f].parent))
  <2>1. ASSUME NEW f \in FolderMap(u)
        PROVE  f \in 1..MaxFolders /\ folders[f] # None /\ (folders[f].parent # None => folders[f].parent < f)
    BY <1>0, TreeRows DEF FolderMap, Ids, FolderIds, Rooted
  <2>2. None \notin FolderMap(u)
    BY <1>0, <2>1
  <2>. QED
    BY <2>1, <2>2 DEF Under, FoldersUnder
<1>5. 0 \in G
  BY <1>0, <1>3, <1>4
<1>6. ASSUME NEW n \in Nat, n \in G
      PROVE  n + 1 \in G
  <2>. SUFFICES ASSUME n + 1 <= MaxFolders
                PROVE  None \in g[n + 1] /\ \A f \in FolderMap(u) : f <= n + 1 => f \in g[n + 1]
    OBVIOUS
  <2>1. None \in g[n] /\ \A f \in FolderMap(u) : f <= n => f \in g[n]
    BY <1>0, <1>6
  <2>2. g[n + 1] = NextLevel(u, g[n])
    BY <1>3
  <2>3. ASSUME NEW f \in FolderMap(u), f <= n + 1
        PROVE  f \in g[n + 1]
    <3>1. CASE f <= n
      BY <2>1, <2>2, <3>1 DEF NextLevel
    <3>2. CASE f = n + 1
      <4>1. Under(u, folders[f].parent) \in g[n]
        <5>1. CASE Under(u, folders[f].parent) = None
          BY <2>1, <5>1
        <5>2. CASE Under(u, folders[f].parent) \in FolderMap(u)
          <6> DEFINE p == Under(u, folders[f].parent)
          <6>1. p \in FolderMap(u) /\ p < f /\ p \in 1..MaxFolders
            BY <1>4, <5>2
          <6> HIDE DEF p
          <6>2. p <= n
            BY <3>2, <6>1
          <6>3. p \in g[n]
            BY <2>1, <6>1, <6>2
          <6>. QED
            BY <6>3 DEF p
        <5>. QED
          BY <1>4, <5>1, <5>2
      <4>2. f \in FoldersUnder(u, Under(u, folders[f].parent))
        BY <1>4
      <4>. QED
        BY <2>2, <4>1, <4>2 DEF NextLevel
    <3>3. f \in 1..MaxFolders
      BY <1>4
    <3>. QED
      BY <2>3, <3>1, <3>2, <3>3
  <2>4. None \in g[n + 1]
    BY <2>1, <2>2 DEF NextLevel
  <2>. QED
    BY <2>3, <2>4
<1>7. MaxFolders \in G
  <2> HIDE DEF G
  <2>. QED
    BY <1>0, <1>5, <1>6, CountingUp
<1>. QED
  BY <1>0, <1>2, <1>4, <1>7

LEMMA TreeShows ==
  ASSUME TInv, Rooted
  PROVE  TreeSound
<1>1. NothingHidden
  BY MapIsReached DEF NothingHidden, Under
<1>. QED
  BY <1>1 DEF TreeSound, TInv

LEMMA RootedAlways == WorkspaceSpec => []Rooted
<1>1. WorkspaceInit => Rooted
  BY DEF WorkspaceInit, TreeInit, Rooted
<1>2. TInv /\ Rooted /\ [WorkspaceNext]_wvars => Rooted'
  BY PartSteps, StepRooted
<1>. QED
  BY <1>1, <1>2, Invariance, PTL DEF WorkspaceSpec

\* A user can reach every row he may see, whatever is moved, shared and deleted above it, and a
\* folder without its parent has a reason (get_collection_tree and delete_folder of
\* database/collection_mgmt.py), for any members and any number of folders.
THEOREM TreesStaySound == WorkspaceSpec => []TreeSound
<1>1. TInv /\ Rooted => TreeSound
  BY TreeShows
<1>. QED
  BY <1>1, Invariance, RootedAlways, PTL

=============================================================================
