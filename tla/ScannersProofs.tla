--------------------------- MODULE ScannersProofs ---------------------------
(***************************************************************************)
(* Proofs about the scanners without an AI: what the collectors of a grey  *)
(* team scan tell is what their sources said (OsintSound), whatever a      *)
(* domain is, whichever sources fall silent and whichever modules are      *)
(* wanted; what a purple team scan reads off the sources is in them        *)
(* (SourcesSound), whatever their lines and the calls of their functions;  *)
(* and what its live tests tell is what the target did (LiveTestsSound).   *)
(***************************************************************************)
EXTENDS Scanners, FiniteSetTheorems, SequenceTheorems, TLAPS

(* Places in a list. *)

\* How many places there are up to one of them.
UpTo(places, i) == Cardinality({j \in places : j <= i})

\* Places are numbered without gaps, in their order.
LEMMA PlacesCounted ==
  ASSUME NEW n \in Nat, NEW places \in SUBSET (1..n)
  PROVE  /\ IsFiniteSet(places) /\ Cardinality(places) \in Nat
         /\ \A i \in places : UpTo(places, i) \in 1..Cardinality(places)
         /\ \A i, j \in places : i < j => UpTo(places, i) < UpTo(places, j)
         /\ \A k \in 1..Cardinality(places) : \E i \in places : UpTo(places, i) = k
<1>. DEFINE f == [i \in places |-> UpTo(places, i)]
            c == Cardinality(places)
<1>0. \A i \in places : i \in 1..n /\ i \in Int
  OBVIOUS
<1>1. IsFiniteSet(places) /\ c \in Nat
  <2>1. IsFiniteSet(1..n)
    BY FS_Interval
  <2>2. IsFiniteSet(places)
    BY <2>1, FS_Subset
  <2>. QED
    BY <2>2, FS_CardinalityType
<1>2. \A i \in places : /\ IsFiniteSet({j \in places : j <= i})
                        /\ UpTo(places, i) \in Nat /\ UpTo(places, i) <= c
  BY <1>1, FS_Subset, FS_CardinalityType DEF UpTo
<1>3. \A i \in places : UpTo(places, i) # 0
  <2>1. \A i \in places : i \in {j \in places : j <= i}
    OBVIOUS
  <2>. QED
    BY <1>2, <2>1, FS_EmptySet DEF UpTo
<1>4. ASSUME NEW i \in places, NEW j \in places, i < j PROVE UpTo(places, i) < UpTo(places, j)
  <2>. DEFINE A == {x \in places : x <= i}
              B == {x \in places : x <= j}
  <2>1. A \in SUBSET B /\ j \in B /\ j \notin A
    <3>1. ASSUME NEW x \in places, x <= i PROVE x <= j
      BY <1>0, <1>4, <3>1
    <3>2. ~(j <= i) /\ j <= j
      BY <1>0, <1>4
    <3>. QED
      BY <3>1, <3>2
  <2>2. Cardinality(A) <= Cardinality(B) /\ Cardinality(A) # Cardinality(B)
    BY <1>2, <2>1, FS_Subset
  <2>. QED
    BY <1>2, <2>2 DEF UpTo
<1>5. \A i \in places : f[i] = UpTo(places, i) /\ f[i] \in 1..c
  <2>1. SUFFICES ASSUME NEW i \in places PROVE UpTo(places, i) \in 1..c
    OBVIOUS
  <2>2. UpTo(places, i) \in Nat /\ UpTo(places, i) <= c /\ UpTo(places, i) # 0
    BY <1>2, <1>3
  <2>. HIDE DEF c
  <2>. QED
    BY <1>1, <2>2
<1>6. f \in Injection(places, 1..c)
  <2>1. f \in [places -> 1..c]
    BY <1>5
  <2>2. \A i, j \in places : f[i] = f[j] => i = j
    <3>1. SUFFICES ASSUME NEW i \in places, NEW j \in places, UpTo(places, i) = UpTo(places, j) PROVE i = j
      OBVIOUS
    <3>a. UpTo(places, i) \in Nat /\ UpTo(places, j) \in Nat
      BY <1>2
    <3>2. ~(UpTo(places, i) < UpTo(places, j)) /\ ~(UpTo(places, j) < UpTo(places, i))
      BY <3>1, <3>a
    <3>. QED
      BY <1>0, <1>4, <3>2
  <2>. HIDE DEF f, c
  <2>. QED
    BY <2>1, <2>2 DEF Injection, IsInjective
<1>7. IsFiniteSet(1..c) /\ Cardinality(1..c) = c
  BY <1>1, FS_Interval
<1>8. f \in Surjection(places, 1..c)
  <2>. HIDE DEF f, c
  <2>. QED
    BY <1>6, <1>7, FS_Injection DEF c
<1>9. \A k \in 1..c : \E i \in places : f[i] = k
  <2>. HIDE DEF f, c
  <2>. QED
    BY <1>8 DEF Surjection
<1>. QED
  BY <1>1, <1>4, <1>5, <1>9

\* Of some places one comes first.
LEMMA FirstPlace ==
  ASSUME NEW n \in Nat, NEW places \in SUBSET (1..n), places # {}
  PROVE  \E i \in places : \A j \in places : i <= j
<1>1. PICK x \in places : TRUE
  OBVIOUS
<1>2. 1 \in 1..Cardinality(places)
  <2>1. Cardinality(places) \in Nat /\ UpTo(places, x) \in 1..Cardinality(places)
    BY PlacesCounted
  <2>. HIDE DEF UpTo
  <2>. QED
    BY <2>1
<1>3. PICK i \in places : UpTo(places, i) = 1
  BY <1>2, PlacesCounted
<1>4. ASSUME NEW j \in places PROVE i <= j
  <2>1. i \in Int /\ j \in Int
    OBVIOUS
  <2>2. UpTo(places, j) \in 1..Cardinality(places) /\ (j < i => UpTo(places, j) < UpTo(places, i))
    BY PlacesCounted
  <2>3. ~(j < i)
    BY <1>3, <2>2
  <2>. QED
    BY <2>1, <2>3
<1>. QED
  BY <1>4

\* And one comes last.
LEMMA LastPlace ==
  ASSUME NEW n \in Nat, NEW places \in SUBSET (1..n), places # {}
  PROVE  \E i \in places : \A j \in places : j <= i
<1>. DEFINE c == Cardinality(places)
<1>1. /\ c \in Nat /\ \A i \in places : UpTo(places, i) \in 1..c
      /\ \A i, j \in places : i < j => UpTo(places, i) < UpTo(places, j)
      /\ \A k \in 1..c : \E i \in places : UpTo(places, i) = k
  BY PlacesCounted
<1>. HIDE DEF c
<1>2. c \in 1..c
  <2>1. PICK x \in places : TRUE
    OBVIOUS
  <2>. QED
    BY <1>1, <2>1
<1>3. PICK i \in places : UpTo(places, i) = c
  BY <1>1, <1>2
<1>4. ASSUME NEW j \in places PROVE j <= i
  <2>1. i \in Int /\ j \in Int
    OBVIOUS
  <2>2. ~(i < j)
    <3>1. UpTo(places, j) \in 1..c
      BY <1>1
    <3>2. i < j => UpTo(places, i) < UpTo(places, j)
      BY <1>1
    <3>. QED
      BY <1>1, <1>3, <3>1, <3>2
  <2>. QED
    BY <2>1, <2>2
<1>. QED
  BY <1>4

---------------------------------------------------------------------------
(* The collectors of a grey team scan. *)

\* No module is twice in the order, and so none is collected twice.
LEMMA OrderOnce == DOMAIN Order = 1..13 /\ Len(Order) = 13 /\ \A i, j \in 1..13 : Order[i] = Order[j] => i = j
<1>1. DOMAIN Order = 1..13 /\ Len(Order) = 13
  BY DEF Order
<1>2. ASSUME NEW i \in 1..13, NEW j \in 1..13, i < j PROVE Order[i] # Order[j]
  <2>1. i \in 1..6 \/ i \in 7..12
    BY <1>2
  <2>2. CASE i \in 1..6
    BY <1>2, <2>2 DEF Order
  <2>3. CASE i \in 7..12
    BY <1>2, <2>3 DEF Order
  <2>. QED
    BY <2>1, <2>2, <2>3
<1>3. ASSUME NEW i \in 1..13, NEW j \in 1..13, Order[i] = Order[j] PROVE i = j
  <2>1. ~(i < j) /\ ~(j < i)
    BY <1>2, <1>3
  <2>. QED
    BY <2>1
<1>. QED
  BY <1>1, <1>3

LEMMA ActiveOnce ==
  /\ Len(Active) \in Nat
  /\ \A i, j \in 1..Len(Active) : Active[i] = Active[j] => i = j
<1>1. CASE Chosen = {}
  <2>1. Active = Order
    BY <1>1 DEF Active
  <2>. QED
    BY <2>1, OrderOnce
<1>2. CASE Chosen # {}
  <2>. DEFINE c == Cardinality(Chosen)
              P(k) == CHOOSE i \in Chosen : UpTo(Chosen, i) = k
  <2>1. DOMAIN Order = 1..13
    BY DEF Order
  <2>2. Chosen \in SUBSET (1..13) /\ c \in Nat /\ \A k \in 1..c : P(k) \in Chosen /\ UpTo(Chosen, P(k)) = k
    <3>1. Chosen \in SUBSET (1..13)
      BY <2>1 DEF Chosen
    <3>2. c \in Nat /\ \A k \in 1..c : \E i \in Chosen : UpTo(Chosen, i) = k
      BY <3>1, PlacesCounted
    <3>. QED
      BY <3>1, <3>2
  <2>3. Active = [k \in 1..c |-> Order[P(k)]]
    BY <1>2 DEF Active, UpTo
  <2>. HIDE DEF P, c
  <2>4. Len(Active) = c /\ \A k \in 1..c : Active[k] = Order[P(k)]
    BY <2>2, <2>3
  <2>5. ASSUME NEW i \in 1..c, NEW j \in 1..c, Active[i] = Active[j] PROVE i = j
    <3>1. P(i) \in 1..13 /\ P(j) \in 1..13 /\ Order[P(i)] = Order[P(j)]
      BY <2>2, <2>4, <2>5
    <3>2. P(i) = P(j)
      BY <3>1, OrderOnce
    <3>. QED
      BY <2>2, <3>2
  <2>. QED
    BY <2>2, <2>4, <2>5
<1>. QED
  BY <1>1, <1>2

LEMMA LogsAre == ToSet(Logs) = {"crt.sh", "certspotter", "otx"} /\ DOMAIN Logs = 1..3
BY DEF Logs, ToSet

\* While the network stays as it was at the start, a page that cannot be fetched is told so by either
\* module, and one that can be by none.
SteadyInv ==
  shifts = 0 =>
    /\ (\E f \in reported : f.kind = "unreachable") => Scheme("root") = "none"
    /\ (\E f \in reported : f.kind = "not fetched") => Scheme("root") = "none"
    /\ "http" \in Collecting /\ Scheme("root") = "none" => \E f \in reported : f.kind = "unreachable"
    /\ "frontend" \in Collecting /\ Scheme("root") = "none" => \E f \in reported : f.kind = "not fetched"

\* The inductive invariant of the collectors.
OsintInv ==
  /\ OsintTypeOK
  /\ ToldWasSaid
  /\ NoSilentModule
  /\ NamesComplete
  /\ ExposedTold
  /\ BasesCovered
  /\ SteadyInv

LEMMA OsintInvSound == OsintInv => OsintSound
BY DEF OsintInv, OsintSound, SteadyInv, SteadySiteAgrees

\* What the finds and the requests of one module have to be for OsintSound to hold after it.
Honest(m, finds, asks) ==
  \A f \in finds :
    /\ f[1] \in {"no snapshots", "snapshots"} => m = "wayback" /\ <<"archive", TRUE>> \in asks
    /\ f[1] \in {"missing spf", "spf"} => m = "dns" /\ <<"dig", TRUE>> \in asks /\ (f[1] = "spf") = world.spf
    /\ f[1] = "missing header" =>
         m = "http" /\ (<<"https", TRUE>> \in asks \/ <<"http", TRUE>> \in asks) /\ f[2] \notin world.headers
    /\ f[1] \in {"unreachable", "not fetched"} =>
         <<"https", FALSE>> \in asks /\ <<"http", FALSE>> \in asks /\ Scheme("root") = "none"
    /\ f[1] = "cves" => m = "frontend" /\ <<"nvd", TRUE>> \in asks /\ f[2] \in world.vulnerable
    /\ f[1] = "no names" =>
         m = "ct" /\ \A s \in ToSet(Logs) : <<s, FALSE>> \in asks \/ (<<s, TRUE>> \in asks /\ world.names[s] = {})
    /\ f[1] = "names" =>
         /\ m = "ct" /\ \A n \in f[2] : \E s \in ToSet(Logs) : <<s, TRUE>> \in asks /\ n \in world.names[s]
         /\ Cardinality(f[2]) < Enough =>
              \A s \in ToSet(Logs) : <<s, FALSE>> \in asks \/ (<<s, TRUE>> \in asks /\ world.names[s] \subseteq f[2])
    /\ f[1] = "for cves" =>
         /\ \A c, d \in f[2] : c[1] = d[1] => c = d
         /\ \A c \in ToSet(world.traces) \union ToSet(world.parts) : \E d \in f[2] : c[1] = d[1]
\* It has to say something, unless the archive silenced it, and to say that the site cannot be
\* reached.
Speaks(m, finds, asks) ==
  /\ \/ m \in {"ssl", "tech", "email"}
     \/ finds # {}
     \/ m = "wayback" /\ <<"archive", TRUE>> \in asks /\ world.archive = "short"
  /\ m = "http" /\ Scheme("root") = "none" => \E f \in finds : f[1] = "unreachable"
  /\ m = "frontend" /\ Scheme("root") = "none" => \E f \in finds : f[1] = "not fetched"
\* And no path that is shown may be kept back.
Exposes(m, finds, asks) ==
  m = "trivial" /\ (\E a \in asks : a[1] = "https" /\ a[2] = TRUE) =>
    \A p \in world.shown : Severity[p] \notin {"low", "info"} =>
      /\ \E f \in finds : IF f[1] \in {"high", "medium"} THEN p \in f[2] ELSE f[2] = p
      /\ \A f \in finds : f[1] # "none exposed"

\* A module whose finds are honest keeps the invariant.
LEMMA ModuleCollected ==
  ASSUME OsintInv, NEW m, NEW finds, NEW asks,
         coming <= Len(Active), coming' = coming + 1, Active[coming] = m,
         reported' = reported \union {[by |-> m, kind |-> f[1], of |-> f[2]] : f \in finds},
         heard' = heard \union {<<m, a[1], a[2]>> : a \in asks},
         UNCHANGED <<world, silent, shifts, wanted, ended>>,
         Honest(m, finds, asks), Speaks(m, finds, asks), Exposes(m, finds, asks)
  PROVE  OsintInv'
<1>. DEFINE new == {[by |-> m, kind |-> f[1], of |-> f[2]] : f \in finds}
<1>a. Active' = Active /\ Chosen' = Chosen
  BY DEF Active, Chosen
<1>b. coming \in 1..(Len(Active) + 1) /\ Len(Active) \in Nat /\ coming \in 1..Len(Active)
  BY ActiveOnce DEF OsintInv, OsintTypeOK
<1>c. Collecting' = Collecting \union {m} /\ m \notin Collecting
  <2>1. Collecting' = {Active[i] : i \in 1..coming}
    <3>1. coming' - 1 = coming
      BY <1>b
    <3>2. Collecting' = {Active'[i] : i \in 1..(coming' - 1)}
      BY DEF Collecting
    <3>. QED
      BY <1>a, <3>1, <3>2
  <2>2. 1..coming = (1..(coming - 1)) \union {coming}
    BY <1>b
  <2>3. ASSUME NEW i \in 1..(coming - 1) PROVE Active[i] # Active[coming]
    BY <1>b, ActiveOnce
  <2>. QED
    BY <2>1, <2>2, <2>3 DEF Collecting
<1>d. /\ \A f \in reported : f \in reported'
      /\ \A f \in finds : [by |-> m, kind |-> f[1], of |-> f[2]] \in reported'
      /\ \A f \in reported' : f \in reported \/ \E x \in finds : f.by = m /\ f.kind = x[1] /\ f.of = x[2]
  OBVIOUS
<1>e. /\ \A h \in heard : h \in heard'
      /\ \A s, b : <<s, b>> \in asks => <<m, s, b>> \in heard'
      /\ \A h \in heard' : h \in heard \/ \E a \in asks : h = <<m, a[1], a[2]>>
  <2>1. ASSUME NEW s, NEW b, <<s, b>> \in asks PROVE <<m, s, b>> \in heard'
    <3>1. <<m, <<s, b>>[1], <<s, b>>[2]>> \in {<<m, a[1], a[2]>> : a \in asks}
      BY <2>1
    <3>. QED
      BY <3>1
  <2>. QED
    BY <2>1
<1>f. /\ world' = world /\ Scheme("root")' = Scheme("root") /\ shifts' = shifts /\ silent' = silent
  BY DEF Scheme, Serves, Answers
<1>1. OsintTypeOK'
  <2>1. silent' \in Troubles /\ coming' \in 1..(Len(Active) + 1) /\ shifts' \in 0..MaxShifts
    BY <1>b DEF OsintInv, OsintTypeOK
  <2>2. \A f \in reported' : f.by \in Collecting'
    BY <1>c, <1>d DEF OsintInv, OsintTypeOK
  <2>3. \A h \in heard' : h[1] \in Collecting'
    BY <1>c, <1>e DEF OsintInv, OsintTypeOK
  <2>. QED
    BY <1>a, <2>1, <2>2, <2>3 DEF OsintTypeOK
<1>2. ToldWasSaid'
  <2>1. ASSUME NEW f \in reported'
        PROVE  /\ f.kind \in {"no snapshots", "snapshots"} => Spoke("wayback", "archive")'
               /\ f.kind \in {"missing spf", "spf"} => Spoke("dns", "dig")' /\ (f.kind = "spf") = world'.spf
               /\ f.kind = "missing header" => (Spoke("http", "https")' \/ Spoke("http", "http")') /\ f.of \notin world'.headers
               /\ f.kind \in {"unreachable", "not fetched"} => <<f.by, "https", FALSE>> \in heard' /\ <<f.by, "http", FALSE>> \in heard'
               /\ f.kind = "cves" => Spoke("frontend", "nvd")' /\ f.of \in world'.vulnerable
               /\ f.kind = "no names" => \A s \in ToSet(Logs) : Unheard("ct", s)' \/ (Spoke("ct", s)' /\ world'.names[s] = {})
               /\ f.kind = "names" => \A n \in f.of : \E s \in ToSet(Logs) : Spoke("ct", s)' /\ n \in world'.names[s]
    <3>1. CASE f \in reported
      BY <1>e, <1>f, <3>1 DEF OsintInv, ToldWasSaid, Spoke, Unheard
    <3>2. ASSUME NEW x \in finds, f.by = m, f.kind = x[1], f.of = x[2] PROVE <2>1!2
      BY <1>e, <1>f, <3>2 DEF Honest, Spoke, Unheard
    <3>. QED
      BY <1>d, <3>1, <3>2
  <2>. QED
    BY <2>1 DEF ToldWasSaid, Spoke, Unheard
<1>3. NoSilentModule'
  <2>1. ASSUME m \notin {"ssl", "tech", "email"}
        PROVE  \/ \E f \in reported' : f.by = m
               \/ m = "wayback" /\ <<"wayback", "archive", TRUE>> \in heard' /\ world'.archive = "short"
    <3>1. CASE finds # {}
      BY <1>d, <3>1
    <3>2. CASE finds = {}
      BY <1>e, <1>f, <2>1, <3>2 DEF Speaks
    <3>. QED
      BY <3>1, <3>2
  <2>2. ASSUME NEW n \in Collecting \ {"ssl", "tech", "email"}
        PROVE  \/ \E f \in reported' : f.by = n
               \/ n = "wayback" /\ <<"wayback", "archive", TRUE>> \in heard' /\ world'.archive = "short"
    BY <1>d, <1>e, <1>f DEF OsintInv, NoSilentModule, Spoke
  <2>. QED
    BY <1>c, <2>1, <2>2 DEF NoSilentModule, Spoke
<1>4. NamesComplete'
  <2>1. ASSUME NEW f \in reported', f.kind = "names", Cardinality(f.of) < Enough, NEW s \in ToSet(Logs)
        PROVE  <<"ct", s, FALSE>> \in heard' \/ (<<"ct", s, TRUE>> \in heard' /\ world'.names[s] \subseteq f.of)
    <3>1. CASE f \in reported
      BY <1>e, <1>f, <2>1, <3>1 DEF OsintInv, NamesComplete, Spoke, Unheard
    <3>2. ASSUME NEW x \in finds, f.by = m, f.kind = x[1], f.of = x[2]
          PROVE  <<"ct", s, FALSE>> \in heard' \/ (<<"ct", s, TRUE>> \in heard' /\ world'.names[s] \subseteq f.of)
      BY <1>e, <1>f, <2>1, <3>2 DEF Honest
    <3>. QED
      BY <1>d, <3>1, <3>2
  <2>. QED
    BY <2>1 DEF NamesComplete, Spoke, Unheard
<1>5. ExposedTold'
  <2>1. SUFFICES ASSUME <<"trivial", "https", TRUE>> \in heard', NEW p \in world.shown, Severity[p] \notin {"low", "info"}
                 PROVE  /\ \E f \in reported' : f.by = "trivial" /\ IF f.kind \in {"high", "medium"} THEN p \in f.of ELSE f.of = p
                        /\ [by |-> "trivial", kind |-> "none exposed", of |-> ""] \notin reported'
    BY <1>f DEF ExposedTold, Spoke
  <2>2. CASE <<"trivial", "https", TRUE>> \in heard
    <3>1. "trivial" \in Collecting
      BY <2>2 DEF OsintInv, OsintTypeOK
    <3>2. m # "trivial"
      BY <1>c, <3>1
    <3>3. /\ \E f \in reported : f.by = "trivial" /\ IF f.kind \in {"high", "medium"} THEN p \in f.of ELSE f.of = p
          /\ [by |-> "trivial", kind |-> "none exposed", of |-> ""] \notin reported
      BY <2>1, <2>2 DEF OsintInv, ExposedTold, Spoke
    <3>. QED
      BY <1>d, <3>2, <3>3
  <2>3. CASE <<"trivial", "https", TRUE>> \notin heard
    <3>1. PICK a \in asks : <<"trivial", "https", TRUE>> = <<m, a[1], a[2]>>
      BY <1>e, <2>1, <2>3
    <3>2. m = "trivial" /\ a[1] = "https" /\ a[2] = TRUE
      BY <3>1
    <3>3. /\ \E f \in finds : IF f[1] \in {"high", "medium"} THEN p \in f[2] ELSE f[2] = p
          /\ \A f \in finds : f[1] # "none exposed"
      BY <2>1, <3>2 DEF Exposes
    <3>4. [by |-> "trivial", kind |-> "none exposed", of |-> ""] \notin reported
      BY <1>c, <3>2 DEF OsintInv, OsintTypeOK
    <3>5. [by |-> "trivial", kind |-> "none exposed", of |-> ""] \notin reported'
      <4>1. \A f \in finds : [by |-> m, kind |-> f[1], of |-> f[2]] # [by |-> "trivial", kind |-> "none exposed", of |-> ""]
        BY <3>3
      <4>. QED
        BY <3>4, <4>1
    <3>6. PICK x \in finds : IF x[1] \in {"high", "medium"} THEN p \in x[2] ELSE x[2] = p
      BY <3>3
    <3>7. [by |-> m, kind |-> x[1], of |-> x[2]] \in reported'
      BY <1>d, <3>6
    <3>8. \E f \in reported' : f.by = "trivial" /\ IF f.kind \in {"high", "medium"} THEN p \in f.of ELSE f.of = p
      BY <3>2, <3>6, <3>7
    <3>. QED
      BY <3>5, <3>8
  <2>. QED
    BY <2>2, <2>3
<1>6. BasesCovered'
  <2>1. ASSUME NEW f \in reported', f.kind = "for cves"
        PROVE  /\ \A c, d \in f.of : c[1] = d[1] => c = d
               /\ \A c \in ToSet(world.traces) \union ToSet(world.parts) : \E d \in f.of : c[1] = d[1]
    <3>1. CASE f \in reported
      BY <2>1, <3>1 DEF OsintInv, BasesCovered
    <3>2. ASSUME NEW x \in finds, f.by = m, f.kind = x[1], f.of = x[2]
          PROVE  /\ \A c, d \in f.of : c[1] = d[1] => c = d
                 /\ \A c \in ToSet(world.traces) \union ToSet(world.parts) : \E d \in f.of : c[1] = d[1]
      BY <2>1, <3>2 DEF Honest
    <3>3. CASE f \notin reported
      <4>1. PICK x \in finds : f = [by |-> m, kind |-> x[1], of |-> x[2]]
        BY <1>d, <2>1, <3>3
      <4>2. f.by = m /\ f.kind = x[1] /\ f.of = x[2]
        BY <4>1
      <4>. QED
        BY <3>2, <4>2
    <3>. QED
      BY <3>1, <3>3
  <2>2. world'.traces = world.traces /\ world'.parts = world.parts
    BY <1>f
  <2>3. \A f \in reported' : f.kind = "for cves" =>
          /\ \A c, d \in f.of : c[1] = d[1] => c = d
          /\ \A c \in ToSet(world'.traces) \union ToSet(world'.parts) : \E d \in f.of : c[1] = d[1]
    BY <2>1, <2>2, Zenon
  <2>. QED
    BY <2>3, Zenon DEF BasesCovered
<1>7. SteadyInv'
  <2>1. ASSUME shifts = 0, NEW f \in reported', f.kind \in {"unreachable", "not fetched"} PROVE Scheme("root") = "none"
    BY <1>d, <2>1 DEF OsintInv, SteadyInv, Honest
  <2>2. ASSUME shifts = 0, "http" \in Collecting', Scheme("root") = "none" PROVE \E f \in reported' : f.kind = "unreachable"
    BY <1>c, <1>d, <2>2 DEF OsintInv, SteadyInv, Speaks
  <2>3. ASSUME shifts = 0, "frontend" \in Collecting', Scheme("root") = "none" PROVE \E f \in reported' : f.kind = "not fetched"
    BY <1>c, <1>d, <2>3 DEF OsintInv, SteadyInv, Speaks
  <2>. QED
    BY <1>f, <2>1, <2>2, <2>3 DEF SteadyInv
<1>. QED
  BY <1>1, <1>2, <1>3, <1>4, <1>5, <1>6, <1>7 DEF OsintInv

\* The kinds that say something of what was answered.
Telling == {"no snapshots", "snapshots", "missing spf", "spf", "missing header", "unreachable", "not fetched",
            "cves", "no names", "names", "for cves", "none exposed"}
\* A finding is of its kind and about what it is about.
LEMMA FindsAre ==
  ASSUME NEW kind, NEW what
  PROVE  /\ \A f \in About(kind, what) : f[1] = kind /\ f[2] \in what /\ f = <<kind, f[2]>>
         /\ \A x \in what : <<kind, x>> \in About(kind, what)
         /\ \A f \in One(kind) : f[1] = kind /\ f = <<kind, "">>
         /\ One(kind) # {}
BY DEF About, One

\* A module that tells none of these has only to say something.
LEMMA PlainIsHonest ==
  ASSUME NEW m, NEW finds, NEW asks, \A f \in finds : f[1] \notin Telling
  PROVE  Honest(m, finds, asks)
BY DEF Honest, Telling

LEMMA DnsInv == OsintInv /\ world \in Worlds /\ CollectDns => OsintInv'
<1>. SUFFICES ASSUME OsintInv, world \in Worlds, CollectDns PROVE OsintInv'
  OBVIOUS
<1>. DEFINE resolved == Answers("resolver") /\ world.addresses # {}
            dig == Result("dig")
            records == CASE dig = "ok" -> world.records
                         [] dig # "ok" /\ Result("nslookup") = "ok" -> {"MX", "NS", "TXT", "SOA"}
                         [] OTHER -> {}
            policies == dig = "ok" /\ "TXT" \in world.records
            dmarc == IF Answers("dmarc") THEN world.dmarc ELSE "none"
            finds == (IF resolved THEN About("address", world.addresses) ELSE One("unresolved"))
                       \union About("records", records)
                       \union When(dig # "ok" /\ Result("nslookup") = "missing", One("no dig"))
                       \union When(policies, One(IF world.spf THEN "spf" ELSE "missing spf"))
                       \union When(policies, IF dmarc = "none" THEN One("missing dmarc") ELSE About("dmarc", {dmarc}))
            asks == {<<"resolver", resolved>>, <<"dig", dig = "ok">>}
<1>1. /\ coming <= Len(Active) /\ coming' = coming + 1 /\ Active[coming] = "dns"
      /\ reported' = reported \union {[by |-> "dns", kind |-> f[1], of |-> f[2]] : f \in finds}
      /\ heard' = heard \union {<<"dns", a[1], a[2]>> : a \in asks}
      /\ UNCHANGED <<world, silent, shifts, wanted, ended>>
  BY Zenon DEF CollectDns, Collected, Onward, Tells
<1>2. policies => <<"dig", TRUE>> \in asks
  BY Zenon
<1>3. finds # {}
  <2>1. (IF resolved THEN About("address", world.addresses) ELSE One("unresolved")) # {}
    BY DEF About, One
  <2>. QED
    BY <2>1
<1>. HIDE DEF resolved, dig, asks, records, dmarc
<1>4. ASSUME NEW f \in finds
      PROVE \/ f[1] \in {"address", "unresolved", "records", "no dig", "missing dmarc", "dmarc"}
            \/ policies /\ f = <<IF world.spf THEN "spf" ELSE "missing spf", "">>
  <2>. DEFINE other == dig # "ok" /\ Result("nslookup") = "missing"
              spf == IF world.spf THEN "spf" ELSE "missing spf"
              missing == dmarc = "none"
  <2>. HIDE DEF policies, other, spf, missing
  <2>1. f \in About("address", world.addresses) \union One("unresolved") => f[1] \in {"address", "unresolved"}
    BY FindsAre
  <2>2. f \in About("records", records) \union One("no dig") => f[1] \in {"records", "no dig"}
    BY FindsAre
  <2>3. f \in One(spf) => f = <<spf, "">>
    BY FindsAre
  <2>4. f \in One("missing dmarc") \union About("dmarc", {dmarc}) => f[1] \in {"missing dmarc", "dmarc"}
    BY FindsAre DEF About
  <2>5. \/ f \in About("address", world.addresses) \union One("unresolved")
        \/ f \in About("records", records) \union One("no dig")
        \/ policies /\ f \in One(spf)
        \/ f \in One("missing dmarc") \union About("dmarc", {dmarc})
    BY Zenon DEF When, other, spf, missing
  <2>. QED
    BY <2>1, <2>2, <2>3, <2>4, <2>5 DEF spf
<1>5. world.spf \in BOOLEAN
  BY WorldsAssumption
<1>6. ASSUME NEW f \in finds
      PROVE \/ f[1] \notin Telling
            \/ f[1] \in {"missing spf", "spf"} /\ <<"dig", TRUE>> \in asks /\ (f[1] = "spf") = world.spf
  <2>1. CASE f[1] \in {"address", "unresolved", "records", "no dig", "missing dmarc", "dmarc"}
    BY <2>1 DEF Telling
  <2>2. CASE policies /\ f = <<IF world.spf THEN "spf" ELSE "missing spf", "">>
    <3>1. f[1] = IF world.spf THEN "spf" ELSE "missing spf"
      BY <2>2
    <3>2. f[1] \in {"missing spf", "spf"} /\ (f[1] = "spf") = world.spf
      BY <1>5, <3>1
    <3>. QED
      BY <1>2, <2>2, <3>2
  <2>. QED
    BY <1>4, <2>1, <2>2
<1>. HIDE DEF finds
<1>7. Honest("dns", finds, asks)
  BY <1>6 DEF Honest, Telling
<1>8. Speaks("dns", finds, asks) /\ Exposes("dns", finds, asks)
  BY <1>3 DEF Speaks, Exposes
<1>. QED
  BY <1>1, <1>7, <1>8, ModuleCollected

LEMMA WhoisInv == OsintInv /\ world \in Worlds /\ CollectWhois => OsintInv'
<1>. SUFFICES ASSUME OsintInv, world \in Worlds, CollectWhois PROVE OsintInv'
  OBVIOUS
<1>. DEFINE finds == WhoisFindings
            asks == {<<"whois", Result("whois") = "ok">>}
<1>1. /\ coming <= Len(Active) /\ coming' = coming + 1 /\ Active[coming] = "whois"
      /\ reported' = reported \union {[by |-> "whois", kind |-> f[1], of |-> f[2]] : f \in finds}
      /\ heard' = heard \union {<<"whois", a[1], a[2]>> : a \in asks}
      /\ UNCHANGED <<world, silent, shifts, wanted, ended>>
  BY Zenon DEF CollectWhois, Collected, Onward, Tells
<1>2. finds # {} /\ \A f \in finds : f[1] \in {"incomplete", "whois", "registered"}
  <2>1. CASE WhoisText \intersect {"nothing", "failed"} # {}
    BY <2>1, FindsAre DEF WhoisFindings
  <2>2. CASE ~(WhoisText \intersect {"nothing", "failed"} # {})
    <3>1. WhoisFindings = One("whois") \union About("registered", WhoisText \intersect {"expires", "email"})
      BY <2>2 DEF WhoisFindings
    <3>2. \A f \in One("whois") : f[1] = "whois"
      BY FindsAre
    <3>3. \A f \in About("registered", WhoisText \intersect {"expires", "email"}) : f[1] = "registered"
      BY DEF About
    <3>4. One("whois") # {}
      BY FindsAre
    <3>. QED
      BY <3>1, <3>2, <3>3, <3>4
  <2>. QED
    BY <2>1, <2>2
<1>. HIDE DEF finds, asks
<1>3. Honest("whois", finds, asks)
  BY <1>2, PlainIsHonest DEF Telling
<1>4. Speaks("whois", finds, asks) /\ Exposes("whois", finds, asks)
  BY <1>2 DEF Speaks, Exposes
<1>. QED
  BY <1>1, <1>3, <1>4, ModuleCollected

LEMMA SslInv == OsintInv /\ world \in Worlds /\ CollectSsl => OsintInv'
<1>. SUFFICES ASSUME OsintInv, world \in Worlds, CollectSsl PROVE OsintInv'
  OBVIOUS
<1>. DEFINE finds == When(~Shakes, One("no tls"))
            asks == {<<"https", Shakes>>}
<1>1. /\ coming <= Len(Active) /\ coming' = coming + 1 /\ Active[coming] = "ssl"
      /\ reported' = reported \union {[by |-> "ssl", kind |-> f[1], of |-> f[2]] : f \in finds}
      /\ heard' = heard \union {<<"ssl", a[1], a[2]>> : a \in asks}
      /\ UNCHANGED <<world, silent, shifts, wanted, ended>>
  BY Zenon DEF CollectSsl, Collected, Onward, Tells
<1>2. \A f \in finds : f[1] = "no tls"
  BY FindsAre DEF When
<1>. HIDE DEF finds, asks
<1>3. Honest("ssl", finds, asks)
  BY <1>2, PlainIsHonest DEF Telling
<1>4. Speaks("ssl", finds, asks) /\ Exposes("ssl", finds, asks)
  BY <1>2 DEF Speaks, Exposes
<1>. QED
  BY <1>1, <1>3, <1>4, ModuleCollected

\* The names of the sources that were asked.
LEMMA EnoughAsked ==
  ASSUME world \in Worlds
  PROVE  LET names == UNION {NamesOf(Logs[i]) : i \in Consulted}
         IN /\ 1 \in Consulted /\ Consulted \subseteq 1..3
            /\ names = {} \/ Cardinality(names) < Enough => Consulted = 1..3
<1>. DEFINE names == UNION {NamesOf(Logs[i]) : i \in Consulted}
            Short(j) == NamesOf(Logs[j]) = {} \/ Cardinality(NamesUpTo(j)) < Enough
<1>1. Consulted = {i \in 1..3 : \A j \in 1..(i - 1) : Short(j)}
  BY LogsAre DEF Consulted
<1>2. 1 \in Consulted /\ Consulted \subseteq 1..3
  BY <1>1
<1>3. \A i \in 1..3 : IsFiniteSet(NamesOf(Logs[i]))
  <2>1. \A i \in 1..3 : Logs[i] \in {"crt.sh", "certspotter", "otx"}
    BY DEF Logs
  <2>. QED
    BY <2>1, WorldsAssumption, FS_EmptySet DEF NamesOf
<1>4. IsFiniteSet(names)
  <2>1. IsFiniteSet(NamesOf(Logs[1]) \union NamesOf(Logs[2]) \union NamesOf(Logs[3]))
    <3>1. IsFiniteSet(NamesOf(Logs[1])) /\ IsFiniteSet(NamesOf(Logs[2])) /\ IsFiniteSet(NamesOf(Logs[3]))
      BY <1>3
    <3>. QED
      BY <3>1, FS_Union
  <2>2. names \subseteq NamesOf(Logs[1]) \union NamesOf(Logs[2]) \union NamesOf(Logs[3])
    BY <1>2
  <2>. HIDE DEF names
  <2>. QED
    BY <2>1, <2>2, FS_Subset
<1>5. ASSUME NEW j \in 1..2, 1..j \subseteq Consulted, names = {} \/ Cardinality(names) < Enough PROVE Short(j)
  <2>1. NamesUpTo(j) \subseteq names
    BY <1>5 DEF NamesUpTo
  <2>2. CASE names = {}
    BY <1>5, <2>2
  <2>3. CASE Cardinality(names) < Enough
    <3>. HIDE DEF names
    <3>1. /\ Cardinality(names) \in Nat /\ Cardinality(NamesUpTo(j)) \in Nat
          /\ Cardinality(NamesUpTo(j)) <= Cardinality(names)
      BY <1>4, <2>1, FS_Subset, FS_CardinalityType
    <3>. QED
      BY <2>3, <3>1, OsintAssumption
  <2>. QED
    BY <1>5, <2>2, <2>3
<1>6. ASSUME names = {} \/ Cardinality(names) < Enough PROVE Consulted = 1..3
  <2>. HIDE DEF Short, names
  <2>1. Short(1)
    <3>1. 1..1 \subseteq Consulted
      BY <1>2
    <3>. QED
      BY <1>5, <1>6, <3>1
  <2>2. 2 \in Consulted
    BY <1>1, <2>1
  <2>3. Short(2)
    <3>1. 1..2 \subseteq Consulted
      BY <1>2, <2>2
    <3>. QED
      BY <1>5, <1>6, <3>1
  <2>4. 3 \in Consulted
    BY <1>1, <2>1, <2>3
  <2>5. \A i \in 1..3 : i \in Consulted
    BY <1>2, <2>2, <2>4
  <2>. QED
    BY <1>2, <2>5
<1>. QED
  BY <1>2, <1>6

LEMMA CrtshInv == OsintInv /\ world \in Worlds /\ CollectCrtsh => OsintInv'
<1>. SUFFICES ASSUME OsintInv, world \in Worlds, CollectCrtsh PROVE OsintInv'
  OBVIOUS
<1>. DEFINE names == UNION {NamesOf(Logs[i]) : i \in Consulted}
            finds == IF names = {} THEN One("no names")
                     ELSE {<<"names", names>>} \union When(Cardinality(names \intersect world.subdomains) > Large, One("large"))
            asks == {<<Logs[i], Answers(Logs[i])>> : i \in Consulted}
<1>1. /\ coming <= Len(Active) /\ coming' = coming + 1 /\ Active[coming] = "ct"
      /\ reported' = reported \union {[by |-> "ct", kind |-> f[1], of |-> f[2]] : f \in finds}
      /\ heard' = heard \union {<<"ct", a[1], a[2]>> : a \in asks}
      /\ UNCHANGED <<world, silent, shifts, wanted, ended>>
  BY Zenon DEF CollectCrtsh, Collected, Onward, Tells
<1>2. /\ 1 \in Consulted /\ Consulted \subseteq 1..3
      /\ names = {} \/ Cardinality(names) < Enough => Consulted = 1..3
  BY EnoughAsked
<1>3. \A i \in 1..3 : Logs[i] \in ToSet(Logs)
  BY LogsAre DEF Logs
<1>4. \A s \in ToSet(Logs) : \E i \in 1..3 : s = Logs[i]
  BY LogsAre DEF Logs
<1>5. ASSUME NEW i \in Consulted PROVE <<Logs[i], Answers(Logs[i])>> \in asks
  OBVIOUS
<1>6. ASSUME NEW s \in ToSet(Logs), names = {} \/ Cardinality(names) < Enough
      PROVE  <<s, FALSE>> \in asks \/ (<<s, TRUE>> \in asks /\ world.names[s] \subseteq names)
  <2>1. PICK i \in 1..3 : s = Logs[i]
    BY <1>4
  <2>2. i \in Consulted
    BY <1>2, <1>6
  <2>3. CASE Answers(s)
    <3>1. Answers(s) = TRUE
      BY <2>3 DEF Answers
    <3>2. NamesOf(s) = world.names[s]
      BY <2>3 DEF NamesOf
    <3>. QED
      BY <1>5, <2>1, <2>2, <3>1, <3>2
  <2>4. CASE ~Answers(s)
    <3>1. Answers(s) = FALSE
      BY <2>4 DEF Answers
    <3>. QED
      BY <1>5, <2>1, <2>2, <3>1
  <2>. QED
    BY <2>3, <2>4
<1>7. ASSUME NEW n \in names PROVE \E s \in ToSet(Logs) : <<s, TRUE>> \in asks /\ n \in world.names[s]
  <2>1. PICK i \in Consulted : n \in NamesOf(Logs[i])
    OBVIOUS
  <2>2. Answers(Logs[i]) /\ n \in world.names[Logs[i]]
    BY <2>1 DEF NamesOf
  <2>3. Answers(Logs[i]) = TRUE
    BY <2>2 DEF Answers
  <2>. QED
    BY <1>2, <1>3, <1>5, <2>2, <2>3
<1>8. ASSUME NEW f \in finds
      PROVE  (f = <<"no names", "">> /\ names = {}) \/ f = <<"names", names>> \/ f = <<"large", "">>
  BY DEF One, When
<1>9. finds # {}
  BY DEF One
<1>. HIDE DEF finds, asks, names
<1>10. Honest("ct", finds, asks)
  <2>1. SUFFICES ASSUME NEW f \in finds PROVE Honest("ct", {f}, asks)
    BY DEF Honest
  <2>2. CASE f = <<"no names", "">> /\ names = {}
    <3>1. f[1] = "no names" /\ \A s \in ToSet(Logs) : <<s, FALSE>> \in asks \/ (<<s, TRUE>> \in asks /\ world.names[s] = {})
      BY <1>6, <2>2
    <3>. QED
      BY <3>1 DEF Honest
  <2>3. CASE f = <<"names", names>>
    <3>1. f[1] = "names" /\ f[2] = names
      BY <2>3
    <3>. QED
      BY <1>6, <1>7, <3>1 DEF Honest
  <2>4. CASE f = <<"large", "">>
    <3>1. f[1] = "large"
      BY <2>4
    <3>2. \A x \in {f} : x[1] \notin Telling
      BY <3>1 DEF Telling
    <3>. QED
      BY <3>2, PlainIsHonest
  <2>. QED
    BY <1>8, <2>2, <2>3, <2>4
<1>11. Speaks("ct", finds, asks) /\ Exposes("ct", finds, asks)
  BY <1>9 DEF Speaks, Exposes
<1>. QED
  BY <1>1, <1>10, <1>11, ModuleCollected

\* Who asks for a page hears of it over TLS or in the clear, or from neither.
LEMMA PageAsked ==
  ASSUME NEW p
  PROVE  /\ Scheme(p) = "none" => <<"https", FALSE>> \in Asking(p) /\ <<"http", FALSE>> \in Asking(p)
         /\ Scheme(p) # "none" => <<"https", TRUE>> \in Asking(p) \/ <<"http", TRUE>> \in Asking(p)
<1>1. \A s : Serves(s, p) \in BOOLEAN
  BY DEF Serves
<1>2. PICK b \in BOOLEAN, c \in BOOLEAN : b = Serves("https", p) /\ c = Serves("http", p)
  BY <1>1
<1>3. Scheme(p) = IF b THEN "https" ELSE IF c THEN "http" ELSE "none"
  BY <1>2 DEF Scheme
<1>4. Asking(p) = {<<"https", b>>} \union IF b THEN {} ELSE {<<"http", c>>}
  BY <1>2 DEF Asking
<1>5. CASE b = TRUE
  BY <1>3, <1>4, <1>5
<1>6. CASE b = FALSE
  BY <1>2, <1>3, <1>4, <1>6
<1>. QED
  BY <1>2, <1>5, <1>6

LEMMA HeadersInv == OsintInv /\ world \in Worlds /\ CollectHttpHeaders => OsintInv'
<1>. SUFFICES ASSUME OsintInv, world \in Worlds, CollectHttpHeaders PROVE OsintInv'
  OBVIOUS
<1>. DEFINE finds == IF Scheme("root") = "none" THEN One("unreachable") ELSE HeaderFindings(world.headers)
            asks == Asking("root")
<1>1. /\ coming <= Len(Active) /\ coming' = coming + 1 /\ Active[coming] = "http"
      /\ reported' = reported \union {[by |-> "http", kind |-> f[1], of |-> f[2]] : f \in finds}
      /\ heard' = heard \union {<<"http", a[1], a[2]>> : a \in asks}
      /\ UNCHANGED <<world, silent, shifts, wanted, ended>>
  BY Zenon DEF CollectHttpHeaders, Collected, Onward, Tells
<1>2. CASE Scheme("root") = "none"
  <2>1. finds = One("unreachable")
    BY <1>2
  <2>2. <<"https", FALSE>> \in asks /\ <<"http", FALSE>> \in asks
    BY <1>2, PageAsked
  <2>. HIDE DEF finds, asks
  <2>3. finds # {} /\ \A f \in finds : f[1] = "unreachable"
    BY <2>1, FindsAre
  <2>4. Honest("http", finds, asks)
    BY <1>2, <2>2, <2>3 DEF Honest
  <2>5. Speaks("http", finds, asks) /\ Exposes("http", finds, asks)
    BY <2>3 DEF Speaks, Exposes
  <2>. QED
    BY <1>1, <2>4, <2>5, ModuleCollected
<1>3. CASE Scheme("root") # "none"
  <2>1. finds = HeaderFindings(world.headers)
    BY <1>3
  <2>2. <<"https", TRUE>> \in asks \/ <<"http", TRUE>> \in asks
    BY <1>3, PageAsked
  <2>. HIDE DEF finds, asks
  <2>3. finds # {}
    BY <2>1 DEF HeaderFindings, One
  <2>4. ASSUME NEW f \in finds
        PROVE  \/ f[1] \notin Telling
               \/ f[1] = "missing header" /\ f[2] \notin world.headers
    <3>1. \/ f \in About("missing header", SecurityHeaders \ world.headers)
          \/ f \in One("summary") \union One("no subdomains") \union One("short max-age") \union One("cookie")
          \/ f \in About("header", world.headers \intersect {"server", "x-powered-by"})
          \/ f \in About("version", world.headers \intersect {"server"})
      BY <2>1 DEF HeaderFindings, When
    <3>2. f \in About("missing header", SecurityHeaders \ world.headers) => f[1] = "missing header" /\ f[2] \notin world.headers
      <4>. DEFINE absent == SecurityHeaders \ world.headers
      <4>1. \A x \in absent : x \notin world.headers
        OBVIOUS
      <4>. HIDE DEF absent
      <4>2. f \in About("missing header", absent) => f[1] = "missing header" /\ f[2] \in absent
        BY FindsAre
      <4>. QED
        BY <4>1, <4>2 DEF absent
    <3>3. f \in One("summary") \union One("no subdomains") \union One("short max-age") \union One("cookie")
            => f[1] \in {"summary", "no subdomains", "short max-age", "cookie"}
      BY FindsAre
    <3>4. f \in About("header", world.headers \intersect {"server", "x-powered-by"}) => f[1] = "header"
      BY DEF About
    <3>5. f \in About("version", world.headers \intersect {"server"}) => f[1] = "version"
      BY DEF About
    <3>. QED
      BY <3>1, <3>2, <3>3, <3>4, <3>5 DEF Telling
  <2>5. Honest("http", finds, asks)
    BY <2>2, <2>4 DEF Honest, Telling
  <2>6. Speaks("http", finds, asks) /\ Exposes("http", finds, asks)
    BY <1>3, <2>3 DEF Speaks, Exposes
  <2>. QED
    BY <1>1, <2>5, <2>6, ModuleCollected
<1>. QED
  BY <1>2, <1>3

LEMMA PathsInv == OsintInv /\ world \in Worlds /\ CollectWebPaths => OsintInv'
<1>. SUFFICES ASSUME OsintInv, world \in Worlds, CollectWebPaths PROVE OsintInv'
  OBVIOUS
<1>. DEFINE finds == (IF Scheme("robots") = "none" THEN One("no robots") ELSE About("robots", world.robots))
                       \union When(Serves("https", "sitemap"), One("sitemap"))
                       \union One(IF Serves("https", "security") THEN "security" ELSE "no security")
            asks == Asking("robots")
<1>1. /\ coming <= Len(Active) /\ coming' = coming + 1 /\ Active[coming] = "paths"
      /\ reported' = reported \union {[by |-> "paths", kind |-> f[1], of |-> f[2]] : f \in finds}
      /\ heard' = heard \union {<<"paths", a[1], a[2]>> : a \in asks}
      /\ UNCHANGED <<world, silent, shifts, wanted, ended>>
  BY Zenon DEF CollectWebPaths, Collected, Onward, Tells
<1>2. finds # {} /\ \A f \in finds : f[1] \in {"no robots", "robots", "sitemap", "security", "no security"}
  <2>. DEFINE security == IF Serves("https", "security") THEN "security" ELSE "no security"
  <2>1. security \in {"security", "no security"}
    OBVIOUS
  <2>. HIDE DEF security
  <2>2. /\ \A f \in One(security) : f[1] = security
        /\ \A f \in One("no robots") : f[1] = "no robots"
        /\ \A f \in One("sitemap") : f[1] = "sitemap"
        /\ \A f \in About("robots", world.robots) : f[1] = "robots"
        /\ One(security) # {}
    BY FindsAre
  <2>3. /\ One(security) \subseteq finds
        /\ finds \subseteq One(security) \union One("no robots") \union One("sitemap") \union About("robots", world.robots)
    BY Zenon DEF When, security
  <2>. HIDE DEF finds
  <2>. QED
    BY <2>1, <2>2, <2>3
<1>. HIDE DEF finds, asks
<1>3. Honest("paths", finds, asks)
  BY <1>2, PlainIsHonest DEF Telling
<1>4. Speaks("paths", finds, asks) /\ Exposes("paths", finds, asks)
  BY <1>2 DEF Speaks, Exposes
<1>. QED
  BY <1>1, <1>3, <1>4, ModuleCollected

LEMMA EmailsInv == OsintInv /\ world \in Worlds /\ CollectEmails => OsintInv'
<1>. SUFFICES ASSUME OsintInv, world \in Worlds, CollectEmails PROVE OsintInv'
  OBVIOUS
<1>. DEFINE finds == When(Serves("https", "root") /\ ~world.blank, About("emails", world.emails))
            asks == {<<"https", Serves("https", "root")>>}
<1>1. /\ coming <= Len(Active) /\ coming' = coming + 1 /\ Active[coming] = "email"
      /\ reported' = reported \union {[by |-> "email", kind |-> f[1], of |-> f[2]] : f \in finds}
      /\ heard' = heard \union {<<"email", a[1], a[2]>> : a \in asks}
      /\ UNCHANGED <<world, silent, shifts, wanted, ended>>
  BY Zenon DEF CollectEmails, Collected, Onward, Tells
<1>2. \A f \in finds : f[1] \in {"emails"}
  <2>1. finds \subseteq About("emails", world.emails)
    BY Zenon DEF When
  <2>2. \A f \in About("emails", world.emails) : f[1] = "emails"
    BY FindsAre
  <2>. HIDE DEF finds
  <2>. QED
    BY <2>1, <2>2
<1>. HIDE DEF finds, asks
<1>3. Honest("email", finds, asks)
  BY <1>2, PlainIsHonest DEF Telling
<1>4. Speaks("email", finds, asks) /\ Exposes("email", finds, asks)
  BY <1>2 DEF Speaks, Exposes
<1>. QED
  BY <1>1, <1>3, <1>4, ModuleCollected

LEMMA GithubInv == OsintInv /\ world \in Worlds /\ CollectGithubDorks => OsintInv'
<1>. SUFFICES ASSUME OsintInv, world \in Worlds, CollectGithubDorks PROVE OsintInv'
  OBVIOUS
<1>. DEFINE hits == Answers("github") /\ \E i \in 1..3 : world.hits[i] = "some"
            finds == One(IF hits THEN "code" ELSE "no code")
            asks == {<<"github", Answers("github")>>}
<1>1. /\ coming <= Len(Active) /\ coming' = coming + 1 /\ Active[coming] = "github"
      /\ reported' = reported \union {[by |-> "github", kind |-> f[1], of |-> f[2]] : f \in finds}
      /\ heard' = heard \union {<<"github", a[1], a[2]>> : a \in asks}
      /\ UNCHANGED <<world, silent, shifts, wanted, ended>>
  BY Zenon DEF CollectGithubDorks, Collected, Onward, Tells
<1>2. finds # {} /\ \A f \in finds : f[1] \in {"code", "no code"}
  <2>. HIDE DEF hits
  <2>. QED
    BY DEF One
<1>. HIDE DEF finds, asks
<1>3. Honest("github", finds, asks)
  BY <1>2, PlainIsHonest DEF Telling
<1>4. Speaks("github", finds, asks) /\ Exposes("github", finds, asks)
  BY <1>2 DEF Speaks, Exposes
<1>. QED
  BY <1>1, <1>3, <1>4, ModuleCollected

LEMMA GoogleInv == OsintInv /\ world \in Worlds /\ CollectGoogleDorks => OsintInv'
<1>. SUFFICES ASSUME OsintInv, world \in Worlds, CollectGoogleDorks PROVE OsintInv'
  OBVIOUS
<1>. DEFINE finds == One("dorks")
            asks == {<<"search", Answers("search")>>}
<1>1. /\ coming <= Len(Active) /\ coming' = coming + 1 /\ Active[coming] = "google"
      /\ reported' = reported \union {[by |-> "google", kind |-> f[1], of |-> f[2]] : f \in finds}
      /\ heard' = heard \union {<<"google", a[1], a[2]>> : a \in asks}
      /\ UNCHANGED <<world, silent, shifts, wanted, ended>>
  BY Zenon DEF CollectGoogleDorks, Collected, Onward, Tells
<1>2. finds # {} /\ \A f \in finds : f[1] \in {"dorks"}
  BY DEF One
<1>. HIDE DEF finds, asks
<1>3. Honest("google", finds, asks)
  BY <1>2, PlainIsHonest DEF Telling
<1>4. Speaks("google", finds, asks) /\ Exposes("google", finds, asks)
  BY <1>2 DEF Speaks, Exposes
<1>. QED
  BY <1>1, <1>3, <1>4, ModuleCollected

LEMMA WaybackInv == OsintInv /\ world \in Worlds /\ CollectWayback => OsintInv'
<1>. SUFFICES ASSUME OsintInv, world \in Worlds, CollectWayback PROVE OsintInv'
  OBVIOUS
<1>. DEFINE finds == WaybackFindings
            asks == {<<"archive", Answers("archive")>>}
<1>1. /\ coming <= Len(Active) /\ coming' = coming + 1 /\ Active[coming] = "wayback"
      /\ reported' = reported \union {[by |-> "wayback", kind |-> f[1], of |-> f[2]] : f \in finds}
      /\ heard' = heard \union {<<"wayback", a[1], a[2]>> : a \in asks}
      /\ UNCHANGED <<world, silent, shifts, wanted, ended>>
  BY Zenon DEF CollectWayback, Collected, Onward, Tells
<1>2. Answers("archive") => <<"archive", TRUE>> \in asks
  BY Zenon DEF Answers
<1>. HIDE DEF asks
<1>3. /\ finds # {} \/ (Answers("archive") /\ world.archive = "short")
      /\ \A f \in finds : f[1] \in {"wayback failed", "module failed"} \/ (f[1] \in {"no snapshots", "snapshots"} /\ Answers("archive"))
  <2>1. /\ \A kind : One(kind) # {}
        /\ \A f \in One("wayback failed") \union One("module failed") : f[1] \in {"wayback failed", "module failed"}
        /\ \A f \in One("no snapshots") \union One("snapshots") : f[1] \in {"no snapshots", "snapshots"}
    BY FindsAre
  <2>2. \/ finds \in {One("wayback failed"), One("module failed")}
        \/ finds \in {One("no snapshots"), One("snapshots")} /\ Answers("archive")
        \/ finds = {} /\ Answers("archive") /\ world.archive = "short"
    BY Zenon DEF WaybackFindings
  <2>. HIDE DEF finds
  <2>. QED
    BY <2>1, <2>2
<1>. HIDE DEF finds
<1>4. Honest("wayback", finds, asks)
  BY <1>2, <1>3 DEF Honest
<1>5. Speaks("wayback", finds, asks) /\ Exposes("wayback", finds, asks)
  BY <1>2, <1>3 DEF Speaks, Exposes
<1>. QED
  BY <1>1, <1>4, <1>5, ModuleCollected

\* Of the components that were detected one of each name is kept.
LEMMA OnePerName ==
  ASSUME NEW ds \in Seq(STRING \X STRING)
  PROVE  /\ \A c, d \in UniqueDetected(ds) : c[1] = d[1] => c = d
         /\ \A c \in ToSet(ds) : \E d \in UniqueDetected(ds) : c[1] = d[1]
<1>. DEFINE First == {k \in 1..Len(ds) : \A j \in 1..(k - 1) : ds[j][1] # ds[k][1]}
<1>1. UniqueDetected(ds) = {ds[i] : i \in First} /\ Len(ds) \in Nat /\ ToSet(ds) = {ds[i] : i \in 1..Len(ds)}
  BY DEF UniqueDetected, ToSet
<1>2. ASSUME NEW k \in First, NEW l \in First, ds[k][1] = ds[l][1] PROVE k = l
  <2>1. ~(k < l) /\ ~(l < k)
    BY <1>1, <1>2
  <2>. QED
    BY <1>1, <2>1
<1>3. ASSUME NEW i \in 1..Len(ds) PROVE \E k \in First : ds[i][1] = ds[k][1]
  <2>. DEFINE same == {j \in 1..Len(ds) : ds[j][1] = ds[i][1]}
  <2>1. same \in SUBSET (1..Len(ds)) /\ same # {}
    OBVIOUS
  <2>2. PICK k \in same : \A j \in same : k <= j
    BY <1>1, <2>1, FirstPlace
  <2>3. ASSUME NEW j \in 1..(k - 1) PROVE ds[j][1] # ds[k][1]
    <3>1. k \in 1..Len(ds) /\ ds[k][1] = ds[i][1] /\ j \in 1..Len(ds) /\ ~(k <= j)
      BY <1>1
    <3>. QED
      BY <2>2, <3>1
  <2>. QED
    BY <2>3
<1>. HIDE DEF First
<1>. QED
  BY <1>1, <1>2, <1>3

\* Joined lists hold what each of them held.
LEMMA AllJoined ==
  ASSUME NEW P, NEW a \in Seq(P), NEW b \in Seq(P), NEW c \in Seq(P)
  PROVE  a \o b \o c \in Seq(P) /\ ToSet(b) \union ToSet(c) \subseteq ToSet(a \o b \o c)
<1>1. ASSUME NEW s \in Seq(P), NEW t \in Seq(P)
      PROVE  s \o t \in Seq(P) /\ ToSet(s) \subseteq ToSet(s \o t) /\ ToSet(t) \subseteq ToSet(s \o t)
  <2>1. s \o t \in Seq(P) /\ Len(s \o t) = Len(s) + Len(t) /\ Len(s) \in Nat /\ Len(t) \in Nat
    OBVIOUS
  <2>2. \A u \in Seq(P) : ToSet(u) = {u[i] : i \in 1..Len(u)}
    BY DEF ToSet
  <2>3. ASSUME NEW i \in 1..Len(s) PROVE i \in 1..Len(s \o t) /\ (s \o t)[i] = s[i]
    BY <2>1
  <2>4. ASSUME NEW i \in 1..Len(t) PROVE Len(s) + i \in 1..Len(s \o t) /\ (s \o t)[Len(s) + i] = t[i]
    BY <2>1
  <2>. DEFINE st == s \o t
  <2>. HIDE DEF st
  <2>5. st \in Seq(P) /\ ToSet(st) = {st[i] : i \in 1..Len(st)}
    <3>1. st \in Seq(P)
      BY <2>1 DEF st
    <3>. QED
      BY <2>2, <3>1
  <2>6. ToSet(s) \subseteq ToSet(st)
    <3>1. SUFFICES ASSUME NEW x \in ToSet(s) PROVE x \in ToSet(st)
      OBVIOUS
    <3>2. PICK i \in 1..Len(s) : x = s[i]
      BY <2>2
    <3>3. i \in 1..Len(st) /\ st[i] = x
      BY <2>3, <3>2 DEF st
    <3>. QED
      BY <2>5, <3>3
  <2>7. ToSet(t) \subseteq ToSet(st)
    <3>1. SUFFICES ASSUME NEW x \in ToSet(t) PROVE x \in ToSet(st)
      OBVIOUS
    <3>2. PICK i \in 1..Len(t) : x = t[i]
      BY <2>2
    <3>3. Len(s) + i \in 1..Len(st) /\ st[Len(s) + i] = x
      BY <2>4, <3>2 DEF st
    <3>. QED
      BY <2>5, <3>3
  <2>. QED
    BY <2>5, <2>6, <2>7 DEF st
<1>2. a \o b \in Seq(P) /\ ToSet(b) \subseteq ToSet(a \o b)
  BY <1>1
<1>3. /\ (a \o b) \o c \in Seq(P) /\ ToSet(a \o b) \subseteq ToSet((a \o b) \o c)
      /\ ToSet(c) \subseteq ToSet((a \o b) \o c)
  BY <1>1, <1>2
<1>. QED
  BY <1>2, <1>3

LEMMA TechInv == OsintInv /\ world \in Worlds /\ CollectTechFingerprint => OsintInv'
<1>. SUFFICES ASSUME OsintInv, world \in Worlds, CollectTechFingerprint PROVE OsintInv'
  OBVIOUS
<1>. DEFINE page == Scheme("root") # "none" /\ ~world.blank
            finds == When(Traits # <<>>,
                       IF page THEN {<<"components", UniqueDetected(Traits)>>, <<"for cves", UniqueDetected(Traits)>>}
                       ELSE {<<"components", ToSet(Traits)>>})
            asks == Asking("root")
<1>1. /\ coming <= Len(Active) /\ coming' = coming + 1 /\ Active[coming] = "tech"
      /\ reported' = reported \union {[by |-> "tech", kind |-> f[1], of |-> f[2]] : f \in finds}
      /\ heard' = heard \union {<<"tech", a[1], a[2]>> : a \in asks}
      /\ UNCHANGED <<world, silent, shifts, wanted, ended>>
  BY Zenon DEF CollectTechFingerprint, Collected, Onward, Tells
<1>2. ASSUME NEW f \in finds
      PROVE  f[1] = "components" \/ (page /\ f = <<"for cves", UniqueDetected(Traits)>>)
  <2>1. \/ f = <<"components", UniqueDetected(Traits)>> \/ f = <<"components", ToSet(Traits)>>
        \/ page /\ f = <<"for cves", UniqueDetected(Traits)>>
    BY Zenon DEF When
  <2>2. f = <<"components", UniqueDetected(Traits)>> \/ f = <<"components", ToSet(Traits)>> => f[1] = "components"
    <3>. DEFINE u == UniqueDetected(Traits)
                t == ToSet(Traits)
    <3>. HIDE DEF u, t, page, finds, asks
    <3>1. f = <<"components", u>> \/ f = <<"components", t>> => f[1] = "components"
      OBVIOUS
    <3>. QED
      BY <3>1 DEF u, t
  <2>. HIDE DEF page
  <2>. QED
    BY <2>1, <2>2, Zenon
<1>3. ASSUME page
      PROVE  /\ \A c, d \in UniqueDetected(Traits) : c[1] = d[1] => c = d
             /\ \A c \in ToSet(world.traces) \union ToSet(world.parts) : \E d \in UniqueDetected(Traits) : c[1] = d[1]
  <2>. DEFINE P == STRING \X STRING
              ports == IF Result("nmap") = "ok" THEN world.services ELSE <<>>
  <2>1. world.services \in Seq(P) /\ world.traces \in Seq(P) /\ world.parts \in Seq(P)
    BY WorldsAssumption
  <2>. HIDE DEF P
  <2>2. ports \in Seq(P)
    <3>1. <<>> \in Seq(P)
      OBVIOUS
    <3>. QED
      BY <2>1, <3>1
  <2>3. Traits = ports \o world.traces \o world.parts
    <3>1. Scheme("root") # "none" /\ ~world.blank
      BY <1>3
    <3>2. Traits = ports \o (IF Scheme("root") = "none" THEN <<>> ELSE world.traces)
                         \o (IF Scheme("root") = "none" \/ world.blank THEN <<>> ELSE world.parts)
      BY Zenon DEF Traits
    <3>. QED
      BY <3>1, <3>2, Zenon
  <2>. HIDE DEF ports
  <2>4. /\ Traits \in Seq(P)
        /\ ToSet(world.traces) \union ToSet(world.parts) \subseteq ToSet(Traits)
    BY <2>1, <2>2, <2>3, AllJoined
  <2>. QED
    BY <2>4, OnePerName DEF P
<1>. HIDE DEF finds, asks, page
<1>4. Honest("tech", finds, asks)
  <2>1. SUFFICES ASSUME NEW f \in finds PROVE Honest("tech", {f}, asks)
    BY DEF Honest
  <2>2. CASE f[1] = "components"
    BY <2>2, PlainIsHonest DEF Telling
  <2>3. CASE page /\ f = <<"for cves", UniqueDetected(Traits)>>
    <3>1. f[1] = "for cves" /\ f[2] = UniqueDetected(Traits)
      BY <2>3
    <3>2. /\ \A c, d \in f[2] : c[1] = d[1] => c = d
          /\ \A c \in ToSet(world.traces) \union ToSet(world.parts) : \E d \in f[2] : c[1] = d[1]
      BY <1>3, <2>3, <3>1
    <3>. QED
      BY <3>1, <3>2 DEF Honest
  <2>. QED
    BY <1>2, <2>2, <2>3
<1>5. Speaks("tech", finds, asks) /\ Exposes("tech", finds, asks)
  BY DEF Speaks, Exposes
<1>. QED
  BY <1>1, <1>4, <1>5, ModuleCollected

LEMMA FrontendInv == OsintInv /\ world \in Worlds /\ CollectFrontend => OsintInv'
<1>. SUFFICES ASSUME OsintInv, world \in Worlds, CollectFrontend PROVE OsintInv'
  OBVIOUS
<1>. DEFINE finds == IF FrontendPage = "none" THEN One("not fetched")
                     ELSE About("secret", Holding("secrets"))
                            \union When(Holding("endpoints") # {}, {<<"endpoints", Holding("endpoints")>>})
                            \union One("collected") \union CveFindings
            asks == Asking("root") \union {<<"nvd", Answers("nvd")>>}
<1>1. /\ coming <= Len(Active) /\ coming' = coming + 1 /\ Active[coming] = "frontend"
      /\ reported' = reported \union {[by |-> "frontend", kind |-> f[1], of |-> f[2]] : f \in finds}
      /\ heard' = heard \union {<<"frontend", a[1], a[2]>> : a \in asks}
      /\ UNCHANGED <<world, silent, shifts, wanted, ended>>
  BY Zenon DEF CollectFrontend, Collected, Onward, Tells
<1>2. Answers("nvd") => <<"nvd", TRUE>> \in asks
  BY Zenon DEF Answers
<1>3. Scheme("root") = "none" => <<"https", FALSE>> \in asks /\ <<"http", FALSE>> \in asks
  BY PageAsked
<1>4. \A f \in CveFindings : f[1] = "no cves" \/ (f[1] = "cves" /\ f[2] \in world.vulnerable /\ Answers("nvd"))
  <2>1. SUFFICES ASSUME NEW f \in CveFindings
                 PROVE  f[1] = "no cves" \/ (f[1] = "cves" /\ f[2] \in world.vulnerable /\ Answers("nvd"))
    OBVIOUS
  <2>2. PICK l \in Holding("libraries") :
          f \in IF Answers("nvd") /\ l \in world.vulnerable THEN About("cves", {l}) ELSE About("no cves", {l})
    BY DEF CveFindings
  <2>. DEFINE it == {l}
  <2>. HIDE DEF it
  <2>a. /\ \A x \in About("cves", it) : x[1] = "cves" /\ x[2] \in it
        /\ \A x \in About("no cves", it) : x[1] = "no cves"
    BY FindsAre
  <2>3. CASE Answers("nvd") /\ l \in world.vulnerable
    <3>1. f \in About("cves", it)
      BY <2>2, <2>3 DEF it
    <3>. QED
      BY <2>a, <2>3, <3>1 DEF it
  <2>4. CASE ~(Answers("nvd") /\ l \in world.vulnerable)
    <3>1. f \in About("no cves", it)
      BY <2>2, <2>4 DEF it
    <3>. QED
      BY <2>a, <3>1
  <2>. QED
    BY <2>3, <2>4
<1>. HIDE DEF asks
<1>5. CASE Scheme("root") = "none"
  <2>1. finds = One("not fetched")
    BY <1>5 DEF FrontendPage
  <2>. HIDE DEF finds
  <2>2. finds # {} /\ \A f \in finds : f[1] = "not fetched"
    BY <2>1, FindsAre
  <2>3. Honest("frontend", finds, asks)
    BY <1>3, <1>5, <2>2 DEF Honest
  <2>4. Speaks("frontend", finds, asks) /\ Exposes("frontend", finds, asks)
    BY <2>2 DEF Speaks, Exposes
  <2>. QED
    BY <1>1, <2>3, <2>4, ModuleCollected
<1>6. CASE Scheme("root") # "none"
  <2>1. /\ One("collected") \subseteq finds
        /\ finds \subseteq About("secret", Holding("secrets")) \union {<<"endpoints", Holding("endpoints")>>}
                            \union One("collected") \union CveFindings
    BY <1>6, Zenon DEF FrontendPage, When
  <2>. HIDE DEF finds
  <2>2. /\ One("collected") # {} /\ \A f \in One("collected") : f[1] = "collected"
        /\ \A f \in About("secret", Holding("secrets")) : f[1] = "secret"
    BY FindsAre
  <2>3. \A f \in {<<"endpoints", Holding("endpoints")>>} : f[1] = "endpoints"
    OBVIOUS
  <2>4. finds # {} /\ \A f \in finds :
          f[1] \notin Telling \/ (f[1] = "cves" /\ f[2] \in world.vulnerable /\ <<"nvd", TRUE>> \in asks)
    BY <1>2, <1>4, <2>1, <2>2, <2>3 DEF Telling
  <2>5. Honest("frontend", finds, asks)
    BY <2>4 DEF Honest, Telling
  <2>6. Speaks("frontend", finds, asks) /\ Exposes("frontend", finds, asks)
    BY <1>6, <2>4 DEF Speaks, Exposes
  <2>. QED
    BY <1>1, <2>5, <2>6, ModuleCollected
<1>. QED
  BY <1>5, <1>6

LEMMA TrivialPathsInv == OsintInv /\ world \in Worlds /\ CollectTrivialPaths => OsintInv'
<1>. SUFFICES ASSUME OsintInv, world \in Worlds, CollectTrivialPaths PROVE OsintInv'
  OBVIOUS
<1>. DEFINE finds == IF TrivialFindings = {} THEN One("none exposed") ELSE TrivialFindings
            asks == {<<"https", Shakes>>}
<1>1. /\ coming <= Len(Active) /\ coming' = coming + 1 /\ Active[coming] = "trivial"
      /\ reported' = reported \union {[by |-> "trivial", kind |-> f[1], of |-> f[2]] : f \in finds}
      /\ heard' = heard \union {<<"trivial", a[1], a[2]>> : a \in asks}
      /\ UNCHANGED <<world, silent, shifts, wanted, ended>>
  BY Zenon DEF CollectTrivialPaths, Collected, Onward, Tells
<1>2. ASSUME NEW a \in asks, a[2] = TRUE PROVE Shakes
  <2>1. PICK b \in BOOLEAN : b = Shakes
    BY DEF Shakes
  <2>2. asks = {<<"https", b>>}
    BY <2>1
  <2>3. b = TRUE
    BY <1>2, <2>2
  <2>. QED
    BY <2>1, <2>3
<1>3. \A f \in TrivialFindings : f[1] \in {"exposed", "high", "medium"}
  <2>1. TrivialFindings \subseteq About("exposed", Graded("critical")) \union {<<"high", Graded("high")>>}
                             \union {<<"medium", Graded("medium") \union Graded("low") \union Graded("info")>>}
    BY Zenon DEF TrivialFindings, When
  <2>2. \A f \in About("exposed", Graded("critical")) : f[1] = "exposed"
    BY FindsAre
  <2>3. \A f \in {<<"high", Graded("high")>>} : f[1] = "high"
    OBVIOUS
  <2>4. \A f \in {<<"medium", Graded("medium") \union Graded("low") \union Graded("info")>>} : f[1] = "medium"
    OBVIOUS
  <2>. QED
    BY <2>1, <2>2, <2>3, <2>4
<1>4. ASSUME Shakes, NEW p \in world.shown, Severity[p] \notin {"low", "info"}
      PROVE  \E f \in TrivialFindings : IF f[1] \in {"high", "medium"} THEN p \in f[2] ELSE f[2] = p
  <2>1. Severity[p] \in {"critical", "high", "medium"} /\ p \in Graded(Severity[p])
    BY <1>4, WorldsAssumption DEF Graded, Reachable
  <2>2. CASE Severity[p] = "critical"
    <3>1. p \in Graded("critical")
      BY <2>1, <2>2
    <3>2. <<"exposed", p>> \in TrivialFindings
      BY <3>1, FindsAre DEF TrivialFindings
    <3>. QED
      BY <3>2
  <2>3. CASE Severity[p] = "high"
    <3>1. p \in Graded("high")
      BY <2>1, <2>3
    <3>2. <<"high", Graded("high")>> \in TrivialFindings
      BY <3>1 DEF TrivialFindings, When
    <3>. QED
      BY <3>1, <3>2
  <2>4. CASE Severity[p] = "medium"
    <3>1. p \in Graded("medium")
      BY <2>1, <2>4
    <3>2. <<"medium", Graded("medium") \union Graded("low") \union Graded("info")>> \in TrivialFindings
      BY <3>1 DEF TrivialFindings, When
    <3>. QED
      BY <3>1, <3>2
  <2>. QED
    BY <2>1, <2>2, <2>3, <2>4
<1>5. finds # {} /\ \A f \in finds : f[1] \in {"none exposed", "exposed", "high", "medium"}
  <2>1. CASE TrivialFindings = {}
    BY <2>1, FindsAre
  <2>2. CASE TrivialFindings # {}
    BY <1>3, <2>2
  <2>. QED
    BY <2>1, <2>2
<1>6. TrivialFindings # {} => finds = TrivialFindings
  OBVIOUS
<1>. HIDE DEF finds, asks
<1>7. Honest("trivial", finds, asks)
  BY <1>5 DEF Honest
<1>8. Speaks("trivial", finds, asks)
  BY <1>5 DEF Speaks
<1>9. Exposes("trivial", finds, asks)
  <2>1. SUFFICES ASSUME Shakes, NEW p \in world.shown, Severity[p] \notin {"low", "info"}
                 PROVE  /\ \E f \in finds : IF f[1] \in {"high", "medium"} THEN p \in f[2] ELSE f[2] = p
                        /\ \A f \in finds : f[1] # "none exposed"
    BY <1>2 DEF Exposes
  <2>2. finds = TrivialFindings
    BY <1>4, <1>6, <2>1
  <2>3. \A f \in finds : f[1] # "none exposed"
    BY <1>3, <2>2
  <2>. QED
    BY <1>4, <2>1, <2>2, <2>3
<1>. QED
  BY <1>1, <1>7, <1>8, <1>9, ModuleCollected

\* Before the first collector nothing is told and nothing heard.
LEMMA OsintInitInv ==
  ASSUME OsintInit, silent \in Troubles
  PROVE  OsintInv
<1>1. /\ shifts = 0 /\ coming = 1 /\ reported = {} /\ heard = {}
  BY DEF OsintInit
<1>2. Collecting = {}
  BY <1>1 DEF Collecting
<1>3. OsintTypeOK
  BY <1>1, ActiveOnce, OsintAssumption DEF OsintTypeOK
<1>4. ToldWasSaid /\ NamesComplete /\ BasesCovered
  BY <1>1 DEF ToldWasSaid, NamesComplete, BasesCovered
<1>5. NoSilentModule /\ SteadyInv
  BY <1>1, <1>2 DEF NoSilentModule, SteadyInv
<1>6. ExposedTold
  BY <1>1 DEF ExposedTold, Spoke
<1>. QED
  BY <1>3, <1>4, <1>5, <1>6 DEF OsintInv

\* What leaves the scan as it is keeps the invariant, and so does a shift of the network, which may
\* make two modules disagree from then on.
LEMMA OsintUntouched ==
  ASSUME OsintInv, UNCHANGED <<world, wanted, coming, reported, heard>>,
         UNCHANGED <<silent, shifts>> \/ Shift
  PROVE  OsintInv'
<1>1. Active' = Active /\ Collecting' = Collecting
  BY DEF Active, Chosen, Collecting
<1>2. OsintTypeOK'
  <2>1. silent' \in Troubles /\ shifts' \in 0..MaxShifts
    BY OsintAssumption DEF OsintInv, OsintTypeOK, Shift
  <2>. QED
    BY <1>1, <2>1 DEF OsintInv, OsintTypeOK
<1>3. ToldWasSaid' /\ NamesComplete' /\ BasesCovered' /\ ExposedTold'
  BY DEF OsintInv, ToldWasSaid, NamesComplete, BasesCovered, ExposedTold, Spoke, Unheard
<1>4. NoSilentModule'
  BY <1>1 DEF OsintInv, NoSilentModule, Spoke
<1>5. SteadyInv'
  <2>1. CASE UNCHANGED <<silent, shifts>>
    <3>1. Scheme("root")' = Scheme("root")
      BY <2>1 DEF Scheme, Serves, Answers
    <3>. QED
      BY <1>1, <2>1, <3>1 DEF OsintInv, SteadyInv
  <2>2. CASE Shift
    <3>1. shifts' # 0
      BY <2>2 DEF Shift, OsintInv, OsintTypeOK
    <3>. QED
      BY <3>1 DEF SteadyInv
  <2>. QED
    BY <2>1, <2>2
<1>. QED
  BY <1>2, <1>3, <1>4, <1>5 DEF OsintInv

---------------------------------------------------------------------------
(* What is read off the sources. *)

LEMMA MinIs ==
  ASSUME NEW S, \A x \in S : x \in Int, NEW m \in S, \A x \in S : m <= x
  PROVE  Min(S) = m
BY DEF Min

\* Any lines have a first one.
LEMMA HasMin ==
  ASSUME NEW n \in Nat, NEW S \in SUBSET (1..n), S # {}
  PROVE  Min(S) \in S /\ \A x \in S : Min(S) <= x
<1>1. PICK m \in S : \A x \in S : m <= x
  BY FirstPlace
<1>2. \A x \in S : x \in Int
  OBVIOUS
<1>3. Min(S) = m
  BY <1>1, <1>2, MinIs
<1>. QED
  BY <1>1, <1>3

\* The inductive invariant of the reading: what was read is what the operators give.
ReadInv ==
  /\ source.width \in Nat /\ source.lines \in Seq(Line)
  /\ stage = "detect" => gates = {}
  /\ controllers \subseteq Detected
  /\ gates \subseteq Gates
  /\ functions \subseteq {FunctionOf(i) : i \in LastOfName}
  /\ bodies \subseteq {BodyFor(L(j).name) : j \in Mapped}
  /\ bodies # {} => source.framework \in Python \/ Braced

LEMMA LinesAre ==
  ASSUME ReadInv
  PROVE  /\ Lines = 1..Len(source.lines) /\ Len(source.lines) \in Nat
         /\ \A i \in Lines : L(i) \in Line /\ i \in Int
BY DEF ReadInv, Lines, L

\* A line is routed by itself, or is one of its resources.
LEMMA ControllerIs ==
  ASSUME ReadInv, NEW c \in controllers
  PROVE  \/ \E i \in Lines : L(i).kind = "route" /\ c = RouteOf(i) /\ c.line = i /\ c.handler = HandlerOf(i)
         \/ /\ source.framework \in {"rails", "laravel"}
            /\ \E i \in Lines : L(i).kind = "resource" /\ c.line = i /\ c.handler = L(i).name
<1>1. c \in Detected
  BY DEF ReadInv
<1>2. CASE c \in {RouteOf(i) : i \in {j \in Lines : L(j).kind = "route"}}
  BY <1>2 DEF RouteOf
<1>3. CASE c \notin {RouteOf(i) : i \in {j \in Lines : L(j).kind = "route"}}
  <2>1. /\ source.framework \in {"rails", "laravel"}
        /\ c \in UNION {ResourcesOf(i) : i \in {j \in Lines : L(j).kind = "resource"}}
    BY <1>1, <1>3 DEF Detected
  <2>2. PICK i \in Lines : L(i).kind = "resource" /\ c \in ResourcesOf(i)
    BY <2>1
  <2>3. c.line = i /\ c.handler = L(i).name
    BY <2>2 DEF ResourcesOf
  <2>. QED
    BY <2>1, <2>2, <2>3
<1>. QED
  BY <1>2, <1>3

LEMMA HandlersAreOwn == ReadInv => HandlersOwn
<1>. SUFFICES ASSUME ReadInv, NEW c \in controllers, NEW d \in OwnDef(c.line),
                     \/ source.framework = "fastapi" /\ d <= c.line + Window
                     \/ source.framework \in Routed /\ Simple(d)
              PROVE  c.handler = L(d).name
  BY DEF HandlersOwn
<1>. DEFINE i == c.line
<1>1. i \in Lines /\ c.handler = HandlerOf(i)
  BY ControllerIs DEF Routed
<1>. HIDE DEF i
<1>2. d \in After(i, "def") /\ d \in Int /\ i \in Int
  BY <1>1, LinesAre DEF OwnDef, After, i
<1>3. \A j \in After(i, "def") \union After(i, "branch") : j \in Int /\ d <= j
  <2>1. SUFFICES ASSUME NEW j \in After(i, "def") \union After(i, "branch"), j < d PROVE FALSE
    BY <1>2, LinesAre DEF After
  <2>2. j \in (i + 1)..(d - 1) /\ L(j).kind # "gate"
    BY <1>2, <2>1, LinesAre DEF After
  <2>3. L(j).kind = "gate"
    BY <2>2 DEF OwnDef, IsGate, i
  <2>. QED
    BY <2>2, <2>3
<1>4. CASE source.framework = "fastapi" /\ d <= c.line + Window
  <2>. DEFINE S == {j \in After(i, "def") : j <= i + Window}
  <2>1. d \in S /\ \A j \in S : j \in Int /\ d <= j
    BY <1>2, <1>3, <1>4 DEF i
  <2>. HIDE DEF S
  <2>2. Min(S) = d
    BY <2>1, MinIs
  <2>3. FirstDefNear(i) = L(d).name
    BY <2>1, <2>2 DEF FirstDefNear, NameAt, S
  <2>. QED
    BY <1>1, <1>4, <2>3 DEF HandlerOf, Routed
<1>5. CASE source.framework \in Routed /\ Simple(d)
  <2>. DEFINE S == {j \in After(i, "def") : Simple(j)}
                     \union IF source.framework = "nestjs" THEN After(i, "branch") ELSE {}
  <2>1. d \in S /\ \A j \in S : j \in Int /\ d <= j
    BY <1>2, <1>3, <1>5
  <2>. HIDE DEF S
  <2>2. Min(S) = d
    BY <2>1, MinIs
  <2>3. FirstDef(i) = L(d).name
    BY <2>1, <2>2 DEF FirstDef, NameAt, S
  <2>. QED
    BY <1>1, <1>5, <2>3 DEF HandlerOf, Routed
<1>. QED
  BY <1>4, <1>5

\* A gate without arguments right above a function is no part of its header.
LEMMA HeaderHere ==
  ASSUME NEW d, d \in Int, d \in 1..d, L(d).kind = "def", ~(Empty(d - 1) \/ (IsGate(d - 1) /\ L(d - 1).args))
  PROVE  HeaderOf(d) = d
<1>. DEFINE S == {j \in 1..d : OfHeader(j, d)}
<1>1. d \in S
  BY DEF OfHeader, Empty
<1>2. ASSUME NEW j \in S PROVE j \in Int /\ d <= j
  <2>1. j \in 1..d /\ OfHeader(j, d)
    OBVIOUS
  <2>2. ~(d - 1 \in j..(d - 1))
    BY <2>1, Zenon DEF OfHeader
  <2>. QED
    BY <2>1, <2>2
<1>. HIDE DEF S
<1>3. Min(S) = d
  BY <1>1, <1>2, MinIs
<1>. QED
  BY <1>3 DEF HeaderOf, S

LEMMA GatesAreSeen == ReadInv => GateSeen
<1>. SUFFICES ASSUME ReadInv, NEW g \in gates PROVE
       /\ g[2] => \E i \in Lines : IsGate(i)
       /\ (source.framework = "fastapi" /\ L(g[1].line + 1).kind = "gate" /\ ~L(g[1].line + 1).args
             /\ g[1].line + 2 \in DefsNamed(g[1].handler) /\ Min(DefsNamed(g[1].handler)) = g[1].line + 2) => g[2]
  BY DEF GateSeen
<1>0. g \in Gates
  BY DEF ReadInv
<1>1. ASSUME g[2] PROVE \E i \in Lines : IsGate(i)
  <2>1. PICK c \in controllers : g = <<c, PythonGate(c)>> \/ g = <<c, ScriptGate(c)>>
    BY <1>0, Zenon DEF Gates
  <2>2. PythonGate(c) \/ ScriptGate(c)
    <3>1. CASE g = <<c, PythonGate(c)>>
      <4>1. g[2] = PythonGate(c)
        BY <3>1, Zenon
      <4>. QED
        BY <1>1, <4>1, Zenon
    <3>2. CASE g = <<c, ScriptGate(c)>>
      <4>1. g[2] = ScriptGate(c)
        BY <3>2, Zenon
      <4>. QED
        BY <1>1, <4>1, Zenon
    <3>. QED
      BY <2>1, <3>1, <3>2
  <2>. QED
    BY <2>2 DEF PythonGate, ScriptGate, Before
<1>2. ASSUME source.framework = "fastapi", L(g[1].line + 1).kind = "gate", ~L(g[1].line + 1).args,
             g[1].line + 2 \in DefsNamed(g[1].handler), Min(DefsNamed(g[1].handler)) = g[1].line + 2
      PROVE  g[2]
  <2>1. PICK c \in controllers : g = <<c, PythonGate(c)>>
    BY <1>0, <1>2 DEF Gates, Python, JavaScript
  <2>2. g[1] = c /\ g[2] = PythonGate(c)
    BY <2>1, Zenon
  <2>. DEFINE d == c.line + 2
  <2>3. c.line \in Lines
    BY ControllerIs
  <2>4. d \in Lines /\ d \in Int /\ c.line + 1 \in Lines /\ c.line \in Int
    <3>1. d \in Lines
      BY <1>2, <2>2 DEF DefsNamed
    <3>. QED
      BY <2>3, <3>1, LinesAre
  <2>5. HeaderOf(d) = d
    <3>1. c.line + 1 = d - 1 /\ d \in 1..d
      BY <2>3, <2>4, LinesAre
    <3>2. ~(Empty(d - 1) \/ (IsGate(d - 1) /\ L(d - 1).args))
      BY <1>2, <2>2, <3>1 DEF Empty
    <3>3. L(d).kind = "def"
      BY <1>2, <2>2 DEF DefsNamed
    <3>. HIDE DEF d
    <3>. QED
      BY <2>4, <3>1, <3>2, <3>3, HeaderHere
  <2>6. c.line + 1 \in Before(d) /\ IsGate(c.line + 1)
    BY <1>2, <2>2, <2>4, SourcesAssumption DEF Before, IsGate
  <2>7. Min(DefsNamed(c.handler)) = d
    BY <1>2, <2>2
  <2>8. PythonGate(c)
    BY <2>5, <2>6, <2>7 DEF PythonGate
  <2>. QED
    BY <2>2, <2>8, Zenon
<1>. QED
  BY <1>1, <1>2

\* Indents of more columns than two each: only no indent at all is within two columns.
LEMMA WideIndent ==
  ASSUME NEW n \in Nat, NEW w \in Nat
  PROVE  /\ n * w \in Nat
         /\ w > 2 => (n * w <= 2 <=> n <= 0)
         /\ \A m \in Nat : m <= n => m * w <= n * w
<1>1. n * w \in Nat
  OBVIOUS
<1>2. ASSUME w > 2 PROVE n * w <= 2 <=> n <= 0
  <2>1. CASE n = 0
    BY <2>1
  <2>2. CASE n # 0
    <3>1. n * w = (n - 1) * w + w /\ (n - 1) * w >= 0
      BY <2>2
    <3>. QED
      BY <1>2, <2>2, <3>1
  <2>. QED
    BY <2>1, <2>2
<1>3. ASSUME NEW m \in Nat, m <= n PROVE m * w <= n * w
  <2>1. n * w = m * w + (n - m) * w /\ (n - m) * w >= 0 /\ m * w \in Nat
    BY <1>3
  <2>. QED
    BY <1>1, <2>1
<1>. QED
  BY <1>1, <1>2, <1>3

LEMMA BodiesOfTop == ReadInv => TopLevelBodies
<1>. SUFFICES ASSUME ReadInv, NEW f \in functions, source.framework \in Python, source.width > 2, L(f.line).indent = 0
              PROVE  f.calls = CallsIn(Block(f.line)) \ {f.name}
  BY DEF TopLevelBodies
<1>1. PICK i \in LastOfName : f = FunctionOf(i)
  BY DEF ReadInv
<1>2. f.line = i /\ f.name = L(i).name /\ f.calls = CallsIn(GraphBody(i)) \ {L(i).name}
  BY <1>1 DEF FunctionOf, BodyOf, Braced, Python, JavaScript
<1>3. \A j \in Lines : Column(j) <= 2 <=> L(j).indent <= L(i).indent
  <2>1. SUFFICES ASSUME NEW j \in Lines PROVE L(j).indent * source.width <= 2 <=> L(j).indent <= 0
    BY <1>2 DEF Column
  <2>2. L(j).indent \in Nat /\ source.width \in Nat
    BY LinesAre DEF Line, ReadInv
  <2>. QED
    BY <2>2, WideIndent
<1>4. GraphBody(i) = Block(i)
  BY <1>3 DEF GraphBody, Block, Until
<1>. QED
  BY <1>2, <1>4

\* A body read by indentation lies within the function, if that has lines of its own and a whole
\* header, or no indent.
LEMMA IndentInBlock ==
  ASSUME ReadInv, NEW i \in Lines, NEW h \in Block(i), ~Empty(h), Whole(i) \/ L(i).indent = 0
  PROVE  IndentBody(i) \subseteq Block(i) /\ (Whole(i) => IndentBody(i) # {})
<1>1. /\ i \in Int /\ L(i).indent \in Nat /\ source.width \in Nat
      /\ \A j \in Lines : j \in Int /\ L(j).indent \in Nat
  BY LinesAre DEF Line, ReadInv
<1>2. CASE ~Whole(i)
  <2>1. ASSUME NEW j \in Lines, L(j).indent <= L(i).indent PROVE Column(j) = 0
    BY <1>1, <1>2, <2>1 DEF Column
  <2>2. IndentBody(i) = Until(i, LAMBDA j : Column(j) <= IF L(i).shape = "nested" THEN 0 ELSE 1)
    BY <1>2 DEF IndentBody
  <2>3. IndentBody(i) \subseteq Block(i)
    BY <2>1, <2>2 DEF Block, Until
  <2>. QED
    BY <1>2, <2>3
<1>3. CASE Whole(i)
  <2>. DEFINE first == {j \in Lines : j > i /\ ~Empty(j)}
              m == Min(first)
  <2>1. h \in first
    BY DEF Block, Until
  <2>2. m \in first /\ \A j \in first : m <= j
    <3>1. first \in SUBSET (1..Len(source.lines)) /\ Len(source.lines) \in Nat
      BY LinesAre
    <3>. HIDE DEF first
    <3>. QED
      BY <2>1, <3>1, HasMin
  <2>. HIDE DEF m
  <2>3. IndentBody(i) = {j \in Until(m, LAMBDA k : Column(k) <= Column(m)) \union {m} : j > i}
    BY <1>3, <2>1 DEF IndentBody, m
  <2>4. \A j \in first : j \in Lines /\ j \in Int /\ j > i /\ ~Empty(j) /\ L(j).indent \in Nat
    BY <1>1
  <2>5. ~(L(m).indent <= L(i).indent)
    <3>1. L(m).indent <= L(i).indent => h < m
      BY <2>2, <2>4 DEF Block, Until
    <3>. QED
      BY <2>1, <2>2, <2>4, <3>1
  <2>6. ASSUME NEW j \in IndentBody(i) PROVE j \in Block(i)
    <3>1. j \in Lines /\ j > i /\ j \in Int
      <4>1. j \in Lines /\ j > i
        BY <2>2, <2>3, <2>6 DEF Until
      <4>. QED
        BY <1>1, <4>1
    <3>2. ASSUME NEW k \in Lines, k > i, ~Empty(k), L(k).indent <= L(i).indent PROVE j < k
      <4>1. k \in first /\ m <= k /\ k # m /\ k \in Int /\ m \in Int
        BY <2>2, <2>4, <2>5, <3>2
      <4>2. Column(k) <= Column(m)
        <5>1. L(k).indent \in Nat /\ L(m).indent \in Nat /\ L(k).indent <= L(m).indent
          BY <1>1, <2>2, <2>4, <2>5, <3>2, <4>1
        <5>. QED
          BY <1>1, <5>1, WideIndent DEF Column
      <4>3. CASE j = m
        BY <4>1, <4>3
      <4>4. CASE j \in Until(m, LAMBDA x : Column(x) <= Column(m))
        BY <3>2, <4>1, <4>2, <4>4 DEF Until
      <4>. QED
        BY <2>3, <2>6, <4>3, <4>4
    <3>. QED
      BY <3>1, <3>2 DEF Block, Until
  <2>7. m \in IndentBody(i)
    BY <2>2, <2>3, <2>4
  <2>. QED
    BY <2>6, <2>7
<1>. QED
  BY <1>2, <1>3

\* The first of some lines is one of them.
LEMMA FirstOfLines == ASSUME ReadInv, NEW S \in SUBSET Lines, S # {} PROVE Min(S) \in S
BY LinesAre, HasMin

LEMMA TaintInBlock == ReadInv => TaintWithinBlock
<1>. SUFFICES ASSUME ReadInv, NEW b \in bodies, DefsNamed(b.name) # {},
                     \A i \in DefsNamed(b.name) :
                       /\ \E j \in Block(i) : ~Empty(j)
                       /\ i \in FoundOf(b.name) \/ (source.framework \in Python /\ L(i).indent = 0)
              PROVE  \E i \in DefsNamed(b.name) :
                       b.searched \subseteq Block(i) /\ (Braced \/ b.called \subseteq Block(i))
  BY Zenon DEF TaintWithinBlock
<1>1. PICK n : b = BodyFor(n)
  BY DEF ReadInv
<1>2. b.name = n /\ b.called = CalledBody(n) /\ b.searched = SearchedBody(n)
  BY <1>1 DEF BodyFor
<1>3. FoundOf(n) \subseteq DefsNamed(n) /\ DefsNamed(n) \subseteq Lines /\ \A i \in FoundOf(n) : Whole(i)
  BY DEF FoundOf, DefsNamed
<1>4. PlacesOf(n) # {} /\ PlacesOf(n) \subseteq DefsNamed(n)
  BY <1>2, <1>3 DEF PlacesOf
<1>5. PICK i \in DefsNamed(n) : i = Min(PlacesOf(n))
  BY <1>3, <1>4, FirstOfLines
<1>6. Whole(i) \/ L(i).indent = 0
  BY <1>2, <1>3, <1>5
<1>7. PICK h \in Block(i) : ~Empty(h)
  BY <1>2, <1>5
<1>8. IndentBody(i) \subseteq Block(i) /\ (Whole(i) => IndentBody(i) # {})
  BY <1>3, <1>6, <1>7, IndentInBlock
<1>9. SearchedBody(n) = IndentBody(i)
  BY <1>4, <1>5, <1>8 DEF SearchedBody
<1>10. Braced \/ CalledBody(n) = IndentBody(i)
  BY <1>5 DEF CalledBody, ReadInv
<1>. QED
  BY <1>2, <1>5, <1>8, <1>9, <1>10

LEMMA SourcesTyped == ReadInv => SourcesTypeOK
<1>. SUFFICES ASSUME ReadInv PROVE SourcesTypeOK
  OBVIOUS
<1>1. \A c \in controllers : L(c.line).kind \in {"route", "resource"}
  BY ControllerIs
<1>2. \A g \in gates : g[1] \in controllers
  <2>1. SUFFICES ASSUME NEW g \in gates PROVE g[1] \in controllers
    OBVIOUS
  <2>2. PICK c \in controllers : g = <<c, PythonGate(c)>> \/ g = <<c, ScriptGate(c)>>
    BY Zenon DEF Gates, ReadInv
  <2>3. CASE g = <<c, PythonGate(c)>>
    BY <2>3, Zenon
  <2>4. CASE g = <<c, ScriptGate(c)>>
    BY <2>4, Zenon
  <2>. QED
    BY <2>2, <2>3, <2>4
<1>3. ASSUME NEW f \in functions, NEW g \in functions, f.name = g.name PROVE f = g
  <2>1. PICK i \in LastOfName, j \in LastOfName : f = FunctionOf(i) /\ g = FunctionOf(j)
    BY DEF ReadInv
  <2>2. L(i).name = L(j).name /\ i \in Lines /\ j \in Lines /\ IsFunction(i) /\ IsFunction(j)
    BY <1>3, <2>1 DEF FunctionOf, LastOfName
  <2>3. ~(i > j) /\ ~(j > i)
    BY <2>2 DEF LastOfName
  <2>4. i \in Int /\ j \in Int
    BY LinesAre DEF LastOfName
  <2>. QED
    BY <2>1, <2>3, <2>4
<1>. QED
  BY <1>1, <1>2, <1>3 DEF SourcesTypeOK

\* The lines of a kind among those after i up to j, and how many there are.
OfKind(i, j, kinds) == {k \in (i + 1)..j : L(k).kind \in kinds}
HowMany(i, j, kinds) == Cardinality(OfKind(i, j, kinds))

LEMMA Counting ==
  ASSUME NEW i \in Nat, NEW j \in Nat, NEW kinds
  PROVE  /\ HowMany(i, j, kinds) \in Nat
         /\ \A k \in (i + 1)..j : L(k).kind \in kinds => HowMany(i, j, kinds) # 0
         /\ j > i => HowMany(i, j, kinds) = HowMany(i, j - 1, kinds) + IF L(j).kind \in kinds THEN 1 ELSE 0
         /\ j <= i => HowMany(i, j, kinds) = 0
<1>1. IsFiniteSet(OfKind(i, j, kinds)) /\ IsFiniteSet(OfKind(i, j - 1, kinds))
  <2>1. IsFiniteSet((i + 1)..j) /\ IsFiniteSet((i + 1)..(j - 1))
    BY FS_Interval
  <2>2. OfKind(i, j, kinds) \subseteq (i + 1)..j /\ OfKind(i, j - 1, kinds) \subseteq (i + 1)..(j - 1)
    BY DEF OfKind
  <2>. QED
    BY <2>1, <2>2, FS_Subset
<1>2. HowMany(i, j, kinds) \in Nat /\ HowMany(i, j - 1, kinds) \in Nat
  BY <1>1, FS_CardinalityType DEF HowMany
<1>3. ASSUME NEW k \in (i + 1)..j, L(k).kind \in kinds PROVE HowMany(i, j, kinds) # 0
  <2>1. OfKind(i, j, kinds) # {}
    BY <1>3 DEF OfKind
  <2>. QED
    BY <1>1, <2>1, FS_EmptySet DEF HowMany
<1>4. ASSUME j > i PROVE HowMany(i, j, kinds) = HowMany(i, j - 1, kinds) + IF L(j).kind \in kinds THEN 1 ELSE 0
  <2>1. (i + 1)..j = ((i + 1)..(j - 1)) \union {j} /\ j \notin (i + 1)..(j - 1)
    BY <1>4
  <2>2. CASE L(j).kind \in kinds
    <3>1. OfKind(i, j, kinds) = OfKind(i, j - 1, kinds) \union {j} /\ j \notin OfKind(i, j - 1, kinds)
      BY <2>1, <2>2 DEF OfKind
    <3>. QED
      BY <1>1, <2>2, <3>1, FS_AddElement DEF HowMany
  <2>3. CASE L(j).kind \notin kinds
    <3>1. OfKind(i, j, kinds) = OfKind(i, j - 1, kinds)
      BY <2>1, <2>3 DEF OfKind
    <3>. QED
      BY <1>2, <2>3, <3>1 DEF HowMany
  <2>. QED
    BY <2>2, <2>3
<1>5. ASSUME j <= i PROVE HowMany(i, j, kinds) = 0
  <2>1. OfKind(i, j, kinds) = {}
    BY <1>5 DEF OfKind
  <2>. QED
    BY <2>1, FS_EmptySet DEF HowMany
<1>. QED
  BY <1>2, <1>3, <1>4, <1>5

\* The first line that closes more than was opened follows a line that closed as much, if anything
\* was opened before it.
LEMMA ClosedBefore ==
  ASSUME ReadInv, NEW i \in Lines, NEW k \in Lines, k > i,
         HowMany(i, k, {"close"}) > HowMany(i, k, Openers),
         \A x \in (i + 1)..(k - 1) : HowMany(i, x, {"close"}) <= HowMany(i, x, Openers),
         NEW o \in (i + 1)..(k - 1), L(o).kind \in Openers
  PROVE  \E m \in Lines : /\ i < m /\ m < k /\ L(m).kind = "close"
                         /\ HowMany(i, m, Openers) = HowMany(i, m, {"close"})
                         /\ \E x \in Lines : i < x /\ x < m /\ L(x).kind \in Openers
<1>. DEFINE Up(j) == HowMany(i, j, Openers)
            Down(j) == HowMany(i, j, {"close"})
            Braces == Openers \union {"close"}
            S == OfKind(i, k - 1, Braces)
<1>0. /\ Lines = 1..Len(source.lines) /\ Len(source.lines) \in Nat /\ i \in Nat /\ k \in Nat /\ o \in Nat
  BY LinesAre
<1>1. \A j \in Nat : /\ Up(j) \in Nat /\ Down(j) \in Nat
                     /\ j > i => Up(j) = Up(j - 1) + IF L(j).kind \in Openers THEN 1 ELSE 0
                     /\ j > i => Down(j) = Down(j - 1) + IF L(j).kind \in {"close"} THEN 1 ELSE 0
                     /\ j <= i => Up(j) = 0 /\ Down(j) = 0
                     /\ \A x \in (i + 1)..j : L(x).kind \in Openers => Up(j) # 0
  <2>. DEFINE ups == Openers
              downs == {"close"}
  <2>1. SUFFICES ASSUME NEW j \in Nat
                 PROVE  /\ HowMany(i, j, ups) \in Nat /\ HowMany(i, j, downs) \in Nat
                        /\ j > i => HowMany(i, j, ups) = HowMany(i, j - 1, ups) + IF L(j).kind \in ups THEN 1 ELSE 0
                        /\ j > i => HowMany(i, j, downs) = HowMany(i, j - 1, downs) + IF L(j).kind \in downs THEN 1 ELSE 0
                        /\ j <= i => HowMany(i, j, ups) = 0 /\ HowMany(i, j, downs) = 0
                        /\ \A x \in (i + 1)..j : L(x).kind \in ups => HowMany(i, j, ups) # 0
    BY Zenon
  <2>. HIDE DEF ups, downs
  <2>0. i \in Nat
    BY <1>0
  <2>2. ASSUME NEW kinds
        PROVE  /\ HowMany(i, j, kinds) \in Nat
               /\ j > i => HowMany(i, j, kinds) = HowMany(i, j - 1, kinds) + IF L(j).kind \in kinds THEN 1 ELSE 0
               /\ j <= i => HowMany(i, j, kinds) = 0
               /\ \A x \in (i + 1)..j : L(x).kind \in kinds => HowMany(i, j, kinds) # 0
    <3>1. HowMany(i, j, kinds) \in Nat /\ \A x \in (i + 1)..j : L(x).kind \in kinds => HowMany(i, j, kinds) # 0
      BY <2>0, Counting
    <3>2. j > i => HowMany(i, j, kinds) = HowMany(i, j - 1, kinds) + IF L(j).kind \in kinds THEN 1 ELSE 0
      BY <2>0, Counting
    <3>3. j <= i => HowMany(i, j, kinds) = 0
      BY <2>0, Counting
    <3>. QED
      BY <3>1, <3>2, <3>3
  <2>. QED
    BY <2>2
<1>. HIDE DEF Up, Down
<1>2. Up(k - 1) = Down(k - 1)
  <2>1. Up(k) = Up(k - 1) + (IF L(k).kind \in Openers THEN 1 ELSE 0)
        /\ Down(k) = Down(k - 1) + (IF L(k).kind \in {"close"} THEN 1 ELSE 0)
    BY <1>0, <1>1 DEF Braces
  <2>2. Up(k - 1) \in Nat /\ Down(k - 1) \in Nat /\ Down(k) > Up(k) /\ Down(k - 1) <= Up(k - 1)
    BY <1>0, <1>1 DEF Up, Down
  <2>. QED
    BY <2>1, <2>2
<1>3. PICK m \in S : \A x \in S : x <= m
  <2>1. S \subseteq 1..(k - 1)
    BY <1>0 DEF OfKind
  <2>2. o \in S
    BY DEF OfKind
  <2>3. k - 1 \in Nat
    BY <1>0
  <2>. HIDE DEF S
  <2>. QED
    BY <2>1, <2>2, <2>3, LastPlace
<1>4. m \in (i + 1)..(k - 1) /\ L(m).kind \in Braces /\ m \in Lines /\ m \in Nat
  BY <1>0 DEF OfKind
<1>5. o <= m
  <2>1. o \in S
    BY DEF OfKind
  <2>. QED
    BY <1>3, <2>1
<1>6. Up(m) = Up(k - 1) /\ Down(m) = Down(k - 1)
  <2>1. ASSUME NEW x \in (i + 1)..(k - 1), L(x).kind \in Braces PROVE x \in (i + 1)..m
    <3>1. x \in S
      BY <2>1 DEF OfKind
    <3>. QED
      BY <1>3, <1>4, <3>1
  <2>2. /\ OfKind(i, m, Openers) = OfKind(i, k - 1, Openers)
        /\ OfKind(i, m, {"close"}) = OfKind(i, k - 1, {"close"})
    BY <1>0, <1>4, <2>1 DEF OfKind
  <2>. QED
    BY <2>2 DEF Up, Down, HowMany
<1>7. Up(m) = Down(m) /\ Up(m) # 0
  <2>1. o \in (i + 1)..m /\ L(o).kind \in Openers
    BY <1>0, <1>4, <1>5
  <2>. QED
    BY <1>1, <1>2, <1>4, <1>6, <2>1
<1>8. L(m).kind = "close"
  <2>1. SUFFICES ASSUME L(m).kind \in Openers PROVE FALSE
    BY <1>4
  <2>2. Up(m) = Up(m - 1) + 1 /\ Down(m) = Down(m - 1) /\ m - 1 \in Nat /\ Up(m - 1) \in Nat /\ Down(m - 1) \in Nat
    <3>1. m > i /\ m - 1 \in Nat /\ L(m).kind \notin {"close"}
      BY <1>0, <1>4, <2>1 DEF Openers
    <3>. QED
      BY <1>1, <1>4, <2>1, <3>1
  <2>3. Down(m - 1) <= Up(m - 1)
    <3>1. CASE m - 1 = i
      <4>1. i \in Nat /\ i <= i
        BY <1>0
      <4>2. Up(i) = 0 /\ Down(i) = 0
        BY <1>1, <4>1
      <4>3. Up(m - 1) = 0 /\ Down(m - 1) = 0
        BY <3>1, <4>2
      <4>. QED
        BY <4>3
    <3>2. CASE m - 1 # i
      <4>1. m - 1 \in (i + 1)..(k - 1)
        BY <1>0, <1>4, <3>2
      <4>. QED
        BY <4>1 DEF Up, Down
    <3>. QED
      BY <3>1, <3>2
  <2>. QED
    <3>1. PICK u \in Nat, d \in Nat : u = Up(m - 1) /\ d = Down(m - 1)
      BY <2>2
    <3>2. Up(m) = u + 1 /\ Down(m) = d /\ d <= u
      BY <2>2, <2>3, <3>1
    <3>3. u + 1 = d
      BY <1>7, <3>2
    <3>. QED
      BY <3>1, <3>2, <3>3
<1>9. \E x \in Lines : i < x /\ x < m /\ L(x).kind \in Openers
  <2>1. o # m
    BY <1>8 DEF Openers
  <2>. QED
    BY <1>0, <1>4, <1>5, <2>1
<1>. QED
  BY <1>0, <1>4, <1>7, <1>8, <1>9 DEF Up, Down

LEMMA BraceInBlock == ReadInv => BraceWithinBlock
<1>. SUFFICES ASSUME ReadInv, NEW b \in bodies, Braced, FoundOf(b.name) # {},
                     \A x \in FoundOf(b.name) : \E j \in BraceBlock(x) : L(j).kind \in Openers
              PROVE  \E x \in FoundOf(b.name) : b.called \subseteq BraceBlock(x)
  BY DEF BraceWithinBlock
<1>1. PICK n : b = BodyFor(n)
  BY DEF ReadInv
<1>2. b.name = n /\ b.called = CalledBody(n)
  BY <1>1 DEF BodyFor
<1>3a. FoundOf(n) \subseteq Lines /\ PlacesOf(n) = FoundOf(n) /\ source.framework \notin Python
  BY <1>2 DEF FoundOf, DefsNamed, PlacesOf, Braced, JavaScript, Python
<1>3b. PICK i \in FoundOf(n) : i = Min(PlacesOf(n))
  BY <1>2, <1>3a, FirstOfLines
<1>3c. PICK o \in BraceBlock(i) : L(o).kind \in Openers
  BY <1>2
<1>3d. b.called = BraceBody(i) /\ i \in Lines
  <2>1. o \in Lines /\ o > i
    BY <1>3c DEF BraceBlock
  <2>. QED
    BY <1>2, <1>3a, <1>3b, <1>3c, <2>1 DEF CalledBody
<1>. DEFINE Up(j) == HowMany(i, j, Openers)
            Down(j) == HowMany(i, j, {"close"})
            opened == {j \in Lines : j > i /\ L(j).kind \in Openers}
            ends == {j \in Lines : j > i /\ L(j).kind = "close" /\ (\E x \in opened : x < j) /\ Up(j) = Down(j)}
<1>3. BraceBody(i) = {j \in Lines : (\E x \in opened : x < j) /\ \A e \in ends : j < e}
  <2>1. \A j : Down(j) = Cardinality({k \in (i + 1)..j : L(k).kind = "close"})
    <3>1. \A j : OfKind(i, j, {"close"}) = {k \in (i + 1)..j : L(k).kind = "close"}
      BY DEF OfKind
    <3>. QED
      BY <3>1 DEF HowMany
  <2>. QED
    BY <2>1 DEF BraceBody, HowMany, OfKind
<1>4. \A j : j \in BraceBlock(i) <=> j \in Lines /\ j > i /\ \A k \in (i + 1)..j : Down(k) <= Up(k)
  <2>1. \A j : Down(j) = Cardinality({k \in (i + 1)..j : L(k).kind = "close"})
    <3>1. \A j : OfKind(i, j, {"close"}) = {k \in (i + 1)..j : L(k).kind = "close"}
      BY DEF OfKind
    <3>. QED
      BY <3>1 DEF HowMany
  <2>. QED
    BY <2>1 DEF BraceBlock, HowMany, OfKind
<1>0. Lines = 1..Len(source.lines) /\ Len(source.lines) \in Nat
  BY LinesAre
<1>. HIDE DEF Up, Down
<1>5. ASSUME NEW j \in BraceBody(i) PROVE j \in BraceBlock(i)
  <2>1. j \in Lines /\ j > i /\ i \in Nat
    BY <1>0, <1>3, <1>3d, <1>5
  <2>2. ASSUME NEW k \in (i + 1)..j, ~(Down(k) <= Up(k)) PROVE FALSE
    <3>. DEFINE excess == {x \in (i + 1)..j : ~(Down(x) <= Up(x))}
    <3>1. excess \in SUBSET (1..Len(source.lines)) /\ k \in excess
      BY <1>0, <2>1, <2>2
    <3>2. PICK f \in excess : \A x \in excess : f <= x
      BY <1>0, <3>1, FirstPlace
    <3>3. f \in Lines /\ f \in Int /\ f > i /\ f <= j /\ ~(Down(f) <= Up(f)) /\ i \in Nat /\ j \in Nat
      BY <1>0, <2>1
    <3>4. \A x \in (i + 1)..(f - 1) : Down(x) <= Up(x)
      BY <3>2, <3>3
    <3>5. o \in (i + 1)..(f - 1)
      <4>1. o \in Lines /\ o \in Int /\ o > i /\ \A x \in (i + 1)..o : Down(x) <= Up(x)
        BY <1>0, <1>3c, <1>3d, <1>4
      <4>2. f \notin (i + 1)..o
        BY <3>3, <4>1
      <4>. QED
        BY <3>3, <4>1, <4>2
    <3>6. Down(f) \in Nat /\ Up(f) \in Nat
      BY <1>0, <3>3, Counting DEF Up, Down
    <3>7. PICK m \in Lines : /\ i < m /\ m < f /\ L(m).kind = "close" /\ Up(m) = Down(m)
                             /\ \E x \in Lines : i < x /\ x < m /\ L(x).kind \in Openers
      <4>1. Down(f) > Up(f) /\ i \in Lines /\ L(o).kind \in Openers
        BY <1>3c, <1>3d, <3>3, <3>6
      <4>. HIDE DEF excess
      <4>. QED
        BY <3>3, <3>4, <3>5, <4>1, ClosedBefore DEF Up, Down
    <3>8. m \in ends
      BY <1>0, <3>3, <3>7
    <3>9. j < m
      BY <1>3, <1>5, <3>8
    <3>. QED
      BY <1>0, <3>3, <3>7, <3>9
  <2>. QED
    BY <1>4, <2>1, <2>2
<1>. QED
  BY <1>2, <1>3b, <1>3d, <1>5

LEMMA ReadUnchanged ==
  ASSUME UNCHANGED source
  PROVE  /\ Detected' = Detected /\ Lines' = Lines /\ \A i : L(i)' = L(i)
         /\ UNCHANGED controllers => Gates' = Gates
         /\ {FunctionOf(i) : i \in LastOfName}' = {FunctionOf(i) : i \in LastOfName}
         /\ {BodyFor(L(j).name) : j \in Mapped}' = {BodyFor(L(j).name) : j \in Mapped}
<1>1. Lines' = Lines /\ \A i : L(i)' = L(i)
  BY DEF Lines, L
<1>2. \A i, kind : After(i, kind)' = After(i, kind)
  BY DEF After, Lines, L
<1>3. Detected' = Detected
  BY DEF Detected, RouteOf, HandlerOf, FirstDefNear, DefOfNextRoute, FirstDef, Simple, Empty, NameAt, After, Lines, L,
         ResourcesOf, Resource
<1>4. UNCHANGED controllers => Gates' = Gates
  BY DEF Gates, PythonGate, ScriptGate, DefsNamed, Before, HeaderOf, OfHeader, IsGate, Empty, Lines, L
<1>5. {FunctionOf(i) : i \in LastOfName}' = {FunctionOf(i) : i \in LastOfName}
  BY DEF LastOfName, IsFunction, Whole, FunctionOf, CallsIn, CallAt, IsGate, BodyOf, Braced, BraceBody, GraphBody, Until,
         Empty, Column, Lines, L
<1>6. {BodyFor(L(j).name) : j \in Mapped}' = {BodyFor(L(j).name) : j \in Mapped}
  <2>1. \A n : DefsNamed(n)' = DefsNamed(n) /\ FoundOf(n)' = FoundOf(n)
    BY DEF DefsNamed, FoundOf, Whole, Lines, L
  <2>2. \A n : PlacesOf(n)' = PlacesOf(n)
    BY <2>1 DEF PlacesOf
  <2>3. \A i : Whole(i)' = Whole(i) /\ FarFrom(i)' = FarFrom(i)
    BY DEF Whole, FarFrom, Lines, L
  <2>4. \A i : IndentBody(i)' = IndentBody(i)
    BY DEF IndentBody, Whole, Until, Empty, Column, Lines, L
  <2>5. \A i : BraceBody(i)' = BraceBody(i)
    BY DEF BraceBody, Lines, L
  <2>6. Mapped' = Mapped /\ (Braced' = Braced)
    BY DEF Mapped, IsFunction, Whole, Braced, Lines, L
  <2>7. \A n : CalledBody(n)' = CalledBody(n)
    BY <1>1, <2>2, <2>3, <2>4, <2>5, <2>6 DEF CalledBody
  <2>8. \A n : SearchedBody(n)' = SearchedBody(n)
    BY <2>1, <2>2, <2>3, <2>4 DEF SearchedBody
  <2>. QED
    BY <1>1, <2>6, <2>7, <2>8 DEF BodyFor
<1>. QED
  BY <1>1, <1>3, <1>4, <1>5, <1>6

LEMMA ReadStepInv == ReadInv /\ (SourcesStep \/ UNCHANGED uvars) => ReadInv'
<1>. SUFFICES ASSUME ReadInv, SourcesStep \/ UNCHANGED uvars PROVE ReadInv'
  OBVIOUS
<1>1. source' = source
  BY DEF SourcesStep, DetectControllers, BuildCallGraph, ReadBodies, uvars
<1>. DEFINE entries == {FunctionOf(i) : i \in LastOfName}
            read == {BodyFor(L(j).name) : j \in Mapped}
            spoken == source.framework \in Python \/ Braced
<1>2. /\ Detected' = Detected /\ entries' = entries /\ read' = read
      /\ UNCHANGED controllers => Gates' = Gates
      /\ spoken' <=> spoken
  BY <1>1, ReadUnchanged DEF Braced
<1>3. source'.width \in Nat /\ source'.lines \in Seq(Line)
  BY <1>1 DEF ReadInv
<1>4. /\ controllers \subseteq Detected /\ gates \subseteq Gates /\ functions \subseteq entries /\ bodies \subseteq read
      /\ stage = "detect" => gates = {}
      /\ bodies # {} => spoken
  BY DEF ReadInv
<1>5. SUFFICES /\ stage' = "detect" => gates' = {}
               /\ controllers' \subseteq Detected' /\ gates' \subseteq Gates'
               /\ functions' \subseteq entries' /\ bodies' \subseteq read'
               /\ bodies' # {} => spoken'
  BY <1>3 DEF ReadInv
<1>. HIDE DEF entries, read, spoken
<1>6. CASE DetectControllers
  <2>1. /\ stage = "detect" /\ stage' # "detect" /\ controllers' \subseteq Detected
        /\ UNCHANGED <<gates, functions, bodies>>
    BY <1>6 DEF DetectControllers
  <2>. QED
    BY <1>2, <1>4, <2>1
<1>7. CASE BuildCallGraph
  <2>1. /\ gates' = Gates /\ functions' \in {entries, {}} /\ stage' # "detect" /\ UNCHANGED <<controllers, bodies>>
    BY <1>7 DEF BuildCallGraph, entries
  <2>. QED
    BY <1>2, <1>4, <2>1
<1>8. CASE ReadBodies
  <2>1. /\ bodies' = IF spoken THEN read ELSE {}
        /\ stage' # "detect" /\ UNCHANGED <<controllers, gates, functions>>
    BY <1>8 DEF ReadBodies, read, spoken
  <2>. QED
    BY <1>2, <1>4, <2>1
<1>9. CASE UNCHANGED uvars
  <2>1. UNCHANGED <<stage, controllers, gates, functions, bodies>>
    BY <1>9 DEF uvars
  <2>. QED
    BY <1>2, <1>4, <2>1
<1>. QED
  BY <1>6, <1>7, <1>8, <1>9 DEF SourcesStep

---------------------------------------------------------------------------
(* The search of the taint tracker. *)

Frame == [name : STRING, followed : Nat]
FlowRow == [call : STRING, sink : STRING]
Dangerous == repo.direct \union repo.sinks
ToldIn(told, call, f) == \E n \in 1..Len(told) : told[n] = [call |-> call, sink |-> f]

RepoOK == repo.work \in Seq(STRING) /\ \A f \in DOMAIN repo.calls : repo.calls[f] \in Seq(STRING)
\* The frames are a chain of calls through functions that are not visited twice, below the call of the
\* handler.
FramesOK ==
  /\ frames \in Seq(Frame) /\ Len(frames) <= MaxDepth + 1
  /\ \A i, j \in 1..Len(frames) : frames[i].name = frames[j].name => i = j
  /\ \A i \in 1..Len(frames) : frames[i].name \in visited \ repo.direct
  /\ \A i \in 1..Len(frames) : i + 1 \in 1..Len(frames) => frames[i + 1].name \in ToSet(CallsOf(frames[i].name))
  /\ frames # <<>> => at >= 1 /\ frames[1].name = repo.work[at]
FlowsOK ==
  /\ flows \in Seq(FlowRow)
  /\ \A n \in 1..Len(flows) : flows[n].sink \in Dangerous /\ Leads(flows[n].call, flows[n].sink, MaxDepth)
\* What the present search visited it told, and of the call of the handler it visited each call it followed.
SearchOK ==
  /\ at >= 1 => \A v \in visited : v \in Dangerous => ToldIn(flows, repo.work[at], v)
  /\ frames # <<>> => \A c \in 1..frames[1].followed :
       c \in 1..Len(CallsOf(frames[1].name)) => CallsOf(frames[1].name)[c] \in visited
Settled(i) == \A f \in Dangerous : f \in {repo.work[i]} \union Callees(repo.work[i]) => ToldIn(flows, repo.work[i], f)

\* The inductive invariant of the search.
TraceInv ==
  /\ RepoOK /\ at \in 0..Len(repo.work)
  /\ FramesOK /\ FlowsOK /\ SearchOK
  /\ \A i \in 1..(IF frames = <<>> THEN at ELSE at - 1) : Settled(i)

LEMMA TraceInvSound == TraceInv => TaintTypeOK /\ SimplePath /\ FlowsReach /\ NearSinksFound
<1>. SUFFICES ASSUME TraceInv PROVE TaintTypeOK /\ SimplePath /\ FlowsReach /\ NearSinksFound
  OBVIOUS
<1>1. frames \in Seq(Frame) /\ flows \in Seq(FlowRow)
  BY DEF TraceInv, FramesOK, FlowsOK
<1>2. DOMAIN frames = 1..Len(frames) /\ DOMAIN flows = 1..Len(flows)
  BY <1>1
<1>3. TaintTypeOK
  BY DEF TraceInv, FramesOK, TaintTypeOK
<1>4. SimplePath
  BY <1>2 DEF TraceInv, FramesOK, SimplePath
<1>5. FlowsReach
  BY <1>2 DEF TraceInv, FlowsOK, FlowsReach, Dangerous
<1>6. NearSinksFound
  BY <1>2 DEF TraceInv, NearSinksFound, Settled, ToldIn, Dangerous
<1>. QED
  BY <1>3, <1>4, <1>5, <1>6

LEMMA CallsTyped ==
  ASSUME RepoOK, NEW f
  PROVE  CallsOf(f) \in Seq(STRING) /\ (CallsOf(f) # <<>> => f \in DOMAIN repo.calls)
<1>1. CASE f \in DOMAIN repo.calls
  BY <1>1 DEF RepoOK, CallsOf
<1>2. CASE f \notin DOMAIN repo.calls
  <2>1. CallsOf(f) = <<>> /\ <<>> \in Seq(STRING)
    BY <1>2 DEF CallsOf
  <2>. QED
    BY <2>1
<1>. QED
  BY <1>1, <1>2

\* The search without its last frame.
LEMMA FrontIs ==
  ASSUME NEW s \in Seq(Frame), s # <<>>
  PROVE  /\ Len(s) \in Nat \ {0} /\ Last(s) = s[Len(s)] /\ Last(s) \in Frame
         /\ Front(s) \in Seq(Frame) /\ Len(Front(s)) = Len(s) - 1
         /\ \A i \in 1..(Len(s) - 1) : Front(s)[i] = s[i]
<1>1. Len(s) \in Nat \ {0} /\ Last(s) = s[Len(s)] /\ Last(s) \in Frame
  BY DEF Last
<1>2. Front(s) = SubSeq(s, 1, Len(s) - 1)
  BY DEF Front
<1>3. Len(s) - 1 \in Int /\ \A i \in 1..(Len(s) - 1) : s[i] \in Frame
  BY <1>1
<1>. DEFINE m == Len(s) - 1
            r == SubSeq(s, 1, m)
<1>4. /\ r \in Seq(Frame) /\ Len(r) = IF 1 <= m THEN m - 1 + 1 ELSE 0
      /\ \A i \in 1..(m - 1 + 1) : r[i] = s[1 + i - 1]
  <2>. HIDE DEF m
  <2>. QED
    BY <1>3, SubSeqProperties DEF m
<1>5. Len(r) = m /\ \A i \in 1..m : r[i] = s[i]
  <2>0. m \in Nat
    BY <1>1
  <2>1. m - 1 + 1 = m /\ (IF 1 <= m THEN m - 1 + 1 ELSE 0) = m
    <3>. HIDE DEF m
    <3>. QED
      BY <2>0
  <2>2. \A i \in 1..m : i \in Int /\ 1 + i - 1 = i
    BY <2>0
  <2>. HIDE DEF r, m
  <2>3. Len(r) = m
    BY <1>4, <2>1
  <2>4. ASSUME NEW i \in 1..m PROVE r[i] = s[i]
    <3>1. r[i] = s[1 + i - 1]
      BY <1>4, <2>1
    <3>. QED
      BY <2>2, <3>1
  <2>. QED
    BY <2>3, <2>4
<1>. QED
  BY <1>1, <1>2, <1>4, <1>5

\* The last frame moves on by one call, and nothing else changes.
LEMMA TopMoves ==
  ASSUME NEW s \in Seq(Frame), s # <<>>,
         NEW t, t = Front(s) \o <<[Last(s) EXCEPT !.followed = @ + 1]>>
  PROVE  /\ t \in Seq(Frame) /\ Len(t) = Len(s) /\ Len(s) \in Nat \ {0}
         /\ \A i \in 1..Len(s) : t[i].name = s[i].name
         /\ Len(s) > 1 => t[1] = s[1]
         /\ Len(s) = 1 => t[1].followed = s[1].followed + 1
<1>. DEFINE n == Len(s)
            top == [Last(s) EXCEPT !.followed = @ + 1]
            front == Front(s)
<1>1. n \in Nat \ {0} /\ Last(s) = s[n] /\ s[n] \in Frame
  BY FrontIs
<1>2. top \in Frame /\ top.name = s[n].name /\ top.followed = s[n].followed + 1
  BY <1>1 DEF Frame
<1>3. front \in Seq(Frame) /\ Len(front) = n - 1 /\ \A i \in 1..(n - 1) : front[i] = s[i]
  BY FrontIs
<1>4. t = Append(front, top)
  BY <1>3
<1>. HIDE DEF top, front
<1>5. t \in Seq(Frame) /\ Len(t) = n /\ t[n] = top /\ \A i \in 1..(n - 1) : t[i] = s[i]
  <2>0. top \in Frame /\ front \in Seq(Frame)
    BY <1>2, <1>3
  <2>1. t \in Seq(Frame) /\ Len(t) = Len(front) + 1
    <3>1. Append(front, top) \in Seq(Frame) /\ Len(Append(front, top)) = Len(front) + 1
      BY <2>0
    <3>. QED
      BY <1>4, <3>1
  <2>2. t[Len(front) + 1] = top /\ \A i \in 1..Len(front) : t[i] = front[i]
    <3>1. Append(front, top)[Len(front) + 1] = top
      BY <2>0, AppendProperties
    <3>2. \A i \in 1..Len(front) : Append(front, top)[i] = front[i]
      BY <2>0
    <3>. QED
      BY <1>4, <3>1, <3>2
  <2>3. Len(front) + 1 = n
    BY <1>1, <1>3
  <2>4. \A i \in 1..(n - 1) : t[i] = s[i]
    BY <1>3, <2>2
  <2>. QED
    BY <2>1, <2>2, <2>3, <2>4
<1>6. \A i \in 1..n : t[i].name = s[i].name
  <2>1. ASSUME NEW i \in 1..n PROVE t[i].name = s[i].name
    <3>1. i = n \/ i \in 1..(n - 1)
      BY <1>1
    <3>. QED
      BY <1>2, <1>5, <3>1
  <2>. QED
    BY <2>1
<1>7. n > 1 => t[1] = s[1]
  <2>1. n > 1 => 1 \in 1..(n - 1)
    BY <1>1
  <2>. QED
    BY <1>5, <2>1
<1>8. n = 1 => t[1].followed = s[1].followed + 1
  BY <1>2, <1>5
<1>. QED
  BY <1>1, <1>5, <1>6, <1>7, <1>8

\* What a flow is of one call stays told when flows are added.
LEMMA FlowAdded ==
  ASSUME FlowsOK, UNCHANGED repo, NEW f \in STRING, NEW call \in STRING, Leads(call, f, MaxDepth),
         flows' = flows \o FlowOf(f, call)
  PROVE  /\ FlowsOK'
         /\ \A c, g : ToldIn(flows, c, g) => ToldIn(flows', c, g)
         /\ f \in Dangerous => ToldIn(flows', call, f)
<1>1. /\ Dangerous' = Dangerous /\ \A c, g : Leads(c, g, MaxDepth)' = Leads(c, g, MaxDepth)
  BY DEF Dangerous, Leads, Callees, CallsOf
<1>2. CASE f \in Dangerous
  <2>. DEFINE x == [call |-> call, sink |-> f]
  <2>1. flows' = Append(flows, x) /\ x \in FlowRow /\ flows \in Seq(FlowRow)
    BY <1>2 DEF FlowOf, Dangerous, FlowsOK, FlowRow
  <2>2. x.call = call /\ x.sink = f
    OBVIOUS
  <2>. HIDE DEF x
  <2>3. /\ flows' \in Seq(FlowRow) /\ Len(flows') = Len(flows) + 1 /\ flows'[Len(flows) + 1] = x /\ Len(flows) \in Nat
        /\ \A n \in 1..Len(flows) : flows'[n] = flows[n]
    BY <2>1
  <2>4. FlowsOK'
    <3>1. ASSUME NEW n \in 1..Len(flows') PROVE flows'[n].sink \in Dangerous /\ Leads(flows'[n].call, flows'[n].sink, MaxDepth)
      <4>1. CASE n \in 1..Len(flows)
        BY <2>3, <4>1 DEF FlowsOK
      <4>2. CASE n = Len(flows) + 1
        BY <1>2, <2>2, <2>3, <4>2
      <4>. QED
        BY <2>3, <4>1, <4>2
    <3>. QED
      BY <1>1, <2>3, <3>1 DEF FlowsOK
  <2>5. \A c, g : ToldIn(flows, c, g) => ToldIn(flows', c, g)
    BY <2>3 DEF ToldIn
  <2>6. ToldIn(flows', call, f)
    BY <2>3 DEF ToldIn, x
  <2>. QED
    BY <2>4, <2>5, <2>6
<1>3. CASE f \notin Dangerous
  <2>1. flows' = flows
    BY <1>3 DEF FlowOf, Dangerous, FlowsOK
  <2>2. FlowsOK'
    BY <1>1, <2>1 DEF FlowsOK
  <2>. QED
    BY <1>3, <2>1, <2>2 DEF ToldIn
<1>. QED
  BY <1>2, <1>3

LEMMA TraceBegins == RepoOK /\ TaintBegins => TraceInv
<1>. SUFFICES ASSUME RepoOK, TaintBegins PROVE TraceInv
  OBVIOUS
<1>1. at = 0 /\ frames = <<>> /\ visited = {} /\ flows = <<>>
  BY DEF TaintBegins
<1>2. Len(repo.work) \in Nat
  BY DEF RepoOK
<1>3. FramesOK
  BY <1>1, TaintAssumption DEF FramesOK
<1>4. FlowsOK
  BY <1>1 DEF FlowsOK
<1>5. SearchOK
  BY <1>1 DEF SearchOK
<1>. QED
  BY <1>1, <1>2, <1>3, <1>4, <1>5 DEF TraceInv

\* What a call is settled of stays so while flows are only added.
LEMMA SettledStays ==
  ASSUME UNCHANGED repo, \A c, g : ToldIn(flows, c, g) => ToldIn(flows', c, g), NEW i, Settled(i)
  PROVE  Settled(i)'
<1>1. Dangerous' = Dangerous /\ Callees(repo.work[i])' = Callees(repo.work[i]) /\ (repo.work[i])' = repo.work[i]
  BY DEF Dangerous, Callees, CallsOf
<1>. QED
  BY <1>1 DEF Settled

LEMMA TraceUnchanged == TraceInv /\ UNCHANGED tvars => TraceInv'
<1>. SUFFICES ASSUME TraceInv, UNCHANGED tvars PROVE TraceInv'
  OBVIOUS
<1>1. UNCHANGED <<repo, at, frames, visited, flows>>
  BY DEF tvars
<1>2. RepoOK' /\ (at \in 0..Len(repo.work))' /\ SearchOK' /\ FramesOK'
  BY <1>1 DEF TraceInv, RepoOK, FramesOK, SearchOK, Dangerous, CallsOf
<1>3. FlowsOK'
  BY <1>1 DEF TraceInv, FlowsOK, Dangerous, Leads, Callees, CallsOf
<1>4. \A i \in 1..(IF frames' = <<>> THEN at' ELSE at' - 1) : Settled(i)'
  BY <1>1, SettledStays DEF TraceInv
<1>. QED
  BY <1>2, <1>3, <1>4 DEF TraceInv

LEMMA TraceCallInv == TraceInv /\ TraceCall => TraceInv'
<1>. SUFFICES ASSUME TraceInv, TraceCall PROVE TraceInv'
  OBVIOUS
<1>. DEFINE f == repo.work[at + 1]
<1>1. /\ frames = <<>> /\ at < Len(repo.work) /\ at' = at + 1 /\ UNCHANGED repo
      /\ visited' = {f} /\ flows' = flows \o FlowOf(f, f) /\ frames' = FrameOf(f)
  BY DEF TraceCall, VisitedBefore
<1>2. at \in Nat /\ Len(repo.work) \in Nat /\ f \in STRING /\ RepoOK
  BY <1>1 DEF TraceInv, RepoOK
<1>3. RepoOK' /\ at' \in 0..Len(repo.work)' /\ (repo.work[at])' = f
  BY <1>1, <1>2 DEF RepoOK
<1>4. Leads(f, f, MaxDepth)
  BY DEF Leads
<1>5. FlowsOK
  BY DEF TraceInv
<1>. HIDE DEF f
<1>6. /\ FlowsOK' /\ (\A c, g : ToldIn(flows, c, g) => ToldIn(flows', c, g)) /\ (f \in Dangerous => ToldIn(flows', f, f))
  BY <1>1, <1>2, <1>4, <1>5, FlowAdded
<1>7. Dangerous' = Dangerous
  BY <1>1 DEF Dangerous
<1>8. \A i \in 1..at : Settled(i)'
  BY <1>1, <1>6, SettledStays DEF TraceInv
<1>9. CASE f \in repo.direct
  <2>1. frames' = <<>>
    BY <1>1, <1>9 DEF FrameOf
  <2>2. FramesOK'
    BY <2>1, TaintAssumption DEF FramesOK
  <2>3. SearchOK'
    BY <1>1, <1>3, <1>6, <1>7, <2>1 DEF SearchOK
  <2>4. ASSUME NEW i, i = at' PROVE Settled(i)'
    <3>1. Callees(repo.work[i])' = {} /\ (repo.work[i])' = f
      BY <1>1, <1>9, <2>4 DEF Callees, f
    <3>. QED
      BY <1>6, <1>7, <3>1 DEF Settled
  <2>5. \A i \in 1..at' : Settled(i)'
    <3>1. \A i \in 1..at' : i \in 1..at \/ i = at'
      BY <1>1, <1>2
    <3>. QED
      BY <1>8, <2>4, <3>1
  <2>. QED
    BY <1>3, <1>6, <2>1, <2>2, <2>3, <2>5 DEF TraceInv
<1>10. CASE f \notin repo.direct
  <2>1. frames' = <<[name |-> f, followed |-> 0]>>
    BY <1>1, <1>10 DEF FrameOf
  <2>2. frames' \in Seq(Frame) /\ Len(frames') = 1 /\ frames'[1].name = f /\ frames'[1].followed = 0 /\ frames' # <<>>
    BY <1>2, <2>1 DEF Frame
  <2>3. FramesOK'
    BY <1>1, <1>2, <1>3, <1>10, <2>2, TaintAssumption DEF FramesOK
  <2>4. SearchOK'
    BY <1>1, <1>3, <1>6, <1>7, <2>2 DEF SearchOK
  <2>5. \A i \in 1..(at' - 1) : Settled(i)'
    BY <1>1, <1>2, <1>8
  <2>. QED
    BY <1>3, <1>6, <2>2, <2>3, <2>4, <2>5 DEF TraceInv
<1>. QED
  BY <1>9, <1>10

\* The frames are a path of calls, so that what the last one calls is near enough to be told.
LEMMA FramesLead ==
  ASSUME TraceInv, Following, Len(frames) <= MaxDepth
  PROVE  Leads(repo.work[at], Child, MaxDepth)
<1>. DEFINE n == Len(frames)
            p == [k \in 1..n |-> frames[k].name]
<1>1. frames \in Seq(Frame) /\ frames # <<>> /\ Top.followed < Len(CallsOf(Top.name)) /\ RepoOK
  BY DEF TraceInv, FramesOK, Following
<1>2. n \in Nat \ {0} /\ Top = frames[n] /\ Top \in Frame
  BY <1>1, FrontIs DEF Top
<1>3. n \in 1..MaxDepth
  BY <1>2, TaintAssumption
<1>4. CallsOf(Top.name) \in Seq(STRING) /\ Top.followed \in Nat
  BY <1>1, <1>2, CallsTyped DEF Frame
<1>5. Top.followed + 1 \in 1..Len(CallsOf(Top.name)) /\ Child \in ToSet(CallsOf(Top.name)) /\ CallsOf(Top.name) # <<>>
  BY <1>1, <1>4 DEF Child, ToSet
<1>6. \A k \in 1..n : frames[k].name \notin repo.direct /\ (k + 1 \in 1..n => frames[k + 1].name \in ToSet(CallsOf(frames[k].name)))
  BY DEF TraceInv, FramesOK
<1>7. \A k \in 1..n : CallsOf(frames[k].name) # <<>>
  <2>1. SUFFICES ASSUME NEW k \in 1..n PROVE CallsOf(frames[k].name) # <<>>
    OBVIOUS
  <2>2. k = n \/ k + 1 \in 1..n
    BY <1>2
  <2>3. ToSet(<<>>) = {}
    BY DEF ToSet
  <2>. QED
    BY <1>2, <1>5, <1>6, <2>2, <2>3
<1>8. p \in [1..n -> DOMAIN repo.calls \ repo.direct]
  BY <1>1, <1>6, <1>7, CallsTyped
<1>9. p[1] = repo.work[at] /\ p[n] = Top.name
  BY <1>1, <1>2 DEF TraceInv, FramesOK
<1>10. \A k \in 1..n : p[k] = frames[k].name /\ Callees(p[k]) = ToSet(CallsOf(frames[k].name))
  BY <1>6 DEF Callees
<1>. HIDE DEF p
<1>11. \A k \in 1..(n - 1) : p[k + 1] \in Callees(p[k])
  <2>1. \A k \in 1..(n - 1) : k \in 1..n /\ k + 1 \in 1..n
    BY <1>2
  <2>. QED
    BY <1>6, <1>10, <2>1
<1>12. Child \in Callees(p[n])
  BY <1>2, <1>5, <1>10
<1>. HIDE DEF n
<1>. QED
  BY <1>3, <1>8, <1>9, <1>11, <1>12 DEF Leads

LEMMA FollowCallInv == TraceInv /\ FollowCall => TraceInv'
<1>. SUFFICES ASSUME TraceInv, FollowCall PROVE TraceInv'
  OBVIOUS
<1>. DEFINE here == Front(frames) \o <<[Top EXCEPT !.followed = @ + 1]>>
            n == Len(frames)
            calls == CallsOf(frames[1].name)
<1>1. /\ Following /\ UNCHANGED <<repo, at>>
      /\ IF TooDeep(Child)
         THEN frames' = here /\ UNCHANGED <<visited, flows>>
         ELSE /\ frames' = here \o FrameOf(Child)
              /\ visited' = visited \union {Child}
              /\ flows' = flows \o FlowOf(Child, repo.work[at])
  BY DEF FollowCall
<1>2. /\ RepoOK /\ FramesOK /\ FlowsOK /\ SearchOK /\ frames \in Seq(Frame) /\ frames # <<>> /\ at \in 0..Len(repo.work)
      /\ Len(repo.work) \in Nat /\ at >= 1
  <2>1. RepoOK /\ FramesOK /\ FlowsOK /\ SearchOK /\ at \in 0..Len(repo.work)
    BY DEF TraceInv
  <2>2. Len(repo.work) \in Nat
    BY <2>1 DEF RepoOK
  <2>3. frames \in Seq(Frame) /\ frames # <<>> /\ at >= 1
    BY <1>1, <2>1 DEF FramesOK, Following
  <2>. QED
    BY <2>1, <2>2, <2>3
<1>3. n \in Nat \ {0} /\ Top = frames[n] /\ Top \in Frame
  BY <1>2, FrontIs DEF Top
<1>4. CallsOf(Top.name) \in Seq(STRING) /\ Top.followed \in Nat /\ Top.followed < Len(CallsOf(Top.name))
  BY <1>1, <1>2, <1>3, CallsTyped DEF Frame, Following
<1>5. /\ Top.followed + 1 \in 1..Len(CallsOf(Top.name)) /\ Child = CallsOf(Top.name)[Top.followed + 1]
      /\ Child \in STRING /\ Child \in ToSet(CallsOf(Top.name))
  BY <1>4 DEF Child, ToSet
<1>6. /\ here \in Seq(Frame) /\ Len(here) = n
      /\ \A i \in 1..n : here[i].name = frames[i].name
      /\ n > 1 => here[1] = frames[1]
      /\ n = 1 => here[1].followed = frames[1].followed + 1
  <2>1. here = Front(frames) \o <<[Last(frames) EXCEPT !.followed = @ + 1]>>
    BY DEF Top
  <2>. HIDE DEF here
  <2>. QED
    BY <1>2, <2>1, TopMoves
<1>. HIDE DEF here
<1>7. here # <<>> /\ 1 \in 1..n /\ n \in 1..n
  BY <1>3, <1>6
\* The call of the first frame that was just followed is visited.
<1>8. ASSUME Child \in visited' \/ n > 1, visited \subseteq visited'
      PROVE  \A c \in 1..here[1].followed : c \in 1..Len(calls) => calls[c] \in visited'
  <2>1. \A c \in 1..frames[1].followed : c \in 1..Len(calls) => calls[c] \in visited'
    BY <1>2, <1>8 DEF SearchOK
  <2>2. CASE n > 1
    BY <1>6, <2>1, <2>2
  <2>3. CASE n = 1
    <3>1. calls[here[1].followed] \in visited'
      BY <1>3, <1>5, <1>6, <1>8, <2>3
    <3>2. frames[1].followed \in Nat /\ here[1].followed = frames[1].followed + 1
      BY <1>3, <1>4, <1>6, <2>3
    <3>3. \A c \in 1..here[1].followed : c \in 1..frames[1].followed \/ c = here[1].followed
      BY <3>2
    <3>. QED
      BY <2>1, <3>1, <3>3
  <2>4. n = 1 \/ n > 1
    <3>1. n \in Nat \ {0}
      BY <1>3
    <3>. HIDE DEF n
    <3>. QED
      BY <3>1
  <2>. QED
    BY <2>2, <2>3, <2>4, Zenon
<1>9. /\ \A i, j \in 1..n : here[i].name = here[j].name => i = j
      /\ \A i \in 1..n : here[i].name \in visited \ repo.direct
      /\ \A i \in 1..n : i + 1 \in 1..n => here[i + 1].name \in ToSet(CallsOf(here[i].name))
      /\ here[1].name = repo.work[at] /\ here[n].name = Top.name
      /\ n <= MaxDepth + 1
  BY <1>2, <1>3, <1>6, <1>7 DEF FramesOK
<1>10. RepoOK' /\ at' \in 0..Len(repo.work)' /\ (\A f : CallsOf(f)' = CallsOf(f)) /\ (repo.work[at])' = repo.work[at]
  BY <1>1, <1>2 DEF RepoOK, CallsOf
<1>11. Dangerous' = Dangerous
  BY <1>1 DEF Dangerous
<1>12. \A i \in 1..(at - 1) : Settled(i)
  BY <1>2 DEF TraceInv
<1>13. here[1].name = frames[1].name
  BY <1>6, <1>7
<1>14. CASE TooDeep(Child)
  <2>1. frames' = here /\ visited' = visited /\ flows' = flows
    BY <1>1, <1>14
  <2>2. FramesOK'
    BY <1>1, <1>2, <1>6, <1>9, <1>10, <2>1 DEF FramesOK
  <2>3. FlowsOK' /\ \A c, g : ToldIn(flows, c, g) => ToldIn(flows', c, g)
    BY <1>1, <1>2, <1>11, <2>1 DEF FlowsOK, ToldIn, Leads, Callees, CallsOf
  <2>4. SearchOK'
    <3>1. Child \in visited' \/ n > 1
      BY <1>3, <1>14, <2>1, TaintAssumption DEF TooDeep
    <3>2. \A c \in 1..here[1].followed : c \in 1..Len(calls) => calls[c] \in visited'
      BY <1>8, <2>1, <3>1
    <3>3. \A v \in visited' : v \in Dangerous' => ToldIn(flows', (repo.work[at])', v)
      BY <1>2, <1>10, <1>11, <2>1, <2>3 DEF SearchOK
    <3>. QED
      BY <1>10, <1>13, <2>1, <3>2, <3>3 DEF SearchOK
  <2>5. \A i \in 1..(at' - 1) : Settled(i)'
    BY <1>1, <1>12, <2>3, SettledStays
  <2>. QED
    BY <1>7, <1>10, <2>1, <2>2, <2>3, <2>4, <2>5 DEF TraceInv
<1>15. CASE ~TooDeep(Child)
  <2>1. /\ frames' = here \o FrameOf(Child) /\ visited' = visited \union {Child}
        /\ flows' = flows \o FlowOf(Child, repo.work[at]) /\ n <= MaxDepth /\ Child \notin visited
    BY <1>1, <1>3, <1>15, TaintAssumption DEF TooDeep
  <2>2. Leads(repo.work[at], Child, MaxDepth)
    BY <1>1, <2>1, FramesLead
  <2>3. repo.work[at] \in STRING
    BY <1>2 DEF RepoOK
  <2>4. /\ FlowsOK' /\ (\A c, g : ToldIn(flows, c, g) => ToldIn(flows', c, g)) /\ (Child \in Dangerous => ToldIn(flows', repo.work[at], Child))
    BY <1>1, <1>2, <1>5, <2>1, <2>2, <2>3, FlowAdded
  <2>5. \A c \in 1..here[1].followed : c \in 1..Len(calls) => calls[c] \in visited'
    BY <1>8, <2>1
  <2>6. \A v \in visited' : v \in Dangerous' => ToldIn(flows', (repo.work[at])', v)
    BY <1>2, <1>10, <1>11, <2>1, <2>4 DEF SearchOK
  <2>7. \A i \in 1..(at' - 1) : Settled(i)'
    BY <1>1, <1>12, <2>4, SettledStays
  <2>8. CASE Child \in repo.direct
    <3>1. frames' = here
      BY <1>6, <2>1, <2>8 DEF FrameOf
    <3>2. FramesOK'
      BY <1>1, <1>2, <1>6, <1>9, <1>10, <2>1, <3>1 DEF FramesOK
    <3>3. SearchOK'
      BY <1>10, <1>13, <2>5, <2>6, <3>1 DEF SearchOK
    <3>. QED
      BY <1>7, <1>10, <2>4, <2>7, <3>1, <3>2, <3>3 DEF TraceInv
  <2>9. CASE Child \notin repo.direct
    <3>. DEFINE new == [name |-> Child, followed |-> 0]
    <3>1. frames' = Append(here, new) /\ new \in Frame /\ new.name = Child
      BY <1>5, <1>6, <2>1, <2>9 DEF FrameOf, Frame
    <3>. HIDE DEF new
    <3>2. /\ frames' \in Seq(Frame) /\ Len(frames') = n + 1 /\ frames'[n + 1] = new
          /\ \A i \in 1..n : frames'[i] = here[i]
      BY <1>6, <3>1
    <3>3. \A i \in 1..(n + 1) : i \in 1..n \/ i = n + 1
      BY <1>3
    <3>4. frames' # <<>> /\ frames'[1] = here[1] /\ frames'[n] = here[n]
      BY <1>3, <1>7, <3>2
    <3>5. \A i \in 1..n : frames'[i].name # Child
      BY <1>9, <2>1, <3>2
    <3>6. \A i, j \in 1..(n + 1) : frames'[i].name = frames'[j].name => i = j
      BY <1>9, <3>1, <3>2, <3>3, <3>5
    <3>7. \A i \in 1..(n + 1) : frames'[i].name \in visited' \ repo.direct
      BY <1>9, <2>1, <2>9, <3>1, <3>2, <3>3
    <3>8. \A i \in 1..(n + 1) : i + 1 \in 1..(n + 1) => frames'[i + 1].name \in ToSet(CallsOf(frames'[i].name))
      <4>1. SUFFICES ASSUME NEW i \in 1..(n + 1), i + 1 \in 1..(n + 1)
                     PROVE  frames'[i + 1].name \in ToSet(CallsOf(frames'[i].name))
        OBVIOUS
      <4>2. CASE i = n
        BY <1>5, <1>9, <3>1, <3>2, <3>4, <4>2
      <4>3. CASE i # n
        <5>1. i \in 1..n /\ i + 1 \in 1..n
          BY <1>3, <4>1, <4>3
        <5>. QED
          BY <1>9, <3>2, <5>1
      <4>. QED
        BY <4>2, <4>3
    <3>9. FramesOK'
      <4>1. Len(frames') <= MaxDepth + 1
        BY <1>3, <2>1, <3>2, TaintAssumption
      <4>2. at' >= 1 /\ frames'[1].name = (repo.work[at])'
        BY <1>1, <1>2, <1>9, <1>10, <3>4
      <4>. QED
        BY <1>1, <1>10, <3>2, <3>6, <3>7, <3>8, <4>1, <4>2 DEF FramesOK
    <3>10. SearchOK'
      BY <1>10, <1>13, <2>5, <2>6, <3>4 DEF SearchOK
    <3>. QED
      BY <1>10, <2>4, <2>7, <3>4, <3>9, <3>10 DEF TraceInv
  <2>. QED
    BY <2>8, <2>9
<1>. QED
  BY <1>14, <1>15

LEMMA LeaveFunctionInv == TraceInv /\ LeaveFunction => TraceInv'
<1>. SUFFICES ASSUME TraceInv, LeaveFunction PROVE TraceInv'
  OBVIOUS
<1>. DEFINE n == Len(frames)
            calls == CallsOf(frames[1].name)
<1>1. /\ frames # <<>> /\ ~(Top.followed < Len(CallsOf(Top.name))) /\ frames' = Front(frames)
      /\ UNCHANGED <<repo, at, visited, flows>>
  BY DEF LeaveFunction, Following
<1>2. /\ RepoOK /\ FramesOK /\ FlowsOK /\ SearchOK /\ frames \in Seq(Frame) /\ at \in 0..Len(repo.work)
      /\ Len(repo.work) \in Nat /\ at >= 1 /\ frames[1].name = repo.work[at]
  <2>1. RepoOK /\ FramesOK /\ FlowsOK /\ SearchOK /\ at \in 0..Len(repo.work)
    BY DEF TraceInv
  <2>2. Len(repo.work) \in Nat
    BY <2>1 DEF RepoOK
  <2>3. frames \in Seq(Frame) /\ at >= 1 /\ frames[1].name = repo.work[at]
    BY <1>1, <2>1 DEF FramesOK
  <2>. QED
    BY <2>1, <2>2, <2>3
<1>3. /\ n \in Nat \ {0} /\ Top = frames[n] /\ Top \in Frame
      /\ frames' \in Seq(Frame) /\ Len(frames') = n - 1 /\ \A i \in 1..(n - 1) : frames'[i] = frames[i]
  BY <1>1, <1>2, FrontIs DEF Top
<1>4. RepoOK' /\ at' \in 0..Len(repo.work)' /\ (\A f : CallsOf(f)' = CallsOf(f)) /\ (repo.work[at])' = repo.work[at]
  BY <1>1, <1>2 DEF RepoOK, CallsOf
<1>5. FlowsOK' /\ Dangerous' = Dangerous /\ \A c, g : ToldIn(flows, c, g) => ToldIn(flows', c, g)
  BY <1>1, <1>2 DEF FlowsOK, ToldIn, Dangerous, Leads, Callees, CallsOf
<1>6. \A i \in 1..(at - 1) : Settled(i)'
  BY <1>1, <1>2, <1>5, SettledStays DEF TraceInv
<1>7. \A i \in 1..(n - 1) : i \in 1..n /\ (i + 1 \in 1..(n - 1) => i + 1 \in 1..n)
  BY <1>3
<1>8. frames' # <<>> => n > 1 /\ frames'[1] = frames[1]
  <2>1. frames' # <<>> => Len(frames') # 0
    BY <1>3
  <2>2. Len(frames') # 0 => 1 \in 1..(n - 1) /\ n > 1
    BY <1>3
  <2>. QED
    BY <1>3, <2>1, <2>2
<1>9. FramesOK'
  <2>1. Len(frames') <= MaxDepth + 1
    BY <1>2, <1>3, TaintAssumption DEF FramesOK
  <2>2. \A i, j \in 1..(n - 1) : frames'[i].name = frames'[j].name => i = j
    BY <1>2, <1>3, <1>7 DEF FramesOK
  <2>3. \A i \in 1..(n - 1) : frames'[i].name \in visited \ repo.direct
    BY <1>2, <1>3, <1>7 DEF FramesOK
  <2>4. \A i \in 1..(n - 1) : i + 1 \in 1..(n - 1) => frames'[i + 1].name \in ToSet(CallsOf(frames'[i].name))
    BY <1>2, <1>3, <1>7 DEF FramesOK
  <2>5. frames' # <<>> => at' >= 1 /\ frames'[1].name = (repo.work[at])'
    BY <1>1, <1>2, <1>4, <1>8
  <2>. QED
    BY <1>1, <1>3, <1>4, <2>1, <2>2, <2>3, <2>4, <2>5 DEF FramesOK
<1>10. SearchOK'
  <2>1. \A v \in visited' : v \in Dangerous' => ToldIn(flows', (repo.work[at])', v)
    BY <1>1, <1>2, <1>4, <1>5 DEF SearchOK
  <2>2. frames' # <<>> => \A c \in 1..frames'[1].followed : c \in 1..Len(calls) => calls[c] \in visited'
    BY <1>1, <1>2, <1>8 DEF SearchOK
  <2>. QED
    BY <1>4, <1>8, <2>1, <2>2 DEF SearchOK
<1>11. CASE frames' # <<>>
  BY <1>1, <1>4, <1>5, <1>6, <1>9, <1>10, <1>11 DEF TraceInv
<1>12. CASE frames' = <<>>
  <2>1. n = 1
    BY <1>3, <1>12
  <2>2. calls \in Seq(STRING) /\ Len(calls) \in Nat /\ frames[1].followed \in Nat /\ ~(frames[1].followed < Len(calls))
    BY <1>1, <1>2, <1>3, <2>1, CallsTyped DEF Frame
  <2>3. ToSet(calls) \subseteq visited
    <3>1. ASSUME NEW c \in 1..Len(calls) PROVE calls[c] \in visited
      <4>1. c \in 1..frames[1].followed
        BY <2>2
      <4>. QED
        BY <1>1, <1>2, <4>1 DEF SearchOK
    <3>2. DOMAIN calls = 1..Len(calls)
      BY <2>2
    <3>. QED
      BY <3>1, <3>2 DEF ToSet
  <2>4. repo.work[at] \in visited /\ Callees(repo.work[at]) \subseteq visited
    <3>1. 1 \in 1..Len(frames)
      BY <2>1
    <3>. QED
      BY <1>2, <2>3, <3>1 DEF FramesOK, Callees
  <2>5. Settled(at)
    BY <1>2, <2>4 DEF Settled, SearchOK
  <2>6. Settled(at)'
    BY <1>1, <1>5, <2>5, SettledStays
  <2>7. \A i \in 1..at : i \in 1..(at - 1) \/ i = at
    BY <1>2
  <2>8. \A i \in 1..at' : Settled(i)'
    BY <1>1, <1>6, <2>6, <2>7
  <2>. QED
    BY <1>4, <1>5, <1>9, <1>10, <1>12, <2>8 DEF TraceInv
<1>. QED
  BY <1>11, <1>12

LEMMA TraceStepInv == TraceInv /\ (TaintStep \/ UNCHANGED tvars) => TraceInv'
BY TraceCallInv, FollowCallInv, LeaveFunctionInv, TraceUnchanged DEF TaintStep

---------------------------------------------------------------------------
(* The live tests of a purple team scan. *)

\* Whoever asks without credentials is served.
Free(m, place) ==
  \E how \in {"anon", "any"} :
    IF <<m, place, how>> \in DOMAIN target.says THEN target.says[<<m, place, how>>].status = 200
    ELSE how = "any" /\ target.other.status = 200
Real(t) == t[1] \in {"open", "unguarded", "unsecured"} => Free(t[2], IF t[1] = "unsecured" THEN t[3] ELSE t[3][1])
OpenToAll(i) == C(i).method \notin {"OPTIONS", "HEAD"} /\ AskAs(C(i), "anon").status = 200

\* What a test may tell: few things, that are so, and nothing of a target that does not answer.
Fair(told) ==
  /\ IsFiniteSet(told) /\ \A t \in told : Real(t.title)
  /\ line # "answers" => told = {}

\* The inductive invariant of the live tests.
LiveInv ==
  /\ target \in Targets /\ test \in 1..18 /\ total \in Nat /\ troubles \in Nat
  /\ line \in {"answers", "refuses", "hangs"} /\ left \in {"no", "done", "raised"}
  /\ left = "done" => test = 18
  /\ entry => test > 10
  /\ ~row => troubles # 0
  /\ left = "raised" => ~row /\ test > 1 /\ Tests[test - 1] \in Bare
  /\ IsFiniteSet(stored) /\ Cardinality(stored) <= total /\ \A t \in stored : Real(t)
  /\ (troubles = 0 /\ line = "answers" /\ test > 2) => \A i \in Indices : OpenToAll(i) => Title("open", C(i)) \in stored
  /\ (troubles = 0 /\ line = "refuses") => stored = {}

LEMMA LiveInvSound == LiveInv => LiveTestsSound
<1>. SUFFICES ASSUME LiveInv PROVE LiveTestsSound
  OBVIOUS
<1>1. Len(Tests) = 17
  BY DEF Tests
<1>2. LiveTypeOK
  BY <1>1 DEF LiveInv, LiveTypeOK
<1>3. BypassIsReal
  BY DEF LiveInv, BypassIsReal, Real, Free
<1>4. OpenIsTold
  BY DEF LiveInv, OpenIsTold, OpenToAll
<1>5. AbortOnlyWithoutRow /\ CountCoversStored /\ SilentTargetClean
  BY DEF LiveInv, AbortOnlyWithoutRow, CountCoversStored, SilentTargetClean
<1>. QED
  BY <1>2, <1>3, <1>4, <1>5 DEF LiveTestsSound

\* As many titles as findings, or fewer.
LEMMA FewTitles ==
  ASSUME NEW S, IsFiniteSet(S), NEW f
  PROVE  /\ IsFiniteSet({f[x] : x \in S}) /\ Cardinality({f[x] : x \in S}) \in Nat
         /\ Cardinality(S) \in Nat /\ Cardinality({f[x] : x \in S}) <= Cardinality(S)
<1>. DEFINE g == [x \in S |-> f[x]]
            T == {f[x] : x \in S}
<1>1. g \in Surjection(S, T)
  BY DEF Surjection
<1>2. IsFiniteSet(T) /\ Cardinality(T) <= Cardinality(S)
  BY <1>1, FS_Surjection
<1>. QED
  BY <1>2, FS_CardinalityType

LEMMA FewIndices ==
  ASSUME LiveInv
  PROVE  /\ IsFiniteSet(Indices) /\ Len(target.controllers) \in Nat /\ \A i \in Indices : i \in Nat
         /\ IsFiniteSet(target.static) /\ IsFiniteSet(target.described)
<1>. DEFINE controllers_ == target.controllers
<1>1. target \in Targets
  BY DEF LiveInv
<1>2. Indices = 1..Len(target.controllers) /\ Len(target.controllers) \in Nat
  BY <1>1, LiveAssumption DEF Indices
<1>3. IsFiniteSet(1..Len(target.controllers))
  BY <1>2, FS_Interval
<1>. QED
  BY <1>1, <1>2, <1>3, LiveAssumption

\* Some findings for some controllers.
LEMMA FewEach ==
  ASSUME LiveInv, NEW S, S \subseteq Indices, NEW kind
  PROVE  IsFiniteSet(Each(kind, S)) /\ (S = {} => Each(kind, S) = {})
<1>1. IsFiniteSet(S)
  BY FewIndices, FS_Subset
<1>. DEFINE f == [i \in S |-> [title |-> Title(kind, C(i)), nth |-> i]]
<1>2. Each(kind, S) = {f[i] : i \in S}
  BY DEF Each
<1>. HIDE DEF f
<1>. QED
  BY <1>1, <1>2, FewTitles

LEMMA EachFair ==
  ASSUME LiveInv, NEW S, S \subseteq Indices, NEW kind, kind # "unsecured",
         kind \in {"open", "unguarded"} => \A i \in S : AskAs(C(i), "anon").status = 200,
         line # "answers" => S = {}
  PROVE  Fair(Each(kind, S))
<1>1. ASSUME NEW i \in S PROVE Real(Title(kind, C(i)))
  <2>1. Title(kind, C(i))[1] = kind /\ Title(kind, C(i))[2] = C(i).method /\ Title(kind, C(i))[3] = Resolve(C(i))
    BY DEF Title
  <2>2. Resolve(C(i))[1] = C(i).place
    BY DEF Resolve, Fill, Path
  <2>3. kind \in {"open", "unguarded"} => Free(C(i).method, C(i).place)
    <3>1. SUFFICES ASSUME Ask(C(i).method, C(i).place, "anon").status = 200 PROVE Free(C(i).method, C(i).place)
      BY <1>1 DEF AskAs
    <3>2. line = "answers"
      BY <1>1
    <3>. QED
      BY <3>1, <3>2 DEF Ask, Free
  <2>. QED
    BY <2>1, <2>2, <2>3 DEF Real
<1>2. \A t \in Each(kind, S) : \E i \in S : t.title = Title(kind, C(i))
  BY DEF Each
<1>. QED
  BY <1>1, <1>2, FewEach DEF Fair

LEMMA OnceFair ==
  ASSUME NEW kind, kind \notin {"open", "unguarded", "unsecured"}, NEW condition \in BOOLEAN, line # "answers" => ~condition
  PROVE  Fair(Once(kind, condition))
<1>1. Once(kind, condition) \subseteq {[title |-> <<kind>>, nth |-> 0]}
  BY DEF Once
<1>2. IsFiniteSet(Once(kind, condition))
  <2>1. \A x : IsFiniteSet({x})
    BY FS_Singleton
  <2>2. IsFiniteSet({[title |-> <<kind>>, nth |-> 0]})
    BY <2>1, Zenon
  <2>. QED
    BY <1>1, <2>2, FS_Subset
<1>3. \A t \in Once(kind, condition) : t.title[1] = kind
  BY <1>1
<1>4. line # "answers" => Once(kind, condition) = {}
  BY DEF Once
<1>. QED
  BY <1>2, <1>3, <1>4 DEF Fair, Real

LEMMA BothFair == ASSUME NEW a, NEW b, Fair(a), Fair(b) PROVE Fair(a \union b)
<1>1. IsFiniteSet(a \union b)
  BY FS_Union DEF Fair
<1>. QED
  BY <1>1 DEF Fair

\* Nothing is asked of a line that is down.
LEMMA Muted == ASSUME line # "answers", NEW m, NEW place, NEW how
               PROVE  /\ Ask(m, place, how).status = 0 /\ Ask(m, place, how).tells = {} /\ Ask(m, place, how).body = "none"
                      /\ ~Good(Ask(m, place, how)) /\ ~Shown(Ask(m, place, how))
BY DEF Ask, Mute, Good, Shown

\* One test after the other, of what each is fair.
LEMMA TestedInv ==
  ASSUME LiveInv, NEW name, NEW told, Tested(name, told), Fair(told),
         name = "bypass" => \A i \in Indices : OpenToAll(i) => \E t \in told : t.title = Title("open", C(i)),
         name # "login" => entry' = entry
  PROVE  LiveInv'
<1>1. /\ left = "no" /\ test \in 1..17 /\ test' = test + 1 /\ Tests[test] = name
      /\ UNCHANGED <<target, line, troubles, row>>
  <2>1. Len(Tests) = 17
    BY DEF Tests
  <2>. QED
    BY <2>1 DEF Tested, NextTest, TestAfter, LiveInv
<1>2. (test = 2 => name = "bypass") /\ (name = "login" => test = 10)
  BY <1>1 DEF Tests
<1>3. (\A t : Real(t) => Real(t)') /\ Indices' = Indices /\ \A i : OpenToAll(i)' = OpenToAll(i) /\ Title("open", C(i))' = Title("open", C(i))
  BY <1>1 DEF Real, Free, Indices, OpenToAll, C, AskAs, Ask, Title, Resolve, Path, Fill
<1>4. entry' => test' > 10
  <2>1. test > 10 => test' > 10
    BY <1>1
  <2>2. CASE name = "login"
    BY <1>1, <1>2, <2>2
  <2>3. ASSUME name # "login", entry' PROVE test' > 10
    <3>1. entry
      BY <2>3, Zenon
    <3>2. test > 10
      BY <3>1, Zenon DEF LiveInv
    <3>. QED
      BY <2>1, <3>2
  <2>. QED
    BY <2>2, <2>3, Zenon
<1>5. CASE Refused(told)
  <2>1. UNCHANGED <<stored, total>> /\ left' \in {"no", "raised"} /\ (left' = "raised" => name \in Bare) /\ ~row
    BY <1>5 DEF Tested, Refused
  <2>2. test' \in 1..18 /\ test' - 1 = test /\ test' > 1
    BY <1>1
  <2>3. troubles # 0
    BY <2>1 DEF LiveInv
  <2>. QED
    BY <1>1, <1>3, <1>4, <2>1, <2>2, <2>3 DEF LiveInv
<1>6. CASE ~Refused(told)
  <2>. DEFINE f == [t \in told |-> t.title]
              new == {f[t] : t \in told}
  <2>1. /\ stored' = stored \union {t.title : t \in told} /\ total' = total + Cardinality(told) /\ left' = left
    BY <1>6 DEF Tested, Counted
  <2>2. {t.title : t \in told} = new
    OBVIOUS
  <2>. HIDE DEF f
  <2>3. IsFiniteSet(new) /\ Cardinality(new) \in Nat /\ Cardinality(told) \in Nat /\ Cardinality(new) <= Cardinality(told)
    BY FewTitles DEF Fair
  <2>. HIDE DEF new
  <2>4. /\ IsFiniteSet(stored \union new) /\ Cardinality(stored \union new) = Cardinality(stored) + Cardinality(new) - Cardinality(stored \intersect new)
        /\ Cardinality(stored) \in Nat /\ Cardinality(stored \intersect new) \in Nat
    <3>1. IsFiniteSet(stored) /\ IsFiniteSet(stored \intersect new)
      BY <2>3, FS_Subset DEF LiveInv
    <3>. QED
      BY <2>3, <3>1, FS_Union, FS_CardinalityType
  <2>5. total \in Nat /\ Cardinality(stored) <= total
    BY DEF LiveInv
  <2>6. IsFiniteSet(stored') /\ Cardinality(stored') <= total' /\ total' \in Nat
    <3>1. stored' = stored \union new
      BY <2>1, <2>2
    <3>2. Cardinality(stored \union new) <= total + Cardinality(told) /\ total + Cardinality(told) \in Nat
      BY <2>3, <2>4, <2>5
    <3>. QED
      BY <2>1, <2>4, <3>1, <3>2
  <2>7. \A t \in stored' : Real(t)'
    BY <1>3, <2>1 DEF LiveInv, Fair
  <2>8. ASSUME troubles' = 0, line' = "answers", test' > 2, NEW i \in Indices', OpenToAll(i)'
        PROVE  Title("open", C(i))' \in stored'
    <3>1. CASE test = 2
      BY <1>1, <1>2, <1>3, <2>1, <2>8, <3>1
    <3>2. CASE test > 2
      BY <1>1, <1>3, <2>1, <2>8, <3>2 DEF LiveInv
    <3>. QED
      BY <1>1, <2>8, <3>1, <3>2
  <2>9. (troubles' = 0 /\ line' = "refuses") => stored' = {}
    BY <1>1, <2>1 DEF LiveInv, Fair
  <2>10. test' \in 1..18 /\ left' = "no"
    BY <1>1, <2>1
  <2>. QED
    BY <1>1, <1>4, <2>6, <2>7, <2>8, <2>9, <2>10 DEF LiveInv
<1>. QED
  BY <1>5, <1>6

\* Fewer controllers, and the findings of both kinds, stay fair.
LEMMA ProbeInv == LiveInv /\ ProbeControllers => LiveInv'
<1>. SUFFICES ASSUME LiveInv, ProbeControllers PROVE LiveInv'
  OBVIOUS
<1>1. Fair(Baseline)
  <2>. DEFINE root == Ask("GET", "root", "token")
              cors == Ask("OPTIONS", "root", "token")
              lost == Ask("GET", "nowhere", "token")
              a == root.status # 0 /\ "unprotected" \in root.tells
              b == cors.status # 0 /\ "reflected" \in cors.tells
              c == lost.status # 0 /\ "error" \in lost.tells
              d == Ask("GET", "admin", "token").status = 200
  <2>1. line # "answers" => ~a /\ ~b /\ ~c /\ ~d
    BY Muted
  <2>2. a \in BOOLEAN /\ b \in BOOLEAN /\ c \in BOOLEAN /\ d \in BOOLEAN
    OBVIOUS
  <2>3. Baseline = Once("headers", a) \union Once("cors", b) \union Once("errors", c) \union Once("sensitive", d)
    BY DEF Baseline
  <2>. HIDE DEF a, b, c, d
  <2>4. Fair(Once("headers", a)) /\ Fair(Once("cors", b)) /\ Fair(Once("errors", c)) /\ Fair(Once("sensitive", d))
    BY <2>1, <2>2, OnceFair
  <2>. QED
    BY <2>3, <2>4, BothFair
<1>2. Fair(ProbeAll)
  <2>. DEFINE Page(i) == Ask(C(i).method, C(i).place, "token")
              probed == {i \in Indices : C(i).method \notin {"OPTIONS", "HEAD", "PATCH"}}
              Same(i) == {j \in probed : j <= i /\ Page(j).status = 200 /\ Page(j).body = Page(i).body}
              served == {i \in probed : Page(i).status = 200 /\ Cardinality(Same(i)) <= SameBody}
              a == {i \in served : C(i).gated}
              b == {i \in probed : Page(i).status = 500}
              c == {i \in probed : Page(i).status >= 400 /\ "error" \in Page(i).tells}
  <2>1. a \subseteq Indices /\ b \subseteq Indices /\ c \subseteq Indices
    OBVIOUS
  <2>2. line # "answers" => a = {} /\ b = {} /\ c = {}
    BY Muted
  <2>3. ProbeAll = Each("passed", a) \union Each("failure", b) \union Each("disclosure", c)
    BY DEF ProbeAll
  <2>. HIDE DEF a, b, c
  <2>4. Fair(Each("passed", a)) /\ Fair(Each("failure", b)) /\ Fair(Each("disclosure", c))
    BY <2>1, <2>2, EachFair
  <2>. QED
    BY <2>3, <2>4, BothFair
<1>3. Fair(IF Indices = {} THEN Baseline ELSE ProbeAll)
  BY <1>1, <1>2
<1>. QED
  BY <1>3, TestedInv DEF ProbeControllers

LEMMA BypassInv == LiveInv /\ AuthBypass => LiveInv'
<1>. SUFFICES ASSUME LiveInv, AuthBypass PROVE LiveInv'
  OBVIOUS
<1>. DEFINE called == {i \in Indices : C(i).method \notin {"OPTIONS", "HEAD"}}
            turned == {i \in called : AskAs(C(i), "anon").status = 401 /\ AskAs(C(i), "header").status = 200}
            f == [i \in turned |-> [title |-> <<"header">>, nth |-> i]]
            open == OpenOf(called)
            headers == {f[i] : i \in turned}
<1>1. BypassFindings = Each("open", open) \union headers
  BY DEF BypassFindings
<1>2. line # "answers" => open = {} /\ turned = {}
  BY Muted DEF OpenOf, AskAs
<1>3. open \subseteq Indices /\ turned \subseteq Indices /\ \A i \in open : AskAs(C(i), "anon").status = 200
  BY DEF OpenOf
<1>4. Fair(headers)
  <2>1. IsFiniteSet(turned)
    BY <1>3, FewIndices, FS_Subset
  <2>2. ASSUME NEW t \in headers PROVE t.title[1] = "header"
    <3>1. PICK i \in turned : t = f[i]
      OBVIOUS
    <3>2. f[i] = [title |-> <<"header">>, nth |-> i]
      OBVIOUS
    <3>. QED
      BY <3>1, <3>2
  <2>3. line # "answers" => headers = {}
    BY <1>2
  <2>4. \A t \in headers : Real(t.title)
    BY <2>2 DEF Real
  <2>. HIDE DEF f
  <2>5. IsFiniteSet(headers)
    BY <2>1, FewTitles
  <2>. QED
    BY <2>3, <2>4, <2>5 DEF Fair
<1>5. \A i \in Indices : OpenToAll(i) => i \in open
  BY DEF OpenToAll, OpenOf
<1>. HIDE DEF open, turned
<1>6. Fair(Each("open", open))
  BY <1>2, <1>3, EachFair
<1>. HIDE DEF headers
<1>7. Fair(BypassFindings)
  BY <1>1, <1>4, <1>6, BothFair
<1>8. ASSUME NEW i \in Indices, OpenToAll(i) PROVE \E t \in BypassFindings : t.title = Title("open", C(i))
  <2>. DEFINE t == [title |-> Title("open", C(i)), nth |-> i]
  <2>1. t \in Each("open", open) /\ t.title = Title("open", C(i))
    BY <1>5, <1>8 DEF Each
  <2>. QED
    BY <1>1, <2>1
<1>. QED
  BY <1>7, <1>8, TestedInv DEF AuthBypass

LEMMA BolaInv == LiveInv /\ Bola => LiveInv'
<1>. SUFFICES ASSUME LiveInv, Bola PROVE LiveInv'
  OBVIOUS
<1>1. PICK open \in SUBSET Indices : BolaFindings = Each("bola", open) /\ (line # "answers" => open = {})
  BY Muted DEF BolaFindings, AskAs
<1>2. Fair(BolaFindings)
  BY <1>1, EachFair
<1>. QED
  BY <1>2, TestedInv DEF Bola

LEMMA ValidateInv == LiveInv /\ ValidateStatic => LiveInv'
<1>. SUFFICES ASSUME LiveInv, ValidateStatic PROVE LiveInv'
  OBVIOUS
<1>. DEFINE Page(p) == Ask("GET", p, "token")
            served == {p \in target.static : Page(p).status = 200}
            broken == {q \in target.static : Page(q).status >= 400 /\ "error" \in Page(q).tells}
            right(S) == {[title |-> <<"validated", p>>, nth |-> 0] : p \in S}
            confirmed == {[title |-> <<"confirmed", p>>, nth |-> 0] : p \in broken}
<1>1. PICK seen \in SUBSET served : Tested("validate", right(seen) \union confirmed) /\ entry' = entry
  BY Zenon DEF ValidateStatic
<1>2. IsFiniteSet(seen) /\ IsFiniteSet(broken)
  BY FewIndices, FS_Subset
<1>3. line # "answers" => seen = {} /\ broken = {}
  BY Muted
<1>4. Fair(right(seen))
  <2>. DEFINE f == [p \in seen |-> [title |-> <<"validated", p>>, nth |-> 0]]
  <2>1. right(seen) = {f[p] : p \in seen} /\ \A t \in right(seen) : t.title[1] = "validated"
    OBVIOUS
  <2>. HIDE DEF f, right
  <2>2. IsFiniteSet(right(seen)) /\ (seen = {} => right(seen) = {})
    BY <1>2, <2>1, FewTitles
  <2>. QED
    BY <1>3, <2>1, <2>2 DEF Fair, Real
<1>5. Fair(confirmed)
  <2>. DEFINE f == [p \in broken |-> [title |-> <<"confirmed", p>>, nth |-> 0]]
  <2>. HIDE DEF broken
  <2>1. confirmed = {f[p] : p \in broken} /\ \A t \in confirmed : t.title[1] = "confirmed"
    OBVIOUS
  <2>. HIDE DEF f
  <2>. HIDE DEF confirmed
  <2>2. IsFiniteSet(confirmed) /\ (broken = {} => confirmed = {})
    BY <1>2, <2>1, FewTitles
  <2>. QED
    BY <1>3, <2>1, <2>2 DEF Fair, Real
<1>. HIDE DEF right, confirmed
<1>6. Fair(right(seen) \union confirmed)
  BY <1>4, <1>5, BothFair
<1>. QED
  BY <1>1, <1>6, TestedInv

LEMMA ManyFair == ASSUME NEW F, IsFiniteSet(F), \A a \in F : Fair(a), line # "answers" => UNION F = {} PROVE Fair(UNION F)
<1>1. IsFiniteSet(UNION F)
  BY FS_UNION DEF Fair
<1>. QED
  BY <1>1 DEF Fair

LEMMA SinksInv == LiveInv /\ Sinks => LiveInv'
<1>. SUFFICES ASSUME LiveInv, Sinks PROVE LiveInv'
  OBVIOUS
<1>. DEFINE Word == [sql |-> "sql", cmd |-> "uid", file |-> "root:"]
            Hit(kind, i) == LET page == AskAs(C(i), kind) IN Good(page) /\ Word[kind] \in page.tells
            Moved(i) == LET page == Ask("GET", C(i).place, "redirect")
                        IN page.status \in {301, 302, 303, 307, 308} /\ "evil" \in page.tells
            hits(kind) == {i \in Indices : Hit(kind, i) /\ (kind = "sql" => C(i).method \in {"GET", "POST"})}
            moved == {j \in Indices : "redirect" \in target.sinks /\ Moved(j)}
            kinds == target.sinks \intersect DOMAIN Word
            f == [kind \in kinds |-> Each(kind, hits(kind))]
            F == {f[kind] : kind \in kinds}
            to == [i \in moved |-> [title |-> <<"redirect", Path(C(i))>>, nth |-> i]]
            last == {[title |-> <<"redirect", Path(C(i))>>, nth |-> i] : i \in moved}
            G == {Each(kind, hits(kind)) : kind \in kinds}
<1>1. SinkFindings = (UNION F) \union last
  <2>1. SinkFindings = (UNION G) \union last
    BY Zenon DEF SinkFindings
  <2>2. \A kind \in kinds : f[kind] = Each(kind, hits(kind))
    OBVIOUS
  <2>. HIDE DEF f, hits, kinds
  <2>3. F = G
    BY <2>2
  <2>. HIDE DEF last, F, G
  <2>. QED
    BY <2>1, <2>3
<1>2. IsFiniteSet(kinds) /\ kinds \subseteq {"sql", "cmd", "file"}
  <2>1. DOMAIN Word = {"sql", "cmd", "file"}
    OBVIOUS
  <2>2. IsFiniteSet({"sql"} \union {"cmd"} \union {"file"})
    BY FS_Singleton, FS_Union
  <2>3. {"sql", "cmd", "file"} = {"sql"} \union {"cmd"} \union {"file"}
    OBVIOUS
  <2>. QED
    BY <2>1, <2>2, <2>3, FS_Subset
<1>3. line # "answers" => moved = {} /\ \A kind : hits(kind) = {}
  BY Muted DEF AskAs
<1>4. \A kind \in kinds : f[kind] = Each(kind, hits(kind))
  OBVIOUS
<1>5. \A kind : hits(kind) \subseteq Indices
  OBVIOUS
<1>6. moved \subseteq Indices
  OBVIOUS
<1>. HIDE DEF hits, moved, kinds, f
<1>7. IsFiniteSet(F)
  BY <1>2, FewTitles
<1>8. \A a \in F : Fair(a)
  <2>1. ASSUME NEW kind \in kinds PROVE Fair(Each(kind, hits(kind)))
    <3>1. kind \notin {"open", "unguarded", "unsecured"}
      BY <1>2
    <3>. QED
      BY <1>3, <1>5, <3>1, EachFair
  <2>. QED
    BY <1>4, <2>1
<1>9. line # "answers" => UNION F = {}
  BY <1>8 DEF Fair
<1>10. Fair(UNION F)
  BY <1>7, <1>8, <1>9, ManyFair
<1>11. Fair(last)
  <2>1. \A i \in moved : to[i] = [title |-> <<"redirect", Path(C(i))>>, nth |-> i]
    OBVIOUS
  <2>. HIDE DEF to
  <2>2. last = {to[i] : i \in moved}
    BY <2>1
  <2>3. IsFiniteSet(moved)
    BY <1>6, FewIndices, FS_Subset
  <2>4. ASSUME NEW t \in last PROVE Real(t.title)
    <3>1. PICK i \in moved : t = [title |-> <<"redirect", Path(C(i))>>, nth |-> i]
      BY <2>4, Zenon
    <3>2. t.title = <<"redirect", Path(C(i))>>
      BY <3>1
    <3>. QED
      BY <3>2 DEF Real
  <2>5. moved = {} => last = {}
    OBVIOUS
  <2>. HIDE DEF last
  <2>6. IsFiniteSet(last)
    BY <2>2, <2>3, FewTitles
  <2>. QED
    BY <1>3, <2>4, <2>5, <2>6 DEF Fair
<1>. HIDE DEF F, last
<1>12. Fair(SinkFindings)
  <2>. DEFINE all == UNION F
  <2>1. Fair(all)
    BY <1>10
  <2>3. SinkFindings = all \union last
    BY <1>1
  <2>. HIDE DEF all
  <2>2. Fair(all \union last)
    BY <2>1, <1>11, BothFair
  <2>. QED
    BY <2>3, <2>2
<1>. QED
  BY <1>12, TestedInv, Zenon DEF Sinks

LEMMA DiffInv == LiveInv /\ ResponseDiffing => LiveInv'
<1>. SUFFICES ASSUME LiveInv, ResponseDiffing PROVE LiveInv'
  OBVIOUS
<1>. DEFINE Base(i) == AskAs(C(i), "token")
            Attack(i) == AskAs(C(i), "sql")
            compared == {i \in Indices : C(i).method \in {"GET", "POST"} /\ Base(i).status # 0}
            Attacks(i) == IF C(i).method = "GET" THEN {i, i + Len(target.controllers)} ELSE {i}
            rows(kind, i) == {[title |-> Title(kind, C(i)), nth |-> n] : n \in Attacks(i)}
            Twice(kind, S) == UNION {rows(kind, i) : i \in S}
            differ == {i \in compared : Attack(i).status = 500 /\ Base(i).status # 500}
            odd == {i \in compared : /\ Attack(i).status = Base(i).status
                                     /\ Attack(i).body # Base(i).body
                                     /\ "error" \in Attack(i).tells}
<1>1. DiffFindings = Twice("diff", differ) \union Twice("anomaly", odd)
  BY DEF DiffFindings
<1>2. differ \subseteq Indices /\ odd \subseteq Indices
  OBVIOUS
<1>3. line # "answers" => differ = {} /\ odd = {}
  BY Muted DEF AskAs
<1>. HIDE DEF differ, odd
<1>4. ASSUME NEW kind \in {"diff", "anomaly"}, NEW S, S \subseteq Indices, line # "answers" => S = {}
      PROVE  Fair(Twice(kind, S))
  <2>1. ASSUME NEW i \in S PROVE IsFiniteSet(rows(kind, i)) /\ \A t \in rows(kind, i) : Real(t.title)
    <3>1. IsFiniteSet(Attacks(i))
      <4>1. IsFiniteSet({i}) /\ IsFiniteSet({i} \union {i + Len(target.controllers)})
        BY FS_Singleton, FS_Union
      <4>2. {i} \union {i + Len(target.controllers)} = {i, i + Len(target.controllers)}
        OBVIOUS
      <4>. QED
        BY <4>1, <4>2
    <3>. DEFINE f == [n \in Attacks(i) |-> [title |-> Title(kind, C(i)), nth |-> n]]
    <3>2. \A n \in Attacks(i) : f[n] = [title |-> Title(kind, C(i)), nth |-> n]
      OBVIOUS
    <3>. HIDE DEF f, Attacks
    <3>4. rows(kind, i) = {f[n] : n \in Attacks(i)}
      BY <3>2, Zenon
    <3>5. ASSUME NEW t \in rows(kind, i) PROVE Real(t.title)
      <4>1. PICK n \in Attacks(i) : t = [title |-> Title(kind, C(i)), nth |-> n]
        BY <3>5, Zenon
      <4>2. t.title = Title(kind, C(i))
        BY <4>1
      <4>3. t.title[1] = kind
        BY <4>2 DEF Title
      <4>. QED
        BY <1>4, <4>3 DEF Real
    <3>. HIDE DEF rows
    <3>3. IsFiniteSet(rows(kind, i))
      BY <3>1, <3>4, FewTitles
    <3>. QED
      BY <3>3, <3>5
  <2>. HIDE DEF rows
  <2>2. IsFiniteSet(S)
    BY <1>4, FewIndices, FS_Subset
  <2>. DEFINE f == [i \in S |-> rows(kind, i)]
  <2>3. {rows(kind, i) : i \in S} = {f[i] : i \in S}
    OBVIOUS
  <2>. HIDE DEF f
  <2>4. IsFiniteSet({rows(kind, i) : i \in S})
    BY <2>2, <2>3, FewTitles
  <2>5. IsFiniteSet(Twice(kind, S))
    BY <2>1, <2>4, FS_UNION
  <2>. QED
    BY <1>4, <2>1, <2>5 DEF Fair
<1>5. Fair(Twice("diff", differ)) /\ Fair(Twice("anomaly", odd))
  BY <1>2, <1>3, <1>4
<1>. HIDE DEF Twice
<1>6. Fair(DiffFindings)
  BY <1>1, <1>5, BothFair
<1>. QED
  BY <1>6, TestedInv DEF ResponseDiffing

LEMMA RaceInv == LiveInv /\ RaceConditions => LiveInv'
<1>1. Fair({})
  BY FS_EmptySet DEF Fair
<1>. QED
  BY <1>1, TestedInv DEF RaceConditions

LEMMA GuardInv == LiveInv /\ GuardWorkflow => LiveInv'
<1>. SUFFICES ASSUME LiveInv, GuardWorkflow PROVE LiveInv'
  OBVIOUS
<1>1. PICK a \in SUBSET Indices, b \in SUBSET Indices, c \in SUBSET Indices :
        /\ GuardFindings = Each("unguarded", a) \union Each("empty", b) \union Each("faked", c)
        /\ \A i \in a : Shown(AskAs(C(i), "anon"))
        /\ line # "answers" => a = {} /\ b = {} /\ c = {}
  <2>. DEFINE named == {i \in Indices : C(i).guarded}
              protected == IF named # {} THEN named ELSE {i \in Indices : "account" \in C(i).about}
              called == {i \in protected : C(i).method \notin {"OPTIONS", "HEAD"}}
              Through(how) == {i \in called : Shown(AskAs(C(i), how))}
  <2>1. protected \subseteq Indices
    OBVIOUS
  <2>2. \A how : Through(how) \in SUBSET Indices /\ (line # "answers" => Through(how) = {})
    BY <2>1, Muted DEF AskAs
  <2>3. \A i \in Through("anon") : Shown(AskAs(C(i), "anon"))
    OBVIOUS
  <2>4. GuardFindings = Each("unguarded", Through("anon")) \union Each("empty", Through("empty")) \union Each("faked", Through("fake"))
    BY DEF GuardFindings
  <2>. HIDE DEF Through
  <2>. QED
    BY <2>2, <2>3, <2>4
<1>2. \A i \in a : AskAs(C(i), "anon").status = 200
  BY <1>1 DEF Shown
<1>3. Fair(Each("unguarded", a)) /\ Fair(Each("empty", b)) /\ Fair(Each("faked", c))
  BY <1>1, <1>2, EachFair
<1>4. Fair(GuardFindings)
  BY <1>1, <1>3, BothFair
<1>. QED
  BY <1>4, TestedInv DEF GuardWorkflow

LEMMA IdorInv == LiveInv /\ IdorWorkflow => LiveInv'
<1>. SUFFICES ASSUME LiveInv, IdorWorkflow PROVE LiveInv'
  OBVIOUS
<1>. DEFINE f == [i \in Indices |-> [title |-> <<"idor", C(i).method, C(i).place>>, nth |-> i]]
<1>1. PICK reached \in SUBSET Indices :
        /\ IdorFindings = {[title |-> <<"idor", C(i).method, C(i).place>>, nth |-> i] : i \in reached}
        /\ line # "answers" => reached = {}
  BY Muted DEF IdorFindings, AskAs
<1>2. \A i \in Indices : f[i] = [title |-> <<"idor", C(i).method, C(i).place>>, nth |-> i]
  OBVIOUS
<1>. HIDE DEF f
<1>6. IdorFindings = {f[i] : i \in reached}
  BY <1>1, <1>2
<1>7. ASSUME NEW t \in IdorFindings PROVE Real(t.title)
  <2>1. PICK i \in reached : t = [title |-> <<"idor", C(i).method, C(i).place>>, nth |-> i]
    BY <1>1, <1>7, Zenon
  <2>2. t.title = <<"idor", C(i).method, C(i).place>>
    BY <2>1
  <2>. QED
    BY <2>2 DEF Real
<1>3. IsFiniteSet(reached)
  BY FewIndices, FS_Subset
<1>4. IsFiniteSet(IdorFindings) /\ (line # "answers" => IdorFindings = {})
  BY <1>1, <1>6, <1>3, FewTitles
<1>5. Fair(IdorFindings)
  BY <1>7, <1>4 DEF Fair
<1>. QED
  BY <1>5, TestedInv DEF IdorWorkflow

LEMMA LoginInv == LiveInv /\ LoginWorkflow => LiveInv'
<1>. SUFFICES ASSUME LiveInv, LoginWorkflow PROVE LiveInv'
  OBVIOUS
<1>1. PICK opened \in SUBSET Indices : LoginFindings = Each("private", opened) /\ (line # "answers" => opened = {})
  <2>. DEFINE probed == {i \in Indices : C(i).method \notin {"OPTIONS", "HEAD"} /\ \A j \in Logins : Resolve(C(i)) # Resolve(C(j))}
              opened == {i \in probed : AskAs(C(i), "entry").status = 200 /\ "private" \in AskAs(C(i), "entry").tells}
  <2>1. LoginFindings = Each("private", opened)
    BY DEF LoginFindings
  <2>2. opened \subseteq Indices /\ (line # "answers" => opened = {})
    BY Muted DEF AskAs
  <2>. HIDE DEF opened
  <2>. QED
    BY <2>1, <2>2
<1>2. Fair(LoginFindings)
  BY <1>1, EachFair
<1>3. Fair(IF Token THEN LoginFindings ELSE {})
  BY <1>2, FS_EmptySet DEF Fair
<1>. QED
  BY <1>3, TestedInv DEF LoginWorkflow

LEMMA SessionInv == LiveInv /\ SessionWorkflow => LiveInv'
<1>. SUFFICES ASSUME LiveInv, SessionWorkflow PROVE LiveInv'
  OBVIOUS
<1>. DEFINE root == Ask("GET", "root", "anon")
            kept == "cookie" \in root.tells /\ "cookie" \in Ask("POST", "login", "login").tells
            opens == /\ entry \/ target.bearer
                     /\ Ask("GET", "root", IF entry THEN "entry" ELSE "token").status = 200
                     /\ Shown(Ask("GET", "root", "none"))
<1>1. SessionFindings = IF root.status = 0 THEN {} ELSE Once("fixation", kept) \union Once("none", opens)
  BY DEF SessionFindings
<1>2. kept \in BOOLEAN /\ opens \in BOOLEAN
  OBVIOUS
<1>3. line # "answers" => ~kept /\ ~opens
  BY Muted
<1>. HIDE DEF kept, opens, root
<1>4. Fair(Once("fixation", kept)) /\ Fair(Once("none", opens))
  BY <1>2, <1>3, OnceFair
<1>5. Fair(Once("fixation", kept) \union Once("none", opens)) /\ Fair({})
  BY <1>4, BothFair, FS_EmptySet DEF Fair
<1>6. Fair(SessionFindings)
  BY <1>1, <1>5
<1>. QED
  BY <1>6, TestedInv DEF SessionWorkflow

LEMMA RegisterInv == LiveInv /\ RegisterWorkflow => LiveInv'
<1>. SUFFICES ASSUME LiveInv, RegisterWorkflow PROVE LiveInv'
  OBVIOUS
<1>. DEFINE taken == {i \in Indices : "register" \in C(i).about
                                      /\ Ask("POST", C(i).place, "register").status \in {200, 201}
                                      /\ "created" \in Ask("POST", C(i).place, "register").tells}
<1>1. RegisterFindings = Each("mass", taken)
  BY DEF RegisterFindings
<1>2. taken \subseteq Indices /\ (line # "answers" => taken = {})
  BY Muted
<1>. HIDE DEF taken
<1>3. Fair(RegisterFindings)
  BY <1>1, <1>2, EachFair
<1>. QED
  BY <1>3, TestedInv DEF RegisterWorkflow

\* What is told of the places a description has.
LEMMA ToldFair ==
  ASSUME LiveInv, NEW S, S \subseteq Endpoints, NEW kind, kind \notin {"open", "unguarded"},
         kind = "unsecured" => \A e \in S : AskOf(e, "anon").status = 200,
         line # "answers" => S = {}
  PROVE  Fair(Told(kind, S))
<1>1. IsFiniteSet(S)
  <2>1. Endpoints \subseteq target.described \/ Endpoints = {}
    BY DEF Endpoints
  <2>. QED
    BY <2>1, FewIndices, FS_Subset, FS_EmptySet
<1>. DEFINE f == [e \in S |-> [title |-> <<kind, e.method, e.place>>, nth |-> 0]]
<1>2. Told(kind, S) = {f[e] : e \in S}
  BY DEF Told
<1>3. ASSUME NEW e \in S PROVE Real(<<kind, e.method, e.place>>)
  <2>1. CASE kind = "unsecured"
    <3>1. Ask(e.method, e.place, "anon").status = 200 /\ line = "answers"
      BY <1>3, <2>1 DEF AskOf
    <3>2. Free(e.method, e.place)
      BY <3>1 DEF Ask, Free
    <3>. QED
      BY <2>1, <3>2 DEF Real
  <2>2. CASE kind # "unsecured"
    BY <2>2 DEF Real
  <2>. QED
    BY <2>1, <2>2
<1>4. \A t \in Told(kind, S) : \E e \in S : t.title = <<kind, e.method, e.place>>
  BY DEF Told
<1>. HIDE DEF f
<1>5. IsFiniteSet(Told(kind, S)) /\ (S = {} => Told(kind, S) = {})
  BY <1>1, <1>2, FewTitles
<1>. QED
  BY <1>3, <1>4, <1>5 DEF Fair

LEMMA DescribedInv ==
  LiveInv /\ (ParameterInjection \/ TypeConfusion \/ ConstraintViolation \/ MissingRequired \/ AuthOnSecured) => LiveInv'
<1>. SUFFICES ASSUME LiveInv, ParameterInjection \/ TypeConfusion \/ ConstraintViolation \/ MissingRequired \/ AuthOnSecured
              PROVE LiveInv'
  OBVIOUS
<1>1. CASE ParameterInjection
  <2>. DEFINE S == {e \in Endpoints : \E p \in e.params : AskOf(e, IF p = "path" THEN "token" ELSE "payload").status = 500}
  <2>1. line # "answers" => S = {}
    BY Muted DEF AskOf
  <2>2. Fair(Told("injection", S))
    BY <2>1, ToldFair
  <2>. QED
    BY <1>1, <2>2, TestedInv DEF ParameterInjection
<1>2. CASE TypeConfusion
  <2>. DEFINE S == {e \in Endpoints : Writes(e) /\ e.fields /\ AskOf(e, "confused").status = 500}
  <2>1. line # "answers" => S = {}
    BY Muted DEF AskOf
  <2>2. Fair(Told("confusion", S))
    BY <2>1, ToldFair
  <2>. QED
    BY <1>2, <2>2, TestedInv DEF TypeConfusion
<1>3. CASE ConstraintViolation
  <2>. DEFINE S == {e \in Endpoints : Writes(e) /\ e.bounded /\ AskOf(e, "beyond").status = 500}
  <2>1. line # "answers" => S = {}
    BY Muted DEF AskOf
  <2>2. Fair(Told("constraint", S))
    BY <2>1, ToldFair
  <2>. QED
    BY <1>3, <2>2, TestedInv DEF ConstraintViolation
<1>4. CASE MissingRequired
  <2>. DEFINE How(e) == IF e.required = {"path"} THEN "token" ELSE "bare"
              S == {e \in Endpoints : e.method = "GET" /\ e.required # {} /\ AskOf(e, How(e)).status = 200}
              T == {e \in Endpoints : Writes(e) /\ e.needs /\ AskOf(e, "bare").status \in {200, 201}}
  <2>1. line # "answers" => S = {} /\ T = {}
    BY Muted DEF AskOf
  <2>2. Fair(Told("parameter", S)) /\ Fair(Told("body", T))
    BY <2>1, ToldFair
  <2>3. Fair(Told("parameter", S) \union Told("body", T))
    BY <2>2, BothFair
  <2>4. Tested("omit", Told("parameter", S) \union Told("body", T)) /\ entry' = entry
    BY <1>4 DEF MissingRequired
  <2>. HIDE DEF S, T
  <2>. QED
    BY <2>3, <2>4, TestedInv
<1>5. CASE AuthOnSecured
  <2>. DEFINE S == {e \in Endpoints : e.secured /\ Shown(AskOf(e, "anon"))}
  <2>1. (line # "answers" => S = {}) /\ \A e \in S : AskOf(e, "anon").status = 200
    BY Muted DEF AskOf, Shown
  <2>2. Fair(Told("unsecured", S))
    BY <2>1, ToldFair
  <2>. QED
    BY <1>5, <2>2, TestedInv DEF AuthOnSecured
<1>. QED
  BY <1>1, <1>2, <1>3, <1>4, <1>5

\* Whatever is not a test leaves what was told alone, or takes it back.
LEMMA LiveRestInv == LiveInv /\ (Finish \/ (\E to \in {"answers", "refuses", "hangs"} : LineTurns(to)) \/ DeleteRow \/ UNCHANGED qvars) => LiveInv'
<1>. SUFFICES ASSUME LiveInv, Finish \/ (\E to \in {"answers", "refuses", "hangs"} : LineTurns(to)) \/ DeleteRow \/ UNCHANGED qvars
              PROVE LiveInv'
  OBVIOUS
<1>1. UNCHANGED <<target, test, total, entry>>
  BY DEF Finish, LineTurns, DeleteRow, qvars
<1>2. (\A t : Real(t)' = Real(t)) /\ Indices' = Indices
  BY <1>1 DEF Real, Free, Indices
<1>3. CASE Finish
  <2>1. UNCHANGED <<line, troubles, row, stored>> /\ left' = "done" /\ test = 18
    BY <1>3 DEF Finish, LiveInv, Tests
  <2>2. \A i : OpenToAll(i)' = OpenToAll(i) /\ Title("open", C(i))' = Title("open", C(i))
    BY <1>1, <2>1 DEF OpenToAll, C, AskAs, Ask, Title, Resolve, Path, Fill
  <2>. QED
    BY <1>1, <1>2, <2>1, <2>2 DEF LiveInv
<1>4. CASE \E to \in {"answers", "refuses", "hangs"} : LineTurns(to)
  <2>1. UNCHANGED <<row, stored, left>> /\ troubles' = troubles + 1 /\ line' \in {"answers", "refuses", "hangs"} /\ left = "no"
    BY <1>4 DEF LineTurns
  <2>2. troubles' \in Nat /\ troubles' # 0
    BY <2>1 DEF LiveInv
  <2>. QED
    BY <1>1, <1>2, <2>1, <2>2 DEF LiveInv
<1>5. CASE DeleteRow
  <2>1. UNCHANGED <<line, left>> /\ troubles' = troubles + 1 /\ stored' = {} /\ left = "no"
    BY <1>5 DEF DeleteRow
  <2>2. troubles' \in Nat /\ troubles' # 0
    BY <2>1 DEF LiveInv
  <2>3. IsFiniteSet({}) /\ Cardinality({}) = 0
    BY FS_EmptySet
  <2>. QED
    BY <1>1, <1>2, <2>1, <2>2, <2>3 DEF LiveInv
<1>6. CASE UNCHANGED qvars
  <2>1. UNCHANGED <<line, troubles, row, stored, left>>
    BY <1>6 DEF qvars
  <2>2. \A i : OpenToAll(i)' = OpenToAll(i) /\ Title("open", C(i))' = Title("open", C(i))
    BY <1>1, <2>1 DEF OpenToAll, C, AskAs, Ask, Title, Resolve, Path, Fill
  <2>. QED
    BY <1>1, <1>2, <2>1, <2>2 DEF LiveInv
<1>. QED
  BY <1>3, <1>4, <1>5, <1>6

LEMMA LiveStepInv ==
  LiveInv /\ (LiveStep \/ (\E to \in {"answers", "refuses", "hangs"} : LineTurns(to)) \/ DeleteRow \/ UNCHANGED qvars) => LiveInv'
BY ProbeInv, BypassInv, BolaInv, ValidateInv, SinksInv, DiffInv, RaceInv, GuardInv, IdorInv, LoginInv, SessionInv, RegisterInv,
   DescribedInv, LiveRestInv DEF LiveStep

LEMMA LiveInitInv == LiveInit => LiveInv
<1>. SUFFICES ASSUME LiveInit PROVE LiveInv
  OBVIOUS
<1>1. IsFiniteSet({}) /\ Cardinality({}) = 0
  BY FS_EmptySet
<1>. QED
  BY <1>1 DEF LiveInit, LiveInv

\* The whole invariant of the module: only a grey team scan looks at a domain.
ScannersInv == OsintInv /\ (part = "osint" => world \in Worlds) /\ ReadInv /\ TraceInv /\ LiveInv

LEMMA ScannersInitInv == ScannersInit => ScannersInv
<1>. SUFFICES ASSUME ScannersInit PROVE ScannersInv
  OBVIOUS
<1>1. OsintInit /\ silent \in Troubles
  BY OsintAssumption DEF ScannersInit
<1>2. part = "osint" => world \in Worlds
  BY DEF ScannersInit
<1>3. source \in Sources \union {NoSource} /\ ReadingBegins
  BY DEF ScannersInit
<1>4. source.width \in Nat /\ source.lines \in Seq(Line)
  <2>1. NoSource.width \in Nat /\ NoSource.lines \in Seq(Line)
    BY DEF NoSource
  <2>2. CASE source = NoSource
    BY <2>1, <2>2
  <2>3. CASE source \in Sources
    BY <2>3, SourcesAssumption
  <2>. QED
    BY <1>3, <2>2, <2>3
<1>5. ReadInv
  BY <1>3, <1>4 DEF ReadInv, ReadingBegins
<1>6. repo \in Repos \union {NoRepo} /\ TaintBegins
  BY DEF ScannersInit
<1>7. RepoOK
  <2>1. NoRepo.work \in Seq(STRING) /\ DOMAIN NoRepo.calls = {}
    <3>1. NoRepo.work = <<>> /\ NoRepo.calls = <<>>
      BY DEF NoRepo
    <3>. QED
      BY <3>1
  <2>. QED
    BY <1>6, <2>1, TaintAssumption DEF RepoOK
<1>8. TraceInv
  BY <1>6, <1>7, TraceBegins
<1>9. LiveInv
  BY LiveInitInv DEF ScannersInit
<1>. QED
  BY <1>1, <1>2, <1>5, <1>8, <1>9, OsintInitInv DEF ScannersInv

LEMMA ScannersStepInv == ScannersInv /\ [ScannersNext]_wvars => ScannersInv'
<1>. SUFFICES ASSUME ScannersInv, [ScannersNext]_wvars PROVE ScannersInv'
  OBVIOUS
<1>0. OsintInv /\ (part = "osint" => world \in Worlds) /\ ReadInv /\ TraceInv /\ LiveInv
  BY DEF ScannersInv
<1>1. ASSUME UNCHANGED <<ovars, part>> PROVE (OsintInv /\ (part = "osint" => world \in Worlds))'
  <2>1. UNCHANGED <<world, silent, shifts, wanted, coming, ended, reported, heard, part>>
    BY <1>1 DEF ovars
  <2>. QED
    BY <1>0, <2>1, OsintUntouched
<1>2. ASSUME OsintStep \/ Shift, Osint PROVE (OsintInv /\ (part = "osint" => world \in Worlds))'
  <2>1. part = "osint" /\ part' = part /\ world \in Worlds /\ OsintInv
    BY <1>0, <1>2 DEF Osint
  <2>2. CASE OsintStep
    <3>1. CASE FinishPhase
      BY <2>1, <3>1, OsintUntouched DEF FinishPhase
    <3>2. ASSUME ~FinishPhase PROVE OsintInv'
      BY <2>1, <2>2, <3>2, DnsInv, WhoisInv, SslInv, CrtshInv, HeadersInv, PathsInv, TechInv, EmailsInv, WaybackInv,
         GithubInv, GoogleInv, FrontendInv, TrivialPathsInv DEF OsintStep
    <3>3. world' = world
      BY <2>2, Zenon DEF OsintStep, FinishPhase, Collected, CollectDns, CollectWhois, CollectSsl, CollectCrtsh,
         CollectHttpHeaders, CollectWebPaths, CollectTechFingerprint, CollectEmails, CollectWayback,
         CollectGithubDorks, CollectGoogleDorks, CollectFrontend, CollectTrivialPaths
    <3>. QED
      BY <2>1, <3>1, <3>2, <3>3
  <2>3. CASE Shift
    <3>1. UNCHANGED <<world, wanted, coming, reported, heard>>
      BY <2>3 DEF Shift
    <3>. QED
      BY <2>1, <2>3, <3>1, OsintUntouched
  <2>. QED
    BY <1>2, <2>2, <2>3
<1>3. ASSUME UNCHANGED <<ovars, part>>, SourcesStep \/ UNCHANGED uvars, TaintStep \/ UNCHANGED tvars,
             LiveStep \/ (\E to \in {"answers", "refuses", "hangs"} : LineTurns(to)) \/ DeleteRow \/ UNCHANGED qvars
      PROVE  ScannersInv'
  BY <1>0, <1>1, <1>3, ReadStepInv, TraceStepInv, LiveStepInv DEF ScannersInv
<1>4. ASSUME OsintStep \/ Shift, Osint PROVE ScannersInv'
  <2>1. UNCHANGED uvars /\ UNCHANGED tvars /\ UNCHANGED qvars
    BY <1>4 DEF Osint
  <2>. QED
    BY <1>0, <1>2, <1>4, <2>1, ReadStepInv, TraceStepInv, LiveStepInv DEF ScannersInv
<1>. QED
  BY <1>3, <1>4 DEF ScannersNext, wvars, Red, Live, Taint, Reading

\* What a collection of a grey team scan tells is what its sources said: a finding repeats an answer,
\* no module ends without a word, names are missing only where there were enough, every path that is
\* shown is told of, each component is searched for once, and two modules that ask for the site agree
\* as long as the network stays as it is.
THEOREM OsintStaysSound == ScannersSpec => []OsintSound
<1>1. ScannersSpec => []ScannersInv
  BY ScannersInitInv, ScannersStepInv, PTL DEF ScannersSpec
<1>2. ScannersInv => OsintSound
  BY OsintInvSound DEF ScannersInv
<1>. QED
  BY <1>1, <1>2, PTL

\* What a purple team scan reads off the sources is in them: routes with the function below them and
\* the gate above it, bodies that end where the function ends, and of the taint tracker flows along
\* calls that are there, none of a near sink missing, whatever the sources and the repository are.
THEOREM SourcesStaySound == ScannersSpec => []SourcesSound
<1>1. ScannersSpec => []ScannersInv
  BY ScannersInitInv, ScannersStepInv, PTL DEF ScannersSpec
<1>2. ScannersInv => SourcesSound
  BY TraceInvSound, HandlersAreOwn, GatesAreSeen, BodiesOfTop, TaintInBlock, SourcesTyped, BraceInBlock
     DEF ScannersInv, SourcesSound
<1>. QED
  BY <1>1, <1>2, PTL

\* What the live tests of a purple team scan tell is what the target did, though it goes, hangs or comes
\* back, and though the row may be gone: what is called open was served to anyone, a target that answers
\* throughout has every controller it serves to anyone named, only a scan without its row is left by an
\* exception, the counts are never less than what is stored, and a silent target has no finding.
THEOREM LiveTestsStaySound == ScannersSpec => []LiveTestsSound
<1>1. ScannersSpec => []ScannersInv
  BY ScannersInitInv, ScannersStepInv, PTL DEF ScannersSpec
<1>2. ScannersInv => LiveTestsSound
  BY LiveInvSound DEF ScannersInv
<1>. QED
  BY <1>1, <1>2, PTL
=============================================================================
