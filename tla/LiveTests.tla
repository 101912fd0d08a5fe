----------------------------- MODULE LiveTests ------------------------------
(***************************************************************************)
(* The live tests of a purple team scan: probes of the controllers found   *)
(* in the repository, workflows over them, and tests made from the OpenAPI *)
(* description.  The thread of the scan sends every request itself and     *)
(* waits for it, so that a test is one step; between two tests the target  *)
(* may go, come back or stop answering, and the scan may be deleted.       *)
(***************************************************************************)
EXTENDS Naturals, Sequences, FiniteSets, SequencesExt
CONSTANTS Targets,     \* what a target may be, see target
          SameBody,    \* answers with one body that the probe looks at (3)
          MaxTroubles
ASSUME LiveAssumption ==
  /\ SameBody \in Nat /\ MaxTroubles \in Nat
  /\ \A x \in Targets : /\ x.controllers \in Seq([method : STRING, place : STRING, arg : STRING, gated : BOOLEAN,
                                                 guarded : BOOLEAN, about : SUBSET STRING])
                        /\ IsFiniteSet(x.static) /\ IsFiniteSet(x.described)

VARIABLES
  target,    \* controllers, static places, sinks and description, from the phases before; and
             \* says: what it answers to a method, a place and a way to ask, or else other
  line,      \* "answers", "refuses" or "hangs"
  troubles,
  row,       \* the row of the scan is there
  test,      \* the test to come
  stored,    \* titles of the findings of the scan
  total,     \* the counts of the three testers
  entry,     \* variables["auth_token"]
  left       \* "no", "done", or "raised" when an exception left the dynamic tests
qvars == <<target, line, troubles, row, test, stored, total, entry, left>>

Tests == <<"probe", "bypass", "bola", "validate", "sinks", "diff", "race",
           "guards", "idor", "login", "session", "register",
           "inject", "confuse", "constrain", "omit", "secured">>
\* The tests whose findings are stored outside of any try.
Bare == {"probe", "bola", "validate", "sinks", "diff", "race"}
\* The requests of these have no time limit: s.timeout is an attribute nobody reads.
Unlimited == {"probe", "validate", "sinks", "diff"}

Mute == [status |-> 0, body |-> "none", tells |-> {}, long |-> FALSE]
Ask(m, place, how) ==
  IF line # "answers" THEN Mute
  ELSE IF <<m, place, how>> \in DOMAIN target.says THEN target.says[<<m, place, how>>]
  ELSE IF <<m, place, "any">> \in DOMAIN target.says THEN target.says[<<m, place, "any">>]
  ELSE target.other
\* `if resp and ...`: only answers below 400 pass.
Good(page) == page.status \in 1..399
Shown(page) == page.status = 200 /\ page.long

\* A path is a place and its parameter: "fixed" without one, "open" when the parameters of the
\* controller name it, "raw" when they do not.
Fill(path, value) == IF path[2] = "open" THEN <<path[1], value>> ELSE path
Path(c) == <<c.place, c.arg>>
Resolve(c) == Fill(Path(c), "1")
Indices == DOMAIN target.controllers
C(i) == target.controllers[i]
Title(kind, c) == <<kind, c.method, Resolve(c)>>
\* One finding per controller of a set.
Each(kind, S) == {[title |-> Title(kind, C(i)), nth |-> i] : i \in S}
Once(kind, condition) == IF condition THEN {[title |-> <<kind>>, nth |-> 0]} ELSE {}

LiveInit ==
  /\ target \in Targets
  /\ line \in {"answers", "refuses"}
  /\ troubles = 0
  /\ row = TRUE
  /\ test = 1
  /\ stored = {}
  /\ total = 0
  /\ entry = FALSE
  /\ left = "no"

\* Slip, for CountCoversStored: what was stored before is counted, and not what is.
CountedBefore(told) == Cardinality({t \in told : t.title \in stored})
Counted(told) == Cardinality(told)
\* Slip, for AbortOnlyWithoutRow: one title given twice is an error.
NoRoom(told) == told # {} /\ (~row \/ \E t, u \in told : t # u /\ t.title = u.title)
\* add_finding refuses a scan that has no row.
Refused(told) == told # {} /\ ~row
\* Slip, for LiveTestsEnd: a test the target refused is made again.
TestAgain(n) == IF line = "refuses" THEN n ELSE n + 1
TestAfter(n) == n + 1

\* The scan goes on to the next test.
NextTest ==
  /\ left = "no"
  /\ test <= Len(Tests)
  /\ Tests[test] \in Unlimited => line # "hangs"
  /\ test' = TestAfter(test)
Tested(name, told) ==
  /\ NextTest
  /\ Tests[test] = name
  /\ IF Refused(told)
     THEN /\ left' = IF name \in Bare /\ ~(name = "probe" /\ Indices = {}) THEN "raised" ELSE "no"
          /\ UNCHANGED <<stored, total>>
     ELSE /\ stored' = stored \union {t.title : t \in told}
          /\ total' = total + Counted(told)
          /\ UNCHANGED left
  /\ UNCHANGED <<target, line, troubles, row>>

-----------------------------------------------------------------------------
(* The dynamic tests *)

\* Slip, for SilentTargetClean: headers are missing from an answer that did not come.
BaselineBlind ==
  LET root == Ask("GET", "root", "token") IN Once("headers", root.status = 0 \/ "unprotected" \in root.tells)
\* _test_security_headers, _test_cors, _test_error_disclosure, _test_sensitive_paths.
Baseline ==
  LET root == Ask("GET", "root", "token")
      cors == Ask("OPTIONS", "root", "token")
      lost == Ask("GET", "nowhere", "token")
  IN Once("headers", root.status # 0 /\ "unprotected" \in root.tells)
       \union Once("cors", cors.status # 0 /\ "reflected" \in cors.tells)
       \union Once("errors", lost.status # 0 /\ "error" \in lost.tells)
       \union Once("sensitive", Ask("GET", "admin", "token").status = 200)
\* _probe_controllers: with the credentials of the profile, whatever the titles say.
ProbeAll ==
  LET Page(i) == Ask(C(i).method, C(i).place, "token")
      probed == {i \in Indices : C(i).method \notin {"OPTIONS", "HEAD", "PATCH"}}
      Same(i) == {j \in probed : j <= i /\ Page(j).status = 200 /\ Page(j).body = Page(i).body}
      served == {i \in probed : Page(i).status = 200 /\ Cardinality(Same(i)) <= SameBody}
  IN Each("passed", {i \in served : C(i).gated})
       \union Each("failure", {i \in probed : Page(i).status = 500})
       \union Each("disclosure", {i \in probed : Page(i).status >= 400 /\ "error" \in Page(i).tells})
ProbeControllers ==
  /\ Tested("probe", IF Indices = {} THEN Baseline ELSE ProbeAll)
  /\ UNCHANGED entry

\* Slip, for BypassIsReal: the session of the profile is used.
AskAsUser(c, how) == Ask(c.method, c.place, "token")
AskAs(c, how) == Ask(c.method, c.place, how)
\* Slip, for OpenIsTold: controllers after one that lets a header through are not looked at.
OpenBeforeHeader(S) ==
  {i \in S : /\ AskAs(C(i), "anon").status = 200
             /\ \A j \in S : j < i => AskAs(C(j), "header").status # 200}
OpenOf(S) == {i \in S : AskAs(C(i), "anon").status = 200}
\* _test_auth_bypass.  The title of a header does not say where it was let through.
BypassFindings ==
  LET asked == {i \in Indices : C(i).method \notin {"OPTIONS", "HEAD"}}
      turned == {i \in asked : AskAs(C(i), "anon").status = 401 /\ AskAs(C(i), "header").status = 200}
  IN Each("open", OpenOf(asked)) \union {[title |-> <<"header">>, nth |-> i] : i \in turned}
AuthBypass == Tested("bypass", BypassFindings) /\ UNCHANGED entry

\* _test_bola: an identifier is put in the place of a parameter that was filled before.
BolaFindings ==
  LET Others(i) == {Fill(Resolve(C(i)), id) : id \in {"0", "999999"}} \ {Resolve(C(i))}
      open == {i \in Indices : /\ C(i).method = "GET" /\ C(i).arg # "fixed"
                               /\ Others(i) # {} /\ Shown(AskAs(C(i), "foreign"))}
  IN Each("bola", open)
Bola == Tested("bola", BolaFindings) /\ UNCHANGED entry

\* _validate_static_findings: of the places that serve one body, the first of an unordered set.
ValidateStatic ==
  LET Page(p) == Ask("GET", p, "token")
      served == {p \in target.static : Page(p).status = 200}
  IN \E told \in SUBSET served :
       /\ \A p \in served : Cardinality({q \in told : Page(q).body = Page(p).body}) = 1
       /\ Tested("validate",
            {[title |-> <<"validated", p>>, nth |-> 0] : p \in told}
              \union {[title |-> <<"confirmed", p>>, nth |-> 0] :
                        p \in {q \in target.static : Page(q).status >= 400 /\ "error" \in Page(q).tells}})
       /\ UNCHANGED entry

\* _test_sinks: what its map names, of which deserialization and code injection test nothing.  A
\* redirect is told of the path as it is written, whatever the method.
SinkFindings ==
  LET Word == [sql |-> "sql", cmd |-> "uid", file |-> "root:"]
      Hit(kind, i) == LET page == AskAs(C(i), kind) IN Good(page) /\ Word[kind] \in page.tells
      Moved(i) == LET page == Ask("GET", C(i).place, "redirect")
                  IN page.status \in {301, 302, 303, 307, 308} /\ "evil" \in page.tells
  IN (UNION {Each(kind, {i \in Indices : Hit(kind, i) /\ (kind = "sql" => C(i).method \in {"GET", "POST"})}) :
               kind \in target.sinks \intersect DOMAIN Word})
       \union {[title |-> <<"redirect", Path(C(i))>>, nth |-> i] :
                  i \in {j \in Indices : "redirect" \in target.sinks /\ Moved(j)}}
Sinks == Tested("sinks", SinkFindings) /\ UNCHANGED entry

\* _test_response_diffing: a GET is attacked twice, under one title.
DiffFindings ==
  LET Base(i) == AskAs(C(i), "token")
      Attack(i) == AskAs(C(i), "sql")
      compared == {i \in Indices : C(i).method \in {"GET", "POST"} /\ Base(i).status # 0}
      Attacks(i) == IF C(i).method = "GET" THEN {i, i + Len(target.controllers)} ELSE {i}
      Twice(kind, S) == UNION {{[title |-> Title(kind, C(i)), nth |-> n] : n \in Attacks(i)} : i \in S}
  IN Twice("diff", {i \in compared : Attack(i).status = 500 /\ Base(i).status # 500})
       \union Twice("anomaly", {i \in compared : /\ Attack(i).status = Base(i).status
                                                 /\ Attack(i).body # Base(i).body
                                                 /\ "error" \in Attack(i).tells})
ResponseDiffing == Tested("diff", DiffFindings) /\ UNCHANGED entry

\* _test_race_conditions asks for self._session, which is not there: nothing is sent.
RaceConditions == Tested("race", {}) /\ UNCHANGED entry

-----------------------------------------------------------------------------
(* The workflows *)

\* _wf_auth_bypass: the handlers whose name says so, or else the places that do.
GuardFindings ==
  LET named == {i \in Indices : C(i).guarded}
      protected == IF named # {} THEN named ELSE {i \in Indices : "account" \in C(i).about}
      asked == {i \in protected : C(i).method \notin {"OPTIONS", "HEAD"}}
      Through(how) == {i \in asked : Shown(AskAs(C(i), how))}
  IN Each("unguarded", Through("anon")) \union Each("empty", Through("empty"))
       \union Each("faked", Through("fake"))
GuardWorkflow == Tested("guards", GuardFindings) /\ UNCHANGED entry

\* _wf_idor_cross_resource: identifiers of the first list are tried where no parameter was declared;
\* a path is tried once, whatever the method.
IdorFindings ==
  LET lists == {i \in Indices : C(i).method = "GET" /\ C(i).arg # "open"
                                /\ AskAs(C(i), "anon").status = 200 /\ "ids" \in AskAs(C(i), "anon").tells}
      ids == IF lists # {} THEN <<"7">> ELSE <<"1", "2">>
      Candidates(i) == IF C(i).arg = "raw" THEN {<<C(i).place, ids[n]>> : n \in DOMAIN ids} ELSE {Resolve(C(i))}
      tried == {i \in Indices : C(i).arg # "fixed" /\ C(i).method \in {"GET", "PUT", "DELETE", "PATCH"}}
      How(i) == IF C(i).arg = "raw" THEN "foreign" ELSE "anon"
      Fresh(i) == {p \in Candidates(i) : \A j \in tried : j < i => p \notin Candidates(j)}
  IN {[title |-> <<"idor", C(i).method, C(i).place>>, nth |-> i] :
        i \in {j \in tried : Fresh(j) # {} /\ Shown(AskAs(C(j), How(j)))}}
IdorWorkflow == Tested("idor", IdorFindings) /\ UNCHANGED entry

\* _wf_login_then_probe.
Logins == {i \in Indices : "login" \in C(i).about}
Token ==
  \E i \in Logins : LET page == Ask("POST", C(i).place, "login")
                    IN page.status \in {200, 201} /\ "token" \in page.tells
LoginFindings ==
  LET probed == {i \in Indices : C(i).method \notin {"OPTIONS", "HEAD"}
                                 /\ \A j \in Logins : Resolve(C(i)) # Resolve(C(j))}
  IN Each("private", {i \in probed : LET page == AskAs(C(i), "entry")
                                     IN page.status = 200 /\ "private" \in page.tells})
LoginWorkflow == Tested("login", IF Token THEN LoginFindings ELSE {}) /\ entry' = Token

\* _wf_session_check: nothing is tested when the root does not answer.
SessionFindings ==
  LET root == Ask("GET", "root", "anon")
      kept == "cookie" \in root.tells /\ "cookie" \in Ask("POST", "login", "login").tells
      opens == /\ entry \/ target.bearer
               /\ Ask("GET", "root", IF entry THEN "entry" ELSE "token").status = 200
               /\ Shown(Ask("GET", "root", "none"))
  IN IF root.status = 0 THEN {} ELSE Once("fixation", kept) \union Once("none", opens)
SessionWorkflow == Tested("session", SessionFindings) /\ UNCHANGED entry

\* _wf_register_escalate.
RegisterFindings ==
  LET Takes(i) == LET page == Ask("POST", C(i).place, "register")
                  IN page.status \in {200, 201} /\ "created" \in page.tells
  IN Each("mass", {i \in Indices : "register" \in C(i).about /\ Takes(i)})
RegisterWorkflow == Tested("register", RegisterFindings) /\ UNCHANGED entry

-----------------------------------------------------------------------------
(* The tests of the description *)

\* A description with a path-level entry that is no method raises, and the tests are skipped.
Endpoints == IF target.odd THEN {} ELSE {e \in target.described : e.method \notin {"OPTIONS", "HEAD"}}
AskOf(e, how) == Ask(e.method, e.place, how)
Told(kind, S) == {[title |-> <<kind, e.method, e.place>>, nth |-> 0] : e \in S}
Writes(e) == e.method \in {"POST", "PUT", "PATCH"}

\* A parameter of the path has its dummy already: its payloads are not sent.
ParameterInjection ==
  LET Fails(e) == \E p \in e.params : AskOf(e, IF p = "path" THEN "token" ELSE "payload").status = 500
  IN Tested("inject", Told("injection", {e \in Endpoints : Fails(e)})) /\ UNCHANGED entry
TypeConfusion ==
  /\ Tested("confuse", Told("confusion", {e \in Endpoints : Writes(e) /\ e.fields /\ AskOf(e, "confused").status = 500}))
  /\ UNCHANGED entry
ConstraintViolation ==
  /\ Tested("constrain", Told("constraint", {e \in Endpoints : Writes(e) /\ e.bounded /\ AskOf(e, "beyond").status = 500}))
  /\ UNCHANGED entry
\* A required parameter of the path is filled, and told to be missing.
MissingRequired ==
  LET How(e) == IF e.required = {"path"} THEN "token" ELSE "bare"
  IN /\ Tested("omit",
          Told("parameter", {e \in Endpoints : e.method = "GET" /\ e.required # {} /\ AskOf(e, How(e)).status = 200})
            \union Told("body", {e \in Endpoints : Writes(e) /\ e.needs /\ AskOf(e, "bare").status \in {200, 201}}))
     /\ UNCHANGED entry
AuthOnSecured ==
  /\ Tested("secured", Told("unsecured", {e \in Endpoints : e.secured /\ Shown(AskOf(e, "anon"))}))
  /\ UNCHANGED entry

-----------------------------------------------------------------------------
Finish ==
  /\ left = "no" /\ test > Len(Tests)
  /\ left' = "done"
  /\ UNCHANGED <<target, line, troubles, row, test, stored, total, entry>>

\* The target goes, hangs or comes back.
LineTurns(to) ==
  /\ left = "no" /\ to # line /\ troubles < MaxTroubles
  /\ line' = to
  /\ troubles' = troubles + 1
  /\ UNCHANGED <<target, row, test, stored, total, entry, left>>
\* The scan is deleted, with its findings.
DeleteRow ==
  /\ left = "no" /\ row /\ troubles < MaxTroubles
  /\ row' = FALSE
  /\ stored' = {}
  /\ troubles' = troubles + 1
  /\ UNCHANGED <<target, line, test, total, entry, left>>

LiveStep ==
  \/ ProbeControllers \/ AuthBypass \/ Bola \/ ValidateStatic \/ Sinks \/ ResponseDiffing \/ RaceConditions
  \/ GuardWorkflow \/ IdorWorkflow \/ LoginWorkflow \/ SessionWorkflow \/ RegisterWorkflow
  \/ ParameterInjection \/ TypeConfusion \/ ConstraintViolation \/ MissingRequired \/ AuthOnSecured \/ Finish
-----------------------------------------------------------------------------
LiveTypeOK ==
  /\ target \in Targets
  /\ test \in 1..(Len(Tests) + 1)
  /\ total \in Nat
  /\ left = "done" => test = Len(Tests) + 1
  /\ entry => test > 10

\* What is called open was asked for without credentials, and served.
BypassIsReal ==
  \A t \in stored : t[1] \in {"open", "unguarded", "unsecured"} =>
    \E how \in {"anon", "any"} : LET place == IF t[1] = "unsecured" THEN t[3] ELSE t[3][1]
      IN IF <<t[2], place, how>> \in DOMAIN target.says THEN target.says[<<t[2], place, how>>].status = 200
         ELSE how = "any" /\ target.other.status = 200

\* A scan of a target that answers throughout names every controller it serves to anyone.
OpenIsTold ==
  (left = "done" /\ troubles = 0 /\ line = "answers") =>
    \A i \in Indices : (C(i).method \notin {"OPTIONS", "HEAD"} /\ AskAs(C(i), "anon").status = 200)
                         => Title("open", C(i)) \in stored

\* Only a scan that was deleted is left by an exception, and only in the dynamic tests.
AbortOnlyWithoutRow == left = "raised" => (~row /\ Tests[test - 1] \in Bare)

\* The counts in the log and in the sum are never less than what is stored.
CountCoversStored == Cardinality(stored) <= total

\* A target that was never there leaves no finding.
SilentTargetClean == (line = "refuses" /\ troubles = 0) => stored = {}

\* A scan comes to its end, unless the target keeps a test without a time limit waiting.
LiveEnds == <>(left # "no" \/ (line = "hangs" /\ test <= Len(Tests) /\ Tests[test] \in Unlimited))

\* What the live tests tell is what the target did, though it goes, hangs or comes back, and though the
\* row they write to may be gone.
LiveTestsSound ==
  /\ LiveTypeOK
  /\ BypassIsReal
  /\ OpenIsTold
  /\ AbortOnlyWithoutRow
  /\ CountCoversStored
  /\ SilentTargetClean
=============================================================================
