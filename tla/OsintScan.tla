------------------------------ MODULE OsintScan ------------------------------
(***************************************************************************)
(* The first phase of a grey team scan: up to thirteen collectors ask      *)
(* public sources and the site about a domain, one after the other.  Every *)
(* wait of a collector has a time limit, so a collector is one step;       *)
(* between two of them the sources may stop answering or come back.  The   *)
(* scanner could be stopped and could ask an AI to read the scripts, but   *)
(* no caller hands it the means.                                           *)
(***************************************************************************)
EXTENDS Naturals, Sequences, FiniteSets, SequencesExt
CONSTANTS Worlds,      \* what a domain may be, see world
          Troubles,    \* the sets of sources that may be silent together
          Filters,     \* the choices of modules
          Severity,    \* of each path of _COMMON_PATHS
          Enough,      \* names after which no further source is asked
          Large,       \* more subdomains than this are a large surface
          MaxScripts,  \* scripts of a page that are fetched
          MaxShifts    \* bounds the changes of the network
ASSUME OsintAssumption ==
  /\ Enough \in Nat \ {0} /\ Large \in Nat /\ MaxScripts \in Nat /\ MaxShifts \in Nat
  /\ {} \in Troubles
\* A policy is there or it is not, no source knows infinitely many names, what a page gives away is
\* a list of pairs, and every path that is shown has its grade.
ASSUME WorldsAssumption ==
  \A w \in Worlds :
    /\ w.spf \in BOOLEAN
    /\ \A s \in {"crt.sh", "certspotter", "otx"} : IsFiniteSet(w.names[s])
    /\ {w.services, w.traces, w.parts} \subseteq Seq(STRING \X STRING)
    /\ \A p \in w.shown : Severity[p] \in {"critical", "high", "medium", "low", "info"}

VARIABLES
  world,    \* what each source says when it is asked
  silent,   \* the sources that do not answer now
  shifts,
  wanted,   \* modules_filter
  coming,   \* the collector to come
  ended,
  reported, \* all_findings: module, kind and what it is about
  heard     \* the requests of the scan: module, source, and whether it answered
ovars == <<world, silent, shifts, wanted, coming, ended, reported, heard>>

Order == <<"dns", "whois", "ssl", "ct", "http", "paths", "tech", "email", "wayback", "github",
           "google", "frontend", "trivial">>
\* The modules chosen, in the order of MODULES; all of them when none is known.
Chosen == {i \in DOMAIN Order : Order[i] \in wanted}
Active ==
  IF Chosen = {} THEN Order
  ELSE [k \in 1..Cardinality(Chosen) |-> Order[CHOOSE i \in Chosen : Cardinality({j \in Chosen : j <= i}) = k]]

Answers(s) == s \notin silent
\* _run: a tool that is missing, one that fails, one that succeeds.
Result(t) == CASE t \notin world.tools -> "missing"
               [] t \in world.tools /\ ~Answers(t) -> "failed"
               [] OTHER -> "ok"
\* _http_get: anything but a page is no answer, an error or a certificate nobody trusts included.
Serves(s, p) == Answers(s) /\ p \in world.pages[s] /\ (s = "https" => world.tls = "trusted")
Scheme(p) == IF Serves("https", p) THEN "https" ELSE IF Serves("http", p) THEN "http" ELSE "none"
Asking(p) == {<<"https", Serves("https", p)>>} \union IF Serves("https", p) THEN {} ELSE {<<"http", Serves("http", p)>>}

Tells(finds, asks) == [finds |-> finds, asks |-> asks]
About(kind, what) == {<<kind, x>> : x \in what}
One(kind) == {<<kind, "">>}
When(c, finds) == IF c THEN finds ELSE {}

OsintInit ==
  /\ shifts = 0
  /\ coming = 1
  /\ ended = FALSE
  /\ reported = {}
  /\ heard = {}

\* The loop of run_all goes on to the next module.
Onward ==
  /\ ~ended
  /\ coming <= Len(Active)
  /\ coming' = coming + 1
Collected(m, out) ==
  /\ Onward
  /\ Active[coming] = m
  /\ reported' = reported \union {[by |-> m, kind |-> f[1], of |-> f[2]] : f \in out.finds}
  /\ heard' = heard \union {<<m, a[1], a[2]>> : a \in out.asks}
  /\ UNCHANGED <<world, silent, shifts, wanted, ended>>

\* What nslookup prints counts as records, there or not; without it "not available" is told once.
CollectDns ==
  LET resolved == Answers("resolver") /\ world.addresses # {}
      dig == Result("dig")
      records == CASE dig = "ok" -> world.records
                   [] dig # "ok" /\ Result("nslookup") = "ok" -> {"MX", "NS", "TXT", "SOA"}
                   [] OTHER -> {}
      policies == dig = "ok" /\ "TXT" \in world.records
      dmarc == IF Answers("dmarc") THEN world.dmarc ELSE "none"
  IN Collected("dns", Tells(
       (IF resolved THEN About("address", world.addresses) ELSE One("unresolved"))
         \union About("records", records)
         \union When(dig # "ok" /\ Result("nslookup") = "missing", One("no dig"))
         \union When(policies, One(IF world.spf THEN "spf" ELSE "missing spf"))
         \union When(policies, IF dmarc = "none" THEN One("missing dmarc") ELSE About("dmarc", {dmarc})),
       {<<"resolver", resolved>>, <<"dig", dig = "ok">>}))

\* The registry is asked by the tool, else through IANA.
WhoisText ==
  CASE Result("whois") = "ok" -> world.whois
    [] Result("whois") # "ok" /\ Answers("iana") /\ ~world.refers -> world.iana
    [] Result("whois") # "ok" /\ Answers("iana") /\ world.refers /\ Answers("registry") -> world.whois
    [] OTHER -> {"failed"}
\* Slip, for NoSilentModule: a lookup that failed is not worth a word.
WhoisUnlessFailed ==
  When("failed" \notin WhoisText,
       IF "nothing" \in WhoisText THEN One("incomplete")
       ELSE One("whois") \union About("registered", WhoisText \intersect {"expires", "email"}))
\* Any text that holds the word "failed" is taken for a failure.
WhoisFindings ==
  IF WhoisText \intersect {"nothing", "failed"} # {} THEN One("incomplete")
  ELSE One("whois") \union About("registered", WhoisText \intersect {"expires", "email"})
CollectWhois == Collected("whois", Tells(WhoisFindings, {<<"whois", Result("whois") = "ok">>}))

\* The handshake, whoever signed the certificate.
Shakes == Answers("https") /\ world.tls # "none"
\* Without verification the certificate is read as an empty dictionary: what is in it is never told.
CollectSsl ==
  Collected("ssl", Tells(When(~Shakes, One("no tls")), {<<"https", Shakes>>}))

Logs == <<"crt.sh", "certspotter", "otx">>
NamesOf(s) == IF Answers(s) THEN world.names[s] ELSE {}
NamesUpTo(i) == UNION {NamesOf(Logs[j]) : j \in 1..i}
\* Slip, for NamesComplete: the first source that knows a name is the last.
FirstOnly == {i \in DOMAIN Logs : \A j \in 1..(i - 1) : NamesOf(Logs[j]) = {}}
\* The sources are asked in turn until there are enough names.
Consulted == {i \in DOMAIN Logs : \A j \in 1..(i - 1) : NamesOf(Logs[j]) = {} \/ Cardinality(NamesUpTo(j)) < Enough}
CollectCrtsh ==
  LET names == UNION {NamesOf(Logs[i]) : i \in Consulted}
  IN Collected("ct", Tells(
       IF names = {} THEN One("no names")
       ELSE {<<"names", names>>} \union When(Cardinality(names \intersect world.subdomains) > Large, One("large")),
       {<<Logs[i], Answers(Logs[i])>> : i \in Consulted}))

SecurityHeaders == {"strict-transport-security", "content-security-policy", "x-frame-options"}
\* Only an HSTS header with a max-age is looked into; in lower case it never holds
\* "includeSubDomains".  Server is told of twice.
HeaderFindings(h) ==
  About("missing header", SecurityHeaders \ h)
    \union One("summary")
    \union When({"strict-transport-security", "max-age"} \subseteq h,
                One("no subdomains") \union When("short" \in h, One("short max-age")))
    \union About("header", h \intersect {"server", "x-powered-by"})
    \union About("version", h \intersect {"server"})
    \union When("weak cookie" \in h, One("cookie"))
CollectHttpHeaders ==
  Collected("http", Tells(
    IF Scheme("root") = "none" THEN One("unreachable") ELSE HeaderFindings(world.headers), Asking("root")))

\* The site map and security.txt are asked for over TLS only.
CollectWebPaths ==
  Collected("paths", Tells(
    (IF Scheme("robots") = "none" THEN One("no robots") ELSE About("robots", world.robots))
      \union When(Serves("https", "sitemap"), One("sitemap"))
      \union One(IF Serves("https", "security") THEN "security" ELSE "no security"),
    Asking("robots")))

\* What nmap, the headers and the page give away, each with the name before its colon.
Traits ==
  (IF Result("nmap") = "ok" THEN world.services ELSE <<>>)
    \o (IF Scheme("root") = "none" THEN <<>> ELSE world.traces)
    \o (IF Scheme("root") = "none" \/ world.blank THEN <<>> ELSE world.parts)
\* Slip, for BasesCovered: only names that are wholly equal are one.
WholeNames(ds) == {ds[i] : i \in {k \in DOMAIN ds : \A j \in 1..(k - 1) : ds[j] # ds[k]}}
\* The first of each name before the colon.
UniqueDetected(ds) == {ds[i] : i \in {k \in DOMAIN ds : \A j \in 1..(k - 1) : ds[j][1] # ds[k][1]}}
CollectTechFingerprint ==
  LET page == Scheme("root") # "none" /\ ~world.blank
  IN Collected("tech", Tells(
       When(Traits # <<>>,
          IF page THEN {<<"components", UniqueDetected(Traits)>>, <<"for cves", UniqueDetected(Traits)>>}
          ELSE {<<"components", ToSet(Traits)>>}),
       Asking("root")))

CollectEmails ==
  Collected("email", Tells(
    When(Serves("https", "root") /\ ~world.blank, About("emails", world.emails)), {<<"https", Serves("https", "root")>>}))

\* Slip, for ToldWasSaid: a failure is taken for an empty archive.
NoneOrFailed == IF Answers("archive") /\ world.archive # "empty" THEN {} ELSE One("no snapshots")
WaybackFindings ==
  CASE ~Answers("archive") -> One("wayback failed")
    [] Answers("archive") /\ world.archive = "empty" -> One("no snapshots")
    [] Answers("archive") /\ world.archive = "rows" -> One("snapshots")
    [] Answers("archive") /\ world.archive = "short" -> {}   \* no row has its three fields
    [] OTHER -> One("module failed")   \* rows that are no lists raise
CollectWayback == Collected("wayback", Tells(WaybackFindings, {<<"archive", Answers("archive")>>}))

\* Three queries; those that fail count as no match.
CollectGithubDorks ==
  LET hits == Answers("github") /\ \E i \in 1..3 : world.hits[i] = "some"
  IN Collected("github", Tells(One(IF hits THEN "code" ELSE "no code"), {<<"github", Answers("github")>>}))

CollectGoogleDorks ==
  Collected("google", Tells(One("dorks"), {<<"search", Answers("search")>>}))

\* The scripts that came, and the page itself.
Comes(host) == Answers(host) /\ (host = "https" => world.tls = "trusted")
Scripts ==
  {world.scripts[i] : i \in {k \in DOMAIN world.scripts : k <= MaxScripts /\ Comes(world.scripts[k].host)}}
    \union IF world.blank THEN {} ELSE {world.inline}
Holding(what) == UNION {s[what] : s \in Scripts}
CveFindings ==
  UNION {IF Answers("nvd") /\ l \in world.vulnerable THEN About("cves", {l}) ELSE About("no cves", {l}) :
           l \in Holding("libraries")}
\* Slip, for SteadySiteAgrees: the page is asked for over TLS only.
FrontendOverTls == IF Serves("https", "root") THEN "https" ELSE "none"
FrontendPage == Scheme("root")
CollectFrontend ==
  Collected("frontend", Tells(
    IF FrontendPage = "none" THEN One("not fetched")
    ELSE About("secret", Holding("secrets"))
           \union When(Holding("endpoints") # {}, {<<"endpoints", Holding("endpoints")>>})
           \union One("collected") \union CveFindings,
    Asking("root") \union {<<"nvd", Answers("nvd")>>}))

\* The paths that answer, refusals included, over TLS whoever signed the certificate.
Reachable == IF Shakes THEN world.shown ELSE {}
Graded(g) == {p \in Reachable : Severity[p] = g}
\* Slip, for ExposedTold: the worst grade that is there hides the others.
WorstOnly ==
  IF Graded("critical") # {} THEN About("exposed", Graded("critical"))
  ELSE IF Graded("high") # {} THEN {<<"high", Graded("high")>>}
  ELSE When(Graded("medium") # {}, {<<"medium", Graded("medium") \union Graded("low") \union Graded("info")>>})
\* Low and informative paths are told of only in the company of a medium one.
TrivialFindings ==
  About("exposed", Graded("critical"))
    \union When(Graded("high") # {}, {<<"high", Graded("high")>>})
    \union When(Graded("medium") # {}, {<<"medium", Graded("medium") \union Graded("low") \union Graded("info")>>})
CollectTrivialPaths ==
  Collected("trivial", Tells(
    IF TrivialFindings = {} THEN One("none exposed") ELSE TrivialFindings, {<<"https", Shakes>>}))

\* Slip, for OsintEnds: the modules are counted, chosen or not.
FinishAfterAll ==
  /\ ~ended
  /\ coming > Len(Order)
  /\ ended' = TRUE
  /\ UNCHANGED <<world, silent, shifts, wanted, coming, reported, heard>>
\* The loop is left after the last module; no caller hands it a way to be stopped.
FinishPhase ==
  /\ ~ended
  /\ coming > Len(Active)
  /\ ended' = TRUE
  /\ UNCHANGED <<world, silent, shifts, wanted, coming, reported, heard>>

\* Sources fall silent or come back.
Shift ==
  /\ ~ended /\ shifts < MaxShifts
  /\ silent' \in Troubles \ {silent}
  /\ shifts' = shifts + 1
  /\ UNCHANGED <<world, wanted, coming, ended, reported, heard>>

OsintStep ==
  \/ CollectDns \/ CollectWhois \/ CollectSsl \/ CollectCrtsh \/ CollectHttpHeaders \/ CollectWebPaths
  \/ CollectTechFingerprint \/ CollectEmails \/ CollectWayback \/ CollectGithubDorks \/ CollectGoogleDorks
  \/ CollectFrontend \/ CollectTrivialPaths \/ FinishPhase
-----------------------------------------------------------------------------
Collecting == {Active[i] : i \in 1..(coming - 1)}

OsintTypeOK ==
  /\ silent \in Troubles
  /\ coming \in 1..(Len(Active) + 1)
  /\ shifts \in 0..MaxShifts
  /\ \A f \in reported : f.by \in Collecting
  /\ \A h \in heard : h[1] \in Collecting

Spoke(m, s) == <<m, s, TRUE>> \in heard
Unheard(m, s) == <<m, s, FALSE>> \in heard
\* A finding repeats an answer its module got: what is told present a source has told, and no
\* snapshots, a missing SPF policy or a missing header are told only after an answer without them
\* (a missing DMARC policy is told after a query that failed, too); a site that cannot be reached,
\* or no names, only when every way to the answer has failed or told none.
ToldWasSaid ==
  \A f \in reported :
    /\ f.kind \in {"no snapshots", "snapshots"} => Spoke("wayback", "archive")
    /\ f.kind \in {"missing spf", "spf"} => Spoke("dns", "dig") /\ (f.kind = "spf") = world.spf
    /\ f.kind = "missing header" => (Spoke("http", "https") \/ Spoke("http", "http")) /\ f.of \notin world.headers
    /\ f.kind \in {"unreachable", "not fetched"} => Unheard(f.by, "https") /\ Unheard(f.by, "http")
    /\ f.kind = "cves" => Spoke("frontend", "nvd") /\ f.of \in world.vulnerable
    /\ f.kind = "no names" => \A s \in ToSet(Logs) : Unheard("ct", s) \/ (Spoke("ct", s) /\ world.names[s] = {})
    /\ f.kind = "names" => \A n \in f.of : \E s \in ToSet(Logs) : Spoke("ct", s) /\ n \in world.names[s]

\* No module but the three that may have nothing to say ends without a word, whatever failed: a
\* collection that failed cannot be taken for one that was never made.  The archive alone can
\* silence its module, by an answer none of whose rows is complete.
NoSilentModule ==
  \A m \in Collecting \ {"ssl", "tech", "email"} :
    \/ \E f \in reported : f.by = m
    \/ m = "wayback" /\ Spoke("wayback", "archive") /\ world.archive = "short"

\* Names are missing from what the transparency logs gave only if there were enough without them.
NamesComplete ==
  \A f \in reported : f.kind = "names" /\ Cardinality(f.of) < Enough =>
    \A s \in ToSet(Logs) : Unheard("ct", s) \/ (Spoke("ct", s) /\ world.names[s] \subseteq f.of)

\* A path of medium severity or more that answered is told of (counted in a finding of its own
\* grade, whose evidence lists the first of them), and with any of them the scan does not say that
\* nothing was found.  Of a path of low severity alone it does say so.
ExposedTold ==
  Spoke("trivial", "https") =>
    \A p \in world.shown : Severity[p] \notin {"low", "info"} =>
      /\ \E f \in reported : f.by = "trivial" /\ IF f.kind \in {"high", "medium"} THEN p \in f.of ELSE f.of = p
      /\ [by |-> "trivial", kind |-> "none exposed", of |-> ""] \notin reported

\* The components handed to the search for vulnerabilities have one entry for each name that was
\* detected, and none twice.
BasesCovered ==
  \A f \in reported : f.kind = "for cves" =>
    /\ \A c, d \in f.of : c[1] = d[1] => c = d
    /\ \A c \in ToSet(world.traces) \union ToSet(world.parts) : \E d \in f.of : c[1] = d[1]

\* While the network stays as it is two modules agree on whether the site can be reached.
SteadySiteAgrees ==
  (shifts = 0 /\ {"http", "frontend"} \subseteq Collecting) =>
    ((\E f \in reported : f.kind = "unreachable") <=> (\E f \in reported : f.kind = "not fetched"))

\* The phase comes to its end.
PhaseEnds == <>ended

\* What a collection tells is what its sources said, and each source it asked is heard of.
OsintSound ==
  /\ OsintTypeOK
  /\ ToldWasSaid
  /\ NoSilentModule
  /\ NamesComplete
  /\ ExposedTold
  /\ BasesCovered
  /\ SteadySiteAgrees
=============================================================================
