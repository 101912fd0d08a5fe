----------------------------- MODULE RedScanner -----------------------------
(***************************************************************************)
(* The deterministic scan of a campaign: fourteen checks of one site, one  *)
(* after the other.  A check never waits for the loop of its thread, so it *)
(* is one step; a stop is looked for between two of them.  A check that    *)
(* raises loses what it had found.  The site answers as it pleases and may *)
(* go away and come back between two checks.                               *)
(***************************************************************************)
EXTENDS Naturals, Sequences, FiniteSets, SequencesExt, FiniteSetsExt
CONSTANTS Sites,      \* what a site may be, see site
          Words,      \* the wordlist, a sequence of paths
          Business,   \* those of its paths that are about orders and payments, in order
          Docs,       \* "/swagger.json", "/openapi.json", "/api-docs"
          Admins,     \* the paths of administration, in order
          Objects,    \* the bases of the BOLA probes, in order
          Numbers,    \* the segments that are numbers
          Sorted,     \* the identifiers there may be, in order
          Longer,     \* <<start, rest, segment>>: the segments that are more than the start of them
          Many,       \* more discoveries than this are told
          MaxProbed,  \* high-value targets the last check looks at
          MaxTried,   \* identifiers it tries on each
          MaxOutages
ASSUME ScannerAssumption == {Many, MaxProbed, MaxTried, MaxOutages} \subseteq Nat

VARIABLES
  site,     \* url and tls; complaints: what its headers are blamed for; serve: its pages, and
            \* other: any other page; and the campaign: token, ids and saved requests
  up,       \* the site answers
  outages,
  next,     \* the check to come
  asked,    \* _running_scans: a stop was asked for
  over,
  found,    \* findings: check, kind and request
  graph,
  log       \* scan logs: the requests sent by _do_request and their statuses
rvars == <<site, up, outages, next, asked, over, found, graph, log>>

-----------------------------------------------------------------------------
(* The graph of a scan: the requests that were answered, what their        *)
(* answers point to, and the identifiers found in them.  A request is a    *)
(* method and a path, a path a sequence of segments.                       *)

\* A page: status, body ("empty", "object", "list" or "text"), the identifiers and the links
\* in the body, and the paths of the Location and Link headers.
EmptyGraph == [order |-> <<>>, statuses |-> <<>>, edges |-> {}, ids |-> {}]

Nodes(g) == DOMAIN g.statuses

\* Slip, for GraphMatchesLog: links of lists are read, and only of lists.
ListRelated(k, page) == IF page.body = "list" THEN page.links ELSE {}
\* _extract_relations: nothing is read beside an empty body, nor after data.get failed on a list.
Related(k, page) ==
  CASE page.body \in {"empty", "list"} -> {}
    [] page.body = "text"              -> page.headers \ {k[2]}
    [] page.body = "object"            -> page.links \union (page.headers \ {k[2]})

FoundIds(page) == IF page.body \in {"object", "list"} THEN page.ids ELSE {}

\* The positions of a row of answers whose request is new.
Fresh(g, row) ==
  {i \in DOMAIN row : row[i][1] \notin Nodes(g) /\ \A j \in 1..(i - 1) : row[j][1] # row[i][1]}
\* Slip, for ScannerTypeOK: a request that is sent again is a node again.
EveryTime(g, row) == [n \in DOMAIN row |-> row[n][1]]
NewNodes(g, row) ==
  LET fresh == Fresh(g, row)
  IN [n \in 1..Cardinality(fresh) |-> row[CHOOSE i \in fresh : Cardinality({j \in fresh : j < i}) = n - 1][1]]

\* add_request for a row of requests, each with its page.
AddRequests(g, row) ==
  LET keys == {s[1] : s \in ToSet(row)}
      Edges(s) == {e \in {<<s[1], <<"GET", p>>>> : p \in Related(s[1], s[2])} : e[1] # e[2]}
  IN [order    |-> g.order \o NewNodes(g, row),
      statuses |-> [k \in Nodes(g) \union keys |->
                      {s[2].status : s \in {x \in ToSet(row) : x[1] = k}}
                        \union IF k \in Nodes(g) THEN g.statuses[k] ELSE {}],
      edges    |-> g.edges \union UNION {Edges(s) : s \in ToSet(row)},
      ids      |-> g.ids \union UNION {FoundIds(s[2]) : s \in ToSet(row)}]

\* Slip, for FreshPathsOnly: the requests that were sent are compared, and not their paths.
UnexploredKeys(g) == {e[2] : e \in g.edges} \ Nodes(g)
UnexploredPaths(g) == {t \in {e[2] : e \in g.edges} : t[2] \notin {k[2] : k \in Nodes(g)}}

HighValueTargets(g) ==
  SelectSeq(g.order, LAMBDA k : g.statuses[k] \intersect {200, 201, 202, 301, 302, 401, 403, 405} # {})

-----------------------------------------------------------------------------
(* The site and the checks.                                                *)

Checks == <<"tls", "headers", "methods", "cors", "errors", "rate", "secrets", "jwt", "content",
            "discovery", "fuzz", "bola", "business", "smart">>

Root == <<>>
Odd == "?odd"     \* ends a path whose query was tampered with
Other == "?other" \* a segment of which nothing else is known
Silent == [status |-> 0, body |-> "empty", ids |-> {}, links |-> {}, headers |-> {}]
Plain(p) == IF p # Root /\ Last(p) = Odd THEN Front(p) ELSE p
Served(m, p) ==
  IF <<m, p>> \in DOMAIN site.serve THEN site.serve[<<m, p>>]
  ELSE IF <<m, Plain(p)>> \in DOMAIN site.serve THEN site.serve[<<m, Plain(p)>>]
  ELSE site.other
\* _do_request, and the session used directly: no answer after a failure.
Reply(m, p) == IF up THEN Served(m, p) ELSE Silent
Answered(page) == page.status # 0
\* `if resp`: a response is true when its status is below 400.
Ok(page) == page.status \in 1..399

Sends(ms, p) == [i \in DOMAIN ms |-> <<<<ms[i], p>>, Reply(ms[i], p)>>]
Outcome(blames, sent) == [found |-> blames, failed |-> FALSE, sent |-> sent]
Blames(kinds) == {<<kind, <<"GET", Root>>>> : kind \in kinds}
Raises(sent) == [found |-> {}, failed |-> TRUE, sent |-> sent]

ScannerInit ==
  /\ site \in Sites
  /\ up = TRUE
  /\ outages = 0
  /\ next = 1
  /\ asked = FALSE
  /\ over = FALSE
  /\ found = {}
  /\ graph = EmptyGraph
  /\ log = {}

\* The loop of run_all goes on to the next check.
Turn ==
  /\ ~over /\ ~asked
  /\ next <= Len(Checks)
  /\ next' = next + 1
\* The loop around one check.
Ran(check, out) ==
  /\ Turn
  /\ Checks[next] = check
  /\ found' = found \union
       IF out.failed THEN {[check |-> check, kind |-> "failed", at |-> <<"GET", Root>>]}
       ELSE {[check |-> check, kind |-> b[1], at |-> b[2]] : b \in out.found}
  /\ graph' = AddRequests(graph, SelectSeq(out.sent, LAMBDA s : Answered(s[2])))
  /\ log' = log \union {<<s[1], s[2].status>> : s \in ToSet(out.sent)}
  /\ UNCHANGED <<site, up, outages, asked, over>>

\* datetime.datetime fails for every certificate that is read, which is only one that was verified;
\* and the second handshake of a site that does not talk TLS fails as the first.
CheckTls ==
  Ran("tls",
      IF site.url = "http" THEN Outcome(Blames({"clear text"}), <<>>)
      ELSE IF ~up \/ site.tls \in {"trusted", "none"} THEN Raises(<<>>)
      ELSE Outcome(Blames({"certificate"} \union site.weak), <<>>))

CheckSecurityHeaders ==
  Ran("headers", Outcome(IF Answered(Reply("GET", Root)) THEN Blames(site.complaints) ELSE {}, <<>>))

CheckHttpMethods ==
  LET sent == Sends(<<"OPTIONS", "TRACE", "CONNECT", "DELETE", "PUT", "PATCH">>, Root)
  IN Ran("methods", Outcome({<<"method", s[1]>> : s \in {x \in ToSet(sent) : Ok(x[2])}}, sent))

CheckCors ==
  LET sent == Sends(<<"OPTIONS">>, Root)
  IN Ran("cors", Outcome(IF Ok(sent[1][2]) THEN Blames(site.cors) ELSE {}, sent))

\* The first probe of the root and of the saved requests that fails ends the probes of its payload.
CheckErrorDisclosure ==
  LET targets == <<<<"GET", Root>>>> \o [i \in DOMAIN site.saved |-> <<site.saved[i].method, site.saved[i].path>>]
      Leaks(i) == targets[i] \in site.leaks
      Heard(i) == Answered(Reply(targets[i][1], targets[i][2]))
      first == {i \in DOMAIN targets : Leaks(i) /\ \A j \in 1..i : Heard(j) /\ (Leaks(j) => i = j)}
  IN Ran("errors", Outcome({<<"error", targets[i]>> : i \in first}, <<>>))

CheckRateLimiting ==
  Ran("rate", Outcome(IF Reply("GET", Root).status = 200 /\ ~site.limited THEN Blames({"no limit"}) ELSE {}, <<>>))

CheckSensitiveData ==
  Ran("secrets", Outcome(IF Answered(Reply("GET", Root)) THEN Blames(site.secrets) ELSE {}, <<>>))

\* An encrypted token is looked at once it is decrypted.
CheckJwt ==
  LET t == site.token
  IN Ran("jwt", Outcome(
       IF t.kind \in {"cookie", "none", "opaque_token"} \/ ~t.bearer THEN {}
       ELSE Blames((IF t.kind = "jwe" THEN t.outer ELSE {})
                     \union IF t.parts = 3 THEN t.inner
                            ELSE IF t.kind = "jwt_bearer" THEN {"malformed"} ELSE {}), <<>>))

CheckContentType ==
  Ran("content", Outcome(IF Ok(Reply("POST", Root)) THEN Blames(site.echoes) ELSE {}, <<>>))

SavedSent == [i \in DOMAIN site.saved |-> Sends(<<site.saved[i].method>>, site.saved[i].path)[1]]
\* Every word is asked for, and with the other methods when it is there.
WordSent(p) ==
  Sends(IF Reply("GET", p).status = 200 THEN <<"GET", "POST", "PUT", "DELETE", "OPTIONS">> ELSE <<"GET">>, p)
Discovered(s) == IF s[1][1] = "GET" THEN s[2].status \in {200, 301, 302} ELSE Ok(s[2])
\* Slip, for OpenDocsTold: the documents are looked for among many discoveries only.
DocsAmongMany(discovered) ==
  {d \in ToSet(Docs) : /\ Len(discovered) > Many
                       /\ \E i \in DOMAIN discovered : discovered[i][1] = <<"GET", d>>}
\* Of a path that was asked for with several methods the last status counts.
ExposedDocs(discovered) ==
  {d \in ToSet(Docs) : LET of == SelectSeq(discovered, LAMBDA s : s[1][2] = d)
                       IN of # <<>> /\ Last(of)[2].status = 200}
CheckEndpointDiscovery ==
  LET words == FlattenSeq([i \in DOMAIN Words |-> WordSent(Words[i])])
      discovered == SelectSeq(words, Discovered)
      docs == ExposedDocs(discovered)
  IN Ran("discovery", Outcome(
       Blames((IF \E s \in ToSet(SavedSent) : Ok(s[2]) THEN {"validated"} ELSE {})
                \union IF Len(discovered) > Many THEN {"many"} ELSE {})
         \union IF docs = {} THEN {}
                ELSE {<<"docs", <<"GET", SelectSeq(Docs, LAMBDA d : d \in docs)[1]>>>>},
       SavedSent \o words))

\* One saved request: the baseline, its parameter and its body.  An answer that differs from a
\* baseline that was not answered raises.
FuzzOne(out, r) ==
  LET base == Reply(r.method, r.path)
      fuzzed == Reply(r.method, Append(r.path, Odd))
      query == IF r.query THEN <<<<<<r.method, Append(r.path, Odd)>>, fuzzed>>>> ELSE <<>>
      body == IF r.body /\ r.method \in {"POST", "PUT", "PATCH"} THEN <<<<<<r.method, r.path>>, fuzzed>>>> ELSE <<>>
      sent == <<<<<<r.method, r.path>>, base>>>> \o query
  IN CASE out.failed -> out
       [] ~out.failed /\ r.query /\ Ok(fuzzed) /\ ~Answered(base) -> Raises(out.sent \o sent)
       [] OTHER -> Outcome(
            out.found
              \union {<<"anomaly", s[1]>> : s \in {x \in ToSet(query) : Ok(fuzzed) /\ fuzzed.status # base.status}}
              \union {<<"body", s[1]>> : s \in {x \in ToSet(body) : Ok(fuzzed)}},
            out.sent \o sent \o body)
CheckCollectionFuzzing == Ran("fuzz", FoldLeft(FuzzOne, Outcome({}, <<>>), site.saved))

\* Slip, for NothingInvented: any answer is access.
ProbeAny(kind, m, paths, granted) ==
  LET sent == [i \in DOMAIN paths |-> Sends(<<m>>, paths[i])[1]]
  IN Outcome({<<kind, s[1]>> : s \in {x \in ToSet(sent) : Answered(x[2])}}, sent)
\* A row of probes, of which those are blamed that are answered with such a status.
Probe(kind, m, paths, granted) ==
  LET sent == [i \in DOMAIN paths |-> Sends(<<m>>, paths[i])[1]]
  IN Outcome({<<kind, s[1]>> : s \in {x \in ToSet(sent) : x[2].status \in granted}}, sent)

\* The identifiers of the profile are lists of users; those made up from a specification are lists
\* of values, which have no items.
IdCount == IF site.users # <<>> THEN Len(site.users) ELSE site.params
CheckBola ==
  Ran("bola",
      IF IdCount < 2 THEN Outcome({}, <<>>)
      ELSE IF site.users = <<>> THEN Raises(<<>>)
      ELSE LET others == FlattenSeq(Tail(site.users))
           IN Probe("bola", "GET", FlattenSeq([i \in DOMAIN others |-> [j \in DOMAIN Objects |-> Append(Objects[j], others[i])]]), {200}))

CheckBusinessLogic ==
  LET flows == Probe("business", "POST", Business, 1..399)
      admin == IF IdCount > 0 THEN Probe("admin", "GET", Admins, {200}) ELSE Outcome({}, <<>>)
  IN Ran("business", Outcome(flows.found \union admin.found, flows.sent \o admin.sent))

Begins(s, start) == s = start \/ \E t \in Longer : t[1] = start /\ t[3] = s
Joined(start, rest) ==
  LET whole == {t \in Longer : t[1] = start /\ t[2] = rest}
  IN IF whole = {} THEN Other ELSE (CHOOSE t \in whole : TRUE)[3]
\* The start of one of these segments, the first of them, becomes the identifier.
Replaced(p, at, seg, id) ==
  IF at = {} THEN p
  ELSE LET s == p[Min(at)]
       IN [p EXCEPT ![Min(at)] = IF s = seg THEN id ELSE Joined(id, (CHOOSE t \in Longer : t[1] = seg /\ t[3] = s)[2])]
Inside(p, i) == i < Len(p) => p[i + 1] # Odd
\* The segment is replaced where it stands between others, and then where a segment begins with it:
\* another one, or the one that has just been put there.
SwapOf(p, seg, id) ==
  LET between == Replaced(p, {i \in DOMAIN p : p[i] = seg /\ i < Len(p) /\ Inside(p, i)}, seg, id)
  IN Replaced(between, {i \in DOMAIN p : Begins(between[i], seg)}, seg, id)
\* Slip, for SwapsOneIdentifier: every segment that looks like an identifier is replaced.
SwapAll(p, id, ids) == [i \in DOMAIN p |-> IF p[i] \in ids \union Numbers THEN id ELSE p[i]]
\* Of the segments that look like identifiers the first that makes another path of this one.
Swap(p, id, ids) ==
  LET at == {i \in DOMAIN p : p[i] \in ids \union Numbers /\ Inside(p, i) /\ SwapOf(p, p[i], id) # p}
  IN IF at = {} THEN p ELSE SwapOf(p, p[Min(at)], id)
CheckSmartParams ==
  LET valued == HighValueTargets(graph)
      targets == SubSeq(valued, 1, Min({MaxProbed, Len(valued)}))
      ids == IF IdCount > 0 THEN graph.ids ELSE {}
      known == SelectSeq(Sorted, LAMBDA i : i \in ids)
      tried == SubSeq(known, 1, Min({MaxTried, Len(known)}))
      swaps == FlattenSeq([i \in DOMAIN targets |->
                 [j \in DOMAIN tried |-> <<targets[i], Swap(targets[i][2], tried[j], ids)>>]])
      moved == SelectSeq(swaps, LAMBDA w : w[1][2] # w[2])
      sent == [i \in DOMAIN moved |-> Sends(<<moved[i][1][1]>>, moved[i][2])[1]]
  IN Ran("smart", Outcome(
       {<<"idor", s[1]>> : s \in {x \in ToSet(sent) : x[2].status \in {200, 201, 202}}}
         \union Blames(IF ids # {} THEN {"ids"} ELSE {})
         \union {<<"unexplored", t>> : t \in UnexploredPaths(graph)},
       sent))

\* Slip, for RedScanEnds: a stop is not looked for.
LeaveWhenDone ==
  /\ ~over
  /\ next > Len(Checks)
  /\ over' = TRUE
  /\ UNCHANGED <<site, up, outages, next, asked, found, graph, log>>

\* The loop is left after the last check, or when a stop is seen before one.
LeaveLoop ==
  /\ ~over
  /\ asked \/ next > Len(Checks)
  /\ over' = TRUE
  /\ UNCHANGED <<site, up, outages, next, asked, found, graph, log>>

\* api_stop_scan, from another request.
AskStop ==
  /\ ~over /\ ~asked
  /\ asked' = TRUE
  /\ UNCHANGED <<site, up, outages, next, over, found, graph, log>>

\* The site goes away.
Outage ==
  /\ ~over /\ up /\ outages < MaxOutages
  /\ up' = FALSE
  /\ outages' = outages + 1
  /\ UNCHANGED <<site, next, asked, over, found, graph, log>>
Return ==
  /\ ~over /\ ~up
  /\ up' = TRUE
  /\ UNCHANGED <<site, outages, next, asked, over, found, graph, log>>

ScannerStep ==
  \/ CheckTls \/ CheckSecurityHeaders \/ CheckHttpMethods \/ CheckCors \/ CheckErrorDisclosure
  \/ CheckRateLimiting \/ CheckSensitiveData \/ CheckJwt \/ CheckContentType \/ CheckEndpointDiscovery
  \/ CheckCollectionFuzzing \/ CheckBola \/ CheckBusinessLogic \/ CheckSmartParams \/ LeaveLoop
-----------------------------------------------------------------------------
ScannerTypeOK ==
  /\ site \in Sites
  /\ next \in 1..(Len(Checks) + 1)
  /\ outages \in 0..MaxOutages
  /\ ToSet(graph.order) = Nodes(graph) /\ Len(graph.order) = Cardinality(Nodes(graph))
  /\ \A f \in found : f.check \in {Checks[i] : i \in 1..(next - 1)}

\* A finding that names a request is one the site serves: what is called accessible, accepted or
\* exposed was answered with success by a site that was up at the time, and what is called a breach
\* of authorization with the object itself, not with a redirection or an empty answer.
NothingInvented ==
  \A f \in found :
    /\ f.kind \in {"method", "anomaly", "body", "business"} =>
         LET path == IF f.kind = "body" THEN Append(f.at[2], Odd) ELSE f.at[2]
         IN Ok(Served(f.at[1], path))
    /\ f.kind \in {"docs", "bola", "admin"} => Served("GET", f.at[2]).status = 200
    /\ f.kind = "idor" => Served(f.at[1], f.at[2]).status \in {200, 201, 202}

\* The graph a scan leaves to the AI is the log of the scan: every request that was answered is a
\* node with the statuses it got, and identifiers and links come from those answers.
GraphMatchesLog ==
  LET answered == {x \in log : x[2] # 0}
  IN /\ Nodes(graph) = {x[1] : x \in answered}
     /\ \A k \in Nodes(graph) : graph.statuses[k] = {x[2] : x \in {y \in answered : y[1] = k}}
     /\ \A e \in graph.edges : e[1] \in Nodes(graph)
     /\ \A k \in Nodes(graph) : LET page == Served(k[1], k[2])
                                IN page.body = "object" => \A p \in page.links : <<"GET", p>> = k \/ <<k, <<"GET", p>>>> \in graph.edges

\* A path is called unexplored only if no request to it was answered, whatever its method.
FreshPathsOnly ==
  \A f \in found' \ found : f.kind = "unexplored" => \A x \in log : x[1][2] = f.at[2] => x[2] = 0

\* A probe takes one identifier of a request the scan had an answer to, and changes only segments
\* that begin with it.
SwapsOneIdentifier ==
  next = Len(Checks) /\ next' # next =>
    \A x \in log' \ log : \E y \in log :
      /\ y[1][1] = x[1][1] /\ y[2] # 0
      /\ Len(y[1][2]) = Len(x[1][2])
      /\ \E seg \in graph.ids \union Numbers :
           \A i \in DOMAIN y[1][2] : y[1][2][i] # x[1][2][i] => Begins(y[1][2][i], seg)

\* What the last checks call unexplored, and what they probe, comes from what was asked and answered
\* before them.
ProbesFresh == [][FreshPathsOnly /\ SwapsOneIdentifier]_rvars

\* A document the site serves, and serves to no other method, is told of by the time the scan is
\* complete, unless one before it in the list is.
OpenDocsTold ==
  (over /\ next > Len(Checks)) =>
    \A d \in ToSet(Docs) \intersect ToSet(Words) :
      (/\ <<<<"GET", d>>, 200>> \in log
       /\ <<<<"OPTIONS", d>>, 405>> \in log
       /\ \A x \in log : x[1][2] = d /\ x[1][1] # "GET" => x[2] >= 400) => \E f \in found : f.kind = "docs"

\* A scan comes to its end, whatever the site does.
ScannerEnds == <>over

\* What the fourteen checks tell, and what the graph holds, is what the site answered.
RedScanSound ==
  /\ ScannerTypeOK
  /\ NothingInvented
  /\ GraphMatchesLog
  /\ OpenDocsTold
=============================================================================
