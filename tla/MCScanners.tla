----------------------------- MODULE MCScanners -----------------------------
EXTENDS Scanners, TLC

(* The red team *)
Page(status, body, ids, links) == [status |-> status, body |-> body, ids |-> ids, links |-> links, headers |-> {}]
Item == <<"items", "7">>
Nested == <<"teams", "8", "items", "7">>
\* A path with an identifier that begins with another one.
Twin == <<"items", "7", "parts", "72">>
NotFound == Page(404, "object", {}, {})
NotAllowed == Page(405, "empty", {}, {})
\* A site that says what it is asked for, and refuses the rest.
Neat == (<<"GET", Root>> :> Page(200, "object", {"9"}, {Nested, <<"docs">>}))
     @@ (<<"GET", Nested>> :> Page(200, "object", {"7", "9"}, {Item, <<"docs">>}))
     @@ (<<"GET", <<"docs">>>> :> Page(200, "text", {}, {}))
     @@ (<<"GET", Twin>> :> Page(200, "object", {"72", "9"}, {}))
     @@ (<<"GET", <<"users", "7">>>> :> Page(204, "empty", {}, {}))
     @@ (<<"POST", <<"docs">>>> :> NotAllowed) @@ (<<"PUT", <<"docs">>>> :> NotAllowed) @@ (<<"DELETE", <<"docs">>>> :> NotAllowed) @@ (<<"OPTIONS", <<"docs">>>> :> NotAllowed)
     @@ (<<"GET", <<"admin">>>> :> Page(401, "object", {}, {}))
\* The document is served to two methods, the lists are of links, an item moves, a page never answers.
Odder == (<<"GET", Root>> :> Page(200, "list", {"9"}, {Item}))
     @@ (<<"GET", Item>> :> [Page(302, "text", {}, {}) EXCEPT !.headers = {<<"items", "8">>}])
     @@ (<<"GET", <<"docs">>>> :> Page(200, "text", {}, {}))
     @@ (<<"OPTIONS", <<"docs">>>> :> Page(200, "empty", {}, {}))
     @@ (<<"POST", Item>> :> Silent) @@ (<<"POST", Append(Item, Odd)>> :> Page(201, "object", {"8"}, {}))
     @@ (<<"POST", <<"orders">>>> :> Page(201, "object", {}, {}))
     @@ (<<"GET", <<"users", "9">>>> :> Page(200, "object", {}, {}))
     @@ (<<"GET", Twin>> :> Page(200, "object", {"72", "9"}, {}))
     @@ (<<"GET", <<"items", "9", "parts", "92">>>> :> Page(200, "object", {}, {}))
     @@ (<<"GET", <<"admin">>>> :> Page(301, "text", {}, {}))
Get(p, query) == [method |-> "GET", path |-> p, query |-> query, body |-> FALSE]
Post(p, query) == [method |-> "POST", path |-> p, query |-> query, body |-> TRUE]
None == [kind |-> "none", bearer |-> FALSE, outer |-> {}, inner |-> {}, parts |-> 1]
Jwt == [kind |-> "jwt_bearer", bearer |-> TRUE, outer |-> {}, inner |-> {"no iat"}, parts |-> 3]
Base == [url |-> "https", tls |-> "untrusted", weak |-> {"cbc"}, complaints |-> {"hsts"}, cors |-> {"reflected"},
         secrets |-> {}, limited |-> FALSE, echoes |-> {"xml"}, leaks |-> {<<"GET", Item>>},
         serve |-> Neat, other |-> NotFound, token |-> Jwt, users |-> <<>>, params |-> 0,
         saved |-> <<Get(Nested, TRUE)>>]
MCSites == {[Base EXCEPT !.tls = t, !.serve = s, !.saved = c, !.users = u[1], !.params = u[2], !.other = o] :
              t \in {"trusted", "untrusted"}, s \in {Neat, Odder}, o \in {NotFound, Page(200, "text", {}, {})},
              c \in {<<>>, <<Get(Nested, TRUE), Post(Item, TRUE)>>, <<Get(Twin, FALSE), Post(Item, FALSE)>>},
              u \in {<< <<>>, 0>>, << <<>>, 2>>, << << <<"7">>, <<"9">> >>, 0>>}}
  \union {[Base EXCEPT !.url = "http", !.token = None, !.limited = TRUE, !.echoes = {}],
          [Base EXCEPT !.tls = "none", !.token = [Jwt EXCEPT !.kind = "jwe", !.outer = {"short key"}, !.parts = 2]]}
MCWords == <<<<"admin">>, <<"docs">>, <<"orders">>>>
MCSorted == <<"7", "72", "8", "9">>
MCLonger == {<<"7", "2", "72">>, <<"9", "2", "92">>}
MCBusiness == <<<<"orders">>>>
MCDocs == <<<<"swagger">>, <<"docs">>>>
MCAdmins == <<<<"admin">>>>
MCObjects == <<<<"users">>>>

(* The live tests *)
Answer(status, body, tells) == [status |-> status, body |-> body, tells |-> tells, long |-> TRUE]
Ctl(m, place, arg, gated, guarded, about) == [method |-> m, place |-> place, arg |-> arg, gated |-> gated, guarded |-> guarded, about |-> about]
Closed == Answer(401, "closed", {})
Away == [Answer(404, "away", {}) EXCEPT !.long = FALSE]
\* Three controllers: a list, an item whose parameter is not declared, and the login.
Three == <<Ctl("GET", "list", "fixed", TRUE, TRUE, {"account"}), Ctl("GET", "item", "raw", TRUE, FALSE, {}),
           Ctl("POST", "login", "fixed", FALSE, FALSE, {"login", "register"})>>
\* Two items of one path, and a method that is not probed.
Items == <<Ctl("GET", "item", "open", TRUE, FALSE, {"account"}), Ctl("PUT", "item", "open", FALSE, FALSE, {}),
           Ctl("PATCH", "list", "fixed", TRUE, FALSE, {"account"})>>
End(m, place, params, required) ==
  [method |-> m, place |-> place, params |-> params, required |-> required, fields |-> TRUE, bounded |-> TRUE, needs |-> TRUE, secured |-> TRUE]
Open == [controllers |-> Three, static |-> {"list", "old", "older"}, sinks |-> {"sql", "redirect", "deserialization"},
         described |-> {End("GET", "item", {"path"}, {"path"}), End("POST", "login", {"query"}, {"query"})},
         odd |-> FALSE, bearer |-> TRUE, other |-> Away,
         says |-> (<<"GET", "list", "any">> :> Answer(200, "rows", {"ids", "private"}))
               @@ (<<"GET", "list", "sql">> :> Answer(500, "trace", {"error", "sql"}))
               @@ (<<"GET", "old", "any">> :> Answer(200, "rows", {})) @@ (<<"GET", "older", "any">> :> Answer(500, "oops", {"error"}))
               @@ (<<"GET", "item", "token">> :> Answer(200, "item", {})) @@ (<<"GET", "item", "anon">> :> Closed)
               @@ (<<"GET", "item", "header">> :> Answer(200, "item", {})) @@ (<<"GET", "item", "foreign">> :> Answer(200, "else", {}))
               @@ (<<"GET", "item", "redirect">> :> Answer(302, "away", {"evil"})) @@ (<<"GET", "item", "any">> :> Closed)
               @@ (<<"POST", "login", "login">> :> Answer(200, "in", {"token", "cookie"}))
               @@ (<<"POST", "login", "any">> :> Answer(401, "no", {}))
               @@ (<<"GET", "root", "any">> :> Answer(200, "home", {"cookie", "unprotected"}))]
Shut == [Open EXCEPT !.controllers = Items, !.static = {}, !.sinks = {}, !.other = Closed, !.bearer = FALSE,
         !.says = (<<"GET", "item", "token">> :> Answer(200, "item", {})) @@ (<<"PUT", "item", "header">> :> Answer(200, "put", {}))
               @@ (<<"GET", "item", "header">> :> Answer(200, "item", {})) @@ (<<"PATCH", "list", "anon">> :> Answer(200, "rows", {}))]
Bland == [Open EXCEPT !.controllers = <<>>, !.odd = TRUE]
MCTargets == {Open, Shut, Bland}

(* The taint tracker *)
Lists(S) == UNION {{s \in [1..n -> S] : \A i,j \in 1..n : i # j => s[i] # s[j]} : n \in 0..2}
Graphs == {("f" :> a) @@ ("g" :> b) @@ ("h" :> c) @@ ("k" :> <<"x", "f">>) : a \in Lists({"g","h","k"}), b \in Lists({"f","h","k"}), c \in Lists({"g","k","eval"})}
MCRepos == {[calls |-> g, sinks |-> {"k", "x"}, direct |-> {"eval"}, work |-> <<"f", "h">>] : g \in Graphs}

(* The sources *)
Ln(kind, name, indent) == [kind |-> kind, name |-> name, indent |-> indent, params |-> FALSE, args |-> FALSE, shape |-> "plain"]
Def(name, indent, shape) == [Ln("def", name, indent) EXCEPT !.shape = shape]
Route == Ln("route", "v", 0)
Gate == Ln("gate", "", 0)
Blank == Ln("blank", "", 0)
If == Ln("branch", "if", 1)
Close == Ln("close", "", 0)
\* Sources that differ in what stands before a function, and sources that differ in what stands in it.
PyHeads == {Route, Gate, [Gate EXCEPT !.args = TRUE], Def("f", 0, "plain"), Def("f", 0, "nested"), Blank}
PyBodies == {Def("f", 0, "plain"), Def("f", 1, "nested"), Def("f", 0, "typed"), Def("g", 1, "word"), Ln("stmt", "h", 1), Ln("stmt", "f", 2), Blank}
BrHeads == {Route, Gate, Def("f", 0, "plain"), Def("g", 0, "word"), Def("g", 0, "typed"), Def("h", 0, "nested"), If}
BrBodies == {Def("f", 0, "plain"), Def("f", 0, "nested"), Def("g", 0, "typed"), Ln("stmt", "f", 1), If, Ln("open", "", 1), Close}
Few == {Route, [Route EXCEPT !.params = TRUE], Ln("resource", "r", 0), Def("f", 0, "plain"), Def("f", 0, "typed")}
Src(f, w, S, n) == {[framework |-> f, width |-> w, lines |-> s] : s \in [1..n -> S]}
Below(f, w, S, n) == {[framework |-> f, width |-> w, lines |-> <<Route>> \o s] : s \in [1..n -> S]}
MCSources ==
  Src("fastapi", 4, PyHeads, 4) \union Below("fastapi", 4, PyBodies, 4) \union Below("flask", 2, PyHeads \union {[Route EXCEPT !.params = TRUE]}, 3)
   \union Below("django", 2, PyBodies, 3)
   \union UNION {Below(f, 4, BrHeads, 3) \union Below(f, 4, BrBodies, 4) : f \in {"spring", "express"}} \union Below("nestjs", 4, BrHeads \union BrBodies, 3)
   \union UNION {Src(f, 4, Few, 3) : f \in {"symfony", "laravel", "rails", "go", "generic"}}

(* The collectors *)
Script(host, libraries, secrets, endpoints) == [host |-> host, libraries |-> libraries, secrets |-> secrets, endpoints |-> endpoints]
Everything == {"root", "robots", "sitemap", "security"}
Rich == [tools |-> {"dig", "nslookup", "whois", "nmap"}, addresses |-> {"A", "AAAA"}, records |-> {"MX", "TXT"}, spf |-> TRUE, dmarc |-> "p=reject",
         whois |-> {"email", "expires"}, iana |-> {"email"}, refers |-> TRUE, tls |-> "trusted",
         names |-> [s \in {"crt.sh", "certspotter", "otx"} |-> CASE s = "crt.sh" -> {"a"} [] s = "certspotter" -> {"a", "b"} [] s = "otx" -> {"b", "c"}],
         subdomains |-> {"a", "b"}, pages |-> [s \in {"https", "http"} |-> Everything], headers |-> {"strict-transport-security", "max-age", "short", "server", "weak cookie"},
         robots |-> {"disallow"}, services |-> <<<<"nmap", "ssh">>, <<"nmap", "http">>>>, traces |-> <<<<"Web Server", "x">>>>,
         parts |-> <<<<"CMS", "a">>, <<"CMS", "b">>, <<"React", "1">>>>, blank |-> FALSE, emails |-> {"inner", "outer"}, archive |-> "rows",
         hits |-> <<"fails", "none", "some">>, scripts |-> <<Script("https", {"vue"}, {}, {"/api"}), Script("cdn", {"jquery"}, {"key"}, {}), Script("cdn", {}, {"late"}, {})>>,
         inline |-> Script("https", {}, {"token"}, {}), vulnerable |-> {"jquery"},
         shown |-> {".git", ".env", "admin", "robots"}]
Poor == [Rich EXCEPT !.tools = {"nslookup"}, !.records = {}, !.spf = FALSE, !.whois = {"failed", "email"}, !.tls = "untrusted", !.headers = {}, !.archive = "empty",
         !.names = [s \in {"crt.sh", "certspotter", "otx"} |-> IF s = "otx" THEN {"z"} ELSE {}], !.blank = TRUE, !.hits = <<"none", "none", "none">>,
         !.shown = {"uploads", "robots"}]
Plain80 == [Poor EXCEPT !.tools = {"dig"}, !.records = {"TXT"}, !.dmarc = "none", !.refers = FALSE, !.tls = "none", !.archive = "odd", !.blank = FALSE, !.robots = {},
            !.headers = {"strict-transport-security"},
            !.pages = [s \in {"https", "http"} |-> IF s = "http" THEN {"root"} ELSE {}]]
Dark == [Rich EXCEPT !.tools = {}, !.addresses = {}, !.whois = {"nothing"}, !.tls = "trusted", !.pages = [s \in {"https", "http"} |-> {"robots"}],
         !.names = [s \in {"crt.sh", "certspotter", "otx"} |-> {}], !.shown = {"admin", "uploads"}, !.archive = "short"]
MCWorlds == {Rich, Poor, Plain80, Dark}
MCSeverity == (".git" :> "critical") @@ (".env" :> "high") @@ ("admin" :> "medium") @@ ("uploads" :> "low") @@ ("robots" :> "info")
MCTroubles == {{}, {"https", "http", "nmap"}, {"https", "archive", "dig"}, {"crt.sh", "nvd", "iana"}, {"resolver", "dig", "nslookup", "whois", "registry", "github", "search", "dmarc", "certspotter"}}
MCFilters == {{}, {"unknown"}, {"dns", "whois", "trivial"}, {"ct", "http", "frontend"}}

AllParts == {"red", "live", "taint", "sources", "osint"}
=============================================================================
