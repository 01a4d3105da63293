----------------------------- MODULE MCSiteVisit -----------------------------
(* Instances of SiteVisit for TLC.                                            *)
EXTENDS SiteVisit

Page == <<"/", "app">>
Docs == <<"/", "docs">>
Guide == <<"/", "docs", "/", "guide">>
Report == <<"/", "report">> \* a page with a very long address

\* A site of the home region, closed or not as shut.edge has it.
Plainly == [named |-> TRUE, x |-> 0, r |-> None, g |-> None, auth |-> FALSE, pub |-> {}, stg |-> FALSE,
            p |-> {}, routes |-> {}]
Staging == [Plainly EXCEPT !.stg = TRUE]
Old == [Plainly EXCEPT !.r = "site"]
AllSites(e) == [h \in Hosts |-> IF h = "stg" THEN [e EXCEPT !.stg = TRUE] ELSE IF h = "old" THEN Old ELSE e]

Ann(host) == [name |-> "ann", lang |-> "fr", host |-> host]
Bob(host) == [name |-> "bob", lang |-> "en", host |-> host]
Eve(host) == [name |-> "bob", lang |-> "fr", host |-> host]

Holds(rt) == [NoCookie EXCEPT !.rt = rt, !.mail = TRUE]
Foreign == [NoCookie EXCEPT !.id = 2, !.good = FALSE]
Signed == [NoCookie EXCEPT !.id = 2, !.rt = "live", !.mail = TRUE]

\* wa and wb: what the first and the second tab ask for.
Case(e, closed, own, a, wa, b, wb, jars, keys, may, n, lasts) ==
    [entry |-> AllSites(e), closed |-> closed, own |-> own, who |-> <<a, b>>, wants |-> <<wa, wb>>,
     jars |-> jars, keys |-> keys, may |-> may, events |-> n, lasts |-> lasts]

\* The hosts of one application and all that the edge tells apart.
Paths ==
    {Root, Page, Docs, Guide, <<"/", "docs", "search">>, <<"/", "docs", "/", "a", ".css">>,
     <<"/", "docs", "/">>, <<"/", "%64ocs">>, <<"/", "static", "/", "logo">>, Static, <<"/", "api", "/", "x">>,
     <<"/", ".", "env">>, <<"/", "%2E", "env">>, <<"/", "%252E", "env">>,
     <<"/", ".", "well-known", "/", "x">>, <<"/", "index", ".php">>}

Kinds ==
    {[Plainly EXCEPT !.pub = {Docs}], [Plainly EXCEPT !.pub = {Root}],
     [Plainly EXCEPT !.p = {Root, Docs}, !.routes = {Guide}], [Plainly EXCEPT !.x = 1],
     [Plainly EXCEPT !.named = FALSE], [Plainly EXCEPT !.g = "ca", !.p = {Docs}], [Plainly EXCEPT !.g = "us"]}

Routing ==
    FoldSet(LAMBDA c, all : Append(all, c), <<>>,
        {Case(e, closed, None, who, Paths, Bob("site"), {}, {NoCookie, Foreign}, {"none"}, {}, 1, 0) :
            e \in Kinds, closed \in BOOLEAN, who \in {Ann("site"), Ann("old")}})

Meetings ==
    << \* two browsers on one host, then on two; passkeys come and go
       Case(Plainly, TRUE, None, Ann("site"), {Page}, Bob("site"), {Page}, {NoCookie}, {"none"}, {"passkeys"}, 3, 2),
       Case(Plainly, TRUE, None, Ann("site"), {Page}, Eve("stg"), {Page}, {NoCookie}, {"none"}, {}, 2, 2),
       \* two tabs of one browser
       Case(Plainly, TRUE, None, Ann("site"), {Page}, Ann("site"), {Docs}, {NoCookie, Holds("live")}, {"none", "usable"}, {"revoke"}, 2, 1),
       Case(Plainly, TRUE, None, Ann("site"), {Page}, Ann("site"), {Docs}, {Signed}, {"none"}, {"logout"}, 3, 1),
       \* one tab and a long visit
       Case(Plainly, TRUE, None, Ann("site"), {Page}, Bob("site"), {}, {NoCookie, Holds("live")}, {"none", "usable"}, {"logout", "revoke"}, 4, 3),
       \* closed by its own code
       Case(Plainly, FALSE, "path", Ann("site"), {Page, Docs}, Eve("site"), {Docs}, {NoCookie, Foreign, Holds("live")}, {"none"}, {}, 2, 2),
       Case(Plainly, FALSE, "address", Ann("site"), {Page}, Bob("site"), {}, {NoCookie, Foreign, Holds("live")}, {"none"}, {}, 2, 2),
       \* longer than what may be carried
       Case(Plainly, TRUE, None, Ann("site"), {Report}, Bob("site"), {}, {NoCookie, Holds("live")}, {"none"}, {}, 2, 1),
       Case(Plainly, FALSE, "path", Ann("site"), {Report}, Bob("site"), {}, {NoCookie, Foreign, Holds("live")}, {"none"}, {}, 2, 1),
       \* opened and closed meanwhile
       Case([Plainly EXCEPT !.pub = {Docs}], FALSE, None, Ann("site"), {Page, Docs}, Ann("site"), {}, {NoCookie, Signed}, {"none"}, {"close"}, 4, 2) >>

Visits_ == Meetings \o Routing

Tokens_ ==
    {"/", "auth", "login", "send-otp", "verify", "logout", "register", "static", "api", "index",
     "app", "docs", "report", "guide", "search", "a", "logo", "x", "env", "well-known",
     ".", ".css", ".php", "backslash", "%64ocs", "%2E", "%252E"} \cup Hosts

Chars_ == [token \in Tokens_ |-> IF token = "report" THEN 2048 ELSE 1]

Escaped == "%2E" :> "." @@ "%252E" :> "%2E" @@ "%64ocs" :> "docs"
=============================================================================
