------------------------------ MODULE EdgeRouter ------------------------------
(***************************************************************************)
(* What the edge of the application domain does with a request             *)
(* (lib/stack/app-content): the viewer-request function, whose early       *)
(* returns are the rules of Verdict in their order, and the key under      *)
(* which the CDN keeps a cacheable answer.                                 *)
(*                                                                         *)
(* A path is a sequence of tokens: "/", the text between two slashes, and  *)
(* apart from it the dots and percent escapes that the function looks for. *)
(* The value of a host in the key-value store is written by the connector. *)
(***************************************************************************)
EXTENDS Integers, Sequences, FiniteSets, SequencesExt, FiniteSetsExt

CONSTANTS
    Hosts,      \* the names under which applications are served
    Regions,    \* where an organization may live
    Home,       \* the region of the distribution
    Origins,    \* appContentRegionOrigins: other regions with an origin here, or none
    Tokens,     \* what paths are made of
    Escapes,    \* the percent escapes and what they stand for
    Dots,       \* the tokens that hold a dot
    Backslashed, \* those that hold a backslash
    Chars,      \* how long a token is
    MaxReturn,  \* how long a page to return to may be: 2048 characters
    Scripts     \* those that end the name of a server-side script

\* The slash and the platform's own names are spelled as they are.
ASSUME TokensAssumption ==
    /\ {"/", "auth", "login", "send-otp", "verify", "logout", "register", "static", "api", "index"}
         \subseteq Tokens
    /\ \A token \in DOMAIN Escapes : Escapes[token] \in Tokens
    /\ {"/", "auth", "static"} \cap DOMAIN Escapes = {} /\ "/" \notin Scripts
    /\ Chars \in [Tokens -> Nat] /\ MaxReturn \in Nat

None == "none"

Root == <<"/">>
Login == <<"/", "auth", "/", "login">>
SendOtp == <<"/", "auth", "/", "send-otp">>
Verify == <<"/", "auth", "/", "verify">>
Logout == <<"/", "auth", "/", "logout">>
Register == <<"/", "auth", "/", "register">>
AuthTree == <<"/", "auth">>
Static == <<"/", "static">>
Api == <<"/", "api">>

Nowhere == <<>>

\* A host's value e, if it has one (named): stopped (x), redirected (r), where its
\* organization lives (g), closed (auth) but for public prefixes (pub), staging
\* (stg), with static sections (p) and the pages in them that have an index of
\* their own (routes).
Under(uri, pf) == uri = pf \/ IsPrefix(Append(pf, "/"), uri)

\* The same reading as the authorizer's: "/" is the root page alone.
Public(uri, pub) == \E pf \in pub : IF pf = Root THEN uri = Root ELSE Under(uri, pf)

Platform(uri) == Under(uri, AuthTree) \/ Under(uri, Static)

Once(token) == IF token \in DOMAIN Escapes THEN Escapes[token] ELSE token

\* As deep as the gateway and the application decode.
Decoded(uri) == [i \in DOMAIN uri |-> Once(Once(uri[i]))]

\* The gateway decodes once what it gives the authorizer and the application.
AtOrigin(uri) == [i \in DOMAIN uri |-> Once(uri[i])]

\* Mutant: the path as sent.
ScannedRaw(uri) ==
    \/ \E i \in 1..Len(uri) - 1 : uri[i] = "/" /\ uri[i + 1] = "."
    \/ Last(uri) \in Scripts

\* No site serves it: a path with a dot-name, or a server-side script.
Scanned(uri) ==
    LET du == Decoded(uri)
        WellKnown(i) == i + 2 <= Len(du) /\ du[i + 2] = "well-known" /\ (i + 2 = Len(du) \/ du[i + 3] = "/")
    IN \/ \E i \in 1..Len(du) - 1 : du[i] = "/" /\ du[i + 1] = "." /\ ~WellKnown(i)
       \/ Last(du) \in Scripts

\* A path of this host, as safeReturnUrl tells it.
Relative(uri) == uri # Nowhere /\ uri[1] = "/" /\ (Len(uri) = 1 \/ uri[2] # "/")

Length(uri) == FoldLeft(LAMBDA n, token : n + Chars[token], 0, uri)

\* One that the edge takes out of a query, and the resume page out of a fragment.
Carriable(uri) ==
    /\ Relative(uri) /\ Length(uri) <= MaxReturn
    /\ \A i \in DOMAIN uri : uri[i] \notin Backslashed

\* Without appContentRegionOrigins the function does not look at g.
RegionOf(e) == IF Origins = {} \/ e.g = None THEN Home ELSE e.g

\* Where the content of a host is: an organization, an application, its code.
Place(e, from, file) ==
    [from |-> from, region |-> RegionOf(e), staging |-> e.stg, file |-> file]

IsFile(uri) == \E i \in DOMAIN uri : uri[i] \in Dots /\ \A j \in i..Len(uri) : uri[j] # "/"

Sections(e, uri) == {pf \in e.p : pf = Root \/ Under(uri, pf)}

\* Mutant: the shortest does.
SectionShortest(e, uri) == CHOOSE pf \in Sections(e, uri) : \A o \in Sections(e, uri) : Len(o) >= Len(pf)

\* The longest prefix wins.
Section(e, uri) == CHOOSE pf \in Sections(e, uri) : \A o \in Sections(e, uri) : Len(o) <= Len(pf)

Index(uri) == (IF uri = Root THEN <<>> ELSE uri) \o <<"/", "index">>

\* The file itself, the index of the page if it has one, that of its section.
StaticFile(e, uri) ==
    LET page == IF Len(uri) > 1 /\ Last(uri) = "/" THEN Front(uri) ELSE uri IN
    IF IsFile(uri) THEN uri
    ELSE IF page \in e.routes THEN Index(page) ELSE Index(Section(e, uri))

InSection(e, uri) == Sections(e, uri) # {} /\ ~Under(uri, Api) /\ ~Under(uri, AuthTree)

\* What becomes of a request q = [get, uri, ret, ...], with or without a session
\* cookie.
Rule(when, kind) == [when |-> when, kind |-> kind]

\* Mutant: the query stays.
FoldsNever(q, anon) == FALSE

\* An anonymous GET of the login page, with the page to return to in the query.
Folds(q, anon) == anon /\ q.get /\ q.uri = Login /\ q.ret # Nowhere

Closed(e, q, anon) == anon /\ e.auth /\ ~Platform(q.uri) /\ ~Public(q.uri, e.pub)

\* The first rule that applies.  What is not routed gets the gateway's 404: a host
\* without a value, as it is sent; /static itself, rewritten as an asset but not
\* matched by the behavior for what lies under it.
FirstOf(rules) == rules[Min({i \in DOMAIN rules : rules[i].when})]

Verdict(e, q, anon) ==
    LET rules == <<
          Rule(~e.named, "unrouted"),
          Rule(e.x # 0, "stopped"),
          Rule(e.r # None, "moved"),
          Rule(Origins # {} /\ e.g \notin Origins \cup {None}, "stranded"),
          Rule(anon /\ Scanned(q.uri), "notFound"),
          Rule(Folds(q, anon), "fold"),
          Rule(Closed(e, q, anon) /\ Under(q.uri, Api), "unauthorized"),
          Rule(Closed(e, q, anon), "login"),
          Rule(q.uri = Static, "unrouted"),
          Rule(Under(q.uri, Static), "asset"),
          Rule(InSection(e, q.uri), "section"),
          Rule(TRUE, "origin")>>
    IN FirstOf(rules).kind

\* Mutant: the policy without Accept-Language.
CacheKeyOfAnyLanguage(host, lang, q, cookies) == <<host, q.uri, q.ret, q.mail, cookies>>

\* The fragment is not in it: it never leaves the browser.
CacheKey(host, lang, q, cookies) == <<host, lang, q.uri, q.ret, q.mail, cookies>>
=============================================================================
