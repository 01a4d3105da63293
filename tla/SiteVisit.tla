------------------------------ MODULE SiteVisit ------------------------------
(***************************************************************************)
(* People visit the hosts of one application, in browsers that share the   *)
(* CDN: the edge (EdgeRouter) with its cache, the auth Lambda's pages and  *)
(* the authorizer in front of the site, seen from the tab.                 *)
(*                                                                         *)
(* A tab asks for a page and follows redirects; what the edge decides, it  *)
(* decides when the request is sent, and what reaches the origin is        *)
(* answered in a later step, from the cookies it carries.  The codes are   *)
(* OtpLogin's, the life of refresh tokens SessionRenewal's, the caches of  *)
(* the authorizer FrontendAuthorizer's; here a code is right or wrong, a   *)
(* refresh token good or not, and the authorizer goes by the row it reads. *)
(* One cookie stands for the three that hold a session.                    *)
(***************************************************************************)
EXTENDS EdgeRouter

CONSTANTS
    Tabs, People, Languages,
    Visits,       \* the situations considered, see Situation
    PasskeyHosts, \* those that may offer passkeys: passkeyRpId and what lies under it
    CacheLife,    \* s-maxage of the login page
    AuthLife,     \* APP_AUTH_TTL_MS
    IdLife,       \* life of an ID token
    AccessLife,   \* ACCESS_TOKEN_MAX_AGE
    MaxRedirects  \* bound: redirects in a row until the browser gives up, see hops

VARIABLES
    visit,     \* which situation, chosen once
    clock,     \* time since the start
    shut,      \* the application is closed: as the edge has it, as its row has it
    passkeys,  \* _auth_config: passkeys are enabled, and since when
    jar,       \* the cookies of a person's browser for a host
    key,       \* the passkey of a person, as Cognito has it
    cache,     \* the pages the CDN keeps
    tab,       \* the tabs
    events,    \* how much of the visit's budget is left
    rendered   \* history: when the origin last rendered a login page for no cookie

vars == <<visit, clock, shut, passkeys, jar, key, cache, tab, events, rendered>>

-----------------------------------------------------------------------------
(* The visitors.                                                           *)

\* Cookies: the ID token by its end (0: none) and whether the application's pool
\* vouches for it, the refresh token, the access token by its end, whether the
\* address is remembered, and that this device has a passkey.
Jar == [id: Nat, good: BOOLEAN, rt: {"none", "live", "dead"}, at: Nat, mail: BOOLEAN, pk: BOOLEAN]
NoCookie == [id |-> 0, good |-> TRUE, rt |-> "none", at |-> 0, mail |-> FALSE, pk |-> FALSE]

\* What a login page shows: its language, the passkey button, an address.
Form(lang, button, mail) == [lang |-> lang, key |-> button, mail |-> mail]

\* A request, and the fragment of the address it is made for.
Ask(get, uri, ret) == [get |-> get, uri |-> uri, ret |-> ret, mail |-> None, frag |-> Nowhere]
Get(uri) == Ask(TRUE, uri, Nowhere)

\* A situation: the hosts' values, whether the application is closed, by the
\* platform (closed, with public prefixes) or by its own code (own), who sits at
\* each tab, their first cookies and passkey, what they ask for, what else may
\* happen, and bounds: how much of all that, and for how long.
Situation == Visits[visit]
Who(t) == Situation.who[t]
Box(t, host) == <<Who(t).name, host>>

EntryOf(host) == [Situation.entry[host] EXCEPT !.auth = shut.edge]

InStep == shut.edge = shut.row

\* What a person may ask for, and what the connector writes: pages of the site,
\* prefixes without an escape, sections by their path.
Asked(uri) == uri \in Seq(Tokens) /\ Relative(uri) /\ ~Under(uri, AuthTree)

Written(e) ==
    /\ e \in [named: BOOLEAN, x: Nat, r: Hosts \cup {None}, g: Regions \cup {None}, auth: BOOLEAN,
              pub: SUBSET Seq(Tokens), stg: BOOLEAN, p: SUBSET Seq(Tokens), routes: SUBSET Seq(Tokens)]
    /\ \A pf \in e.pub, token \in DOMAIN Escapes : \A i \in DOMAIN pf : pf[i] # token
    /\ \A pf \in e.p : Relative(pf)

ASSUME VisitAssumption ==
    /\ PasskeyHosts \subseteq Hosts /\ Home \in Regions /\ Origins \subseteq Regions
    /\ Hosts \subseteq Tokens
    /\ {CacheLife, AuthLife, IdLife, AccessLife} \subseteq Nat \ {0} /\ MaxRedirects \in Nat
    /\ \A v \in DOMAIN Visits :
         LET s == Visits[v] IN
         /\ s.who \in [Tabs -> [name: People, lang: Languages, host: Hosts]]
         /\ DOMAIN s.entry = Hosts /\ \A host \in Hosts : Written(s.entry[host])
         /\ \A host \in Hosts : LET r == s.entry[host].r IN r # None => s.entry[r].r = None
         /\ s.closed \in BOOLEAN /\ s.own \in {None, "path", "address"}
         /\ \A t \in Tabs : \A uri \in s.wants[t] : Asked(uri)
         /\ \A c \in s.jars : c \in Jar /\ c.id <= IdLife

\*   pc      away, going (a redirect to follow), origin (its request is there),
\*           the pages login, code, assert and create (the passkey dialogs),
\*           offer, later (without it), page, and what else may be the end of a visit
\*   sent    the cookies that went with the request
\*   field   return_url, in the page's form or link
\*   place   where the page came from
\*   wanted  history: the page it is all about
\*   hops    redirects since the person did something, time passed, or another tab
\*           of the browser logged out
\*   again, failed, beaten, lagged, spurned, known, forced, shownAt    history: the
\*           request asks for a second render within a minute; its renewal failed; another
\*           tab signed in meanwhile; the edge and the row disagreed; a token was not
\*           accepted; there was one; the page is a login page that a renewal would
\*           have spared; when it was shown
NewTab(host) ==
    [pc |-> "away", host |-> host, ask |-> Get(Root), sent |-> NoCookie,
     field |-> Nowhere, form |-> Form(None, FALSE, None), place |-> Nowhere, wanted |-> Root,
     hops |-> 0, again |-> FALSE, beaten |-> FALSE, failed |-> FALSE, lagged |-> FALSE,
     spurned |-> FALSE, known |-> FALSE, forced |-> FALSE, shownAt |-> 0]

\* What a tab keeps from one page or request to the next.
Anew(b) ==
    [NewTab(b.host) EXCEPT !.wanted = b.wanted, !.hops = b.hops, !.beaten = b.beaten,
                           !.spurned = b.spurned, !.known = b.known]

Init ==
    /\ visit \in DOMAIN Visits
    /\ clock = 0
    /\ shut = [edge |-> Situation.closed, row |-> Situation.closed]
    /\ passkeys = [on |-> TRUE, since |-> 0 - AuthLife]
    /\ LET boxes == {Box(t, Who(t).host) : t \in Tabs} IN
       \E given \in [boxes -> Situation.jars] :
         jar = [b \in People \X Hosts |-> IF b \in boxes THEN given[b] ELSE NoCookie]
    /\ key \in [People -> Situation.keys]
    /\ cache = {}
    /\ tab = [t \in Tabs |-> NewTab(Who(t).host)]
    /\ events = Situation.events
    /\ rendered = [b \in Hosts \X {Who(t).lang : t \in Tabs} |-> -1]

-----------------------------------------------------------------------------
(* The edge.                                                               *)

Anonymous(c) == c.id = 0

\* isUnexpiredJwt: whoever signed it.
Unexpired(c) == c.id # 0 /\ clock <= c.id

\* verifyCognitoIdToken.
Honoured(c) == Unexpired(c) /\ c.good

Redirected(b, q) ==
    [Anew(b) EXCEPT !.pc = IF b.hops < MaxRedirects THEN "going" ELSE "gaveUp", !.ask = q, !.hops = @ + 1]

\* The page's script copies the fragment into the field if that is empty.
Shown(b, form) ==
    [Anew(b) EXCEPT !.pc = "login", !.form = form, !.shownAt = clock,
                    !.field = IF b.ask.ret # Nowhere THEN b.ask.ret ELSE b.ask.frag,
                    !.forced = b.sent.rt = "live" /\ ~b.failed]

\* Cognito has revoked the refresh token.
Dead(c) == IF c.rt = "live" THEN [c EXCEPT !.rt = "dead"] ELSE c

\* A page of the sign-in, and the return_url in it.
At(b, pc, to) == [Anew(b) EXCEPT !.pc = pc, !.field = to]

\* The site's own page.
Landed(b, place) == [Anew(b) EXCEPT !.pc = "page", !.ask = Get(b.ask.uri), !.place = place]

\* The login page of somebody without any cookie, and no address in the query.
Plain(b) == b.ask.uri = Login /\ b.ask.mail = None /\ b.sent = NoCookie

CacheKeyOf(t, b) ==
    CacheKey(b.host, Who(t).lang, b.ask, <<IF b.sent = NoCookie THEN None ELSE Who(t).name, b.sent>>)

\* The tab that asks for q, with the cookies c of its host.
Asking(b, q, c) ==
    [Anew(b) EXCEPT !.ask = q, !.sent = c, !.lagged = ~InStep,
                    !.spurned = @ \/ ~c.good, !.known = @ \/ ~Anonymous(c)]

\* The tab, once the edge has seen request q of it.
Sent(t, b0, q) ==
    LET e == EntryOf(b0.host)
        b == Asking(b0, q, jar[Box(t, b0.host)])
        verdict == Verdict(e, q, Anonymous(b.sent))
        hits == {page \in cache : q.get /\ page.key = CacheKeyOf(t, b)}
    IN CASE verdict = "moved" -> Redirected([b EXCEPT !.host = e.r], q)
         [] verdict = "fold" ->
              Redirected(b, [Get(Login) EXCEPT !.mail = q.mail,
                                !.frag = IF Carriable(q.ret) THEN q.ret ELSE Nowhere])
         [] verdict = "login" -> Redirected(b, [Get(Login) EXCEPT !.frag = q.uri])
         [] verdict \in {"asset", "section"} ->
              Landed(b, Place(e, verdict, IF verdict = "asset" THEN q.uri ELSE StaticFile(e, q.uri)))
         [] verdict = "origin" /\ hits # {} -> Shown(b, (CHOOSE page \in hits : TRUE).form)
         [] verdict = "origin" /\ hits = {} ->
              [b EXCEPT !.pc = "origin",
                        !.again = Plain(b) /\ rendered[<<b.host, Who(t).lang>>] >= 0
                                  /\ clock < rendered[<<b.host, Who(t).lang>>] + CacheLife]
         [] OTHER -> [b EXCEPT !.pc = verdict]

Becomes(t, b) == tab' = [tab EXCEPT ![t] = b]

Follow(t) ==
    /\ tab[t].pc = "going"
    /\ Becomes(t, Sent(t, tab[t], tab[t].ask))
    /\ UNCHANGED <<visit, clock, shut, passkeys, jar, key, cache, events, rendered>>

-----------------------------------------------------------------------------
(* The origin: the auth Lambda, and the authorizer before the site.        *)

Answering(t, uri) ==
    /\ tab[t].pc = "origin" /\ tab[t].ask.uri = uri
    /\ UNCHANGED <<visit, clock, shut, passkeys, key, events>>

\* safeReturnUrl: a path, or an address on the same host.
Safe(host, ret) ==
    IF Relative(ret) THEN ret
    ELSE IF ret # Nowhere /\ ret[1] = host THEN Tail(ret) ELSE Root

\* passkeysAvailable, by a configuration that may be AuthLife old.
Offers(host) ==
    {on /\ host \in PasskeyHosts :
        on \in IF clock < passkeys.since + AuthLife THEN BOOLEAN ELSE {passkeys.on}}

\* Mutant: the cookie outlives the token, by a day as it used to.
SignsInForADay(t, b, c) ==
    /\ jar' = [jar EXCEPT ![Box(t, tab[t].host)] =
                 [c EXCEPT !.id = clock + 24 * IdLife, !.good = TRUE, !.rt = "live"]]
    /\ tab' = [tab EXCEPT ![t] = b]

\* Somebody gets a session: the other tabs that are on their way to the login
\* page will find it there.
SignsIn(t, b, c) ==
    /\ jar' = [jar EXCEPT ![Box(t, tab[t].host)] =
                 [c EXCEPT !.id = clock + IdLife, !.good = TRUE, !.rt = "live"]]
    /\ tab' = [u \in Tabs |->
                 IF u = t THEN b
                 ELSE [tab[u] EXCEPT !.beaten = @ \/ Box(u, tab[u].host) = Box(t, tab[t].host)]]

\* Mutant: a refresh cookie is as good as a session.
BackOnAnyCookie(b) == Unexpired(b.sent) \/ b.sent.rt # "none"

\* handleLogin: somebody with a session has nothing to do here.
Back(b) == Unexpired(b.sent)

LoginBack(t) ==
    /\ Answering(t, Login) /\ Back(tab[t])
    /\ Becomes(t, Redirected(tab[t], Get(Safe(tab[t].host, tab[t].ask.ret))))
    /\ UNCHANGED <<jar, cache, rendered>>

\* Mutant: a redirect to the root, whatever the fragment.
ResumeAtRoot(b) == IF b.ask.ret # Nowhere THEN Safe(b.host, b.ask.ret) ELSE Root

\* Where the renewal returns to: return_url, else the fragment (resumePage).
ResumeAt(b) ==
    IF b.ask.ret # Nowhere THEN Safe(b.host, b.ask.ret)
    ELSE IF Carriable(b.ask.frag) THEN b.ask.frag ELSE Root

Renew(t) ==
    /\ Answering(t, Login) /\ ~Back(tab[t]) /\ tab[t].sent.rt = "live"
    /\ SignsIn(t, Redirected(tab[t], Get(ResumeAt(tab[t]))), jar[Box(t, tab[t].host)])
    /\ UNCHANGED <<cache, rendered>>

\* The login page, and whether the CDN may keep it.
Render(t, b, kept) ==
    \E button \in Offers(b.host) :
      LET form == Form(Who(t).lang, button,
                       IF b.ask.mail # None THEN b.ask.mail
                       ELSE IF b.sent.mail THEN Who(t).name ELSE None)
      IN /\ Becomes(t, Shown(b, form))
         /\ cache' = cache \cup IF kept THEN {[key |-> CacheKeyOf(t, b), form |-> form, until |-> clock + CacheLife]} ELSE {}
         /\ rendered' = IF Plain(b) THEN [rendered EXCEPT ![<<b.host, Who(t).lang>>] = clock] ELSE rendered

\* Mutant: every login page may be kept.
AlwaysKept(c) == TRUE

\* loginPageResponse or uncached.
Kept(c) == c.rt = "none"

\* The renewal fails; only a definitive refusal clears the cookie.
LoginPageRefused(t) ==
    /\ Answering(t, Login) /\ ~Back(tab[t]) /\ tab[t].sent.rt # "none"
    /\ Render(t, [tab[t] EXCEPT !.failed = TRUE], Kept(tab[t].sent))
    /\ \/ UNCHANGED jar
       \/ tab[t].sent.rt = "dead" /\ jar' = [jar EXCEPT ![Box(t, tab[t].host)].rt = "none"]

LoginPage(t) ==
    /\ Answering(t, Login) /\ ~Back(tab[t]) /\ tab[t].sent.rt = "none"
    /\ Render(t, tab[t], Kept(tab[t].sent))
    /\ UNCHANGED jar

\* The error pages after a form: never kept, without a button.
LoginAgain(t) ==
    Becomes(t, Shown([tab[t] EXCEPT !.failed = TRUE], Form(Who(t).lang, FALSE, Who(t).name)))

\* handleSendOtp: every address gets the same page; or Cognito failed.
AnswerSend(t) ==
    /\ Answering(t, SendOtp)
    /\ Becomes(t, At(tab[t], "code", tab[t].ask.ret)) \/ LoginAgain(t)
    /\ UNCHANGED <<jar, cache, rendered>>

\* handleVerify.
WrongCode(t) ==
    /\ Answering(t, Verify)
    /\ Becomes(t, At(tab[t], "code", tab[t].ask.ret)) \/ LoginAgain(t)
    /\ UNCHANGED <<jar, cache, rendered>>

RightCode(t) ==
    /\ Answering(t, Verify)
    /\ \E on \in Offers(tab[t].host) :
         LET b == tab[t]
             to == Safe(b.host, b.ask.ret)
             offer == on /\ ~b.sent.pk
         IN SignsIn(t, Redirected(b, IF offer THEN Ask(TRUE, Register, to) ELSE Get(to)),
                    [jar[Box(t, b.host)] EXCEPT !.mail = TRUE,
                       !.at = IF offer THEN clock + AccessLife ELSE @])
    /\ UNCHANGED <<cache, rendered>>

\* handlePasskeyRegisterPage.
AnswerRegister(t) ==
    /\ Answering(t, Register)
    /\ \E on \in Offers(tab[t].host) :
         LET to == Safe(tab[t].host, tab[t].ask.ret) IN
         Becomes(t, IF on /\ tab[t].sent.at # 0
                    THEN At(tab[t], "offer", to)
                    ELSE Redirected(tab[t], Get(to)))
    /\ UNCHANGED <<jar, cache, rendered>>

\* handleLogout: revokes the token it is sent, so that a renewal of another tab may
\* come too late, or fails to.
AnswerLogout(t) ==
    /\ Answering(t, Logout)
    /\ jar' = [jar EXCEPT ![Box(t, tab[t].host)] = [@ EXCEPT !.id = 0, !.good = TRUE, !.rt = "none"]]
    /\ \E revoked \in {FALSE, tab[t].sent.rt # "none"} :
         tab' = [u \in Tabs |->
                   IF u = t THEN Redirected(tab[t], Get(Login))
                   ELSE IF Box(u, tab[u].host) = Box(t, tab[t].host)
                   THEN [tab[u] EXCEPT !.hops = 0, !.sent = IF revoked THEN Dead(@) ELSE @]
                   ELSE tab[u]]
    /\ UNCHANGED <<cache, rendered>>

\* Mutant: the root page stands for the site.
GatedAsSite(e, uri) ==
    LET u == AtOrigin(uri) IN
    shut.row /\ ~Under(u, Static) /\ ~\E pf \in e.pub : pf # Root /\ Under(u, pf)

\* gatedPath, of the path as the gateway decoded it.
GatedAtOrigin(e, uri) ==
    LET u == AtOrigin(uri) IN shut.row /\ ~Under(u, Static) /\ ~Public(u, e.pub)

\* The authorizer, then the application's own code, which may close pages too.
AnswerPage(t) ==
    LET b == tab[t]
        e == EntryOf(b.host)
        own == Situation.own # None /\ ~Honoured(b.sent)
    IN /\ ~Under(b.ask.uri, AuthTree)
       /\ Answering(t, b.ask.uri)
       /\ \/ GatedAtOrigin(e, b.ask.uri) /\ ~Honoured(b.sent) /\ Becomes(t, [b EXCEPT !.pc = "refused"])
          \/ /\ ~GatedAtOrigin(e, b.ask.uri) \/ Honoured(b.sent)
             /\ own
             /\ Becomes(t, Redirected(b, Ask(TRUE, Login,
                           (IF Situation.own = "address" THEN <<b.host>> ELSE <<>>) \o b.ask.uri)))
          \/ /\ ~GatedAtOrigin(e, b.ask.uri) \/ Honoured(b.sent)
             /\ ~own
             /\ Becomes(t, Landed(b, Place(e, "origin", b.ask.uri)))
       /\ UNCHANGED <<jar, cache, rendered>>

-----------------------------------------------------------------------------
(* The person, and the scripts of the pages.                               *)

Acts(t, from) ==
    /\ tab[t].pc \in from
    /\ UNCHANGED <<visit, clock, shut, passkeys, cache, rendered>>

Still(t) == [tab[t] EXCEPT !.hops = 0, !.spurned = FALSE]

Spend(what) == what \in Situation.may /\ events > 0 /\ events' = events - 1

\* A tab asks for a page of the host it is for.
Visit(t) ==
    /\ Acts(t, {"away", "page", "refused"})
    /\ events > 0 /\ events' = events - 1
    /\ \E uri \in Situation.wants[t] :
         Becomes(t, Sent(t, [NewTab(Who(t).host) EXCEPT !.wanted = uri], Get(uri)))
    /\ UNCHANGED <<jar, key>>

LogOut(t) ==
    /\ Acts(t, {"page"}) /\ Spend("logout")
    /\ Becomes(t, Sent(t, [Still(t) EXCEPT !.wanted = Root], Get(Logout)))
    /\ UNCHANGED <<jar, key>>

AskForCode(t) ==
    /\ Acts(t, {"login"})
    /\ Becomes(t, Sent(t, Still(t), Ask(FALSE, SendOtp, tab[t].field)))
    /\ UNCHANGED <<jar, key, events>>

EnterCode(t) ==
    /\ Acts(t, {"code"})
    /\ Becomes(t, Sent(t, Still(t), Ask(FALSE, Verify, tab[t].field)))
    /\ UNCHANGED <<jar, key, events>>

\* "Use another address": the query carries the page and the address.
BackToEmail(t) ==
    /\ Acts(t, {"code"})
    /\ Becomes(t, Sent(t, Still(t), [Ask(TRUE, Login, tab[t].field) EXCEPT !.mail = Who(t).name]))
    /\ UNCHANGED <<jar, key, events>>

\* passkey/start: only a confirmed user with a passkey is challenged; else, and
\* at any failure, the script asks for a code.
StartPasskey(t) ==
    /\ Acts(t, {"login"}) /\ tab[t].form.key
    /\ \/ /\ TRUE \in Offers(tab[t].host) /\ key[Who(t).name] = "usable"
          /\ Becomes(t, At(Still(t), "assert", tab[t].field))
       \/ Becomes(t, Sent(t, Still(t), Ask(FALSE, SendOtp, tab[t].field)))
    /\ UNCHANGED <<jar, key, events>>

FinishPasskey(t) ==
    /\ Acts(t, {"assert"})
    /\ \/ /\ TRUE \in Offers(tab[t].host)
          /\ SignsIn(t, Redirected(tab[t], Get(Safe(tab[t].host, tab[t].field))),
                     [jar[Box(t, tab[t].host)] EXCEPT !.mail = TRUE, !.pk = TRUE])
       \/ /\ Becomes(t, Sent(t, Still(t), Ask(FALSE, SendOtp, tab[t].field)))
          /\ UNCHANGED jar
    /\ UNCHANGED <<key, events>>

\* register/start, by the access token of the moment; any failure leaves the page
\* with "later" alone.
StartRegister(t) ==
    /\ Acts(t, {"offer"})
    /\ \/ jar[Box(t, tab[t].host)].at # 0 /\ Becomes(t, At(Still(t), "create", tab[t].field))
       \/ Becomes(t, At(Still(t), "later", tab[t].field))
    /\ UNCHANGED <<jar, key, events>>

\* register/finish: the passkey is registered, then its owner confirmed, or not.
FinishRegister(t) ==
    /\ Acts(t, {"create"})
    /\ \/ /\ jar[Box(t, tab[t].host)].at # 0
          /\ jar' = [jar EXCEPT ![Box(t, tab[t].host)] = [@ EXCEPT !.at = 0, !.pk = TRUE]]
          /\ \E k \in {"usable", "unconfirmed"} : key' = [key EXCEPT ![Who(t).name] = k]
          /\ Becomes(t, Redirected(tab[t], Get(tab[t].field)))
       \/ Becomes(t, At(tab[t], "later", tab[t].field)) /\ UNCHANGED <<jar, key>>
    /\ UNCHANGED events

Later(t) ==
    /\ Acts(t, {"offer", "later"})
    /\ Becomes(t, Sent(t, Still(t), Get(tab[t].field)))
    /\ UNCHANGED <<jar, key, events>>

-----------------------------------------------------------------------------
(* The rest of the world.                                                  *)

\* Cognito revokes a person's refresh tokens, wherever they are.
Revoke(p) ==
    /\ Spend("revoke")
    /\ jar' = [b \in DOMAIN jar |-> IF b[1] = p THEN Dead(jar[b]) ELSE jar[b]]
    /\ tab' = [t \in Tabs |-> IF Who(t).name = p THEN [tab[t] EXCEPT !.sent = Dead(@)] ELSE tab[t]]
    /\ UNCHANGED <<visit, clock, shut, passkeys, key, cache, rendered>>

\* The connector opens or closes the application: its row and the hosts' values
\* are two writes.
CloseOrOpen(where) ==
    /\ Spend("close")
    /\ shut' = [shut EXCEPT ![where] = ~@]
    /\ tab' = [t \in Tabs |-> [tab[t] EXCEPT !.lagged = @ \/ ~InStep']]
    /\ UNCHANGED <<visit, clock, passkeys, jar, key, cache, rendered>>

TogglePasskeys ==
    /\ Spend("passkeys")
    /\ passkeys' = [on |-> ~passkeys.on, since |-> clock]
    /\ UNCHANGED <<visit, clock, shut, jar, key, cache, tab, rendered>>

\* Time passes: browsers drop cookies at their end, the CDN its pages.
Tick ==
    LET Kept0(c) == [c EXCEPT !.at = IF @ > clock' THEN @ ELSE 0,
                              !.id = IF @ > clock' THEN @ ELSE 0,
                              !.good = @ \/ c.id <= clock']
    IN /\ clock < Situation.lasts /\ clock' = clock + 1
       /\ jar' = [b \in DOMAIN jar |-> Kept0(jar[b])]
       /\ cache' = {page \in cache : clock' < page.until}
       /\ tab' = [t \in Tabs |-> [tab[t] EXCEPT !.hops = 0]]
       /\ UNCHANGED <<visit, shut, passkeys, key, events, rendered>>

Next ==
    \/ \E t \in Tabs :
         \/ Follow(t) \/ LoginBack(t) \/ Renew(t) \/ LoginPage(t) \/ LoginPageRefused(t)
         \/ AnswerSend(t) \/ WrongCode(t) \/ RightCode(t) \/ AnswerRegister(t)
         \/ AnswerLogout(t) \/ AnswerPage(t)
         \/ Visit(t) \/ LogOut(t) \/ AskForCode(t) \/ EnterCode(t) \/ BackToEmail(t)
         \/ StartPasskey(t) \/ FinishPasskey(t) \/ StartRegister(t) \/ FinishRegister(t) \/ Later(t)
    \/ \E p \in People : Revoke(p)
    \/ \E where \in {"edge", "row"} : CloseOrOpen(where)
    \/ TogglePasskeys \/ Tick

Spec == Init /\ [][Next]_vars

-----------------------------------------------------------------------------
(* Correctness.                                                            *)

Request ==
    [get: BOOLEAN, uri: Seq(Tokens), ret: Seq(Tokens), mail: {None} \cup People, frag: Seq(Tokens)]

Forms == [lang: {None} \cup Languages, key: BOOLEAN, mail: {None} \cup People]

Places ==
    {Nowhere} \cup [from: {"asset", "section", "origin"}, region: Regions, staging: BOOLEAN, file: Seq(Tokens)]

Stages ==
    {"away", "going", "origin", "login", "code", "assert", "create", "offer", "later", "page",
     "unrouted", "stopped", "stranded", "notFound", "unauthorized", "refused", "gaveUp"}

Tab ==
    [pc: Stages, host: Hosts, ask: Request, sent: Jar, field: Seq(Tokens), form: Forms, place: Places,
     wanted: Seq(Tokens), hops: 0..MaxRedirects + 1, again: BOOLEAN, beaten: BOOLEAN,
     failed: BOOLEAN, lagged: BOOLEAN, spurned: BOOLEAN, known: BOOLEAN, forced: BOOLEAN, shownAt: Nat]

\* Every tab, jar and page has its type, and no redirect leaves the hosts.
TypeOK ==
    /\ visit \in DOMAIN Visits /\ clock \in Nat
    /\ shut \in [edge: BOOLEAN, row: BOOLEAN] /\ passkeys \in [on: BOOLEAN, since: Int]
    /\ jar \in [People \X Hosts -> Jar] /\ \A b \in People \X Hosts : jar[b].id <= clock + IdLife
    /\ \A page \in cache : page.until \in clock + 1 .. clock + CacheLife
    /\ rendered \in [Hosts \X {Who(t).lang : t \in Tabs} -> {-1} \cup 0..clock]
    /\ tab \in [Tabs -> Tab]

\* handleLogin, policies.ts: the login page that somebody is shown, from the CDN
\* or not, is in their language, offers a passkey only on the host that takes
\* one, and not once that is CacheLife + AuthLife over, and knows no address but
\* their own.
OwnPage(s, keys, t, b) ==
    b.pc = "login" =>
        /\ b.form.lang = s.who[t].lang
        /\ b.form.mail \in {None, s.who[t].name}
        /\ b.form.key => /\ b.host \in PasskeyHosts
                         /\ keys.on \/ b.shownAt < keys.since + CacheLife + AuthLife

LoginPageIsTheViewers == \A t \in Tabs : OwnPage(Situation, passkeys, t, tab[t])

\* LOGIN_PAGE_CACHE_CONTROL: for visitors without cookies, whatever pages they
\* come for, nobody asks the origin for the login page of a host within CacheLife
\* of its last rendering in their language (two who ask before the first of the
\* two is rendered may both cost one).
OneRenderAMinute == \A t \in Tabs : ~tab[t].again

\* The login page is cached for everybody, and is everybody's own.
CachedLoginPage == LoginPageIsTheViewers /\ OneRenderAMinute

\* resumePage, safeReturnUrl, RETURN_FRAGMENT_SCRIPT: whatever way a person signed
\* in, by a code, a passkey, a renewal, with the offer in between, and whether the
\* platform closed the page or the application did, they end on the page they
\* asked for, unless another tab of theirs signed in on the way.  Two kinds of page
\* may be lost, to the root and to nowhere else: one that the application gave by
\* its address instead of its path, and one that is not Carriable, mostly a long
\* one: safeReturnUrl and the login page's script take both, so that a code given
\* at a page the platform closed leads back, but the edge drops them from a query
\* and the resume page from a fragment.
BackWhereTheyWere ==
    \A t \in Tabs : tab[t].pc = "page" /\ ~tab[t].beaten =>
        \/ tab[t].ask.uri = tab[t].wanted
        \/ /\ tab[t].ask.uri = Root
           /\ Situation.own = "address" \/ ~Carriable(tab[t].wanted)

\* Nobody is sent in circles between the page and the login page, unless they
\* hold a token that is not expired and that the application does not accept.
NoCarousel ==
    \A t \in Tabs : tab[t].pc = "gaveUp" => tab[t].spurned

\* gatedPath and the edge's branch agree on every path: the authorizer refuses
\* nobody without a session cookie, unless the two were out of step; and nobody
\* with one, unless it is not good, or ended on the way.
Justified(now, b) ==
    b.pc = "refused" => IF Anonymous(b.sent) THEN b.lagged ELSE ~b.sent.good \/ b.sent.id < now

RefusedWithReason == \A t \in Tabs : Justified(clock, tab[t])

\* renewSession: nobody whose refresh token is good is shown a login page but
\* because their own renewal failed.
LoginOnlyIfItMust ==
    \A t \in Tabs : ~tab[t].forced

\* A login page or a refusal has a cause the visitor can answer.
TurnedAwayWithReason == RefusedWithReason /\ LoginOnlyIfItMust

\* The path that the application would see is neither a dot-name nor a script.
Decent(uri) ==
    LET path == AtOrigin(AtOrigin(uri)) IN
    /\ Last(path) \notin Scripts
    /\ (Len(path) > 1 /\ path[2] = ".") => path[3] = "well-known"

\* What no site serves never costs the origin an answer, however a visitor without
\* a session spells it: what the gateway and the application would decode is a
\* dot-name or a script for the edge already.
ScannersMeetA404 ==
    \A t \in Tabs : tab[t].pc \in {"origin", "login"} /\ ~tab[t].known => Decent(tab[t].wanted)

\* router-region.ts, router-function.ts: what is shown is the code of the host, from
\* the region its organization lives in, of the longest section it is in, and
\* never of a site that is stopped or moved away.
InItsPlace(s, b) ==
    LET e == s.entry[b.host] IN
    b.pc = "page" =>
        /\ e.x = 0 /\ e.r = None
        /\ b.place.staging = e.stg
        /\ IF e.g = None THEN b.place.region = Home ELSE Origins # {} => b.place.region = e.g
        /\ b.place.from = "section" =>
             \A pf \in e.p : pf # Root /\ Under(b.ask.uri, pf) => IsPrefix(pf, b.place.file)

ServedFromItsPlace == \A t \in Tabs : InItsPlace(Situation, tab[t])

\* Every path of a host goes where the deployment says, or nowhere.
RoutedByTheEdge == ServedFromItsPlace /\ ScannersMeetA404
-----------------------------------------------------------------------------
(* What makes the properties above inductive, for a tab b in a situation s. *)

\* A page of the CDN shows what it is kept under, and to nobody who could renew.
PageSound(keys, page) ==
    LET under == page.key
        form == page.form
    IN /\ form \in Forms
       /\ under[3] = Login /\ form.lang = under[2]
       /\ form.mail = IF under[5] # None THEN under[5] ELSE IF under[6][2].mail THEN under[6][1] ELSE None
       /\ form.key => /\ under[1] \in PasskeyHosts
                      /\ keys.on \/ page.until <= keys.since + CacheLife + AuthLife
       /\ under[6][2].rt = "none"

\* The CDN has what was rendered for nobody in particular within the minute.
RendersKept ==
    \A b \in DOMAIN rendered : rendered[b] >= 0 /\ clock < rendered[b] + CacheLife =>
        \E page \in cache :
            /\ page.key = CacheKey(b[1], b[2], Get(Login), <<None, NoCookie>>)
            /\ rendered[b] + CacheLife <= page.until

\* The page w is in mind, and return_url leads there from the host.
Right(s, w, uri) == uri = w \/ (uri = Root /\ (s.own = "address" \/ ~Carriable(w)))
Returns(s, host, w, ret) ==
    /\ Right(s, w, Safe(host, ret))
    /\ ret = Nowhere \/ Relative(ret) \/ s.own = "address"

\* So does a request q of the sign-in; a fragment is on its way only for somebody
\* without a session.
Leads(s, host, w, anon, q) ==
    LET to == IF q.ret # Nowhere THEN q.ret ELSE q.frag IN
    IF Under(q.uri, AuthTree)
    THEN /\ Returns(s, host, w, to)
         /\ q.frag # Nowhere => q.uri = Login /\ Relative(q.frag) /\ anon
         /\ q.uri = Logout => to = Nowhere
    ELSE Right(s, w, q.uri)

\* What tab b may send.
Sendable(s, anon, t, b, q) ==
    /\ q.get \/ q.uri \in {SendOtp, Verify}
    /\ q.mail \in {None, s.who[t].name}
    /\ b.hops <= MaxRedirects
    /\ ~b.beaten => Leads(s, b.host, b.wanted, anon, q)
    /\ Under(q.uri, AuthTree) => s.entry[b.host].r = None
    /\ ~b.known => Decent(b.wanted) \/ q.uri = b.wanted

\* Who is past the edge is where the host's value lets them be, has no dot-name or
\* script in mind, and comes back from there.
Inside(s, b) ==
    /\ s.entry[b.host].r = None
    /\ ~b.known => Decent(b.wanted)
    /\ ~b.beaten =>
         /\ b.pc \in {"login", "code", "assert"} => Returns(s, b.host, b.wanted, b.field)
         /\ b.pc \in {"offer", "create", "later"} => Relative(b.field) /\ Right(s, b.wanted, b.field)
         /\ b.pc = "page" => Right(s, b.wanted, b.ask.uri)

\* What the edge let through to the origin: the plain login page is for no page,
\* and of a closed site only what is public without a cookie.
LetThrough(s, closing, b) ==
    LET e == s.entry[b.host] IN
    /\ e.x = 0
    /\ b.ask.uri = Login /\ Anonymous(b.sent) => b.ask.ret = Nowhere
    /\ ~b.lagged =>
         /\ closing.edge = closing.row
         /\ closing.row /\ Anonymous(b.sent) => Platform(b.ask.uri) \/ Public(b.ask.uri, e.pub)

\* anon: the tab's next request, or the one at the origin, is without a session.
TabSound(s, now, closing, keys, anon, t, b) ==
    /\ Asked(b.wanted) /\ b.shownAt <= now
    /\ b.pc # "gaveUp" => b.hops <= MaxRedirects
    /\ b.pc \in {"going", "origin"} => Sendable(s, anon, t, b, b.ask)
    /\ b.pc \in {"origin", "login", "code", "assert", "offer", "create", "later", "page"} => Inside(s, b)
    /\ b.pc = "origin" => LetThrough(s, closing, b)
    /\ OwnPage(s, keys, t, b) /\ Justified(now, b) /\ InItsPlace(s, b) /\ ~b.again /\ ~b.forced

Sessionless(s, jars, t, b) ==
    Anonymous(IF b.pc = "going" THEN jars[<<s.who[t].name, b.host>>] ELSE b.sent)

SiteInvariant ==
    /\ TypeOK /\ passkeys.since <= clock
    /\ \A page \in cache : PageSound(passkeys, page)
    /\ RendersKept
    /\ \A t \in Tabs :
         TabSound(Situation, clock, shut, passkeys, Sessionless(Situation, jar, t, tab[t]), t, tab[t])

\* Request q to the host ends on a page of the site, whoever signed in meanwhile.
Homeward(host, q) ==
    IF Under(q.uri, AuthTree) THEN Asked(Safe(host, q.ret)) /\ Asked(Safe(host, q.frag)) ELSE Asked(q.uri)

\* The redirects that may still come for a page and for a request of the sign-in
\* but the login page, with the cookies c of the moment.
ForPage(c) == IF Anonymous(c) THEN 3 ELSE 0
ForForm(c, uri) == IF uri = Register THEN 1 + ForPage(c) ELSE 2

\* For request q to the host, and for that of tab b at the origin.
Coming(s, c, host, q) ==
    IF s.entry[host].r # None THEN 4
    ELSE IF ~Under(q.uri, AuthTree) THEN ForPage(c)
    ELSE IF q.uri = Login THEN IF q.ret # Nowhere THEN 2 ELSE 1
    ELSE ForForm(c, q.uri)

Due(now, c, b) ==
    LET lasts == ~Anonymous(b.sent) /\ now <= b.sent.id IN
    IF ~Under(b.ask.uri, AuthTree) THEN IF lasts THEN 0 ELSE 3
    ELSE IF b.ask.uri = Login THEN IF lasts THEN 1 + ForPage(c) ELSE 1
    ELSE ForForm(c, b.ask.uri)

Ahead(s, now, c, b) ==
    CASE b.pc = "going" -> Coming(s, c, b.host, b.ask)
      [] b.pc = "origin" -> Due(now, c, b)
      [] OTHER -> 0

\* A tab whose token the application accepts is not redirected more than four times.
Bounded(s, now, c, b) ==
    /\ b.pc \in {"going", "origin"} => Homeward(b.host, b.ask)
    /\ b.pc \in {"login", "code", "assert"} => Asked(Safe(b.host, b.field))
    /\ b.pc \in {"offer", "create", "later"} => Asked(b.field)
    /\ b.pc \in {"assert", "create"} => b.hops = 0
    /\ ~b.spurned => /\ b.pc = "origin" => b.sent.good
                     /\ b.pc # "gaveUp"
                     /\ b.hops + Ahead(s, now, c, b) <= 4

CarouselInvariant ==
    /\ \A b \in People \X Hosts : ~Anonymous(jar[b]) => clock < jar[b].id
    /\ \A t \in Tabs : Bounded(Situation, clock, jar[Box(t, tab[t].host)], tab[t])
=============================================================================
