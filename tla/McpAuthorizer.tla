---------------------------- MODULE McpAuthorizer ----------------------------
(***************************************************************************)
(* The authorizer of the MCP routes (lib/authorizer/index.js) and the      *)
(* gateway's cache in front of it (lib/stack/mcp-authorizer.ts).           *)
(*                                                                         *)
(* A container keeps the issuer's keys for an hour.  The gateway keeps an  *)
(* answer for five minutes by Authorization header, on /mcp; on the plugin *)
(* host it keeps nothing and asks even without a header.  In multi-tenant  *)
(* mode a refused token is let through without any organization, with one  *)
(* word for the access log: fresh rings an alarm, stale and probe do not.  *)
(*                                                                         *)
(* The keys are published by dilaya.eu, and the answers used by the        *)
(* connector: both external.                                               *)
(***************************************************************************)
EXTENDS Integers, Sequences, FiniteSets

CONSTANTS
    Containers,   \* execution environments of the function
    Pods,         \* the regional deployments, each with a gateway
    PodOf,        \* the pod of a container
    Keys, NoKey,  \* signing keys
    KeyRings,     \* the documents the issuer may publish, sequences of keys
    Orgs, NoOrg,  \* organizations
    Tokens,       \* what Authorization headers hold
    Claims,       \* what each says
    NoToken,      \* no Authorization header
    Bound,        \* BOUND_ORG_ID: an organization, or NoOrg for multi-tenant
    Accepted,     \* EXPECTED_AUDIENCE; empty when not configured
    KeysTtl,      \* JWKS_CACHE_TTL_MS
    GatewayTtl,   \* resultsCacheTtl
    StaleAfter,   \* STALE_AFTER_SEC
    Limit,        \* the function's timeout
    MaxTroubles,  \* bound: changes and failures of the issuer's document
    MaxClock      \* bound: the last instant of the model

\* The exp claim of a token without one.
Never == -1

\* A token: "Bearer" or not, RS256 or not, the key it names and the key that signed
\* it, its claims (issuer: the configured one; org: legacy; orgs: multi-tenant).
Token ==
    [bearer: BOOLEAN, rs256: BOOLEAN, kid: Keys \cup {NoKey}, signer: Keys \cup {NoKey},
     exp: Int, issuer: BOOLEAN, org: Orgs \cup {NoOrg}, orgs: Seq(Orgs),
     aud: SUBSET {"app", "plugin", "other"}]

ASSUME McpAssumption ==
    /\ PodOf \in [Containers -> Pods]
    /\ Claims \in [Tokens -> Token] /\ NoToken \notin Tokens /\ NoKey \notin Keys
    /\ KeyRings \subseteq Seq(Keys)
    /\ Bound \in Orgs \cup {NoOrg} /\ NoOrg \notin Orgs
    /\ KeysTtl \in Nat \ {0} /\ GatewayTtl \in Nat \ {0} /\ Limit \in Nat \ {0}
    /\ StaleAfter \in Nat /\ MaxTroubles \in Nat /\ MaxClock \in Nat

VARIABLES
    clock,     \* seconds, in units of the instance
    published, \* the issuer's document
    troubles,  \* how often it changed or could not be read
    since,     \* history: when a key entered the document
    until,     \* history: the last instant before now a key was in it
    faultAt,   \* history: the last instant the document could not be read
    jwks,      \* cachedJwks and jwksCachedAt of each container
    cache,     \* the gateway's answers, per pod and header
    inv        \* the invocation each container runs

vars == <<clock, published, troubles, since, until, faultAt, jwks, cache, inv>>

-----------------------------------------------------------------------------

Members(ring) == {ring[i] : i \in DOMAIN ring}

\* Longer than anything is remembered.
Long == KeysTtl + Limit + GatewayTtl

NoKeys == [keys |-> <<>>, at |-> -Long]

Answer == [orgs: SUBSET Orgs, refusal: {"no", "fresh", "stale", "probe"}]

Refused(word) == [orgs |-> {}, refusal |-> word]

NoAnswer == [answer |-> Refused("fresh"), at |-> -GatewayTtl]

Invocation ==
    [pc: {"idle", "keys", "verify", "reply"}, token: Tokens \cup {NoToken},
     route: {"mcp", "plugin"}, entered: Nat, answer: Answer]

Idle == [pc |-> "idle", token |-> NoToken, route |-> "mcp", entered |-> 0,
         answer |-> Refused("fresh")]

\* authorizeClaims: the issuer, then the one organization of a legacy
\* deployment, or some organization and an accepted audience.
ClaimsHold(t) ==
    /\ Claims[t].issuer
    /\ \/ Bound # NoOrg /\ Claims[t].org = Bound
       \/ /\ Bound = NoOrg /\ Claims[t].orgs # <<>>
          /\ Accepted = {} \/ Claims[t].aud \cap Accepted # {}

Identity(t) == IF Bound # NoOrg THEN {Bound} ELSE Members(Claims[t].orgs)

\* Mutant: the signature is not looked at.
NamesKeyUnsigned(ring, t) ==
    IF Claims[t].kid = NoKey THEN ring # <<>> ELSE Claims[t].kid \in Members(ring)

\* The key the token names, or the first of the document when it names none.
NamesKey(ring, t) ==
    IF Claims[t].kid = NoKey THEN ring # <<>> /\ Claims[t].signer = ring[1]
                     ELSE Claims[t].kid \in Members(ring) /\ Claims[t].signer = Claims[t].kid

Expired(t) == Claims[t].exp # Never /\ Claims[t].exp < clock

\* Mutant: exp is not looked at.
VerdictWithoutExp(ring, t) ==
    IF NamesKey(ring, t) /\ ClaimsHold(t)
    THEN [orgs |-> Identity(t), refusal |-> "no"] ELSE Refused("fresh")

\* Mutant: an expired token is told from any other refusal by nothing.
VerdictAlwaysFresh(ring, t) ==
    IF NamesKey(ring, t) /\ ~Expired(t) /\ ClaimsHold(t)
    THEN [orgs |-> Identity(t), refusal |-> "no"] ELSE Refused("fresh")

\* Signature, then exp, then the claims.
Verdict(ring, t) ==
    CASE ~NamesKey(ring, t) -> Refused("fresh")
      [] NamesKey(ring, t) /\ Expired(t) ->
            Refused(IF clock - Claims[t].exp >= StaleAfter THEN "stale" ELSE "fresh")
      [] OTHER -> IF ClaimsHold(t) THEN [orgs |-> Identity(t), refusal |-> "no"]
                                   ELSE Refused("fresh")

Cached(p, t) == clock < cache[p][t].at + GatewayTtl

Init ==
    /\ clock = 0 /\ troubles = 0
    /\ published \in KeyRings
    /\ since = [k \in Keys |-> -Long] /\ until = [k \in Keys |-> -Long]
    /\ faultAt = -Long
    /\ jwks = [c \in Containers |-> NoKeys]
    /\ cache = [p \in Pods |-> [t \in Tokens |-> NoAnswer]]
    /\ inv = [c \in Containers |-> Idle]

Goes(c, i) == inv' = [inv EXCEPT ![c] = i]

At(c, pc) == inv[c].pc = pc /\ clock < inv[c].entered + Limit

\* Mutant: the keys are kept for the container's life.
FreshKeysForEver(c) == jwks[c].keys # <<>>

FreshKeys(c) == clock - jwks[c].at < KeysTtl

-----------------------------------------------------------------------------

Bears(t) == t # NoToken /\ Claims[t].bearer

\* The gateway asks the function, unless it has the answer; without a header
\* the /mcp route is refused by the gateway itself.  The function refuses at
\* once what is no bearer token, or none it can read.
Invoke(c, t, route) ==
    /\ inv[c].pc = "idle"
    /\ route = "mcp" => t # NoToken /\ ~Cached(PodOf[c], t)
    /\ LET i == [Idle EXCEPT !.token = t, !.route = route, !.entered = clock] IN
       \/ ~Bears(t) /\ Goes(c, [i EXCEPT !.pc = "reply", !.answer = Refused("probe")])
       \/ Bears(t) /\ ~Claims[t].rs256 /\ Goes(c, [i EXCEPT !.pc = "reply"])
       \/ /\ Bears(t) /\ Claims[t].rs256
          /\ Goes(c, [i EXCEPT !.pc = IF FreshKeys(c) THEN "verify" ELSE "keys"])
    /\ UNCHANGED <<clock, published, troubles, since, until, faultAt, jwks, cache>>

Trouble == troubles < MaxTroubles /\ troubles' = troubles + 1

Fails == Trouble /\ faultAt' = clock

\* The document, remembered from the moment it was asked for.  Anything that
\* parses as JSON is taken for one, an error page of the issuer too; what does
\* not, or a failing connection, is a refusal.
FetchKeys(c) ==
    /\ At(c, "keys")
    /\ \/ /\ jwks' = [jwks EXCEPT ![c] = [keys |-> published, at |-> inv[c].entered]]
          /\ Goes(c, [inv[c] EXCEPT !.pc = "verify"])
          /\ UNCHANGED <<troubles, faultAt>>
       \/ /\ jwks' = [jwks EXCEPT ![c] = [keys |-> <<>>, at |-> inv[c].entered]]
          /\ Goes(c, [inv[c] EXCEPT !.pc = "verify"])
          /\ Fails
       \/ /\ Goes(c, [inv[c] EXCEPT !.pc = "reply", !.answer = Refused("fresh")])
          /\ Fails /\ UNCHANGED jwks
    /\ UNCHANGED <<clock, published, since, until, cache>>

Verify(c) ==
    /\ At(c, "verify")
    /\ Goes(c, [inv[c] EXCEPT !.pc = "reply", !.answer = Verdict(jwks[c].keys, inv[c].token)])
    /\ UNCHANGED <<clock, published, troubles, since, until, faultAt, jwks, cache>>

\* The gateway has the answer; it keeps it if it asked by header.
Reply(c) ==
    /\ At(c, "reply")
    /\ cache' = IF inv[c].route = "mcp"
                THEN [cache EXCEPT ![PodOf[c]][inv[c].token] =
                        [answer |-> inv[c].answer, at |-> clock]]
                ELSE cache
    /\ Goes(c, Idle)
    /\ UNCHANGED <<clock, published, troubles, since, until, faultAt, jwks>>

\* Killed at the timeout, or let go: the next container starts without keys.
Ends(c) ==
    /\ inv[c].pc = "idle" \/ clock >= inv[c].entered + Limit
    /\ jwks' = [jwks EXCEPT ![c] = NoKeys]
    /\ Goes(c, Idle)
    /\ UNCHANGED <<clock, published, troubles, since, until, faultAt, cache>>

\* The issuer publishes another document.
Rotate ==
    /\ Trouble
    /\ \E ring \in KeyRings \ {published} :
        /\ published' = ring
        /\ since' = [k \in Keys |-> IF k \in Members(ring) \ Members(published)
                                    THEN clock ELSE since[k]]
        /\ until' = [k \in Keys |-> IF k \in Members(published) THEN clock ELSE until[k]]
    /\ UNCHANGED <<clock, faultAt, jwks, cache, inv>>

\* Time passes; the gateway drops what is out of date.
Tick ==
    /\ clock < MaxClock
    /\ \A c \in Containers : inv[c].pc # "idle" => clock < inv[c].entered + Limit
    /\ clock' = clock + 1
    /\ cache' = [p \in Pods |-> [t \in Tokens |->
                    IF clock' < cache[p][t].at + GatewayTtl THEN cache[p][t] ELSE NoAnswer]]
    /\ UNCHANGED <<published, troubles, since, until, faultAt, jwks, inv>>

Next ==
    \/ \E c \in Containers :
        \/ \E t \in Tokens \cup {NoToken}, route \in {"mcp", "plugin"} : Invoke(c, t, route)
        \/ FetchKeys(c) \/ Verify(c) \/ Reply(c) \/ Ends(c)
    \/ Rotate \/ Tick

Spec == Init /\ [][Next]_vars

-----------------------------------------------------------------------------
(* Properties.                                                             *)

\* An invocation is over by its timeout; nothing is stamped in the future.
TypeOK ==
    /\ clock \in 0..MaxClock /\ troubles \in 0..MaxTroubles
    /\ published \in KeyRings
    /\ since \in [Keys -> Int] /\ until \in [Keys -> Int] /\ faultAt \in Int
    /\ faultAt <= clock
    /\ \A k \in Keys : since[k] <= clock /\ until[k] <= clock
    /\ jwks \in [Containers -> [keys: Seq(Keys), at: Int]]
    /\ cache \in [Pods -> [Tokens -> [answer: Answer, at: Int]]]
    /\ inv \in [Containers -> Invocation]
    /\ \A c \in Containers :
        /\ jwks[c].at <= clock
        /\ inv[c].pc # "idle" =>
            inv[c].entered <= clock /\ clock <= inv[c].entered + Limit
        /\ inv[c].pc \in {"keys", "verify"} => inv[c].token \in Tokens

\* What a request with token t may be answered at this instant: from a
\* gateway's cache, or by an invocation that is about to return.
Given(t) ==
    {cache[p][t].answer : p \in {q \in Pods : Cached(q, t)}}
    \cup {inv[c].answer : c \in {d \in Containers : inv[d].pc = "reply" /\ inv[d].token = t}}

\* The last instant the issuer vouched for a key; now, if it does.
PublishedUntil(k) == IF k \in Members(published) THEN clock ELSE until[k]

\* A token serves no longer than its exp, an invocation and the gateway's five
\* minutes: caching a yes does not make it last.
ExpiredIsCutOff ==
    \A t \in Tokens : \A a \in Given(t) :
        a.orgs # {}
            => Claims[t].exp = Never \/ clock < Claims[t].exp + Limit + GatewayTtl

\* A key the issuer has withdrawn signs nobody in past the hour it may be
\* remembered, an invocation and the five minutes.
WithdrawnKeyIsCutOff ==
    \A t \in Tokens : \A a \in Given(t) :
        a.orgs # {} => /\ Claims[t].signer \in Keys
                       /\ clock < PublishedUntil(Claims[t].signer) + Long

\* Whatever ends a token's authority ends its access, every cache included.
CutOffInTime == ExpiredIsCutOff /\ WithdrawnKeyIsCutOff

\* A token of the issuer's, claims in order, naming a key that has long been
\* published, while the document has long been readable.
Undisputed(t) ==
    /\ Claims[t].bearer /\ Claims[t].rs256 /\ ClaimsHold(t)
    /\ Claims[t].kid # NoKey /\ Claims[t].signer = Claims[t].kid
    /\ Claims[t].signer \in Members(published)
    /\ clock >= since[Claims[t].signer] + Long /\ clock >= faultAt + Long

\* Nobody is refused for what is over: a new key is known, and an unreadable
\* document forgotten, within the same time.
GoodTokenAccepted ==
    \A t \in Tokens : \A a \in Given(t) :
        (Undisputed(t) /\ (Claims[t].exp = Never \/ clock <= Claims[t].exp))
            => a.refusal = "no"

\* The client of a token that died long ago rings no alarm, though its refusal
\* is cached as it was when the token had just died ("only `fresh` rings").
DeadTokenFallsSilent ==
    \A t \in Tokens : \A a \in Given(t) :
        (/\ Undisputed(t) /\ Claims[t].exp # Never
         /\ clock >= Claims[t].exp + StaleAfter + Limit + GatewayTtl)
            => a.refusal = "stale"

-----------------------------------------------------------------------------
(* What makes the properties above inductive.                              *)

\* A yes to t, by an invocation that began at e or later.
YesSince(t, e) ==
    /\ Claims[t].exp = Never \/ e <= Claims[t].exp
    /\ Claims[t].signer \in Keys /\ e < PublishedUntil(Claims[t].signer) + KeysTtl

\* Why t was refused, by an invocation that began at e or later.
FreshSince(t, e) ==
    \/ ~(Claims[t].rs256 /\ ClaimsHold(t) /\ Claims[t].kid # NoKey /\ Claims[t].signer = Claims[t].kid)
    \/ Claims[t].signer \notin Members(published)
    \/ e < since[Claims[t].signer] + KeysTtl \/ e < faultAt + KeysTtl
    \/ Claims[t].exp # Never /\ Claims[t].exp < clock /\ e < Claims[t].exp + StaleAfter

Explained(t, answer, e) ==
    /\ answer.orgs # {} => answer.refusal = "no"
    /\ answer.refusal = "no" => YesSince(t, e)
    /\ answer.refusal = "fresh" => FreshSince(t, e)
    /\ answer.refusal = "stale" => Expired(t)
    /\ answer.refusal = "probe" => ~Claims[t].bearer

\* What a container remembers was published when it says, and what it misses
\* was not, or could not be read.
Remembered(c) ==
    /\ \A k \in Members(jwks[c].keys) : jwks[c].at <= PublishedUntil(k)
    /\ \A k \in Members(published) \ Members(jwks[c].keys) :
        jwks[c].at <= since[k] \/ jwks[c].at <= faultAt
    /\ inv[c].pc = "verify" => inv[c].entered < jwks[c].at + KeysTtl

KeysInvariant ==
    /\ \A k \in Keys : -Long <= since[k]
    /\ \A c \in Containers : Remembered(c)

\* What is about to be answered, and what a gateway may still answer.
AnswersInvariant ==
    /\ \A c \in Containers :
        inv[c].pc = "reply" /\ inv[c].token # NoToken
            => Explained(inv[c].token, inv[c].answer, inv[c].entered)
    /\ \A p \in Pods, t \in Tokens :
        /\ cache[p][t].at <= clock
        /\ Cached(p, t) => Explained(t, cache[p][t].answer, cache[p][t].at - Limit)

McpInvariant == TypeOK /\ KeysInvariant /\ AnswersInvariant
=============================================================================
