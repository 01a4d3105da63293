# A TLA+ model of the Dilaya connector stack

This directory models the run-time code of `dilaya-aws-mcp-connector-lambda`: the Lambda
functions under `src/lib` that the stack deploys, the CloudFront programs it generates, and
the parts of a deploy whose order matters. The modules are checked with TLC on small
instances; the theorems are checked with TLAPS for every value of the constants.
`PROJECT.json` holds the same material in machine-readable form: components, runs, mutants,
the map from definitions to source lines, hazards, findings and theorems.

## 1. The system

The repository is a CDK stack. Most of its source declares resources and has no behaviour of
its own. What runs is little code in a hot place: every request for a tenant's site passes
through it.

| Component | State | Operations | Talks to |
|---|---|---|---|
| One-time codes (`lib/cognito-triggers`) | an item per pool and address in the OTP table: code, ttl, wrong answers, minting time | create, verify, define auth challenge | Cognito calls them; DynamoDB, the pool |
| Auth Lambda (`lib/auth-lambda`) | cookies of the browser; the send counter; a cache of the application's auth configuration | login, send-otp, verify, refresh, logout, passkey start/finish/register | Cognito, DynamoDB, Postmark, the registry, the Data API |
| Frontend authorizer (`lib/frontend-authorizer/index.js`) | caches of configuration, keys, plan and previous origin secret, per container; the usage, month and rate counters | authorize: origin lock, count, cap, rates, configuration, gate, identity | DynamoDB, Data API, SSM, Cognito's keys |
| Front door (`front-door.js`) | the request under way, its timer | authorize, find the function, invoke it | Lambda |
| Origin secret (`lib/byod-origin-restamp`, `stack/app-content/origin-restamp.ts`) | SSM versions, the authorizer's environment, what each distribution stamps | a deploy's steps, the re-stamp of custom domains, rollback | CloudFormation, CloudFront, SSM, the connector |
| Alarm relay (`lib/alarm-relay`) | the cached bot token | relay a message to Telegram and to the connector | SNS, SSM, Telegram, Lambda |
| Edge router of the application domain (`stack/app-content/router-*.ts`) | a key-value store, the CDN cache | route a viewer request | the front door, S3 |
| Region router, pod trust, PRM (`stack/region-router`, `prm.ts`) | the region map, the router's secret | choose a pod by path, bearer and body | the pods |
| MCP authorizer (`lib/authorizer`) | a cache of keys; the gateway's cache of answers | allow, or refuse with a reason | API Gateway, the issuer's key document |
| Alarms (`stack/alarms`, `stack/region-router/alarms.ts`, `metrics-bridge.ts`) | metrics, alarm states | sort log lines, copy the edge's metrics, ring | CloudWatch, EventBridge, the relay |

What the components share, and where they meet:

* send-otp and verify of the auth Lambda call Cognito, which calls the triggers **in the
  middle of the request**; the OTP item is the only thing the three share, and it is read and
  written in separate calls, by any number of concurrent invocations.
* the auth Lambda sets the session cookies; the authorizer reads them on every request; the
  connector's allowlist (`_user_access`) is read at sign-in and at each renewal only.
* the authorizer's counters live in DynamoDB and are shared by all containers; its caches are
  not shared by anything.
* the authorizer and the front door are one function: the front door calls `authorize`, then
  uses the application row it left in `lastAppRow`.
* the origin secret is in five places (SSM, two environments, two kinds of distributions),
  changed by one deploy in an order that is only partly determined.
* the edge router decides from the key-value store what the authorizer decides from the
  registry; a visitor who is sent to the login page meets both, the auth Lambda and the CDN.
* an MCP request passes the region router, a pod's gateway and authorizer, and may be relayed
  to another pod; the host it was sent to travels in a header guarded by the router's secret.
* CloudWatch alarms on the others reach a person through the alarm relay, invoked
  asynchronously by SNS and retried as a whole.

### What is hard here

* **Read, decide, write** in separate calls on one DynamoDB item (OTP), and reads that are not
  consistent.
* **Answers out of order**: tabs share a cookie jar and each answer acts on cookie *names*.
* **Caches per container** with a minute, five minutes, an hour: a change is seen late, and
  not by all at once; a failure must not be cached, or must be, depending on the cache.
* **Failing open or closed**: the counters must never refuse because they failed, the gate must
  never open because something failed.
* **Partial failure**: a code deleted and its sign-in refused; one of two deliveries failing; a
  loop over distributions that stops in the middle and a deploy that is rolled back.
* **Time**: a code that outlives its Cognito session, a deadline that must precede another, a
  grace that must cover a propagation, the turn of a month or of a window.

### What makes each component correct

| Component | Properties |
|---|---|
| One-time codes and e-mail sign-in | no sign-in later than a code's episode; a used code never returns; wrong answers are never forgotten; the mail allowance holds under races; a resend keeps the mailed code; the right code signs in |
| Sessions | a removed address is out within the life of one ID token; logout is final; only a dead session loses its cookie |
| Gate and front door | closing a page takes effect in bounded time whatever fails; a session is recognised; a deleted application never runs; the deadline answers before the timeout |
| Counters | past the plan means cut, in bounded time; nobody is refused because a counter failed; rates hold under simultaneous requests; every answer is counted; counting never costs an answer |
| Origin secret | a rotation refuses nobody where it can be ordered so; two rotations retire a secret; the re-stamp undoes no edit |
| Alarm relay | no false success; a recovery follows its alarm; both roads are tried; a message ends |
| Edge router, login pages | the gate of the edge and the authorizer's agree on every path; a cached login page depends on nothing of the viewer; whoever signs in is brought back; nobody is sent in circles |
| Region router | path, bearer and body choose the pod where the request belongs, or the home pod, which knows where to send it on; the viewer's host is believed with the secret only |
| MCP authorizer | what ends a token's authority ends its access, every cache included; a good token is refused for no longer than anything is remembered; a dead one stops ringing |
| Alarms | errors at the edge ring, or the bridge says it is blind; each 5xx rings the alarm of whoever is at fault |

## 2. Modules

One module per component; each has its type invariant, its properties and, next to a
definition, the *mutants* of that definition: the same definition with a plausible bug. A
mutant is used by nothing; `PROJECT.json` names, for each property, the mutant that breaks it.
`MC*.tla` modules give the constants of an instance and the symmetry; the `.cfg` files choose
values.

| Module | Code | Status |
|---|---|---|
| `OtpLogin` | the three triggers; send-otp and verify of the auth Lambda | checked, proved (`OtpLoginProofs`) |
| `SessionRenewal` | login, refresh, logout of the auth Lambda; the sign-in as two steps | checked, proved (`SessionRenewalProofs`) |
| `AppGate` | abstract: what a gate promises, whoever implements it | refined by `FrontendAuthorizer` |
| `FrontendAuthorizer` | the configuration cache, the gate, identities; the front door | checked, proved, the refinement too (`FrontendAuthorizerProofs`) |
| `RequestMeter` | usage count, monthly cap, rate guards | checked, proved (`RequestMeterProofs`) |
| `OriginSecret` | the origin lock, a deploy that rotates it, the re-stamp Lambda | checked, proved (`OriginSecretProofs`) |
| `EdgeRouter` | the viewer-request function and the cache key, as operators | used by `SiteVisit`, proved with it |
| `SiteVisit` | edge, CDN, the auth Lambda's pages and the authorizer, seen from two tabs; extends `EdgeRouter` | checked, proved (`SiteVisitProofs`) |
| `RegionRouter` | the region router's two functions and its store | instantiated by `McpPath`, proved with it |
| `McpAuthorizer` | the MCP authorizer and the gateway's cache | checked, proved (`McpPathProofs`) |
| `McpPath` | an MCP request from client to organization; extends `McpAuthorizer`, instantiates `RegionRouter` | checked, proved (`McpPathProofs`) |
| `AlarmWatch` | the metrics bridge, the metric filters, the alarms they feed | checked, proved (`AlarmRelayProofs`) |
| `AlarmRelay` | the relay, its retries | checked with liveness, proved (`AlarmRelayProofs`) |

### OtpLogin

One address in one pool. Every HTTP request is a process; an action is one access to shared
state together with the local code up to the next one. `rec` is the OTP item, `replica` the
item as a reader without `ConsistentRead` may see it (`Replicate` brings it up to date),
`sends` the throttle counters, `token[r]` the Cognito session a page carries, `standing` what
registry and pool know of the address.

* send-otp: `SendOtp` (allowlist, then Cognito or the decoy page), `SendGate` (the throttle,
  an atomic ADD), `CreateGet`/`CreateSave`/`CreatePut` (create-auth-challenge: read, then
  extend under `otp = :otp`, or put a new code), `SendMail` (read back and mail).
* verify: `Verify` (answer, or restart an expired session, which runs create again),
  `VerifyGet`, then `VerifyDiscard` / `VerifyAccept` / `VerifyReject` (the writes of
  verify-auth-challenge), `MarkVerified` (`AdminUpdateUserAttributes`) and
  `DefineAuthChallenge` (tokens only for a correct *first* round; failure after three).
* `VerifyWriteFails` is the catch of verify-auth-challenge: the write failed, or was done and its answer
  lost. The `Faults` branches of the others are their catches; of the two in send-otp's call to
  Cognito, one answers the decoy page and one an error. `TtlSweep` is
  DynamoDB's time-to-live.

Codes are numbered, so two minted codes differ; in the program they collide once in a million.

### SessionRenewal

One person, one browser, several tabs. `jar` is the cookie jar, `tokens` the refresh tokens
Cognito has issued, each with the session (the sign-in) it descends from. A request takes the
cookies of the moment it leaves (`Leaves`); its answer is applied when it arrives (`Deliver`), in
any order, or never (`Lose`). `Renew`, `CheckAllowlist` and `RevokeRemoved` are the three calls of
`renewSession`; `Visit` is the login page, which renews too; `Logout`/`SignOut` revoke and clear.
Signing in is `SignInGate` (the allowlist at the start) and `SignInTokens` up to `CodeLife` later;
passkeys are the same two steps, `passkey/finish` not reading the allowlist again. The refresh
cookie slides at each renewal and outlives its token, so only the token's life is kept.

### FrontendAuthorizer

One application; `inv[c]` is the request container `c` serves, `config` its `authConfigCache`,
`lastAppRow` the module variable of that name. `Arrive` resets it. `Meter` stands for the
origin lock and the counters (they let through or refuse; `OriginSecret` and `RequestMeter`
have them). `ConfigHit`, `Resolve`, `ReadPool` are `readAuthConfig`: the cache, the registry
(an error refuses a site path and passes the rest), the Data API with its retries. `Decide`
orders the identities: person, agent, nobody. Then the front door: `Answers` (refused, or a
legacy route), `ReadRow`, `Invoke`, and `AppAnswers` racing `TooSlow`. `Killed` is Lambda's
timeout. Paths fall into classes: `docs` and `page` can be closed, `docs` can be public,
`static` and `auth` never are gated.

### RequestMeter

One organization. `org`, `count`, `hits` are the counters (month, application and month, rate
bucket); `edge` is what the connector writes from CloudFront's log; `plan` is the registry's
`maxRequestsMonth`; `capCache` is `orgCapCache`. `Arrive` starts the usage count, which ends
whenever it likes (`CountEnds`); `ReadCap` and `StampCap` are `orgRequestCap` (the read, then
the moment the entry is remembered from; not a consistent read, so that a plan changed in the same
instant may be the one that is read), `BumpOrg` is the rest of `checkMonthlyCap`,
`BumpRate` one of the three rate counters, `Throttle` their verdict; what follows in `authorize`
lies between `Throttle` and `Settle`, the `finally` block. An update can go well, be doubled by
the SDK's retry, be refused, or be applied while its answer is lost (`Outcomes`).

### OriginSecret

Secrets are numbered in the order they are chosen. `Rotate` begins a deploy; `UpdateParam`,
`UpdateAuthorizer`, `UpdateShared`, `UpdateConnector` are resource updates, in an order
restricted by `Ready` to what the templates' references impose; `RestampList`, `RestampGet`,
`RestampUpdate` are the calls of the re-stamp Lambda; `RestampFails` begins the rollback.
`LookUp` is `previousSecretInGrace` with its five-minute cache. `CreateDistribution` and
`AddDomain` are the connector's, seen from this repository: external. `dist[d].live` holds the
secrets some edge location still stamps until `Propagate`.

### AlarmRelay

`sent[a]` is the messages of an alarm, each with its invocations. `Invoke` begins an attempt
(and reads the bot token if the container has none); `Telegram` and `WakeAgent` are the two
deliveries, in either order; `Settle` is the decision to throw; `TimesOut` is Lambda's timeout;
`Thrown` counts attempts.

### EdgeRouter and SiteVisit

`EdgeRouter` has no state: a path is a sequence of tokens, `Verdict` lists the early returns of
the viewer-request function as rules in their order and takes the first that applies (`FirstOf`, by
its least index), `CacheKey` is what the CDN caches an answer under. A page to go back to is filtered in
two ways: `Relative` is what the auth Lambda's `safeReturnUrl` asks of it, `Carriable` what the edge and
the resume page ask, which also drop a path of more than 2048 characters or with a backslash; so a token
has a length (`Chars`). A host without a value, and `/static` itself, are not routed. Escapes, dots and the double decoding of dot-names are tokens of their own, since rules
look for them.

`SiteVisit` puts people in front of it. A tab asks for a page and follows redirects (`Follow`);
the edge decides when the request is sent (`Sent`), and what reaches the origin is answered in a
later step from the cookies it carried: the login page (`LoginPage`, `LoginBack`, `Renew`,
`LoginAgain`), the forms (`AnswerSend`, `WrongCode`, `RightCode`, `AnswerRegister`,
`AnswerLogout`), the pages behind the authorizer (`AnswerPage`). A logout revokes its refresh token before a renewal of
another tab that is already on its way, or after. Meanwhile the other tab does the
same, passkeys are switched, sessions revoked, the site opened and closed at the edge and in the
registry at different moments (`shut.edge`, `shut.row`). `Visits` is a list of situations - two
browsers on one host, two tabs of one browser, a site closed by its own code, an address too long to be
carried - chosen in `Init`,
so that they add up instead of multiplying.

### RegionRouter, McpAuthorizer and McpPath

`RegionRouter` has a process per request: `Receive` (path, query, bearer), `ReadAway` and
`ReadOrg` (the reads of the key-value store, one by one), `Edge` (the optional Lambda@Edge, which
looks into the body). `Move` and `Summarize` change the store between two reads, as the connector
does. `McpAuthorizer` has a process per container: `Invoke`, `FetchKeys` (an hour's cache that a
container keeps), `Verify`, `Reply`, which fills the gateway's cache of its pod; `Rotate` changes
the issuer's keys. `McpPath` is both in a row: `Enter`, the router's steps, `Arrive` at a pod (or
`ArriveDirectly` past the router), the answer `FromCache` or by an invocation, and the outcome at
the connector, which relays a request for an organization of another pod if the token names it.
The router's secret is on both sides of that way. `secret` is what the edge stamps, still (`old`) and
already (`new`), and what each pod has. `Arrive` stamps the request as it leaves the edge, with either
of the two; `TrustedHost` compares that stamp when the pod answers, after the authorizer, with the
pod's secret of *that* moment. `StampAnew` is a deploy of the distribution, `Propagated` its arrival
everywhere, `DeployPod` a deploy of one pod; they come in any order, and between stamp and answer.
`unsettled` is history: the edge and the pod did not agree (`Settled`) when the request left the edge,
or the pod was deployed under it.

### AlarmWatch

What rings before the relay is asked. At the edge: errors fall into buckets, `Tick` starts the
bridge once a period, `Copy` reads one closed bucket and stamps it with the minute of the copy,
and may fail, be repeated by Lambda, or be late. At the gateway: `Log` writes the log lines of a
cause (a tenant's error, a third party's, a fault of the platform's), and the filters count them.
`Minute` judges the alarms at the end of a period. A behaviour is about one of the two roads.

### Abstract specifications

`AppGate` is what any gate of an application promises: every request is told once who it comes
from; as a person or an agent only with the session of one; as nobody, for a closed path, only
while the news of the closing is on its way (`Lag`); and it may refuse anyone. It knows no cache,
retry, failure or timeout. `FrontendAuthorizer` implements it with `Lag = ConfigLife + 2 * Limit`
under a refinement mapping that hides the steps between arrival and verdict (`SeenNow`): TLC checks
it as the property `KeepsThePromise` of the run `gate`, and `FrontendAuthorizerProofs` proves it. A path's
specification `PathSpec` implements `McpAuthorizer`'s `Spec` with the identity as its mapping, so
what is proved of the authorizer alone holds on the path (`PathImplementsAuthorizer`). The
other components state their promise over history variables (minting times, mails, closed
sessions, the last instant a key was published).

## 3. Runs

Twelve runs: nine must pass, three must find a violation. Every property of a passing run is
shown to be breakable by a mutant under the run's own bounds.

| Run | Question | Properties |
|---|---|---|
| `otp` | three requests, two at a time, interleaved at every access, any call failing, reads stale | `CodesNotRevived`, `MailsWithinAllowance` |
| `otp_person` | one person at human speed, in minutes | `TypeOK`, `SignInsWithinEpisode`, `FirstAnswerSignsIn`, `MailedCodeNotReplaced` |
| `otp_retry` | **violation**: the right code typed after one mistake | `RightCodeSignsIn` |
| `session` | two tabs, everything failing, answers in any order, with rotation and without | `TypeOK`, `EndedSessionsEnd`, `OnlyDefinitiveClears` |
| `gate` | an application opened, closed, deleted, created again under a container's caches and failures | `TypeOK`, `GateTakesEffect`, `SessionHonoured`, `DoorKept`, `KeepsThePromise` |
| `meter` | two containers, a plan that changes, a month that turns, updates lost and doubled | `TypeOK`, `CutWhereDue`, `RateHolds`, `AnsweredIsCounted` |
| `meter_count` | **violation**: a usage count that DynamoDB refuses early | `CountCostsNoAnswer` |
| `origin_rotation` | two rotations with propagation, failures, rollback and custom domains | `TypeOK`, `OrderedRotationServed`, `OnlyPreviousInGrace`, `DomainsKept` |
| `relay_outage` | birth, alarm and recovery, every delivery failing, hanging or losing its answer; what rings at all | `TypeOK`, `NeitherRoadGivenUp`, `RecoveryAnnounced`, `BreachRings`, `EachFaultRingsItsOwn`, `ReachesBothOrDropped` (liveness) |
| `relay_token` | **violation**: the bot token unreadable | `IndependentDeliveries` |
| `mcp` | MCP requests while organizations move, keys rotate, the router's secret is deployed and caches run out | `PathTypeOK`, `CutOffInTime`, `GoodTokenAccepted`, `DeadTokenFallsSilent`, `OrgsReached`, `HostIsTheViewers` |
| `site` | two tabs on the hosts of one application, edge, cache, pages and authorizer together | `TypeOK`, `CachedLoginPage`, `BackWhereTheyWere`, `NoCarousel`, `TurnedAwayWithReason`, `RoutedByTheEdge` |

A property named for two things is the conjunction of two named parts, each stated with its
reason in the module (`CodesNotRevived` = a used code never returns, and a code in force never
loses a wrong answer; `EndedSessionsEnd` = by removal, by logout; `DoorKept`, `CutWhereDue`,
`CutOffInTime`, `OrgsReached`, `CachedLoginPage`, `TurnedAwayWithReason`, `RoutedByTheEdge`,
`NeitherRoadGivenUp` likewise).

### What the violations show

* `otp_retry` (`RightCodeSignsIn`). `define-auth-challenge` issues tokens only when the session
  has exactly one round, so after a wrong answer the page invites another try, the right code
  is accepted *and deleted*, and nobody is signed in. `create-auth-challenge/index.js:8-13`
  describes that second round as one the kept code is meant to serve.
* `meter_count` (`CountCostsNoAnswer`). The promise of `bumpRequestCount` has no handler until
  the `finally` block. If DynamoDB refuses the update while `authorize` still waits for
  something else, Node.js ends the process for an unhandled rejection and the request gets an
  error; the comment above the `await` says a missing number must never cost a page its answer.
  A unit test with an immediately rejecting mock does not see it: the whole request then runs
  within one turn of the event loop, and the handler is attached in time.
* `relay_token` (`IndependentDeliveries`). The bot token is read before the loop with the two
  deliveries; while it cannot be read every attempt throws before the agent is woken.

### What the models showed without a run

These behaviours are in the models, where a property names them as an exception or nothing asks
for the contrary: either no line of the repository promises it firmly enough to be set against
them, or the other side is the connector's, or the property says where it stops.

Sign-in and sessions:

* Two sends that both find no reusable code mint two codes and mail both; the one stored first
  is dead in the inbox. `MailedCodeNotReplaced` is therefore checked, and proved, for one request at a time.
* Two verify requests that read the item before either deletes it both succeed: the deletion is
  unconditional.
* With rotation of refresh tokens on, the second of two tabs is refused and its answer clears
  the cookie the first one just set (`auth-lambda/index.js:1457-1460` expects that rotation
  needs no change). A logout that carries a token another tab has rotated away closes nothing at
  Cognito, and that tab's answer brings the session back; nor does one whose revocation fails.
  The client is created by the connector, without rotation.
* handleLogin sends back whoever holds an unexpired JWT, whatever pool it is of. On a site that
  closes itself that is a circle until the token expires, and on one the platform closes a
  refusal (the exception `spurned` of `NoCarousel`).
* A visitor between the edge's redirect and the login page, while another tab of theirs signs in,
  lands on the root (`beaten`). So does one whose application asked for the login page with an
  absolute address of its own host: `safeReturnUrl` takes it (`auth-lambda/index.js:998-1013`),
  the edge drops it (`router-login-gate.ts:75-76`), although the comment there says "exactly as
  safeReturnUrl would".
* A page with an address of more than 2048 characters is kept by `safeReturnUrl`, by the forms and by the
  login page's script, so that a code leads back to it when the platform closed the page
  (`auth-lambda/index.js:716-725`, :998-1003); the edge drops it from a query, as
  `test/apphost-router-behavior/login-query-to-fragment.test.ts:68-74` asserts, and the resume page from a
  fragment (:1543), so that the same person, renewed, lands on the root. `BackWhereTheyWere`
  excepts such pages, and asks that they be lost to the root and to nowhere else. Likewise a backslash in
  a path, which browsers do not send.
* Two visitors who ask for the plain login page before the first rendering of it is back may cost one each.
* A registration whose confirmation at Cognito failed still sets the cookie that ends the offer
  for a year.
* The edge judges a path before it is decoded and the authorizer after: an escaped spelling of a
  public path is closed at the edge. `frontend-authorizer/index.js:399-403` has the two agree.

Secrets and rotation:

* When CloudFormation reaches an edge before the authorizer, the new secret is refused until the
  authorizer has it; likewise while a rollback is under way. Nothing in the stack orders the
  two (`OrderedRotationServed` is about the other order).
* A custom domain's distribution created between the re-stamp's listing and the connector's own
  update keeps the old secret until the next rotation.
* The region router's secret has no previous value: between the distribution's update and a pod's, that
  pod takes the plugin host for its own, and so it does for a request that was stamped before the pod was
  deployed and is answered after. `HostIsTheViewers` asks for the viewer's host of a request that left the
  edge while edge and pod agreed, whatever the distribution is given meanwhile, if its pod was not
  deployed under it; and of a request that came by the pod's own host, always, that it is not believed.

MCP:

* `fetchJson` (`authorizer/index.js:8-25`) does not look at the status: an error page in JSON is
  kept as the key document for an hour. `GoodTokenAccepted` waits for that hour (`faultAt`).
* A dead token whose key was withdrawn as well is refused as unknown, and rings as fresh.
* A bearer of more than sixteen organizations is routed by the first sixteen
  (`viewer-function.ts:29`); a request for another may be stranded, and `NoOrgStranded` says so.

Alarms:

* The bridge's rule has `retryAttempts: 0`, which governs the delivery to Lambda and not Lambda's
  own two retries of an asynchronous event; and a run delayed past a boundary skips one bucket
  and the next run reads it again or not at all. `metrics-bridge.ts:28-29`, `alarms.ts:75` and
  `test/region-router/alarms.test.ts` take both for excluded. `BreachRings` asks for one point
  per bucket except after a repeated or late run (`strayed`).
* A run that never starts is no error of the bridge: the watch is then blind without saying so
  (`started`).

## 4. Bounds, and why they are enough

Time is counted in units that keep the *order* of the deadlines, not their ratio, except in
`otp_person` and `otp_retry`, which use minutes (and, but for the age of an episode in
`otp_person`, the source's numbers).

* `otp`: 3 requests, 2 in flight, failures and stale reads at every step, time passing once inside
  a request. A resurrected code needs one request reading and another deleting, a lost wrong
  answer one extending and another rejecting: both fit into two at a time. `OtpExpiry` is 2 and an
  episode 3, so that an extension reaches the bound. The theorems lift these bounds.
* `otp_person`: 4 requests, one at a time, each within a minute or across the turn of one; an episode
  lasts 9 minutes instead of 15, so that two resends of a five-minute code reach its end within 11
  minutes.
* `session`: 4 requests, 2 in flight, 4 instants with an ID token of 1 and a refresh token of 3:
  enough for a renewal that left before a logout or a removal and lands after it.
* `gate`: one container (containers share nothing they write), two changes of the application,
  5 instants with a cache of 1, a deadline of 1 and a timeout of 2. The tightest case of
  `GateTakesEffect` needs an open page, a closing and a request `ConfigLife + 2 * Limit` later.
* `meter`: 2 containers, 2 requests, one failing update, one write of the connector. The month
  starts with a full plan, since what matters happens at 105 %: the first request reaches it, the
  second exceeds it. The minute and long-window guards, which use the same code with another
  bucket, have a limit of 0 (off) in this instance.
* `origin_rotation`: 3 secrets (two rotations), one custom domain, one container: containers
  differ only in when they asked SSM. `Grace` is 3, cache and propagation 1 each, as in the
  source the grace is far longer than both together.
* `relay_outage`: one alarm with two transitions (messages of different alarms share only the
  cached token), two attempts instead of Lambda's three: first and last. The watch runs through
  four periods of five minutes with a delay of up to six, two failing calls and up to four lines.
* `mcp`: two pods with a container each, two keys, four tokens (one that dies, one signed by the
  key to come, one forged, one that is no bearer token), one request in front of caches of 1, one failing
  or moving event. Guests of the plugin host see three deploys of the secret, with one pod that is
  without it at first: enough to change it on the distribution and on both pods while they are under way.
  Requests meet in caches only, which the instance fills and empties within its 3 instants;
  `GoodTokenAccepted` and `CutOffInTime` need `KeysTtl + Limit + GatewayTtl` = 3 of them.
* `site`: two tabs, ten situations, and every kind of host with every kind of path; one path is longer than `MaxReturn` allows. More than
  `MaxRedirects` = 4 redirects in a row count as a circle, the smallest number that does not call the
  longest way a circle: moved to the successor, to the login page, renewed, and home, or to the
  login page with the offer in between. (Browsers follow about twenty.) The count starts anew when the
  person acts, when time passes and when another tab of the browser logs out: a chain that only such an
  event can prolong is no circle.

Symmetry is used where instances are interchangeable: the requests of `OtpLogin` and
`SessionRenewal`, the containers of `RequestMeter`. No run with symmetry checks liveness.

## 5. Assumptions

* Cognito: a session is used once and lives `SessionLife`; define-auth-challenge is called after
  each round; a failed round past the third ends the session; a refused refresh token is one of
  the errors of `REFRESH_DEFINITIVE`; an answer with tokens has an ID token.
* DynamoDB: single-item writes are atomic; a read without `ConsistentRead` returns the item or a
  former state of it; `ADD` returns what it made.
* Lambda: a container serves one request at a time; a killed or crashed container loses its
  memory; an asynchronous event is retried and then dropped; one SNS message per invocation.
* Node.js ends the process on an unhandled rejection (the default, and what the Lambda runtime
  does); the repository installs no listener.
* API Gateway caches an authorizer's answer by the Authorization header for the time it is told;
  CloudFront caches a response by its cache key for its `s-maxage`.
* EventBridge starts a scheduled target once a period, late or not at all; CloudWatch alarms treat
  missing data as the stack declares.
* CloudFormation updates a resource after those it refers to, and rolls back a failed deploy;
  operators do not start a rotation before the last one has propagated.
* The connector changes the registry, `_auth_config`, `_user_access`, the key-value stores and the
  distributions of custom domains as its use in this repository implies.
* What the connector writes for a host (`Written`): public prefixes without percent escapes, section
  prefixes that begin with one slash. The edge compares a path as it was sent and the authorizer
  decodes it first, so of an escaped prefix they would disagree for good. An escape is a token of its
  own and stands for one, never for a slash spelled otherwise (`TokensAssumption`).
* A token of a path holds a backslash or does not, and has a length. Paths have no query in the models,
  whose characters the filters would count as well.
* The hosts that may offer passkeys, `passkeyRpId` and what lies under it, are a set (`PasskeyHosts`).
* A visit starts at a page of the site, not in its `/auth` tree, with cookies whose ID token has no
  more than its life left (`VisitAssumption`). Hosts can be spelled in a path, as an open redirect would.
  A host that has moved names one that has not: `router-function.ts` relies on the connector for
  that (the comment at the redirect, :69-73), and so does `VisitAssumption`.
* The issuer publishes its keys as one document, and names its key in a token.

**Fairness.** Only `AlarmRelay` has a liveness property, under weak fairness of the work left on
each message: SNS delivers, Lambda runs what it accepted and ends every invocation, by its
timeout if need be. Alarms need not change and containers need not be recycled. Everything else
in this code answers a request or is killed; there is nothing that must eventually happen beyond
that, and the models assume no fairness.

**Deadlock.** Every run checks for it except `relay_outage` and `relay_token`, whose system stops once
all messages have settled, and `site`, where a visit is over when its budget is spent. In the bounded models a final stuttering action (`AllOver`) marks the intended end.

## 6. Proofs

A module's theorems are in the proof module of its name; `AlarmRelayProofs` has the watch's as well,
`McpPathProofs` the authorizer's.
Every theorem holds for all values of the constants that satisfy the named assumptions of its
module. Three theorems assume more, in their statement, because the property is about that case: a person
whose requests come one at a time (`OneAtATime`; for the first of the two, requests of a minute at most),
and a browser that follows four redirects. Each safety proof has the same shape: an inductive
invariant, defined at the end of the component's module and checked by TLC on the component's run
before it was proved; a lemma for the initial states; one lemma per action; and the properties as
consequences.

| Module | Theorem | Property | From |
|---|---|---|---|
| `OtpLoginProofs` | `TypeCorrect` | `TypeOK` | `ParametersAssumption`: an episode is at least as long as a code |
| | `EpisodeBound` | `SignInsWithinEpisode` | |
| | `NoCodeRevived` | `CodesNotRevived` (by `NoResurrection`, `NoFreshTriesEver`) | |
| | `AllowanceBound` | `MailsWithinAllowance` | |
| | `FirstAnswerAlwaysSignsIn` | `FirstAnswerSignsIn` | also `OneAtATime` (`MaxInFlight = 1`, no `Lag`, no `Faults`) and `MaxSpan <= 1` |
| | `MailedCodeNeverReplaced` | `MailedCodeNotReplaced` | also `OneAtATime` |
| `SessionRenewalProofs` | `SessionTypes` | `TypeOK` | `LivesAssumption`: the lives are numbers |
| | `EndedSessionsAlwaysEnd` | `EndedSessionsEnd` | |
| | `OnlyDefinitiveEverClears` | `OnlyDefinitiveClears` | |
| `FrontendAuthorizerProofs` | `GateTypeCorrect` | `TypeOK` | `GateAssumption`: the front door's deadline lies below the timeout |
| | `GateAlwaysTakesEffect` | `GateTakesEffect` | |
| | `SessionAlwaysHonoured` | `SessionHonoured` | |
| | `DoorAlwaysKept` | `DoorKept` (by `GoneNeverRun`, `DeadlineAlwaysFirst`) | |
| | `PromiseAlwaysKept` | `KeepsThePromise`, the refinement of `AppGate` | |
| `RequestMeterProofs` | `RateAlwaysHolds` | `RateHolds` | `MeterAssumption`: finitely many containers, limits are numbers, lives and periods positive |
| | `AnsweredAlwaysCounted` | `AnsweredIsCounted` | |
| | `CutAlwaysDue` | `CutWhereDue` | |
| | `MeterTypes` | `TypeOK` (by `NoneRecordedTwice`) | |
| `OriginSecretProofs` | `RotationTypes` | `TypeOK` | `RotationAssumption`: times are numbers; `GraceAssumption`: a deploy and CloudFront's propagation together are shorter than the grace |
| | `RetiredSecretRefused` | `OnlyPreviousInGrace` | |
| | `RotationServed` | `OrderedRotationServed` | |
| | `DomainsAlwaysKept` | `DomainsKept` | |
| `AlarmRelayProofs` | `RelayTypes` | `TypeOK` | `RelayAssumption` |
| | `NeitherRoadEverGivenUp` | `NeitherRoadGivenUp` | |
| | `RecoveryAlwaysAnnounced` | `RecoveryAnnounced` | |
| | `BreachAlwaysRings` | `BreachRings` | `WatchAssumption`: a period has a length |
| | `EachFaultAlwaysRingsItsOwn` | `EachFaultRingsItsOwn` | |
| `McpPathProofs` | `McpTypes` | `TypeOK` (a part of `PathTypeOK`) | `McpAssumption` |
| | `AuthorityEndsInTime` | `CutOffInTime` | |
| | `GoodTokenServed` | `GoodTokenAccepted` | |
| | `DeadTokenRingsNot` | `DeadTokenFallsSilent` | |
| | `PathTypes` | `PathTypeOK` | `PathAssumption`: pods serve many tenants; the router reads of a token what its claims say |
| | `OrgsAlwaysReached` | `OrgsReached` | |
| | `HostAlwaysTheViewers` | `HostIsTheViewers` | |
| | `PathImplementsAuthorizer` | the refinement of `McpAuthorizer` | |
| | `PathCutsOffInTime` | `CutOffInTime`, on the path | |
| `SiteVisitProofs` | `SiteTypes` | `TypeOK` | `TokensAssumption`, `VisitAssumption`: spelling, first pages and what the connector writes (section 5); lives are positive |
| | `LoginPageEverybodysOwn` | `CachedLoginPage` | |
| | `NobodyTurnedAwayWithoutReason` | `TurnedAwayWithReason` | |
| | `EverybodyBackWhereTheyWere` | `BackWhereTheyWere` | |
| | `AlwaysRoutedByTheEdge` | `RoutedByTheEdge` | |
| | `NobodyEverSentInCircles` | `NoCarousel` | also `MaxRedirects >= 4` |

The arguments:

**One-time codes.** `SignInsWithinEpisode` is not inductive: a sign-in is decided from an item read
some steps earlier. `EpisodeInvariant` adds that every item that is, or was read, anywhere (table,
replica, `seen` of an invocation) carries its true minting time and a deadline within the episode,
that a verdict already pronounced was in time, and that deleted codes are minted ones and not in the
table. The heart is `ExtensionWithinEpisode`: the minimum of two deadlines keeps an extension
computed from an *old* reading within the episode. The two parts of `CodesNotRevived` follow from the
same invariant and the condition of the extending write. `MailsWithinAllowance` counts mails;
`AllowanceInvariant` says why the count is bounded: each allowance number is held by one invocation
or one mail of its window and does not exceed the limit. `TicketsCountMails` turns the injection into
a bound on the cardinality.
Two properties are a person's, alone at the keyboard: with two requests at a time a resend may mint a code
while another one is under way. `AloneInvariant` says that there is one request and that what it has
read is what the table still holds, unless that ran out meanwhile; so no write replaces a code in force
that it did not see. `FirstAnswerInvariant` follows the answer from the moment the person types a code that
is in force: the session it goes to, or is restarted to, is in its first round, and the code stays acceptable
until it is verified. That last step needs that a request sees at most one minute pass (`MaxSpan = 1`): a
code in force runs out after the present minute at the earliest, and verification refuses only one that ran
out before. On a page that waits longer, a code typed in its last minute would run out before anyone
compares it.

**Sessions.** What a tab holds may come from an answer that was decided long before. `SessionInvariant`
says what every session rests on, in the jar, on its way, or to come: a session has at most one live
token (`TokensSound`, kept by the three ways tokens change: `Dies`, `Begins`, `Rotates`), a logged-out
session has none (`LogoutInvariant`), ID tokens decided before a removal end in time and none that is
decided after it is set (`RemovalInvariant`), and what clears a refresh cookie stays true until the
answer lands, because dead tokens stay dead and removed addresses removed (`RefusalInvariant`).
`Moves` states once what a step of one invocation must respect; each action is then an instance of it.

**The gate.** What a request decides it takes from a cache entry, which was filled by another request,
which had read a row some steps before. `GateInvariant` follows that chain: `OpenUntil(uri)`, the last
instant the path was open, never goes back (`HorizonsGrow`); a row that shows the path open was
read by a request that arrived before that instant; the entry it fills is stamped within `Limit`
of it; whoever uses the entry arrives within `ConfigLife` more; and a verdict lives for another
`Limit` (`InTime`). That is where the bound `ConfigLife + 2 * Limit` comes from.
`SessionInvariant` of that module is the same argument for `PoolMissingUntil`, and `RowInvariant` says
that a remembered row was live during the request under way, which holds because `Arrive` clears it.
The refinement uses all of it: initial states map to initial states; a container's step shows
outside as `Asks`, `Tells`, `Ends` or nothing; a change of the application as `Closes`, a tick as
`Passes`; and the one guard of `AppGate` that is not immediate, that nobody passes for a closed path
after `Lag`, is `GateTakesEffect` at the moment of the verdict.

**Counters.** `RatesInvariant` weighs a bucket: the requests it has let pass, and those it is about to
let pass (`Holders`, containers whose request got a number within the limit and has no verdict yet),
are together no more than its hits and no more than its limit; a doubled or lost update only moves the
hits up. `CountsInvariant` weighs the usage report in the same way: answers given and owed against
counts written and counts refused. Both need that containers are finitely many, and `OneMoves`, that
the sets of two states differ by one container. `CutWhereDue` looks back in time: a request that passed
was within the cap of a plan that was in force when it entered, or shortly before. `PlanInvariant` dates
what a request knows of the plan: it was in force no earlier than `HeardBy` allows (a container's read
may take all of `Limit` before the entry is stamped, and the entry lives `CapLife`), its verdict follows
from what it read, and no month has counts before it begins (`MonthsToCome`). `ArrivalsInvariant` bounds
the counters by the requests that arrived, which is what their type says.

**Origin secret.** Three parties remember a secret at three ages: the edge, the authorizer's environment
and a container's look-up of the previous one. `RotationInvariant` ties each to the step the deploy has
reached. `Lineage` says, for a rotation, a rollback and a rest between deploys, which secrets the
parameter's last two versions and the environment hold; `StampsKnown` that no edge is ahead of an
authorizer that is updated first; `PropagationCovered` that what an edge location still stamps was
replaced soon enough after the last version for the grace to cover it; `LookUpsSound` that a look-up made
after the environment got that version gives the one before it during the grace and none later. A
viewer's request is then refused only if the grace ran out under it, which `GraceAssumption` excludes.

**Alarm relay.** An invocation that is over has taken the message on each road or left a mark of its
failure there (`Accounted`); success is reported with both taken, and a message is dropped after
`Attempts` such invocations. `History` says that the messages of an alarm tell its states one after the
other, from which a recovery after a ringing alarm is always one to announce.

**The watch.** A period's point is written by runs of the bridge that need not be the period's own.
`WatchInvariant` says what the runs to come may still be (`RunsInOrder`: one per tick, a repetition only of
one that failed), what the copies made so far tell of the bucket they read (`CopiesTell`, which needs that
CloudFront publishes within a `Step`, so that a bucket has settled before anyone reads it), that a
second copy has a failure or a stray run behind it (`CopiedOnce`), and that the lines of the log are
sorted without remainder (`LinesSorted`).

**MCP authorizer.** `McpInvariant` dates everything that is remembered: a container's keys were
published, and what it misses was not, at the instant they are stamped with (`Remembered`); an answer,
about to be given or in a gateway's cache, was justified at an instant no earlier than the beginning of
its invocation (`Explained`). The bounds `Limit + GatewayTtl` and `KeysTtl + Limit + GatewayTtl` are
the distances between these instants.

**The MCP path.** `PathInvariant` follows a request through the router: `RequestSound` says, for each step
of its reads, that the region chosen so far is where the organization in hand lived when it was read,
unless the store moved or failed under it (`ReadSoFar`, `Belongs`); `VisitSound`
that a request at a pod is the one the router brought there, or a direct one; `ServingSound` that an
invocation serves one waiting request, with its token; `AnswersClaimed` that neither an answer nor a
gateway's cache gives an organization the token does not claim, which is why the connector's relay
always has one to relay to; `Stamped` that a request the router brought carries, from the edge to the
answer, the secret that its pod has, unless the two disagreed when it left or the pod was deployed under
it, and that one who came directly carries none. A deploy of the distribution disturbs none of this,
since the stamp is the request's; a deploy of a pod marks the requests that wait there. Every step of the path is one of the authorizer's `Next` or leaves
its variables alone, whence the refinement.

**Site visits.** What a visitor is shown was decided by four programs, each from its own view: the edge
from the path as sent and the presence of a cookie, the CDN from a key, the pages from what the last
page handed them, the authorizer from the decoded path and what the cookie is worth. `SiteInvariant`
follows one tab through them (`TabSound`): what it may send is the page in mind, or a request of the
sign-in that leads there (`Sendable`, `Leads`, `Returns`); what the edge let through to the origin is,
on a closed site and without a cookie, public by the edge's rules (`LetThrough`); and who is past the
edge is in the region and section of the host's value, with no dot-name or script in mind (`Inside`).
What the edge promises comes from its rules one at a time: `FirstRule` says that the verdict is of a rule
that applies and that none before it does. Two lemmas carry the agreement: `SameGate`, that what is public
as it was sent is public when decoded, and `UnscannedIsDecent`, that a path the scanner's rule let pass
decodes, twice, to neither a dot-name nor a script. A page to return to that is not `Carriable` may be lost
at a hop: `Right` then allows the root besides it, and `LostIsRoot` is the step from the one to the other. A page of the CDN is a function of its key and was
never rendered for somebody who could have renewed (`PageSound`); the plain login page stays there for
its minute (`RendersKept`), which bounds the renders. The other tab enters by what it can change, a
session of the same jar, a closing or the passkeys' switch, and the invariant says of each what a request
already on its way keeps. `NoCarousel` is about all tabs of a browser: each redirect of one may meet
cookies that another one has just changed. `CarouselInvariant` ranks the tabs by the redirects that may
still come (`Ahead`): 4 for a host that has moved; for a page, 3 without a session and none with one; for
the login page, one, and a second if it has a page to return to; with what the origin will decide
counted by the cookies that the request carries and the rest by those of the moment (`Due`, `Coming`).
Redirects made and to come are never more than four. A step of the tab uses up one; a sign-in of
another tab only spares some; what could add some, a session that ends or is logged out, starts the count
anew. Every page of the sign-in returns to a page of the site and not to the sign-in itself
(`Homeward`), whoever signed in meanwhile, and a token that the application does not accept is the one
thing that can break the ranking: the login page takes it for a session and the page does not.
TLC checked `SiteInvariant` and `CarouselInvariant` on the instance of `site` first.

Left to TLC:

* `ReachesBothOrDropped`: liveness is out of the prover's reach.

Every other property of a passing run is a theorem. The runs that expect a violation have none, of course.

## 7. Plan

Done: all modules of section 2, the composition of the edge, the pages and the authorizer
(`SiteVisit`) and of the region router with the authorizer (`McpPath`), the abstract gate and its
refinement, and the theorems of section 6. What would come next:

1. **An abstract one-time code** (issued, used once, dead), refined by `OtpLogin`.
2. **Keys of a pool** in the authorizer of the sites, on the model of `McpAuthorizer`, whose cache it
   shares in kind.
3. **A previous router secret**, should the code get one: the window that `unsettled` excepts would close.

Runs are a budget of one per question, which is why the watch and the relay share one.

## 8. Not modelled

* `pre-sign-up`: it sets two constants; what follows from them is the first state of `OtpLogin`.
* Wording, styles and languages of pages and mails beyond what one page hands to the next; the return
  path of a browser without JavaScript, which is lost in the fragment by design.
* The WebAuthn ceremony and the cryptography of tokens: a session is valid, not valid, or cannot
  be checked. The capability secret that signs Data API calls, which a container keeps for its life.
* The other alarms: a threshold on one metric each. Their transitions are `AlarmRelay`'s; one remark
  on a threshold: `headroom.ts` rounds 0.7 of a reservation up, so for three or fewer it is all of it.
* Deploy-time assembly, routes, domains, DNS, IAM, replicas: declarations without behaviour; the lines
  that decide an order, a timeout or a retry are cited by the module that depends on them.
* Secondary pods' own copy of the origin secret.
* The sweep and the application crons: a schedule that calls the connector.
* The files-transfer page (one upload, no shared state), the connector (another repository; its
  effects on shared state are external actions), scripts and continuous integration.
* HTTP status codes and log lines, except where a property names the outcome.
