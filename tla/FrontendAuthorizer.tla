-------------------------- MODULE FrontendAuthorizer --------------------------
(***************************************************************************)
(* The gate and the front door of one application                          *)
(* (lib/frontend-authorizer/index.js, front-door.js).                      *)
(*                                                                         *)
(* A container of the function serves one request at a time.  It decides   *)
(* who is asking - a person, an agent, nobody - from the application's row *)
(* in the registry, its user pool in _auth_config, and the cookies; it     *)
(* refuses nobody but an anonymous request for a page the application      *)
(* keeps closed.  Through the front door it then runs the application      *)
(* itself, against a deadline; on a legacy route its verdict goes back to  *)
(* API Gateway.                                                            *)
(*                                                                         *)
(* The origin lock (OriginSecret) and the counters come first and are      *)
(* here a refusal that may happen.  Containers share nothing they write,   *)
(* and time is counted from each request's arrival.                        *)
(***************************************************************************)
EXTENDS Integers, Sequences, FiniteSets

CONSTANTS
    Containers,    \* execution environments of the function
    PublicChoices, \* the publicPaths an application may declare
    Callers,       \* what may be asked: a path, with which valid sessions, by which door
    ConfigLife,    \* AUTH_CFG_TTL_MS
    Deadline,      \* APP_DEADLINE_MS
    Limit,         \* the function's timeout and API Gateway's
    Retries,       \* DATA_API_RETRIES
    MaxChanges,    \* bound: changes of the application
    MaxClock       \* bound: the last instant of the model

ASSUME GateAssumption ==
    /\ ConfigLife \in Nat /\ Deadline \in Nat /\ Limit \in Nat /\ Deadline < Limit
    /\ Retries \in Nat /\ MaxChanges \in Nat /\ MaxClock \in Nat
    /\ PublicChoices \subseteq SUBSET {"docs", "page"}
    /\ Callers \subseteq [uri: {"docs", "page", "static", "auth"},
                         cookies: SUBSET {"human", "agent"}, door: {"front", "legacy"}]

VARIABLES
    clock,       \* time since the start
    app,         \* the application, as the registry and _auth_config have it
    changes,     \* how often it changed
    lastOpen,    \* history: the last instant a path was not gated
    poolAt,      \* history: when the pool was recorded
    goneAt,      \* history: when the application was last deleted
    config,      \* authConfigCache of each container
    lastAppRow,  \* the row resolveApp read last
    inv          \* the request each container serves

vars == <<clock, app, changes, lastOpen, poolAt, goneAt, config, lastAppRow, inv>>

-----------------------------------------------------------------------------

\* Classes of paths of the site; "docs" may be declared public.  "auth" is any
\* path that is not of the site.
Closable == {"docs", "page"}
Paths == Closable \cup {"static", "auth"}

\* An application row: live (named, there and not being deleted), its access
\* settings, the function deployed, and the pool of its _auth_config.
App == [live: BOOLEAN, enforce: BOOLEAN, publicPaths: SUBSET Closable,
        deployed: BOOLEAN, pool: BOOLEAN]

NoApp == [live |-> FALSE, enforce |-> FALSE, publicPaths |-> {},
          deployed |-> FALSE, pool |-> FALSE]

NoConfig == [at |-> -ConfigLife, row |-> NoApp]

\* A request.
\*   pc     idle, meter, config, pool, decide (in authorize), door, running
\*   cookies   the valid sessions it brings: a person's if the first of the
\*           ID_TOKEN_COOKIES it has is good, whatever the second is
\*   door   front, or legacy
\*   attempt   calls to the Data API so far
\*   row    the configuration it goes by
\*   failed    history: a call it made failed, or a counter refused it
Request ==
    [pc: {"idle", "meter", "config", "pool", "decide", "door", "running"},
     uri: Paths, cookies: SUBSET {"human", "agent"}, door: {"front", "legacy"},
     entered: Nat, attempt: 0..Retries, row: App,
     verdict: {"none", "human", "agent", "anon", "deny"}, failed: BOOLEAN]

NoRequest ==
    [pc |-> "idle", uri |-> "page", cookies |-> {}, door |-> "front",
     entered |-> 0, attempt |-> 0, row |-> NoApp,
     verdict |-> "none", failed |-> FALSE]

\* gatedPath: what an anonymous request is refused.
Gated(row, uri) ==
    /\ row.live /\ row.enforce
    /\ uri \in Closable \ row.publicPaths

\* Mutant: an entry of the cache never grows old.
FreshForEver(c) == config[c].row.live

Fresh(c) == clock - config[c].at < ConfigLife

\* The container works on its request, its timeout not reached.
At(c, pc) == inv[c].pc = pc /\ clock < inv[c].entered + Limit

Goes(c, q) == inv' = [inv EXCEPT ![c] = q]

Verdict(c, v, failed) ==
    Goes(c, [inv[c] EXCEPT !.pc = "door", !.verdict = v, !.row = NoApp, !.attempt = 0,
                           !.failed = @ \/ failed])

\* The front door answers.
Reply(c) == Goes(c, NoRequest)

Init ==
    /\ clock = 0 /\ changes = 0
    /\ app \in [live: {TRUE}, enforce: BOOLEAN, publicPaths: {{}},
                deployed: BOOLEAN, pool: {FALSE}]
    /\ lastOpen = [uri \in Closable |-> 0]
    /\ poolAt = 0 /\ goneAt = 0
    /\ config = [c \in Containers |-> NoConfig]
    /\ lastAppRow = [c \in Containers |-> NoApp]
    /\ inv = [c \in Containers |-> NoRequest]

-----------------------------------------------------------------------------
(* authorize.                                                              *)

\* Mutant: the row of the request before is still there.
ArriveKeepingRow(c) ==
    /\ inv[c].pc = "idle"
    /\ \E caller \in Callers :
         Goes(c, [NoRequest EXCEPT !.pc = "meter", !.uri = caller.uri, !.cookies = caller.cookies,
                                   !.door = caller.door, !.entered = clock])
    /\ UNCHANGED <<clock, app, changes, lastOpen, poolAt, goneAt, config, lastAppRow>>

\* The handler forgets the row of the request before.
Arrive(c) ==
    /\ inv[c].pc = "idle"
    /\ \E caller \in Callers :
         Goes(c, [NoRequest EXCEPT !.pc = "meter", !.uri = caller.uri, !.cookies = caller.cookies,
                                   !.door = caller.door, !.entered = clock])
    /\ lastAppRow' = [lastAppRow EXCEPT ![c] = NoApp]
    /\ UNCHANGED <<clock, app, changes, lastOpen, poolAt, goneAt, config>>

\* The origin lock, the month's cap and the rate counters let through or refuse.
Meter(c) ==
    /\ At(c, "meter")
    /\ \/ Goes(c, [inv[c] EXCEPT !.pc = "config"])
       \/ Verdict(c, "deny", TRUE)
    /\ UNCHANGED <<clock, app, changes, lastOpen, poolAt, goneAt, config, lastAppRow>>

\* readAuthConfig from the cache.
ConfigHit(c) ==
    /\ At(c, "config") /\ Fresh(c)
    /\ Goes(c, [inv[c] EXCEPT !.pc = "decide", !.row = config[c].row])
    /\ UNCHANGED <<clock, app, changes, lastOpen, poolAt, goneAt, config, lastAppRow>>

\* Mutant: a registry error is taken for an application without a gate.
ResolveLeniently(c) ==
    /\ At(c, "config") /\ ~Fresh(c)
    /\ \/ /\ app.live
          /\ lastAppRow' = [lastAppRow EXCEPT ![c] = app]
          /\ Goes(c, [inv[c] EXCEPT !.pc = "pool", !.row = [app EXCEPT !.pool = FALSE]])
       \/ ~app.live /\ Verdict(c, "anon", FALSE) /\ UNCHANGED lastAppRow
       \/ Verdict(c, "anon", TRUE) /\ UNCHANGED lastAppRow
    /\ UNCHANGED <<clock, app, changes, lastOpen, poolAt, goneAt, config>>

\* resolveApp: the row; nothing, which passes as anonymous; or an error, which
\* refuses the site and passes the rest.
Resolve(c) ==
    /\ At(c, "config") /\ ~Fresh(c)
    /\ \/ /\ app.live
          /\ lastAppRow' = [lastAppRow EXCEPT ![c] = app]
          /\ Goes(c, [inv[c] EXCEPT !.pc = "pool", !.row = [app EXCEPT !.pool = FALSE]])
       \/ ~app.live /\ Verdict(c, "anon", FALSE) /\ UNCHANGED lastAppRow
       \/ /\ Verdict(c, IF inv[c].uri = "auth" THEN "anon" ELSE "deny", TRUE)
          /\ UNCHANGED lastAppRow
    /\ UNCHANGED <<clock, app, changes, lastOpen, poolAt, goneAt, config>>

\* dataApiQuery: a lost connection or a state the Data API calls transient is
\* worth another try, Retries times.
AskAgain(c) ==
    /\ inv[c].attempt < Retries
    /\ Goes(c, [inv[c] EXCEPT !.attempt = @ + 1])

\* Mutant: a pool that could not be read is remembered as none.
ReadPoolCachingFailure(c) ==
    /\ At(c, "pool")
    /\ \E pool \in {app.pool, FALSE} :
         LET row == [inv[c].row EXCEPT !.pool = pool] IN
         /\ config' = [config EXCEPT ![c] = [at |-> clock, row |-> row]]
         /\ Goes(c, [inv[c] EXCEPT !.pc = "decide", !.row = row,
                                   !.failed = @ \/ pool # app.pool])
    /\ UNCHANGED <<clock, app, changes, lastOpen, poolAt, goneAt, lastAppRow>>

\* Mutant: the retries of the Data API are not counted out.
ReadPoolEndlessRetries(c) ==
    /\ At(c, "pool")
    /\ \/ LET row == [inv[c].row EXCEPT !.pool = app.live /\ app.pool] IN
          /\ config' = [config EXCEPT ![c] = [at |-> clock, row |-> row]]
          /\ Goes(c, [inv[c] EXCEPT !.pc = "decide", !.row = row])
       \/ /\ Goes(c, [inv[c] EXCEPT !.attempt = @ + 1])
          /\ UNCHANGED config
    /\ UNCHANGED <<clock, app, changes, lastOpen, poolAt, goneAt, lastAppRow>>

\* _auth_config through the Data API (for an application deleted since its row was
\* read, of the one that may have taken its name): an answer is remembered; an error worth
\* another try gets one; any other leaves the pool unknown for this request.
ReadPool(c) ==
    /\ At(c, "pool")
    /\ \/ LET row == [inv[c].row EXCEPT !.pool = app.live /\ app.pool] IN
          /\ config' = [config EXCEPT ![c] = [at |-> clock, row |-> row]]
          /\ Goes(c, [inv[c] EXCEPT !.pc = "decide", !.row = row])
       \/ AskAgain(c) /\ UNCHANGED config
       \/ /\ Goes(c, [inv[c] EXCEPT !.pc = "decide", !.failed = TRUE])
          /\ UNCHANGED config
    /\ UNCHANGED <<clock, app, changes, lastOpen, poolAt, goneAt, lastAppRow>>

\* verifyCognitoIdToken, of the pool's keys and issuer; verifyAgentSession, of the
\* secret of the application.
IsPerson(q) == q.row.pool /\ "human" \in q.cookies
IsAgent(q) == q.row.pool /\ "agent" \in q.cookies

\* Who is asking.  Without a pool nobody can be told; a person's session wins
\* over an agent's; one whose keys or secret cannot be read counts for nothing.
Decide(c) ==
    LET q == inv[c]
        anonymous == IF Gated(q.row, q.uri) THEN "deny" ELSE "anon"
    IN
    /\ At(c, "decide")
    /\ \/ ~q.row.pool /\ Verdict(c, anonymous, FALSE)
       \/ IsPerson(q) /\ Verdict(c, "human", FALSE)
       \/ IsAgent(q) /\ Verdict(c, "agent", "human" \in q.cookies)
       \/ q.row.pool /\ Verdict(c, anonymous, q.cookies # {})
    /\ UNCHANGED <<clock, app, changes, lastOpen, poolAt, goneAt, config, lastAppRow>>

-----------------------------------------------------------------------------
(* The front door.                                                         *)

\* Refused, or a legacy route: the answer is the verdict.
Answers(c) ==
    /\ At(c, "door")
    /\ inv[c].verdict = "deny" \/ inv[c].door = "legacy"
    /\ Reply(c)
    /\ UNCHANGED <<clock, app, changes, lastOpen, poolAt, goneAt, config, lastAppRow>>

Enters(c) == At(c, "door") /\ inv[c].verdict # "deny" /\ inv[c].door = "front"

\* The row of the application, unless authorize read it: an error is a 503.
ReadRow(c) ==
    /\ Enters(c) /\ inv[c].uri # "auth" /\ ~lastAppRow[c].live
    /\ \/ /\ app.live
          /\ lastAppRow' = [lastAppRow EXCEPT ![c] = app]
          /\ UNCHANGED inv
       \/ Reply(c) /\ UNCHANGED lastAppRow
    /\ UNCHANGED <<clock, app, changes, lastOpen, poolAt, goneAt, config>>

\* A row without a function of the platform's is a 404; the auth tree has its
\* own function, whatever the row says.
Invoke(c) ==
    /\ Enters(c)
    /\ inv[c].uri = "auth" \/ lastAppRow[c].live
    /\ IF inv[c].uri = "auth" \/ lastAppRow[c].deployed
       THEN Goes(c, [inv[c] EXCEPT !.pc = "running"])
       ELSE Reply(c)
    /\ UNCHANGED <<clock, app, changes, lastOpen, poolAt, goneAt, config, lastAppRow>>

\* Mutant: the deadline is the function's own timeout.
DueAtLimit(c) == inv[c].pc = "running" /\ clock >= inv[c].entered + Limit

\* The timer: what is left of the deadline since the request's arrival.
Due(c) == inv[c].pc = "running" /\ clock >= inv[c].entered + Deadline

\* The application's answer, a FunctionError or an answer that does not parse
\* (502), a function that is missing (404) or busy (503).
AppAnswers(c) ==
    /\ At(c, "running")
    /\ Reply(c)
    /\ UNCHANGED <<clock, app, changes, lastOpen, poolAt, goneAt, config, lastAppRow>>

\* 504: the timer won the race, the application runs on.
TooSlow(c) ==
    /\ At(c, "running") /\ Due(c)
    /\ Reply(c)
    /\ UNCHANGED <<clock, app, changes, lastOpen, poolAt, goneAt, config, lastAppRow>>

\* Lambda kills the invocation at its timeout; the container starts anew.
Killed(c) ==
    /\ inv[c].pc # "idle" /\ clock >= inv[c].entered + Limit
    /\ Reply(c)
    /\ config' = [config EXCEPT ![c] = NoConfig]
    /\ lastAppRow' = [lastAppRow EXCEPT ![c] = NoApp]
    /\ UNCHANGED <<clock, app, changes, lastOpen, poolAt, goneAt>>

-----------------------------------------------------------------------------
(* The connector changes the application; time passes.                     *)

Becomes(new) ==
    /\ changes < MaxChanges /\ changes' = changes + 1
    /\ new # app /\ app' = new
    /\ lastOpen' = [uri \in Closable |-> IF Gated(app, uri) THEN lastOpen[uri] ELSE clock]
    /\ poolAt' = IF new.pool /\ ~app.pool THEN clock ELSE poolAt
    /\ goneAt' = IF app.live /\ ~new.live THEN clock ELSE goneAt
    /\ UNCHANGED <<clock, config, lastAppRow, inv>>

\* set-access, enable-auth and deploy on a live application, its deletion, and
\* an application of the same name.
Change ==
    \/ /\ app.live
       /\ \E enforce \in BOOLEAN, publicPaths \in PublicChoices :
            Becomes([app EXCEPT !.enforce = enforce, !.publicPaths = publicPaths])
    \/ app.live /\ Becomes([app EXCEPT !.pool = TRUE])
    \/ app.live /\ Becomes([app EXCEPT !.deployed = TRUE])
    \/ Becomes(NoApp)
    \/ /\ ~app.live
       /\ \E enforce \in BOOLEAN : Becomes([NoApp EXCEPT !.live = TRUE, !.enforce = enforce])

\* The timer and the timeout fire on time.
Tick ==
    /\ clock < MaxClock
    /\ \A c \in Containers :
        ~Due(c) /\ (inv[c].pc # "idle" => clock < inv[c].entered + Limit)
    /\ clock' = clock + 1
    /\ UNCHANGED <<app, changes, lastOpen, poolAt, goneAt, config, lastAppRow, inv>>

Next ==
    \/ \E c \in Containers :
        \/ Arrive(c) \/ Meter(c) \/ ConfigHit(c) \/ Resolve(c) \/ ReadPool(c)
        \/ Decide(c) \/ Answers(c) \/ ReadRow(c) \/ Invoke(c)
        \/ AppAnswers(c) \/ TooSlow(c) \/ Killed(c)
    \/ Change \/ Tick

Spec == Init /\ [][Next]_vars

-----------------------------------------------------------------------------
(* Properties.                                                             *)

\* The caches are stamped with instants that have been; a request asks the Data
\* API 1 + Retries times at most.
TypeOK ==
    /\ clock \in 0..MaxClock /\ changes \in 0..MaxChanges
    /\ app \in App /\ lastOpen \in [Closable -> 0..clock]
    /\ poolAt \in 0..clock /\ goneAt \in 0..clock
    /\ config \in [Containers -> [at: Int, row: App]]
    /\ \A c \in Containers : config[c].at <= clock
    /\ lastAppRow \in [Containers -> App]
    /\ inv \in [Containers -> Request]

\* The request has passed the gate as nobody, or as a person.
Passed(c, who) == inv[c].pc \in {"door", "running"} /\ inv[c].verdict = who

\* Closing a path takes effect within the life of a cache entry, the read that
\* filled it and the request that used it: after that no anonymous request for
\* it gets through, whatever is unreadable ("a site path is then refused, never
\* served open").
GateTakesEffect ==
    \A c \in Containers :
        Passed(c, "anon") /\ Gated(app, inv[c].uri)
            => clock < lastOpen[inv[c].uri] + ConfigLife + 2 * Limit

\* A person with a session is recognised, once the application has had its pool
\* for the life of a cache entry and a request, unless a call this very request
\* made failed ("a transient blip self-heals").
SessionHonoured ==
    \A c \in Containers :
        (/\ inv[c].pc = "door" /\ "human" \in inv[c].cookies /\ ~inv[c].failed
         /\ app.live /\ app.pool /\ clock > poolAt + ConfigLife + Limit)
          => inv[c].verdict = "human"

\* The front door never runs an application that was gone before the request
\* arrived, whatever the container remembers.
GoneNotRun ==
    \A c \in Containers :
        inv[c].pc = "running" /\ inv[c].uri # "auth"
            => app.live \/ goneAt >= inv[c].entered

\* An application that does not answer costs a 504, never the container: no
\* request waits for its application until the function's own timeout.
DeadlineComesFirst ==
    \A c \in Containers :
        inv[c].pc = "running" => clock < inv[c].entered + Limit

\* The front door runs what is there, for no longer than it may.
DoorKept == GoneNotRun /\ DeadlineComesFirst

-----------------------------------------------------------------------------
(* The gate this function is.                                              *)

\* What a request has been told, seen from outside.
Seen(q) ==
    CASE q.pc = "idle" -> [pc |-> "idle"]
      [] q.pc \in {"door", "running"} ->
            [pc |-> "told", uri |-> q.uri, cookies |-> q.cookies, verdict |-> q.verdict]
      [] OTHER -> [pc |-> "asking", uri |-> q.uri, cookies |-> q.cookies]

ClosedNow == {uri \in Closable : Gated(app, uri)}

SeenNow == [c \in Containers |-> Seen(inv[c])]

Gate == INSTANCE AppGate WITH
    Askers <- Containers, Elsewhere <- Paths \ Closable, Lag <- ConfigLife + 2 * Limit,
    now <- clock, closed <- ClosedNow, openedAt <- lastOpen, asks <- SeenNow

\* The function keeps the promise of a gate, step by step: every request is told
\* once, as somebody only with that session, and as nobody on a closed path only
\* within two timeouts and a cache life of the closing.
KeepsThePromise == Gate!Spec

-----------------------------------------------------------------------------
(* What makes the properties above inductive.                              *)

\* The last instant a path was open; now, if it is.
OpenUntil(uri) == IF Gated(app, uri) THEN lastOpen[uri] ELSE clock

\* The last instant the application was without a pool; now, if it is.
PoolMissingUntil == IF app.live /\ app.pool THEN poolAt ELSE clock

\* A request lives for Limit.
InTime ==
    \A c \in Containers :
        inv[c].pc # "idle" => inv[c].entered <= clock /\ clock <= inv[c].entered + Limit

\* Whatever says that a path is open - a cache entry, a row just read, the row a
\* request goes by, a verdict - says so of an instant not too long ago.
GateFor(c, uri) ==
    /\ ~Gated(config[c].row, uri) => config[c].at < OpenUntil(uri) + Limit
    /\ (inv[c].pc = "pool" /\ ~Gated(inv[c].row, uri)) => inv[c].entered <= OpenUntil(uri)
    /\ (inv[c].pc = "decide" /\ ~Gated(inv[c].row, uri))
          => inv[c].entered < OpenUntil(uri) + ConfigLife + Limit
    /\ (Passed(c, "anon") /\ inv[c].uri = uri)
          => inv[c].entered < OpenUntil(uri) + ConfigLife + Limit

GateInvariant == \A c \in Containers, uri \in Closable : GateFor(c, uri)

\* And whatever says that there is no pool, the failures of this request apart.
SessionFor(c) ==
    /\ ~config[c].row.pool => config[c].at <= PoolMissingUntil
    /\ (inv[c].pc = "decide" /\ ~inv[c].failed /\ ~inv[c].row.pool)
          => inv[c].entered <= PoolMissingUntil + ConfigLife
    /\ (/\ inv[c].pc = "door" /\ ~inv[c].failed
        /\ "human" \in inv[c].cookies /\ inv[c].verdict # "human")
          => inv[c].entered <= PoolMissingUntil + ConfigLife

SessionInvariant == \A c \in Containers : SessionFor(c)

\* A row the container remembers was live during the request under way.
RowInvariant ==
    \A c \in Containers :
        (inv[c].pc # "idle" /\ lastAppRow[c].live) => app.live \/ goneAt >= inv[c].entered
=============================================================================
