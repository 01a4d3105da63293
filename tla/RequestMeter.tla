----------------------------- MODULE RequestMeter -----------------------------
(***************************************************************************)
(* Counting the requests of one organization, and the two brakes            *)
(* (lib/frontend-authorizer/index.js).                                     *)
(*                                                                         *)
(* Every request of a site is counted for its application's usage report,  *)
(* beside everything else; it is counted against the organization's month, *)
(* whose plan may cut it off; and against the minute and the quarter-hour  *)
(* of its address, whose limits may refuse it.  All counters are atomic    *)
(* additions in DynamoDB that return what they made; all fail open.        *)
(*                                                                         *)
(* Containers share the counters and each remembers the plan for a while.  *)
(* A request is what authorize does after the origin lock; its gate is one *)
(* step here (FrontendAuthorizer has it).                                  *)
(***************************************************************************)
EXTENDS Integers, FiniteSets

CONSTANTS
    Containers,   \* execution environments of the function
    Apps,         \* applications of the organization
    Addresses,    \* viewer addresses
    Plans,        \* maxRequestsMonth of the registry; 0 when there is none
    EdgeReports,  \* what the connector may report from CloudFront's log
    Counted,      \* requests counted before the model's first instant
    RateLimit,    \* kind of rate counter -> its limit
    Blocking,     \* the kinds that refuse, the others only report
    CapLife,      \* ORG_CAP_TTL_MS
    Limit,        \* the function's timeout
    MinuteLength, WindowLength, MonthLength,
    MaxRequests,  \* bound: requests
    MaxFaults,    \* bound: calls to DynamoDB that go wrong
    MaxChanges,   \* bound: writes of the connector
    MaxClock      \* bound: the last instant of the model

\* RATE_LIMIT_PER_MINUTE, RATE_WINDOW_LIMIT, AUTH_RATE_LIMIT.
Kinds == {"minute", "window", "auth"}

ASSUME MeterAssumption ==
    /\ IsFiniteSet(Containers)
    /\ Plans \subseteq Nat /\ EdgeReports \subseteq Nat /\ Counted \in Nat
    /\ RateLimit \in [Kinds -> Nat] /\ Blocking \subseteq Kinds
    /\ {CapLife, Limit} \subseteq Nat \ {0}
    /\ {MinuteLength, WindowLength, MonthLength} \subseteq Nat \ {0}
    /\ {MaxRequests, MaxFaults, MaxChanges, MaxClock} \subseteq Nat

VARIABLES
    clock,     \* time since the start
    plan,      \* the organization's maxRequestsMonth
    edge,      \* month -> edge_requests, written by the connector
    org,       \* month -> requests of the organization
    count,     \* application and month -> requests of the usage report
    hits,      \* rate bucket -> hits
    capCache,  \* orgCapCache of each container
    inv,       \* the request each container serves
    arrivals, faults, changes,  \* spent of the bounds
    inForce,   \* history: the last instant each former plan was in force
    lastUnder, \* history: the last instant the month was within the plan
    passes,    \* history: rate bucket -> requests it counted and let pass
    answered,  \* history: application and month -> requests answered
    uncounted, \* history: the same, of which the count was refused
    lost       \* history: an invocation died of a count that failed

vars == <<clock, plan, edge, org, count, hits, capCache, inv, arrivals, faults,
          changes, inForce, lastUnder, passes, answered, uncounted, lost>>

store == <<plan, edge, org, count, hits>>
histories == <<inForce, passes, answered, uncounted, lost>>

-----------------------------------------------------------------------------

Months == 0 .. MaxClock \div MonthLength
Month(t) == t \div MonthLength

\* The bucket a request falls into: its application, its address and the
\* minute or the window it began its checks in.
Bucket(k, q) ==
    <<k, q.app, q.ip, q.minute \div (IF k = "window" THEN WindowLength ELSE MinuteLength)>>

Buckets == Kinds \X Apps \X Addresses \X (0 .. MaxClock)

\* A counter without a limit is not kept; the third is the login tree's only.
KindsOf(auth) == {k \in Kinds : RateLimit[k] > 0 /\ (k = "auth" => auth)}

\* A request.
\*   counting  the usage count under way beside it: bumpRequestCount
\*   cap       the plan it goes by, 0 for none
\*   kinds     the rate counters it is counted by
\*   waiting   those that have not answered
\*   over      rate counters it is over
\*   clean     rate counters that answered
\*   unsure    a plan or a month that could not be read
NoRequest ==
    [pc |-> "idle", app |-> "none", ip |-> "none", kinds |-> {}, entered |-> 0,
     counting |-> "none", cap |-> 0, month |-> 0, minute |-> 0, waiting |-> {},
     over |-> {}, clean |-> {}, unsure |-> FALSE, verdict |-> "none"]

NoCap == [at |-> -CapLife, cap |-> 0]

\* Long before the first instant.
Long == -(CapLife + Limit)

\* An update that goes well, and the others: retried by the SDK after its
\* answer was lost, refused, or refused to all appearances.
Clean == [ok |-> TRUE, n |-> 1]
Outcomes == {Clean, [ok |-> TRUE, n |-> 2], [ok |-> FALSE, n |-> 0], [ok |-> FALSE, n |-> 1]}

Spend(cost) == faults + cost <= MaxFaults /\ faults' = faults + cost
Suffer(o) == Spend(IF o = Clean THEN 0 ELSE 1)

\* checkMonthlyCap: the larger of the two counts, past 105 % of a plan.
Larger(a, b) == IF a > b THEN a ELSE b
OverPlan(live, log, cap) == cap > 0 /\ 100 * Larger(live, log) > 105 * cap

Over == OverPlan(org[Month(clock)], edge[Month(clock)], plan)

\* The container works on its request, its timeout not reached.
At(c, pc) == inv[c].pc = pc /\ clock < inv[c].entered + Limit
Goes(c, q) == inv' = [inv EXCEPT ![c] = q]
Dies(c) == Goes(c, NoRequest) /\ capCache' = [capCache EXCEPT ![c] = NoCap]

\* The verdict; what led to it is forgotten.
Ends(q, verdict) ==
    [q EXCEPT !.pc = "settle", !.verdict = verdict, !.cap = 0,
              !.waiting = {}, !.over = {}, !.clean = {}]

\* The checks of the rates begin together.
Rated(q) == [q EXCEPT !.pc = "rate", !.minute = clock, !.waiting = q.kinds]

Init ==
    /\ clock = 0 /\ plan \in Plans
    /\ edge = [m \in Months |-> 0]
    /\ org = [m \in Months |-> IF m = 0 THEN Counted ELSE 0]
    /\ count = [key \in Apps \X Months |-> 0]
    /\ hits = [b \in Buckets |-> 0]
    /\ capCache = [c \in Containers |-> NoCap]
    /\ inv = [c \in Containers |-> NoRequest]
    /\ arrivals = 0 /\ faults = 0 /\ changes = 0
    /\ inForce = [p \in Plans |-> Long] /\ lastUnder = 0
    /\ passes = [b \in Buckets |-> 0]
    /\ answered = [key \in Apps \X Months |-> 0]
    /\ uncounted = [key \in Apps \X Months |-> 0]
    /\ lost = FALSE

-----------------------------------------------------------------------------
(* One request.                                                            *)

Arrive(c) ==
    /\ inv[c].pc = "idle" /\ arrivals < MaxRequests
    /\ \E a \in Apps, i \in Addresses, auth \in BOOLEAN :
         Goes(c, [NoRequest EXCEPT !.pc = "cap", !.app = a, !.ip = i, !.kinds = KindsOf(auth),
                                   !.entered = clock, !.counting = "pending"])
    /\ arrivals' = arrivals + 1
    /\ UNCHANGED <<clock, store, capCache, faults, changes, histories>>

\* bumpRequestCount's answer.  Nobody waits for it before the request has its
\* verdict: a refusal that comes earlier is a rejection without a handler, of
\* which Node.js, and the invocation with it, dies.
CountEnds(c) ==
    LET q == inv[c]
        key == <<q.app, Month(q.entered)>>
    IN
    /\ q.counting = "pending" /\ clock < q.entered + Limit
    /\ \E o \in Outcomes :
        /\ Suffer(o)
        /\ count' = [count EXCEPT ![key] = @ + o.n]
        /\ \/ o.ok /\ Goes(c, [q EXCEPT !.counting = "written"])
              /\ UNCHANGED <<capCache, uncounted, lost>>
           \/ ~o.ok /\ q.pc = "settle" /\ Goes(c, [q EXCEPT !.counting = "failed"])
              /\ uncounted' = [uncounted EXCEPT ![key] = @ + 1]
              /\ UNCHANGED <<capCache, lost>>
           \/ ~o.ok /\ q.pc # "settle" /\ Dies(c) /\ lost' = TRUE
              /\ UNCHANGED uncounted
    /\ UNCHANGED <<clock, plan, edge, org, hits, arrivals, changes, inForce, passes, answered>>

\* Mutant: a plan once read is kept.
FreshForEver(c) == capCache[c].at >= 0

Fresh(c) == clock - capCache[c].at < CapLife

\* orgRequestCap from the cache, or from the registry, without ConsistentRead: a
\* plan changed this instant may be the one that is read; an error is no plan, and
\* is not remembered.
ReadCap(c) ==
    LET q == inv[c] IN
    /\ At(c, "cap")
    /\ \/ /\ Fresh(c) /\ Spend(0)
          /\ Goes(c, [q EXCEPT !.pc = "org", !.cap = capCache[c].cap, !.month = Month(clock)])
       \/ /\ ~Fresh(c) /\ Spend(0)
          /\ \E p \in Plans :
               /\ p = plan \/ inForce[p] = clock
               /\ Goes(c, [q EXCEPT !.pc = "stamp", !.cap = p])
       \/ /\ ~Fresh(c) /\ Spend(1)
          /\ Goes(c, [q EXCEPT !.pc = "org", !.month = Month(clock), !.unsure = TRUE])
    /\ UNCHANGED <<clock, store, capCache, arrivals, changes, histories>>

\* Mutant: the entry carries its expiry.
StampCapExpiry(c) ==
    /\ At(c, "stamp")
    /\ capCache' = [capCache EXCEPT ![c] = [at |-> clock + CapLife, cap |-> inv[c].cap]]
    /\ Goes(c, [inv[c] EXCEPT !.pc = "org", !.month = Month(clock)])
    /\ UNCHANGED <<clock, store, arrivals, faults, changes, histories>>

\* The registry's answer is remembered from the moment it arrives.
StampCap(c) ==
    /\ At(c, "stamp")
    /\ capCache' = [capCache EXCEPT ![c] = [at |-> clock, cap |-> inv[c].cap]]
    /\ Goes(c, [inv[c] EXCEPT !.pc = "org", !.month = Month(clock)])
    /\ UNCHANGED <<clock, store, arrivals, faults, changes, histories>>

\* checkMonthlyCap: counted whatever the plan; a count that fails is within it.
BumpOrg(c) ==
    LET q == inv[c] IN
    /\ At(c, "org")
    /\ \E o \in Outcomes :
        /\ Suffer(o)
        /\ org' = [org EXCEPT ![q.month] = @ + o.n]
        /\ Goes(c, IF ~o.ok THEN Rated([q EXCEPT !.unsure = TRUE])
                   ELSE IF OverPlan(org'[q.month], edge[q.month], q.cap)
                        THEN Ends(q, "cap")
                        ELSE Rated(q))
    /\ UNCHANGED <<clock, plan, edge, count, hits, capCache, arrivals, changes, histories>>

\* Mutants: the limit is compared with what the bucket held before, or a
\* counter that fails refuses.
BumpRateReadingOld(c) ==
    LET q == inv[c] IN
    /\ At(c, "rate")
    /\ \E k \in q.waiting, o \in Outcomes :
        /\ Suffer(o)
        /\ hits' = [hits EXCEPT ![Bucket(k, q)] = @ + o.n]
        /\ Goes(c, [q EXCEPT
             !.waiting = @ \ {k},
             !.clean = IF o.ok THEN @ \cup {k} ELSE @,
             !.over = IF o.ok /\ hits[Bucket(k, q)] > RateLimit[k] THEN @ \cup {k} ELSE @])
    /\ UNCHANGED <<clock, plan, edge, org, count, capCache, arrivals, changes, histories>>

BumpRateFailingClosed(c) ==
    LET q == inv[c] IN
    /\ At(c, "rate")
    /\ \E k \in q.waiting, o \in Outcomes :
        /\ Suffer(o)
        /\ hits' = [hits EXCEPT ![Bucket(k, q)] = @ + o.n]
        /\ Goes(c, [q EXCEPT
             !.waiting = @ \ {k},
             !.clean = IF o.ok THEN @ \cup {k} ELSE @,
             !.over = IF o.ok => hits'[Bucket(k, q)] > RateLimit[k] THEN @ \cup {k} ELSE @])
    /\ UNCHANGED <<clock, plan, edge, org, count, capCache, arrivals, changes, histories>>

\* checkRate, checkWindow, checkAuthRate: each adds and reads its own result; a
\* counter that fails is not over.
BumpRate(c) ==
    LET q == inv[c] IN
    /\ At(c, "rate")
    /\ \E k \in q.waiting, o \in Outcomes :
        /\ Suffer(o)
        /\ hits' = [hits EXCEPT ![Bucket(k, q)] = @ + o.n]
        /\ Goes(c, [q EXCEPT
             !.waiting = @ \ {k},
             !.clean = IF o.ok THEN @ \cup {k} ELSE @,
             !.over = IF o.ok /\ hits'[Bucket(k, q)] > RateLimit[k] THEN @ \cup {k} ELSE @])
    /\ UNCHANGED <<clock, plan, edge, org, count, capCache, arrivals, changes, histories>>

\* All have answered.  A request that passes goes on to the gate and the
\* cookies, which lie between this step and its verdict.
Throttle(c) ==
    LET q == inv[c] IN
    /\ At(c, "rate") /\ q.waiting = {}
    /\ IF q.over \cap Blocking # {}
       THEN Goes(c, Ends(q, "rate")) /\ UNCHANGED passes
       ELSE /\ Goes(c, Ends(q, "passed"))
            /\ passes' = [b \in Buckets |->
                 passes[b] + (IF \E k \in q.clean : b = Bucket(k, q) THEN 1 ELSE 0)]
    /\ UNCHANGED <<clock, store, capCache, arrivals, faults, changes,
                   inForce, answered, uncounted, lost>>

\* Mutant: the answer does not wait for the count, which is frozen with the
\* container.
SettleUnawaited(c) ==
    LET key == <<inv[c].app, Month(inv[c].entered)>> IN
    /\ At(c, "settle")
    /\ Goes(c, NoRequest)
    /\ answered' = [answered EXCEPT ![key] = @ + 1]
    /\ UNCHANGED <<clock, store, capCache, arrivals, faults, changes,
                   inForce, passes, uncounted, lost>>

\* The verdict is answered once the count is settled, either way.  What authorize
\* looks up meanwhile, the pool and its keys, is FrontendAuthorizer's: to the meter
\* it is time.
Settle(c) ==
    LET key == <<inv[c].app, Month(inv[c].entered)>> IN
    /\ At(c, "settle") /\ inv[c].counting # "pending"
    /\ Goes(c, NoRequest)
    /\ answered' = [answered EXCEPT ![key] = @ + 1]
    /\ UNCHANGED <<clock, store, capCache, arrivals, faults, changes,
                   inForce, passes, uncounted, lost>>

\* Lambda kills the invocation at its timeout.
Killed(c) ==
    /\ inv[c].pc # "idle" /\ clock >= inv[c].entered + Limit
    /\ Dies(c)
    /\ UNCHANGED <<clock, store, arrivals, faults, changes, histories>>

-----------------------------------------------------------------------------
(* The connector, and time.                                                *)

ChangePlan ==
    /\ changes < MaxChanges /\ changes' = changes + 1
    /\ plan' \in Plans \ {plan} /\ inForce' = [inForce EXCEPT ![plan] = clock]
    /\ UNCHANGED <<clock, edge, org, count, hits, capCache, inv, arrivals, faults,
                   passes, answered, uncounted, lost>>

ReportEdge ==
    /\ changes < MaxChanges /\ changes' = changes + 1
    /\ \E n \in EdgeReports : edge' = [edge EXCEPT ![Month(clock)] = Larger(@, n)]
    /\ UNCHANGED <<clock, plan, org, count, hits, capCache, inv, arrivals, faults, histories>>

Tick ==
    /\ clock < MaxClock
    /\ \A c \in Containers : inv[c].pc # "idle" => clock < inv[c].entered + Limit
    /\ clock' = clock + 1
    /\ UNCHANGED <<store, capCache, inv, arrivals, faults, changes, histories>>

\* The bounds of the model are reached.
AllOver ==
    /\ clock = MaxClock /\ arrivals = MaxRequests
    /\ \A c \in Containers : inv[c].pc = "idle"
    /\ UNCHANGED <<clock, store, capCache, inv, arrivals, faults, changes, histories>>

Serve(c) ==
    \/ Arrive(c) \/ CountEnds(c) \/ ReadCap(c) \/ StampCap(c) \/ BumpOrg(c)
    \/ BumpRate(c) \/ Throttle(c) \/ Settle(c) \/ Killed(c)

\* Every step records whether it leaves the month within the plan.
Next ==
    /\ \/ \E c \in Containers : Serve(c)
       \/ ChangePlan \/ ReportEdge \/ Tick \/ AllOver
    /\ lastUnder' = IF Over' THEN lastUnder ELSE clock'

Spec == Init /\ [][Next]_vars

-----------------------------------------------------------------------------
(* Properties.                                                             *)

\* Counters and caches keep their types; a plan is remembered from an instant
\* that has been.
TypeOK ==
    /\ clock \in 0..MaxClock /\ plan \in Plans
    /\ edge \in [Months -> Nat] /\ org \in [Months -> Nat]
    /\ count \in [Apps \X Months -> Nat] /\ hits \in [Buckets -> Nat]
    /\ capCache \in [Containers -> [at: -CapLife..clock, cap: Plans \cup {0}]]
    /\ arrivals \in 0..MaxRequests /\ faults \in 0..MaxFaults /\ changes \in 0..MaxChanges
    /\ inForce \in [Plans -> {Long} \cup 0..clock] /\ lastUnder \in 0..clock
    /\ passes \in [Buckets -> 0..arrivals]
    /\ answered \in [Apps \X Months -> 0..arrivals]
    /\ uncounted \in [Apps \X Months -> 0..arrivals]
    /\ lost \in BOOLEAN
    /\ \A c \in Containers :
        inv[c] = NoRequest \/
        inv[c] \in
          [pc: {"cap", "stamp", "org", "rate", "settle"}, app: Apps, ip: Addresses,
           kinds: SUBSET Kinds, entered: 0..clock, counting: {"pending", "written", "failed"},
           cap: Plans \cup {0}, month: Months, minute: 0..clock, waiting: SUBSET Kinds,
           over: SUBSET Kinds, clean: SUBSET Kinds, unsure: BOOLEAN,
           verdict: {"none", "cap", "rate", "passed"}]

\* The last instant a request may arrive that goes by what the registry said at
\* t: a request that read it then remembers it when its answer comes, within
\* Limit, and others find it for CapLife.
HeardBy(t) == t + (Limit - 1) + (CapLife - 1)

\* An organization past 105 % of its plan is cut, in every container, once the
\* plan has been heard, unless a call of the request itself failed.
CutTakesEffect ==
    \A c \in Containers :
        inv[c].verdict = "passed" /\ ~inv[c].unsure => inv[c].entered <= HeardBy(lastUnder)

\* A request is refused for its organization's month only if that month is past
\* the plan, or past a former one a container may still go by; and by the rate
\* guard only if its own bucket is past the limit.  What cannot be read or
\* written never refuses ("a counter we cannot write must never be the reason a
\* working page is refused").
RefusedForCause ==
    \A c \in Containers :
        LET q == inv[c] IN
        /\ (q.verdict = "cap" =>
              \E p \in Plans : /\ p = plan \/ q.entered <= HeardBy(inForce[p])
                               /\ OverPlan(org[q.month], edge[q.month], p))
        /\ (q.verdict = "rate" =>
              \E k \in Blocking : hits[Bucket(k, q)] > RateLimit[k])

\* The cap falls where the month is past the plan, and nowhere else.
CutWhereDue == CutTakesEffect /\ RefusedForCause

\* However many requests of an address come at once, a bucket that refuses lets
\* no more pass than its limit, not counting those it failed to count ("each
\* concurrent request gets a distinct number").
RateHolds ==
    \A b \in Buckets : b[1] \in Blocking => passes[b] <= RateLimit[b[1]]

\* Whatever the verdict, a request that was answered is in the usage report,
\* unless its count was refused ("count it whatever the answer turns out to
\* be").
AnsweredIsCounted ==
    \A a \in Apps, m \in Months :
        answered[<<a, m>>] <= count[<<a, m>>] + uncounted[<<a, m>>]

\* A count that cannot be written never costs a request its answer ("a missing
\* number must never cost a working page its answer").
CountCostsNoAnswer == ~lost
-----------------------------------------------------------------------------
(* What makes RateHolds and AnsweredIsCounted inductive.                   *)

Request ==
    [pc: {"idle", "cap", "stamp", "org", "rate", "settle"}, app: Apps \cup {"none"},
     ip: Addresses \cup {"none"}, kinds: SUBSET Kinds, entered: Int,
     counting: {"none", "pending", "written", "failed"}, cap: Nat, month: Int, minute: Int,
     waiting: SUBSET Kinds, over: SUBSET Kinds, clean: SUBSET Kinds, unsure: BOOLEAN,
     verdict: {"none", "cap", "rate", "passed"}]

\* A counter answers a request once, and only while its rates are checked; a
\* request served has begun its count.
Orderly(q) ==
    /\ q.waiting \cap q.clean = {}
    /\ q.pc # "rate" => q.clean = {}
    /\ q.pc # "idle" => q.counting # "none"

MeterShape ==
    /\ clock \in Nat /\ plan \in Nat
    /\ capCache \in [Containers -> [at: Int, cap: Nat]]
    /\ hits \in [Buckets -> Nat] /\ passes \in [Buckets -> Nat]
    /\ count \in [Apps \X Months -> Nat]
    /\ answered \in [Apps \X Months -> Nat] /\ uncounted \in [Apps \X Months -> Nat]
    /\ inv \in [Containers -> Request]
    /\ \A c \in Containers : Orderly(inv[c])

\* Counted by bucket b within its limit, and without a verdict.
Within(q, b) == \E k \in q.clean \ q.over : b = Bucket(k, q)

\* Its count under key is written, or refused, and it has no answer.
Settled(q, key) ==
    q.counting \in {"written", "failed"} /\ key = <<q.app, Month(q.entered)>>

Holders(b) == {c \in Containers : Within(inv[c], b)}
Owed(key) == {c \in Containers : Settled(inv[c], key)}

\* Each request let pass, or about to be, had a hit of its own within the limit.
RatesInvariant ==
    \A b \in Buckets : b[1] \in Blocking =>
        /\ passes[b] + Cardinality(Holders(b)) <= hits[b]
        /\ passes[b] + Cardinality(Holders(b)) <= RateLimit[b[1]]

\* Each request answered, or about to be, has a count of its own, or lost it.
CountsInvariant ==
    \A key \in Apps \X Months :
        answered[key] + Cardinality(Owed(key)) <= count[key] + uncounted[key]

MeterInvariant == MeterShape /\ RatesInvariant /\ CountsInvariant

-----------------------------------------------------------------------------
(* What makes CutWhereDue and TypeOK inductive.                            *)

\* Past plan p in the month under way.
Past(p) == OverPlan(org[Month(clock)], edge[Month(clock)], p)

\* What is known of a plan read at t or later: it was in force then, and if the
\* month has been past its plan ever since, it is past this one too.
Knows(p, t) ==
    /\ p # 0 => p \in Plans /\ (p = plan \/ t <= inForce[p])
    /\ t > lastUnder => Past(p)

\* A request goes by a plan read since it came, or by one remembered, which is
\* older by as much as HeardBy allows; its verdict follows from what it read.
PlanSound(q) ==
    /\ q.verdict # "none" => q.pc = "settle"
    /\ q.pc = "cap" => q.cap = 0 /\ ~q.unsure
    /\ q.pc # "rate" => q.over = {}
    /\ q.pc = "stamp" => ~q.unsure /\ Knows(q.cap, q.entered)
    /\ q.pc = "org" =>
         /\ q.month <= Month(clock)
         /\ q.entered > lastUnder => q.month = Month(clock)
         /\ IF q.unsure THEN q.cap = 0 ELSE Knows(q.cap, q.entered - HeardBy(0))
    /\ (q.pc = "rate" \/ q.verdict = "passed") /\ ~q.unsure =>
         q.entered <= HeardBy(lastUnder)
    /\ q.pc = "rate" => \A k \in q.over : hits[Bucket(k, q)] > RateLimit[k]

\* A plan is remembered from the answer on, at most Limit after the question.
CachesSound ==
    \A c \in Containers : Knows(capCache[c].cap, capCache[c].at - (Limit - 1))

\* So is the plan in force, and the one it replaced this instant.
LeftSound == \A p \in Plans : p = plan \/ inForce[p] = clock => Knows(p, clock)

\* Nothing is counted, and nothing reported, in a month to come.
MonthsToCome ==
    \A m \in Months : m > Month(clock) => org[m] = 0 /\ edge[m] = 0

PlanInvariant ==
    /\ MonthsToCome /\ CachesSound /\ LeftSound /\ RefusedForCause
    /\ \A c \in Containers : PlanSound(inv[c])

\* The requests in each stage, and the histories a request may still enter.
Unanswered == {c \in Containers : inv[c].pc # "idle"}
Unjudged == {c \in Containers : inv[c].pc \notin {"idle", "settle"}}
Uncertain == {c \in Containers : inv[c].counting = "pending"}

ArrivalsInvariant ==
    /\ \A key \in Apps \X Months :
         /\ answered[key] + Cardinality(Unanswered) <= arrivals
         /\ uncounted[key] + Cardinality(Uncertain) <= arrivals
    /\ \A b \in Buckets : passes[b] + Cardinality(Unjudged) <= arrivals
=============================================================================
