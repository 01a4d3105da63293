------------------------------ MODULE AlarmWatch ------------------------------
(***************************************************************************)
(* What rings an alarm, before SNS and the relay (AlarmRelay).             *)
(*                                                                         *)
(* Edge: CloudFront publishes the region router's metrics in another       *)
(* region; a bridge function, started once a Step by an EventBridge rule,  *)
(* copies one closed bucket, stamped with the minute of the copy, for the  *)
(* alarms of this region.  A bridge that throws rings an alarm of its own. *)
(*                                                                         *)
(* Gateway: the 5xx lines of the access log that the gateway's tenants     *)
(* share are sorted by metric filters: an application's own errors and a   *)
(* third party's are taken from the total, the rest are the platform's.    *)
(*                                                                         *)
(* An alarm judges one Step at its end; missing data do not breach.        *)
(***************************************************************************)
EXTENDS Integers

CONSTANTS
    Step,        \* minutes of a bucket, of the rule and of an alarm's period
    MaxDelay,    \* minutes a tick may wait at EventBridge and in Lambda's queue
    Retries,     \* times Lambda repeats an asynchronous invocation that failed
    MaxTroubles, \* bound: ticks late or lost, invocations failed
    MaxLines,    \* bound: lines of the access log in a period
    MaxClock     \* bound, in minutes

ASSUME WatchAssumption ==
    /\ Step \in Nat \ {0} /\ MaxDelay \in Nat /\ Retries \in Nat
    /\ MaxTroubles \in Nat /\ MaxLines \in Nat /\ MaxClock \in Nat

VARIABLES
    road,     \* what this behaviour watches: the edge or the gateway
    clock,
    world,    \* the rule's minute of the step, CloudFront's delay, the buckets of errors
    runs,     \* invocations of the bridge to come
    period,   \* what the period under way has gathered
    closed,   \* history: the period the alarms judged last
    alarm,    \* the state of each alarm
    troubles

watchVars == <<road, clock, world, runs, period, closed, alarm, troubles>>

-----------------------------------------------------------------------------

Missing == -1

\* point    the router's metric, copied to this region
\* errors   invocations of the bridge that threw
\* total, tenantApp, upstream   the three counts of the access log
\* ticked   the rule has fired
\* History: started, this period's first invocation began within it; strayed, an
\* invocation began that is not of this period's tick; breach, the bucket to
\* read had errors; ours, theirs, the lines by whose fault they are.
Nothing ==
    [point |-> Missing, errors |-> 0, total |-> 0, tenantApp |-> 0, upstream |-> 0,
     ticked |-> FALSE, started |-> FALSE, strayed |-> FALSE, breach |-> FALSE,
     ours |-> 0, theirs |-> 0, lines |-> 0]

Now == clock \div Step

\* Mutant: the bucket that has just closed.
BucketOfLast(minute) == minute \div Step - 1

\* The bucket a copy reads: the last one that has been closed for a Step.
BucketOf(minute) == minute \div Step - 2

\* GetMetricData: one bucket, if CloudFront has published it and had any error.
Value(bucket) ==
    IF bucket \in world.broken /\ clock >= (bucket + 1) * Step + world.publishing
    THEN 1 ELSE Missing

WatchInit ==
    /\ road \in {"edge", "gateway"}
    /\ clock = 0
    /\ world \in IF road = "edge"
                 THEN [minute: 0..(Step - 1), publishing: 0..Step, broken: SUBSET {0, 1}]
                 ELSE {[minute |-> 0, publishing |-> 0, broken |-> {}]}
    /\ runs = {}
    /\ period = Nothing /\ closed = Nothing
    /\ alarm = [a \in {"router", "bridge", "platform", "tenant"} |-> "INSUFFICIENT_DATA"]
    /\ troubles = 0

Trouble == troubles < MaxTroubles /\ troubles' = troubles + 1

-----------------------------------------------------------------------------
(* The edge.                                                               *)

TickDue == road = "edge" /\ clock % Step = world.minute /\ ~period.ticked

\* The rule fires: its event starts the bridge now, later, or never.
Tick ==
    /\ TickDue
    /\ period' = [period EXCEPT !.ticked = TRUE]
    /\ \/ UNCHANGED troubles /\ runs' = runs \cup {[tick |-> Now, at |-> clock, try |-> 0]}
       \/ /\ Trouble
          /\ \E d \in 1..MaxDelay : runs' = runs \cup {[tick |-> Now, at |-> clock + d, try |-> 0]}
       \/ Trouble /\ UNCHANGED runs
    /\ UNCHANGED <<road, clock, world, closed, alarm>>

Begun(p, r) ==
    [p EXCEPT !.started = @ \/ (r.tick = Now /\ r.try = 0),
              !.strayed = @ \/ r.tick # Now]

Published(p) ==
    LET v == Value(BucketOf(clock)) IN
    IF v = Missing THEN p ELSE [p EXCEPT !.point = IF @ = Missing THEN v ELSE @ + v]

\* A run that throws is an error of the function.
Failed(p) == [p EXCEPT !.errors = @ + 1]

\* One run of the bridge.  It may throw before it has published, or after, the
\* answer lost; Lambda repeats it a minute later, then two.  (The rule's own
\* retryAttempts are of another queue.)
Copy(r) ==
    /\ r \in runs /\ r.at = clock
    /\ \/ /\ period' = Published(Begun(period, r))
          /\ runs' = runs \ {r} /\ UNCHANGED troubles
       \/ /\ Trouble
          /\ \E p \in {Begun(period, r), Published(Begun(period, r))} : period' = Failed(p)
          /\ runs' = (runs \ {r}) \cup
                     {[r EXCEPT !.at = @ + n, !.try = n] : n \in {r.try + 1} \cap (1..Retries)}
    /\ UNCHANGED <<road, clock, world, closed, alarm>>

-----------------------------------------------------------------------------
(* The gateway.                                                            *)

\* What happened to a request, and the lines it may leave in the access log.
Line(status, int, error, route) ==
    [status |-> status, int |-> int, error |-> error, route |-> route]

Lines(cause) ==
    CASE cause = "page" -> {Line("200", "200", FALSE, "site")}
      [] cause = "appError" -> {Line(s, "200", FALSE, "site") : s \in {"500", "502", "503", "504"}}
      [] cause = "appMalformed" -> {Line("502", "200", TRUE, "site")}
      [] cause = "timeout" -> {Line("504", "-", TRUE, r) : r \in {"site", "outbound", "other"}}
      [] cause = "thirdParty" -> {Line(s, "200", FALSE, "outbound") : s \in {"502", "504"}}
      [] cause = "malformed" -> {Line("502", "200", TRUE, r) : r \in {"outbound", "other"}}
      [] cause = "bug" -> {Line("500", "200", FALSE, r) : r \in {"outbound", "other"}}
      [] cause = "refused" -> {Line("500", "-", TRUE, r) : r \in {"site", "other"}}

Causes == {"page", "appError", "appMalformed", "timeout", "thirdParty", "malformed", "bug", "refused"}
Tenants == {"appError", "appMalformed"}
Ours == {"timeout", "malformed", "bug", "refused"}

\* The three metric filters.
Is5xx(l) == l.status \in {"500", "502", "503", "504"}
IsTenantApp(l) == Is5xx(l) /\ l.int = "200" /\ l.route = "site"

IsUpstream(l) ==
    l.status \in {"502", "504"} /\ l.int = "200" /\ ~l.error /\ l.route = "outbound"

One(yes) == IF yes THEN 1 ELSE 0

Log(cause) ==
    /\ road = "gateway" /\ period.lines < MaxLines
    /\ \E l \in Lines(cause) :
         period' = [period EXCEPT
             !.lines = @ + 1, !.total = @ + One(Is5xx(l)),
             !.tenantApp = @ + One(IsTenantApp(l)), !.upstream = @ + One(IsUpstream(l)),
             !.theirs = @ + One(cause \in Tenants), !.ours = @ + One(cause \in Ours)]
    /\ UNCHANGED <<road, clock, world, runs, closed, alarm, troubles>>

-----------------------------------------------------------------------------
(* The alarms.                                                             *)

\* Mutant: the filters have no default value.
SumOfMatches(n) == IF n = 0 THEN Missing ELSE n

\* A filter counts 0, not nothing, in a period that has lines but none of its own.
Sum(n) == IF period.lines = 0 THEN Missing ELSE n

\* An expression has no value where one of its metrics has none.
PlatformFaults ==
    IF Missing \in {Sum(period.total), Sum(period.tenantApp), Sum(period.upstream)} THEN Missing
    ELSE period.total - period.tenantApp - period.upstream

Judged(value, threshold) ==
    IF value # Missing /\ value >= threshold THEN "ALARM" ELSE "OK"

\* A minute passes once what is due in it has been done; the last of a period is
\* when its alarms are judged.
Minute ==
    /\ clock < MaxClock /\ ~TickDue /\ \A r \in runs : r.at > clock
    /\ clock' = clock + (IF road = "edge" THEN 1 ELSE Step)
    /\ IF clock' % Step = 0
       THEN /\ closed' = [period EXCEPT !.breach = BucketOf(clock) \in world.broken]
            /\ alarm' = [router |-> Judged(period.point, 1), bridge |-> Judged(period.errors, 1),
                         platform |-> Judged(PlatformFaults, 1),
                         tenant |-> Judged(Sum(period.tenantApp), 3)]
            /\ period' = Nothing
       ELSE UNCHANGED <<closed, alarm, period>>
    /\ UNCHANGED <<road, world, runs, troubles>>

WatchNext ==
    \/ Tick \/ (\E r \in runs : Copy(r)) \/ (\E cause \in Causes : Log(cause)) \/ Minute

WatchSpec == WatchInit /\ [][WatchNext]_watchVars

-----------------------------------------------------------------------------
(* Properties.                                                             *)

\* Errors at the edge ring 10 to 15 minutes after their bucket began, unless the
\* bridge's own alarm says that the watch is blind, or the period's tick never
\* came in its period; nothing rings for a bucket without errors, and a bucket
\* is published once unless a run was repeated or came in another's period
\* ("consecutive runs never read the same one twice").
BreachRings ==
    /\ closed.breach /\ closed.started => "ALARM" \in {alarm.router, alarm.bridge}
    /\ alarm.router = "ALARM" => closed.breach
    /\ closed.point > 1 => closed.errors > 0 \/ closed.strayed

\* The platform's alarm rings in every period with a fault of the platform's, and
\* in no other, however many of the tenants' and of third parties' share it; the
\* tenants' rings at their third.
EachFaultRingsItsOwn ==
    /\ alarm.platform = "ALARM" <=> closed.ours > 0
    /\ alarm.tenant = "ALARM" <=> closed.theirs >= 3
-----------------------------------------------------------------------------
(* What makes the properties above inductive.                              *)

Gathering ==
    [point: {Missing} \cup (Nat \ {0}), errors: Nat, total: Nat, tenantApp: Nat, upstream: Nat,
     ticked: BOOLEAN, started: BOOLEAN, strayed: BOOLEAN, breach: BOOLEAN,
     ours: Nat, theirs: Nat, lines: Nat]

\* CloudFront publishes a bucket within a Step of its end, so that every copy of
\* a period finds the one it reads as it will stay.
WatchShape ==
    /\ road \in {"edge", "gateway"} /\ clock \in Nat /\ troubles \in Nat
    /\ world.publishing \in 0..Step
    /\ runs \in SUBSET [tick: Nat, at: Nat, try: Nat]
    /\ period \in Gathering /\ closed \in Gathering
    /\ road = "gateway" => runs = {} /\ period.point = Missing /\ ~period.started

\* The bridge has one run a tick to come; it is a repetition only of one that
\* failed, in the period of its tick or in a later one.
RunsInOrder ==
    /\ \A r \in runs :
        /\ r.tick <= Now /\ clock <= r.at
        /\ r.tick = Now => period.ticked
        /\ r.tick = Now /\ r.try > 0 => period.errors > 0
    /\ \A r, s \in runs : r.tick = s.tick => r = s

\* What the copies of a period tell of the bucket they read.
CopiesTell(p, broken) ==
    /\ p.point # Missing => broken
    /\ p.started /\ broken => p.point # Missing \/ p.errors > 0
    /\ p.point > 1 => p.errors > 0 \/ p.strayed

\* The run that copied was this period's, and the last of its tick, unless one
\* has failed or come from another.
CopiedOnce ==
    period.point # Missing =>
        \/ period.errors > 0 \/ period.strayed
        \/ period.point = 1 /\ period.ticked /\ \A r \in runs : r.tick # Now

\* The filters take from the total what is a tenant's and a third party's.
LinesSorted(p) ==
    /\ p.total = p.tenantApp + p.upstream + p.ours /\ p.theirs = p.tenantApp
    /\ p.lines = 0 => p.total = 0

\* The alarms say what the period that closed had gathered.
Judgements ==
    /\ alarm.router = "ALARM" <=> closed.point # Missing
    /\ alarm.bridge = "ALARM" <=> closed.errors > 0
    /\ EachFaultRingsItsOwn

WatchInvariant ==
    /\ WatchShape /\ RunsInOrder /\ CopiedOnce
    /\ CopiesTell(period, BucketOf(clock) \in world.broken)
    /\ CopiesTell(closed, closed.breach)
    /\ LinesSorted(period) /\ Judgements
=============================================================================
