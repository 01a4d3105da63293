----------------------------- MODULE OriginSecret -----------------------------
(***************************************************************************)
(* Rotation of the app-content origin secret in the primary pod.           *)
(*                                                                         *)
(* CloudFront stamps the secret on every request it forwards; the frontend *)
(* authorizer (lib/frontend-authorizer/index.js) refuses a site or auth    *)
(* request without it.  A deploy with a new secret changes five things, in *)
(* the order CloudFormation finds: the SSM parameter that remembers the    *)
(* secret and, since it names that parameter, the authorizer after it; the *)
(* shared distribution and, since it names that one, the connector after   *)
(* it; and the re-stamp Lambda (lib/byod-origin-restamp/index.js), which   *)
(* names nothing and goes over the distributions the connector made for    *)
(* custom domains.  A deploy that fails is rolled back the same way.       *)
(*                                                                         *)
(* Secrets are numbered in the order operators choose them; 0 is none.     *)
(***************************************************************************)
EXTENDS Integers, Sequences, FiniteSets

CONSTANTS
    Byod,             \* distributions of custom domains, present or to come
    Shared,           \* the distribution CloudFormation manages
    Containers,       \* execution environments of the authorizer
    Grace,            \* ORIGIN_SECRET_GRACE_SECONDS
    CacheLife,        \* life of originPrevCache (5 minutes)
    DeployTime,       \* a deploy takes at most this long
    Propagation,      \* CloudFront has a change everywhere after this long
    Faults,           \* TRUE: calls to SSM and CloudFront fail
    MaxSecrets,       \* bound: secrets chosen
    MaxClock          \* bound: the last instant of the model

ASSUME RotationAssumption ==
    /\ Shared \notin Byod
    /\ Grace \in Nat /\ CacheLife \in Nat /\ DeployTime \in Nat /\ Propagation \in Nat
    /\ Faults \in BOOLEAN
    /\ MaxSecrets \in Nat \ {0} /\ MaxClock \in Nat

\* The grace is a day unless an operator shortens it; a deploy and CloudFront's
\* propagation are a matter of minutes.
ASSUME GraceAssumption == DeployTime + Propagation < Grace

VARIABLES
    clock,      \* time since the start
    deploy,     \* the deploy under way, or the last one
    history,    \* the versions of the SSM parameter
    env,        \* what the authorizer's environment says
    cache,      \* originPrevCache of each container
    dist,       \* the distributions
    connector,  \* APP_CONTENT_ORIGIN_SECRET of the connector
    job         \* the re-stamp Lambda

vars == <<clock, deploy, history, env, cache, dist, connector, job>>

-----------------------------------------------------------------------------

Dists == Byod \cup {Shared}
Secrets == 1..MaxSecrets

\* The resources of a deploy.
Steps == {"param", "authorizer", "shared", "connector", "restamp"}

\* phase  rest, running, rollback; stuck: the rollback failed too
\* target, previous   the secret and the override the deploy carries
\* chosen   the last secret an operator chose
\* kept   the secret before this deploy, the one a rollback returns to
\* ordered   CloudFormation reaches the authorizer before the edges: nothing in
\*           the stack makes it
\* done   the resources it has updated
Deploy == [phase: {"rest", "running", "rollback", "stuck"}, target: Secrets,
           previous: Secrets \cup {0}, chosen: Secrets, kept: Secrets, ordered: BOOLEAN,
           done: SUBSET Steps, since: Nat]

\* A distribution: the secret its configuration stamps, the domains it serves,
\* the secrets some edge location still stamps, and when the change began.
Config == [stamp: Secrets, domains: Nat]
Dist == [exists: BOOLEAN, config: Config, live: SUBSET Secrets, since: Nat]

\* asked   history: SSM answered
NoCache == [value |-> 0, at |-> -CacheLife, asked |-> TRUE]
NoJob == [todo |-> {}, reading |-> {}, seen |-> [stamp |-> 1, domains |-> 0]]

Deploying == deploy.phase \in {"running", "rollback"}

\* The order of one deploy: a resource that names another comes after it.
Ready(step) ==
    /\ Deploying /\ step \notin deploy.done
    /\ step = "authorizer" => "param" \in deploy.done
    /\ step = "connector" => "shared" \in deploy.done
    /\ step \in {"shared", "restamp"} /\ deploy.ordered => "authorizer" \in deploy.done

Finished(step) == deploy' = [deploy EXCEPT !.done = @ \cup {step}]

\* Mutant: the walk keeps the last version of the parameter, not the one before.
PreviousInGraceLast ==
    IF Len(history) > 1 /\ clock - history[Len(history)].at < Grace
    THEN history[Len(history)].value ELSE 0

\* previousSecretInGrace: the version before the last, while the last is young.
PreviousInGrace ==
    IF Len(history) > 1 /\ clock - history[Len(history)].at < Grace
    THEN history[Len(history) - 1].value ELSE 0

Cached(c) == clock - cache[c].at < CacheLife

\* The origin lock: the current secret, the override, or the previous version.
Accepts(c, header) ==
    /\ header # 0
    /\ header \in {env.secret, env.previous,
                   IF Cached(c) THEN cache[c].value ELSE PreviousInGrace}

\* A new configuration of a distribution, on its way to the edge locations.
Restamped(d, config) ==
    [dist EXCEPT ![d] = [exists |-> TRUE, config |-> config,
                         live |-> dist[d].live \cup {config.stamp}, since |-> clock]]

Init ==
    /\ clock = 0
    /\ deploy = [phase |-> "rest", target |-> 1, previous |-> 0, chosen |-> 1,
                 kept |-> 1, ordered |-> TRUE, done |-> Steps, since |-> 0]
    /\ history = <<[value |-> 1, at |-> 0]>>
    /\ env = [secret |-> 1, previous |-> 0]
    /\ cache = [c \in Containers |-> NoCache]
    /\ dist = [d \in Dists |->
                 [exists |-> d = Shared, config |-> [stamp |-> 1, domains |-> 0],
                  live |-> IF d = Shared THEN {1} ELSE {}, since |-> 0]]
    /\ connector = 1
    /\ job = NoJob

-----------------------------------------------------------------------------
(* The authorizer.                                                         *)

\* A request whose header is neither secret of the environment asks SSM, unless
\* it did in the last minutes; an error is remembered like an answer.
LookUp(c) ==
    /\ ~Cached(c)
    /\ \E asked \in IF Faults THEN BOOLEAN ELSE {TRUE} :
         cache' = [cache EXCEPT ![c] =
                     [value |-> IF asked THEN PreviousInGrace ELSE 0,
                      at |-> clock, asked |-> asked]]
    /\ UNCHANGED <<clock, deploy, history, env, dist, connector, job>>

-----------------------------------------------------------------------------
(* A deploy.                                                               *)

Propagated(d) == dist[d].exists => dist[d].live = {dist[d].config.stamp}

\* An operator rotates, with or without appContentOriginSecretPrevious, once the
\* rotation before has reached every edge location.
Rotate ==
    /\ deploy.phase = "rest" /\ deploy.chosen < MaxSecrets
    /\ \A d \in Dists : Propagated(d)
    /\ \E previous \in {0, deploy.target}, ordered \in BOOLEAN :
         deploy' = [phase |-> "running", target |-> deploy.chosen + 1,
                    previous |-> previous, chosen |-> deploy.chosen + 1,
                    kept |-> deploy.target, ordered |-> ordered,
                    done |-> {}, since |-> clock]
    /\ UNCHANGED <<clock, history, env, cache, dist, connector, job>>

\* createOriginSecretParam: a new version of the parameter.
UpdateParam ==
    /\ Ready("param") /\ Finished("param")
    /\ history' = Append(history, [value |-> deploy.target, at |-> clock])
    /\ UNCHANGED <<clock, env, cache, dist, connector, job>>

\* Mutant: the authorizer does not wait for the parameter.
UpdateAuthorizerAnytime ==
    /\ Deploying /\ "authorizer" \notin deploy.done /\ Finished("authorizer")
    /\ env' = [secret |-> deploy.target, previous |-> deploy.previous]
    /\ cache' = [c \in Containers |-> NoCache]
    /\ UNCHANGED <<clock, history, dist, connector, job>>

\* New environment variables, new execution environments.
UpdateAuthorizer ==
    /\ Ready("authorizer") /\ Finished("authorizer")
    /\ env' = [secret |-> deploy.target, previous |-> deploy.previous]
    /\ cache' = [c \in Containers |-> NoCache]
    /\ UNCHANGED <<clock, history, dist, connector, job>>

UpdateShared ==
    /\ Ready("shared") /\ Finished("shared")
    /\ dist' = Restamped(Shared, [dist[Shared].config EXCEPT !.stamp = deploy.target])
    /\ UNCHANGED <<clock, history, env, cache, connector, job>>

\* CloudFormation waits for the shared distribution to be deployed everywhere.
UpdateConnector ==
    /\ Ready("connector") /\ Propagated(Shared) /\ Finished("connector")
    /\ connector' = deploy.target
    /\ UNCHANGED <<clock, history, env, cache, dist, job>>

-----------------------------------------------------------------------------
(* The re-stamp Lambda, a trigger of the deploy.                           *)

\* GetResources: the distributions tagged dilaya:byod at this moment.
RestampList ==
    /\ Ready("restamp") /\ Finished("restamp")
    /\ job' = [NoJob EXCEPT !.todo = {d \in Byod : dist[d].exists}]
    /\ UNCHANGED <<clock, history, env, cache, dist, connector>>

\* GetDistributionConfig: already current, or to be updated.
RestampGet(d) ==
    /\ Deploying /\ d \in job.todo /\ job.reading = {}
    /\ job' = IF dist[d].config.stamp = deploy.target
              THEN [job EXCEPT !.todo = @ \ {d}]
              ELSE [job EXCEPT !.reading = {d}, !.seen = dist[d].config]
    /\ UNCHANGED <<clock, deploy, history, env, cache, dist, connector>>

\* Mutant: the update carries no IfMatch.
RestampUpdateBlindly(d) ==
    /\ Deploying /\ d \in job.reading
    /\ dist' = Restamped(d, [job.seen EXCEPT !.stamp = deploy.target])
    /\ job' = [job EXCEPT !.todo = @ \ {d}, !.reading = {}]
    /\ UNCHANGED <<clock, deploy, history, env, cache, connector>>

\* UpdateDistribution with IfMatch: the whole configuration read is written
\* back, unless it changed since.
RestampUpdate(d) ==
    /\ Deploying /\ d \in job.reading
    /\ dist[d].config = job.seen
    /\ dist' = Restamped(d, [job.seen EXCEPT !.stamp = deploy.target])
    /\ job' = [job EXCEPT !.todo = @ \ {d}, !.reading = {}]
    /\ UNCHANGED <<clock, deploy, history, env, cache, connector>>

\* Any error ends the Lambda and fails the deploy: it is rolled back over the
\* resources it had updated.  A rollback that fails is left to the operator.
RestampFails ==
    /\ Deploying /\ job.todo # {}
    /\ \/ Faults
       \/ \E d \in job.reading : dist[d].config # job.seen
    /\ job' = NoJob
    /\ deploy' = IF deploy.phase = "rollback"
                 THEN [deploy EXCEPT !.phase = "stuck"]
                 ELSE [deploy EXCEPT !.phase = "rollback", !.target = deploy.kept,
                         !.previous = 0, !.done = Steps \ deploy.done, !.since = clock]
    /\ UNCHANGED <<clock, history, env, cache, dist, connector>>

Succeeds ==
    /\ Deploying /\ deploy.done = Steps /\ job.todo = {}
    /\ deploy' = [deploy EXCEPT !.phase = "rest", !.since = 0]
    /\ UNCHANGED <<clock, history, env, cache, dist, connector, job>>

-----------------------------------------------------------------------------
(* The connector, CloudFront, time.                                        *)

\* Mutant: a distribution is created without the origin-lock header.
CreateDistributionBare(d) ==
    /\ ~dist[d].exists
    /\ dist' = [dist EXCEPT ![d] = [exists |-> TRUE, since |-> 0,
                  config |-> [stamp |-> 0, domains |-> 1], live |-> {0}]]
    /\ UNCHANGED <<clock, deploy, history, env, cache, connector, job>>

\* set-custom-domain, the first of an organization.
CreateDistribution(d) ==
    /\ ~dist[d].exists
    /\ dist' = [dist EXCEPT ![d] = [exists |-> TRUE, since |-> 0,
                  config |-> [stamp |-> connector, domains |-> 1], live |-> {connector}]]
    /\ UNCHANGED <<clock, deploy, history, env, cache, connector, job>>

\* set-custom-domain, the second of an organization.
AddDomain(d) ==
    /\ dist[d].exists /\ d \in Byod /\ dist[d].config.domains < 2
    /\ dist' = [dist EXCEPT ![d].config.domains = @ + 1]
    /\ UNCHANGED <<clock, deploy, history, env, cache, connector, job>>

\* A change reaches the last edge location.
Propagate(d) ==
    /\ dist[d].exists /\ ~Propagated(d)
    /\ dist' = [dist EXCEPT ![d] = [exists |-> TRUE, config |-> dist[d].config,
                                      live |-> {dist[d].config.stamp}, since |-> 0]]
    /\ UNCHANGED <<clock, deploy, history, env, cache, connector, job>>

Tick ==
    /\ clock < MaxClock
    /\ Deploying => clock < deploy.since + DeployTime
    /\ \A d \in Dists : ~Propagated(d) => clock < dist[d].since + Propagation
    /\ clock' = clock + 1
    /\ UNCHANGED <<deploy, history, env, cache, dist, connector, job>>

\* The end of the model.
AllOver ==
    /\ clock = MaxClock /\ ~Deploying
    /\ UNCHANGED vars

Next ==
    \/ \E c \in Containers : LookUp(c)
    \/ Rotate \/ UpdateParam \/ UpdateAuthorizer \/ UpdateShared \/ UpdateConnector
    \/ RestampList \/ RestampFails \/ Succeeds
    \/ \E d \in Byod :
        \/ RestampGet(d) \/ RestampUpdate(d) \/ CreateDistribution(d) \/ AddDomain(d)
    \/ \E d \in Dists : Propagate(d)
    \/ Tick \/ AllOver

Spec == Init /\ [][Next]_vars

-----------------------------------------------------------------------------
(* Properties.                                                             *)

\* The tables of the pod; every distribution there is carries the lock header.
TypeOK ==
    /\ clock \in 0..MaxClock
    /\ deploy \in Deploy
    /\ history \in Seq([value: Secrets, at: Nat])
    /\ env \in [secret: Secrets, previous: Secrets \cup {0}]
    /\ cache \in [Containers -> [value: Secrets \cup {0}, at: Int, asked: BOOLEAN]]
    /\ dist \in [Dists -> Dist] /\ connector \in Secrets
    /\ job.todo \subseteq Byod /\ job.reading \subseteq job.todo

\* Along a rotation that reaches the authorizer first and is not rolled back,
\* whatever an edge location stamps is accepted by every container that could ask
\* SSM ("with no 403 window while CloudFront propagates"): the grace covers the
\* propagation and what the cache remembers.  A distribution the last re-stamp
\* missed is left aside.
OrderedRotationServed ==
    \A d \in Dists, c \in Containers :
        (/\ deploy.ordered
         /\ Cached(c) => cache[c].asked
         /\ \/ deploy.phase = "running"
            \/ deploy.phase = "rest" /\ dist[d].config.stamp = deploy.target)
          => \A secret \in dist[d].live \cap {deploy.kept, deploy.target} :
               Accepts(c, secret)

\* Once a rotation has reached the authorizer, what it accepts beyond its own
\* environment is the version before that one, for the grace window and the life
\* of a cache entry: rotating twice retires a secret ("it leaves N-1").
OnlyPreviousInGrace ==
    LET n == Len(history)
        rotated == n > 1 /\ history[n].value > history[n - 1].value
    IN (rotated \/ n = 1) /\ env.secret = history[n].value =>
         \A c \in Containers, secret \in Secrets \ {env.secret, env.previous} :
           Accepts(c, secret) => /\ n > 1 /\ secret = history[n - 1].value
                                 /\ clock < history[n].at + Grace + CacheLife

\* The re-stamp never undoes what the connector wrote to a distribution between
\* its read and its update.
DomainsKept == [][\A d \in Byod : dist'[d].config.domains >= dist[d].config.domains]_dist

-----------------------------------------------------------------------------
(* What makes the properties inductive.                                    *)

Latest == history[Len(history)]
Former == history[Len(history) - 1]

\* The last version of the parameter was a rotation, not a rollback of one.
Rotated == Len(history) > 1 /\ Latest.value > Former.value

RotationShape ==
    /\ TypeOK /\ Len(history) > 0
    /\ job \in [todo: SUBSET Byod, reading: SUBSET Byod, seen: Config]

\* A deploy works on distributions there are, after its own re-stamp began.
JobSound ==
    /\ dist[Shared].exists
    /\ \A d \in job.todo \cup job.reading : dist[d].exists
    /\ job.todo # {} => "restamp" \in deploy.done
    /\ ~Deploying => job.todo = {}
    /\ \A d \in Dists : ~dist[d].exists => dist[d].live = {} /\ dist[d].config.domains = 0

\* The parameter, the environment and the deploy agree on which secret is whose:
\* a rotation brings a secret greater than all before it, a rollback the one
\* before, and the environment never runs ahead of the parameter.
Lineage ==
    /\ {deploy.target, deploy.kept, env.secret, connector} \subseteq 1..deploy.chosen
    /\ Latest.at <= clock /\ deploy.since <= clock /\ (Deploying => clock <= deploy.since + DeployTime)
    /\ deploy.phase = "running" =>
         /\ deploy.target = deploy.chosen /\ deploy.kept < deploy.chosen
         /\ IF "param" \in deploy.done
            THEN /\ Rotated /\ Latest.value = deploy.chosen /\ Former.value = deploy.kept
                 /\ deploy.since <= Latest.at
            ELSE Latest.value = deploy.kept /\ "authorizer" \notin deploy.done
         /\ env.secret = IF "authorizer" \in deploy.done THEN deploy.chosen ELSE deploy.kept
    /\ deploy.phase = "rollback" =>
         /\ deploy.target = deploy.kept /\ deploy.kept < deploy.chosen
         /\ "param" \notin deploy.done => Latest.value = deploy.chosen
         /\ "param" \in deploy.done => Latest.value = deploy.kept
         /\ "authorizer" \in deploy.done => env.secret = deploy.kept
    /\ deploy.phase = "rest" =>
         /\ env.secret = deploy.target /\ Latest.value = deploy.target
         /\ deploy.target # deploy.kept => Rotated /\ Former.value = deploy.kept

\* What an edge location stamps was chosen, and in a rotation that reaches the
\* authorizer first, no edge and no connector is ahead of it.
StampsKnown ==
    /\ \A d \in Dists : dist[d].live \cup {dist[d].config.stamp} \subseteq 1..deploy.chosen
    /\ deploy.phase = "running" /\ deploy.ordered /\ "authorizer" \notin deploy.done =>
         /\ deploy.done \cap {"shared", "restamp"} = {}
         /\ connector < deploy.chosen
         /\ \A d \in Dists : \A secret \in dist[d].live \cup {dist[d].config.stamp} :
              secret < deploy.chosen

\* What an edge location has not heard of yet began soon enough after the last
\* version of the parameter for the grace to cover it.
PropagationCovered ==
    \A d \in Dists : ~Propagated(d) =>
        /\ clock <= dist[d].since + Propagation
        /\ /\ deploy.phase \in {"running", "rest"} /\ deploy.target # deploy.kept
           /\ deploy.ordered
           => Rotated /\ dist[d].since <= Latest.at + DeployTime

\* Once the environment has the last version, a cache entry was filled after it:
\* with the version before it during the grace, with none from then on.
LookUpsSound ==
    \A c \in Containers :
        /\ cache[c].at <= clock
        /\ Len(history) = 1 => cache[c].value = 0
        /\ Rotated /\ env.secret = Latest.value =>
             \/ cache[c] = NoCache
             \/ /\ cache[c].at >= Latest.at
                /\ cache[c].value = IF cache[c].asked /\ cache[c].at < Latest.at + Grace
                                    THEN Former.value ELSE 0

RotationInvariant ==
    /\ RotationShape /\ JobSound /\ Lineage /\ StampsKnown /\ PropagationCovered
    /\ LookUpsSound
=============================================================================
