------------------------------ MODULE McpPath ------------------------------
(***************************************************************************)
(* An MCP request from its client to an organization: the region router    *)
(* (RegionRouter) chooses a pod, the pod's gateway and authorizer          *)
(* (McpAuthorizer) let the request through, with organizations or with a   *)
(* refusal, and the connector answers it (external, as prm.ts, pod-trust.ts *)
(* and routes.ts use it).                                                  *)
(*                                                                         *)
(* The plugin host serves MCP at its root, every other host at /mcp.       *)
(* Behind the router a pod sees its own host in the request; the viewer's  *)
(* comes in a header that is believed with the router's secret only, which *)
(* the edge stamps on a request as it leaves and the pod compares with its *)
(* own as it answers; a deploy changes it on the distribution, where it    *)
(* reaches the edge by and by, and on each pod, in any order.              *)
(***************************************************************************)
EXTENDS McpAuthorizer, SequencesExt

CONSTANTS
    Requests, Home, NoRegion, MaxTokenOrgs, HasEdge, MaxMoves, \* of RegionRouter
    Asks,       \* what clients send
    Clienteles, \* of one behaviour each: what its clients send (asks), the pods that
                \* are without the router's secret (without), and a bound (events): moves,
                \* secrets deployed and the issuer's troubles, together
    MaxSecrets  \* bound: secrets of the router

VARIABLES
    kvs, summary, moves, req, \* of RegionRouter
    at,     \* each request at its pod
    serves, \* the request a container's invocation is for
    secret, \* the router's secret, as the edge stamps it still (old) and already
            \* (new), and as each pod has it (0: none)
    clients, \* the clientele of this behaviour
    events  \* how much happened around the requests

\* A pod is the region it serves; the store may name one without a pod.
Router == INSTANCE RegionRouter WITH Regions <- Pods \cup {"elsewhere"}, Origins <- Pods

\* What the bearer claims is what the router reads of it without verifying it;
\* the pods are the connector's, which are multi-tenant.
PathAsk ==
    {ask \in [path: Orgs \cup {NoOrg}, query: Orgs \cup {NoOrg}, bearer: BOOLEAN,
              orgs: Seq(Orgs), messages: Seq(Orgs \cup {NoOrg}), readable: BOOLEAN,
              token: Tokens \cup {NoToken}, host: {"app", "plugin"}] :
        ask.token # NoToken => ask.orgs = Claims[ask.token].orgs}

ASSUME PathAssumption ==
    /\ Router!RouterAssumption
    /\ Bound = NoOrg
    /\ \A ask \in Asks : ask \in PathAsk
    /\ Clienteles \subseteq [asks: SUBSET Asks, without: SUBSET Pods, events: Nat]
    /\ MaxSecrets \in Nat \ {0}

routerVars == <<kvs, summary, moves, req>>
pathVars == <<vars, routerVars, at, serves, secret, clients, events>>

-----------------------------------------------------------------------------

\* A request at its pod.
\*   pc      out, pod, asked (the authorizer runs), done
\*   direct  it came by the pod's own host, not by the router
\*   stamp   the secret it carries (0: none)
\*   host    whose request the pod takes it for
\*   outcome   bare: the gateway's 401; refused: 401 invalid_token; not_found:
\*           the root of a host that is not the plugin's; misplaced: an
\*           organization of another region, and no home to relay it; lost
\*   unsettled   history: the edge and its pod did not agree on the secret when it
\*           left the edge, or its pod was deployed with another before it answered
Visit ==
    [pc: {"out", "pod", "asked", "done"}, ask: Asks \cup {Router!NoAsk},
     pod: Pods, direct: BOOLEAN, stamp: 0..MaxSecrets, host: {"own", "app", "plugin"},
     outcome: {"none", "bare", "refused", "not_found", "misplaced", "served", "lost"},
     unsettled: BOOLEAN]

Out == [pc |-> "out", ask |-> Router!NoAsk, pod |-> Home, direct |-> FALSE,
        stamp |-> 0, host |-> "own", outcome |-> "none", unsettled |-> FALSE]

PathInit ==
    /\ Init /\ Router!RouterInit
    /\ at = [r \in Requests |-> Out]
    /\ serves \in [Containers -> Requests]
    /\ clients \in Clienteles /\ events = 0
    /\ secret = [old |-> 1, new |-> 1,
                 pods |-> [p \in Pods |-> IF p \in clients.without THEN 0 ELSE 1]]

Becomes(r, v) == at' = [at EXCEPT ![r] = v]

\* POST / on the plugin host, POST /mcp on the others.
RouteOf(ask) == IF ask.host = "plugin" THEN "plugin" ELSE "mcp"

\* __viewerHost: the header, for a request that carries the secret this pod has.
TrustedHost(v) == IF v.stamp # 0 /\ v.stamp = secret.pods[v.pod] THEN v.ask.host ELSE "own"

\* The connector: a refusal is a 401; the root is the plugin host's; an
\* organization is served in its region, or relayed there from home.
Outcome(v, answer) ==
    LET named == answer.orgs \cap (ToSet(v.ask.messages) \cup {Router!Named(v.ask)})
    IN  CASE answer.refusal # "no" -> "refused"
          [] answer.refusal = "no" /\ v.ask.host = "plugin" /\ TrustedHost(v) # "plugin" ->
                "not_found"
          [] OTHER -> IF v.pod = Home \/ \A o \in named : Router!OriginOf(kvs[o]) = v.pod
                      THEN "served" ELSE "misplaced"

Answered(r, answer) ==
    Becomes(r, [at[r] EXCEPT !.pc = "done", !.host = TrustedHost(at[r]),
                             !.outcome = Outcome(at[r], answer)])

-----------------------------------------------------------------------------

\* By the public name, through the router.
Enter(r) ==
    /\ at[r].pc = "out"
    /\ \E ask \in clients.asks : Router!Receive(r, ask)
    /\ UNCHANGED <<vars, at, serves, secret>>

RouterSteps(r) == Router!RouterStep(r) /\ UNCHANGED <<vars, at, serves, secret>>

\* Mutant: who chooses another pod replaces the origin, its headers included.
StampsOfHome(p) == IF p = Home THEN {secret.old, secret.new} ELSE {0}

\* The origin's custom header, by an edge that has the last deploy or not; it
\* follows the request to every pod, as only the domain name is changed.
Stamps(p) == {secret.old, secret.new}

Settled(p) == secret.old = secret.pods[p] /\ secret.new = secret.pods[p]

\* The request leaves the edge for its pod.
Arrive(r) ==
    /\ at[r].pc = "out" /\ req[r].pc = "origin"
    /\ \E n \in Stamps(req[r].region) :
        Becomes(r, [Out EXCEPT !.pc = "pod", !.ask = req[r].ask, !.pod = req[r].region,
                               !.stamp = n, !.unsettled = ~Settled(req[r].region)])
    /\ UNCHANGED <<vars, routerVars, serves, secret>>

\* By a pod's own host, with whatever headers but the secret.
ArriveDirectly(r) ==
    /\ at[r].pc = "out" /\ req[r].pc = "idle"
    /\ \E ask \in clients.asks, p \in Pods :
        Becomes(r, [Out EXCEPT !.pc = "pod", !.ask = ask, !.pod = p, !.direct = TRUE])
    /\ UNCHANGED <<vars, routerVars, serves, secret>>

\* The routes that name their organization have no authorizer here.
Unguarded(r) ==
    /\ at[r].pc = "pod" /\ Router!Named(at[r].ask) # NoOrg
    /\ Answered(r, [orgs |-> {Router!Named(at[r].ask)}, refusal |-> "no"])
    /\ UNCHANGED <<vars, routerVars, serves, secret>>

RefusedBare(r) ==
    /\ at[r].pc = "pod" /\ Router!Named(at[r].ask) = NoOrg
    /\ at[r].ask.token = NoToken /\ RouteOf(at[r].ask) = "mcp"
    /\ Becomes(r, [at[r] EXCEPT !.pc = "done", !.outcome = "bare"])
    /\ UNCHANGED <<vars, routerVars, serves, secret>>

FromCache(r) ==
    /\ at[r].pc = "pod" /\ Router!Named(at[r].ask) = NoOrg
    /\ at[r].ask.token # NoToken /\ RouteOf(at[r].ask) = "mcp"
    /\ Cached(at[r].pod, at[r].ask.token)
    /\ Answered(r, cache[at[r].pod][at[r].ask.token].answer)
    /\ UNCHANGED <<vars, routerVars, serves, secret>>

AskAuthorizer(r, c) ==
    /\ at[r].pc = "pod" /\ Router!Named(at[r].ask) = NoOrg /\ at[r].pod = PodOf[c]
    /\ Invoke(c, at[r].ask.token, RouteOf(at[r].ask))
    /\ serves' = [serves EXCEPT ![c] = r]
    /\ Becomes(r, [at[r] EXCEPT !.pc = "asked"])
    /\ UNCHANGED <<routerVars, secret>>

Authorizes(c) ==
    /\ FetchKeys(c) \/ Verify(c)
    /\ UNCHANGED <<routerVars, at, serves, secret>>

Authorized(c) ==
    /\ Reply(c)
    /\ Answered(serves[c], inv[c].answer)
    /\ UNCHANGED <<routerVars, serves, secret>>

\* An invocation killed is a request without an answer.
Loses(c) ==
    /\ Ends(c)
    /\ at' = IF inv[c].pc = "idle" THEN at
             ELSE [at EXCEPT ![serves[c]].pc = "done", ![serves[c]].outcome = "lost"]
    /\ UNCHANGED <<routerVars, serves, secret>>

Leave(r) ==
    /\ at[r].pc = "done"
    /\ Becomes(r, Out)
    /\ req' = [req EXCEPT ![r] = Router!IdleRequest]
    /\ UNCHANGED <<vars, kvs, summary, moves, serves, secret>>

MovesOrg ==
    /\ Router!Move \/ Router!Summarize
    /\ UNCHANGED <<vars, at, serves, secret>>

\* A deploy of the distribution, once the last one is everywhere.
StampAnew ==
    /\ secret.old = secret.new
    /\ \E n \in 1..MaxSecrets \ {secret.new} : secret' = [secret EXCEPT !.new = n]
    /\ UNCHANGED <<vars, routerVars, at, serves>>

Propagated ==
    /\ secret.old # secret.new /\ secret' = [secret EXCEPT !.old = secret.new]
    /\ UNCHANGED <<vars, routerVars, at, serves>>

\* A deploy of pod p; a request that is there may be answered by either secret.
DeployPod(p) ==
    /\ \E n \in 1..MaxSecrets \ {secret.pods[p]} : secret' = [secret EXCEPT !.pods[p] = n]
    /\ at' = [r \in Requests |->
                IF at[r].pc \in {"pod", "asked"} /\ at[r].pod = p /\ at[r].stamp # 0
                THEN [at[r] EXCEPT !.unsettled = TRUE] ELSE at[r]]
    /\ UNCHANGED <<vars, routerVars, serves>>

IssuerAndTime == (Rotate \/ Tick) /\ UNCHANGED <<routerVars, at, serves, secret>>

Counted == events' = events + (moves' - moves) + (troubles' - troubles)
                     + (IF [secret' EXCEPT !.old = secret.old] = secret THEN 0 ELSE 1)

PathStep ==
    \/ \E r \in Requests :
        \/ Enter(r) \/ RouterSteps(r) \/ Arrive(r) \/ ArriveDirectly(r)
        \/ Unguarded(r) \/ RefusedBare(r) \/ FromCache(r) \/ Leave(r)
        \/ \E c \in Containers : AskAuthorizer(r, c)
    \/ \E c \in Containers : Authorizes(c) \/ Authorized(c) \/ Loses(c)
    \/ \E p \in Pods : DeployPod(p)
    \/ MovesOrg \/ StampAnew \/ Propagated \/ IssuerAndTime

PathNext == PathStep /\ Counted /\ events' <= clients.events /\ UNCHANGED clients

PathSpec == PathInit /\ [][PathNext]_pathVars

-----------------------------------------------------------------------------
(* Properties.                                                             *)

PathTypeOK ==
    /\ TypeOK /\ Router!RouterTypeOK
    /\ at \in [Requests -> Visit]
    /\ serves \in [Containers -> Requests] /\ clients \in Clienteles
    /\ secret \in [old: 1..MaxSecrets, new: 1..MaxSecrets, pods: [Pods -> 0..MaxSecrets]]

\* See RegionRouter: a request reaches the pod where it belongs.
RoutedWhereItBelongs == Router!RoutedWhereItBelongs

\* No bearer of few enough organizations is stranded: a request for one of them
\* that came through the router is served where it lives, from wherever the
\* router sent it - unless the store changed under it or could not be read, or
\* it is a link that names one organization and carries the bearer of others,
\* which it is routed by.
NoOrgStranded ==
    \A r \in Requests :
        at[r].outcome = "misplaced"
            => \/ at[r].direct \/ req[r].moved \/ req[r].failed
               \/ Router!Claimed(at[r].ask) # ToSet(at[r].ask.orgs)
               \/ at[r].ask.bearer /\ Router!Named(at[r].ask) # at[r].ask.path

\* A request finds its organization, at the first pod or by the relay of it.
OrgsReached == RoutedWhereItBelongs /\ NoOrgStranded

\* podTrustEnv, __viewerHost, customHeaders: a request that left the edge while
\* the edge and its pod agreed on the secret is taken for the host it was sent
\* to, in whatever pod, and finds the plugin host there, though the secret be
\* changed on the distribution while it is under way; and nobody passes for
\* having come to a host who did not come through the router.
Hosted(v) ==
    v.pc = "done" /\ v.outcome \notin {"bare", "lost"} =>
        /\ v.direct => v.host = "own"
        /\ ~v.direct /\ ~v.unsettled => v.host = v.ask.host /\ v.outcome # "not_found"

HostIsTheViewers == \A r \in Requests : Hosted(at[r])
-----------------------------------------------------------------------------
(* What makes the properties above inductive.                              *)

\* A request v at its pod is the one q that the router brought, if it did.
VisitSound(v, q) ==
    /\ v.pc = "out" => v = Out
    /\ v.pc # "out" => v.ask \in Asks
    /\ v.pc # "out" /\ ~v.direct => q.pc = "origin" /\ q.ask = v.ask /\ q.region = v.pod
    /\ v.pc # "out" /\ v.direct => q.pc = "idle"
    /\ v.pc # "done" => v.outcome = "none"
    /\ v.pc = "asked" => Router!Named(v.ask) = NoOrg

\* An invocation is for one request, which waits for it at its pod.
ServingSound ==
    /\ \A c \in Containers : inv[c].pc # "idle" =>
         /\ at[serves[c]].pc = "asked" /\ at[serves[c]].pod = PodOf[c]
         /\ inv[c].token = at[serves[c]].ask.token
    /\ \A c, d \in Containers :
         inv[c].pc # "idle" /\ inv[d].pc # "idle" /\ serves[c] = serves[d] => c = d

\* An answer gives no organization that the token does not claim.
Claimant(t) == IF t \in Tokens THEN Members(Claims[t].orgs) ELSE {}

AnswersClaimed ==
    /\ \A c \in Containers : inv[c].answer.orgs \subseteq Claimant(inv[c].token)
    /\ \A p \in Pods, t \in Tokens : cache[p][t].answer.orgs \subseteq Claimant(t)

\* A request that the router brought carries its pod's secret, until one of the
\* two is changed under it.
Stamped(v) ==
    /\ v.direct => v.stamp = 0
    /\ v.pc \in {"pod", "asked"} /\ ~v.direct /\ ~v.unsettled =>
         v.stamp # 0 /\ v.stamp = secret.pods[v.pod]

PathInvariant ==
    /\ PathTypeOK /\ McpInvariant
    /\ \A r \in Requests : Router!RequestSound(req[r]) /\ VisitSound(at[r], req[r])
    /\ \A r \in Requests : Stamped(at[r]) /\ Hosted(at[r])
    /\ ServingSound /\ AnswersClaimed /\ NoOrgStranded
=============================================================================
