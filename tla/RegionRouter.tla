---------------------------- MODULE RegionRouter ----------------------------
(***************************************************************************)
(* The front door of the regional pods (lib/stack/region-router): a        *)
(* CloudFront Function that chooses a pod for each request by the          *)
(* organizations it names, and a Lambda@Edge, where there is one, that     *)
(* settles by the body what the bearer leaves open.                        *)
(*                                                                         *)
(* Both only choose: the bearer is not verified, and what cannot be read   *)
(* goes home.  An organization's region is in a key-value store that the   *)
(* connector keeps (external): a key per organization, and a summary of    *)
(* those that live away, read first.  Each read is a step, and the store   *)
(* may change between two.  Headers of the client that look like the       *)
(* router's are replaced before anything reads them, and left out here.    *)
(***************************************************************************)
EXTENDS Integers, Sequences, FiniteSets, SequencesExt

CONSTANTS
    Requests,     \* HTTP requests
    Asks,         \* what a request may be
    Orgs, NoOrg,
    Regions,      \* what the store may name
    Origins,      \* ORIGINS: the regions this distribution has an origin for
    Home,         \* HOME
    NoRegion,
    MaxTokenOrgs, \* MAX_TOKEN_ORGS
    HasEdge,      \* regionRouterEdgeVersionArn is given
    MaxMoves      \* bound: changes of the store

\* A request: the organization of its path (/o/<org>/) or of its query
\* (/mcp-connections/), whether it has a bearer and which organizations that
\* claims, which one each JSON-RPC message of the body names, and whether the
\* body can be read.
Ask ==
    [path: Orgs \cup {NoOrg}, query: Orgs \cup {NoOrg}, bearer: BOOLEAN,
     orgs: Seq(Orgs), messages: Seq(Orgs \cup {NoOrg}), readable: BOOLEAN]

RouterAssumption ==
    /\ Home \in Origins /\ Origins \subseteq Regions /\ NoRegion \notin Regions
    /\ NoOrg \notin Orgs /\ HasEdge \in BOOLEAN
    /\ MaxTokenOrgs \in Nat \ {0} /\ MaxMoves \in Nat

VARIABLES
    kvs,     \* the region of each organization, as its key has it
    summary, \* AWAY_KEY: listed, or absent or "*"
    moves,   \* how often the store changed
    req      \* the requests under way

routerVars == <<kvs, summary, moves, req>>

-----------------------------------------------------------------------------

Places == [Orgs -> Regions \cup {NoRegion}]

Nowhere == [o \in Orgs |-> NoRegion]

NoAsk == [path |-> NoOrg, query |-> NoOrg, bearer |-> FALSE, orgs |-> <<>>,
          messages |-> <<>>, readable |-> FALSE]

\* A request under way.
\*   pc      idle, one (the key of its organization is read), away, orgs (the
\*           keys of its bearer's), edge, origin (it has reached its pod)
\*   i       the place in the bearer's list of the organization read next
\*   found   what the reads gave
\*   header  x-dilaya-org-regions
\*   moved, failed    history: the store changed, or a read failed, meanwhile
Request ==
    [pc: {"idle", "one", "away", "orgs", "edge", "origin"}, ask: Asks \cup {NoAsk},
     i: Nat, found: Places, header: Places,
     route: {"home", "path", "query", "token", "body"}, region: Origins,
     moved: BOOLEAN, failed: BOOLEAN]

IdleRequest ==
    [pc |-> "idle", ask |-> NoAsk, i |-> 1, found |-> Nowhere, header |-> Nowhere,
     route |-> "home", region |-> Home, moved |-> FALSE, failed |-> FALSE]

\* orgsOf: the places in the bearer's list of the first MAX_TOKEN_ORGS different
\* organizations.
Turns(ask) ==
    {i \in DOMAIN ask.orgs :
        /\ \A j \in 1..(i - 1) : ask.orgs[j] # ask.orgs[i]
        /\ Cardinality({ask.orgs[j] : j \in 1..(i - 1)}) < MaxTokenOrgs}

Claimed(ask) == {ask.orgs[i] : i \in Turns(ask)}

Named(ask) == IF ask.path # NoOrg THEN ask.path ELSE ask.query

\* Mutant: whatever the store says.
OriginOfAny(region) == region

\* An organization without a key, or in a region without an origin: home.
OriginOf(region) == IF region \in Origins THEN region ELSE Home

Summary == [o \in Orgs |-> IF kvs[o] = Home THEN NoRegion ELSE kvs[o]]

\* The summary says what the keys say.
InStep == summary.listed => summary.away = Summary

RouterInit ==
    /\ kvs = Nowhere
    /\ summary \in [listed: BOOLEAN, away: {Nowhere}]
    /\ moves = 0
    /\ req = [r \in Requests |-> IdleRequest]

Becomes(r, q) == req' = [req EXCEPT ![r] = q]

-----------------------------------------------------------------------------
(* The viewer-request function.                                            *)

\* The path counts first; a query only without a bearer; then the bearer.
Receive(r, ask) ==
    /\ req[r].pc = "idle"
    /\ LET q == [IdleRequest EXCEPT !.ask = ask, !.moved = ~InStep] IN
       \/ ask.path # NoOrg /\ Becomes(r, [q EXCEPT !.pc = "one", !.route = "path"])
       \/ /\ ask.path = NoOrg /\ ~ask.bearer /\ ask.query # NoOrg
          /\ Becomes(r, [q EXCEPT !.pc = "one", !.route = "query"])
       \/ /\ ask.path = NoOrg /\ (ask.bearer \/ ask.query = NoOrg)
          /\ Becomes(r, [q EXCEPT !.pc = IF ask.orgs = <<>> THEN "origin" ELSE "away"])
    /\ UNCHANGED <<kvs, summary, moves>>

\* regionOf the one organization named; a read that fails goes home.
ReadOne(r) ==
    /\ req[r].pc = "one"
    /\ \/ Becomes(r, [req[r] EXCEPT !.pc = "origin", !.region = OriginOf(kvs[Named(req[r].ask)])])
       \/ Becomes(r, [req[r] EXCEPT !.pc = "origin", !.failed = TRUE])
    /\ UNCHANGED <<kvs, summary, moves>>

\* One region: there.  Several: home, or as the body says.
Settle(q, found) ==
    LET orgs == Claimed(q.ask)
        regions == {found[o] : o \in orgs}
    IN  IF Cardinality(regions) = 1
        THEN [q EXCEPT !.pc = "origin", !.found = found, !.route = "token",
                       !.region = CHOOSE region \in regions : TRUE]
        ELSE [q EXCEPT !.pc = IF HasEdge THEN "edge" ELSE "origin", !.found = found,
                       !.route = "body", !.region = Home,
                       !.header = [o \in Orgs |-> IF o \in orgs /\ found[o] # Home
                                                  THEN found[o] ELSE NoRegion]]

\* awayMap: the summary tells all at once; without it each key is read.
ReadAway(r) ==
    /\ req[r].pc = "away"
    /\ LET orgs == Claimed(req[r].ask) IN
       \/ /\ summary.listed
          /\ Becomes(r, Settle(req[r], [o \in Orgs |-> IF o \in orgs
                                 THEN OriginOf(summary.away[o]) ELSE NoRegion]))
       \/ ~summary.listed /\ Becomes(r, [req[r] EXCEPT !.pc = "orgs"])
       \/ summary.listed /\ Becomes(r, [req[r] EXCEPT !.pc = "orgs", !.failed = TRUE])
    /\ UNCHANGED <<kvs, summary, moves>>

ReadOrg(r) ==
    /\ req[r].pc = "orgs"
    /\ \E failed \in BOOLEAN :
        LET q == [req[r] EXCEPT !.failed = @ \/ failed]
            o == q.ask.orgs[q.i]
            found == [q.found EXCEPT ![o] = IF failed THEN Home ELSE OriginOf(kvs[o])]
            later == {j \in Turns(q.ask) : j > q.i}
        IN  \/ later = {} /\ Becomes(r, Settle(q, found))
            \/ \E next \in later :
                /\ \A j \in later : next <= j
                /\ Becomes(r, [q EXCEPT !.i = next, !.found = found])
    /\ UNCHANGED <<kvs, summary, moves>>

-----------------------------------------------------------------------------
(* The origin-request function.                                            *)

\* Mutant: the last message that names an organization decides.
BodyOrgLast(ask) ==
    LET named == SelectSeq(ask.messages, LAMBDA o : o # NoOrg)
    IN  IF ask.readable /\ named # <<>> THEN Last(named) ELSE NoOrg

\* bodyOrg: the organization all messages that name one agree on.
BodyOrg(ask) ==
    LET named == ToSet(ask.messages) \ {NoOrg}
    IN  IF ask.readable /\ Cardinality(named) = 1 THEN CHOOSE o \in named : TRUE ELSE NoOrg

Edge(r) ==
    /\ req[r].pc = "edge"
    /\ LET o == BodyOrg(req[r].ask)
           listed == o # NoOrg /\ req[r].header[o] \in Origins
       IN  Becomes(r, [req[r] EXCEPT !.pc = "origin",
                                     !.region = IF listed THEN req[r].header[o] ELSE Home])
    /\ UNCHANGED <<kvs, summary, moves>>

-----------------------------------------------------------------------------
(* The connector moves an organization: its key, then the summary.         *)

Changes ==
    req' = [r \in Requests |-> IF req[r].pc = "idle" THEN req[r]
                                ELSE [req[r] EXCEPT !.moved = TRUE]]

Move ==
    /\ InStep
    /\ \E o \in Orgs, region \in Regions :
        region # kvs[o] /\ kvs' = [kvs EXCEPT ![o] = region]
    /\ moves < MaxMoves /\ moves' = moves + 1
    /\ Changes
    /\ UNCHANGED summary

Summarize ==
    /\ ~InStep
    /\ \E listed \in BOOLEAN :
        summary' = [listed |-> listed, away |-> IF listed THEN Summary ELSE Nowhere]
    /\ Changes
    /\ UNCHANGED <<kvs, moves>>

RouterStep(r) == ReadOne(r) \/ ReadAway(r) \/ ReadOrg(r) \/ Edge(r)

-----------------------------------------------------------------------------
(* Properties.                                                             *)

RouterTypeOK ==
    /\ kvs \in Places /\ moves \in 0..MaxMoves
    /\ summary \in [listed: BOOLEAN, away: Places]
    /\ req \in [Requests -> Request]

\* Where a request belongs: where the organization it names lives; where those
\* of its bearer live, if that is one region; where the one of its body lives,
\* if it is the bearer's; else home.
Belongs(ask) ==
    LET lives(o) == OriginOf(kvs[o])
        claimed == Claimed(ask)
        named == ToSet(ask.messages) \ {NoOrg}
    IN  CASE ask.path # NoOrg -> lives(ask.path)
          [] ask.path = NoOrg /\ ~ask.bearer /\ ask.query # NoOrg -> lives(ask.query)
          [] ask.path = NoOrg /\ (ask.bearer \/ ask.query = NoOrg) ->
                IF \E region \in Origins : claimed # {} /\ \A o \in claimed : lives(o) = region
                THEN CHOOSE region \in Origins : \A o \in claimed : lives(o) = region
                ELSE IF HasEdge /\ ask.readable /\ named # {} /\ named \subseteq claimed
                        /\ \E o \in named : named = {o}
                     THEN lives(CHOOSE o \in named : TRUE) ELSE Home

\* A request reaches the pod where it belongs, by whichever reads it came there
\* - the summary or one key after the other, the bearer or the body - when the
\* store held still and could be read.
RoutedWhereItBelongs ==
    \A r \in Requests :
        req[r].pc = "origin" /\ ~req[r].moved /\ ~req[r].failed
            => req[r].region = Belongs(req[r].ask)
-----------------------------------------------------------------------------
(* What makes RoutedWhereItBelongs inductive.                              *)

\* Nothing excuses what was read.
Steady(q) == ~q.moved /\ ~q.failed

\* What was read of orgs has an origin, and is what the store says.
ReadWell(q, orgs) ==
    \A o \in orgs : /\ q.found[o] \in Origins
                    /\ Steady(q) => q.found[o] = OriginOf(kvs[o])

ReadSoFar(q) == {q.ask.orgs[j] : j \in {k \in Turns(q.ask) : k < q.i}}

\* A request on its way: it is a client's, it is read as its kind is, and
\* nothing has moved that would not excuse it.
RequestSound(q) ==
    /\ q.pc # "idle" => q.ask \in Asks
    /\ q.pc # "idle" /\ ~q.moved => InStep
    /\ q.pc = "one" => q.ask.path # NoOrg \/ (~q.ask.bearer /\ q.ask.query # NoOrg)
    /\ q.pc \in {"away", "orgs", "edge"} =>
         q.ask.path = NoOrg /\ (q.ask.bearer \/ q.ask.query = NoOrg)
    /\ q.pc = "away" => q.i = 1
    /\ q.pc \in {"away", "orgs"} => q.i \in Turns(q.ask)
    /\ q.pc = "orgs" => ReadWell(q, ReadSoFar(q))
    /\ q.pc = "edge" =>
         /\ HasEdge /\ ReadWell(q, Claimed(q.ask))
         /\ \A region \in Origins : \E o \in Claimed(q.ask) : q.found[o] # region
         /\ \A o \in Orgs :
             q.header[o] = IF o \in Claimed(q.ask) /\ q.found[o] # Home THEN q.found[o] ELSE NoRegion
    /\ q.pc = "origin" /\ Steady(q) => q.region = Belongs(q.ask)
=============================================================================
