---------------------------- MODULE McpPathProofs ----------------------------
(***************************************************************************)
(* What holds of an MCP request on its whole way, for any number of pods,  *)
(* containers, requests, organizations and tokens: what the authorizer     *)
(* promises by itself it promises behind the router too, every             *)
(* organization is reached, and the viewer's host is the viewer's.         *)
(***************************************************************************)
EXTENDS McpPath, FiniteSetTheorems, TLAPS

-----------------------------------------------------------------------------
(* The authorizer by itself, for every set of tokens and keys, every life  *)
(* of a cache and every number of containers and pods.                     *)

LEMMA Lives ==
    /\ KeysTtl \in Nat /\ GatewayTtl \in Nat /\ Limit \in Nat /\ StaleAfter \in Nat
    /\ KeysTtl > 0 /\ GatewayTtl > 0 /\ Limit > 0
    /\ Long \in Nat /\ Long = KeysTtl + Limit + GatewayTtl
  BY McpAssumption DEF Long

LEMMA ClaimFacts ==
    ASSUME NEW t \in Tokens
    PROVE  /\ Claims[t] \in Token /\ Claims[t].exp \in Int
           /\ Claims[t].signer \in Keys \cup {NoKey}
           /\ Claims[t].orgs \in Seq(Orgs) /\ Claims[t].org \in Orgs \cup {NoOrg}
  BY McpAssumption DEF Token

LEMMA MembersOfRing ==
    ASSUME NEW S, NEW ring \in Seq(S)
    PROVE  Members(ring) \subseteq S
  BY DEF Members

-----------------------------------------------------------------------------
(* An answer keeps its explanation as time passes and keys come and go.    *)

\* The instants the explanation is about never go back.
Onward ==
    /\ clock <= clock' /\ faultAt <= faultAt'
    /\ \A k \in Keys : PublishedUntil(k) <= PublishedUntil(k)'
    /\ \A k \in Keys : k \in Members(published)' /\ k \notin Members(published)
                        => clock <= since'[k]
    /\ \A k \in Keys : k \in Members(published) => since'[k] = since[k]
    /\ \A k \in Keys : since[k] <= since'[k]

\* PublishedUntil has a type.
LEMMA UntilType ==
    ASSUME TypeOK, NEW k \in Keys
    PROVE  PublishedUntil(k) \in Int /\ PublishedUntil(k) <= clock
  BY DEF TypeOK, PublishedUntil

LEMMA UntilTypeNext ==
    ASSUME TypeOK', NEW k \in Keys
    PROVE  PublishedUntil(k)' \in Int /\ PublishedUntil(k)' <= clock'
  BY DEF TypeOK, PublishedUntil

LEMMA ExplanationLasts ==
    ASSUME TypeOK, TypeOK', Onward, NEW t \in Tokens, NEW answer,
           NEW e \in Int, NEW f \in Int, e <= clock, f <= e, Explained(t, answer, e)
    PROVE  Explained(t, answer, f)'
  <1>1. /\ clock \in Nat /\ clock' \in Nat /\ faultAt \in Int /\ faultAt' \in Int
        /\ since \in [Keys -> Int] /\ since' \in [Keys -> Int]
        /\ published \in KeyRings
    BY DEF TypeOK
  <1>2. Claims[t].exp \in Int
    BY ClaimFacts
  <1>3. clock <= clock' /\ faultAt <= faultAt'
    BY DEF Onward
  <1>4. ASSUME YesSince(t, e) PROVE YesSince(t, f)'
    <2>1. /\ Claims[t].signer \in Keys
          /\ e < PublishedUntil(Claims[t].signer) + KeysTtl
          /\ Claims[t].exp = Never \/ e <= Claims[t].exp
      BY <1>4 DEF YesSince
    <2>2. /\ PublishedUntil(Claims[t].signer) \in Int
          /\ PublishedUntil(Claims[t].signer)' \in Int
      BY <2>1, UntilType, UntilTypeNext
    <2>3. PublishedUntil(Claims[t].signer) <= PublishedUntil(Claims[t].signer)'
      BY <2>1 DEF Onward
    <2>4. f < PublishedUntil(Claims[t].signer)' + KeysTtl
      BY <2>1, <2>2, <2>3, Lives
    <2>5. Claims[t].exp = Never \/ f <= Claims[t].exp
      BY <1>2, <2>1
    <2>6. QED
      BY <2>1, <2>4, <2>5 DEF YesSince
  <1>5. ASSUME FreshSince(t, e) PROVE FreshSince(t, f)'
    <2> DEFINE k == Claims[t].signer
               good == /\ Claims[t].rs256 /\ ClaimsHold(t) /\ Claims[t].kid # NoKey
                       /\ Claims[t].signer = Claims[t].kid
    <2>1. CASE ~good
      BY <2>1 DEF FreshSince
    <2>2. CASE k \notin Members(published)'
      BY <2>2 DEF FreshSince
    <2>3. CASE good /\ k \in Members(published)'
      <3>1. k \in Keys
        BY <2>3, ClaimFacts
      <3>2. since[k] \in Int /\ since'[k] \in Int
        BY <1>1, <3>1
      <3>3. CASE k \notin Members(published)
        <4>1. clock <= since'[k]
          BY <2>3, <3>1, <3>3 DEF Onward
        <4>2. f < since'[k] + KeysTtl
          BY <1>1, <3>2, <4>1, Lives
        <4>3. QED
          BY <4>2 DEF FreshSince
      <3>4. CASE k \in Members(published)
        <4>1. since'[k] = since[k]
          BY <3>1, <3>4 DEF Onward
        <4>2. \/ e < since[k] + KeysTtl \/ e < faultAt + KeysTtl
              \/ Claims[t].exp # Never /\ Claims[t].exp < clock /\ e < Claims[t].exp + StaleAfter
          BY <1>5, <2>3, <3>4 DEF FreshSince
        <4>3. \/ f < since'[k] + KeysTtl \/ f < faultAt' + KeysTtl
              \/ Claims[t].exp # Never /\ Claims[t].exp < clock' /\ f < Claims[t].exp + StaleAfter
          <5>1. CASE e < since[k] + KeysTtl
            BY <3>2, <4>1, <5>1, Lives
          <5>2. CASE e < faultAt + KeysTtl
            BY <1>1, <1>3, <5>2, Lives
          <5>3. CASE Claims[t].exp # Never /\ Claims[t].exp < clock /\ e < Claims[t].exp + StaleAfter
            <6> DEFINE x == Claims[t].exp
            <6>1. x \in Int /\ x # Never /\ x < clock /\ e < x + StaleAfter
              BY <1>2, <5>3
            <6> HIDE DEF x
            <6>2. x < clock' /\ f < x + StaleAfter
              BY <1>1, <1>3, <6>1, Lives
            <6>3. QED
              BY <6>1, <6>2 DEF x
          <5>4. QED
            BY <4>2, <5>1, <5>2, <5>3
        <4>4. QED
          BY <4>3 DEF FreshSince
      <3>5. QED
        BY <3>3, <3>4
    <2>4. QED
      BY <2>1, <2>2, <2>3
  <1>6. Expired(t) => Expired(t)'
    BY <1>1, <1>2, <1>3 DEF Expired
  <1>7. QED
    BY <1>4, <1>5, <1>6 DEF Explained

\* A step that leaves the issuer's document and the clock alone.
LEMMA OnwardStays ==
    ASSUME TypeOK, UNCHANGED <<clock, published, since, until>>,
           faultAt' \in Int, faultAt <= faultAt'
    PROVE  Onward
  <1>1. \A k \in Keys : PublishedUntil(k)' = PublishedUntil(k)
    BY DEF PublishedUntil
  <1>2. /\ clock \in Int /\ clock' = clock /\ published' = published
        /\ since' = since /\ \A k \in Keys : since[k] \in Int
    BY DEF TypeOK
  <1>3. \A k \in Keys : PublishedUntil(k) \in Int
    BY UntilType
  <1>4. \A k \in Keys : PublishedUntil(k) <= PublishedUntil(k)'
    BY <1>1, <1>3
  <1>5. clock <= clock' /\ \A k \in Keys : since[k] <= since'[k]
    BY <1>2
  <1>6. QED
    BY <1>2, <1>4, <1>5 DEF Onward

-----------------------------------------------------------------------------
(* What the function answers.                                              *)

LEMMA VerdictExplained ==
    ASSUME McpInvariant, NEW c \in Containers, inv[c].pc = "verify"
    PROVE  /\ Verdict(jwks[c].keys, inv[c].token) \in Answer
           /\ Explained(inv[c].token, Verdict(jwks[c].keys, inv[c].token), inv[c].entered)
  <1> DEFINE t == inv[c].token
             ring == jwks[c].keys
             e == inv[c].entered
             v == Verdict(ring, t)
  <1>1. /\ t \in Tokens /\ ring \in Seq(Keys) /\ e \in Nat /\ clock \in Nat /\ e <= clock
        /\ jwks[c].at \in Int /\ jwks[c].at <= clock /\ faultAt \in Int
        /\ since \in [Keys -> Int]
    <2>1. inv[c] \in Invocation /\ jwks[c] \in [keys: Seq(Keys), at: Int]
      BY DEF McpInvariant, TypeOK
    <2>2. inv[c].pc \in {"keys", "verify"} /\ inv[c].pc # "idle"
      OBVIOUS
    <2>3. inv[c].token \in Tokens /\ inv[c].entered <= clock
      BY <2>2 DEF McpInvariant, TypeOK
    <2>4. inv[c].entered \in Nat
      BY <2>1 DEF Invocation
    <2>5. /\ clock \in Nat /\ jwks[c].at <= clock /\ faultAt \in Int
          /\ since \in [Keys -> Int]
      BY DEF McpInvariant, TypeOK
    <2>6. jwks[c].keys \in Seq(Keys) /\ jwks[c].at \in Int
      BY <2>1
    <2>7. QED
      BY <2>3, <2>4, <2>5, <2>6
  <1>2. /\ Remembered(c) /\ e < jwks[c].at + KeysTtl
    BY DEF McpInvariant, KeysInvariant, Remembered
  <1>3. Claims[t] \in Token /\ Claims[t].exp \in Int
    BY <1>1, ClaimFacts
  <1> HIDE DEF t, ring, e
  <1>4. Members(ring) \subseteq Keys
    BY <1>1, MembersOfRing
  <1>5. Identity(t) \in SUBSET Orgs
    <2>1. Members(Claims[t].orgs) \subseteq Orgs
      BY <1>1, ClaimFacts, MembersOfRing
    <2>2. QED
      BY <2>1, McpAssumption DEF Identity
  <1>6. ASSUME NamesKey(ring, t), ~Expired(t), ClaimsHold(t)
        PROVE  v = [orgs |-> Identity(t), refusal |-> "no"] /\ YesSince(t, e)
    <2>1. v = [orgs |-> Identity(t), refusal |-> "no"]
      BY <1>6 DEF Verdict
    <2>2. Claims[t].signer \in Members(ring)
      <3>1. CASE Claims[t].kid = NoKey
        <4>1. ring # <<>> /\ Claims[t].signer = ring[1]
          BY <1>6, <3>1 DEF NamesKey
        <4>2. 1 \in DOMAIN ring
          BY <1>1, <4>1
        <4>3. QED
          BY <4>1, <4>2 DEF Members
      <3>2. CASE Claims[t].kid # NoKey
        BY <1>6, <3>2 DEF NamesKey
      <3>3. QED
        BY <3>1, <3>2
    <2>3. /\ Claims[t].signer \in Keys
          /\ jwks[c].at <= PublishedUntil(Claims[t].signer)
      BY <1>2, <1>4, <2>2 DEF Remembered, ring
    <2>4. PublishedUntil(Claims[t].signer) \in Int
      BY <2>3, UntilType DEF McpInvariant
    <2>5. e < PublishedUntil(Claims[t].signer) + KeysTtl
      BY <1>1, <1>2, <2>3, <2>4, Lives
    <2>6. Claims[t].exp = Never \/ e <= Claims[t].exp
      BY <1>1, <1>3, <1>6 DEF Expired
    <2>7. QED
      BY <2>1, <2>3, <2>5, <2>6 DEF YesSince
  <1>7. ASSUME ~NamesKey(ring, t)
        PROVE  v = Refused("fresh") /\ FreshSince(t, e)
    <2>1. v = Refused("fresh")
      BY <1>7 DEF Verdict
    <2>2. SUFFICES ASSUME Claims[t].rs256, ClaimsHold(t), Claims[t].kid # NoKey,
                          Claims[t].signer = Claims[t].kid,
                          Claims[t].signer \in Members(published)
                   PROVE  \/ e < since[Claims[t].signer] + KeysTtl
                          \/ e < faultAt + KeysTtl
      BY <2>1 DEF FreshSince
    <2>3. Claims[t].signer \notin Members(ring)
      BY <1>7, <2>2 DEF NamesKey
    <2>4. Claims[t].signer \in Keys
      BY <1>1, <2>2, ClaimFacts
    <2>5. jwks[c].at <= since[Claims[t].signer] \/ jwks[c].at <= faultAt
      BY <1>2, <2>2, <2>3 DEF Remembered, ring
    <2>6. since[Claims[t].signer] \in Int
      BY <1>1, <2>4
    <2>7. QED
      BY <1>1, <1>2, <2>5, <2>6, Lives
  <1>8. ASSUME NamesKey(ring, t), Expired(t)
        PROVE  \/ v = Refused("stale")
               \/ v = Refused("fresh") /\ FreshSince(t, e)
    <2>1. v = Refused(IF clock - Claims[t].exp >= StaleAfter THEN "stale" ELSE "fresh")
      BY <1>8 DEF Verdict
    <2>2. CASE clock - Claims[t].exp >= StaleAfter
      BY <2>1, <2>2
    <2>3. CASE ~(clock - Claims[t].exp >= StaleAfter)
      <3>1. Claims[t].exp # Never /\ Claims[t].exp < clock
        BY <1>8 DEF Expired
      <3>2. e < Claims[t].exp + StaleAfter
        BY <1>1, <1>3, <2>3, Lives
      <3>3. QED
        BY <2>1, <2>3, <3>1, <3>2 DEF FreshSince
    <2>4. QED
      BY <2>2, <2>3
  <1>9. ASSUME NamesKey(ring, t), ~Expired(t), ~ClaimsHold(t)
        PROVE  v = Refused("fresh") /\ FreshSince(t, e)
    BY <1>9 DEF Verdict, FreshSince
  <1> HIDE DEF v
  <1>10. \/ v = [orgs |-> Identity(t), refusal |-> "no"] /\ YesSince(t, e)
         \/ v = Refused("fresh") /\ FreshSince(t, e)
         \/ v = Refused("stale") /\ Expired(t)
    BY <1>6, <1>7, <1>8, <1>9
  <1>11. v \in Answer /\ Explained(t, v, e)
    BY <1>5, <1>10 DEF Refused, Answer, Explained
  <1>12. QED
    BY <1>11 DEF v, t, ring, e

-----------------------------------------------------------------------------
(* What a step has to show.                                                *)

\* The answers invariant, by the values it speaks of.
AnswersExplained ==
    /\ \A c \in Containers, t \in Tokens : \A a, e :
        inv[c].pc = "reply" /\ inv[c].token = t /\ inv[c].answer = a /\ inv[c].entered = e
            => Explained(t, a, e)
    /\ \A p \in Pods, t \in Tokens :
        /\ cache[p][t].at <= clock
        /\ \A a, e : Cached(p, t) /\ cache[p][t].answer = a /\ cache[p][t].at - Limit = e
                        => Explained(t, a, e)

LEMMA AnswersByValue == TypeOK => (AnswersInvariant <=> AnswersExplained)
  <1> SUFFICES ASSUME TypeOK PROVE AnswersInvariant <=> AnswersExplained
    OBVIOUS
  <1>1. \A c \in Containers : inv[c].token \in Tokens \cup {NoToken}
    BY DEF TypeOK, Invocation
  <1>2. NoToken \notin Tokens
    BY McpAssumption
  <1>3. QED
    BY <1>1, <1>2, Zenon DEF AnswersInvariant, AnswersExplained

\* A container that keeps its keys.
LEMMA RememberedLasts ==
    ASSUME McpInvariant, TypeOK', Onward, NEW c \in Containers, jwks'[c] = jwks[c],
           inv'[c].pc = "verify" => inv'[c].entered < jwks[c].at + KeysTtl
    PROVE  Remembered(c)'
  <1>1. /\ jwks[c].keys \in Seq(Keys) /\ jwks[c].at \in Int /\ jwks[c].at <= clock
        /\ clock \in Nat /\ faultAt \in Int /\ faultAt' \in Int
        /\ since \in [Keys -> Int] /\ since' \in [Keys -> Int]
        /\ published' \in Seq(Keys)
    <2>1. jwks[c] \in [keys: Seq(Keys), at: Int]
      BY DEF McpInvariant, TypeOK
    <2>2. published' \in Seq(Keys)
      BY McpAssumption DEF TypeOK
    <2>3. QED
      BY <2>1, <2>2 DEF McpInvariant, TypeOK
  <1>2. Remembered(c) /\ TypeOK
    BY DEF McpInvariant, KeysInvariant
  <1>3. ASSUME NEW k \in Members(jwks'[c].keys)
        PROVE  jwks'[c].at <= PublishedUntil(k)'
    <2>1. k \in Keys
      BY <1>1, MembersOfRing
    <2>2. PublishedUntil(k) \in Int /\ PublishedUntil(k)' \in Int
      BY <1>2, <2>1, UntilType, UntilTypeNext
    <2>3. jwks[c].at <= PublishedUntil(k) /\ PublishedUntil(k) <= PublishedUntil(k)'
      BY <1>2, <1>3, <2>1 DEF Remembered, Onward
    <2>4. QED
      BY <1>1, <2>2, <2>3
  <1>4. ASSUME NEW k \in Members(published') \ Members(jwks'[c].keys)
        PROVE  jwks'[c].at <= since'[k] \/ jwks'[c].at <= faultAt'
    <2>1. k \in Keys /\ since[k] \in Int /\ since'[k] \in Int
      BY <1>1, MembersOfRing
    <2>2. CASE k \in Members(published)
      <3>1. since'[k] = since[k] /\ faultAt <= faultAt'
        BY <2>1, <2>2 DEF Onward
      <3>2. jwks[c].at <= since[k] \/ jwks[c].at <= faultAt
        BY <1>2, <1>4, <2>2 DEF Remembered
      <3>3. QED
        BY <1>1, <2>1, <3>1, <3>2
    <2>3. CASE k \notin Members(published)
      <3>1. clock <= since'[k]
        BY <1>4, <2>1, <2>3 DEF Onward
      <3>2. QED
        BY <1>1, <2>1, <3>1
    <2>4. QED
      BY <2>2, <2>3
  <1>5. QED
    BY <1>3, <1>4 DEF Remembered

LEMMA KeysFromParts ==
    ASSUME McpInvariant, TypeOK', Onward, \A c \in Containers : Remembered(c)'
    PROVE  KeysInvariant'
  <1>1. \A k \in Keys : -Long <= since[k] /\ since[k] <= since'[k] /\ since[k] \in Int /\ since'[k] \in Int
    BY DEF McpInvariant, KeysInvariant, Onward, TypeOK
  <1>2. \A k \in Keys : -Long <= since'[k]
    BY <1>1, Lives
  <1>3. QED
    BY <1>2 DEF KeysInvariant

\* Every answer is an old one, or explained.
LEMMA AnswersFromParts ==
    ASSUME McpInvariant, TypeOK', Onward,
           \A c \in Containers :
              \/ inv'[c] = inv[c]
              \/ inv'[c].pc # "reply" \/ inv'[c].token = NoToken
              \/ \A t \in Tokens : \A a, e :
                    inv'[c].token = t /\ inv'[c].answer = a /\ inv'[c].entered = e
                        => Explained(t, a, e)',
           \A p \in Pods, t \in Tokens :
              \/ cache'[p][t] = cache[p][t]
              \/ /\ cache'[p][t].at <= clock'
                 /\ \A a, e : Cached(p, t)' /\ cache'[p][t].answer = a /\ cache'[p][t].at - Limit = e
                        => Explained(t, a, e)'
    PROVE  AnswersInvariant'
  <1>1. TypeOK /\ AnswersExplained
    BY AnswersByValue DEF McpInvariant
  <1>2. clock \in Nat /\ clock' \in Nat /\ clock <= clock'
    BY DEF McpInvariant, TypeOK, Onward
  <1>3. ASSUME NEW c \in Containers, NEW t \in Tokens, NEW a, NEW e,
               inv'[c].pc = "reply", inv'[c].token = t, inv'[c].answer = a,
               inv'[c].entered = e
        PROVE  Explained(t, a, e)'
    <2>1. CASE inv'[c] = inv[c]
      <3>1. inv[c] \in Invocation /\ inv[c].entered <= clock
        BY <1>1, <1>3, <2>1 DEF TypeOK
      <3>2. e \in Int /\ e <= clock
        BY <1>3, <2>1, <3>1 DEF Invocation
      <3>3. Explained(t, a, e)
        BY <1>1, <1>3, <2>1 DEF AnswersExplained
      <3>4. QED
        BY <1>1, <3>2, <3>3, ExplanationLasts
    <2>2. CASE inv'[c] # inv[c]
      BY <1>3, <2>2, McpAssumption
    <2>3. QED
      BY <2>1, <2>2
  <1>4. ASSUME NEW p \in Pods, NEW t \in Tokens
        PROVE  /\ cache'[p][t].at <= clock'
               /\ \A a, e : Cached(p, t)' /\ cache'[p][t].answer = a /\ cache'[p][t].at - Limit = e
                        => Explained(t, a, e)'
    <2>1. CASE cache'[p][t] = cache[p][t]
      <3>1. cache[p][t].at \in Int /\ cache[p][t].at <= clock
        <4>1. cache[p][t] \in [answer: Answer, at: Int]
          BY <1>1 DEF TypeOK
        <4>2. QED
          BY <1>1, <4>1 DEF AnswersExplained
      <3>2. ASSUME NEW a, NEW e, Cached(p, t)', cache'[p][t].answer = a,
                   cache'[p][t].at - Limit = e
            PROVE  Explained(t, a, e)'
        <4>1. Cached(p, t)
          BY <1>2, <2>1, <3>1, <3>2, Lives DEF Cached
        <4>2. e \in Int /\ e <= clock
          BY <1>2, <2>1, <3>1, <3>2, Lives
        <4>3. Explained(t, a, e)
          BY <1>1, <2>1, <3>2, <4>1 DEF AnswersExplained
        <4>4. QED
          BY <1>1, <4>2, <4>3, ExplanationLasts
      <3>3. QED
        BY <1>2, <2>1, <3>1, <3>2
    <2>2. CASE cache'[p][t] # cache[p][t]
      BY <2>2
    <2>3. QED
      BY <2>1, <2>2
  <1>5. AnswersExplained'
    BY <1>3, <1>4 DEF AnswersExplained
  <1>6. QED
    BY <1>5, AnswersByValue, PTL

\* Types, for the steps that leave the issuer's document and the clock alone.
LEMMA TypesFromParts ==
    ASSUME TypeOK, UNCHANGED <<clock, published, since, until>>,
           NEW c \in Containers, NEW i \in Invocation, Goes(c, i),
           i.pc # "idle" => i.entered <= clock /\ clock <= i.entered + Limit,
           i.pc \in {"keys", "verify"} => i.token \in Tokens,
           troubles' \in 0..MaxTroubles, faultAt' \in Int, faultAt' <= clock,
           jwks' \in [Containers -> [keys: Seq(Keys), at: Int]],
           \A d \in Containers : jwks'[d].at <= clock,
           cache' \in [Pods -> [Tokens -> [answer: Answer, at: Int]]]
    PROVE  TypeOK'
  <1>1. inv \in [Containers -> Invocation] /\ inv' = [inv EXCEPT ![c] = i]
    BY DEF TypeOK, Goes
  <1>2. inv' \in [Containers -> Invocation]
    BY <1>1
  <1>3. \A d \in Containers : inv'[d] = IF d = c THEN i ELSE inv[d]
    BY <1>1
  <1>4. \A d \in Containers :
            /\ inv'[d].pc # "idle" =>
                inv'[d].entered <= clock' /\ clock' <= inv'[d].entered + Limit
            /\ inv'[d].pc \in {"keys", "verify"} => inv'[d].token \in Tokens
    BY <1>3 DEF TypeOK
  <1>5. /\ clock' \in 0..MaxClock /\ published' \in KeyRings
        /\ since' \in [Keys -> Int] /\ until' \in [Keys -> Int]
        /\ \A k \in Keys : since'[k] <= clock' /\ until'[k] <= clock'
        /\ faultAt' <= clock' /\ \A d \in Containers : jwks'[d].at <= clock'
    BY DEF TypeOK
  <1>6. QED
    BY <1>2, <1>4, <1>5 DEF TypeOK

-----------------------------------------------------------------------------
(* The steps of the function and of the gateway.                           *)

LEMMA IdleType == Idle \in Invocation /\ \A w \in {"no", "fresh", "stale", "probe"} : Refused(w) \in Answer
  BY DEF Idle, Invocation, Refused, Answer

\* The parts of the types that the steps below need.
LEMMA Parts ==
    ASSUME McpInvariant
    PROVE  /\ TypeOK /\ KeysInvariant /\ AnswersInvariant
           /\ clock \in Nat /\ troubles \in 0..MaxTroubles
           /\ faultAt \in Int /\ faultAt <= clock
           /\ published \in Seq(Keys)
           /\ jwks \in [Containers -> [keys: Seq(Keys), at: Int]]
           /\ \A d \in Containers : jwks[d].at <= clock
           /\ cache \in [Pods -> [Tokens -> [answer: Answer, at: Int]]]
           /\ inv \in [Containers -> Invocation]
           /\ \A c \in Containers : Remembered(c)
  BY McpAssumption DEF McpInvariant, TypeOK, KeysInvariant

LEMMA InvokeKeeps ==
    ASSUME McpInvariant, NEW c \in Containers, NEW t \in Tokens \cup {NoToken},
           NEW route \in {"mcp", "plugin"}, Invoke(c, t, route)
    PROVE  McpInvariant'
  <1> DEFINE i == [Idle EXCEPT !.token = t, !.route = route, !.entered = clock]
  <1>1. /\ i \in Invocation /\ i.token = t /\ i.entered = clock /\ i.answer = Refused("fresh")
        /\ clock \in Nat /\ NoToken \notin Tokens
    BY IdleType, Parts, McpAssumption DEF Idle, Invocation
  <1>2. UNCHANGED <<clock, published, troubles, since, until, faultAt, jwks, cache>>
    BY DEF Invoke
  <1> DEFINE Begun(j) ==
            /\ Goes(c, j) /\ j.entered = clock /\ j.token = t
            /\ j.pc \in {"keys", "verify"} => t \in Tokens
            /\ j.pc = "verify" => FreshKeys(c)
            /\ j.pc = "reply" /\ t # NoToken =>
                 \/ ~Claims[t].rs256 /\ j.answer = Refused("fresh")
                 \/ ~Claims[t].bearer /\ j.answer = Refused("probe")
  <1>30. PICK j \in Invocation : Begun(j)
    <2> DEFINE probed == [i EXCEPT !.pc = "reply", !.answer = Refused("probe")]
               refused == [i EXCEPT !.pc = "reply"]
               looks(w) == [i EXCEPT !.pc = w]
    <2>1. /\ probed \in Invocation /\ probed.entered = clock /\ probed.token = t
          /\ probed.pc = "reply" /\ probed.answer = Refused("probe")
      BY <1>1, IdleType DEF Invocation
    <2>2. /\ refused \in Invocation /\ refused.entered = clock /\ refused.token = t
          /\ refused.pc = "reply" /\ refused.answer = Refused("fresh")
      BY <1>1 DEF Invocation
    <2>3. ASSUME NEW w \in {"keys", "verify"}
          PROVE  /\ looks(w) \in Invocation /\ looks(w).entered = clock /\ looks(w).token = t
                 /\ looks(w).pc = w
      BY <1>1 DEF Invocation
    <2>4. \/ ~Bears(t) /\ Goes(c, probed)
          \/ Bears(t) /\ ~Claims[t].rs256 /\ Goes(c, refused)
          \/ Bears(t) /\ FreshKeys(c) /\ Goes(c, looks("verify"))
          \/ Bears(t) /\ Goes(c, looks("keys"))
      BY DEF Invoke
    <2> HIDE DEF i, probed, refused, looks
    <2>5. CASE ~Bears(t) /\ Goes(c, probed)
      <3>1. Begun(probed)
        BY <2>1, <2>5 DEF Bears
      <3>2. QED
        BY <2>1, <3>1
    <2>6. CASE Bears(t) /\ ~Claims[t].rs256 /\ Goes(c, refused)
      <3>1. Begun(refused)
        BY <2>2, <2>6
      <3>2. QED
        BY <2>2, <3>1
    <2>7. CASE Bears(t) /\ FreshKeys(c) /\ Goes(c, looks("verify"))
      <3>1. Begun(looks("verify"))
        BY <2>3, <2>7 DEF Bears
      <3>2. QED
        BY <2>3, <3>1
    <2>8. CASE Bears(t) /\ Goes(c, looks("keys"))
      <3>1. Begun(looks("keys"))
        BY <2>3, <2>8 DEF Bears
      <3>2. QED
        BY <2>3, <3>1
    <2>9. QED
      BY <2>4, <2>5, <2>6, <2>7, <2>8
  <1>3. /\ Goes(c, j) /\ j.entered = clock /\ j.token = t
        /\ j.pc \in {"keys", "verify"} => t \in Tokens
        /\ j.pc = "verify" => FreshKeys(c)
        /\ j.pc = "reply" /\ t # NoToken =>
             \/ ~Claims[t].rs256 /\ j.answer = Refused("fresh")
             \/ ~Claims[t].bearer /\ j.answer = Refused("probe")
    BY <1>30
  <1> HIDE DEF Begun, i
  <1>4. TypeOK'
    <2>1. clock <= clock + Limit
      BY <1>1, Lives
    <2>2. /\ j \in Invocation /\ Goes(c, j)
          /\ j.pc # "idle" => j.entered <= clock /\ clock <= j.entered + Limit
          /\ j.pc \in {"keys", "verify"} => j.token \in Tokens
      BY <1>1, <1>3, <1>30, <2>1
    <2>3. /\ troubles' \in 0..MaxTroubles /\ faultAt' \in Int /\ faultAt' <= clock
          /\ jwks' \in [Containers -> [keys: Seq(Keys), at: Int]]
          /\ \A d \in Containers : jwks'[d].at <= clock
          /\ cache' \in [Pods -> [Tokens -> [answer: Answer, at: Int]]]
      BY <1>2, Parts
    <2>4. TypeOK
      BY Parts
    <2>5. QED
      BY <1>2, <2>2, <2>3, <2>4, TypesFromParts
  <1>5. Onward
    BY <1>2, Parts, OnwardStays
  <1>6. \A d \in Containers : inv'[d] = IF d = c THEN j ELSE inv[d]
    BY <1>3, Parts DEF Goes
  <1>7. KeysInvariant'
    <2>1. ASSUME NEW d \in Containers PROVE Remembered(d)'
      <3>1. inv'[d].pc = "verify" => inv'[d].entered < jwks[d].at + KeysTtl
        <4>1. CASE d = c
          <5>1. FreshKeys(c) => clock < jwks[c].at + KeysTtl
            <6>1. jwks[c].at \in Int
              BY Parts
            <6>2. QED
              BY <1>1, <6>1, Lives DEF FreshKeys
          <5>2. QED
            BY <1>3, <1>6, <4>1, <5>1
        <4>2. CASE d # c
          BY <1>6, <4>2, Parts DEF Remembered
        <4>3. QED
          BY <4>1, <4>2
      <3>2. QED
        BY <1>2, <1>4, <1>5, <3>1, RememberedLasts
    <2>2. QED
      BY <1>4, <1>5, <2>1, KeysFromParts
  <1>8. AnswersInvariant'
    <2>1. ASSUME NEW d \in Containers
          PROVE  \/ inv'[d] = inv[d]
                 \/ inv'[d].pc # "reply" \/ inv'[d].token = NoToken
                 \/ \A u \in Tokens : \A a, e :
                        inv'[d].token = u /\ inv'[d].answer = a /\ inv'[d].entered = e
                            => Explained(u, a, e)'
      <3>1. CASE d # c
        BY <1>6, <3>1
      <3>2. CASE d = c /\ j.pc = "reply" /\ t # NoToken
        <4>1. ASSUME NEW e PROVE Explained(t, j.answer, e)'
          BY <1>3, <3>2 DEF Explained, Refused, FreshSince
        <4>2. QED
          BY <1>3, <1>6, <3>2, <4>1
      <3>3. QED
        BY <1>3, <1>6, <3>1, <3>2
    <2>2. QED
      BY <1>2, <1>4, <1>5, <2>1, AnswersFromParts
  <1>9. QED
    BY <1>4, <1>7, <1>8 DEF McpInvariant

LEMMA FetchKeysKeeps ==
    ASSUME McpInvariant, NEW c \in Containers, FetchKeys(c)
    PROVE  McpInvariant'
  <1> DEFINE i == inv[c]
  <1>1. /\ i \in Invocation /\ i.pc = "keys" /\ i.token \in Tokens
        /\ i.entered \in Nat /\ i.entered <= clock /\ clock <= i.entered + Limit
        /\ clock \in Nat
    <2>1. i \in Invocation /\ i.pc = "keys"
      BY Parts DEF FetchKeys, At
    <2>2. QED
      BY <2>1, Parts DEF TypeOK, Invocation
  <1>2. UNCHANGED <<clock, published, since, until, cache>>
    BY DEF FetchKeys
  <1>3. PICK j \in Invocation :
            /\ Goes(c, j) /\ j.entered = i.entered /\ j.token = i.token
            /\ \/ /\ j.pc = "verify"
                  /\ \/ /\ jwks' = [jwks EXCEPT ![c] = [keys |-> published, at |-> i.entered]]
                        /\ UNCHANGED <<troubles, faultAt>>
                     \/ /\ jwks' = [jwks EXCEPT ![c] = [keys |-> <<>>, at |-> i.entered]]
                        /\ Fails
               \/ j.pc = "reply" /\ j.answer = Refused("fresh") /\ Fails /\ UNCHANGED jwks
    <2>1. CASE Goes(c, [i EXCEPT !.pc = "verify"])
      <3> DEFINE j == [i EXCEPT !.pc = "verify"]
      <3>1. j \in Invocation /\ j.entered = i.entered /\ j.token = i.token /\ j.pc = "verify"
        BY <1>1 DEF Invocation
      <3>2. CASE /\ jwks' = [jwks EXCEPT ![c] = [keys |-> published, at |-> i.entered]]
                 /\ UNCHANGED <<troubles, faultAt>>
        BY <2>1, <3>1, <3>2
      <3>3. CASE jwks' = [jwks EXCEPT ![c] = [keys |-> <<>>, at |-> i.entered]] /\ Fails
        BY <2>1, <3>1, <3>3
      <3>4. CASE /\ Goes(c, [i EXCEPT !.pc = "reply", !.answer = Refused("fresh")])
                 /\ Fails /\ UNCHANGED jwks
        <4> DEFINE k == [i EXCEPT !.pc = "reply", !.answer = Refused("fresh")]
        <4>1. /\ k \in Invocation /\ k.entered = i.entered /\ k.token = i.token
              /\ k.pc = "reply" /\ k.answer = Refused("fresh")
          BY <1>1, IdleType DEF Invocation
        <4>2. QED
          BY <3>4, <4>1
      <3>5. QED
        BY <3>2, <3>3, <3>4 DEF FetchKeys
    <2>2. CASE /\ Goes(c, [i EXCEPT !.pc = "reply", !.answer = Refused("fresh")])
               /\ Fails /\ UNCHANGED jwks
      <3> DEFINE k == [i EXCEPT !.pc = "reply", !.answer = Refused("fresh")]
      <3>1. /\ k \in Invocation /\ k.entered = i.entered /\ k.token = i.token
            /\ k.pc = "reply" /\ k.answer = Refused("fresh")
        BY <1>1, IdleType DEF Invocation
      <3>2. QED
        BY <2>2, <3>1
    <2>3. QED
      BY <2>1, <2>2 DEF FetchKeys
  <1> HIDE DEF i
  <1>4. /\ troubles' \in 0..MaxTroubles /\ faultAt' \in Int
        /\ faultAt <= faultAt' /\ faultAt' <= clock
    <2>1. CASE Fails
      BY <2>1, <1>1, Parts, McpAssumption DEF Fails, Trouble
    <2>2. CASE UNCHANGED <<troubles, faultAt>>
      BY <2>2, Parts
    <2>3. QED
      BY <1>3, <2>1, <2>2
  <1>5. /\ jwks' \in [Containers -> [keys: Seq(Keys), at: Int]]
        /\ \A d \in Containers : jwks'[d].at <= clock
        /\ \A d \in Containers : d # c => jwks'[d] = jwks[d]
    <2>1. ASSUME NEW ring \in Seq(Keys),
                 jwks' = [jwks EXCEPT ![c] = [keys |-> ring, at |-> i.entered]]
          PROVE  /\ jwks' \in [Containers -> [keys: Seq(Keys), at: Int]]
                 /\ \A d \in Containers : jwks'[d].at <= clock
                 /\ \A d \in Containers : d # c => jwks'[d] = jwks[d]
      BY <1>1, <2>1, Parts
    <2>2. CASE UNCHANGED jwks
      BY <2>2, Parts
    <2>3. <<>> \in Seq(Keys) /\ published \in Seq(Keys)
      BY Parts
    <2>4. QED
      BY <1>3, <2>1, <2>2, <2>3
  <1>6. TypeOK'
    BY <1>1, <1>2, <1>3, <1>4, <1>5, Parts, TypesFromParts
  <1>7. Onward
    BY <1>2, <1>4, Parts, OnwardStays
  <1>8. \A d \in Containers : inv'[d] = IF d = c THEN j ELSE inv[d]
    BY <1>3, Parts DEF Goes
  <1>9. Remembered(c)'
    <2>1. CASE /\ j.pc = "verify" /\ jwks' = [jwks EXCEPT ![c] = [keys |-> published, at |-> i.entered]]
      <3>1. jwks'[c].keys = published /\ jwks'[c].at = i.entered
        BY <2>1, Parts
      <3>2. \A k \in Members(published) : i.entered <= PublishedUntil(k)'
        BY <1>1, <1>2 DEF PublishedUntil
      <3>3. inv'[c].entered < jwks'[c].at + KeysTtl
        BY <1>1, <1>3, <1>8, <3>1, Lives
      <3>4. QED
        BY <1>2, <3>1, <3>2, <3>3 DEF Remembered
    <2>2. CASE j.pc = "verify" /\ jwks' = [jwks EXCEPT ![c] = [keys |-> <<>>, at |-> i.entered]] /\ Fails
      <3>1. jwks'[c].keys = <<>> /\ jwks'[c].at = i.entered
        BY <2>2, Parts
      <3>2. Members(<<>>) = {}
        BY DEF Members
      <3>3. i.entered <= faultAt'
        BY <1>1, <2>2 DEF Fails
      <3>4. inv'[c].entered < jwks'[c].at + KeysTtl
        BY <1>1, <1>3, <1>8, <3>1, Lives
      <3>5. QED
        BY <3>1, <3>2, <3>3, <3>4 DEF Remembered
    <2>3. CASE j.pc = "reply" /\ UNCHANGED jwks
      <3>1. jwks'[c] = jwks[c] /\ inv'[c].pc # "verify"
        BY <1>8, <2>3
      <3>2. QED
        BY <1>6, <1>7, <3>1, RememberedLasts
    <2>4. QED
      BY <1>3, <2>1, <2>2, <2>3
  <1>10. KeysInvariant'
    <2>1. ASSUME NEW d \in Containers, d # c PROVE Remembered(d)'
      <3>1. inv'[d].pc = "verify" => inv'[d].entered < jwks[d].at + KeysTtl
        BY <1>8, <2>1, Parts DEF Remembered
      <3>2. QED
        BY <1>5, <1>6, <1>7, <2>1, <3>1, RememberedLasts
    <2>2. QED
      BY <1>6, <1>7, <1>9, <2>1, KeysFromParts
  <1>11. AnswersInvariant'
    <2>1. ASSUME NEW d \in Containers
          PROVE  \/ inv'[d] = inv[d]
                 \/ inv'[d].pc # "reply" \/ inv'[d].token = NoToken
                 \/ \A u \in Tokens : \A a, e :
                        inv'[d].token = u /\ inv'[d].answer = a /\ inv'[d].entered = e
                            => Explained(u, a, e)'
      <3>1. CASE d # c
        BY <1>8, <3>1
      <3>2. CASE d = c /\ j.pc = "reply" /\ j.answer = Refused("fresh") /\ Fails
        <4>1. i.entered < faultAt' + KeysTtl
          BY <1>1, <3>2, Lives DEF Fails
        <4>2. \A x, f : f < faultAt' + KeysTtl => Explained(x, Refused("fresh"), f)'
          BY DEF Explained, Refused, FreshSince
        <4>3. QED
          BY <1>3, <1>8, <3>2, <4>1, <4>2
      <3>3. QED
        BY <1>3, <1>8, <3>1, <3>2
    <2>2. QED
      BY <1>2, <1>6, <1>7, <2>1, AnswersFromParts
  <1>12. QED
    BY <1>6, <1>10, <1>11 DEF McpInvariant

LEMMA VerifyKeeps ==
    ASSUME McpInvariant, NEW c \in Containers, Verify(c)
    PROVE  McpInvariant'
  <1> DEFINE i == inv[c]
             v == Verdict(jwks[c].keys, i.token)
             j == [i EXCEPT !.pc = "reply", !.answer = v]
  <1>1. /\ i \in Invocation /\ i.pc = "verify" /\ i.token \in Tokens
        /\ i.entered \in Nat /\ i.entered <= clock /\ clock <= i.entered + Limit
        /\ clock \in Nat
    <2>1. i \in Invocation /\ i.pc = "verify"
      BY Parts DEF Verify, At
    <2>2. QED
      BY <2>1, Parts DEF TypeOK, Invocation
  <1>2. v \in Answer /\ Explained(i.token, v, i.entered)
    BY <1>1, VerdictExplained
  <1>3. Goes(c, j) /\ UNCHANGED <<clock, published, troubles, since, until, faultAt, jwks, cache>>
    BY DEF Verify
  <1> HIDE DEF v
  <1>4. /\ j \in Invocation /\ j.pc = "reply" /\ j.token = i.token /\ j.answer = v
        /\ j.entered = i.entered
    BY <1>1, <1>2 DEF Invocation
  <1> HIDE DEF i, j
  <1>5. TypeOK'
    BY <1>1, <1>3, <1>4, Parts, TypesFromParts
  <1>6. Onward
    <2>1. faultAt' \in Int /\ faultAt <= faultAt'
      BY <1>3, Parts
    <2>2. QED
      BY <1>3, <2>1, Parts, OnwardStays
  <1>7. \A d \in Containers : inv'[d] = IF d = c THEN j ELSE inv[d]
    BY <1>3, Parts DEF Goes
  <1>8. KeysInvariant'
    <2>1. ASSUME NEW d \in Containers PROVE Remembered(d)'
      <3>1. inv'[d].pc = "verify" => inv'[d].entered < jwks[d].at + KeysTtl
        BY <1>4, <1>7, Parts DEF Remembered
      <3>2. QED
        BY <1>3, <1>5, <1>6, <3>1, RememberedLasts
    <2>2. QED
      BY <1>5, <1>6, <2>1, KeysFromParts
  <1>9. AnswersInvariant'
    <2>2. ASSUME NEW d \in Containers
          PROVE  \/ inv'[d] = inv[d]
                 \/ inv'[d].pc # "reply" \/ inv'[d].token = NoToken
                 \/ \A u \in Tokens : \A a, e :
                        inv'[d].token = u /\ inv'[d].answer = a /\ inv'[d].entered = e
                            => Explained(u, a, e)'
      <3>1. CASE d # c
        BY <1>7, <3>1
      <3>2. CASE d = c
        <4>1. ASSUME NEW u \in Tokens, NEW a, NEW e, inv'[d].token = u, inv'[d].answer = a,
                     inv'[d].entered = e
              PROVE  Explained(u, a, e)'
          <5>1. u = i.token /\ a = v /\ e = i.entered
            BY <1>4, <1>7, <3>2, <4>1
          <5>2. Explained(u, a, e)
            BY <1>2, <5>1
          <5>3. e \in Int /\ e <= clock /\ e <= e
            BY <1>1, <5>1
          <5>4. QED
            BY <1>5, <1>6, <5>2, <5>3, Parts, ExplanationLasts
        <4>2. QED
          BY <4>1
      <3>3. QED
        BY <3>1, <3>2
    <2>3. QED
      BY <1>3, <1>5, <1>6, <2>2, AnswersFromParts
  <1>10. QED
    BY <1>5, <1>8, <1>9 DEF McpInvariant

LEMMA ReplyKeeps ==
    ASSUME McpInvariant, NEW c \in Containers, Reply(c)
    PROVE  McpInvariant'
  <1> DEFINE i == inv[c]
             entry == [answer |-> i.answer, at |-> clock]
             p0 == PodOf[c]
  <1>1. /\ i \in Invocation /\ i.pc = "reply" /\ i.answer \in Answer
        /\ i.entered \in Nat /\ i.entered <= clock /\ clock <= i.entered + Limit
        /\ clock \in Nat /\ i.token \in Tokens \cup {NoToken}
    <2>1. i \in Invocation /\ i.pc = "reply"
      BY Parts DEF Reply, At
    <2>2. QED
      BY <2>1, Parts DEF TypeOK, Invocation
  <1>2. /\ Goes(c, Idle) /\ UNCHANGED <<clock, published, troubles, since, until, faultAt, jwks>>
        /\ cache' = IF i.route = "mcp" THEN [cache EXCEPT ![p0][i.token] = entry] ELSE cache
    BY DEF Reply
  <1>3. Idle \in Invocation /\ Idle.pc = "idle" /\ entry \in [answer: Answer, at: Int]
        /\ entry.at = clock /\ entry.answer = i.answer
    BY <1>1, IdleType DEF Idle
  <1> HIDE DEF i, entry, p0
  <1>4. /\ cache' \in [Pods -> [Tokens -> [answer: Answer, at: Int]]]
        /\ \A p \in Pods, t \in Tokens :
              cache'[p][t] = cache[p][t] \/ (t = i.token /\ cache'[p][t] = entry)
    <2>1. CASE i.route = "mcp"
      <3>1. cache' = [cache EXCEPT ![p0] = [cache[p0] EXCEPT ![i.token] = entry]]
        BY <1>2, <2>1
      <3>2. ASSUME NEW p \in Pods
            PROVE  /\ [cache[p] EXCEPT ![i.token] = entry] \in [Tokens -> [answer: Answer, at: Int]]
                   /\ \A t \in Tokens : \/ [cache[p] EXCEPT ![i.token] = entry][t] = cache[p][t]
                                        \/ t = i.token /\ [cache[p] EXCEPT ![i.token] = entry][t] = entry
        <4>1. cache[p] \in [Tokens -> [answer: Answer, at: Int]]
          BY Parts
        <4>2. QED
          BY <1>3, <4>1
      <3>3. QED
        BY <3>1, <3>2, Parts
    <2>2. CASE i.route # "mcp"
      BY <1>2, <2>2, Parts
    <2>3. QED
      BY <2>1, <2>2
  <1>5. TypeOK'
    BY <1>2, <1>3, <1>4, Parts, TypesFromParts
  <1>6. Onward
    <2>1. faultAt' \in Int /\ faultAt <= faultAt'
      BY <1>2, Parts
    <2>2. QED
      BY <1>2, <2>1, Parts, OnwardStays
  <1>7. \A d \in Containers : inv'[d] = IF d = c THEN Idle ELSE inv[d]
    BY <1>2, Parts DEF Goes
  <1>8. KeysInvariant'
    <2>1. ASSUME NEW d \in Containers PROVE Remembered(d)'
      <3>1. inv'[d].pc = "verify" => inv'[d].entered < jwks[d].at + KeysTtl
        BY <1>3, <1>7, Parts DEF Remembered
      <3>2. QED
        BY <1>2, <1>5, <1>6, <3>1, RememberedLasts
    <2>2. QED
      BY <1>5, <1>6, <2>1, KeysFromParts
  <1>9. AnswersInvariant'
    <2>1. \A d \in Containers : inv'[d] = inv[d] \/ inv'[d].pc # "reply"
      BY <1>3, <1>7
    <2>2. ASSUME NEW t \in Tokens, NEW a, NEW e, t = i.token, a = i.answer, e = clock - Limit
          PROVE  Explained(t, a, e)'
      <3>1. PICK f \in Int : f = i.entered
        BY <1>1
      <3>2. Explained(i.token, i.answer, i.entered)
        BY <1>1, <2>2, Parts, McpAssumption DEF AnswersInvariant, i
      <3>3. Explained(t, a, f)
        BY <2>2, <3>1, <3>2
      <3>4. e \in Int /\ e <= f /\ f <= clock
        BY <1>1, <2>2, <3>1, Lives
      <3>5. QED
        BY <1>5, <1>6, <3>3, <3>4, Parts, ExplanationLasts
    <2>3. ASSUME NEW p \in Pods, NEW t \in Tokens
          PROVE  \/ cache'[p][t] = cache[p][t]
                 \/ /\ cache'[p][t].at <= clock'
                    /\ \A a, e : Cached(p, t)' /\ cache'[p][t].answer = a /\ cache'[p][t].at - Limit = e
                        => Explained(t, a, e)'
      <3>1. CASE cache'[p][t] = cache[p][t]
        BY <3>1
      <3>2. CASE t = i.token /\ cache'[p][t] = entry
        <4>1. cache'[p][t].at = clock /\ cache'[p][t].answer = i.answer /\ clock <= clock'
          BY <1>1, <1>2, <1>3, <3>2
        <4>2. \A a, e : a = i.answer /\ e = clock - Limit => Explained(t, a, e)'
          BY <2>2, <3>2
        <4>3. QED
          BY <1>2, <4>1, <4>2
      <3>3. QED
        BY <1>4, <3>1, <3>2
    <2>4. QED
      BY <1>5, <1>6, <2>1, <2>3, AnswersFromParts
  <1>10. QED
    BY <1>5, <1>8, <1>9 DEF McpInvariant

LEMMA EndsKeeps ==
    ASSUME McpInvariant, NEW c \in Containers, Ends(c)
    PROVE  McpInvariant'
  <1>1. /\ Goes(c, Idle) /\ jwks' = [jwks EXCEPT ![c] = NoKeys]
        /\ UNCHANGED <<clock, published, troubles, since, until, faultAt, cache>>
    BY DEF Ends
  <1>2. /\ Idle \in Invocation /\ Idle.pc = "idle"
        /\ NoKeys \in [keys: Seq(Keys), at: Int] /\ NoKeys.at = -Long /\ NoKeys.keys = <<>>
        /\ clock \in Nat /\ -Long \in Int /\ -Long <= clock
    BY IdleType, Lives, Parts DEF Idle, NoKeys
  <1>3. /\ jwks' \in [Containers -> [keys: Seq(Keys), at: Int]]
        /\ \A d \in Containers : jwks'[d] = IF d = c THEN NoKeys ELSE jwks[d]
    BY <1>1, <1>2, Parts
  <1>4. TypeOK'
    <2>1. \A d \in Containers : jwks'[d].at <= clock
      BY <1>2, <1>3, Parts
    <2>2. QED
      BY <1>1, <1>2, <1>3, <2>1, Parts, TypesFromParts
  <1>5. Onward
    <2>1. faultAt' \in Int /\ faultAt <= faultAt'
      BY <1>1, Parts
    <2>2. QED
      BY <1>1, <2>1, Parts, OnwardStays
  <1>6. \A d \in Containers : inv'[d] = IF d = c THEN Idle ELSE inv[d]
    BY <1>1, Parts DEF Goes
  <1>7. KeysInvariant'
    <2>1. Remembered(c)'
      <3>1. jwks'[c].keys = <<>> /\ jwks'[c].at = -Long /\ inv'[c].pc # "verify"
        BY <1>2, <1>3, <1>6
      <3>2. Members(<<>>) = {}
        BY DEF Members
      <3>3. \A k \in Members(published') : -Long <= since'[k]
        BY <1>1, Parts, MembersOfRing DEF KeysInvariant
      <3>4. QED
        BY <3>1, <3>2, <3>3 DEF Remembered
    <2>2. ASSUME NEW d \in Containers, d # c PROVE Remembered(d)'
      <3>1. inv'[d].pc = "verify" => inv'[d].entered < jwks[d].at + KeysTtl
        BY <1>6, <2>2, Parts DEF Remembered
      <3>2. QED
        BY <1>3, <1>4, <1>5, <2>2, <3>1, RememberedLasts
    <2>3. QED
      BY <1>4, <1>5, <2>1, <2>2, KeysFromParts
  <1>8. AnswersInvariant'
    <2>1. \A d \in Containers : inv'[d] = inv[d] \/ inv'[d].pc # "reply"
      BY <1>2, <1>6
    <2>2. QED
      BY <1>1, <1>4, <1>5, <2>1, AnswersFromParts
  <1>9. QED
    BY <1>4, <1>7, <1>8 DEF McpInvariant

LEMMA RotateKeeps ==
    ASSUME McpInvariant, Rotate
    PROVE  McpInvariant'
  <1>1. PICK ring \in KeyRings :
            /\ published' = ring
            /\ since' = [k \in Keys |-> IF k \in Members(ring) \ Members(published)
                                        THEN clock ELSE since[k]]
            /\ until' = [k \in Keys |-> IF k \in Members(published) THEN clock ELSE until[k]]
    BY DEF Rotate
  <1>2. UNCHANGED <<clock, faultAt, jwks, cache, inv>> /\ troubles' = troubles + 1
        /\ troubles < MaxTroubles
    BY DEF Rotate, Trouble
  <1>3. TypeOK /\ clock \in Nat /\ troubles \in 0..MaxTroubles
    BY Parts
  <1>4. \A k \in Keys : /\ since[k] \in Int /\ since[k] <= clock
                        /\ until[k] \in Int /\ until[k] <= clock
    BY <1>3 DEF TypeOK
  <1>5. \A k \in Keys : /\ since'[k] = IF k \in Members(ring) \ Members(published)
                                       THEN clock ELSE since[k]
                        /\ until'[k] = IF k \in Members(published) THEN clock ELSE until[k]
    BY <1>1
  <1>6. TypeOK'
    <2>1. troubles' \in 0..MaxTroubles
      BY <1>2, <1>3, McpAssumption
    <2>2. since' \in [Keys -> Int] /\ until' \in [Keys -> Int]
      BY <1>1, <1>3, <1>4
    <2>3. \A k \in Keys : since'[k] <= clock /\ until'[k] <= clock
      BY <1>3, <1>4, <1>5
    <2>4. /\ clock' = clock /\ faultAt' = faultAt /\ jwks' = jwks /\ cache' = cache
          /\ inv' = inv /\ published' \in KeyRings
      BY <1>1, <1>2
    <2>5. /\ clock' \in 0..MaxClock /\ faultAt' \in Int /\ faultAt' <= clock'
          /\ jwks' \in [Containers -> [keys: Seq(Keys), at: Int]]
          /\ cache' \in [Pods -> [Tokens -> [answer: Answer, at: Int]]]
          /\ inv' \in [Containers -> Invocation]
          /\ \A k \in Keys : since'[k] <= clock' /\ until'[k] <= clock'
      BY <1>3, <2>3, <2>4 DEF TypeOK
    <2>6. \A c \in Containers :
            /\ jwks'[c].at <= clock'
            /\ inv'[c].pc # "idle" =>
                inv'[c].entered <= clock' /\ clock' <= inv'[c].entered + Limit
            /\ inv'[c].pc \in {"keys", "verify"} => inv'[c].token \in Tokens
      BY <1>3, <2>4 DEF TypeOK
    <2>7. QED
      BY <2>1, <2>2, <2>4, <2>5, <2>6 DEF TypeOK
  <1>7. Onward
    <2>1. clock <= clock' /\ faultAt <= faultAt'
      BY <1>2, <1>3, Parts
    <2>2. ASSUME NEW k \in Keys PROVE PublishedUntil(k) <= PublishedUntil(k)'
      BY <1>1, <1>2, <1>3, <1>4, <1>5 DEF PublishedUntil
    <2>3. ASSUME NEW k \in Keys, k \in Members(published)', k \notin Members(published)
          PROVE  clock <= since'[k]
      <3>1. since'[k] = clock
        BY <1>1, <1>5, <2>3
      <3>2. QED
        BY <1>3, <3>1
    <2>4. \A k \in Keys : k \in Members(published) => since'[k] = since[k]
      BY <1>5
    <2>5. \A k \in Keys : since[k] <= since'[k]
      BY <1>3, <1>4, <1>5
    <2>6. QED
      BY <2>1, <2>2, <2>3, <2>4, <2>5 DEF Onward
  <1>8. KeysInvariant'
    <2>1. ASSUME NEW d \in Containers PROVE Remembered(d)'
      <3>1. inv'[d].pc = "verify" => inv'[d].entered < jwks[d].at + KeysTtl
        BY <1>2, Parts DEF Remembered
      <3>2. QED
        BY <1>2, <1>6, <1>7, <3>1, RememberedLasts
    <2>2. QED
      BY <1>6, <1>7, <2>1, KeysFromParts
  <1>9. AnswersInvariant'
    BY <1>2, <1>6, <1>7, AnswersFromParts
  <1>10. QED
    BY <1>6, <1>8, <1>9 DEF McpInvariant

LEMMA TickKeeps ==
    ASSUME McpInvariant, Tick
    PROVE  McpInvariant'
  <1>1. /\ clock < MaxClock /\ clock' = clock + 1
        /\ cache' = [p \in Pods |-> [t \in Tokens |->
                        IF clock' < cache[p][t].at + GatewayTtl THEN cache[p][t] ELSE NoAnswer]]
        /\ UNCHANGED <<published, troubles, since, until, faultAt, jwks, inv>>
    BY DEF Tick
  <1>2. \A c \in Containers : inv[c].pc # "idle" => clock < inv[c].entered + Limit
    BY DEF Tick
  <1>3. TypeOK /\ clock \in Nat /\ MaxClock \in Nat /\ clock <= clock' /\ clock' \in Nat
    BY <1>1, Parts, McpAssumption
  <1>4. NoAnswer \in [answer: Answer, at: Int] /\ NoAnswer.at = -GatewayTtl
    BY IdleType, Lives DEF NoAnswer
  <1>5. /\ cache' \in [Pods -> [Tokens -> [answer: Answer, at: Int]]]
        /\ \A p \in Pods, t \in Tokens : cache'[p][t] = cache[p][t] \/ cache'[p][t] = NoAnswer
    <2>1. ASSUME NEW p \in Pods, NEW t \in Tokens
          PROVE  cache[p][t] \in [answer: Answer, at: Int]
      BY Parts
    <2>2. QED
      BY <1>1, <1>4, <2>1
  <1>6. TypeOK'
    <2>1. clock' \in 0..MaxClock
      BY <1>1, <1>3
    <2>2. /\ published' \in KeyRings /\ troubles' \in 0..MaxTroubles
          /\ since' \in [Keys -> Int] /\ until' \in [Keys -> Int] /\ faultAt' \in Int
          /\ jwks' \in [Containers -> [keys: Seq(Keys), at: Int]]
          /\ inv' \in [Containers -> Invocation]
      BY <1>1, <1>3 DEF TypeOK
    <2>3. faultAt' <= clock'
      BY <1>1, <1>3, Parts
    <2>4. \A k \in Keys : since'[k] <= clock' /\ until'[k] <= clock'
      <3>1. \A k \in Keys : /\ since[k] <= clock /\ until[k] <= clock
                            /\ since[k] \in Int /\ until[k] \in Int
        BY <1>3 DEF TypeOK
      <3>2. QED
        BY <1>1, <1>3, <3>1
    <2>5. ASSUME NEW c \in Containers
          PROVE  /\ jwks'[c].at <= clock'
                 /\ inv'[c].pc # "idle" =>
                     inv'[c].entered <= clock' /\ clock' <= inv'[c].entered + Limit
                 /\ inv'[c].pc \in {"keys", "verify"} => inv'[c].token \in Tokens
      <3>1. jwks[c].at \in Int /\ jwks[c].at <= clock
        <4>1. jwks[c] \in [keys: Seq(Keys), at: Int]
          BY Parts
        <4>2. QED
          BY <4>1, Parts
      <3>2. inv[c].entered \in Nat
        <4>1. inv[c] \in Invocation
          BY Parts
        <4>2. QED
          BY <4>1 DEF Invocation
      <3>3. /\ inv[c].pc # "idle" => inv[c].entered <= clock
            /\ inv[c].pc \in {"keys", "verify"} => inv[c].token \in Tokens
        BY <1>3 DEF TypeOK
      <3>4. jwks'[c] = jwks[c] /\ inv'[c] = inv[c]
        BY <1>1
      <3>5. inv[c].pc # "idle" => clock < inv[c].entered + Limit
        BY <1>2
      <3>6. QED
        BY <1>1, <1>3, <3>1, <3>2, <3>3, <3>4, <3>5, Lives
    <2>6. QED
      BY <1>5, <2>1, <2>2, <2>3, <2>4, <2>5 DEF TypeOK
  <1>7. Onward
    <2>1. \A k \in Keys : PublishedUntil(k) <= PublishedUntil(k)'
      <3>1. ASSUME NEW k \in Keys PROVE PublishedUntil(k) <= PublishedUntil(k)'
        <4>1. PublishedUntil(k)' = IF k \in Members(published) THEN clock' ELSE until[k]
          BY <1>1 DEF PublishedUntil
        <4>2. until[k] \in Int
          BY <1>3 DEF TypeOK
        <4>3. QED
          BY <1>3, <4>1, <4>2 DEF PublishedUntil
      <3>2. QED
        BY <3>1
    <2>2. /\ published' = published /\ since' = since /\ faultAt' = faultAt
          /\ faultAt \in Int /\ \A k \in Keys : since[k] \in Int
      BY <1>1, <1>3 DEF TypeOK
    <2>3. \A k \in Keys : since[k] <= since'[k]
      BY <2>2
    <2>4. faultAt <= faultAt'
      BY <2>2
    <2>5. QED
      BY <1>3, <2>1, <2>2, <2>3, <2>4 DEF Onward
  <1>8. KeysInvariant'
    <2>1. ASSUME NEW d \in Containers PROVE Remembered(d)'
      <3>1. inv'[d].pc = "verify" => inv'[d].entered < jwks[d].at + KeysTtl
        BY <1>1, Parts DEF Remembered
      <3>2. QED
        BY <1>1, <1>6, <1>7, <3>1, RememberedLasts
    <2>2. QED
      BY <1>6, <1>7, <2>1, KeysFromParts
  <1>9. AnswersInvariant'
    <2>1. ASSUME NEW p \in Pods, NEW t \in Tokens, cache'[p][t] = NoAnswer
          PROVE  cache'[p][t].at <= clock' /\ ~Cached(p, t)'
      BY <1>3, <1>4, <2>1, Lives DEF Cached
    <2>2. \A p \in Pods, t \in Tokens :
            \/ cache'[p][t] = cache[p][t]
            \/ /\ cache'[p][t].at <= clock'
               /\ \A a, e : Cached(p, t)' /\ cache'[p][t].answer = a /\ cache'[p][t].at - Limit = e
                    => Explained(t, a, e)'
      BY <1>5, <2>1
    <2>3. \A d \in Containers : inv'[d] = inv[d]
      BY <1>1
    <2>4. QED
      BY <1>6, <1>7, <2>2, <2>3, AnswersFromParts
  <1>10. QED
    BY <1>6, <1>8, <1>9 DEF McpInvariant

-----------------------------------------------------------------------------
(* The invariant.                                                          *)

LEMMA McpInit == Init => McpInvariant
  <1> SUFFICES ASSUME Init PROVE McpInvariant
    OBVIOUS
  <1>1. /\ Idle \in Invocation /\ Idle.pc = "idle"
        /\ NoKeys \in [keys: Seq(Keys), at: Int] /\ NoKeys.at = -Long /\ NoKeys.keys = <<>>
        /\ NoAnswer \in [answer: Answer, at: Int] /\ NoAnswer.at = -GatewayTtl
        /\ -Long \in Int /\ -Long <= 0 /\ -GatewayTtl <= 0 /\ ~(0 < -GatewayTtl + GatewayTtl)
    BY IdleType, Lives DEF Idle, NoKeys, NoAnswer
  <1>2. /\ clock = 0 /\ troubles = 0 /\ published \in KeyRings /\ faultAt = -Long
        /\ \A c \in Containers : jwks[c] = NoKeys /\ inv[c] = Idle
        /\ \A p \in Pods, t \in Tokens : cache[p][t] = NoAnswer
        /\ \A k \in Keys : since[k] = -Long /\ until[k] = -Long
    BY DEF Init
  <1>3. TypeOK
    <2>1. /\ clock \in 0..MaxClock /\ troubles \in 0..MaxTroubles
      BY <1>2, McpAssumption
    <2>2. /\ since \in [Keys -> Int] /\ until \in [Keys -> Int]
          /\ jwks \in [Containers -> [keys: Seq(Keys), at: Int]]
          /\ cache \in [Pods -> [Tokens -> [answer: Answer, at: Int]]]
          /\ inv \in [Containers -> Invocation]
      BY <1>1 DEF Init
    <2>3. QED
      BY <1>1, <1>2, <2>1, <2>2 DEF TypeOK
  <1>4. KeysInvariant
    <2>1. Members(<<>>) = {}
      BY DEF Members
    <2>2. Members(published) \subseteq Keys
      BY <1>2, McpAssumption, MembersOfRing
    <2>3. \A k \in Keys : -Long <= since[k]
      BY <1>1, <1>2
    <2>4. QED
      BY <1>1, <1>2, <2>1, <2>2, <2>3 DEF KeysInvariant, Remembered
  <1>5. AnswersInvariant
    BY <1>1, <1>2 DEF AnswersInvariant, Cached
  <1>6. QED
    BY <1>3, <1>4, <1>5 DEF McpInvariant

LEMMA McpStep == McpInvariant /\ [Next]_vars => McpInvariant'
  <1> SUFFICES ASSUME McpInvariant, [Next]_vars PROVE McpInvariant'
    OBVIOUS
  <1>1. ASSUME NEW c \in Containers, NEW t \in Tokens \cup {NoToken},
               NEW route \in {"mcp", "plugin"}, Invoke(c, t, route)
        PROVE  McpInvariant'
    BY <1>1, InvokeKeeps
  <1>2. ASSUME NEW c \in Containers, FetchKeys(c) \/ Verify(c) \/ Reply(c) \/ Ends(c)
        PROVE  McpInvariant'
    BY <1>2, FetchKeysKeeps, VerifyKeeps, ReplyKeeps, EndsKeeps
  <1>3. CASE Rotate
    BY <1>3, RotateKeeps
  <1>4. CASE Tick
    BY <1>4, TickKeeps
  <1>5. CASE UNCHANGED vars
    <2>1. UNCHANGED <<clock, published, troubles, since, until, faultAt, jwks, cache, inv>>
      BY <1>5 DEF vars
    <2>2. TypeOK'
      BY <2>1 DEF McpInvariant, TypeOK
    <2>3. KeysInvariant'
      BY <2>1 DEF McpInvariant, KeysInvariant, Remembered, PublishedUntil
    <2>4. AnswersInvariant'
      <3>1. ASSUME NEW u, NEW answer, NEW e, Explained(u, answer, e)
            PROVE  Explained(u, answer, e)'
        BY <2>1, <3>1 DEF Explained, YesSince, FreshSince, Expired, PublishedUntil
      <3>2. ASSUME NEW p, NEW u PROVE Cached(p, u)' = Cached(p, u)
        BY <2>1 DEF Cached
      <3>3. AnswersInvariant
        BY DEF McpInvariant
      <3>4. QED
        BY <2>1, <3>1, <3>2, <3>3 DEF AnswersInvariant
    <2>5. QED
      BY <2>2, <2>3, <2>4 DEF McpInvariant
  <1>6. QED
    BY <1>1, <1>2, <1>3, <1>4, <1>5 DEF Next

\* What a container remembers was published when it says, and every answer, in
\* a gateway's cache or about to be given, has its explanation.
THEOREM AnswersExplainedForEver == Spec => []McpInvariant
  <1>1. QED
    BY McpInit, McpStep, PTL DEF Spec

\* Every invocation is over by its timeout and every instant keeps its type.
THEOREM McpTypes == Spec => []TypeOK
  <1>1. McpInvariant => TypeOK
    BY DEF McpInvariant
  <1>2. QED
    BY <1>1, AnswersExplainedForEver, PTL

\* Whatever may be answered was decided by an invocation that began at most an
\* invocation and the life of a gateway's answer ago.
LEMMA GivenExplained ==
    ASSUME McpInvariant, NEW t \in Tokens, NEW a \in Given(t)
    PROVE  \E e \in Int : e <= clock /\ clock < e + Limit + GatewayTtl /\ Explained(t, a, e)
  <1>1. clock \in Nat
    BY Parts
  <1>2. CASE \E p \in Pods : Cached(p, t) /\ a = cache[p][t].answer
    <2>1. PICK p \in Pods : Cached(p, t) /\ a = cache[p][t].answer
      BY <1>2
    <2>2. cache[p][t].at \in Int /\ cache[p][t].at <= clock
      <3>1. cache[p][t] \in [answer: Answer, at: Int]
        BY Parts
      <3>2. QED
        BY <3>1, Parts DEF AnswersInvariant
    <2>3. Explained(t, a, cache[p][t].at - Limit)
      BY <2>1, Parts DEF AnswersInvariant
    <2>4. clock < cache[p][t].at + GatewayTtl
      BY <2>1 DEF Cached
    <2>5. /\ cache[p][t].at - Limit \in Int /\ cache[p][t].at - Limit <= clock
          /\ clock < (cache[p][t].at - Limit) + Limit + GatewayTtl
      BY <1>1, <2>2, <2>4, Lives
    <2>6. QED
      BY <2>3, <2>5
  <1>3. CASE \E c \in Containers : inv[c].pc = "reply" /\ inv[c].token = t /\ a = inv[c].answer
    <2>1. PICK c \in Containers : inv[c].pc = "reply" /\ inv[c].token = t /\ a = inv[c].answer
      BY <1>3
    <2>2. inv[c].entered \in Nat /\ inv[c].entered <= clock /\ clock <= inv[c].entered + Limit
      <3>1. inv[c] \in Invocation
        BY Parts
      <3>2. QED
        BY <2>1, <3>1, Parts DEF TypeOK, Invocation
    <2>3. Explained(t, a, inv[c].entered)
      BY <2>1, Parts, McpAssumption DEF AnswersInvariant
    <2>4. inv[c].entered \in Int /\ clock < inv[c].entered + Limit + GatewayTtl
      BY <1>1, <2>2, Lives
    <2>5. QED
      BY <2>2, <2>3, <2>4
  <1>4. QED
    BY <1>2, <1>3 DEF Given

LEMMA CutOffFollows == McpInvariant => CutOffInTime
  <1> SUFFICES ASSUME McpInvariant, NEW t \in Tokens, NEW a \in Given(t), a.orgs # {}
               PROVE  /\ Claims[t].exp = Never \/ clock < Claims[t].exp + Limit + GatewayTtl
                      /\ Claims[t].signer \in Keys
                      /\ clock < PublishedUntil(Claims[t].signer) + Long
    BY DEF CutOffInTime, ExpiredIsCutOff, WithdrawnKeyIsCutOff
  <1>1. PICK e \in Int : e <= clock /\ clock < e + Limit + GatewayTtl /\ Explained(t, a, e)
    BY GivenExplained
  <1>2. YesSince(t, e)
    BY <1>1 DEF Explained
  <1>3. /\ Claims[t].exp = Never \/ e <= Claims[t].exp
        /\ Claims[t].signer \in Keys /\ e < PublishedUntil(Claims[t].signer) + KeysTtl
    BY <1>2 DEF YesSince
  <1>4. clock \in Nat /\ Claims[t].exp \in Int /\ PublishedUntil(Claims[t].signer) \in Int
    BY <1>3, Parts, ClaimFacts, UntilType
  <1>5. Claims[t].exp = Never \/ clock < Claims[t].exp + Limit + GatewayTtl
    BY <1>1, <1>3, <1>4, Lives
  <1>6. clock < PublishedUntil(Claims[t].signer) + Long
    BY <1>1, <1>3, <1>4, Lives
  <1>7. QED
    BY <1>3, <1>5, <1>6

\* Whatever ends a token's authority, its exp or the withdrawal of its key, ends
\* its access within the lives of the two caches and one invocation.
THEOREM AuthorityEndsInTime == Spec => []CutOffInTime
  <1>1. QED
    BY CutOffFollows, AnswersExplainedForEver, PTL

LEMMA NoFreshExcuse ==
    ASSUME McpInvariant, NEW t \in Tokens, Undisputed(t), NEW e \in Int,
           clock < e + Limit + GatewayTtl, FreshSince(t, e)
    PROVE  /\ Claims[t].exp # Never /\ Claims[t].exp < clock
           /\ clock < Claims[t].exp + StaleAfter + Limit + GatewayTtl
  <1> DEFINE k == Claims[t].signer
             x == Claims[t].exp
  <1>1. /\ Claims[t].rs256 /\ ClaimsHold(t) /\ Claims[t].kid # NoKey /\ Claims[t].signer = Claims[t].kid
        /\ k \in Members(published) /\ clock >= since[k] + Long /\ clock >= faultAt + Long
    BY DEF Undisputed
  <1>2. k \in Keys
    BY <1>1, ClaimFacts
  <1>3. clock \in Nat /\ since[k] \in Int /\ faultAt \in Int /\ x \in Int
    BY <1>2, Parts, ClaimFacts DEF TypeOK
  <1>4. \/ e < since[k] + KeysTtl \/ e < faultAt + KeysTtl
        \/ x # Never /\ x < clock /\ e < x + StaleAfter
    BY <1>1 DEF FreshSince
  <1> HIDE DEF k, x
  <1>5. ~(e < since[k] + KeysTtl)
    BY <1>1, <1>3, Lives
  <1>6. ~(e < faultAt + KeysTtl)
    BY <1>1, <1>3, Lives
  <1>7. x # Never /\ x < clock /\ e < x + StaleAfter
    BY <1>4, <1>5, <1>6
  <1>8. clock < x + StaleAfter + Limit + GatewayTtl
    BY <1>3, <1>7, Lives
  <1>9. QED
    BY <1>7, <1>8 DEF x

LEMMA RefusalsFollow == McpInvariant => GoodTokenAccepted /\ DeadTokenFallsSilent
  <1> SUFFICES ASSUME McpInvariant, NEW t \in Tokens, NEW a \in Given(t), Undisputed(t)
               PROVE  /\ Claims[t].exp = Never \/ clock <= Claims[t].exp => a.refusal = "no"
                      /\ (/\ Claims[t].exp # Never
                          /\ clock >= Claims[t].exp + StaleAfter + Limit + GatewayTtl)
                            => a.refusal = "stale"
    BY DEF GoodTokenAccepted, DeadTokenFallsSilent
  <1>1. PICK e \in Int : e <= clock /\ clock < e + Limit + GatewayTtl /\ Explained(t, a, e)
    BY GivenExplained
  <1>2. a.refusal \in {"no", "fresh", "stale", "probe"}
    <2>1. a \in Answer
      <3>1. \A p \in Pods : cache[p][t].answer \in Answer
        BY Parts
      <3>2. \A c \in Containers : inv[c].answer \in Answer
        BY Parts DEF Invocation
      <3>3. QED
        BY <3>1, <3>2 DEF Given
    <2>2. QED
      BY <2>1 DEF Answer
  <1>3. clock \in Nat /\ Claims[t].exp \in Int
    BY Parts, ClaimFacts
  <1>4. CASE a.refusal = "no"
    <2>1. Claims[t].exp = Never \/ e <= Claims[t].exp
      BY <1>1, <1>4 DEF Explained, YesSince
    <2>2. ~(/\ Claims[t].exp # Never
            /\ clock >= Claims[t].exp + StaleAfter + Limit + GatewayTtl)
      BY <1>1, <1>3, <2>1, Lives
    <2>3. QED
      BY <1>4, <2>2
  <1>5. CASE a.refusal = "fresh"
    <2>1. FreshSince(t, e)
      BY <1>1, <1>5 DEF Explained
    <2>2. /\ Claims[t].exp # Never /\ Claims[t].exp < clock
          /\ clock < Claims[t].exp + StaleAfter + Limit + GatewayTtl
      BY <1>1, <2>1, NoFreshExcuse
    <2>3. QED
      BY <1>3, <2>2, Lives
  <1>6. CASE a.refusal = "stale"
    <2>1. Claims[t].exp # Never /\ Claims[t].exp < clock
      BY <1>1, <1>6 DEF Explained, Expired
    <2>2. ~(Claims[t].exp = Never \/ clock <= Claims[t].exp)
      BY <1>3, <2>1
    <2>3. QED
      BY <1>6, <2>2
  <1>7. a.refusal # "probe"
    BY <1>1 DEF Explained, Undisputed
  <1>8. QED
    BY <1>2, <1>4, <1>5, <1>6, <1>7

\* A good token naming a key published long enough is never refused, from no
\* cache and by no container.
THEOREM GoodTokenServed == Spec => []GoodTokenAccepted
  <1>1. QED
    BY RefusalsFollow, AnswersExplainedForEver, PTL

\* A token dead for long enough rings no alarm, from no cache either.
THEOREM DeadTokenRingsNot == Spec => []DeadTokenFallsSilent
  <1>1. QED
    BY RefusalsFollow, AnswersExplainedForEver, PTL

-----------------------------------------------------------------------------
(* The authorizer in the path is the authorizer.                           *)

LEMMA AskFacts ==
    ASSUME NEW ask \in Asks
    PROVE  /\ ask \in PathAsk
           /\ ask.path \in Orgs \cup {NoOrg} /\ ask.query \in Orgs \cup {NoOrg}
           /\ ask.bearer \in BOOLEAN /\ ask.readable \in BOOLEAN
           /\ ask.orgs \in Seq(Orgs) /\ ask.messages \in Seq(Orgs \cup {NoOrg})
           /\ ask.token \in Tokens \cup {NoToken} /\ ask.host \in {"app", "plugin"}
           /\ ask.token # NoToken => ask.orgs = Claims[ask.token].orgs
  BY PathAssumption DEF PathAsk

\* A step of the path is a step of the authorizer, or none of its business.
LEMMA PathStepsAuthorizer ==
    ASSUME \A r \in Requests : VisitSound(at[r], req[r]), [PathNext]_pathVars
    PROVE  [Next]_vars
  <1>1. CASE UNCHANGED pathVars
    BY <1>1 DEF pathVars
  <1>2. ASSUME NEW r \in Requests,
               \/ Enter(r) \/ RouterSteps(r) \/ Arrive(r) \/ ArriveDirectly(r)
               \/ Unguarded(r) \/ RefusedBare(r) \/ FromCache(r) \/ Leave(r)
        PROVE  UNCHANGED vars
    BY <1>2 DEF Enter, RouterSteps, Arrive, ArriveDirectly, Unguarded, RefusedBare, FromCache, Leave
  <1>3. ASSUME NEW r \in Requests, NEW c \in Containers, AskAuthorizer(r, c)
        PROVE  Next
    <2>1. at[r].ask \in Asks
      BY <1>3 DEF AskAuthorizer, VisitSound
    <2>2. at[r].ask.token \in Tokens \cup {NoToken} /\ RouteOf(at[r].ask) \in {"mcp", "plugin"}
      BY <2>1, AskFacts DEF RouteOf
    <2>3. Invoke(c, at[r].ask.token, RouteOf(at[r].ask))
      BY <1>3 DEF AskAuthorizer
    <2>4. QED
      BY <2>2, <2>3 DEF Next
  <1>4. ASSUME NEW c \in Containers, Authorizes(c) \/ Authorized(c) \/ Loses(c)
        PROVE  Next
    BY <1>4 DEF Authorizes, Authorized, Loses, Next
  <1>5. ASSUME MovesOrg \/ StampAnew \/ Propagated \/ \E p \in Pods : DeployPod(p)
        PROVE  UNCHANGED vars
    BY <1>5 DEF MovesOrg, StampAnew, Propagated, DeployPod
  <1>6. ASSUME IssuerAndTime
        PROVE  Next
    BY <1>6 DEF IssuerAndTime, Next
  <1>7. QED
    BY <1>1, <1>2, <1>3, <1>4, <1>5, <1>6 DEF PathNext, PathStep

-----------------------------------------------------------------------------
(* Where a request belongs, by the store's places.                         *)

\* The router's operators, of a store given.
BelongsIn(places, ask) ==
    LET lives(o) == Router!OriginOf(places[o])
        claimed == Router!Claimed(ask)
        named == ToSet(ask.messages) \ {NoOrg}
    IN  CASE ask.path # NoOrg -> lives(ask.path)
          [] ask.path = NoOrg /\ ~ask.bearer /\ ask.query # NoOrg -> lives(ask.query)
          [] ask.path = NoOrg /\ (ask.bearer \/ ask.query = NoOrg) ->
                IF \E region \in Pods : claimed # {} /\ \A o \in claimed : lives(o) = region
                THEN CHOOSE region \in Pods : \A o \in claimed : lives(o) = region
                ELSE IF HasEdge /\ ask.readable /\ named # {} /\ named \subseteq claimed
                        /\ \E o \in named : named = {o}
                     THEN lives(CHOOSE o \in named : TRUE) ELSE Home

LEMMA BelongsByStore ==
    ASSUME NEW ask
    PROVE  /\ Router!Belongs(ask) = BelongsIn(kvs, ask)
           /\ Router!Belongs(ask)' = BelongsIn(kvs', ask)
  BY DEF BelongsIn, Router!Belongs, ToSet, Router!ToSet

LEMMA Origins ==
    /\ Home \in Pods /\ NoRegion \notin Pods
    /\ \A region : Router!OriginOf(region) \in Pods
    /\ Router!OriginOf(NoRegion) = Home /\ Router!OriginOf(Home) = Home
    /\ \A region \in Pods : Router!OriginOf(region) = region
  BY PathAssumption DEF Router!RouterAssumption, Router!OriginOf

LEMMA SameCount == \A S : Router!Cardinality(S) = Cardinality(S)
  BY DEF Cardinality, Router!Cardinality

LEMMA TurnsCounted ==
    ASSUME NEW ask
    PROVE  Router!Turns(ask) =
             {i \in DOMAIN ask.orgs :
               /\ \A j \in 1..(i - 1) : ask.orgs[j] # ask.orgs[i]
               /\ Cardinality({ask.orgs[j] : j \in 1..(i - 1)}) < MaxTokenOrgs}
  BY SameCount DEF Router!Turns

\* A function has finitely many values on a finite set.
LEMMA FiniteValues ==
    ASSUME NEW S, IsFiniteSet(S), NEW f
    PROVE  IsFiniteSet({f[x] : x \in S})
  <1> DEFINE g == [x \in S |-> f[x]]
             T == {f[x] : x \in S}
  <1>1. g \in Surjection(S, T)
    BY DEF Surjection
  <1>2. QED
    BY <1>1, FS_Surjection

LEMMA FiniteItems ==
    ASSUME NEW S, NEW s \in Seq(S)
    PROVE  IsFiniteSet(ToSet(s)) /\ ToSet(s) \subseteq S
  <1>1. DOMAIN s = 1..Len(s) /\ Len(s) \in Nat
    OBVIOUS
  <1>2. IsFiniteSet(DOMAIN s)
    BY <1>1, FS_Interval
  <1>3. QED
    BY <1>2, FiniteValues DEF ToSet

LEMMA ClaimedFacts ==
    ASSUME NEW ask \in Asks
    PROVE  /\ IsFiniteSet(Router!Claimed(ask)) /\ Router!Claimed(ask) \subseteq Orgs
           /\ Router!Claimed(ask) \subseteq ToSet(ask.orgs)
           /\ Router!Turns(ask) \subseteq 1..Len(ask.orgs)
           /\ ask.orgs = <<>> => Router!Claimed(ask) = {}
           /\ ask.orgs # <<>> => 1 \in Router!Turns(ask) /\ Router!Claimed(ask) # {}
  <1>1. ask.orgs \in Seq(Orgs) /\ DOMAIN ask.orgs = 1..Len(ask.orgs) /\ Len(ask.orgs) \in Nat
    BY AskFacts
  <1>2. Router!Turns(ask) \subseteq DOMAIN ask.orgs
    BY DEF Router!Turns
  <1>3. Router!Claimed(ask) \subseteq ToSet(ask.orgs)
    BY <1>2 DEF Router!Claimed, ToSet
  <1>4. IsFiniteSet(ToSet(ask.orgs)) /\ ToSet(ask.orgs) \subseteq Orgs
    BY <1>1, FiniteItems
  <1>5. IsFiniteSet(Router!Claimed(ask))
    BY <1>3, <1>4, FS_Subset
  <1>6. ask.orgs = <<>> => Router!Claimed(ask) = {}
    BY <1>1, <1>2 DEF Router!Claimed
  <1>7. ASSUME ask.orgs # <<>>
        PROVE  1 \in Router!Turns(ask)
    <2>1. 1 \in DOMAIN ask.orgs
      BY <1>1, <1>7
    <2>2. 1..(1 - 1) = {}
      OBVIOUS
    <2>3. {ask.orgs[j] : j \in 1..(1 - 1)} = {}
      BY <2>2
    <2>4. 0 < MaxTokenOrgs
      BY PathAssumption DEF Router!RouterAssumption
    <2>5. Cardinality({ask.orgs[j] : j \in 1..(1 - 1)}) < MaxTokenOrgs
      BY <2>3, <2>4, FS_EmptySet
    <2>6. \A j \in 1..(1 - 1) : ask.orgs[j] # ask.orgs[1]
      BY <2>2
    <2>7. QED
      BY <2>1, <2>5, <2>6, TurnsCounted
  <1>8. QED
    BY <1>1, <1>2, <1>3, <1>4, <1>5, <1>6, <1>7 DEF Router!Claimed

\* One region, or more: what the router tells by counting.
LEMMA OneRegion ==
    ASSUME NEW ask \in Asks, NEW found, ask.orgs # <<>>
    PROVE  LET regions == {found[o] : o \in Router!Claimed(ask)} IN
           /\ Cardinality(regions) = 1 =>
                \A o \in Router!Claimed(ask) : found[o] = CHOOSE region \in regions : TRUE
           /\ Cardinality(regions) # 1 =>
                \A region : \E o \in Router!Claimed(ask) : found[o] # region
  <1> DEFINE regions == {found[o] : o \in Router!Claimed(ask)}
  <1>1. IsFiniteSet(regions)
    BY ClaimedFacts, FiniteValues
  <1>2. Cardinality(regions) = 1 <=> \E x : regions = {x}
    BY <1>1, FS_Singleton
  <1>3. ASSUME Cardinality(regions) = 1, NEW o \in Router!Claimed(ask)
        PROVE  found[o] = CHOOSE region \in regions : TRUE
    <2>1. PICK x : regions = {x}
      BY <1>2, <1>3
    <2>2. (CHOOSE region \in regions : TRUE) \in regions
      BY <2>1
    <2>3. QED
      BY <2>1, <2>2
  <1>4. ASSUME Cardinality(regions) # 1, NEW region
        PROVE  \E o \in Router!Claimed(ask) : found[o] # region
    <2>1. SUFFICES ASSUME \A o \in Router!Claimed(ask) : found[o] = region PROVE FALSE
      OBVIOUS
    <2>2. PICK o \in Router!Claimed(ask) : TRUE
      BY ClaimedFacts
    <2>3. regions = {region}
      BY <2>1, <2>2
    <2>4. QED
      BY <1>2, <1>4, <2>3
  <1>5. QED
    BY <1>3, <1>4

RegionsCounted(ask, found) == Cardinality({found[o] : o \in Router!Claimed(ask)})

LEMMA SeveralRegions ==
    ASSUME NEW ask \in Asks, NEW found \in Router!Places, ask.orgs # <<>>,
           RegionsCounted(ask, found) # 1
    PROVE  \A region : \E o \in Router!Claimed(ask) : found[o] # region
  BY OneRegion DEF RegionsCounted

\* A request routed by its bearer belongs to the one region of those it claims,
\* or to the one its body names, or home.
LEMMA BelongsOfBearer ==
    ASSUME NEW places, NEW ask \in Asks,
           ask.path = NoOrg, ask.bearer \/ ask.query = NoOrg
    PROVE  LET claimed == Router!Claimed(ask)
               named == ToSet(ask.messages) \ {NoOrg}
               lives(o) == Router!OriginOf(places[o])
           IN /\ \A region \in Pods : claimed # {} /\ (\A o \in claimed : lives(o) = region)
                    => BelongsIn(places, ask) = region
              /\ claimed = {} \/ (\A region \in Pods : \E o \in claimed : lives(o) # region)
                    => BelongsIn(places, ask) =
                         IF HasEdge /\ ask.readable /\ named # {} /\ named \subseteq claimed
                            /\ \E o \in named : named = {o}
                         THEN lives(CHOOSE o \in named : TRUE) ELSE Home
  <1> DEFINE claimed == Router!Claimed(ask)
             named == ToSet(ask.messages) \ {NoOrg}
             lives(o) == Router!OriginOf(places[o])
             body == IF HasEdge /\ ask.readable /\ named # {} /\ named \subseteq claimed
                        /\ \E o \in named : named = {o}
                     THEN lives(CHOOSE o \in named : TRUE) ELSE Home
             one == \E region \in Pods : claimed # {} /\ \A o \in claimed : lives(o) = region
             there == CHOOSE region \in Pods : \A o \in claimed : lives(o) = region
  <1>1. BelongsIn(places, ask) = IF one THEN there ELSE body
    BY DEF BelongsIn
  <1>2. ASSUME NEW region \in Pods, claimed # {}, \A o \in claimed : lives(o) = region
        PROVE  BelongsIn(places, ask) = region
    <2>1. one
      BY <1>2
    <2>2. there \in Pods /\ \A o \in claimed : lives(o) = there
      BY <1>2
    <2>3. PICK o \in claimed : TRUE
      BY <1>2
    <2>4. there = region
      BY <1>2, <2>2, <2>3
    <2>5. QED
      BY <1>1, <2>1, <2>4
  <1>3. ASSUME claimed = {} \/ \A region \in Pods : \E o \in claimed : lives(o) # region
        PROVE  BelongsIn(places, ask) = body
    <2>1. ~one
      BY <1>3
    <2>2. QED
      BY <1>1, <2>1
  <1>4. QED
    BY <1>2, <1>3

LEMMA BelongsTogether ==
    ASSUME NEW places, NEW ask \in Asks, ask.path = NoOrg, ask.bearer \/ ask.query = NoOrg,
           ask.orgs # <<>>, NEW region \in Pods,
           \A o \in Router!Claimed(ask) : Router!OriginOf(places[o]) = region
    PROVE  BelongsIn(places, ask) = region
  <1>1. Router!Claimed(ask) # {}
    BY ClaimedFacts
  <1>2. QED
    BY <1>1, BelongsOfBearer

-----------------------------------------------------------------------------
(* The requests under way, by the store.                                   *)

InStepIn(places, list) ==
    list.listed =>
        list.away = [o \in Orgs |-> IF places[o] = Home THEN NoRegion ELSE places[o]]

ReadWellIn(places, q, orgs) ==
    \A o \in orgs : /\ q.found[o] \in Pods
                    /\ Router!Steady(q) => q.found[o] = Router!OriginOf(places[o])

SoundIn(places, list, q) ==
    /\ q.pc # "idle" => q.ask \in Asks
    /\ q.pc # "idle" /\ ~q.moved => InStepIn(places, list)
    /\ q.pc = "one" => q.ask.path # NoOrg \/ (~q.ask.bearer /\ q.ask.query # NoOrg)
    /\ q.pc \in {"away", "orgs", "edge"} =>
         q.ask.path = NoOrg /\ (q.ask.bearer \/ q.ask.query = NoOrg)
    /\ q.pc = "away" => q.i = 1
    /\ q.pc \in {"away", "orgs"} => q.i \in Router!Turns(q.ask)
    /\ q.pc = "orgs" => ReadWellIn(places, q, Router!ReadSoFar(q))
    /\ q.pc = "edge" =>
         /\ HasEdge /\ ReadWellIn(places, q, Router!Claimed(q.ask))
         /\ \A region \in Pods : \E o \in Router!Claimed(q.ask) : q.found[o] # region
         /\ \A o \in Orgs :
             q.header[o] = IF o \in Router!Claimed(q.ask) /\ q.found[o] # Home
                           THEN q.found[o] ELSE NoRegion
    /\ q.pc = "origin" /\ Router!Steady(q) => q.region = BelongsIn(places, q.ask)

LEMMA SoundByStore ==
    /\ Router!InStep <=> InStepIn(kvs, summary)
    /\ \A q : Router!RequestSound(q) <=> SoundIn(kvs, summary, q)
    /\ \A q : Router!RequestSound(q)' <=> SoundIn(kvs', summary', q)
  <1>1. Router!InStep <=> InStepIn(kvs, summary)
    BY DEF Router!InStep, Router!Summary, InStepIn
  <1>2. Router!InStep' <=> InStepIn(kvs', summary')
    BY DEF Router!InStep, Router!Summary, InStepIn
  <1>3. ASSUME NEW q PROVE Router!RequestSound(q) <=> SoundIn(kvs, summary, q)
    BY <1>1, BelongsByStore DEF Router!RequestSound, SoundIn, Router!ReadWell, ReadWellIn
  <1>4. ASSUME NEW q PROVE Router!RequestSound(q)' <=> SoundIn(kvs', summary', q)
    BY <1>2, BelongsByStore DEF Router!RequestSound, SoundIn, Router!ReadWell, ReadWellIn
  <1>5. QED
    BY <1>1, <1>3, <1>4

RouterSound ==
    Router!RouterTypeOK /\ \A r \in Requests : Router!RequestSound(req[r])

\* One request takes a step, and is sound after it.
LEMMA RequestSteps ==
    ASSUME RouterSound, UNCHANGED <<kvs, summary, moves>>, NEW r \in Requests,
           NEW q \in Router!Request, SoundIn(kvs, summary, q), req' = [req EXCEPT ![r] = q]
    PROVE  RouterSound'
  <1>1. req \in [Requests -> Router!Request]
    BY DEF RouterSound, Router!RouterTypeOK
  <1>2. Router!RouterTypeOK'
    BY <1>1 DEF RouterSound, Router!RouterTypeOK
  <1>3. ASSUME NEW s \in Requests PROVE SoundIn(kvs', summary', req'[s])
    <2>1. CASE s = r
      BY <1>1, <2>1
    <2>2. CASE s # r
      BY <1>1, <2>2, SoundByStore DEF RouterSound
    <2>3. QED
      BY <2>1, <2>2
  <1>4. ASSUME NEW s \in Requests PROVE Router!RequestSound(req[s])'
    <2>1. Router!RequestSound(req[s])' <=> SoundIn(kvs', summary', req'[s])
      BY SoundByStore DEF Router!RequestSound
    <2>2. QED
      BY <1>3, <2>1
  <1>5. QED
    BY <1>2, <1>4 DEF RouterSound

LEMMA RequestFacts ==
    ASSUME NEW q \in Router!Request
    PROVE  /\ q.pc \in {"idle", "one", "away", "orgs", "edge", "origin"}
           /\ q.ask \in Asks \cup {Router!NoAsk} /\ q.i \in Nat
           /\ q.found \in Router!Places /\ q.header \in Router!Places
           /\ q.route \in {"home", "path", "query", "token", "body"}
           /\ q.region \in Pods
           /\ q.moved \in BOOLEAN /\ q.failed \in BOOLEAN
  BY DEF Router!Request

\* When a bearer's organizations are read, the request is where it belongs, or
\* on its way to the body with what was read.
LEMMA SettleSound ==
    ASSUME NEW places, NEW list, NEW q \in Router!Request, NEW found \in Router!Places,
           q.ask \in Asks, q.ask.orgs # <<>>,
           q.ask.path = NoOrg, q.ask.bearer \/ q.ask.query = NoOrg,
           ~q.moved => InStepIn(places, list),
           \A o \in Router!Claimed(q.ask) :
              /\ found[o] \in Pods
              /\ Router!Steady(q) => found[o] = Router!OriginOf(places[o])
    PROVE  /\ Router!Settle(q, found) \in Router!Request
           /\ SoundIn(places, list, Router!Settle(q, found))
  <1> DEFINE orgs == Router!Claimed(q.ask)
             regions == {found[o] : o \in orgs}
             there == CHOOSE region \in regions : TRUE
             header == [o \in Orgs |-> IF o \in orgs /\ found[o] # Home THEN found[o] ELSE NoRegion]
             one == [q EXCEPT !.pc = "origin", !.found = found, !.route = "token", !.region = there]
             next == IF HasEdge THEN "edge" ELSE "origin"
             several == [q EXCEPT !.pc = next, !.found = found,
                                  !.route = "body", !.region = Home, !.header = header]
             settled == Router!Settle(q, found)
  <1>1. settled = IF Cardinality(regions) = 1 THEN one ELSE several
    BY SameCount DEF Router!Settle
  <1>2. orgs \subseteq Orgs /\ orgs # {}
    BY ClaimedFacts
  <1>3. CASE Cardinality(regions) = 1
    <2>1. \A o \in orgs : found[o] = there
      BY <1>3, OneRegion
    <2>2. there \in Pods
      BY <1>2, <2>1
    <2>3. /\ settled \in Router!Request
          /\ settled.pc = "origin" /\ settled.ask = q.ask /\ settled.region = there
          /\ settled.moved = q.moved /\ settled.failed = q.failed
      <3> HIDE DEF there
      <3>1. QED
        BY <1>1, <1>3, <2>2 DEF Router!Request
    <2>4. ASSUME Router!Steady(q) PROVE BelongsIn(places, q.ask) = there
      <3>1. \A o \in orgs : Router!OriginOf(places[o]) = there
        BY <2>1, <2>4
      <3> HIDE DEF there
      <3>2. QED
        BY <2>2, <3>1, BelongsTogether
    <2>5. QED
      BY <2>3, <2>4 DEF SoundIn, Router!Steady
  <1>4. CASE Cardinality(regions) # 1
    <2>1. \A region : \E o \in orgs : found[o] # region
      <3>1. RegionsCounted(q.ask, found) # 1
        BY <1>4 DEF RegionsCounted
      <3>2. QED
        BY <3>1, SeveralRegions
    <2>2. header \in Router!Places
      <3> HIDE DEF orgs
      <3>1. \A o \in Orgs : (IF o \in orgs /\ found[o] # Home THEN found[o] ELSE NoRegion)
                              \in (Pods \cup {"elsewhere"}) \cup {NoRegion}
        BY DEF Router!Places
      <3>2. QED
        BY <3>1 DEF Router!Places
    <2>3. /\ settled \in Router!Request
          /\ settled.pc = next /\ settled.ask = q.ask
          /\ settled.region = Home /\ settled.found = found /\ settled.header = header
          /\ settled.moved = q.moved /\ settled.failed = q.failed
      <3>1. next \in {"edge", "origin"}
        OBVIOUS
      <3>2. settled = several
        BY <1>1, <1>4
      <3> HIDE DEF header, next
      <3>3. several \in Router!Request
        BY <2>2, <3>1, Origins DEF Router!Request
      <3>4. /\ several.pc = next /\ several.ask = q.ask /\ several.region = Home
            /\ several.found = found /\ several.header = header
            /\ several.moved = q.moved /\ several.failed = q.failed
        BY DEF Router!Request
      <3> HIDE DEF several
      <3>5. QED
        BY <3>2, <3>3, <3>4
    <2>4. CASE HasEdge
      <3>1. /\ settled.pc = "edge" /\ settled.ask = q.ask /\ settled.found = found
            /\ settled.moved = q.moved /\ settled.failed = q.failed
        BY <2>3, <2>4
      <3>2. ReadWellIn(places, settled, orgs)
        BY <3>1 DEF ReadWellIn, Router!Steady
      <3>3. \A o \in Orgs :
              settled.header[o] = IF o \in orgs /\ settled.found[o] # Home
                                  THEN settled.found[o] ELSE NoRegion
        BY <2>3
      <3>4. \A region \in Pods : \E o \in orgs : settled.found[o] # region
        BY <2>1, <3>1
      <3>5. ~settled.moved => InStepIn(places, list)
        BY <3>1
      <3> HIDE DEF settled, orgs
      <3>6. SoundIn(places, list, settled)
        BY <2>4, <3>1, <3>2, <3>3, <3>4, <3>5 DEF SoundIn, orgs
      <3>7. QED
        BY <2>3, <3>6 DEF settled
    <2>5. CASE ~HasEdge
      <3>1. settled.pc = "origin"
        BY <2>3, <2>5
      <3>2. ASSUME Router!Steady(q) PROVE BelongsIn(places, q.ask) = Home
        <4>1. \A region \in Pods : \E o \in orgs : Router!OriginOf(places[o]) # region
          BY <2>1, <3>2
        <4>2. QED
          BY <2>5, <4>1, BelongsOfBearer
      <3>3. QED
        BY <2>3, <3>1, <3>2 DEF SoundIn, Router!Steady
    <2>6. QED
      BY <2>4, <2>5
  <1>5. QED
    BY <1>3, <1>4

LEMMA RequestNow ==
    ASSUME RouterSound, NEW r \in Requests
    PROVE  /\ req[r] \in Router!Request /\ SoundIn(kvs, summary, req[r])
           /\ kvs \in Router!Places /\ Router!Nowhere \in Router!Places
           /\ req \in [Requests -> Router!Request]
  <1>1. kvs \in Router!Places /\ req \in [Requests -> Router!Request]
    BY DEF RouterSound, Router!RouterTypeOK
  <1>2. Router!Nowhere \in Router!Places
    BY DEF Router!Nowhere, Router!Places
  <1>3. QED
    BY <1>1, <1>2, SoundByStore DEF RouterSound

LEMMA ReadOneKeeps ==
    ASSUME RouterSound, NEW r \in Requests, Router!ReadOne(r)
    PROVE  RouterSound'
  <1> DEFINE q == req[r]
             place == Router!OriginOf(kvs[Router!Named(q.ask)])
             read == [q EXCEPT !.pc = "origin", !.region = place]
             failed == [q EXCEPT !.pc = "origin", !.failed = TRUE]
  <1>1. /\ q \in Router!Request /\ SoundIn(kvs, summary, q) /\ q.pc = "one"
        /\ UNCHANGED <<kvs, summary, moves>>
        /\ req' = [req EXCEPT ![r] = read] \/ req' = [req EXCEPT ![r] = failed]
    BY RequestNow DEF Router!ReadOne, Router!Becomes
  <1>2. /\ q.ask \in Asks /\ q.moved \in BOOLEAN
        /\ ~q.moved => InStepIn(kvs, summary)
        /\ q.ask.path # NoOrg \/ (~q.ask.bearer /\ q.ask.query # NoOrg)
    BY <1>1, RequestFacts DEF SoundIn
  <1>3. place = BelongsIn(kvs, q.ask)
    BY <1>2 DEF BelongsIn, Router!Named
  <1>4. place \in Pods
    BY Origins
  <1>5. read \in Router!Request /\ SoundIn(kvs, summary, read)
    <2>1. /\ read \in Router!Request /\ read.pc = "origin" /\ read.ask = q.ask
          /\ read.moved = q.moved /\ read.region = place
      <3> HIDE DEF place
      <3>1. QED
        BY <1>1, <1>4 DEF Router!Request
    <2> HIDE DEF read, place
    <2>2. QED
      BY <1>2, <1>3, <2>1 DEF SoundIn
  <1>6. failed \in Router!Request /\ SoundIn(kvs, summary, failed)
    <2>1. /\ failed \in Router!Request /\ failed.pc = "origin" /\ failed.ask = q.ask
          /\ failed.moved = q.moved /\ failed.failed
      BY <1>1 DEF Router!Request
    <2> HIDE DEF failed
    <2>2. QED
      BY <1>2, <2>1 DEF SoundIn, Router!Steady
  <1> HIDE DEF read, failed
  <1>7. QED
    BY <1>1, <1>5, <1>6, RequestSteps

LEMMA ReadAwayKeeps ==
    ASSUME RouterSound, NEW r \in Requests, Router!ReadAway(r)
    PROVE  RouterSound'
  <1> DEFINE q == req[r]
             orgs == Router!Claimed(q.ask)
             told == [o \in Orgs |-> IF o \in orgs THEN Router!OriginOf(summary.away[o]) ELSE NoRegion]
             missed == [q EXCEPT !.pc = "orgs"]
             failed == [q EXCEPT !.pc = "orgs", !.failed = TRUE]
  <1>1. /\ q \in Router!Request /\ SoundIn(kvs, summary, q) /\ q.pc = "away"
        /\ UNCHANGED <<kvs, summary, moves>>
        /\ \/ summary.listed /\ req' = [req EXCEPT ![r] = Router!Settle(q, told)]
           \/ req' = [req EXCEPT ![r] = missed]
           \/ req' = [req EXCEPT ![r] = failed]
    BY RequestNow DEF Router!ReadAway, Router!Becomes
  <1>2. /\ q.ask \in Asks /\ q.moved \in BOOLEAN /\ q.i = 1 /\ 1 \in Router!Turns(q.ask)
        /\ ~q.moved => InStepIn(kvs, summary)
        /\ q.ask.path = NoOrg
    BY <1>1, RequestFacts DEF SoundIn
  <1>3. q.ask.bearer \/ q.ask.query = NoOrg
    BY <1>1 DEF SoundIn
  <1>4. q.ask.orgs # <<>> /\ orgs \subseteq Orgs
    <2>1. q.ask.orgs = <<>> => Router!Turns(q.ask) = {}
      BY DEF Router!Turns
    <2>2. QED
      BY <1>2, <2>1, ClaimedFacts
  <1>5. told \in Router!Places
    BY Origins DEF Router!Places
  <1>6. ASSUME summary.listed, NEW o \in orgs
        PROVE  /\ told[o] \in Pods
               /\ Router!Steady(q) => told[o] = Router!OriginOf(kvs[o])
    <2>1. told[o] = Router!OriginOf(summary.away[o])
      BY <1>4
    <2>2. ASSUME Router!Steady(q)
          PROVE  summary.away[o] = IF kvs[o] = Home THEN NoRegion ELSE kvs[o]
      BY <1>2, <1>4, <1>6, <2>2 DEF Router!Steady, InStepIn
    <2>3. QED
      BY <2>1, <2>2, Origins
  <1>7. ASSUME summary.listed
        PROVE  /\ Router!Settle(q, told) \in Router!Request
               /\ SoundIn(kvs, summary, Router!Settle(q, told))
    <2> HIDE DEF told
    <2>1. QED
      BY <1>1, <1>2, <1>3, <1>4, <1>5, <1>6, <1>7, SettleSound
  <1>8. ASSUME NEW x \in Router!Request, x.pc = "orgs", x.ask = q.ask, x.i = 1, x.moved = q.moved
        PROVE  SoundIn(kvs, summary, x)
    <2>1. Router!ReadSoFar(x) = {}
      <3>1. \A k \in Router!Turns(q.ask) : ~(k < 1)
        BY <1>2, ClaimedFacts
      <3>2. QED
        BY <1>8, <3>1 DEF Router!ReadSoFar
    <2>2. ReadWellIn(kvs, x, Router!ReadSoFar(x))
      BY <2>1 DEF ReadWellIn
    <2>3. QED
      BY <1>2, <1>3, <1>8, <2>2 DEF SoundIn
  <1>9. /\ missed \in Router!Request /\ missed.pc = "orgs" /\ missed.ask = q.ask
        /\ missed.i = 1 /\ missed.moved = q.moved
    BY <1>1, <1>2 DEF Router!Request
  <1>10. /\ failed \in Router!Request /\ failed.pc = "orgs" /\ failed.ask = q.ask
         /\ failed.i = 1 /\ failed.moved = q.moved
    BY <1>1, <1>2 DEF Router!Request
  <1> HIDE DEF missed, failed, told, q
  <1>11. SoundIn(kvs, summary, missed) /\ SoundIn(kvs, summary, failed)
    BY <1>8, <1>9, <1>10
  <1>12. QED
    BY <1>1, <1>7, <1>9, <1>10, <1>11, RequestSteps

LEMMA ReadOrgKeeps ==
    ASSUME RouterSound, NEW r \in Requests, Router!ReadOrg(r)
    PROVE  RouterSound'
  <1> DEFINE q0 == req[r]
             o == q0.ask.orgs[q0.i]
             turns == Router!Turns(q0.ask)
             later == {j \in turns : j > q0.i}
             then(b) == [q0 EXCEPT !.failed = @ \/ b]
             foundBy(b) == [q0.found EXCEPT ![o] = IF b THEN Home ELSE Router!OriginOf(kvs[o])]
  <1>1. /\ q0 \in Router!Request /\ SoundIn(kvs, summary, q0) /\ q0.pc = "orgs"
        /\ UNCHANGED <<kvs, summary, moves>>
    BY RequestNow DEF Router!ReadOrg
  <1>2. PICK b \in BOOLEAN :
            LET ran == then(b)
                read == ran.ask.orgs[ran.i]
                got == [ran.found EXCEPT ![read] = IF b THEN Home ELSE Router!OriginOf(kvs[read])]
                left == {j \in Router!Turns(ran.ask) : j > ran.i}
            IN  \/ left = {} /\ req' = [req EXCEPT ![r] = Router!Settle(ran, got)]
                \/ \E next \in left :
                    /\ \A j \in left : next <= j
                    /\ req' = [req EXCEPT ![r] = [ran EXCEPT !.i = next, !.found = got]]
    BY DEF Router!ReadOrg, Router!Becomes
  <1> DEFINE q == then(b)
             found == foundBy(b)
  <1>3. /\ q \in Router!Request /\ q.ask = q0.ask /\ q.i = q0.i /\ q.pc = "orgs"
        /\ q.moved = q0.moved /\ q.found = q0.found
        /\ Router!Steady(q) => Router!Steady(q0) /\ ~b
    <2>1. /\ q0.failed \in BOOLEAN /\ (q0.failed \/ b) \in BOOLEAN
      BY <1>1, RequestFacts
    <2>2. /\ q \in Router!Request /\ q.ask = q0.ask /\ q.i = q0.i /\ q.pc = "orgs"
          /\ q.moved = q0.moved /\ q.found = q0.found
      BY <1>1, <2>1 DEF Router!Request
    <2>3. q.failed = (q0.failed \/ b)
      BY <1>1 DEF Router!Request
    <2>4. QED
      BY <2>2, <2>3 DEF Router!Steady
  <1>4. /\ q0.ask \in Asks /\ q0.moved \in BOOLEAN /\ q0.i \in Nat /\ q0.i \in turns
        /\ ~q0.moved => InStepIn(kvs, summary)
        /\ q0.ask.path = NoOrg
        /\ q0.found \in Router!Places
    BY <1>1, RequestFacts DEF SoundIn
  <1>5. q0.ask.bearer \/ q0.ask.query = NoOrg
    BY <1>1 DEF SoundIn
  <1>6. ReadWellIn(kvs, q0, Router!ReadSoFar(q0))
    BY <1>1 DEF SoundIn
  <1>7. /\ turns \subseteq 1..Len(q0.ask.orgs) /\ Len(q0.ask.orgs) \in Nat
        /\ Router!Claimed(q0.ask) \subseteq Orgs
        /\ q0.ask.orgs # <<>>
    <2>1. q0.ask.orgs \in Seq(Orgs)
      BY <1>4, AskFacts
    <2>2. q0.ask.orgs = <<>> => turns = {}
      BY DEF Router!Turns
    <2>3. QED
      BY <1>4, <2>1, <2>2, ClaimedFacts
  <1>8. o \in Orgs
    BY <1>4, <1>7 DEF Router!Claimed
  <1>9. found \in Router!Places
    BY <1>4, <1>8, Origins, PathAssumption DEF Router!Places
  <1>10. ASSUME NEW p \in Router!ReadSoFar(q0) \cup {o}
         PROVE  /\ found[p] \in Pods
                /\ Router!Steady(q) => found[p] = Router!OriginOf(kvs[p])
    <2>1. p \in Orgs
      BY <1>4, <1>7, <1>8 DEF Router!ReadSoFar, Router!Claimed
    <2>2. DOMAIN q0.found = Orgs
      BY <1>4 DEF Router!Places
    <2>3. CASE p = o
      <3>1. found[p] = IF b THEN Home ELSE Router!OriginOf(kvs[o])
        BY <1>8, <2>2, <2>3
      <3>2. QED
        BY <1>3, <2>3, <3>1, Origins
    <2>4. CASE p # o
      <3>1. found[p] = q0.found[p] /\ p \in Router!ReadSoFar(q0)
        BY <2>1, <2>2, <2>4
      <3>2. QED
        BY <1>3, <1>6, <3>1 DEF ReadWellIn
    <2>5. QED
      BY <2>3, <2>4
  <1>11. CASE later = {} /\ req' = [req EXCEPT ![r] = Router!Settle(q, found)]
    <2>1. Router!Claimed(q0.ask) \subseteq Router!ReadSoFar(q0) \cup {o}
      <3>1. \A k \in turns : k < q0.i \/ k = q0.i
        BY <1>4, <1>7, <1>11
      <3>2. QED
        BY <3>1 DEF Router!Claimed, Router!ReadSoFar
    <2>2. \A p \in Router!Claimed(q.ask) :
            /\ found[p] \in Pods
            /\ Router!Steady(q) => found[p] = Router!OriginOf(kvs[p])
      BY <1>3, <1>10, <2>1
    <2>3. /\ q.ask \in Asks /\ q.ask.orgs # <<>> /\ q.ask.path = NoOrg
          /\ ~q.moved => InStepIn(kvs, summary)
      BY <1>3, <1>4, <1>7
    <2>4. q.ask.bearer \/ q.ask.query = NoOrg
      BY <1>3, <1>5
    <2> HIDE DEF found, q
    <2>5. /\ Router!Settle(q, found) \in Router!Request
          /\ SoundIn(kvs, summary, Router!Settle(q, found))
      BY <1>3, <1>9, <2>2, <2>3, <2>4, SettleSound
    <2>6. QED
      BY <1>1, <1>11, <2>5, RequestSteps
  <1>12. ASSUME NEW next \in later, \A j \in later : next <= j,
                req' = [req EXCEPT ![r] = [q EXCEPT !.i = next, !.found = found]]
         PROVE  RouterSound'
    <2> DEFINE x == [q EXCEPT !.i = next, !.found = found]
    <2>1. next \in Nat /\ next \in turns
      BY <1>7
    <2>2. /\ x \in Router!Request /\ x.pc = "orgs" /\ x.ask = q0.ask /\ x.i = next
          /\ x.found = found /\ x.moved = q.moved /\ x.failed = q.failed
      <3> HIDE DEF q, found
      <3>1. QED
        BY <1>3, <1>9, <2>1 DEF Router!Request
    <2>3. Router!ReadSoFar(x) \subseteq Router!ReadSoFar(q0) \cup {o}
      <3>1. ASSUME NEW k \in turns, k < next PROVE k < q0.i \/ k = q0.i
        <4>1. ~(k > q0.i)
          BY <1>7, <1>12, <2>1, <3>1
        <4>2. QED
          BY <1>4, <1>7, <4>1
      <3>2. Router!ReadSoFar(x) = {q0.ask.orgs[j] : j \in {k \in turns : k < next}}
        BY <2>2 DEF Router!ReadSoFar
      <3>3. QED
        BY <3>1, <3>2 DEF Router!ReadSoFar
    <2>4. ReadWellIn(kvs, x, Router!ReadSoFar(x))
      <3>1. Router!Steady(x) <=> Router!Steady(q)
        BY <2>2 DEF Router!Steady
      <3>2. QED
        BY <1>10, <2>2, <2>3, <3>1 DEF ReadWellIn
    <2> HIDE DEF x, q
    <2>5. SoundIn(kvs, summary, x)
      BY <1>3, <1>4, <1>5, <2>1, <2>2, <2>4 DEF SoundIn
    <2>6. req' = [req EXCEPT ![r] = x]
      BY <1>12 DEF x
    <2>7. QED
      BY <1>1, <2>2, <2>5, <2>6, RequestSteps
  <1>13. \/ later = {} /\ req' = [req EXCEPT ![r] = Router!Settle(q, found)]
         \/ \E next \in later :
             /\ \A j \in later : next <= j
             /\ req' = [req EXCEPT ![r] = [q EXCEPT !.i = next, !.found = found]]
    <2>1. q.ask = q0.ask /\ q.i = q0.i /\ q.found = q0.found
      BY <1>3
    <2>2. QED
      BY <1>2, <2>1
  <1>14. QED
    BY <1>11, <1>12, <1>13

\* The body decides if all its messages that name an organization name one.
LEMMA BodyDecides ==
    ASSUME NEW ask \in Asks
    PROVE  LET named == ToSet(ask.messages) \ {NoOrg} IN
           /\ named \subseteq Orgs
           /\ ask.readable /\ (\E o \in named : named = {o}) =>
                Router!BodyOrg(ask) \in named /\ named = {Router!BodyOrg(ask)}
           /\ ~(ask.readable /\ \E o \in named : named = {o}) => Router!BodyOrg(ask) = NoOrg
  <1> DEFINE named == ToSet(ask.messages) \ {NoOrg}
  <1>1. ask.messages \in Seq(Orgs \cup {NoOrg})
    BY AskFacts
  <1>2. IsFiniteSet(ToSet(ask.messages)) /\ named \subseteq Orgs
    BY <1>1, FiniteItems
  <1>3. IsFiniteSet(named)
    BY <1>2, FS_Subset
  <1>4. Cardinality(named) = 1 <=> \E o \in named : named = {o}
    BY <1>3, FS_Singleton
  <1>5. Router!BodyOrg(ask) =
          IF ask.readable /\ Cardinality(named) = 1 THEN CHOOSE o \in named : TRUE ELSE NoOrg
    BY SameCount DEF Router!BodyOrg, Router!ToSet, ToSet
  <1>6. ASSUME ask.readable, NEW n \in named, named = {n}
        PROVE  Router!BodyOrg(ask) = n
    <2>1. (CHOOSE o \in named : TRUE) \in named
      BY <1>6
    <2>2. QED
      BY <1>4, <1>5, <1>6, <2>1
  <1>7. QED
    BY <1>2, <1>4, <1>5, <1>6

LEMMA EdgeKeeps ==
    ASSUME RouterSound, NEW r \in Requests, Router!Edge(r)
    PROVE  RouterSound'
  <1> DEFINE q == req[r]
             o == Router!BodyOrg(q.ask)
             place == IF o # NoOrg /\ q.header[o] \in Pods THEN q.header[o] ELSE Home
             x == [q EXCEPT !.pc = "origin", !.region = place]
             claimed == Router!Claimed(q.ask)
             named == ToSet(q.ask.messages) \ {NoOrg}
  <1>1. /\ q \in Router!Request /\ SoundIn(kvs, summary, q) /\ q.pc = "edge"
        /\ UNCHANGED <<kvs, summary, moves>>
        /\ req' = [req EXCEPT ![r] = x]
    BY RequestNow DEF Router!Edge, Router!Becomes
  <1>2. /\ q.ask \in Asks /\ q.moved \in BOOLEAN
        /\ ~q.moved => InStepIn(kvs, summary)
        /\ q.ask.path = NoOrg /\ HasEdge
    BY <1>1, RequestFacts DEF SoundIn
  <1>3. q.ask.bearer \/ q.ask.query = NoOrg
    BY <1>1 DEF SoundIn
  <1>4. /\ ReadWellIn(kvs, q, claimed)
        /\ \A region \in Pods : \E p \in claimed : q.found[p] # region
    BY <1>1 DEF SoundIn
  <1>5. \A p \in Orgs : q.header[p] = IF p \in claimed /\ q.found[p] # Home
                                      THEN q.found[p] ELSE NoRegion
    BY <1>1 DEF SoundIn
  <1>6. place \in Pods
    BY Origins
  <1>7. /\ x \in Router!Request /\ x.pc = "origin" /\ x.ask = q.ask /\ x.region = place
        /\ x.moved = q.moved /\ x.failed = q.failed
    <2> HIDE DEF place
    <2>1. QED
      BY <1>1, <1>6 DEF Router!Request
  <1>8. ASSUME Router!Steady(q) PROVE BelongsIn(kvs, q.ask) = place
    <2>1. \A p \in claimed : q.found[p] \in Pods /\ q.found[p] = Router!OriginOf(kvs[p])
      BY <1>4, <1>8 DEF ReadWellIn
    <2>2. \A region \in Pods : \E p \in claimed : Router!OriginOf(kvs[p]) # region
      BY <1>4, <2>1
    <2>3. BelongsIn(kvs, q.ask) =
            IF HasEdge /\ q.ask.readable /\ named # {} /\ named \subseteq claimed
               /\ \E p \in named : named = {p}
            THEN Router!OriginOf(kvs[CHOOSE p \in named : TRUE]) ELSE Home
      BY <1>2, <1>3, <2>2, BelongsOfBearer
    <2>4. CASE q.ask.readable /\ \E p \in named : named = {p}
      <3>1. o \in named /\ named = {o} /\ o \in Orgs /\ o # NoOrg
        BY <1>2, <2>4, BodyDecides
      <3>2. (CHOOSE p \in named : TRUE) = o
        BY <3>1
      <3>3. q.header[o] = IF o \in claimed /\ q.found[o] # Home THEN q.found[o] ELSE NoRegion
        BY <1>5, <3>1
      <3>4. CASE o \in claimed
        <4>1. BelongsIn(kvs, q.ask) = Router!OriginOf(kvs[o])
          BY <1>2, <2>3, <2>4, <3>1, <3>2, <3>4
        <4>2. q.found[o] \in Pods /\ q.found[o] = Router!OriginOf(kvs[o])
          BY <2>1, <3>4
        <4>3. QED
          BY <3>1, <3>3, <3>4, <4>1, <4>2, Origins
      <3>5. CASE o \notin claimed
        <4>1. BelongsIn(kvs, q.ask) = Home
          BY <2>3, <3>1, <3>5
        <4>2. QED
          BY <3>3, <3>5, <4>1, Origins
      <3>6. QED
        BY <3>4, <3>5
    <2>5. CASE ~(q.ask.readable /\ \E p \in named : named = {p})
      <3>1. o = NoOrg
        BY <1>2, <2>5, BodyDecides
      <3>2. QED
        BY <2>3, <2>5, <3>1
    <2>6. QED
      BY <2>4, <2>5
  <1> HIDE DEF x, place
  <1>9. SoundIn(kvs, summary, x)
    BY <1>2, <1>7, <1>8 DEF SoundIn, Router!Steady
  <1>10. QED
    BY <1>1, <1>7, <1>9, RequestSteps

LEMMA ReceiveKeeps ==
    ASSUME RouterSound, NEW r \in Requests, NEW ask \in Asks, Router!Receive(r, ask)
    PROVE  RouterSound'
  <1> DEFINE q == [Router!IdleRequest EXCEPT !.ask = ask, !.moved = ~Router!InStep]
             path == [q EXCEPT !.pc = "one", !.route = "path"]
             query == [q EXCEPT !.pc = "one", !.route = "query"]
             next == IF ask.orgs = <<>> THEN "origin" ELSE "away"
             bearer == [q EXCEPT !.pc = next]
  <1>1. /\ UNCHANGED <<kvs, summary, moves>>
        /\ \/ ask.path # NoOrg /\ req' = [req EXCEPT ![r] = path]
           \/ /\ ask.path = NoOrg /\ ~ask.bearer /\ ask.query # NoOrg
              /\ req' = [req EXCEPT ![r] = query]
           \/ /\ ask.path = NoOrg /\ (ask.bearer \/ ask.query = NoOrg)
              /\ req' = [req EXCEPT ![r] = bearer]
    BY DEF Router!Receive, Router!Becomes
  <1>2. Router!Nowhere \in Router!Places
    BY RequestNow
  <1>3. /\ q \in Router!Request /\ q.ask = ask /\ q.i = 1 /\ q.region = Home
        /\ ~q.moved => InStepIn(kvs, summary)
    <2> DEFINE late == ~Router!InStep
    <2>1. late \in BOOLEAN /\ (~late => InStepIn(kvs, summary))
      BY SoundByStore
    <2> HIDE DEF late
    <2>2. [Router!IdleRequest EXCEPT !.ask = ask, !.moved = late] \in Router!Request
      BY <1>2, <2>1, Origins DEF Router!IdleRequest, Router!Request
    <2>3. /\ [Router!IdleRequest EXCEPT !.ask = ask, !.moved = late].ask = ask
          /\ [Router!IdleRequest EXCEPT !.ask = ask, !.moved = late].i = 1
          /\ [Router!IdleRequest EXCEPT !.ask = ask, !.moved = late].region = Home
          /\ [Router!IdleRequest EXCEPT !.ask = ask, !.moved = late].moved = late
      BY DEF Router!IdleRequest
    <2>4. QED
      BY <2>1, <2>2, <2>3 DEF late
  <1> HIDE DEF q
  <1>4. CASE ask.path # NoOrg /\ req' = [req EXCEPT ![r] = path]
    <2>1. /\ path \in Router!Request /\ path.pc = "one" /\ path.ask = ask
          /\ path.moved = q.moved
      BY <1>3 DEF Router!Request
    <2> HIDE DEF path
    <2>2. SoundIn(kvs, summary, path)
      BY <1>3, <1>4, <2>1 DEF SoundIn
    <2>3. QED
      BY <1>1, <1>4, <2>1, <2>2, RequestSteps
  <1>5. CASE ~ask.bearer /\ ask.query # NoOrg /\ req' = [req EXCEPT ![r] = query]
    <2>1. /\ query \in Router!Request /\ query.pc = "one" /\ query.ask = ask
          /\ query.moved = q.moved
      BY <1>3 DEF Router!Request
    <2> HIDE DEF query
    <2>2. SoundIn(kvs, summary, query)
      BY <1>3, <1>5, <2>1 DEF SoundIn
    <2>3. QED
      BY <1>1, <1>5, <2>1, <2>2, RequestSteps
  <1>6. ASSUME ask.path = NoOrg, ask.bearer \/ ask.query = NoOrg,
               req' = [req EXCEPT ![r] = bearer]
        PROVE  RouterSound'
    <2>1. next \in {"origin", "away"}
      OBVIOUS
    <2>2. /\ bearer \in Router!Request /\ bearer.pc = next /\ bearer.ask = ask
          /\ bearer.moved = q.moved /\ bearer.i = 1 /\ bearer.region = Home
      <3> HIDE DEF next
      <3>1. QED
        BY <1>3, <2>1 DEF Router!Request
    <2> HIDE DEF bearer
    <2>3. CASE ask.orgs = <<>>
      <3>1. Router!Claimed(ask) = {}
        BY <2>3, ClaimedFacts
      <3>2. BelongsIn(kvs, ask) = Home
        BY <1>6, <3>1, BelongsOfBearer
      <3>3. SoundIn(kvs, summary, bearer)
        BY <1>3, <1>6, <2>2, <2>3, <3>2 DEF SoundIn
      <3>4. QED
        BY <1>1, <1>6, <2>2, <3>3, RequestSteps
    <2>4. CASE ask.orgs # <<>>
      <3>1. 1 \in Router!Turns(ask)
        BY <2>4, ClaimedFacts
      <3>2. SoundIn(kvs, summary, bearer)
        BY <1>3, <1>6, <2>2, <2>4, <3>1 DEF SoundIn
      <3>3. QED
        BY <1>1, <1>6, <2>2, <3>2, RequestSteps
    <2>5. QED
      BY <2>3, <2>4
  <1>7. QED
    BY <1>1, <1>4, <1>5, <1>6

LEMMA IdleSound ==
    /\ Router!IdleRequest \in Router!Request
    /\ \A places, list : SoundIn(places, list, Router!IdleRequest)
  <1>1. Router!Nowhere \in Router!Places
    BY DEF Router!Nowhere, Router!Places
  <1>2. Router!IdleRequest \in Router!Request /\ Router!IdleRequest.pc = "idle"
    BY <1>1, Origins DEF Router!IdleRequest, Router!Request
  <1>3. QED
    BY <1>2 DEF SoundIn

\* A change of the store excuses every request it comes under.
LEMMA MovesKeep ==
    ASSUME RouterSound, Router!Move \/ Router!Summarize
    PROVE  RouterSound'
  <1>1. /\ kvs \in Router!Places /\ moves \in 0..MaxMoves /\ MaxMoves \in Nat
        /\ summary \in [listed: BOOLEAN, away: Router!Places]
        /\ req \in [Requests -> Router!Request]
    BY PathAssumption DEF RouterSound, Router!RouterTypeOK, Router!RouterAssumption
  <1>2. kvs' \in Router!Places /\ moves' \in 0..MaxMoves
    <2>1. CASE Router!Move
      <3>1. PICK o \in Orgs, region \in Pods \cup {"elsewhere"} : kvs' = [kvs EXCEPT ![o] = region]
        BY <2>1 DEF Router!Move
      <3>2. kvs' \in Router!Places
        BY <1>1, <3>1 DEF Router!Places
      <3>3. moves < MaxMoves /\ moves' = moves + 1
        BY <2>1 DEF Router!Move
      <3>4. QED
        BY <1>1, <3>2, <3>3
    <2>2. CASE Router!Summarize
      BY <1>1, <2>2 DEF Router!Summarize
    <2>3. QED
      BY <2>1, <2>2
  <1>3. summary' \in [listed: BOOLEAN, away: Router!Places]
    <2>1. CASE Router!Move
      BY <1>1, <2>1 DEF Router!Move
    <2>2. CASE Router!Summarize
      <3>1. Router!Summary \in Router!Places /\ Router!Nowhere \in Router!Places
        BY <1>1 DEF Router!Summary, Router!Nowhere, Router!Places
      <3>2. QED
        BY <2>2, <3>1 DEF Router!Summarize
    <2>3. QED
      BY <2>1, <2>2
  <1>4. req' = [r \in Requests |-> IF req[r].pc = "idle" THEN req[r]
                                    ELSE [req[r] EXCEPT !.moved = TRUE]]
    BY DEF Router!Move, Router!Summarize, Router!Changes
  <1>5. ASSUME NEW r \in Requests
        PROVE  req'[r] \in Router!Request /\ SoundIn(kvs', summary', req'[r])
    <2> DEFINE q == req[r]
               x == [q EXCEPT !.moved = TRUE]
    <2>1. q \in Router!Request /\ SoundIn(kvs, summary, q)
      BY RequestNow
    <2>2. CASE q.pc = "idle"
      <3>1. req'[r] = q
        BY <1>4, <2>2
      <3>2. QED
        BY <2>1, <2>2, <3>1 DEF SoundIn
    <2>3. CASE q.pc # "idle"
      <3>1. req'[r] = x
        BY <1>4, <2>3
      <3>2. /\ x \in Router!Request /\ x.pc = q.pc /\ x.ask = q.ask /\ x.i = q.i
            /\ x.found = q.found /\ x.header = q.header /\ x.moved
        BY <2>1 DEF Router!Request
      <3>3. ~Router!Steady(x)
        BY <3>2 DEF Router!Steady
      <3> HIDE DEF x
      <3>4. x.pc = "orgs" => ReadWellIn(kvs', x, Router!ReadSoFar(x))
        <4>1. Router!ReadSoFar(x) = Router!ReadSoFar(q)
          BY <3>2 DEF Router!ReadSoFar
        <4>2. QED
          BY <2>1, <3>2, <3>3, <4>1 DEF SoundIn, ReadWellIn
      <3>5. x.pc = "edge" => ReadWellIn(kvs', x, Router!Claimed(x.ask))
        BY <2>1, <3>2, <3>3 DEF SoundIn, ReadWellIn
      <3>6. /\ x.pc # "idle" => x.ask \in Asks
            /\ x.pc = "one" => x.ask.path # NoOrg \/ (~x.ask.bearer /\ x.ask.query # NoOrg)
            /\ x.pc \in {"away", "orgs", "edge"} =>
                 x.ask.path = NoOrg /\ (x.ask.bearer \/ x.ask.query = NoOrg)
            /\ x.pc = "away" => x.i = 1
            /\ x.pc \in {"away", "orgs"} => x.i \in Router!Turns(x.ask)
        BY <2>1, <3>2 DEF SoundIn
      <3>7. x.pc = "edge" =>
              /\ HasEdge
              /\ \A region \in Pods : \E o \in Router!Claimed(x.ask) : x.found[o] # region
              /\ \A o \in Orgs :
                  x.header[o] = IF o \in Router!Claimed(x.ask) /\ x.found[o] # Home
                                THEN x.found[o] ELSE NoRegion
        BY <2>1, <3>2 DEF SoundIn
      <3>8. SoundIn(kvs', summary', x)
        BY <3>2, <3>3, <3>4, <3>5, <3>6, <3>7 DEF SoundIn
      <3>9. QED
        BY <3>1, <3>2, <3>8
    <2>4. QED
      BY <2>2, <2>3
  <1>6. ASSUME NEW r \in Requests PROVE Router!RequestSound(req[r])'
    <2>1. Router!RequestSound(req[r])' <=> SoundIn(kvs', summary', req'[r])
      BY SoundByStore DEF Router!RequestSound
    <2>2. QED
      BY <1>5, <2>1
  <1>7. req' \in [Requests -> Router!Request]
    BY <1>4, <1>5
  <1>8. QED
    BY <1>2, <1>3, <1>6, <1>7 DEF RouterSound, Router!RouterTypeOK

LEMMA RouterStays ==
    ASSUME RouterSound, UNCHANGED routerVars
    PROVE  RouterSound'
  <1>1. UNCHANGED <<kvs, summary, moves, req>>
    BY DEF routerVars
  <1>2. Router!RouterTypeOK'
    BY <1>1 DEF RouterSound, Router!RouterTypeOK
  <1>3. ASSUME NEW r \in Requests PROVE Router!RequestSound(req[r])'
    <2>1. Router!RequestSound(req[r])' <=> SoundIn(kvs', summary', req'[r])
      BY SoundByStore DEF Router!RequestSound
    <2>2. QED
      BY <1>1, <2>1, RequestNow
  <1>4. QED
    BY <1>2, <1>3 DEF RouterSound

LEMMA RouterBegins == Router!RouterInit => RouterSound
  <1> SUFFICES ASSUME Router!RouterInit PROVE RouterSound
    OBVIOUS
  <1>1. Router!Nowhere \in Router!Places
    BY DEF Router!Nowhere, Router!Places
  <1>2. Router!RouterTypeOK
    BY <1>1, IdleSound, PathAssumption
       DEF Router!RouterInit, Router!RouterTypeOK, Router!RouterAssumption
  <1>3. ASSUME NEW r \in Requests PROVE Router!RequestSound(req[r])
    BY IdleSound, SoundByStore DEF Router!RouterInit
  <1>4. QED
    BY <1>2, <1>3 DEF RouterSound

\* Whatever happens on the path, the router's requests stay sound.
LEMMA RouterKept ==
    ASSUME RouterSound, clients \in Clienteles, [PathNext]_pathVars
    PROVE  RouterSound'
  <1>1. CASE UNCHANGED pathVars
    BY <1>1, RouterStays DEF pathVars
  <1>2. ASSUME NEW r \in Requests, Enter(r)
        PROVE  RouterSound'
    <2>1. PICK ask \in clients.asks : Router!Receive(r, ask)
      BY <1>2 DEF Enter
    <2>2. ask \in Asks
      BY PathAssumption
    <2>3. QED
      BY <2>1, <2>2, ReceiveKeeps
  <1>3. ASSUME NEW r \in Requests, RouterSteps(r)
        PROVE  RouterSound'
    BY <1>3, ReadOneKeeps, ReadAwayKeeps, ReadOrgKeeps, EdgeKeeps DEF RouterSteps, Router!RouterStep
  <1>4. ASSUME NEW r \in Requests, Leave(r)
        PROVE  RouterSound'
    BY <1>4, IdleSound, RequestSteps DEF Leave
  <1>5. CASE MovesOrg
    BY <1>5, MovesKeep DEF MovesOrg
  <1>6. ASSUME NEW r \in Requests,
               \/ Arrive(r) \/ ArriveDirectly(r) \/ Unguarded(r) \/ RefusedBare(r) \/ FromCache(r)
               \/ \E c \in Containers : AskAuthorizer(r, c)
        PROVE  RouterSound'
    BY <1>6, RouterStays
       DEF Arrive, ArriveDirectly, Unguarded, RefusedBare, FromCache, AskAuthorizer
  <1>7. ASSUME NEW c \in Containers, Authorizes(c) \/ Authorized(c) \/ Loses(c)
        PROVE  RouterSound'
    BY <1>7, RouterStays DEF Authorizes, Authorized, Loses
  <1>8. CASE StampAnew \/ Propagated \/ IssuerAndTime \/ \E p \in Pods : DeployPod(p)
    BY <1>8, RouterStays DEF StampAnew, Propagated, IssuerAndTime, DeployPod
  <1>9. QED
    BY <1>1, <1>2, <1>3, <1>4, <1>5, <1>6, <1>7, <1>8 DEF PathNext, PathStep

-----------------------------------------------------------------------------
(* The requests at their pods.                                             *)

NotStranded(v, q) ==
    v.outcome = "misplaced"
        => \/ v.direct \/ q.moved \/ q.failed
           \/ Router!Claimed(v.ask) # ToSet(v.ask.orgs)
           \/ v.ask.bearer /\ Router!Named(v.ask) # v.ask.path

SecretsSound == secret \in [old: 1..MaxSecrets, new: 1..MaxSecrets, pods: [Pods -> 0..MaxSecrets]]

VisitsSound ==
    /\ at \in [Requests -> Visit]
    /\ \A r \in Requests : VisitSound(at[r], req[r]) /\ NotStranded(at[r], req[r])

LEMMA OutSound ==
    /\ Out \in Visit /\ Out.direct = FALSE /\ Out.stamp = 0 /\ Out.outcome = "none"
    /\ \A q : VisitSound(Out, q) /\ NotStranded(Out, q)
  <1>1. /\ Out \in Visit /\ Out.pc = "out" /\ Out.outcome = "none"
        /\ Out.direct = FALSE /\ Out.stamp = 0
    BY Origins, PathAssumption DEF Out, Visit
  <1>2. QED
    BY <1>1 DEF VisitSound, NotStranded

LEMMA VisitFacts ==
    ASSUME NEW v \in Visit
    PROVE  /\ v.pc \in {"out", "pod", "asked", "done"} /\ v.ask \in Asks \cup {Router!NoAsk}
           /\ v.pod \in Pods /\ v.direct \in BOOLEAN /\ v.host \in {"own", "app", "plugin"}
           /\ v.stamp \in 0..MaxSecrets /\ v.unsettled \in BOOLEAN
           /\ v.outcome \in {"none", "bare", "refused", "not_found", "misplaced", "served", "lost"}
  BY DEF Visit

\* One request takes a step at its pod, or leaves it.
LEMMA VisitSteps ==
    ASSUME VisitsSound, NEW r \in Requests, NEW v \in Visit, at' = [at EXCEPT ![r] = v],
           VisitSound(v, req'[r]), NotStranded(v, req'[r]),
           \A s \in Requests : s # r => req'[s] = req[s]
    PROVE  VisitsSound'
  <1>1. at' \in [Requests -> Visit]
    BY DEF VisitsSound
  <1>2. ASSUME NEW s \in Requests
        PROVE  VisitSound(at'[s], req'[s]) /\ NotStranded(at'[s], req'[s])
    <2>1. CASE s = r
      BY <2>1 DEF VisitsSound
    <2>2. CASE s # r
      <3>1. at'[s] = at[s] /\ req'[s] = req[s]
        BY <2>2 DEF VisitsSound
      <3>2. VisitSound(at[s], req[s]) /\ NotStranded(at[s], req[s])
        BY DEF VisitsSound
      <3>3. QED
        BY <3>1, <3>2
    <2>3. QED
      BY <2>1, <2>2
  <1>3. QED
    BY <1>1, <1>2 DEF VisitsSound

LEMMA VisitsStay ==
    ASSUME VisitsSound, UNCHANGED <<at, req>>
    PROVE  VisitsSound'
  BY DEF VisitsSound

\* A request on its way to a pod is at none.
LEMMA OutOnTheWay ==
    ASSUME VisitsSound, NEW r \in Requests, UNCHANGED at,
           at[r].pc = "out" \/ req[r].pc \notin {"idle", "origin"},
           \A s \in Requests : s # r => req'[s] = req[s]
    PROVE  VisitsSound'
  <1>1. at[r].pc = "out"
    BY DEF VisitsSound, VisitSound
  <1>2. at[r] = Out
    BY <1>1 DEF VisitsSound, VisitSound
  <1>3. ASSUME NEW s \in Requests
        PROVE  VisitSound(at[s], req'[s]) /\ NotStranded(at[s], req'[s])
    <2>1. CASE s = r
      BY <1>2, <2>1, OutSound
    <2>2. CASE s # r
      BY <2>2 DEF VisitsSound
    <2>3. QED
      BY <2>1, <2>2
  <1>4. QED
    BY <1>3 DEF VisitsSound

LEMMA MovesVisits ==
    ASSUME RouterSound, VisitsSound, MovesOrg
    PROVE  VisitsSound'
  <1>1. /\ UNCHANGED at
        /\ req' = [r \in Requests |-> IF req[r].pc = "idle" THEN req[r]
                                       ELSE [req[r] EXCEPT !.moved = TRUE]]
    BY DEF MovesOrg, Router!Move, Router!Summarize, Router!Changes
  <1>2. ASSUME NEW r \in Requests
        PROVE  VisitSound(at[r], req'[r]) /\ NotStranded(at[r], req'[r])
    <2>1. req[r] \in Router!Request /\ VisitSound(at[r], req[r]) /\ NotStranded(at[r], req[r])
      BY RequestNow DEF VisitsSound
    <2>2. /\ req'[r].pc = req[r].pc /\ req'[r].ask = req[r].ask /\ req'[r].region = req[r].region
          /\ req'[r].failed = req[r].failed /\ (req[r].moved => req'[r].moved)
      BY <1>1, <2>1 DEF Router!Request
    <2>3. QED
      BY <2>1, <2>2 DEF VisitSound, NotStranded
  <1>3. QED
    BY <1>1, <1>2 DEF VisitsSound

LEMMA WayVisits ==
    ASSUME RouterSound, VisitsSound, NEW r \in Requests, Enter(r) \/ RouterSteps(r)
    PROVE  VisitsSound'
  <1>1. UNCHANGED at
    BY DEF Enter, RouterSteps
  <1>2. at[r].pc = "out" \/ req[r].pc \notin {"idle", "origin"}
    BY DEF Enter, RouterSteps, Router!RouterStep, Router!ReadOne, Router!ReadAway, Router!ReadOrg,
           Router!Edge
  <1>3. PICK q : req' = [req EXCEPT ![r] = q]
    <2>1. CASE Enter(r)
      BY <2>1 DEF Enter, Router!Receive, Router!Becomes
    <2>2. CASE RouterSteps(r)
      <3>1. CASE Router!ReadOne(r)
        BY <3>1 DEF Router!ReadOne, Router!Becomes
      <3>2. CASE Router!ReadAway(r)
        BY <3>2 DEF Router!ReadAway, Router!Becomes
      <3>3. CASE Router!ReadOrg(r)
        BY <3>3 DEF Router!ReadOrg, Router!Becomes
      <3>4. CASE Router!Edge(r)
        BY <3>4 DEF Router!Edge, Router!Becomes
      <3>5. QED
        BY <2>2, <3>1, <3>2, <3>3, <3>4 DEF RouterSteps, Router!RouterStep
    <2>3. QED
      BY <2>1, <2>2
  <1>4. \A s \in Requests : s # r => req'[s] = req[s]
    BY <1>3, RequestNow
  <1>5. QED
    BY <1>1, <1>2, <1>4, OutOnTheWay

\* A new visit v of a request that is nowhere yet.
LEMMA ArrivesVisits ==
    ASSUME RouterSound, VisitsSound, SecretsSound, clients \in Clienteles, NEW r \in Requests,
           Arrive(r) \/ ArriveDirectly(r)
    PROVE  VisitsSound'
  <1>1. UNCHANGED req
    BY DEF Arrive, ArriveDirectly, routerVars
  <1>2. CASE Arrive(r)
    <2>0. PICK n \in Stamps(req[r].region) :
            at' = [at EXCEPT ![r] =
                     [Out EXCEPT !.pc = "pod", !.ask = req[r].ask, !.pod = req[r].region,
                                 !.stamp = n, !.unsettled = ~Settled(req[r].region)]]
      BY <1>2 DEF Arrive, Becomes
    <2> DEFINE unsettled == ~Settled(req[r].region)
               v == [Out EXCEPT !.pc = "pod", !.ask = req[r].ask, !.pod = req[r].region,
                                !.stamp = n, !.unsettled = unsettled]
    <2>1. /\ req[r].pc = "origin" /\ at' = [at EXCEPT ![r] = v]
      BY <1>2, <2>0 DEF Arrive
    <2>2. /\ req[r].ask \in Asks /\ req[r].region \in Pods /\ n \in 0..MaxSecrets
      BY <2>1, RequestNow, RequestFacts DEF SoundIn, Stamps, SecretsSound
    <2>3. /\ v \in Visit /\ v.pc = "pod" /\ v.ask = req[r].ask /\ v.pod = req[r].region
          /\ ~v.direct /\ v.outcome = "none"
      <3>1. unsettled \in BOOLEAN
        BY DEF Settled
      <3> HIDE DEF unsettled
      <3>2. QED
        BY <2>2, <3>1, OutSound DEF Visit
    <2> HIDE DEF v
    <2>4. VisitSound(v, req[r]) /\ NotStranded(v, req[r])
      BY <2>1, <2>2, <2>3 DEF VisitSound, NotStranded
    <2>5. QED
      BY <1>1, <2>1, <2>3, <2>4, VisitSteps
  <1>3. CASE ArriveDirectly(r)
    <2>1. PICK ask \in clients.asks, p \in Pods :
              at' = [at EXCEPT ![r] = [Out EXCEPT !.pc = "pod", !.ask = ask, !.pod = p,
                                                  !.direct = TRUE]]
      BY <1>3 DEF ArriveDirectly, Becomes
    <2> DEFINE v == [Out EXCEPT !.pc = "pod", !.ask = ask, !.pod = p, !.direct = TRUE]
    <2>2. ask \in Asks /\ req[r].pc = "idle"
      BY <1>3, PathAssumption DEF ArriveDirectly
    <2>3. /\ v \in Visit /\ v.pc = "pod" /\ v.ask = ask /\ v.direct /\ v.outcome = "none"
      <3>1. 0 \in 0..MaxSecrets
        BY PathAssumption
      <3>2. QED
        BY <2>2, <3>1, OutSound DEF Visit
    <2>4. at' = [at EXCEPT ![r] = v]
      BY <2>1
    <2> HIDE DEF v
    <2>5. VisitSound(v, req[r]) /\ NotStranded(v, req[r])
      BY <2>2, <2>3 DEF VisitSound, NotStranded
    <2>6. QED
      BY <1>1, <2>3, <2>4, <2>5, VisitSteps
  <1>4. QED
    BY <1>2, <1>3

\* What a visit has become when only its stage or outcome changes.
LEMMA StageVisits ==
    ASSUME VisitsSound, NEW r \in Requests, NEW v \in Visit, at' = [at EXCEPT ![r] = v],
           UNCHANGED req, at[r].pc # "out", v.pc \in {"asked", "done"},
           v.ask = at[r].ask, v.pod = at[r].pod, v.direct = at[r].direct,
           v.pc = "asked" => Router!Named(v.ask) = NoOrg /\ v.outcome = "none",
           NotStranded(v, req[r])
    PROVE  VisitsSound'
  <1>1. VisitSound(at[r], req[r])
    BY DEF VisitsSound
  <1>2. VisitSound(v, req[r])
    BY <1>1 DEF VisitSound
  <1>3. QED
    BY <1>2, VisitSteps

LEMMA RefusedAndLostVisits ==
    ASSUME VisitsSound, NEW r \in Requests, UNCHANGED req, at[r].pc # "out",
           NEW outcome \in {"bare", "lost"},
           at' = [at EXCEPT ![r] = [at[r] EXCEPT !.pc = "done", !.outcome = outcome]]
    PROVE  VisitsSound'
  <1> DEFINE v == [at[r] EXCEPT !.pc = "done", !.outcome = outcome]
  <1>1. at[r] \in Visit
    BY DEF VisitsSound
  <1>2. /\ v \in Visit /\ v.pc = "done" /\ v.outcome = outcome
        /\ v.ask = at[r].ask /\ v.pod = at[r].pod /\ v.direct = at[r].direct
    BY <1>1 DEF Visit
  <1>3. at' = [at EXCEPT ![r] = v]
    OBVIOUS
  <1> HIDE DEF v
  <1>4. NotStranded(v, req[r])
    BY <1>2 DEF NotStranded
  <1>5. QED
    BY <1>2, <1>3, <1>4, StageVisits

LEMMA AsksVisits ==
    ASSUME VisitsSound, NEW r \in Requests, NEW c \in Containers, AskAuthorizer(r, c)
    PROVE  VisitsSound'
  <1> DEFINE v == [at[r] EXCEPT !.pc = "asked"]
  <1>1. /\ UNCHANGED req /\ at[r].pc = "pod" /\ Router!Named(at[r].ask) = NoOrg
        /\ at' = [at EXCEPT ![r] = v]
    BY DEF AskAuthorizer, Becomes, routerVars
  <1>2. at[r] \in Visit /\ at[r].outcome = "none"
    BY <1>1 DEF VisitsSound, VisitSound
  <1>3. /\ v \in Visit /\ v.pc = "asked" /\ v.outcome = "none"
        /\ v.ask = at[r].ask /\ v.pod = at[r].pod /\ v.direct = at[r].direct
    BY <1>2 DEF Visit
  <1> HIDE DEF v
  <1>4. NotStranded(v, req[r])
    BY <1>3 DEF NotStranded
  <1>5. QED
    BY <1>1, <1>3, <1>4, StageVisits

\* An answer leaves nobody stranded: it names what was read of the bearer, or
\* the one organization of the path, and the router went where that lives.
LEMMA AnswerReaches ==
    ASSUME RouterSound, VisitsSound, NEW r \in Requests, NEW answer, at[r].pc # "out",
           \/ Router!Named(at[r].ask) # NoOrg /\ answer.orgs = {Router!Named(at[r].ask)}
           \/ Router!Named(at[r].ask) = NoOrg /\ answer.orgs \subseteq Claimant(at[r].ask.token),
           Outcome(at[r], answer) = "misplaced", ~at[r].direct, Router!Steady(req[r]),
           Router!Claimed(at[r].ask) = ToSet(at[r].ask.orgs),
           at[r].ask.bearer => Router!Named(at[r].ask) = at[r].ask.path
    PROVE  FALSE
  <1> DEFINE v == at[r]
             ask == v.ask
             named == answer.orgs \cap (ToSet(ask.messages) \cup {Router!Named(ask)})
  <1>1. /\ ask \in Asks /\ v.pod = BelongsIn(kvs, ask)
    <2>1. VisitSound(v, req[r])
      BY DEF VisitsSound
    <2>2. ask \in Asks /\ req[r].pc = "origin" /\ req[r].ask = ask /\ req[r].region = v.pod
      BY <2>1 DEF VisitSound
    <2>3. SoundIn(kvs, summary, req[r])
      BY RequestNow
    <2>4. QED
      BY <2>2, <2>3 DEF SoundIn
  <1>2. v.pod # Home
    BY DEF Outcome
  <1>3. PICK o \in named : Router!OriginOf(kvs[o]) # v.pod
    BY DEF Outcome, Router!ToSet, ToSet
  <1>4. CASE Router!Named(ask) # NoOrg
    <2>1. o = Router!Named(ask)
      BY <1>3, <1>4
    <2>2. CASE ask.path # NoOrg
      BY <1>1, <1>3, <2>1, <2>2 DEF BelongsIn, Router!Named
    <2>3. CASE ask.path = NoOrg
      <3>1. o = ask.query /\ ask.query # NoOrg
        BY <1>4, <2>1, <2>3 DEF Router!Named
      <3>2. ~ask.bearer
        BY <1>4, <2>3
      <3>3. QED
        BY <1>1, <1>3, <2>3, <3>1, <3>2 DEF BelongsIn
    <2>4. QED
      BY <2>2, <2>3
  <1>5. CASE Router!Named(ask) = NoOrg
    <2>1. ask.path = NoOrg /\ ask.query = NoOrg
      BY <1>5 DEF Router!Named
    <2>2. o \in Claimant(ask.token)
      BY <1>3, <1>5
    <2>3. ask.token \in Tokens /\ ask.orgs = Claims[ask.token].orgs
      BY <1>1, <2>2, AskFacts, McpAssumption DEF Claimant
    <2>4. o \in ToSet(ask.orgs)
      BY <2>2, <2>3 DEF Claimant, Members, ToSet
    <2>5. o \in Router!Claimed(ask) /\ o \in Orgs /\ o # NoOrg
      BY <1>1, <2>4, ClaimedFacts, PathAssumption DEF Router!RouterAssumption
    <2>6. o \in ToSet(ask.messages) \ {NoOrg}
      BY <1>3, <1>5, <2>5
    <2>7. \A region \in Pods : \E p \in Router!Claimed(ask) : Router!OriginOf(kvs[p]) # region
      <3>1. ASSUME NEW region \in Pods,
                   \A p \in Router!Claimed(ask) : Router!OriginOf(kvs[p]) = region
            PROVE  FALSE
        <4>1. ask.orgs # <<>>
          BY <1>1, <2>5, ClaimedFacts
        <4>2. BelongsIn(kvs, ask) = region
          BY <1>1, <2>1, <3>1, <4>1, BelongsTogether
        <4>3. QED
          BY <1>1, <1>3, <2>5, <3>1, <4>2
      <3>2. QED
        BY <3>1
    <2> DEFINE body == ToSet(ask.messages) \ {NoOrg}
    <2>8. BelongsIn(kvs, ask) =
            IF HasEdge /\ ask.readable /\ body # {} /\ body \subseteq Router!Claimed(ask)
               /\ \E p \in body : body = {p}
            THEN Router!OriginOf(kvs[CHOOSE p \in body : TRUE]) ELSE Home
      BY <1>1, <2>1, <2>7, BelongsOfBearer
    <2>9. \E p \in body : body = {p}
      BY <1>1, <1>2, <2>8
    <2>10. body = {o} /\ (CHOOSE p \in body : TRUE) = o
      BY <2>6, <2>9
    <2>11. QED
      BY <1>1, <1>2, <1>3, <2>8, <2>10
  <1>6. QED
    BY <1>4, <1>5

LEMMA AnsweredVisits ==
    ASSUME RouterSound, VisitsSound, NEW r \in Requests, NEW answer,
           at[r].pc \in {"pod", "asked"}, UNCHANGED routerVars, Answered(r, answer),
           \/ Router!Named(at[r].ask) # NoOrg /\ answer.orgs = {Router!Named(at[r].ask)}
           \/ Router!Named(at[r].ask) = NoOrg /\ answer.orgs \subseteq Claimant(at[r].ask.token)
    PROVE  VisitsSound'
  <1> DEFINE host == TrustedHost(at[r])
             outcome == Outcome(at[r], answer)
             v == [at[r] EXCEPT !.pc = "done", !.host = host, !.outcome = outcome]
  <1>1. /\ UNCHANGED req /\ at' = [at EXCEPT ![r] = v]
    BY DEF Answered, Becomes, routerVars
  <1>2. at[r] \in Visit /\ at[r].ask \in Asks
    BY DEF VisitsSound, VisitSound
  <1>3. host \in {"own", "app", "plugin"}
    BY <1>2, AskFacts DEF TrustedHost
  <1>4. outcome \in {"refused", "not_found", "misplaced", "served"}
    BY DEF Outcome
  <1>5. /\ v \in Visit /\ v.pc = "done" /\ v.outcome = outcome
        /\ v.ask = at[r].ask /\ v.pod = at[r].pod /\ v.direct = at[r].direct
    <2> HIDE DEF host, outcome
    <2>1. QED
      BY <1>2, <1>3, <1>4 DEF Visit
  <1> HIDE DEF v
  <1>6. NotStranded(v, req[r])
    <2>1. SUFFICES ASSUME outcome = "misplaced", ~at[r].direct, ~req[r].moved, ~req[r].failed,
                          Router!Claimed(at[r].ask) = ToSet(at[r].ask.orgs),
                          ~(at[r].ask.bearer /\ Router!Named(at[r].ask) # at[r].ask.path)
                   PROVE  FALSE
      BY <1>5 DEF NotStranded
    <2>2. at[r].ask.bearer => Router!Named(at[r].ask) = at[r].ask.path
      BY <2>1
    <2>3. Router!Steady(req[r])
      BY <2>1 DEF Router!Steady
    <2>4. at[r].pc # "out"
      OBVIOUS
    <2>5. QED
      BY <2>1, <2>2, <2>3, <2>4, AnswerReaches
  <1>7. at[r].pc # "out"
    OBVIOUS
  <1>8. QED
    BY <1>1, <1>5, <1>6, <1>7, StageVisits

\* The requests at a pod when its secret is changed.
LEMMA DeployVisits ==
    ASSUME VisitsSound, NEW p \in Pods, DeployPod(p)
    PROVE  VisitsSound'
  <1>1. /\ UNCHANGED req
        /\ at' = [r \in Requests |->
                   IF at[r].pc \in {"pod", "asked"} /\ at[r].pod = p /\ at[r].stamp # 0
                   THEN [at[r] EXCEPT !.unsettled = TRUE] ELSE at[r]]
    BY DEF DeployPod, routerVars
  <1>2. ASSUME NEW r \in Requests
        PROVE  at'[r] \in Visit /\ VisitSound(at'[r], req[r]) /\ NotStranded(at'[r], req[r])
    <2> DEFINE v == [at[r] EXCEPT !.unsettled = TRUE]
    <2>1. at[r] \in Visit /\ VisitSound(at[r], req[r]) /\ NotStranded(at[r], req[r])
      BY DEF VisitsSound
    <2>2. /\ v \in Visit /\ v.pc = at[r].pc /\ v.ask = at[r].ask /\ v.pod = at[r].pod
          /\ v.direct = at[r].direct /\ v.outcome = at[r].outcome
      BY <2>1 DEF Visit
    <2>3. at'[r] = at[r] \/ (at'[r] = v /\ at[r].pc \in {"pod", "asked"})
      BY <1>1
    <2> HIDE DEF v
    <2>4. at[r].pc \in {"pod", "asked"} => VisitSound(v, req[r]) /\ NotStranded(v, req[r])
      BY <2>1, <2>2 DEF VisitSound, NotStranded
    <2>5. QED
      BY <2>1, <2>2, <2>3, <2>4
  <1>3. QED
    BY <1>1, <1>2 DEF VisitsSound

LEMMA LeaveVisits ==
    ASSUME RouterSound, VisitsSound, NEW r \in Requests, Leave(r)
    PROVE  VisitsSound'
  <1>1. at' = [at EXCEPT ![r] = Out] /\ req' = [req EXCEPT ![r] = Router!IdleRequest]
    BY DEF Leave, Becomes
  <1>2. \A s \in Requests : s # r => req'[s] = req[s]
    BY <1>1, RequestNow
  <1>3. QED
    BY <1>1, <1>2, OutSound, VisitSteps

-----------------------------------------------------------------------------
(* The secret that requests carry.                                         *)

StampsSound == \A r \in Requests : Stamped(at[r]) /\ Hosted(at[r])

LEMMA StampSteps ==
    ASSUME at \in [Requests -> Visit], StampsSound, NEW r \in Requests, NEW v,
           at' = [at EXCEPT ![r] = v], UNCHANGED secret, Stamped(v), Hosted(v)
    PROVE  StampsSound'
  <1>1. ASSUME NEW s \in Requests
        PROVE  Stamped(at[s])' /\ Hosted(at[s])'
    <2>1. at'[s] = v \/ at'[s] = at[s]
      OBVIOUS
    <2>2. Stamped(at'[s]) /\ Hosted(at'[s])
      BY <2>1 DEF StampsSound
    <2>3. QED
      BY <2>2 DEF Stamped, Hosted
  <1>2. QED
    BY <1>1 DEF StampsSound, Stamped, Hosted

\* The edge and the pod agree on the secret, or the request is marked.
LEMMA ArrivesStamped ==
    ASSUME at \in [Requests -> Visit], RouterSound, SecretsSound, StampsSound,
           NEW r \in Requests, Arrive(r) \/ ArriveDirectly(r)
    PROVE  StampsSound'
  <1>1. CASE Arrive(r)
    <2>1. PICK n \in Stamps(req[r].region) :
            at' = [at EXCEPT ![r] =
                     [Out EXCEPT !.pc = "pod", !.ask = req[r].ask, !.pod = req[r].region,
                                 !.stamp = n, !.unsettled = ~Settled(req[r].region)]]
      BY <1>1 DEF Arrive, Becomes
    <2> DEFINE v == [Out EXCEPT !.pc = "pod", !.ask = req[r].ask, !.pod = req[r].region,
                                !.stamp = n, !.unsettled = ~Settled(req[r].region)]
    <2>2. at' = [at EXCEPT ![r] = v] /\ UNCHANGED secret
      BY <1>1, <2>1 DEF Arrive
    <2>3. /\ v.pc = "pod" /\ v.pod = req[r].region /\ ~v.direct /\ v.stamp = n
          /\ v.unsettled = ~Settled(req[r].region)
      BY DEF Out
    <2>4. n \in {secret.old, secret.new} /\ n # 0
      BY PathAssumption DEF Stamps, SecretsSound
    <2> HIDE DEF v
    <2>5. Stamped(v) /\ Hosted(v)
      BY <2>3, <2>4 DEF Stamped, Hosted, Settled
    <2>6. QED
      BY <2>2, <2>5, StampSteps
  <1>2. CASE ArriveDirectly(r)
    <2>1. PICK ask \in clients.asks, p \in Pods :
            at' = [at EXCEPT ![r] = [Out EXCEPT !.pc = "pod", !.ask = ask, !.pod = p,
                                                !.direct = TRUE]]
      BY <1>2 DEF ArriveDirectly, Becomes
    <2> DEFINE v == [Out EXCEPT !.pc = "pod", !.ask = ask, !.pod = p, !.direct = TRUE]
    <2>2. at' = [at EXCEPT ![r] = v] /\ UNCHANGED secret
      BY <1>2, <2>1 DEF ArriveDirectly
    <2>3. v.pc = "pod" /\ v.direct /\ v.stamp = 0
      BY DEF Out
    <2> HIDE DEF v
    <2>4. Stamped(v) /\ Hosted(v)
      BY <2>3 DEF Stamped, Hosted
    <2>5. QED
      BY <2>2, <2>4, StampSteps
  <1>3. QED
    BY <1>1, <1>2

\* The pod judges what the request carries by the secret it has.
LEMMA AnswersUnderTheHost ==
    ASSUME at \in [Requests -> Visit], StampsSound, NEW r \in Requests, NEW answer,
           at[r].pc \in {"pod", "asked"}, Answered(r, answer), UNCHANGED secret
    PROVE  StampsSound'
  <1> DEFINE host == TrustedHost(at[r])
             outcome == Outcome(at[r], answer)
             v == [at[r] EXCEPT !.pc = "done", !.host = host, !.outcome = outcome]
  <1>1. at[r] \in Visit /\ at' = [at EXCEPT ![r] = v]
    BY DEF Answered, Becomes
  <1>2. /\ v.pc = "done" /\ v.host = host /\ v.outcome = outcome /\ v.direct = at[r].direct
        /\ v.stamp = at[r].stamp /\ v.ask = at[r].ask /\ v.unsettled = at[r].unsettled
    <2> HIDE DEF host, outcome
    <2>1. QED
      BY <1>1 DEF Visit
  <1> HIDE DEF v
  <1>3. Stamped(at[r])
    BY DEF StampsSound
  <1>4. at[r].direct => host = "own"
    BY <1>3 DEF Stamped, TrustedHost
  <1>5. ASSUME ~at[r].direct, ~at[r].unsettled
        PROVE  host = at[r].ask.host /\ outcome # "not_found"
    <2>1. TrustedHost(at[r]) = at[r].ask.host
      BY <1>3, <1>5 DEF Stamped, TrustedHost
    <2>2. ~(at[r].ask.host = "plugin" /\ TrustedHost(at[r]) # "plugin")
      BY <2>1
    <2>3. QED
      BY <2>1, <2>2 DEF Outcome
  <1>6. Stamped(v) /\ Hosted(v)
    <2> HIDE DEF host, outcome
    <2>1. QED
      BY <1>2, <1>3, <1>4, <1>5 DEF Stamped, Hosted
  <1>7. QED
    BY <1>1, <1>6, StampSteps

\* Whoever is asked, refused or lost keeps what they carry and is taken for no
\* other host.
LEMMA MovesOnStamped ==
    ASSUME at \in [Requests -> Visit], StampsSound, NEW r \in Requests, NEW pc, NEW outcome,
           UNCHANGED secret,
           \/ pc = "asked" /\ at[r].pc = "pod" /\ outcome = at[r].outcome
           \/ pc = "done" /\ outcome \in {"bare", "lost"},
           at' = [at EXCEPT ![r] = [at[r] EXCEPT !.pc = pc, !.outcome = outcome]]
    PROVE  StampsSound'
  <1> DEFINE v == [at[r] EXCEPT !.pc = pc, !.outcome = outcome]
  <1>1. /\ v.pc = pc /\ v.outcome = outcome /\ v.direct = at[r].direct /\ v.pod = at[r].pod
        /\ v.stamp = at[r].stamp /\ v.unsettled = at[r].unsettled
    BY DEF Visit
  <1>2. at' = [at EXCEPT ![r] = v]
    OBVIOUS
  <1> HIDE DEF v
  <1>3. Stamped(v) /\ Hosted(v)
    BY <1>1 DEF StampsSound, Stamped, Hosted
  <1>4. QED
    BY <1>2, <1>3, StampSteps

LEMMA LeavesStamped ==
    ASSUME at \in [Requests -> Visit], StampsSound, NEW r \in Requests, Leave(r)
    PROVE  StampsSound'
  <1>1. Stamped(Out) /\ Hosted(Out)
    BY DEF Stamped, Hosted, Out
  <1>2. QED
    BY <1>1, StampSteps DEF Leave, Becomes

\* A deploy of its pod marks the request that came for the other secret.
LEMMA DeployStamped ==
    ASSUME at \in [Requests -> Visit], SecretsSound, StampsSound, NEW p \in Pods, DeployPod(p)
    PROVE  StampsSound'
  <1>1. PICK n \in 1..MaxSecrets : secret' = [secret EXCEPT !.pods[p] = n]
    BY DEF DeployPod
  <1>2. at' = [r \in Requests |->
                 IF at[r].pc \in {"pod", "asked"} /\ at[r].pod = p /\ at[r].stamp # 0
                 THEN [at[r] EXCEPT !.unsettled = TRUE] ELSE at[r]]
    BY DEF DeployPod
  <1>3. \A o \in Pods : o # p => secret'.pods[o] = secret.pods[o]
    BY <1>1 DEF SecretsSound
  <1>4. ASSUME NEW r \in Requests
        PROVE  Stamped(at[r])' /\ Hosted(at[r])'
    <2> DEFINE v == [at[r] EXCEPT !.unsettled = TRUE]
    <2>1. at[r] \in Visit /\ at[r].pod \in Pods /\ Stamped(at[r]) /\ Hosted(at[r])
      BY VisitFacts DEF StampsSound
    <2>2. CASE at[r].pc \in {"pod", "asked"} /\ at[r].pod = p /\ at[r].stamp # 0
      <3>1. at'[r] = v
        BY <1>2, <2>2
      <3>2. v.pc = at[r].pc /\ v.direct = at[r].direct /\ v.stamp = at[r].stamp /\ v.unsettled
        BY <2>1 DEF Visit
      <3> HIDE DEF v
      <3>3. QED
        BY <2>1, <2>2, <3>1, <3>2 DEF Stamped, Hosted
    <2>3. CASE ~(at[r].pc \in {"pod", "asked"} /\ at[r].pod = p /\ at[r].stamp # 0)
      <3>1. at'[r] = at[r]
        BY <1>2, <2>3
      <3>2. QED
        BY <1>3, <2>1, <2>3, <3>1 DEF Stamped, Hosted
    <2>4. QED
      BY <2>2, <2>3
  <1>5. QED
    BY <1>4 DEF StampsSound, Stamped, Hosted

-----------------------------------------------------------------------------
(* Invocations and the requests they are for.                              *)

\* Invocations end and requests move on, but not one that waits for the other.
LEMMA ServingStays ==
    ASSUME ServingSound, UNCHANGED serves,
           \A c \in Containers : inv'[c].pc # "idle" =>
              /\ inv[c].pc # "idle" /\ inv'[c].token = inv[c].token
              /\ at'[serves[c]] = at[serves[c]]
    PROVE  ServingSound'
  BY DEF ServingSound

LEMMA ServingAsked ==
    ASSUME TypeOK, VisitsSound, ServingSound, serves \in [Containers -> Requests],
           NEW r \in Requests, NEW c \in Containers, AskAuthorizer(r, c)
    PROVE  ServingSound'
  <1> DEFINE v == [at[r] EXCEPT !.pc = "asked"]
  <1>1. /\ at[r].pc = "pod" /\ at[r].pod = PodOf[c] /\ inv[c].pc = "idle"
        /\ at' = [at EXCEPT ![r] = v] /\ serves' = [serves EXCEPT ![c] = r]
    BY DEF AskAuthorizer, Becomes, Invoke
  <1>2. PICK i : inv' = [inv EXCEPT ![c] = i] /\ i.token = at[r].ask.token
    <2> DEFINE t == at[r].ask.token
               route == RouteOf(at[r].ask)
               i == [Idle EXCEPT !.token = t, !.route = route, !.entered = clock]
               probe == [i EXCEPT !.pc = "reply", !.answer = Refused("probe")]
    <2>1. Invoke(c, t, route)
      BY DEF AskAuthorizer
    <2>2. (\A pc : [i EXCEPT !.pc = pc].token = t) /\ probe.token = t
      BY DEF Idle
    <2> HIDE DEF t, route
    <2>3. Goes(c, probe) \/ \E pc : Goes(c, [i EXCEPT !.pc = pc])
      BY <2>1 DEF Invoke
    <2> HIDE DEF i, probe
    <2>4. QED
      BY <2>2, <2>3 DEF Goes, t
  <1>3. at \in [Requests -> Visit] /\ inv \in [Containers -> Invocation]
    BY DEF VisitsSound, TypeOK
  <1>4. v.pc = "asked" /\ v.pod = at[r].pod /\ v.ask = at[r].ask
    BY <1>3 DEF Visit
  <1>5. at'[r] = v /\ serves'[c] = r /\ inv'[c].token = at[r].ask.token
    BY <1>1, <1>2, <1>3
  <1> HIDE DEF v
  <1>6. ASSUME NEW d \in Containers, d # c, inv'[d].pc # "idle"
        PROVE  /\ inv'[d] = inv[d] /\ inv[d].pc # "idle" /\ serves'[d] = serves[d]
               /\ serves[d] # r /\ at'[serves[d]] = at[serves[d]]
    <2>1. inv'[d] = inv[d] /\ serves'[d] = serves[d]
      BY <1>1, <1>2, <1>3, <1>6
    <2>2. at[serves[d]].pc = "asked" /\ serves[d] \in Requests
      BY <1>6, <2>1 DEF ServingSound
    <2>3. serves[d] # r
      BY <1>1, <2>2
    <2>4. QED
      BY <1>1, <1>3, <1>6, <2>1, <2>2, <2>3
  <1>7. ASSUME NEW d \in Containers, inv'[d].pc # "idle"
        PROVE  /\ at'[serves'[d]].pc = "asked" /\ at'[serves'[d]].pod = PodOf[d]
               /\ inv'[d].token = at'[serves'[d]].ask.token
    <2>1. CASE d = c
      BY <1>1, <1>4, <1>5, <2>1
    <2>2. CASE d # c
      <3>1. /\ at[serves[d]].pc = "asked" /\ at[serves[d]].pod = PodOf[d]
            /\ inv[d].token = at[serves[d]].ask.token
        BY <1>6, <1>7, <2>2 DEF ServingSound
      <3>2. QED
        BY <1>6, <1>7, <2>2, <3>1
    <2>3. QED
      BY <2>1, <2>2
  <1>8. ASSUME NEW d \in Containers, NEW e \in Containers,
               inv'[d].pc # "idle", inv'[e].pc # "idle", serves'[d] = serves'[e]
        PROVE  d = e
    <2>1. CASE d # c /\ e # c
      BY <1>6, <1>8, <2>1 DEF ServingSound
    <2>2. CASE d = c \/ e = c
      BY <1>5, <1>6, <1>8, <2>2
    <2>3. QED
      BY <2>1, <2>2
  <1>9. QED
    BY <1>7, <1>8 DEF ServingSound

\* The end of an invocation concerns the request it is for.
LEMMA ServingEnds ==
    ASSUME TypeOK, VisitsSound, ServingSound, serves \in [Containers -> Requests],
           NEW c \in Containers, UNCHANGED serves,
           inv' = [inv EXCEPT ![c] = Idle],
           \A s \in Requests : s # serves[c] => at'[s] = at[s],
           inv[c].pc = "idle" => UNCHANGED at
    PROVE  ServingSound'
  <1>1. inv \in [Containers -> Invocation]
    BY DEF TypeOK
  <1>2. inv'[c].pc = "idle"
    BY <1>1 DEF Idle
  <1>3. ASSUME NEW d \in Containers, inv'[d].pc # "idle"
        PROVE  /\ inv[d].pc # "idle" /\ inv'[d].token = inv[d].token
               /\ at'[serves[d]] = at[serves[d]]
    <2>1. d # c /\ inv'[d] = inv[d] /\ serves[d] \in Requests
      BY <1>1, <1>2, <1>3
    <2>2. inv[c].pc # "idle" => serves[d] # serves[c]
      BY <1>3, <2>1 DEF ServingSound
    <2>3. QED
      BY <1>3, <2>1, <2>2
  <1>4. QED
    BY <1>3, ServingStays

LEMMA AnswersClaimedKept ==
    ASSUME McpInvariant, AnswersClaimed, [Next]_vars
    PROVE  AnswersClaimed'
  <1> DEFINE HereClaimed(i) == i.answer.orgs \subseteq Claimant(i.token)
  <1>1. /\ inv \in [Containers -> Invocation]
        /\ cache \in [Pods -> [Tokens -> [answer: Answer, at: Int]]]
    BY Parts DEF TypeOK
  <1>2. /\ \A c \in Containers : HereClaimed(inv[c])
        /\ \A p \in Pods, t \in Tokens : cache[p][t].answer.orgs \subseteq Claimant(t)
    BY DEF AnswersClaimed
  <1>3. HereClaimed(Idle) /\ Idle.answer.orgs = {} /\ NoAnswer.answer.orgs = {}
        /\ \A w : Refused(w).orgs = {}
    BY DEF Idle, Refused, NoAnswer
  <1>4. ASSUME NEW c \in Containers, NEW i, inv' = [inv EXCEPT ![c] = i], HereClaimed(i)
        PROVE  \A d \in Containers : HereClaimed(inv'[d])
    BY <1>1, <1>2, <1>4
  <1>5. UNCHANGED cache => \A p \in Pods, t \in Tokens : cache'[p][t].answer.orgs \subseteq Claimant(t)
    BY <1>2
  <1>6. ASSUME NEW c \in Containers, NEW t \in Tokens \cup {NoToken},
               NEW route \in {"mcp", "plugin"}, Invoke(c, t, route)
        PROVE  AnswersClaimed'
    <2> DEFINE i == [Idle EXCEPT !.token = t, !.route = route, !.entered = clock]
    <2>1. PICK x : inv' = [inv EXCEPT ![c] = x] /\ x.answer.orgs = {}
      <3>1. /\ [i EXCEPT !.pc = "reply", !.answer = Refused("probe")].answer.orgs = {}
            /\ \A pc : [i EXCEPT !.pc = pc].answer.orgs = {}
        BY DEF Idle, Refused
      <3> HIDE DEF i
      <3>2. \/ Goes(c, [i EXCEPT !.pc = "reply", !.answer = Refused("probe")])
            \/ \E pc : Goes(c, [i EXCEPT !.pc = pc])
        BY <1>6 DEF Invoke, i
      <3>3. QED
        BY <3>1, <3>2 DEF Goes
    <2>2. UNCHANGED cache
      BY <1>6 DEF Invoke
    <2>3. QED
      BY <1>4, <1>5, <2>1, <2>2 DEF AnswersClaimed
  <1>7. ASSUME NEW c \in Containers, FetchKeys(c)
        PROVE  AnswersClaimed'
    <2>1. inv[c] \in Invocation
      BY <1>1
    <2>2. PICK x : inv' = [inv EXCEPT ![c] = x] /\ HereClaimed(x)
      <3> DEFINE goes == [inv[c] EXCEPT !.pc = "verify"]
                 fails == [inv[c] EXCEPT !.pc = "reply", !.answer = Refused("fresh")]
      <3>1. goes.answer = inv[c].answer /\ goes.token = inv[c].token
        BY <2>1 DEF Invocation
      <3>2. fails.answer = Refused("fresh") /\ fails.token = inv[c].token
        BY <2>1 DEF Invocation
      <3>3. inv' = [inv EXCEPT ![c] = goes] \/ inv' = [inv EXCEPT ![c] = fails]
        BY <1>7 DEF FetchKeys, Goes
      <3> HIDE DEF goes, fails
      <3>4. HereClaimed(goes) /\ HereClaimed(fails)
        BY <1>2, <1>3, <3>1, <3>2
      <3>5. QED
        BY <3>3, <3>4
    <2>3. UNCHANGED cache
      BY <1>7 DEF FetchKeys
    <2>4. QED
      BY <1>4, <1>5, <2>2, <2>3 DEF AnswersClaimed
  <1>8. ASSUME NEW c \in Containers, Verify(c)
        PROVE  AnswersClaimed'
    <2> DEFINE t == inv[c].token
               verdict == Verdict(jwks[c].keys, t)
               x == [inv[c] EXCEPT !.pc = "reply", !.answer = verdict]
    <2>1. inv[c] \in Invocation /\ t \in Tokens /\ inv' = [inv EXCEPT ![c] = x] /\ UNCHANGED cache
      BY <1>1, <1>8, Parts DEF Verify, Goes, At, TypeOK
    <2>2. verdict.orgs \subseteq Claimant(t)
      <3>1. \/ verdict = [orgs |-> Identity(t), refusal |-> "no"]
            \/ \E w : verdict = Refused(w)
        BY DEF Verdict
      <3>2. Identity(t) = Claimant(t)
        BY <2>1, PathAssumption DEF Identity, Claimant
      <3>3. QED
        BY <1>3, <3>1, <3>2
    <2>3. x.answer = verdict /\ x.token = t
      BY <2>1 DEF Invocation
    <2> HIDE DEF x
    <2>4. HereClaimed(x)
      BY <2>2, <2>3
    <2>5. QED
      BY <1>4, <1>5, <2>1, <2>4 DEF AnswersClaimed
  <1>9. ASSUME NEW c \in Containers, Reply(c)
        PROVE  AnswersClaimed'
    <2>1. inv' = [inv EXCEPT ![c] = Idle]
      BY <1>9 DEF Reply, Goes
    <2>2. ASSUME NEW p \in Pods, NEW t \in Tokens
          PROVE  cache'[p][t].answer.orgs \subseteq Claimant(t)
      <3>1. \/ cache'[p][t] = cache[p][t]
            \/ cache'[p][t].answer = inv[c].answer /\ t = inv[c].token
        BY <1>1, <1>9 DEF Reply
      <3>2. QED
        BY <1>2, <3>1
    <2>3. QED
      BY <1>3, <1>4, <2>1, <2>2 DEF AnswersClaimed
  <1>10. ASSUME NEW c \in Containers, Ends(c)
         PROVE  AnswersClaimed'
    BY <1>3, <1>4, <1>5, <1>10 DEF Ends, Goes, AnswersClaimed
  <1>11. CASE Rotate \/ UNCHANGED vars
    BY <1>11 DEF Rotate, vars, AnswersClaimed
  <1>12. CASE Tick
    <2>1. ASSUME NEW p \in Pods, NEW t \in Tokens
          PROVE  cache'[p][t].answer.orgs \subseteq Claimant(t)
      BY <1>2, <1>3, <1>12 DEF Tick
    <2>2. UNCHANGED inv
      BY <1>12 DEF Tick
    <2>3. QED
      BY <1>2, <2>1, <2>2 DEF AnswersClaimed
  <1>13. QED
    BY <1>6, <1>7, <1>8, <1>9, <1>10, <1>11, <1>12 DEF Next

-----------------------------------------------------------------------------
(* The invariant.                                                          *)

\* PathInvariant, by the actors.
PathSound ==
    /\ McpInvariant /\ RouterSound /\ VisitsSound /\ ServingSound /\ AnswersClaimed
    /\ SecretsSound /\ StampsSound
    /\ serves \in [Containers -> Requests] /\ clients \in Clienteles

LEMMA PathByActors == PathInvariant <=> PathSound
  <1>1. NoOrgStranded <=> \A r \in Requests : NotStranded(at[r], req[r])
    BY DEF NoOrgStranded, NotStranded
  <1>2. McpInvariant => TypeOK
    BY DEF McpInvariant
  <1>3. QED
    BY <1>1, <1>2 DEF PathInvariant, PathSound, PathTypeOK, RouterSound, VisitsSound, SecretsSound,
                      StampsSound

LEMMA SecretsKept ==
    ASSUME SecretsSound, [PathNext]_pathVars
    PROVE  SecretsSound'
  <1>1. UNCHANGED secret \/ StampAnew \/ Propagated \/ \E p \in Pods : DeployPod(p)
    BY DEF PathNext, PathStep, pathVars, Enter, RouterSteps, Arrive, ArriveDirectly, Unguarded,
           RefusedBare, FromCache, Leave, AskAuthorizer, Authorizes, Authorized, Loses, MovesOrg,
           IssuerAndTime
  <1>2. CASE UNCHANGED secret
    BY <1>2 DEF SecretsSound
  <1>3. CASE StampAnew \/ Propagated
    BY <1>3 DEF SecretsSound, StampAnew, Propagated
  <1>4. ASSUME NEW p \in Pods, DeployPod(p) PROVE SecretsSound'
    <2>1. PICK n \in 1..MaxSecrets : secret' = [secret EXCEPT !.pods[p] = n]
      BY <1>4 DEF DeployPod
    <2>2. n \in 0..MaxSecrets
      BY PathAssumption
    <2>3. QED
      BY <2>1, <2>2 DEF SecretsSound
  <1>5. QED
    BY <1>1, <1>2, <1>3, <1>4

LEMMA VisitsKept ==
    ASSUME PathSound, [PathNext]_pathVars
    PROVE  VisitsSound'
  <1>1. /\ McpInvariant /\ RouterSound /\ VisitsSound /\ ServingSound /\ AnswersClaimed
        /\ serves \in [Containers -> Requests] /\ clients \in Clienteles /\ SecretsSound
        /\ at \in [Requests -> Visit]
    BY DEF PathSound, VisitsSound
  <1>2. ASSUME NEW r \in Requests, Unguarded(r) PROVE VisitsSound'
    <2>1. /\ at[r].pc = "pod" /\ Router!Named(at[r].ask) # NoOrg /\ UNCHANGED routerVars
          /\ Answered(r, [orgs |-> {Router!Named(at[r].ask)}, refusal |-> "no"])
      BY <1>2 DEF Unguarded
    <2>2. [orgs |-> {Router!Named(at[r].ask)}, refusal |-> "no"].orgs = {Router!Named(at[r].ask)}
      OBVIOUS
    <2>3. QED
      BY <1>1, <2>1, <2>2, AnsweredVisits
  <1>3. ASSUME NEW r \in Requests, RefusedBare(r) PROVE VisitsSound'
    <2>1. /\ at[r].pc = "pod" /\ UNCHANGED req
          /\ at' = [at EXCEPT ![r] = [at[r] EXCEPT !.pc = "done", !.outcome = "bare"]]
      BY <1>3 DEF RefusedBare, Becomes, routerVars
    <2>2. QED
      BY <1>1, <2>1, RefusedAndLostVisits
  <1>4. ASSUME NEW r \in Requests, FromCache(r) PROVE VisitsSound'
    <2> DEFINE answer == cache[at[r].pod][at[r].ask.token].answer
    <2>1. /\ at[r].pc = "pod" /\ Router!Named(at[r].ask) = NoOrg /\ UNCHANGED routerVars
          /\ at[r].ask.token # NoToken /\ Answered(r, answer)
      BY <1>4 DEF FromCache
    <2>2. at[r].pod \in Pods /\ at[r].ask \in Asks
      BY <1>1, <2>1, VisitFacts DEF VisitsSound, VisitSound
    <2>3. at[r].ask.token \in Tokens
      BY <2>1, <2>2, AskFacts
    <2>4. answer.orgs \subseteq Claimant(at[r].ask.token)
      BY <1>1, <2>2, <2>3 DEF AnswersClaimed
    <2> HIDE DEF answer
    <2>5. QED
      BY <1>1, <2>1, <2>4, AnsweredVisits
  <1>5. ASSUME NEW c \in Containers, Authorized(c) PROVE VisitsSound'
    <2> DEFINE r == serves[c]
    <2>1. inv[c].pc = "reply" /\ Answered(r, inv[c].answer) /\ UNCHANGED routerVars
      BY <1>5 DEF Authorized, Reply, At
    <2>2. r \in Requests /\ at[r].pc = "asked" /\ inv[c].token = at[r].ask.token
      BY <1>1, <2>1 DEF ServingSound
    <2>3. Router!Named(at[r].ask) = NoOrg
      BY <1>1, <2>2 DEF VisitsSound, VisitSound
    <2>4. inv[c].answer.orgs \subseteq Claimant(at[r].ask.token)
      BY <1>1, <2>2 DEF AnswersClaimed
    <2> HIDE DEF r
    <2>5. QED
      BY <1>1, <2>1, <2>2, <2>3, <2>4, AnsweredVisits
  <1>6. ASSUME NEW c \in Containers, Loses(c) PROVE VisitsSound'
    <2> DEFINE r == serves[c]
    <2>1. UNCHANGED req
      BY <1>6 DEF Loses, routerVars
    <2>2. CASE inv[c].pc = "idle"
      BY <1>1, <1>6, <2>1, <2>2, VisitsStay DEF Loses
    <2>3. CASE inv[c].pc # "idle"
      <3>1. r \in Requests /\ at[r].pc = "asked"
        BY <1>1, <2>3 DEF ServingSound
      <3>2. at' = [at EXCEPT ![r] = [at[r] EXCEPT !.pc = "done", !.outcome = "lost"]]
        <4>1. at' = [at EXCEPT ![r].pc = "done", ![r].outcome = "lost"]
          BY <1>6, <2>3 DEF Loses
        <4> HIDE DEF r
        <4>2. QED
          BY <1>1, <3>1, <4>1
      <3> HIDE DEF r
      <3>3. QED
        BY <1>1, <2>1, <3>1, <3>2, RefusedAndLostVisits
    <2>4. QED
      BY <2>2, <2>3
  <1>7. ASSUME NEW c \in Containers, Authorizes(c) PROVE VisitsSound'
    BY <1>1, <1>7, VisitsStay DEF Authorizes, routerVars
  <1>8. CASE StampAnew \/ Propagated \/ IssuerAndTime \/ UNCHANGED pathVars
    BY <1>1, <1>8, VisitsStay DEF StampAnew, Propagated, IssuerAndTime, pathVars, routerVars
  <1>9. ASSUME NEW r \in Requests,
               \/ Enter(r) \/ RouterSteps(r) \/ Arrive(r) \/ ArriveDirectly(r) \/ Leave(r)
               \/ \E c \in Containers : AskAuthorizer(r, c)
        PROVE  VisitsSound'
    BY <1>1, <1>9, WayVisits, ArrivesVisits, LeaveVisits, AsksVisits
  <1>10. CASE MovesOrg
    BY <1>1, <1>10, MovesVisits
  <1>11. ASSUME NEW p \in Pods, DeployPod(p) PROVE VisitsSound'
    BY <1>1, <1>11, DeployVisits
  <1>12. QED
    BY <1>2, <1>3, <1>4, <1>5, <1>6, <1>7, <1>8, <1>9, <1>10, <1>11 DEF PathNext, PathStep

LEMMA StampsKept ==
    ASSUME PathSound, [PathNext]_pathVars
    PROVE  StampsSound'
  <1>1. /\ RouterSound /\ VisitsSound /\ ServingSound /\ SecretsSound /\ StampsSound
        /\ at \in [Requests -> Visit] /\ serves \in [Containers -> Requests]
    BY DEF PathSound, VisitsSound
  <1>2. ASSUME UNCHANGED at, secret'.pods = secret.pods PROVE StampsSound'
    BY <1>1, <1>2 DEF StampsSound, Stamped, Hosted
  <1>3. ASSUME NEW r \in Requests, Unguarded(r) \/ FromCache(r) PROVE StampsSound'
    BY <1>1, <1>3, AnswersUnderTheHost DEF Unguarded, FromCache
  <1>4. ASSUME NEW r \in Requests, RefusedBare(r) PROVE StampsSound'
    BY <1>1, <1>4, MovesOnStamped DEF RefusedBare, Becomes
  <1>5. ASSUME NEW r \in Requests, NEW c \in Containers, AskAuthorizer(r, c)
        PROVE  StampsSound'
    <2>1. at[r] = [at[r] EXCEPT !.outcome = at[r].outcome]
      BY <1>1 DEF Visit
    <2>2. [at[r] EXCEPT !.pc = "asked"] = [at[r] EXCEPT !.pc = "asked", !.outcome = at[r].outcome]
      BY <1>1 DEF Visit
    <2>3. /\ at[r].pc = "pod" /\ UNCHANGED secret
          /\ at' = [at EXCEPT ![r] = [at[r] EXCEPT !.pc = "asked", !.outcome = at[r].outcome]]
      BY <1>5, <2>2 DEF AskAuthorizer, Becomes
    <2>4. QED
      BY <1>1, <2>3, MovesOnStamped
  <1>6. ASSUME NEW r \in Requests, Arrive(r) \/ ArriveDirectly(r) \/ Leave(r)
        PROVE  StampsSound'
    BY <1>1, <1>6, ArrivesStamped, LeavesStamped
  <1>7. ASSUME NEW c \in Containers, Authorized(c) PROVE StampsSound'
    <2>1. at[serves[c]].pc = "asked" /\ serves[c] \in Requests
      BY <1>1, <1>7 DEF Authorized, Reply, At, ServingSound
    <2>2. QED
      BY <1>1, <1>7, <2>1, AnswersUnderTheHost DEF Authorized
  <1>8. ASSUME NEW c \in Containers, Loses(c) PROVE StampsSound'
    <2> DEFINE r == serves[c]
    <2>1. UNCHANGED secret
      BY <1>8 DEF Loses
    <2>2. CASE inv[c].pc = "idle"
      BY <1>2, <1>8, <2>1, <2>2 DEF Loses
    <2>3. CASE inv[c].pc # "idle"
      <3>1. r \in Requests
        BY <1>1
      <3>2. at' = [at EXCEPT ![r].pc = "done", ![r].outcome = "lost"]
        BY <1>8, <2>3 DEF Loses
      <3> HIDE DEF r
      <3>3. at' = [at EXCEPT ![r] = [at[r] EXCEPT !.pc = "done", !.outcome = "lost"]]
        BY <1>1, <3>1, <3>2
      <3>4. QED
        BY <1>1, <2>1, <3>1, <3>3, MovesOnStamped
    <2>4. QED
      BY <2>2, <2>3
  <1>9. ASSUME NEW p \in Pods, DeployPod(p) PROVE StampsSound'
    BY <1>1, <1>9, DeployStamped
  <1>10. ASSUME NEW r \in Requests, Enter(r) \/ RouterSteps(r) PROVE StampsSound'
    BY <1>2, <1>10 DEF Enter, RouterSteps
  <1>11. ASSUME NEW c \in Containers, Authorizes(c) PROVE StampsSound'
    BY <1>2, <1>11 DEF Authorizes
  <1>12. CASE MovesOrg \/ IssuerAndTime \/ UNCHANGED pathVars
    BY <1>2, <1>12 DEF MovesOrg, IssuerAndTime, pathVars
  <1>13. CASE StampAnew \/ Propagated
    <2>1. secret'.pods = secret.pods
      BY <1>1, <1>13 DEF StampAnew, Propagated, SecretsSound
    <2>2. QED
      BY <1>2, <1>13, <2>1 DEF StampAnew, Propagated
  <1>14. QED
    BY <1>3, <1>4, <1>5, <1>6, <1>7, <1>8, <1>9, <1>10, <1>11, <1>12, <1>13 DEF PathNext, PathStep

LEMMA ServingKept ==
    ASSUME PathSound, [PathNext]_pathVars
    PROVE  ServingSound' /\ serves' \in [Containers -> Requests]
  <1>1. /\ TypeOK /\ VisitsSound /\ ServingSound /\ serves \in [Containers -> Requests]
        /\ at \in [Requests -> Visit] /\ inv \in [Containers -> Invocation]
    BY Parts DEF PathSound, VisitsSound, TypeOK
  \* A step of requests that wait for no invocation, and of no invocation.
  <1>2. ASSUME UNCHANGED <<inv, serves>>,
               \A s \in Requests : at[s].pc = "asked" => at'[s] = at[s]
        PROVE  ServingSound' /\ serves' \in [Containers -> Requests]
    BY <1>1, <1>2 DEF ServingSound
  <1>3. ASSUME NEW r \in Requests, UNCHANGED <<inv, serves>>, at[r].pc # "asked",
               \E v : at' = [at EXCEPT ![r] = v]
        PROVE  ServingSound' /\ serves' \in [Containers -> Requests]
    BY <1>1, <1>2, <1>3
  <1>4. ASSUME NEW r \in Requests, Enter(r) \/ RouterSteps(r)
        PROVE  ServingSound' /\ serves' \in [Containers -> Requests]
    BY <1>2, <1>4 DEF Enter, RouterSteps, vars
  <1>5. ASSUME NEW r \in Requests, Arrive(r) \/ ArriveDirectly(r)
        PROVE  ServingSound' /\ serves' \in [Containers -> Requests]
    <2>1. /\ at[r].pc = "out" /\ UNCHANGED <<inv, serves>>
          /\ \E v : at' = [at EXCEPT ![r] = v]
      BY <1>5 DEF Arrive, ArriveDirectly, Becomes, vars
    <2>2. QED
      BY <1>3, <2>1
  <1>6. ASSUME NEW r \in Requests, Unguarded(r) \/ RefusedBare(r) \/ FromCache(r) \/ Leave(r)
        PROVE  ServingSound' /\ serves' \in [Containers -> Requests]
    <2>1. /\ at[r].pc \in {"pod", "done"} /\ UNCHANGED <<inv, serves>>
          /\ \E v : at' = [at EXCEPT ![r] = v]
      BY <1>6 DEF Unguarded, RefusedBare, FromCache, Leave, Answered, Becomes, vars
    <2>2. QED
      BY <1>3, <2>1
  <1>7. ASSUME NEW r \in Requests, NEW c \in Containers, AskAuthorizer(r, c)
        PROVE  ServingSound' /\ serves' \in [Containers -> Requests]
    BY <1>1, <1>7, ServingAsked DEF AskAuthorizer
  <1>8. ASSUME NEW c \in Containers, Authorizes(c)
        PROVE  ServingSound' /\ serves' \in [Containers -> Requests]
    <2>1. inv[c] \in Invocation
      BY <1>1
    <2>2. PICK i : /\ inv' = [inv EXCEPT ![c] = i] /\ i.token = inv[c].token
                   /\ inv[c].pc # "idle"
      <3>1. inv[c].pc # "idle"
        BY <1>8 DEF Authorizes, FetchKeys, Verify, At
      <3>2. \E answer : \/ Goes(c, [inv[c] EXCEPT !.pc = "verify"])
                        \/ Goes(c, [inv[c] EXCEPT !.pc = "reply", !.answer = answer])
        BY <1>8 DEF Authorizes, FetchKeys, Verify
      <3>3. /\ [inv[c] EXCEPT !.pc = "verify"].token = inv[c].token
            /\ \A answer : [inv[c] EXCEPT !.pc = "reply", !.answer = answer].token = inv[c].token
        BY <2>1 DEF Invocation
      <3>4. QED
        BY <3>1, <3>2, <3>3 DEF Goes
    <2>3. UNCHANGED <<serves, at>>
      BY <1>8 DEF Authorizes
    <2>4. QED
      BY <1>1, <2>2, <2>3, ServingStays
  <1>9. ASSUME NEW c \in Containers, Authorized(c)
        PROVE  ServingSound' /\ serves' \in [Containers -> Requests]
    <2>1. inv' = [inv EXCEPT ![c] = Idle] /\ UNCHANGED serves /\ inv[c].pc = "reply"
      BY <1>9 DEF Authorized, Reply, Goes, At
    <2>2. \A s \in Requests : s # serves[c] => at'[s] = at[s]
      BY <1>1, <1>9 DEF Authorized, Answered, Becomes
    <2>3. QED
      BY <1>1, <2>1, <2>2, ServingEnds
  <1>10. ASSUME NEW c \in Containers, Loses(c)
         PROVE  ServingSound' /\ serves' \in [Containers -> Requests]
    <2>1. inv' = [inv EXCEPT ![c] = Idle] /\ UNCHANGED serves
      BY <1>10 DEF Loses, Ends, Goes
    <2>2. /\ inv[c].pc = "idle" => UNCHANGED at
          /\ inv[c].pc # "idle" =>
               at' = [at EXCEPT ![serves[c]].pc = "done", ![serves[c]].outcome = "lost"]
      BY <1>10 DEF Loses
    <2>3. \A s \in Requests : s # serves[c] => at'[s] = at[s]
      BY <1>1, <2>2
    <2>4. QED
      BY <1>1, <2>1, <2>2, <2>3, ServingEnds
  <1>11. CASE MovesOrg \/ StampAnew \/ Propagated \/ IssuerAndTime \/ UNCHANGED pathVars
    BY <1>2, <1>11 DEF MovesOrg, StampAnew, Propagated, IssuerAndTime, Rotate, Tick, pathVars, vars
  <1>12. ASSUME NEW p \in Pods, DeployPod(p)
         PROVE  ServingSound' /\ serves' \in [Containers -> Requests]
    <2>1. ASSUME NEW r \in Requests
          PROVE  at'[r].pc = at[r].pc /\ at'[r].pod = at[r].pod /\ at'[r].ask = at[r].ask
      <3>1. at[r] \in Visit
        BY <1>1
      <3>2. at'[r] = at[r] \/ at'[r] = [at[r] EXCEPT !.unsettled = TRUE]
        BY <1>12 DEF DeployPod
      <3>3. QED
        BY <3>1, <3>2 DEF Visit
    <2>2. UNCHANGED <<inv, serves>>
      BY <1>12 DEF DeployPod, vars
    <2>3. QED
      BY <1>1, <2>1, <2>2 DEF ServingSound
  <1>13. QED
    BY <1>4, <1>5, <1>6, <1>7, <1>8, <1>9, <1>10, <1>11, <1>12 DEF PathNext, PathStep

LEMMA PathBegins == PathInit => PathSound
  <1> SUFFICES ASSUME PathInit PROVE PathSound
    OBVIOUS
  <1>1. Init /\ Router!RouterInit
    BY DEF PathInit
  <1>2. McpInvariant /\ RouterSound
    BY <1>1, McpInit, RouterBegins
  <1>3. VisitsSound
    BY OutSound DEF PathInit, VisitsSound
  <1>4. \A c \in Containers : inv[c] = Idle
    BY <1>1 DEF Init
  <1>5. ServingSound
    BY <1>4 DEF ServingSound, Idle
  <1>6. AnswersClaimed
    BY <1>1, <1>4 DEF Init, AnswersClaimed, Idle, NoAnswer, Refused
  <1>7. SecretsSound
    <2>1. 1 \in 1..MaxSecrets /\ {0, 1} \subseteq 0..MaxSecrets
      BY PathAssumption
    <2>2. QED
      BY <2>1 DEF PathInit, SecretsSound
  <1>8. StampsSound
    <2>1. Stamped(Out) /\ Hosted(Out)
      BY DEF Stamped, Hosted, Out
    <2>2. QED
      BY <2>1 DEF PathInit, StampsSound
  <1>9. QED
    BY <1>2, <1>3, <1>5, <1>6, <1>7, <1>8 DEF PathInit, PathSound

LEMMA PathStepKeeps == PathSound /\ [PathNext]_pathVars => PathSound'
  <1> SUFFICES ASSUME PathSound, [PathNext]_pathVars PROVE PathSound'
    OBVIOUS
  <1>1. [Next]_vars
    <2>1. \A r \in Requests : VisitSound(at[r], req[r])
      BY DEF PathSound, VisitsSound
    <2>2. QED
      BY <2>1, PathStepsAuthorizer
  <1>2. McpInvariant' /\ AnswersClaimed'
    BY <1>1, McpStep, AnswersClaimedKept DEF PathSound
  <1>3. RouterSound'
    BY RouterKept DEF PathSound
  <1>4. VisitsSound' /\ ServingSound' /\ serves' \in [Containers -> Requests]
    BY VisitsKept, ServingKept
  <1>5. SecretsSound' /\ StampsSound'
    BY SecretsKept, StampsKept DEF PathSound
  <1>6. clients' \in Clienteles
    BY DEF PathSound, PathNext, pathVars
  <1>7. QED
    BY <1>2, <1>3, <1>4, <1>5, <1>6 DEF PathSound

LEMMA PathSoundForEver == PathSpec => []PathSound
  <1>1. QED
    BY PathBegins, PathStepKeeps, PTL DEF PathSpec

\* Requests, invocations and answers fit together wherever each of them is: a
\* request at its pod is the one the router brought, an invocation is for one
\* that waits, and no answer gives what its token does not claim.
THEOREM PathInvariantHolds == PathSpec => []PathInvariant
  <1>1. QED
    BY PathByActors, PathSoundForEver, PTL

\* Every request, on its way and at its pod, keeps its type: it goes to a
\* region that has a pod and to no other.
THEOREM PathTypes == PathSpec => []PathTypeOK
  <1>1. PathInvariant => PathTypeOK
    BY DEF PathInvariant
  <1>2. QED
    BY <1>1, PathInvariantHolds, PTL

\* A request finds its organization: the router goes where it belongs, however
\* it read that, and no bearer of few enough organizations is stranded.
THEOREM OrgsAlwaysReached == PathSpec => []OrgsReached
  <1>1. PathInvariant => RoutedWhereItBelongs
    BY DEF PathInvariant, RoutedWhereItBelongs, Router!RoutedWhereItBelongs,
           Router!RequestSound, Router!Steady
  <1>2. PathInvariant => OrgsReached
    BY <1>1 DEF PathInvariant, OrgsReached
  <1>3. QED
    BY <1>2, PathInvariantHolds, PTL

\* The authorizer keeps its own specification behind the router and beside the
\* connector: what is proved of it alone holds of it here.
THEOREM PathImplementsAuthorizer == PathSpec => Spec
  <1>1. PathInit => Init
    BY DEF PathInit
  <1>2. PathSound /\ [PathNext]_pathVars => [Next]_vars
    BY PathStepsAuthorizer DEF PathSound, VisitsSound
  <1>3. QED
    BY <1>1, <1>2, PathSoundForEver, PTL DEF PathSpec, Spec

\* On the whole way too, what ends a token's authority ends its access in time.
THEOREM PathCutsOffInTime == PathSpec => []CutOffInTime
  <1>1. QED
    BY PathImplementsAuthorizer, AuthorityEndsInTime, PTL

\* Whom a request is taken for: the host it was sent to if it left the edge under
\* its pod's secret, in whatever order the secret is changed meanwhile on the
\* distribution; and nobody passes for the plugin host's visitor by its header.
THEOREM HostAlwaysTheViewers == PathSpec => []HostIsTheViewers
  <1>1. PathInvariant => HostIsTheViewers
    BY DEF PathInvariant, HostIsTheViewers
  <1>2. QED
    BY <1>1, PathInvariantHolds, PTL
=============================================================================
