-------------------------- MODULE OriginSecretProofs --------------------------
(***************************************************************************)
(* What holds of OriginSecret for every set of distributions and           *)
(* containers, every number of rotations and rollbacks, and every grace    *)
(* that is longer than a deploy and its propagation.                       *)
(***************************************************************************)
EXTENDS OriginSecret, TLAPS

-----------------------------------------------------------------------------
(* The first deploy.                                                       *)

LEMMA RotationInit == Init => RotationInvariant
  <1> SUFFICES ASSUME Init PROVE RotationInvariant
    OBVIOUS
  <1> USE DEF Init
  <1>0. /\ 1 \in Secrets /\ 0 \in 0..MaxClock /\ Shared \in Dists
        /\ Byod \subseteq Dists /\ Grace \in Nat /\ CacheLife \in Nat
    BY RotationAssumption DEF Secrets, Dists
  <1>1. /\ history \in Seq([value: Secrets, at: Nat]) /\ Len(history) = 1
        /\ Latest = [value |-> 1, at |-> 0]
    BY <1>0 DEF Latest
  <1>2. deploy \in Deploy
    BY <1>0 DEF Deploy, Steps
  <1>3. dist \in [Dists -> Dist]
    BY <1>0 DEF Dist, Config
  <1>4. cache \in [Containers -> [value: Secrets \cup {0}, at: Int, asked: BOOLEAN]]
    BY <1>0 DEF NoCache
  <1>5. job \in [todo: SUBSET Byod, reading: SUBSET Byod, seen: Config]
        /\ job.todo = {} /\ job.reading = {}
    BY <1>0 DEF NoJob, Config
  <1>6. RotationShape
    BY <1>0, <1>1, <1>2, <1>3, <1>4, <1>5 DEF RotationShape, TypeOK
  <1>7. JobSound
    BY <1>0, <1>5 DEF JobSound, Deploying
  <1>8. Lineage
    BY <1>0, <1>1 DEF Lineage, Deploying
  <1>9. StampsKnown
    BY DEF StampsKnown
  <1>10. PropagationCovered
    BY DEF PropagationCovered, Propagated
  <1>11. LookUpsSound
    BY <1>0, <1>1 DEF LookUpsSound, Rotated, NoCache
  <1>12. QED
    BY <1>6, <1>7, <1>8, <1>9, <1>10, <1>11 DEF RotationInvariant

-----------------------------------------------------------------------------
(* The history of the parameter.                                           *)

LEMMA InSequence ==
    ASSUME NEW S, NEW s \in Seq(S), NEW i \in 1..Len(s)
    PROVE  s[i] \in S
  OBVIOUS

LEMMA Versions ==
    ASSUME RotationShape
    PROVE  /\ Len(history) \in Nat \ {0}
           /\ Latest \in [value: Secrets, at: Nat]
           /\ Len(history) > 1 => Former \in [value: Secrets, at: Nat]
           /\ PreviousInGrace =
                IF Len(history) > 1 /\ clock - Latest.at < Grace THEN Former.value ELSE 0
           /\ PreviousInGrace \in Secrets \cup {0}
  <1>1. history \in Seq([value: Secrets, at: Nat]) /\ Len(history) > 0
    BY DEF RotationShape, TypeOK
  <1>2. Len(history) \in Nat \ {0}
    BY <1>1
  <1>3. Latest \in [value: Secrets, at: Nat]
    <2>1. Len(history) \in 1..Len(history)
      BY <1>2
    <2>2. QED
      BY <1>1, <2>1, InSequence DEF Latest
  <1>4. Len(history) > 1 => Former \in [value: Secrets, at: Nat]
    <2>1. Len(history) > 1 => Len(history) - 1 \in 1..Len(history)
      BY <1>2
    <2>2. QED
      BY <1>1, <2>1, InSequence DEF Former
  <1>5. PreviousInGrace =
          IF Len(history) > 1 /\ clock - Latest.at < Grace THEN Former.value ELSE 0
    BY DEF PreviousInGrace, Latest, Former
  <1>6. QED
    BY <1>2, <1>3, <1>4, <1>5

\* A new version of the parameter.
LEMMA NewVersion ==
    ASSUME RotationShape, NEW v \in [value: Secrets, at: Nat],
           history' = Append(history, v)
    PROVE  /\ history' \in Seq([value: Secrets, at: Nat])
           /\ Len(history') = Len(history) + 1 /\ Len(history') > 1
           /\ Latest' = v /\ Former' = Latest
  <1>1. /\ history \in Seq([value: Secrets, at: Nat]) /\ Len(history) \in Nat \ {0}
    BY Versions DEF RotationShape, TypeOK
  <1>2. /\ history' \in Seq([value: Secrets, at: Nat])
        /\ Len(history') = Len(history) + 1
    BY <1>1
  <1>3. Latest' = v
    BY <1>1, <1>2 DEF Latest
  <1>4. Former' = Latest
    <2>1. Former' = history'[Len(history)]
      BY <1>1, <1>2 DEF Former
    <2>2. QED
      BY <1>1, <2>1 DEF Latest
  <1>5. QED
    BY <1>1, <1>2, <1>3, <1>4

-----------------------------------------------------------------------------
(* The authorizer.                                                         *)

LEMMA LookUpKeeps ==
    ASSUME RotationInvariant, NEW c \in Containers, LookUp(c)
    PROVE  RotationInvariant'
  <1>0. /\ RotationShape /\ LookUpsSound /\ Lineage
        /\ clock \in Nat
        /\ UNCHANGED <<clock, deploy, history, env, dist, connector, job>>
        /\ UNCHANGED <<Latest, Former, Rotated>>
    BY DEF RotationInvariant, RotationShape, TypeOK, LookUp, Latest, Former, Rotated
  <1>1. PICK asked \in BOOLEAN :
          cache' = [cache EXCEPT ![c] = [value |-> IF asked THEN PreviousInGrace ELSE 0,
                                         at |-> clock, asked |-> asked]]
    BY DEF LookUp
  <1> DEFINE entry == [value |-> IF asked THEN PreviousInGrace ELSE 0,
                       at |-> clock, asked |-> asked]
  <1>2. entry \in [value: Secrets \cup {0}, at: Int, asked: BOOLEAN]
    BY <1>0, Versions
  <1>3. /\ cache' \in [Containers -> [value: Secrets \cup {0}, at: Int, asked: BOOLEAN]]
        /\ \A d \in Containers : cache'[d] = IF d = c THEN entry ELSE cache[d]
    BY <1>0, <1>1, <1>2 DEF RotationShape, TypeOK
  <1>4. RotationShape'
    BY <1>0, <1>3 DEF RotationShape, TypeOK
  <1>5. LookUpsSound'
    <2>0. /\ Latest.at \in Nat /\ Latest.at <= clock
          /\ clock - Latest.at < Grace <=> clock < Latest.at + Grace
      <3>1. Latest.at \in Nat
        BY <1>0, Versions
      <3>2. Latest.at <= clock
        BY <1>0 DEF Lineage
      <3>3. QED
        BY <1>0, <3>1, <3>2, RotationAssumption
    <2>1. /\ Len(history) = 1 => entry.value = 0
          /\ Rotated => /\ entry.at >= Latest.at
                        /\ entry.value = IF entry.asked /\ entry.at < Latest.at + Grace
                                         THEN Former.value ELSE 0
      <3>1. PreviousInGrace = IF Len(history) > 1 /\ clock < Latest.at + Grace
                              THEN Former.value ELSE 0
        BY <1>0, <2>0, Versions
      <3>2. Rotated => Len(history) > 1
        BY DEF Rotated
      <3>3. /\ entry.value = IF asked THEN PreviousInGrace ELSE 0
            /\ entry.at = clock /\ entry.asked = asked
        OBVIOUS
      <3> HIDE DEF entry
      <3>4. Rotated => entry.value = IF asked /\ clock < Latest.at + Grace
                                     THEN Former.value ELSE 0
        BY <3>1, <3>2, <3>3
      <3>5. Len(history) = 1 => entry.value = 0
        BY <3>1, <3>3
      <3>6. clock >= Latest.at
        BY <1>0, <2>0
      <3>7. QED
        BY <3>3, <3>4, <3>5, <3>6, Zenon
    <2>2. entry.at <= clock
      BY <1>0
    <2> HIDE DEF entry
    <2>3. QED
      BY <1>0, <1>3, <2>1, <2>2 DEF LookUpsSound
  <1>6. JobSound' /\ Lineage' /\ StampsKnown' /\ PropagationCovered'
    BY <1>0 DEF RotationInvariant, JobSound, Lineage, StampsKnown, PropagationCovered,
                Propagated, Deploying
  <1>7. QED
    BY <1>4, <1>5, <1>6 DEF RotationInvariant

-----------------------------------------------------------------------------
(* A deploy.                                                               *)

\* What LookUpsSound depends on.
LEMMA LookUpsStay ==
    ASSUME LookUpsSound, UNCHANGED <<clock, history, env, cache>>
    PROVE  LookUpsSound' /\ UNCHANGED <<Latest, Former, Rotated>>
  BY DEF LookUpsSound, Latest, Former, Rotated

LEMMA RotateKeeps == ASSUME RotationInvariant, Rotate PROVE RotationInvariant'
  <1>0. /\ RotationShape /\ JobSound /\ Lineage /\ StampsKnown /\ LookUpsSound
        /\ clock \in Nat /\ deploy \in Deploy
        /\ UNCHANGED <<clock, history, env, cache, dist, connector, job>>
        /\ deploy.phase = "rest" /\ deploy.chosen < MaxSecrets
        /\ \A d \in Dists : Propagated(d)
    BY DEF RotationInvariant, RotationShape, TypeOK, Rotate
  <1>1. PICK previous \in {0, deploy.target}, ordered \in BOOLEAN :
          deploy' = [phase |-> "running", target |-> deploy.chosen + 1,
                     previous |-> previous, chosen |-> deploy.chosen + 1,
                     kept |-> deploy.target, ordered |-> ordered,
                     done |-> {}, since |-> clock]
    BY DEF Rotate
  <1>2. /\ deploy.chosen \in Secrets /\ deploy.target \in Secrets
        /\ deploy.chosen + 1 \in Secrets /\ deploy.chosen \in Nat
    BY <1>0, RotationAssumption DEF Deploy, Secrets
  <1>3. deploy' \in Deploy
    BY <1>0, <1>1, <1>2 DEF Deploy
  <1>4. RotationShape'
    BY <1>0, <1>3 DEF RotationShape, TypeOK
  <1>5. JobSound'
    BY <1>0, <1>1 DEF JobSound, Deploying
  <1>6. UNCHANGED <<Latest, Former, Rotated>> /\ LookUpsSound'
    BY <1>0, LookUpsStay
  <1>7. Lineage'
    BY <1>0, <1>1, <1>2, <1>6, RotationAssumption DEF Lineage, Deploying
  <1>8. StampsKnown'
    <2>1. \A n : n \in 1..deploy.chosen => n \in 1..deploy'.chosen /\ n < deploy'.chosen
      BY <1>1, <1>2
    <2>2. connector \in 1..deploy.chosen
      BY <1>0 DEF Lineage
    <2>3. QED
      BY <1>0, <1>1, <2>1, <2>2 DEF StampsKnown
  <1>9. PropagationCovered'
    BY <1>0 DEF PropagationCovered, Propagated
  <1>10. QED
    BY <1>4, <1>5, <1>6, <1>7, <1>8, <1>9 DEF RotationInvariant

\* The secrets of a deploy are numbers.
LEMMA DeployNumbers ==
    ASSUME deploy \in Deploy
    PROVE  /\ deploy.chosen \in Nat /\ deploy.target \in Nat /\ deploy.kept \in Nat
           /\ deploy.since \in Nat /\ deploy.target \in Secrets
           /\ \A secret \in Secrets : secret \in Nat
  BY RotationAssumption DEF Deploy, Secrets

LEMMA UpdateParamKeeps == ASSUME RotationInvariant, UpdateParam PROVE RotationInvariant'
  <1>0. /\ RotationShape /\ JobSound /\ Lineage /\ StampsKnown /\ PropagationCovered
        /\ LookUpsSound
        /\ clock \in Nat /\ deploy \in Deploy /\ env.secret \in Secrets
        /\ UNCHANGED <<clock, env, cache, dist, connector, job>>
        /\ Deploying /\ "param" \notin deploy.done
        /\ deploy' = [deploy EXCEPT !.done = deploy.done \cup {"param"}]
        /\ history' = Append(history, [value |-> deploy.target, at |-> clock])
    BY DEF RotationInvariant, RotationShape, TypeOK, UpdateParam, Ready, Finished
  <1>1. /\ deploy.chosen \in Nat /\ deploy.target \in Nat /\ deploy.kept \in Nat
        /\ env.secret \in Nat /\ deploy.target \in Secrets
    BY <1>0, DeployNumbers
  <1>2. deploy' \in Deploy /\ deploy'.done = deploy.done \cup {"param"}
        /\ UNCHANGED <<deploy.phase, deploy.target, deploy.chosen, deploy.kept,
                       deploy.ordered, deploy.since>>
    BY <1>0 DEF Deploy, Steps
  <1>3. /\ history' \in Seq([value: Secrets, at: Nat])
        /\ Len(history') > 1
        /\ Latest' = [value |-> deploy.target, at |-> clock] /\ Former' = Latest
        /\ Latest \in [value: Secrets, at: Nat]
        /\ Rotated' <=> deploy.target > Latest.value
    <2>1. [value |-> deploy.target, at |-> clock] \in [value: Secrets, at: Nat]
      BY <1>0, <1>1
    <2>2. /\ history' \in Seq([value: Secrets, at: Nat])
          /\ Len(history') > 1
          /\ Latest' = [value |-> deploy.target, at |-> clock] /\ Former' = Latest
      BY <1>0, <2>1, NewVersion
    <2>3. QED
      BY <1>0, <2>2, Versions DEF Rotated
  <1>4. RotationShape'
    BY <1>0, <1>2, <1>3 DEF RotationShape, TypeOK
  <1>5. JobSound'
    BY <1>0, <1>2 DEF JobSound, Deploying
  <1>6. Lineage'
    <2>1. Latest'.at = clock /\ Latest'.value = deploy.target /\ Former'.value = Latest.value
      BY <1>3
    <2>2. deploy.since <= clock /\ clock <= deploy.since + DeployTime
      BY <1>0 DEF Lineage
    <2>3. CASE deploy.phase = "running"
      <3>1. /\ deploy.target = deploy.chosen /\ deploy.kept < deploy.chosen
            /\ Latest.value = deploy.kept /\ "authorizer" \notin deploy.done
            /\ env.secret = deploy.kept
        BY <1>0, <2>3 DEF Lineage
      <3>2. Rotated'
        BY <1>1, <1>3, <3>1
      <3>3. {deploy.target, deploy.kept, env.secret, connector} \subseteq 1..deploy.chosen
        BY <1>0 DEF Lineage
      <3>4. QED
        BY <1>0, <1>1, <1>2, <2>1, <2>2, <2>3, <3>1, <3>2, <3>3 DEF Lineage, Deploying
    <2>4. CASE deploy.phase = "rollback"
      <3>1. /\ deploy.target = deploy.kept /\ deploy.kept < deploy.chosen
            /\ "authorizer" \in deploy.done => env.secret = deploy.kept
            /\ {deploy.target, deploy.kept, env.secret, connector} \subseteq 1..deploy.chosen
        BY <1>0, <2>4 DEF Lineage
      <3>2. QED
        BY <1>0, <1>1, <1>2, <2>1, <2>2, <2>4, <3>1 DEF Lineage, Deploying
    <2>5. QED
      BY <1>0, <2>3, <2>4 DEF Deploying
  <1>7. StampsKnown'
    BY <1>0, <1>2 DEF StampsKnown
  <1>8. PropagationCovered'
    <2> SUFFICES ASSUME NEW d \in Dists, ~Propagated(d)'
                 PROVE  /\ clock <= dist[d].since + Propagation
                        /\ deploy.phase \in {"running", "rest"} /\ deploy.target # deploy.kept
                           /\ deploy.ordered
                           => Rotated' /\ dist[d].since <= clock + DeployTime
      BY <1>0, <1>2, <1>3 DEF PropagationCovered
    <2>1. ~Propagated(d) /\ dist[d].since \in Nat
      BY <1>0 DEF Propagated, RotationShape, TypeOK, Dist
    <2>2. /\ clock <= dist[d].since + Propagation
          /\ deploy.phase \in {"running", "rest"} /\ deploy.target # deploy.kept
             /\ deploy.ordered
             => Rotated /\ dist[d].since <= Latest.at + DeployTime
      BY <1>0, <2>1 DEF PropagationCovered
    <2>3. deploy.phase = "running" => Rotated'
      BY <1>0, <1>1, <1>3 DEF Lineage
    <2>4. Latest.at \in Nat /\ Latest.at <= clock
      BY <1>0, <1>3 DEF Lineage
    <2>5. deploy.phase # "rest"
      BY <1>0 DEF Deploying
    <2>6. DeployTime \in Nat /\ clock \in Nat
      BY <1>0, RotationAssumption
    <2>7. QED
      BY <2>1, <2>2, <2>3, <2>4, <2>5, <2>6
  <1>9. LookUpsSound'
    <2>1. ~(Rotated' /\ env.secret = Latest'.value)
      BY <1>0, <1>1, <1>3 DEF Lineage, Deploying
    <2>2. QED
      BY <1>0, <1>3, <2>1 DEF LookUpsSound
  <1>10. QED
    BY <1>4, <1>5, <1>6, <1>7, <1>8, <1>9 DEF RotationInvariant

\* A resource updated: the deploy remembers it, and nothing else of itself.
LEMMA FinishedStep ==
    ASSUME deploy \in Deploy, NEW step \in Steps, Finished(step)
    PROVE  /\ deploy' \in Deploy /\ deploy'.done = deploy.done \cup {step}
           /\ UNCHANGED <<deploy.phase, deploy.target, deploy.chosen, deploy.kept,
                          deploy.ordered, deploy.since, Deploying>>
  BY DEF Finished, Deploy, Deploying

LEMMA UpdateAuthorizerKeeps ==
    ASSUME RotationInvariant, UpdateAuthorizer
    PROVE  RotationInvariant'
  <1>0. /\ RotationShape /\ JobSound /\ Lineage /\ StampsKnown /\ PropagationCovered
        /\ LookUpsSound
        /\ clock \in Nat /\ deploy \in Deploy /\ Len(history) \in Nat
        /\ UNCHANGED <<clock, history, dist, connector, job>>
        /\ Deploying /\ "authorizer" \notin deploy.done /\ "param" \in deploy.done
        /\ Finished("authorizer")
        /\ env' = [secret |-> deploy.target, previous |-> deploy.previous]
        /\ cache' = [c \in Containers |-> NoCache]
    BY Versions DEF RotationInvariant, RotationShape, TypeOK, UpdateAuthorizer, Ready
  <1>1. /\ deploy' \in Deploy /\ deploy'.done = deploy.done \cup {"authorizer"}
        /\ UNCHANGED <<deploy.phase, deploy.target, deploy.chosen, deploy.kept,
                       deploy.ordered, deploy.since, Deploying>>
    BY <1>0, FinishedStep DEF Steps
  <1>2. UNCHANGED <<Latest, Former, Rotated>>
    BY <1>0 DEF Latest, Former, Rotated
  <1>3. RotationShape'
    <2>1. env' \in [secret: Secrets, previous: Secrets \cup {0}]
      BY <1>0 DEF Deploy
    <2>2. cache' \in [Containers -> [value: Secrets \cup {0}, at: Int, asked: BOOLEAN]]
      BY <1>0, RotationAssumption DEF NoCache
    <2>3. QED
      BY <1>0, <1>1, <2>1, <2>2 DEF RotationShape, TypeOK
  <1>4. JobSound'
    BY <1>0, <1>1 DEF JobSound
  <1>5. Lineage'
    BY <1>0, <1>1, <1>2 DEF Lineage, Deploying
  <1>6. StampsKnown'
    BY <1>0, <1>1 DEF StampsKnown
  <1>7. PropagationCovered'
    BY <1>0, <1>1, <1>2 DEF PropagationCovered, Propagated
  <1>8. LookUpsSound'
    <2>1. NoCache.at <= clock /\ NoCache.value = 0
      BY <1>0, RotationAssumption DEF NoCache
    <2>2. QED
      BY <1>0, <2>1 DEF LookUpsSound
  <1>9. QED
    BY <1>3, <1>4, <1>5, <1>6, <1>7, <1>8 DEF RotationInvariant

\* A distribution is updated by the deploy, after the authorizer if the rotation
\* is ordered; its configuration stamps the secret of the deploy.
LEMMA Stamping ==
    ASSUME RotationInvariant, NEW d \in Dists, NEW config \in Config,
           config.stamp = deploy.target, dist[d].exists,
           Deploying, UNCHANGED <<clock, history, env, connector>>,
           UNCHANGED <<deploy.phase, deploy.target, deploy.chosen, deploy.kept,
                       deploy.ordered, deploy.since>>,
           deploy.done \subseteq deploy'.done,
           deploy'.done \subseteq deploy.done \cup {"shared"},
           deploy.phase = "running" /\ deploy.ordered => "authorizer" \in deploy.done,
           dist' = Restamped(d, config)
    PROVE  /\ dist' \in [Dists -> Dist]
           /\ \A x \in Dists : dist'[x].exists <=> dist[x].exists
           /\ \A x \in Dists : ~dist'[x].exists =>
                dist'[x].live = {} /\ dist'[x].config.domains = 0
           /\ StampsKnown' /\ PropagationCovered'
  <1>0. /\ RotationShape /\ JobSound /\ Lineage /\ StampsKnown /\ PropagationCovered
        /\ clock \in Nat /\ deploy \in Deploy /\ dist \in [Dists -> Dist]
        /\ deploy.target \in Secrets /\ deploy.target \in 1..deploy.chosen
        /\ Latest.at \in Nat
    <2>1. /\ RotationShape /\ JobSound /\ Lineage /\ StampsKnown /\ PropagationCovered
      BY DEF RotationInvariant
    <2>2. clock \in Nat /\ deploy \in Deploy /\ dist \in [Dists -> Dist]
      BY <2>1 DEF RotationShape, TypeOK
    <2>3. deploy.target \in 1..deploy.chosen
      BY <2>1 DEF Lineage
    <2>4. Latest.at \in Nat
      BY <2>1, Versions
    <2>5. QED
      BY <2>1, <2>2, <2>3, <2>4, DeployNumbers
  <1> DEFINE new == [exists |-> TRUE, config |-> config,
                     live |-> dist[d].live \cup {deploy.target}, since |-> clock]
  <1>1. new \in Dist /\ dist[d] \in Dist
    BY <1>0 DEF Dist
  <1>2. dist' = [dist EXCEPT ![d] = new]
    BY DEF Restamped
  <1>3. /\ dist' \in [Dists -> Dist]
        /\ \A x \in Dists : dist'[x] = IF x = d THEN new ELSE dist[x]
    BY <1>0, <1>1, <1>2
  <1>4. new.exists /\ new.config.stamp = deploy.target /\ new.since = clock
        /\ new.live = dist[d].live \cup {deploy.target}
    OBVIOUS
  <1> HIDE DEF new
  <1>5. /\ \A x \in Dists : dist'[x].exists <=> dist[x].exists
        /\ \A x \in Dists : ~dist'[x].exists =>
             dist'[x].live = {} /\ dist'[x].config.domains = 0
    BY <1>0, <1>3, <1>4 DEF JobSound
  <1>6. StampsKnown'
    <2>1. \A x \in Dists : dist'[x].live \cup {dist'[x].config.stamp} \subseteq 1..deploy.chosen
      BY <1>0, <1>3, <1>4 DEF StampsKnown
    <2>2. ~(deploy'.phase = "running" /\ deploy'.ordered /\ "authorizer" \notin deploy'.done)
      OBVIOUS
    <2>3. QED
      BY <2>1, <2>2 DEF StampsKnown
  <1>7. PropagationCovered'
    <2> SUFFICES ASSUME NEW x \in Dists, ~Propagated(x)'
                 PROVE  /\ clock <= dist'[x].since + Propagation
                        /\ deploy.phase \in {"running", "rest"} /\ deploy.target # deploy.kept
                           /\ deploy.ordered
                           => Rotated /\ dist'[x].since <= Latest.at + DeployTime
      BY DEF PropagationCovered, Latest, Rotated, Former
    <2>1. CASE x = d
      <3>1. dist'[x].since = clock
        BY <1>3, <1>4, <2>1
      <3>2. clock <= clock + Propagation
        BY <1>0, RotationAssumption
      <3>3. ASSUME deploy.phase \in {"running", "rest"}, deploy.ordered
            PROVE  Rotated /\ deploy.since <= Latest.at
        BY <1>0, <3>3 DEF Lineage, Deploying
      <3>4. clock <= deploy.since + DeployTime /\ deploy.since \in Nat
        BY <1>0 DEF Lineage, Deploy
      <3>5. QED
        BY <1>0, <3>1, <3>2, <3>3, <3>4, RotationAssumption
    <2>2. CASE x # d
      BY <1>0, <1>3, <2>2 DEF PropagationCovered, Propagated
    <2>3. QED
      BY <2>1, <2>2
  <1>8. QED
    BY <1>3, <1>5, <1>6, <1>7

LEMMA UpdateSharedKeeps == ASSUME RotationInvariant, UpdateShared PROVE RotationInvariant'
  <1>0. /\ RotationShape /\ JobSound /\ Lineage /\ LookUpsSound
        /\ deploy \in Deploy /\ Shared \in Dists /\ dist[Shared] \in Dist
        /\ UNCHANGED <<clock, history, env, cache, connector, job>>
        /\ Deploying /\ Finished("shared")
        /\ dist' = Restamped(Shared, [dist[Shared].config EXCEPT !.stamp = deploy.target])
        /\ deploy.ordered => "authorizer" \in deploy.done
    BY DEF RotationInvariant, RotationShape, TypeOK, UpdateShared, Ready, Dists
  <1>1. /\ deploy' \in Deploy /\ deploy'.done = deploy.done \cup {"shared"}
        /\ UNCHANGED <<deploy.phase, deploy.target, deploy.chosen, deploy.kept,
                       deploy.ordered, deploy.since, Deploying>>
    BY <1>0, FinishedStep DEF Steps
  <1> DEFINE config == [dist[Shared].config EXCEPT !.stamp = deploy.target]
  <1>2. config \in Config /\ config.stamp = deploy.target
    BY <1>0 DEF Config, Dist, Deploy
  <1>3. dist' = Restamped(Shared, config)
    BY <1>0
  <1> HIDE DEF config
  <1>4. /\ dist' \in [Dists -> Dist]
        /\ \A x \in Dists : dist'[x].exists <=> dist[x].exists
        /\ \A x \in Dists : ~dist'[x].exists =>
             dist'[x].live = {} /\ dist'[x].config.domains = 0
        /\ StampsKnown' /\ PropagationCovered'
    BY <1>0, <1>1, <1>2, <1>3, Stamping DEF JobSound
  <1>5. RotationShape'
    BY <1>0, <1>1, <1>4 DEF RotationShape, TypeOK
  <1>6. JobSound'
    <2>1. job.todo \cup job.reading \subseteq Dists
      BY <1>0 DEF RotationShape, TypeOK, Dists
    <2>2. QED
      BY <1>0, <1>1, <1>4, <2>1 DEF JobSound
  <1>7. UNCHANGED <<Latest, Former, Rotated>> /\ LookUpsSound'
    BY <1>0, LookUpsStay
  <1>8. Lineage'
    BY <1>0, <1>1, <1>7 DEF Lineage, Deploying
  <1>9. QED
    BY <1>4, <1>5, <1>6, <1>7, <1>8 DEF RotationInvariant

LEMMA UpdateConnectorKeeps ==
    ASSUME RotationInvariant, UpdateConnector
    PROVE  RotationInvariant'
  <1>0. /\ RotationShape /\ JobSound /\ Lineage /\ StampsKnown /\ PropagationCovered
        /\ LookUpsSound /\ deploy \in Deploy
        /\ UNCHANGED <<clock, history, env, cache, dist, job>>
        /\ Deploying /\ "shared" \in deploy.done /\ Finished("connector")
        /\ connector' = deploy.target
    BY DEF RotationInvariant, RotationShape, TypeOK, UpdateConnector, Ready
  <1>1. /\ deploy' \in Deploy /\ deploy'.done = deploy.done \cup {"connector"}
        /\ UNCHANGED <<deploy.phase, deploy.target, deploy.chosen, deploy.kept,
                       deploy.ordered, deploy.since, Deploying>>
    BY <1>0, FinishedStep DEF Steps
  <1>2. RotationShape'
    BY <1>0, <1>1 DEF RotationShape, TypeOK, Deploy
  <1>3. JobSound'
    BY <1>0, <1>1 DEF JobSound
  <1>4. UNCHANGED <<Latest, Former, Rotated>> /\ LookUpsSound'
    BY <1>0, LookUpsStay
  <1>5. Lineage'
    BY <1>0, <1>1, <1>4 DEF Lineage, Deploying
  <1>6. StampsKnown'
    BY <1>0, <1>1 DEF StampsKnown
  <1>7. PropagationCovered'
    BY <1>0, <1>1, <1>4 DEF PropagationCovered, Propagated
  <1>8. QED
    BY <1>2, <1>3, <1>4, <1>5, <1>6, <1>7 DEF RotationInvariant

-----------------------------------------------------------------------------
(* The re-stamp Lambda.                                                    *)

LEMMA RestampListKeeps == ASSUME RotationInvariant, RestampList PROVE RotationInvariant'
  <1>0. /\ RotationShape /\ JobSound /\ Lineage /\ StampsKnown /\ PropagationCovered
        /\ LookUpsSound /\ deploy \in Deploy
        /\ UNCHANGED <<clock, history, env, cache, dist, connector>>
        /\ Deploying /\ Finished("restamp")
        /\ deploy.ordered => "authorizer" \in deploy.done
        /\ job' = [NoJob EXCEPT !.todo = {d \in Byod : dist[d].exists}]
    BY DEF RotationInvariant, RotationShape, TypeOK, RestampList, Ready
  <1>1. /\ deploy' \in Deploy /\ deploy'.done = deploy.done \cup {"restamp"}
        /\ UNCHANGED <<deploy.phase, deploy.target, deploy.chosen, deploy.kept,
                       deploy.ordered, deploy.since, Deploying>>
    BY <1>0, FinishedStep DEF Steps
  <1>2. /\ job' \in [todo: SUBSET Byod, reading: SUBSET Byod, seen: Config]
        /\ job'.reading = {} /\ \A d \in job'.todo : dist[d].exists
    BY <1>0, RotationAssumption DEF NoJob, Config, Secrets
  <1>3. RotationShape'
    BY <1>0, <1>1, <1>2 DEF RotationShape, TypeOK
  <1>4. JobSound'
    BY <1>0, <1>1, <1>2 DEF JobSound
  <1>5. UNCHANGED <<Latest, Former, Rotated>> /\ LookUpsSound'
    BY <1>0, LookUpsStay
  <1>6. Lineage'
    BY <1>0, <1>1, <1>5 DEF Lineage, Deploying
  <1>7. StampsKnown'
    BY <1>0, <1>1 DEF StampsKnown
  <1>8. PropagationCovered'
    BY <1>0, <1>1, <1>5 DEF PropagationCovered, Propagated
  <1>9. QED
    BY <1>3, <1>4, <1>5, <1>6, <1>7, <1>8 DEF RotationInvariant

\* A step of which only the re-stamp Lambda knows.
LEMMA JobMoves ==
    ASSUME RotationInvariant, UNCHANGED <<clock, deploy, history, env, cache, dist, connector>>,
           job' \in [todo: SUBSET Byod, reading: SUBSET Byod, seen: Config],
           job'.reading \subseteq job'.todo, job'.todo \subseteq job.todo
    PROVE  RotationInvariant'
  <1>0. /\ RotationShape /\ JobSound /\ Lineage /\ StampsKnown /\ PropagationCovered
        /\ LookUpsSound
    BY DEF RotationInvariant
  <1>1. RotationShape'
    BY <1>0 DEF RotationShape, TypeOK
  <1>2. JobSound'
    BY <1>0 DEF JobSound, Deploying
  <1>3. UNCHANGED <<Latest, Former, Rotated>> /\ LookUpsSound'
    BY <1>0, LookUpsStay
  <1>4. Lineage' /\ StampsKnown' /\ PropagationCovered'
    BY <1>0, <1>3 DEF Lineage, Deploying, StampsKnown, PropagationCovered, Propagated
  <1>5. QED
    BY <1>0, <1>1, <1>2, <1>3, <1>4 DEF RotationInvariant

LEMMA RestampGetKeeps ==
    ASSUME RotationInvariant, NEW d \in Byod, RestampGet(d)
    PROVE  RotationInvariant'
  <1>0. /\ job \in [todo: SUBSET Byod, reading: SUBSET Byod, seen: Config]
        /\ job.reading = {} /\ d \in job.todo
        /\ dist[d].config \in Config
        /\ UNCHANGED <<clock, deploy, history, env, cache, dist, connector>>
    BY DEF RotationInvariant, RotationShape, TypeOK, RestampGet, Dist, Dists
  <1>1. CASE job' = [job EXCEPT !.todo = job.todo \ {d}]
    <2>1. /\ job' \in [todo: SUBSET Byod, reading: SUBSET Byod, seen: Config]
          /\ job'.reading \subseteq job'.todo /\ job'.todo \subseteq job.todo
      BY <1>0, <1>1
    <2>2. QED
      BY <1>0, <2>1, JobMoves
  <1>2. CASE job' = [job EXCEPT !.reading = {d}, !.seen = dist[d].config]
    <2>1. /\ job' \in [todo: SUBSET Byod, reading: SUBSET Byod, seen: Config]
          /\ job'.reading \subseteq job'.todo /\ job'.todo \subseteq job.todo
      BY <1>0, <1>2
    <2>2. QED
      BY <1>0, <2>1, JobMoves
  <1>3. QED
    BY <1>1, <1>2 DEF RestampGet

LEMMA RestampUpdateKeeps ==
    ASSUME RotationInvariant, NEW d \in Byod, RestampUpdate(d)
    PROVE  RotationInvariant'
  <1>0. /\ RotationShape /\ JobSound /\ Lineage /\ StampsKnown /\ LookUpsSound
        /\ deploy \in Deploy /\ d \in Dists
        /\ job \in [todo: SUBSET Byod, reading: SUBSET Byod, seen: Config]
        /\ job.reading \subseteq job.todo
        /\ UNCHANGED <<clock, deploy, history, env, cache, connector>>
        /\ Deploying /\ d \in job.reading
        /\ dist' = Restamped(d, [job.seen EXCEPT !.stamp = deploy.target])
        /\ job' = [job EXCEPT !.todo = job.todo \ {d}, !.reading = {}]
    BY DEF RotationInvariant, RotationShape, TypeOK, RestampUpdate, Dists
  <1> DEFINE config == [job.seen EXCEPT !.stamp = deploy.target]
  <1>1. config \in Config /\ config.stamp = deploy.target
    BY <1>0 DEF Config, Deploy
  <1>2. dist[d].exists /\ "restamp" \in deploy.done
    BY <1>0 DEF JobSound
  <1>3. deploy.phase = "running" /\ deploy.ordered => "authorizer" \in deploy.done
    BY <1>0, <1>2 DEF StampsKnown
  <1> HIDE DEF config
  <1>4. /\ dist' \in [Dists -> Dist]
        /\ \A x \in Dists : dist'[x].exists <=> dist[x].exists
        /\ \A x \in Dists : ~dist'[x].exists =>
             dist'[x].live = {} /\ dist'[x].config.domains = 0
        /\ StampsKnown' /\ PropagationCovered'
    <2>1. dist' = Restamped(d, config)
      BY <1>0 DEF config
    <2>2. QED
      BY <1>0, <1>1, <1>2, <1>3, <2>1, Stamping
  <1>5. /\ job' \in [todo: SUBSET Byod, reading: SUBSET Byod, seen: Config]
        /\ job'.reading = {} /\ job'.todo = job.todo \ {d}
    BY <1>0
  <1>6. RotationShape'
    BY <1>0, <1>4, <1>5 DEF RotationShape, TypeOK
  <1>7. JobSound'
    <2>1. job.todo \subseteq Dists /\ Shared \in Dists
      BY <1>0 DEF Dists
    <2>2. UNCHANGED Deploying
      BY <1>0 DEF Deploying
    <2>3. QED
      BY <1>0, <1>4, <1>5, <2>1, <2>2 DEF JobSound
  <1>8. UNCHANGED <<Latest, Former, Rotated>> /\ LookUpsSound'
    BY <1>0, LookUpsStay
  <1>9. Lineage'
    BY <1>0, <1>8 DEF Lineage, Deploying
  <1>10. QED
    BY <1>4, <1>6, <1>7, <1>8, <1>9 DEF RotationInvariant

\* A deploy that gives up turns back to the secret before it, or stays stuck.
LEMMA RestampFailsKeeps == ASSUME RotationInvariant, RestampFails PROVE RotationInvariant'
  <1>0. /\ RotationShape /\ JobSound /\ Lineage /\ StampsKnown /\ PropagationCovered
        /\ LookUpsSound /\ deploy \in Deploy /\ clock \in Nat
        /\ UNCHANGED <<clock, history, env, cache, dist, connector>>
        /\ Deploying /\ job' = NoJob
    BY DEF RotationInvariant, RotationShape, TypeOK, RestampFails
  <1>1. /\ job' \in [todo: SUBSET Byod, reading: SUBSET Byod, seen: Config]
        /\ job'.reading = {} /\ job'.todo = {}
    BY <1>0, RotationAssumption DEF NoJob, Config, Secrets
  <1>2. UNCHANGED <<Latest, Former, Rotated>> /\ LookUpsSound'
    BY <1>0, LookUpsStay
  <1>3. CASE /\ deploy.phase = "rollback"
             /\ deploy' = [deploy EXCEPT !.phase = "stuck"]
    <2>1. /\ deploy' \in Deploy /\ deploy'.phase = "stuck"
          /\ UNCHANGED <<deploy.target, deploy.chosen, deploy.kept, deploy.since, deploy.done>>
      BY <1>0, <1>3 DEF Deploy
    <2>2. RotationShape'
      BY <1>0, <1>1, <2>1 DEF RotationShape, TypeOK
    <2>3. JobSound'
      BY <1>0, <1>1 DEF JobSound
    <2>4. Lineage'
      BY <1>0, <1>2, <2>1 DEF Lineage, Deploying
    <2>5. StampsKnown' /\ PropagationCovered'
      BY <1>0, <2>1 DEF StampsKnown, PropagationCovered, Propagated
    <2>6. QED
      BY <1>2, <2>2, <2>3, <2>4, <2>5 DEF RotationInvariant
  <1>4. CASE /\ deploy.phase # "rollback"
             /\ deploy' = [deploy EXCEPT !.phase = "rollback", !.target = deploy.kept,
                             !.previous = 0, !.done = Steps \ deploy.done, !.since = clock]
    <2>0. deploy.phase = "running"
      BY <1>0, <1>4 DEF Deploying
    <2>1. /\ deploy' \in Deploy /\ deploy'.phase = "rollback" /\ deploy'.target = deploy.kept
          /\ deploy'.done = Steps \ deploy.done /\ deploy'.since = clock
          /\ UNCHANGED <<deploy.chosen, deploy.kept>>
      BY <1>0, <1>4 DEF Deploy
    <2>2. RotationShape'
      BY <1>0, <1>1, <2>1 DEF RotationShape, TypeOK
    <2>3. JobSound'
      BY <1>0, <1>1 DEF JobSound
    <2>4. Lineage'
      BY <1>0, <1>2, <2>0, <2>1, RotationAssumption DEF Lineage, Deploying, Steps
    <2>5. StampsKnown' /\ PropagationCovered'
      BY <1>0, <2>1 DEF StampsKnown, PropagationCovered, Propagated
    <2>6. QED
      BY <1>2, <2>2, <2>3, <2>4, <2>5 DEF RotationInvariant
  <1>5. QED
    BY <1>3, <1>4 DEF RestampFails

LEMMA SucceedsKeeps == ASSUME RotationInvariant, Succeeds PROVE RotationInvariant'
  <1>0. /\ RotationShape /\ JobSound /\ Lineage /\ StampsKnown /\ PropagationCovered
        /\ LookUpsSound /\ deploy \in Deploy /\ clock \in Nat
        /\ UNCHANGED <<clock, history, env, cache, dist, connector, job>>
        /\ Deploying /\ deploy.done = Steps /\ job.todo = {}
    BY DEF RotationInvariant, RotationShape, TypeOK, Succeeds
  <1>1. /\ deploy' \in Deploy /\ deploy'.phase = "rest" /\ deploy'.since = 0
        /\ UNCHANGED <<deploy.target, deploy.chosen, deploy.kept, deploy.ordered, deploy.done>>
    BY <1>0 DEF Succeeds, Deploy
  <1>2. UNCHANGED <<Latest, Former, Rotated>> /\ LookUpsSound'
    BY <1>0, LookUpsStay
  <1>3. RotationShape'
    BY <1>0, <1>1 DEF RotationShape, TypeOK
  <1>4. JobSound'
    BY <1>0, <1>1 DEF JobSound
  <1>5. Lineage'
    BY <1>0, <1>1, <1>2 DEF Lineage, Deploying, Steps
  <1>6. StampsKnown'
    BY <1>0, <1>1 DEF StampsKnown
  <1>7. PropagationCovered'
    <2>1. deploy.phase = "rollback" => deploy.target = deploy.kept
      BY <1>0 DEF Lineage
    <2>2. QED
      BY <1>0, <1>1, <1>2, <2>1 DEF PropagationCovered, Propagated, Deploying
  <1>8. QED
    BY <1>2, <1>3, <1>4, <1>5, <1>6, <1>7 DEF RotationInvariant

-----------------------------------------------------------------------------
(* The connector, CloudFront, time.                                        *)

\* A distribution changes on its own: it stamps what it did, or what the connector
\* has, and has no more to propagate than before.
LEMMA DistMoves ==
    ASSUME RotationInvariant, NEW d \in Dists, NEW new \in Dist, new.exists,
           UNCHANGED <<clock, deploy, history, env, cache, connector, job>>,
           dist' = [dist EXCEPT ![d] = new],
           new.live \cup {new.config.stamp}
             \subseteq dist[d].live \cup {dist[d].config.stamp, connector},
           \/ new.live = {new.config.stamp}
           \/ /\ dist[d].exists /\ new.live = dist[d].live
              /\ new.config.stamp = dist[d].config.stamp /\ new.since = dist[d].since
    PROVE  RotationInvariant'
  <1>0. /\ RotationShape /\ JobSound /\ Lineage /\ StampsKnown /\ PropagationCovered
        /\ LookUpsSound /\ dist \in [Dists -> Dist]
    BY DEF RotationInvariant, RotationShape, TypeOK
  <1>1. /\ dist' \in [Dists -> Dist]
        /\ \A x \in Dists : dist'[x] = IF x = d THEN new ELSE dist[x]
    BY <1>0
  <1>2. RotationShape'
    BY <1>0, <1>1 DEF RotationShape, TypeOK
  <1>3. JobSound'
    <2>1. job.todo \cup job.reading \subseteq Dists /\ Shared \in Dists
      BY <1>0 DEF RotationShape, TypeOK, Dists
    <2>2. QED
      BY <1>0, <1>1, <2>1 DEF JobSound, Deploying
  <1>4. UNCHANGED <<Latest, Former, Rotated>> /\ LookUpsSound'
    BY <1>0, LookUpsStay
  <1>5. Lineage'
    BY <1>0, <1>4 DEF Lineage, Deploying
  <1>6. StampsKnown'
    <2>1. connector \in 1..deploy.chosen
      BY <1>0 DEF Lineage
    <2>2. QED
      BY <1>0, <1>1, <2>1 DEF StampsKnown
  <1>7. PropagationCovered'
    BY <1>0, <1>1, <1>4 DEF PropagationCovered, Propagated
  <1>8. QED
    BY <1>2, <1>3, <1>4, <1>5, <1>6, <1>7 DEF RotationInvariant

LEMMA CreateDistributionKeeps ==
    ASSUME RotationInvariant, NEW d \in Byod, CreateDistribution(d)
    PROVE  RotationInvariant'
  <1> DEFINE new == [exists |-> TRUE, since |-> 0,
                     config |-> [stamp |-> connector, domains |-> 1], live |-> {connector}]
  <1>1. new \in Dist /\ d \in Dists
    BY DEF RotationInvariant, RotationShape, TypeOK, Dist, Config, Dists
  <1>2. /\ dist' = [dist EXCEPT ![d] = new]
        /\ UNCHANGED <<clock, deploy, history, env, cache, connector, job>>
    BY DEF CreateDistribution
  <1>3. new.exists /\ new.live = {connector} /\ new.config.stamp = connector
    OBVIOUS
  <1> HIDE DEF new
  <1>4. QED
    BY <1>1, <1>2, <1>3, DistMoves

LEMMA AddDomainKeeps ==
    ASSUME RotationInvariant, NEW d \in Byod, AddDomain(d)
    PROVE  RotationInvariant'
  <1> DEFINE old == dist[d]
             new == [old EXCEPT !.config = [old.config EXCEPT !.domains = old.config.domains + 1]]
  <1>1. old \in Dist /\ d \in Dists
    BY DEF RotationInvariant, RotationShape, TypeOK, Dists
  <1>2. /\ dist' = [dist EXCEPT ![d] = new] /\ old.exists
        /\ UNCHANGED <<clock, deploy, history, env, cache, connector, job>>
    BY DEF AddDomain
  <1> HIDE DEF old
  <1>3. /\ new \in Dist /\ new.exists = old.exists /\ new.live = old.live
        /\ new.config.stamp = old.config.stamp /\ new.since = old.since
    BY <1>1 DEF Dist, Config
  <1> HIDE DEF new
  <1>4. QED
    BY <1>1, <1>2, <1>3, DistMoves DEF old

LEMMA PropagateKeeps ==
    ASSUME RotationInvariant, NEW d \in Dists, Propagate(d)
    PROVE  RotationInvariant'
  <1> DEFINE new == [exists |-> TRUE, config |-> dist[d].config,
                     live |-> {dist[d].config.stamp}, since |-> 0]
  <1>1. new \in Dist
    BY DEF RotationInvariant, RotationShape, TypeOK, Dist, Config
  <1>2. /\ dist' = [dist EXCEPT ![d] = new]
        /\ UNCHANGED <<clock, deploy, history, env, cache, connector, job>>
    BY DEF Propagate
  <1>3. new.exists /\ new.live = {dist[d].config.stamp} /\ new.config = dist[d].config
    OBVIOUS
  <1> HIDE DEF new
  <1>4. QED
    BY <1>1, <1>2, <1>3, DistMoves

LEMMA TickKeeps == ASSUME RotationInvariant, Tick PROVE RotationInvariant'
  <1>0. /\ RotationShape /\ JobSound /\ Lineage /\ StampsKnown /\ PropagationCovered
        /\ LookUpsSound /\ clock \in Nat /\ clock < MaxClock /\ clock' = clock + 1
        /\ deploy \in Deploy /\ dist \in [Dists -> Dist]
        /\ cache \in [Containers -> [value: Secrets \cup {0}, at: Int, asked: BOOLEAN]]
        /\ UNCHANGED <<deploy, history, env, cache, dist, connector, job>>
        /\ Deploying => clock < deploy.since + DeployTime
        /\ \A d \in Dists : ~Propagated(d) => clock < dist[d].since + Propagation
    BY DEF RotationInvariant, RotationShape, TypeOK, Tick
  <1>1. UNCHANGED <<Latest, Former, Rotated>> /\ Latest.at \in Nat
    BY <1>0, Versions DEF Latest, Former, Rotated
  <1>2. RotationShape'
    BY <1>0, RotationAssumption DEF RotationShape, TypeOK
  <1>3. JobSound'
    BY <1>0 DEF JobSound, Deploying
  <1>4. Lineage'
    <2>1. Latest.at <= clock /\ deploy.since <= clock /\ deploy.since \in Nat
      BY <1>0 DEF Lineage, Deploy
    <2>2. /\ Latest.at <= clock' /\ deploy.since <= clock'
          /\ Deploying => clock' <= deploy.since + DeployTime
      BY <1>0, <1>1, <2>1, RotationAssumption
    <2>3. UNCHANGED Deploying
      BY <1>0 DEF Deploying
    <2>4. QED
      BY <1>0, <1>1, <2>2, <2>3 DEF Lineage
  <1>5. StampsKnown'
    BY <1>0 DEF StampsKnown
  <1>6. PropagationCovered'
    <2>1. \A d \in Dists : dist[d].since \in Nat
      BY <1>0 DEF Dist
    <2>2. \A d \in Dists : ~Propagated(d) => clock' <= dist[d].since + Propagation
      BY <1>0, <2>1, RotationAssumption
    <2>3. QED
      BY <1>0, <1>1, <2>2 DEF PropagationCovered, Propagated
  <1>7. LookUpsSound'
    <2>1. \A c \in Containers : cache[c].at \in Int
      BY <1>0
    <2>2. \A c \in Containers : cache[c].at <= clock'
      BY <1>0, <2>1 DEF LookUpsSound
    <2>3. QED
      BY <1>0, <1>1, <2>2 DEF LookUpsSound
  <1>8. QED
    BY <1>2, <1>3, <1>4, <1>5, <1>6, <1>7 DEF RotationInvariant

LEMMA NothingMoves == ASSUME RotationInvariant, UNCHANGED vars PROVE RotationInvariant'
  <1>1. UNCHANGED <<clock, deploy, history, env, cache, dist, connector, job>>
    BY DEF vars
  <1>2. /\ job \in [todo: SUBSET Byod, reading: SUBSET Byod, seen: Config]
        /\ job.reading \subseteq job.todo
    BY DEF RotationInvariant, RotationShape, TypeOK
  <1>3. QED
    BY <1>1, <1>2, JobMoves

LEMMA RotationStep == RotationInvariant /\ [Next]_vars => RotationInvariant'
  <1> SUFFICES ASSUME RotationInvariant, [Next]_vars PROVE RotationInvariant'
    OBVIOUS
  <1>1. ASSUME NEW c \in Containers, LookUp(c) PROVE RotationInvariant'
    BY <1>1, LookUpKeeps
  <1>2. CASE Rotate
    BY <1>2, RotateKeeps
  <1>3. CASE UpdateParam
    BY <1>3, UpdateParamKeeps
  <1>4. CASE UpdateAuthorizer
    BY <1>4, UpdateAuthorizerKeeps
  <1>5. CASE UpdateShared
    BY <1>5, UpdateSharedKeeps
  <1>6. CASE UpdateConnector
    BY <1>6, UpdateConnectorKeeps
  <1>7. CASE RestampList
    BY <1>7, RestampListKeeps
  <1>8. CASE RestampFails
    BY <1>8, RestampFailsKeeps
  <1>9. CASE Succeeds
    BY <1>9, SucceedsKeeps
  <1>10. ASSUME NEW d \in Byod,
                RestampGet(d) \/ RestampUpdate(d) \/ CreateDistribution(d) \/ AddDomain(d)
         PROVE  RotationInvariant'
    BY <1>10, RestampGetKeeps, RestampUpdateKeeps, CreateDistributionKeeps, AddDomainKeeps
  <1>11. ASSUME NEW d \in Dists, Propagate(d) PROVE RotationInvariant'
    BY <1>11, PropagateKeeps
  <1>12. CASE Tick
    BY <1>12, TickKeeps
  <1>13. CASE AllOver \/ UNCHANGED vars
    BY <1>13, NothingMoves DEF AllOver
  <1>14. QED
    BY <1>1, <1>2, <1>3, <1>4, <1>5, <1>6, <1>7, <1>8, <1>9, <1>10, <1>11, <1>12, <1>13
       DEF Next

\* Which secret is whose, throughout rotations and rollbacks.
THEOREM RotationInvariantHolds == Spec => []RotationInvariant
  BY RotationInit, RotationStep, PTL DEF Spec

-----------------------------------------------------------------------------
(* What follows.                                                           *)

\* Secrets, versions, distributions and caches keep their types; every
\* distribution there is stamps a secret that was chosen.
THEOREM RotationTypes == Spec => []TypeOK
  <1>1. RotationInvariant => TypeOK
    BY DEF RotationInvariant, RotationShape
  <1>2. QED
    BY <1>1, RotationInvariantHolds, PTL

LEMMA PreviousInGraceOnly == RotationInvariant => OnlyPreviousInGrace
  <1> SUFFICES ASSUME RotationInvariant,
                      Rotated \/ Len(history) = 1, env.secret = Latest.value,
                      NEW c \in Containers, NEW secret \in Secrets \ {env.secret, env.previous},
                      Accepts(c, secret)
               PROVE  /\ Len(history) > 1 /\ secret = Former.value
                      /\ clock < Latest.at + Grace + CacheLife
    BY DEF OnlyPreviousInGrace, Rotated, Latest, Former
  <1>0. /\ RotationShape /\ LookUpsSound /\ clock \in Nat
        /\ cache[c].at \in Int /\ cache[c].value \in Secrets \cup {0}
        /\ secret \in Nat /\ secret # 0
        /\ Latest.at \in Nat /\ Len(history) \in Nat
    <2>1. RotationShape /\ LookUpsSound
      BY DEF RotationInvariant
    <2>2. /\ clock \in Nat /\ cache[c].at \in Int /\ cache[c].value \in Secrets \cup {0}
      BY <2>1 DEF RotationShape, TypeOK
    <2>3. secret \in Nat /\ secret # 0
      BY RotationAssumption DEF Secrets
    <2>4. Latest.at \in Nat /\ Len(history) \in Nat
      BY <2>1, Versions
    <2>5. QED
      BY <2>1, <2>2, <2>3, <2>4
  <1>1. secret = IF Cached(c) THEN cache[c].value ELSE PreviousInGrace
    BY DEF Accepts
  <1>2. CASE ~Cached(c)
    <2>1. Len(history) > 1 /\ clock - Latest.at < Grace /\ secret = Former.value
      BY <1>0, <1>1, <1>2, Versions
    <2>2. QED
      BY <1>0, <2>1, RotationAssumption
  <1>3. CASE Cached(c)
    <2>1. secret = cache[c].value /\ clock - cache[c].at < CacheLife
      BY <1>1, <1>3 DEF Cached
    <2>2. Rotated /\ cache[c] # NoCache
      BY <1>0, <2>1 DEF LookUpsSound, NoCache
    <2>3. cache[c].at < Latest.at + Grace /\ secret = Former.value
      BY <1>0, <2>1, <2>2 DEF LookUpsSound
    <2>4. QED
      BY <1>0, <2>1, <2>2, <2>3, RotationAssumption DEF Rotated
  <1>4. QED
    BY <1>2, <1>3

\* A retired secret is refused: beyond its own environment an authorizer that a
\* rotation has reached takes only the version before, for the grace and the life
\* of a cache entry (previousSecretInGrace).
THEOREM RetiredSecretRefused == Spec => []OnlyPreviousInGrace
  BY RotationInvariantHolds, PreviousInGraceOnly, PTL

LEMMA GraceServes == RotationInvariant => OrderedRotationServed
  <1> SUFFICES ASSUME RotationInvariant, NEW d \in Dists, NEW c \in Containers,
                      deploy.ordered, Cached(c) => cache[c].asked,
                      \/ deploy.phase = "running"
                      \/ deploy.phase = "rest" /\ dist[d].config.stamp = deploy.target,
                      NEW secret \in dist[d].live \cap {deploy.kept, deploy.target}
               PROVE  Accepts(c, secret)
    BY DEF OrderedRotationServed
  <1>0. /\ RotationShape /\ JobSound /\ Lineage /\ StampsKnown /\ PropagationCovered
        /\ LookUpsSound /\ clock \in Nat
        /\ secret \in Nat \ {0} /\ deploy.since \in Nat
        /\ cache[c].at \in Int /\ Latest.at \in Nat /\ dist[d].since \in Nat
        /\ {Grace, DeployTime, Propagation, CacheLife} \subseteq Nat
    <2>1. /\ RotationShape /\ JobSound /\ Lineage /\ StampsKnown /\ PropagationCovered
          /\ LookUpsSound
      BY DEF RotationInvariant
    <2>2. /\ clock \in Nat /\ cache[c].at \in Int /\ dist[d] \in Dist /\ deploy \in Deploy
      BY <2>1 DEF RotationShape, TypeOK
    <2>3. secret \in Secrets /\ dist[d].since \in Nat /\ deploy.since \in Nat
      BY <2>2 DEF Dist, Deploy
    <2>4. Latest.at \in Nat
      BY <2>1, Versions
    <2>5. QED
      BY <2>1, <2>2, <2>3, <2>4, RotationAssumption DEF Secrets
  <1>1. CASE secret = env.secret
    BY <1>0, <1>1 DEF Accepts
  <1>2. CASE secret # env.secret
    <2>1. secret = deploy.kept /\ deploy.kept # deploy.target /\ env.secret = deploy.target
      <3>1. CASE deploy.phase = "rest"
        BY <1>2, <1>0, <3>1 DEF Lineage
      <3>2. CASE deploy.phase = "running"
        BY <1>2, <1>0, <3>2 DEF Lineage, StampsKnown
      <3>3. QED
        BY <3>1, <3>2
    <2>2. Rotated /\ Former.value = deploy.kept /\ Latest.value = env.secret
      BY <1>0, <2>1 DEF Lineage
    <2>3. clock < Latest.at + Grace
      <3>1. CASE deploy.phase = "running"
        <4>1. deploy.since <= Latest.at /\ clock <= deploy.since + DeployTime
          BY <1>0, <2>1, <3>1 DEF Lineage, Deploying
        <4>2. QED
          BY <1>0, <4>1, GraceAssumption
      <3>2. CASE deploy.phase = "rest"
        <4>1. ~Propagated(d)
          BY <1>0, <2>1, <3>2 DEF Propagated, JobSound
        <4>2. clock <= dist[d].since + Propagation /\ dist[d].since <= Latest.at + DeployTime
          BY <1>0, <2>1, <3>2, <4>1 DEF PropagationCovered
        <4>3. QED
          BY <1>0, <4>2, GraceAssumption
      <3>3. QED
        BY <3>1, <3>2
    <2>4. ~Cached(c) => PreviousInGrace = secret
      BY <1>0, <2>1, <2>2, <2>3, Versions DEF Rotated
    <2>5. ASSUME Cached(c) PROVE cache[c].value = secret
      <3>1. cache[c].asked /\ cache[c].at <= clock
        BY <1>0, <2>5 DEF LookUpsSound
      <3>2. cache[c] # NoCache
        BY <1>0, <2>5 DEF Cached, NoCache
      <3>3. cache[c].at < Latest.at + Grace
        BY <1>0, <2>3, <3>1
      <3>4. QED
        BY <1>0, <2>1, <2>2, <3>1, <3>2, <3>3 DEF LookUpsSound
    <2>6. QED
      BY <1>0, <2>4, <2>5 DEF Accepts
  <1>3. QED
    BY <1>1, <1>2

\* A rotation that reaches the authorizer before the edges refuses no stamped
\* request, however long CloudFront takes and whatever the authorizers remember:
\* the grace covers it (previousSecretInGrace, "no 403 window").
THEOREM RotationServed == Spec => []OrderedRotationServed
  BY RotationInvariantHolds, GraceServes, PTL

-----------------------------------------------------------------------------
(* What a step never undoes.                                               *)

\* What DomainsKept says of one step.
KeepsDomains == \A d \in Byod : dist'[d].config.domains >= dist[d].config.domains

LEMMA DomainsStep == RotationInvariant /\ [Next]_vars => [KeepsDomains]_dist
  <1> SUFFICES ASSUME RotationInvariant, [Next]_vars, dist' # dist PROVE KeepsDomains
    OBVIOUS
  <1>0. /\ JobSound /\ dist \in [Dists -> Dist] /\ Byod \subseteq Dists
        /\ Shared \notin Byod /\ job.seen \in Config /\ job.reading \subseteq Byod
    BY RotationAssumption DEF RotationInvariant, RotationShape, TypeOK, Dists
  <1>1. \A d \in Dists : dist[d].config.domains \in Nat
    BY <1>0 DEF Dist, Config
  <1>2. CASE UpdateShared
    <2>1. \A d \in Byod : dist'[d] = dist[d]
      BY <1>0, <1>2 DEF UpdateShared, Restamped
    <2>2. QED
      BY <1>0, <1>1, <2>1 DEF KeepsDomains
  <1>3. ASSUME NEW d \in Byod, RestampUpdate(d) PROVE KeepsDomains
    <2>1. /\ \A x \in Byod \ {d} : dist'[x] = dist[x]
          /\ dist'[d].config = [job.seen EXCEPT !.stamp = deploy.target]
          /\ dist[d].config = job.seen
      BY <1>0, <1>3 DEF RestampUpdate, Restamped
    <2>2. dist'[d].config.domains = dist[d].config.domains
      BY <1>0, <2>1 DEF Config
    <2>3. \A x \in Byod : dist'[x].config.domains = dist[x].config.domains
      BY <2>1, <2>2
    <2>4. QED
      BY <1>0, <1>1, <2>3 DEF KeepsDomains
  <1>4. ASSUME NEW d \in Byod, CreateDistribution(d) PROVE KeepsDomains
    <2>1. /\ \A x \in Byod \ {d} : dist'[x] = dist[x]
          /\ dist'[d].config.domains = 1
      BY <1>0, <1>4 DEF CreateDistribution
    <2>2. dist[d].config.domains = 0
      BY <1>0, <1>4 DEF CreateDistribution, JobSound
    <2>3. QED
      BY <1>0, <1>1, <2>1, <2>2 DEF KeepsDomains
  <1>5. ASSUME NEW d \in Byod, AddDomain(d) PROVE KeepsDomains
    <2>1. \A x \in Byod \ {d} : dist'[x] = dist[x]
      BY <1>0, <1>5 DEF AddDomain
    <2>2. dist'[d].config.domains = dist[d].config.domains + 1
      BY <1>0, <1>5 DEF AddDomain, Dist, Config
    <2>3. dist'[d].config.domains >= dist[d].config.domains
      BY <1>0, <1>1, <2>2
    <2>4. QED
      BY <1>0, <1>1, <2>1, <2>3 DEF KeepsDomains
  <1>6. ASSUME NEW d \in Dists, Propagate(d) PROVE KeepsDomains
    <2>1. ASSUME NEW x \in Byod PROVE dist'[x].config.domains >= dist[x].config.domains
      <3>1. dist'[x].config = dist[x].config
        BY <1>0, <1>6, <2>1 DEF Propagate
      <3>2. dist'[x].config.domains = dist[x].config.domains /\ dist[x].config.domains \in Nat
        BY <1>0, <1>1, <2>1, <3>1
      <3>3. QED
        BY <3>2
    <2>2. QED
      BY <2>1 DEF KeepsDomains
  <1>7. /\ \A c \in Containers : LookUp(c) => UNCHANGED dist
        /\ \A d \in Byod : RestampGet(d) => UNCHANGED dist
        /\ Rotate \/ UpdateParam \/ UpdateAuthorizer \/ UpdateConnector => UNCHANGED dist
        /\ RestampList \/ RestampFails \/ Succeeds \/ Tick \/ AllOver => UNCHANGED dist
        /\ UNCHANGED vars => UNCHANGED dist
    BY DEF LookUp, RestampGet, Rotate, UpdateParam, UpdateAuthorizer, UpdateConnector,
           RestampList, RestampFails, Succeeds, Tick, AllOver, vars
  <1>8. QED
    BY <1>2, <1>3, <1>4, <1>5, <1>6, <1>7 DEF Next

\* However a deploy's re-stamp and the connector's edits of a distribution
\* interleave, no domain the connector added is lost (IfMatch).
THEOREM DomainsAlwaysKept == Spec => DomainsKept
  <1>1. Spec => [][KeepsDomains]_dist
    BY RotationInvariantHolds, DomainsStep, PTL DEF Spec
  <1>2. QED
    BY <1>1, PTL DEF DomainsKept, KeepsDomains
=============================================================================
