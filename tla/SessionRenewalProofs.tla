-------------------------- MODULE SessionRenewalProofs --------------------------
(***************************************************************************)
(* What holds of SessionRenewal for every number of requests and tabs,     *)
(* every life of the tokens and every set of deployments.                  *)
(***************************************************************************)
EXTENDS SessionRenewal, SequenceTheorems, TLAPS

-----------------------------------------------------------------------------
(* The three ways the tokens of Cognito change.                            *)

\* What a change leaves of the tokens: their sessions and their births, and no
\* dead one comes back.
Older(ts, us) ==
    /\ Len(ts) <= Len(us)
    /\ \A t \in 1..Len(ts) :
         /\ us[t].session = ts[t].session /\ us[t].born = ts[t].born
         /\ us[t].state = "live" => ts[t].state = "live"

\* A live token belongs to a session that already had one, or to a new one.
Rooted(ts, us) ==
    \A u \in 1..Len(us) : us[u].state = "live" =>
        \/ us[u].session = Len(ts) + 1
        \/ \E t \in 1..Len(ts) : ts[t].state = "live" /\ ts[t].session = us[u].session

Grows(ts, us) == TokensSound(us) /\ Older(ts, us) /\ Rooted(ts, us)

LEMMA Unchanged == ASSUME NEW ts, TokensSound(ts) PROVE Grows(ts, ts)
  <1>1. Len(ts) \in Nat
    BY DEF TokensSound
  <1>2. QED
    BY <1>1 DEF Grows, Older, Rooted

\* A token dies: no other token of its session is live.
LEMMA Dies ==
    ASSUME NEW ts, TokensSound(ts), NEW t \in 1..Len(ts), NEW s \in {"rotated", "revoked"}
    PROVE  LET us == [ts EXCEPT ![t].state = s] IN
           /\ Grows(ts, us) /\ Len(us) = Len(ts) /\ us[t].state # "live"
           /\ \A u \in 1..Len(us) : us[u].state = "live" => u # t /\ ts[u].state = "live"
  <1> DEFINE us == [ts EXCEPT ![t].state = s]
  <1>1. /\ us \in Seq(RefreshToken) /\ Len(us) = Len(ts) /\ Len(ts) \in Nat
        /\ us[t] = [ts[t] EXCEPT !.state = s]
        /\ \A u \in 1..Len(ts) : u # t => us[u] = ts[u]
    <2>1. ts \in Seq(RefreshToken) /\ ts[t] \in RefreshToken /\ Len(ts) \in Nat
      BY DEF TokensSound
    <2> DEFINE e == [ts[t] EXCEPT !.state = s]
    <2>2. e \in RefreshToken
      BY <2>1 DEF RefreshToken
    <2>3. us = [ts EXCEPT ![t] = e]
      OBVIOUS
    <2> HIDE DEF e
    <2>4. /\ us \in Seq(RefreshToken) /\ Len(us) = Len(ts)
          /\ \A u \in 1..Len(ts) : us[u] = IF u = t THEN e ELSE ts[u]
      BY <2>1, <2>2, <2>3, ExceptSeq
    <2>5. QED
      BY <2>1, <2>4 DEF e
  <1>2. \A u \in 1..Len(ts) : ts[u] \in RefreshToken
    BY DEF TokensSound
  <1>3. /\ us[t].session = ts[t].session /\ us[t].born = ts[t].born
        /\ us[t].state = s
    BY <1>1, <1>2 DEF RefreshToken
  <1> HIDE DEF us
  <1>4. \A u \in 1..Len(ts) :
          /\ us[u].session = ts[u].session /\ us[u].born = ts[u].born
          /\ us[u].state = "live" => u # t /\ ts[u].state = "live"
    BY <1>1, <1>3
  <1>5. Older(ts, us)
    BY <1>1, <1>4 DEF Older
  <1>6. Rooted(ts, us)
    BY <1>1, <1>4 DEF Rooted
  <1>7. TokensSound(us)
    BY <1>1, <1>4 DEF TokensSound
  <1>8. us[t].state # "live"
    BY <1>3
  <1>9. QED
    BY <1>1, <1>4, <1>5, <1>6, <1>7, <1>8 DEF Grows, us

\* A token is issued, for a new session or one without a live token.
LEMMA Issued ==
    ASSUME NEW ts, TokensSound(ts), NEW new \in RefreshToken,
           new.session \in 1..(Len(ts) + 1),
           \A t \in 1..Len(ts) : ts[t].state = "live" => ts[t].session # new.session
    PROVE  LET us == Append(ts, new) IN
           /\ TokensSound(us) /\ Older(ts, us) /\ Len(us) = Len(ts) + 1
           /\ us[Len(ts) + 1] = new
           /\ \A t \in 1..Len(ts) : us[t] = ts[t]
  <1> DEFINE us == Append(ts, new)
  <1>1. /\ us \in Seq(RefreshToken) /\ Len(us) = Len(ts) + 1 /\ Len(ts) \in Nat
        /\ us[Len(ts) + 1] = new
        /\ \A t \in 1..Len(ts) : us[t] = ts[t]
    BY DEF TokensSound
  <1> HIDE DEF us
  <1>2. Older(ts, us)
    BY <1>1 DEF Older
  <1>3. \A t \in 1..Len(us) : us[t].session \in 1..t
    BY <1>1 DEF TokensSound
  <1>4. ASSUME NEW t \in 1..Len(us), NEW u \in 1..Len(us),
               us[t].state = "live", us[u].state = "live", us[t].session = us[u].session
        PROVE  t = u
    <2>1. CASE t \in 1..Len(ts) /\ u \in 1..Len(ts)
      BY <1>1, <1>4, <2>1 DEF TokensSound
    <2>2. CASE t \in 1..Len(ts) /\ u = Len(ts) + 1
      BY <1>1, <1>4, <2>2
    <2>3. CASE t = Len(ts) + 1 /\ u \in 1..Len(ts)
      BY <1>1, <1>4, <2>3
    <2>4. CASE t = Len(ts) + 1 /\ u = Len(ts) + 1
      BY <2>4
    <2>5. QED
      BY <1>1, <2>1, <2>2, <2>3, <2>4
  <1>5. TokensSound(us)
    BY <1>1, <1>3, <1>4 DEF TokensSound
  <1>6. QED
    BY <1>1, <1>2, <1>5 DEF us

LEMMA Begins ==
    ASSUME TokensSound(tokens), clock \in Nat
    PROVE  LET us == Append(tokens, NewToken) IN
           Grows(tokens, us) /\ Len(us) = Len(tokens) + 1
  <1>1. /\ NewToken \in RefreshToken /\ NewToken.session = Len(tokens) + 1
        /\ Len(tokens) \in Nat
    BY DEF NewToken, RefreshToken, TokensSound
  <1>2. \A t \in 1..Len(tokens) : tokens[t].session # NewToken.session
    BY <1>1 DEF TokensSound
  <1> DEFINE us == Append(tokens, NewToken)
  <1>3. /\ TokensSound(us) /\ Older(tokens, us) /\ Len(us) = Len(tokens) + 1
        /\ us[Len(tokens) + 1] = NewToken
        /\ \A t \in 1..Len(tokens) : us[t] = tokens[t]
    BY <1>1, <1>2, Issued
  <1> HIDE DEF us
  <1>4. Rooted(tokens, us)
    BY <1>1, <1>3 DEF Rooted
  <1>5. QED
    BY <1>3, <1>4 DEF Grows, us

LEMMA Rotates ==
    ASSUME TokensSound(tokens), NEW t \in 1..Len(tokens), tokens[t].state = "live"
    PROVE  LET us == Append([tokens EXCEPT ![t].state = "rotated"], Reissued(t)) IN
           Grows(tokens, us) /\ Len(us) = Len(tokens) + 1
  <1> DEFINE ts == [tokens EXCEPT ![t].state = "rotated"]
             us == Append(ts, Reissued(t))
  <1>1. /\ TokensSound(ts) /\ Older(tokens, ts) /\ Rooted(tokens, ts)
        /\ Len(ts) = Len(tokens) /\ Len(tokens) \in Nat
        /\ \A u \in 1..Len(ts) : ts[u].state = "live" => u # t /\ tokens[u].state = "live"
    <2>1. "rotated" \in {"rotated", "revoked"} /\ Len(tokens) \in Nat
      BY DEF TokensSound
    <2>2. /\ Grows(tokens, ts) /\ Len(ts) = Len(tokens)
          /\ \A u \in 1..Len(ts) : ts[u].state = "live" => u # t /\ tokens[u].state = "live"
      BY <2>1, Dies
    <2>3. QED
      BY <2>1, <2>2 DEF Grows
  <1>2. /\ tokens[t] \in RefreshToken /\ tokens[t].session \in 1..t
        /\ \A u \in 1..Len(tokens) :
             tokens[u].state = "live" /\ tokens[u].session = tokens[t].session => t = u
    BY DEF TokensSound
  <1>3. /\ Reissued(t) \in RefreshToken /\ Reissued(t).session = tokens[t].session
    BY <1>2 DEF Reissued, RefreshToken
  <1> HIDE DEF ts
  <1>4. \A u \in 1..Len(ts) : ts[u].state = "live" => ts[u].session # Reissued(t).session
    BY <1>1, <1>2, <1>3 DEF Older
  <1>5. Reissued(t).session \in 1..(Len(ts) + 1)
    BY <1>1, <1>2, <1>3
  <1>6. /\ TokensSound(us) /\ Older(ts, us) /\ Len(us) = Len(ts) + 1
        /\ us[Len(ts) + 1] = Reissued(t)
        /\ \A u \in 1..Len(ts) : us[u] = ts[u]
    BY <1>1, <1>3, <1>4, <1>5, Issued
  <1> HIDE DEF us
  <1>7. Older(tokens, us)
    BY <1>1, <1>6 DEF Older
  <1>8. Rooted(tokens, us)
    <2>1. ASSUME NEW u \in 1..Len(us), us[u].state = "live", u # Len(ts) + 1
          PROVE  \E v \in 1..Len(tokens) :
                   tokens[v].state = "live" /\ tokens[v].session = us[u].session
      <3>1. u \in 1..Len(ts) /\ us[u] = ts[u]
        BY <1>1, <1>6, <2>1
      <3>2. tokens[u].state = "live" /\ tokens[u].session = ts[u].session
        BY <1>1, <2>1, <3>1 DEF Older
      <3>3. QED
        BY <1>1, <3>1, <3>2
    <2>2. us[Len(ts) + 1].session = tokens[t].session
      BY <1>3, <1>6
    <2>3. QED
      BY <2>1, <2>2 DEF Rooted
  <1>9. QED
    BY <1>1, <1>6, <1>7, <1>8 DEF Grows, us, ts

LEMMA Revokes ==
    ASSUME TokensSound(tokens), NEW t
    PROVE  /\ Grows(tokens, Revoked(t)) /\ Len(Revoked(t)) = Len(tokens)
           /\ Live(t) => \A u \in 1..Len(tokens) :
                Revoked(t)[u].session = tokens[t].session => Revoked(t)[u].state # "live"
  <1>1. CASE Live(t)
    <2>1. /\ t \in 1..Len(tokens) /\ tokens[t].state = "live"
          /\ Revoked(t) = [tokens EXCEPT ![t].state = "revoked"]
      BY <1>1 DEF Live, Revoked
    <2>2. /\ Grows(tokens, Revoked(t)) /\ Len(Revoked(t)) = Len(tokens)
          /\ \A u \in 1..Len(tokens) :
               Revoked(t)[u].state = "live" => u # t /\ tokens[u].state = "live"
      <3>1. "revoked" \in {"rotated", "revoked"}
        OBVIOUS
      <3> DEFINE us == [tokens EXCEPT ![t].state = "revoked"]
      <3>2. /\ Grows(tokens, us) /\ Len(us) = Len(tokens)
            /\ \A u \in 1..Len(us) : us[u].state = "live" => u # t /\ tokens[u].state = "live"
        BY <2>1, <3>1, Dies
      <3>3. us = Revoked(t)
        BY <2>1
      <3> HIDE DEF us
      <3>4. QED
        BY <3>2, <3>3
    <2>3. \A u \in 1..Len(tokens) : Revoked(t)[u].session = tokens[u].session
      BY <2>2 DEF Grows, Older
    <2>4. \A u \in 1..Len(tokens) :
            tokens[u].state = "live" /\ tokens[u].session = tokens[t].session => t = u
      BY <2>1 DEF TokensSound
    <2>5. QED
      BY <2>2, <2>3, <2>4
  <1>2. CASE ~Live(t)
    BY <1>2, Unchanged DEF Revoked
  <1>3. QED
    BY <1>1, <1>2

-----------------------------------------------------------------------------
(* A step of one invocation.                                               *)

LEMMA SessionParts ==
    ASSUME SessionInvariant
    PROVE  /\ setting \in Settings /\ clock \in 0..MaxClock /\ clock \in Nat
           /\ allowed \in BOOLEAN /\ removedAt \in 0..clock /\ removedAt \in Nat
           /\ TokensSound(tokens) /\ Len(tokens) \in Nat
           /\ jar \in Jar /\ jar.rt <= Len(tokens) /\ IdSound(jar.id)
           /\ logouts \subseteq [session: 1..Len(tokens), at: 0..clock]
           /\ \A r \in Requests :
                /\ req[r] \in Request /\ req[r].rt \in Nat /\ req[r].rt <= Len(tokens)
                /\ IdSound(req[r].id)
           /\ IdLife \in Nat /\ CodeLife \in Nat /\ RefreshLife \in Nat /\ MaxClock \in Nat
  <1>1. SessionShape /\ MaxClock \in Nat /\ IdLife \in Nat /\ CodeLife \in Nat /\ RefreshLife \in Nat
    BY LivesAssumption DEF SessionInvariant
  <1>2. clock \in Nat /\ removedAt \in Nat /\ Len(tokens) \in Nat
    BY <1>1 DEF SessionShape, TokensSound
  <1>3. \A r \in Requests : req[r] \in Request /\ req[r].rt \in Nat
    BY <1>1 DEF SessionShape, Request
  <1>4. QED
    BY <1>1, <1>2, <1>3 DEF SessionShape

\* Whatever an invocation does, what the invariant says of the others stays true
\* while Cognito's tokens only grow and no logout closes a session still alive.
LEMMA Moves ==
    ASSUME SessionInvariant, NEW r \in Requests, NEW q \in Request,
           req' = [req EXCEPT ![r] = q],
           UNCHANGED <<setting, clock, allowed, removedAt, jar>>,
           TokensSound(tokens'), Older(tokens, tokens'),
           q.rt <= Len(tokens'), IdSound(q.id)',
           logouts' \subseteq [session: 1..Len(tokens'), at: 0..clock],
           \A l \in logouts' :
               /\ \A t \in 1..Len(tokens') : tokens'[t].session = l.session => ~Live(t)'
               /\ EndsAfterLogout(q.id, l)
               /\ l \in logouts \/ l.at = clock,
           ~allowed /\ ~setting.unreadable => PendingEnds(q),
           ForCause(q)'
    PROVE  SessionInvariant'
  <1>1. /\ setting \in Settings /\ clock \in 0..MaxClock /\ clock \in Nat
        /\ allowed \in BOOLEAN /\ removedAt \in 0..clock
        /\ Len(tokens) \in Nat /\ Len(tokens') \in Nat /\ Len(tokens) <= Len(tokens')
        /\ jar \in Jar /\ jar.rt <= Len(tokens) /\ IdSound(jar.id)
        /\ IdLife \in Nat
    BY SessionParts DEF TokensSound, Older
  <1>2. \A p \in Requests : /\ req[p] \in Request /\ req[p].rt \in Nat
                            /\ req[p].rt <= Len(tokens) /\ IdSound(req[p].id)
    BY SessionParts
  <1>3. /\ req \in [Requests -> Request] /\ req' \in [Requests -> Request]
        /\ \A p \in Requests : req'[p] = IF p = r THEN q ELSE req[p]
    BY DEF SessionInvariant, SessionShape
  <1>4. \A id : IdSound(id) => IdSound(id)'
    BY <1>1 DEF IdSound, IdToken
  <1>5. IdSound(jar.id)' /\ jar' \in Jar /\ jar'.rt <= Len(tokens')
    BY <1>1, <1>4 DEF Jar
  <1>6. ASSUME NEW p \in Requests PROVE req'[p].rt <= Len(tokens') /\ IdSound(req[p].id)'
    <2>1. CASE p = r
      BY <1>3, <2>1
    <2>2. CASE p # r
      BY <1>1, <1>2, <1>3, <1>4, <2>2
    <2>3. QED
      BY <2>1, <2>2
  <1>7. SessionShape'
    BY <1>1, <1>3, <1>5, <1>6 DEF SessionShape
  <1>8. RemovalInvariant'
    <2> SUFFICES ASSUME ~allowed, ~setting.unreadable
                 PROVE  EndsAfterRemoval(jar.id)' /\ \A p \in Requests : PendingEnds(req[p])'
      BY DEF RemovalInvariant
    <2>1. EndsAfterRemoval(jar.id) /\ \A p \in Requests : PendingEnds(req[p])
      BY DEF SessionInvariant, RemovalInvariant
    <2>2. \A k : PendingEnds(k) => PendingEnds(k)'
      BY DEF PendingEnds, EndsAfterRemoval
    <2>3. ASSUME NEW p \in Requests PROVE PendingEnds(req[p])'
      <3>1. CASE p = r
        <4>1. req'[p] = q /\ PendingEnds(q)
          BY <1>3, <3>1
        <4>2. QED
          BY <4>1 DEF PendingEnds, EndsAfterRemoval
      <3>2. CASE p # r
        <4>1. req'[p] = req[p] /\ PendingEnds(req[p])
          BY <1>3, <2>1, <3>2
        <4>2. QED
          BY <4>1 DEF PendingEnds, EndsAfterRemoval
      <3>3. QED
        BY <3>1, <3>2
    <2>4. QED
      BY <2>1, <2>3 DEF EndsAfterRemoval
  <1>9. LogoutInvariant'
    <2> SUFFICES ASSUME NEW l \in logouts'
                 PROVE  /\ \A t \in 1..Len(tokens') : tokens'[t].session = l.session => ~Live(t)'
                        /\ EndsAfterLogout(jar'.id, l)
                        /\ \A p \in Requests : EndsAfterLogout(req'[p].id, l)
      BY DEF LogoutInvariant
    <2>1. ASSUME NEW id, IdSound(id), l \in logouts => EndsAfterLogout(id, l)
          PROVE  EndsAfterLogout(id, l)
      BY <2>1 DEF IdSound, EndsAfterLogout
    <2>2. /\ l \in logouts => EndsAfterLogout(jar.id, l)
          /\ \A p \in Requests : l \in logouts => EndsAfterLogout(req[p].id, l)
      BY DEF SessionInvariant, LogoutInvariant
    <2>3. EndsAfterLogout(jar'.id, l)
      BY <1>1, <2>1, <2>2
    <2>4. ASSUME NEW p \in Requests PROVE EndsAfterLogout(req'[p].id, l)
      BY <1>2, <1>3, <2>1, <2>2
    <2>5. QED
      BY <2>3, <2>4
  <1>10. RefusalInvariant'
    <2>1. ASSUME NEW p \in Requests PROVE ForCause(req[p])'
      <3>1. CASE p = r
        <4>1. req'[p] = q
          BY <1>3, <3>1
        <4>2. QED
          BY <4>1 DEF ForCause, Honoured, Live
      <3>2. CASE p # r
        <4>1. req'[p] = req[p] /\ ForCause(req[p]) /\ req[p].rt <= Len(tokens) /\ req[p].rt \in Nat
          BY <1>2, <1>3, <3>2 DEF SessionInvariant, RefusalInvariant
        <4>2. ~Honoured(req[p].rt) => ~Honoured(req[p].rt)'
          BY <1>1, <4>1 DEF Honoured, Live, Older
        <4>3. QED
          BY <4>1, <4>2 DEF ForCause
      <3>3. QED
        BY <3>1, <3>2
    <2>2. QED
      BY <2>1 DEF RefusalInvariant
  <1>11. QED
    BY <1>7, <1>8, <1>9, <1>10 DEF SessionInvariant

\* The same where no logout acts.
LEMMA MovesOn ==
    ASSUME SessionInvariant, NEW r \in Requests, NEW q \in Request,
           req' = [req EXCEPT ![r] = q],
           UNCHANGED <<setting, clock, allowed, removedAt, jar, logouts>>,
           Grows(tokens, tokens'),
           q.rt <= Len(tokens'), IdSound(q.id)',
           \A l \in logouts : EndsAfterLogout(q.id, l),
           ~allowed /\ ~setting.unreadable => PendingEnds(q),
           ForCause(q)'
    PROVE  SessionInvariant'
  <1>1. /\ TokensSound(tokens') /\ Older(tokens, tokens') /\ Rooted(tokens, tokens')
        /\ Len(tokens) \in Nat /\ Len(tokens') \in Nat /\ Len(tokens) <= Len(tokens')
    BY SessionParts DEF Grows, TokensSound, Older
  <1>2. logouts \subseteq [session: 1..Len(tokens), at: 0..clock]
    BY SessionParts
  <1>3. logouts' \subseteq [session: 1..Len(tokens'), at: 0..clock]
    BY <1>1, <1>2
  <1>4. ASSUME NEW l \in logouts, NEW t \in 1..Len(tokens'), tokens'[t].session = l.session
        PROVE  ~Live(t)'
    <2>1. l.session \in 1..Len(tokens)
      BY <1>2
    <2>2. \A u \in 1..Len(tokens) : tokens[u].session = l.session => tokens[u].state # "live"
      BY DEF SessionInvariant, LogoutInvariant, Live
    <2>3. tokens'[t].state # "live"
      BY <1>1, <1>4, <2>1, <2>2 DEF Rooted
    <2>4. QED
      BY <2>3 DEF Live
  <1>5. QED
    BY <1>1, <1>3, <1>4, Moves

\* The same where Cognito's tokens stay as they are.
LEMMA Stays ==
    ASSUME SessionInvariant, NEW r \in Requests, NEW q \in Request,
           req' = [req EXCEPT ![r] = q],
           UNCHANGED <<setting, clock, allowed, removedAt, tokens, jar, logouts>>,
           q.rt <= Len(tokens), IdSound(q.id),
           \A l \in logouts : EndsAfterLogout(q.id, l),
           ~allowed /\ ~setting.unreadable => PendingEnds(q),
           ForCause(q)
    PROVE  SessionInvariant'
  <1>1. Grows(tokens, tokens')
    BY Unchanged, SessionParts
  <1>2. IdSound(q.id)' /\ ForCause(q)'
    BY DEF IdSound, ForCause, Honoured, Live
  <1>3. QED
    BY <1>1, <1>2, MovesOn

\* An invocation that is over, or has not begun, brings nothing.
Over == [IdleRequest EXCEPT !.pc = "done"]

LEMMA IdleFacts ==
    ASSUME SessionInvariant
    PROVE  /\ IdleRequest \in Request /\ Over \in Request
           /\ Over.rt = 0 /\ Over.id = NoId /\ Over.pc = "done"
           /\ NoId \in IdToken /\ IdSound(NoId)
           /\ \A l \in logouts : EndsAfterLogout(NoId, l)
           /\ PendingEnds(Over) /\ ForCause(Over)
  <1>1. NoId \in IdToken /\ NoId.exp = 0 /\ NoId.session = 0
    BY DEF NoId, IdToken
  <1>2. /\ IdleRequest \in Request /\ Over \in Request
        /\ Over.rt = 0 /\ Over.id = NoId /\ Over.pc = "done"
    BY <1>1 DEF Over, IdleRequest, Request
  <1>3. IdSound(NoId)
    BY <1>1, SessionParts DEF IdSound
  <1>4. \A l \in logouts : EndsAfterLogout(NoId, l)
    BY <1>1, SessionParts DEF EndsAfterLogout
  <1>5. PendingEnds(Over) /\ ForCause(Over)
    BY <1>2 DEF PendingEnds, ForCause
  <1>6. QED
    BY <1>1, <1>2, <1>3, <1>4, <1>5

LEMMA DoneKeeps ==
    ASSUME SessionInvariant, NEW r \in Requests, Done(r),
           UNCHANGED <<setting, clock, allowed, removedAt, jar, logouts>>,
           Grows(tokens, tokens')
    PROVE  SessionInvariant'
  <1>1. /\ Over \in Request /\ Over.rt = 0 /\ Over.id = NoId /\ Over.pc = "done"
        /\ IdSound(NoId) /\ \A l \in logouts : EndsAfterLogout(NoId, l)
        /\ PendingEnds(Over)
    BY IdleFacts
  <1>2. req' = [req EXCEPT ![r] = Over]
    BY DEF Done, Over
  <1>3. Len(tokens) \in Nat /\ Len(tokens') \in Nat /\ Len(tokens) <= Len(tokens')
    BY SessionParts DEF Grows, TokensSound, Older
  <1>4. IdSound(Over.id)' /\ ForCause(Over)' /\ Over.rt <= Len(tokens')
    BY <1>1, <1>3 DEF IdSound, IdToken, ForCause
  <1>5. \A l \in logouts : EndsAfterLogout(Over.id, l)
    BY <1>1
  <1>6. QED
    BY <1>1, <1>2, <1>4, <1>5, MovesOn

-----------------------------------------------------------------------------
(* The actions.                                                            *)

LEMMA SignInGateKeeps ==
    ASSUME SessionInvariant, NEW r \in Requests, SignInGate(r)
    PROVE  SessionInvariant'
  <1> DEFINE p == req[r]
             q == [p EXCEPT !.pc = "code", !.route = "signIn", !.since = clock]
  <1>1. /\ p \in Request /\ p.rt <= Len(tokens) /\ IdSound(p.id) /\ clock \in Nat
        /\ \A l \in logouts : EndsAfterLogout(p.id, l)
    BY SessionParts DEF SessionInvariant, LogoutInvariant
  <1>2. /\ req' = [req EXCEPT ![r] = q] /\ (allowed \/ setting.unreadable)
        /\ UNCHANGED <<setting, clock, allowed, removedAt, tokens, jar, logouts>>
    BY DEF SignInGate, LetsIn
  <1> HIDE DEF p
  <1>3. q \in Request /\ q.rt = p.rt /\ q.id = p.id /\ q.pc = "code" /\ q.since = clock
    BY <1>1 DEF Request
  <1> HIDE DEF q
  <1>4. ForCause(q) /\ q.rt <= Len(tokens) /\ IdSound(q.id)
        /\ \A l \in logouts : EndsAfterLogout(q.id, l)
    BY <1>1, <1>3 DEF ForCause
  <1>5. QED
    BY <1>2, <1>3, <1>4, Stays

LEMMA SignInTokensKeeps ==
    ASSUME SessionInvariant, NEW r \in Requests, SignInTokens(r)
    PROVE  SessionInvariant'
  <1>a. PICK p, n, id : p = req[r] /\ n = Len(tokens) + 1 /\ id = NewId(n, "signIn")
    OBVIOUS
  <1> DEFINE q == [p EXCEPT !.pc = "answer", !.cookies = "set", !.rt = n, !.id = id]
  <1>1. /\ p \in Request /\ clock \in Nat /\ Len(tokens) \in Nat /\ TokensSound(tokens)
        /\ IdLife \in Nat /\ CodeLife \in Nat /\ removedAt \in Nat
        /\ logouts \subseteq [session: 1..Len(tokens), at: 0..clock]
    BY <1>a, SessionParts
  <1>2. /\ p.pc = "code" /\ clock <= p.since + CodeLife /\ p.since \in Nat
        /\ tokens' = Append(tokens, NewToken)
        /\ req' = [req EXCEPT ![r] = q]
        /\ UNCHANGED <<setting, clock, allowed, removedAt, jar, logouts>>
    BY <1>a, <1>1 DEF SignInTokens, Request
  <1>3. Grows(tokens, tokens') /\ Len(tokens') = n
    BY <1>a, <1>1, <1>2, Begins
  <1>4. /\ id \in IdToken /\ id.exp = clock + IdLife /\ id.session = n /\ id.by = "signIn" /\ n \in Nat
    BY <1>a, <1>1 DEF NewId, IdToken
  <1>5. ~allowed /\ ~setting.unreadable => p.since <= removedAt
    BY <1>a, <1>2 DEF SessionInvariant, RemovalInvariant, PendingEnds
  <1>6. /\ q \in Request /\ q.rt = n /\ q.id = id /\ q.pc = "answer" /\ q.cookies = "set"
    BY <1>1, <1>4 DEF Request
  <1> HIDE DEF q
  <1>7. IdSound(q.id)' /\ ForCause(q)' /\ q.rt <= Len(tokens')
    BY <1>1, <1>2, <1>3, <1>4, <1>6 DEF IdSound, ForCause
  <1>8. \A l \in logouts : EndsAfterLogout(q.id, l)
    BY <1>a, <1>1, <1>4, <1>6 DEF EndsAfterLogout
  <1>9. ~allowed /\ ~setting.unreadable => PendingEnds(q)
    BY <1>1, <1>2, <1>4, <1>5, <1>6 DEF PendingEnds, EndsAfterRemoval
  <1>10. QED
    BY <1>2, <1>3, <1>6, <1>7, <1>8, <1>9, MovesOn

LEMMA VisitKeeps ==
    ASSUME SessionInvariant, NEW r \in Requests, NEW route \in {"login", "refresh"},
           Visit(r, route)
    PROVE  SessionInvariant'
  <1> DEFINE p == req[r]
             q == [p EXCEPT !.pc = "renew", !.route = route, !.rt = jar.rt]
  <1>1. /\ p \in Request /\ p.rt <= Len(tokens) /\ IdSound(p.id) /\ TokensSound(tokens)
        /\ jar.rt \in Nat /\ jar.rt <= Len(tokens)
        /\ \A l \in logouts : EndsAfterLogout(p.id, l)
    BY SessionParts DEF SessionInvariant, LogoutInvariant, Jar
  <1>2. /\ UNCHANGED <<setting, clock, allowed, removedAt, tokens, jar, logouts>>
        /\ Done(r) \/ req' = [req EXCEPT ![r] = q]
    BY DEF Visit
  <1> HIDE DEF p
  <1>3. q \in Request /\ q.rt = jar.rt /\ q.id = p.id /\ q.pc = "renew"
    BY <1>1 DEF Request
  <1> HIDE DEF q
  <1>4. CASE Done(r)
    BY <1>1, <1>2, <1>4, Unchanged, DoneKeeps
  <1>5. CASE req' = [req EXCEPT ![r] = q]
    <2>1. /\ ForCause(q) /\ q.rt <= Len(tokens) /\ IdSound(q.id) /\ PendingEnds(q)
          /\ \A l \in logouts : EndsAfterLogout(q.id, l)
      BY <1>1, <1>3 DEF ForCause, PendingEnds
    <2>2. QED
      BY <1>2, <1>3, <1>5, <2>1, Stays
  <1>6. QED
    BY <1>2, <1>4, <1>5

\* An answer that takes the refresh cookie away for cause.
LEMMA ClearingKeeps ==
    ASSUME SessionInvariant, NEW r \in Requests, Answer(r, "clearRt"),
           UNCHANGED <<setting, clock, allowed, removedAt, jar, logouts>>,
           Grows(tokens, tokens'),
           \A t : t = req[r].rt => ~Honoured(t)' \/ ~allowed
    PROVE  SessionInvariant'
  <1>a. PICK p : p = req[r]
    OBVIOUS
  <1> DEFINE q == [p EXCEPT !.pc = "answer", !.cookies = "clearRt"]
  <1>1. /\ p \in Request /\ p.rt <= Len(tokens) /\ p.rt \in Nat /\ IdSound(p.id)
        /\ clock \in Nat /\ IdLife \in Nat /\ Len(tokens) \in Nat
        /\ \A l \in logouts : EndsAfterLogout(p.id, l)
    BY <1>a, SessionParts DEF SessionInvariant, LogoutInvariant
  <1>2. req' = [req EXCEPT ![r] = q]
    BY <1>a DEF Answer
  <1>3. Len(tokens') \in Nat /\ Len(tokens) <= Len(tokens')
    BY DEF Grows, TokensSound, Older
  <1>4. q \in Request /\ q.rt = p.rt /\ q.id = p.id /\ q.pc = "answer" /\ q.cookies = "clearRt"
    BY <1>1 DEF Request
  <1>5. ~Honoured(p.rt)' \/ ~allowed
    BY <1>a
  <1> HIDE DEF q
  <1>7. ForCause(q)' /\ PendingEnds(q)
    BY <1>4, <1>5 DEF ForCause, PendingEnds, Honoured, Live
  <1>8. /\ q.rt <= Len(tokens') /\ IdSound(q.id)'
        /\ \A l \in logouts : EndsAfterLogout(q.id, l)
    BY <1>1, <1>3, <1>4 DEF IdSound, IdToken
  <1>9. QED
    BY <1>2, <1>4, <1>7, <1>8, MovesOn

LEMMA RenewKeeps ==
    ASSUME SessionInvariant, NEW r \in Requests, Renew(r)
    PROVE  SessionInvariant'
  <1>a. PICK p, t, n, s, id :
          /\ p = req[r] /\ t = p.rt /\ n = Len(tokens) + 1 /\ s = tokens[t].session
          /\ id = NewId(s, "renewal")
    OBVIOUS
  <1> DEFINE rotated == Append([tokens EXCEPT ![t].state = "rotated"], Reissued(t))
  <1>1. /\ p \in Request /\ t <= Len(tokens) /\ t \in Nat /\ IdSound(p.id)
        /\ clock \in Nat /\ IdLife \in Nat /\ Len(tokens) \in Nat /\ TokensSound(tokens)
    BY <1>a, SessionParts
  <1>2. UNCHANGED <<setting, clock, allowed, removedAt, jar, logouts>>
    BY DEF Renew
  <1>3. ASSUME Honoured(t)
        PROVE  /\ t \in 1..Len(tokens) /\ tokens[t].state = "live"
               /\ Grows(tokens, rotated) /\ Len(rotated) = n
               /\ s \in 1..Len(tokens) /\ id \in IdToken
               /\ id.exp = clock + IdLife /\ id.session = s
               /\ \A l \in logouts : EndsAfterLogout(id, l)
    <2>1. t \in 1..Len(tokens) /\ tokens[t].state = "live"
      BY <1>3 DEF Honoured, Live
    <2>2. Grows(tokens, rotated) /\ Len(rotated) = n
      BY <1>a, <1>1, <2>1, Rotates
    <2>3. s \in 1..Len(tokens)
      BY <1>a, <1>1, <2>1 DEF TokensSound
    <2>4. id \in IdToken /\ id.exp = clock + IdLife /\ id.session = s
      BY <1>a, <1>1, <2>3 DEF NewId, IdToken
    <2>5. \A l \in logouts : l.session # s
      BY <1>a, <2>1 DEF SessionInvariant, LogoutInvariant, Live
    <2>6. QED
      BY <2>1, <2>2, <2>3, <2>4, <2>5 DEF EndsAfterLogout
  <1>4. ASSUME NEW q \in Request, Honoured(t), req' = [req EXCEPT ![r] = q],
               Grows(tokens, tokens'), q.pc = "check", q.id = id, q.rt <= Len(tokens')
        PROVE  SessionInvariant'
    <2>1. /\ s \in 1..Len(tokens) /\ id \in IdToken
          /\ id.exp = clock + IdLife /\ id.session = s
          /\ \A l \in logouts : EndsAfterLogout(q.id, l)
      BY <1>3, <1>4
    <2>2. Len(tokens') \in Nat /\ Len(tokens) <= Len(tokens')
      BY <1>4 DEF Grows, TokensSound, Older
    <2>3. IdSound(q.id)' /\ ForCause(q)' /\ PendingEnds(q)
      BY <1>1, <1>2, <1>4, <2>1, <2>2 DEF IdSound, ForCause, PendingEnds
    <2>4. QED
      BY <1>2, <1>4, <2>1, <2>3, MovesOn
  <1>5. CASE /\ Honoured(t) /\ UNCHANGED tokens
             /\ req' = [req EXCEPT ![r] = [p EXCEPT !.pc = "check", !.id = id]]
    <2> DEFINE q == [p EXCEPT !.pc = "check", !.id = id]
    <2>1. id \in IdToken
      BY <1>3, <1>5
    <2>2. q \in Request /\ q.pc = "check" /\ q.id = id /\ q.rt = t
      BY <1>a, <1>1, <2>1 DEF Request
    <2> HIDE DEF q
    <2>3. req' = [req EXCEPT ![r] = q]
      BY <1>5 DEF q
    <2>4. QED
      BY <1>1, <1>4, <1>5, <2>2, <2>3, Unchanged
  <1>6. CASE /\ Honoured(t) /\ tokens' = rotated
             /\ req' = [req EXCEPT ![r] = [p EXCEPT !.pc = "check", !.rt = n, !.id = id]]
    <2> DEFINE q == [p EXCEPT !.pc = "check", !.rt = n, !.id = id]
    <2>1. id \in IdToken /\ Grows(tokens, tokens') /\ Len(tokens') = n /\ n \in Nat
      BY <1>a, <1>1, <1>3, <1>6
    <2>2. q \in Request /\ q.pc = "check" /\ q.id = id /\ q.rt = n
      BY <1>1, <2>1 DEF Request
    <2> HIDE DEF q, rotated
    <2>3. req' = [req EXCEPT ![r] = q]
      BY <1>6 DEF q
    <2>4. q.rt <= Len(tokens') /\ Honoured(t)
      BY <1>6, <2>1, <2>2
    <2>5. QED
      BY <1>4, <2>1, <2>2, <2>3, <2>4
  <1>7. CASE Definitive(t) /\ Answer(r, "clearRt") /\ UNCHANGED tokens
    <2>1. ~Honoured(t)'
      BY <1>2, <1>7 DEF Definitive, Honoured, Live
    <2>2. Grows(tokens, tokens')
      BY <1>1, <1>7, Unchanged
    <2>3. QED
      BY <1>a, <1>2, <1>7, <2>1, <2>2, ClearingKeeps
  <1>8. CASE Done(r) /\ (UNCHANGED tokens \/ (Honoured(t) /\ tokens' = rotated))
    <2>1. Grows(tokens, tokens')
      BY <1>1, <1>3, <1>8, Unchanged
    <2>2. QED
      BY <1>2, <1>8, <2>1, DoneKeeps
  <1>9. QED
    <2> HIDE DEF rotated
    <2>1. \/ /\ Honoured(t) /\ UNCHANGED tokens
             /\ req' = [req EXCEPT ![r] = [p EXCEPT !.pc = "check", !.id = id]]
          \/ /\ Honoured(t) /\ tokens' = rotated
             /\ req' = [req EXCEPT ![r] = [p EXCEPT !.pc = "check", !.rt = n, !.id = id]]
          \/ Definitive(t) /\ Answer(r, "clearRt") /\ UNCHANGED tokens
          \/ Done(r) /\ (UNCHANGED tokens \/ (Honoured(t) /\ tokens' = rotated))
      BY <1>a, Zenon DEF Renew, rotated
    <2>2. QED
      BY <1>5, <1>6, <1>7, <1>8, <2>1

LEMMA CheckAllowlistKeeps ==
    ASSUME SessionInvariant, NEW r \in Requests, CheckAllowlist(r)
    PROVE  SessionInvariant'
  <1>a. PICK p : p = req[r]
    OBVIOUS
  <1>1. /\ p \in Request /\ p.rt <= Len(tokens) /\ IdSound(p.id)
        /\ \A l \in logouts : EndsAfterLogout(p.id, l)
    BY <1>a, SessionParts DEF SessionInvariant, LogoutInvariant
  <1>2. UNCHANGED <<setting, clock, allowed, removedAt, tokens, jar, logouts>>
    BY DEF CheckAllowlist
  <1>3. CASE (allowed \/ setting.unreadable) /\ Answer(r, "set")
    <2> DEFINE q == [p EXCEPT !.pc = "answer", !.cookies = "set"]
    <2>1. req' = [req EXCEPT ![r] = q]
      BY <1>a, <1>3 DEF Answer
    <2>2. q \in Request /\ q.rt = p.rt /\ q.id = p.id /\ q.pc = "answer" /\ q.cookies = "set"
      BY <1>1 DEF Request
    <2> HIDE DEF q
    <2>3. /\ ForCause(q) /\ q.rt <= Len(tokens) /\ IdSound(q.id)
          /\ \A l \in logouts : EndsAfterLogout(q.id, l)
      BY <1>1, <2>2 DEF ForCause
    <2>4. QED
      BY <1>2, <1>3, <2>1, <2>2, <2>3, Stays
  <1>4. CASE ~allowed /\ req' = [req EXCEPT ![r] = [p EXCEPT !.pc = "revoke"]]
    <2> DEFINE q == [p EXCEPT !.pc = "revoke"]
    <2>1. req' = [req EXCEPT ![r] = q]
      BY <1>4
    <2>2. q \in Request /\ q.rt = p.rt /\ q.id = p.id /\ q.pc = "revoke"
      BY <1>1 DEF Request
    <2> HIDE DEF q
    <2>3. /\ ForCause(q) /\ PendingEnds(q) /\ q.rt <= Len(tokens) /\ IdSound(q.id)
          /\ \A l \in logouts : EndsAfterLogout(q.id, l)
      BY <1>1, <1>4, <2>2 DEF ForCause, PendingEnds
    <2>4. QED
      BY <1>2, <2>1, <2>2, <2>3, Stays
  <1>5. QED
    BY <1>a, <1>3, <1>4 DEF CheckAllowlist, LetsIn

LEMMA RevokeRemovedKeeps ==
    ASSUME SessionInvariant, NEW r \in Requests, RevokeRemoved(r)
    PROVE  SessionInvariant'
  <1>1. /\ Answer(r, "clearRt")
        /\ UNCHANGED <<setting, clock, allowed, removedAt, jar, logouts>>
        /\ tokens' = Revoked(req[r].rt) \/ UNCHANGED tokens
        /\ ~allowed
    BY DEF RevokeRemoved, SessionInvariant, RefusalInvariant, ForCause
  <1>2. Grows(tokens, tokens')
    BY <1>1, Revokes, Unchanged, SessionParts
  <1>3. QED
    BY <1>1, <1>2, ClearingKeeps

LEMMA LogoutKeeps ==
    ASSUME SessionInvariant, NEW r \in Requests, Logout(r)
    PROVE  SessionInvariant'
  <1> DEFINE p == req[r]
             q == [p EXCEPT !.pc = "signOut", !.route = "logout", !.rt = jar.rt]
  <1>1. /\ p \in Request /\ IdSound(p.id) /\ jar.rt \in Nat /\ jar.rt <= Len(tokens)
        /\ \A l \in logouts : EndsAfterLogout(p.id, l)
    BY SessionParts DEF SessionInvariant, LogoutInvariant, Jar
  <1>2. /\ req' = [req EXCEPT ![r] = q]
        /\ UNCHANGED <<setting, clock, allowed, removedAt, tokens, jar, logouts>>
    BY DEF Logout
  <1> HIDE DEF p
  <1>3. q \in Request /\ q.rt = jar.rt /\ q.id = p.id /\ q.pc = "signOut"
    BY <1>1 DEF Request
  <1> HIDE DEF q
  <1>4. /\ ForCause(q) /\ PendingEnds(q) /\ q.rt <= Len(tokens) /\ IdSound(q.id)
        /\ \A l \in logouts : EndsAfterLogout(q.id, l)
    BY <1>1, <1>3 DEF ForCause, PendingEnds
  <1>5. QED
    BY <1>2, <1>3, <1>4, Stays

LEMMA SignOutKeeps ==
    ASSUME SessionInvariant, NEW r \in Requests, SignOut(r)
    PROVE  SessionInvariant'
  <1>a. PICK p, t, closed : p = req[r] /\ t = p.rt /\ closed = Closed(t)
    OBVIOUS
  <1> DEFINE q == [p EXCEPT !.pc = "answer", !.cookies = "clearBoth"]
  <1>1. /\ p \in Request /\ t <= Len(tokens) /\ IdSound(p.id) /\ TokensSound(tokens)
        /\ clock \in Nat /\ Len(tokens) \in Nat /\ IdLife \in Nat
        /\ logouts \subseteq [session: 1..Len(tokens), at: 0..clock]
        /\ \A l \in logouts : EndsAfterLogout(p.id, l)
    BY <1>a, SessionParts DEF SessionInvariant, LogoutInvariant
  <1>2. /\ req' = [req EXCEPT ![r] = q]
        /\ UNCHANGED <<setting, clock, allowed, removedAt, jar>>
    BY <1>a DEF SignOut, Answer
  <1>3. q \in Request /\ q.rt = t /\ q.id = p.id /\ q.pc = "answer" /\ q.cookies = "clearBoth"
    BY <1>a, <1>1 DEF Request
  <1> HIDE DEF q
  <1>4. PendingEnds(q) /\ ForCause(q)'
    BY <1>3 DEF PendingEnds, ForCause
  <1>5. CASE tokens' = Revoked(t) /\ logouts' = logouts \cup closed
    <2>1. /\ TokensSound(tokens') /\ Older(tokens, tokens') /\ Len(tokens') = Len(tokens)
          /\ Live(t) => \A u \in 1..Len(tokens) :
               tokens'[u].session = tokens[t].session => tokens'[u].state # "live"
      BY <1>1, <1>5, Revokes DEF Grows
    <2>2. \A l \in closed :
            /\ Live(t) /\ l = [session |-> tokens[t].session, at |-> clock]
            /\ tokens[t].session \in 1..Len(tokens)
      BY <1>a, <1>1 DEF Closed, Live, TokensSound
    <2>3. logouts' \subseteq [session: 1..Len(tokens'), at: 0..clock]
      BY <1>1, <1>5, <2>1, <2>2
    <2>4. ASSUME NEW l \in logouts'
          PROVE  /\ \A u \in 1..Len(tokens') : tokens'[u].session = l.session => ~Live(u)'
                 /\ EndsAfterLogout(q.id, l)
                 /\ l \in logouts \/ l.at = clock
      <3>1. CASE l \in logouts
        <4>1. \A u \in 1..Len(tokens) : tokens[u].session = l.session => tokens[u].state # "live"
          BY <3>1 DEF SessionInvariant, LogoutInvariant, Live
        <4>2. QED
          BY <1>1, <1>3, <2>1, <3>1, <4>1 DEF Older, Live
      <3>2. CASE l \in closed
        <4>1. l.session = tokens[t].session /\ l.at = clock /\ Live(t)
          BY <2>2, <3>2
        <4>2. EndsAfterLogout(q.id, l)
          BY <1>1, <1>3, <4>1 DEF EndsAfterLogout, IdSound
        <4>3. QED
          BY <2>1, <4>1, <4>2 DEF Live
      <3>3. QED
        BY <1>5, <3>1, <3>2
    <2>5. q.rt <= Len(tokens') /\ IdSound(q.id)'
      BY <1>1, <1>2, <1>3, <2>1 DEF IdSound
    <2>6. QED
      BY <1>2, <1>3, <1>4, <2>1, <2>3, <2>4, <2>5, Moves
  <1>6. CASE UNCHANGED <<tokens, logouts>>
    <2>1. /\ ForCause(q) /\ q.rt <= Len(tokens) /\ IdSound(q.id)
          /\ \A l \in logouts : EndsAfterLogout(q.id, l)
      BY <1>1, <1>3 DEF ForCause
    <2>2. QED
      BY <1>2, <1>3, <1>4, <1>6, <2>1, Stays
  <1>7. QED
    BY <1>a, <1>5, <1>6 DEF SignOut

\* The browser takes the cookies of an answer.
LEMMA DeliverKeeps ==
    ASSUME SessionInvariant, NEW r \in Requests, Deliver(r)
    PROVE  SessionInvariant'
  <1>a. PICK p, j : p = req[r] /\ j = jar'
    OBVIOUS
  <1>1. /\ p \in Request /\ p.rt \in Nat /\ p.rt <= Len(tokens) /\ IdSound(p.id)
        /\ jar \in Jar /\ jar.rt <= Len(tokens) /\ IdSound(jar.id) /\ Len(tokens) \in Nat
    BY <1>a, SessionParts
  <1>2. /\ p.pc = "answer"
        /\ j = CASE p.cookies = "set" -> [id |-> p.id, rt |-> p.rt]
                 [] p.cookies = "clearRt" -> [jar EXCEPT !.rt = 0]
                 [] p.cookies = "clearBoth" -> [id |-> NoId, rt |-> 0]
                 [] OTHER -> jar
        /\ req' = [req EXCEPT ![r] = Over]
        /\ UNCHANGED <<setting, clock, allowed, removedAt, tokens, logouts>>
    BY <1>a DEF Deliver, Done, Over
  <1>3. /\ Over \in Request /\ Over.rt = 0 /\ Over.id = NoId
        /\ NoId \in IdToken /\ IdSound(NoId)
        /\ \A l \in logouts : EndsAfterLogout(NoId, l)
        /\ PendingEnds(Over) /\ ForCause(Over)
    BY IdleFacts
  <1>4. /\ j \in Jar /\ j.rt \in Nat /\ j.rt <= Len(tokens)
        /\ \/ j.id = p.id /\ p.cookies = "set"
           \/ j.id = jar.id
           \/ j.id = NoId
    <2>1. p.id \in IdToken /\ jar.id \in IdToken /\ jar.rt \in Nat
      BY <1>1 DEF IdSound, Jar
    <2>2. CASE p.cookies = "set"
      <3>1. j = [id |-> p.id, rt |-> p.rt]
        BY <1>2, <2>2
      <3>2. QED
        BY <1>1, <2>1, <2>2, <3>1 DEF Jar
    <2>3. CASE p.cookies = "clearRt"
      <3>1. j = [jar EXCEPT !.rt = 0]
        BY <1>2, <2>3
      <3>2. QED
        BY <1>1, <2>1, <3>1 DEF Jar
    <2>4. CASE p.cookies = "clearBoth"
      <3>1. j = [id |-> NoId, rt |-> 0]
        BY <1>2, <2>4
      <3>2. QED
        BY <1>1, <1>3, <3>1 DEF Jar
    <2>5. CASE p.cookies \notin {"set", "clearRt", "clearBoth"}
      <3>1. j = jar
        BY <1>2, <2>5
      <3>2. QED
        BY <1>1, <2>1, <3>1
    <2>6. QED
      BY <2>2, <2>3, <2>4, <2>5
  <1>5. /\ req \in [Requests -> Request] /\ req' \in [Requests -> Request]
        /\ \A u \in Requests : req'[u] = IF u = r THEN Over ELSE req[u]
    BY <1>2, <1>3 DEF SessionInvariant, SessionShape
  <1>6. IdSound(j.id)
    BY <1>1, <1>3, <1>4
  <1>7. SessionShape'
    <2>1. \A u \in Requests : req'[u].rt <= Len(tokens) /\ IdSound(req'[u].id)
      BY <1>1, <1>3, <1>5, SessionParts
    <2>2. QED
      BY <1>a, <1>2, <1>4, <1>5, <1>6, <2>1
         DEF SessionInvariant, SessionShape, IdSound
  <1>8. RemovalInvariant'
    <2> SUFFICES ASSUME ~allowed, ~setting.unreadable
                 PROVE  EndsAfterRemoval(j.id) /\ \A u \in Requests : PendingEnds(req'[u])
      BY <1>a, <1>2 DEF RemovalInvariant, EndsAfterRemoval, PendingEnds
    <2>1. EndsAfterRemoval(jar.id) /\ \A u \in Requests : PendingEnds(req[u])
      BY DEF SessionInvariant, RemovalInvariant
    <2>2. EndsAfterRemoval(NoId)
      BY SessionParts DEF EndsAfterRemoval, NoId
    <2>3. p.cookies = "set" => EndsAfterRemoval(p.id)
      BY <1>a, <1>2, <2>1 DEF PendingEnds
    <2>4. \A u \in Requests : PendingEnds(req'[u])
      BY <1>3, <1>5, <2>1
    <2>5. QED
      BY <1>4, <2>1, <2>2, <2>3, <2>4
  <1>9. LogoutInvariant'
    <2> SUFFICES ASSUME NEW l \in logouts
                 PROVE  /\ \A t \in 1..Len(tokens) : tokens[t].session = l.session => ~Live(t)
                        /\ EndsAfterLogout(j.id, l)
                        /\ \A u \in Requests : EndsAfterLogout(req'[u].id, l)
      BY <1>a, <1>2 DEF LogoutInvariant, Live
    <2>1. /\ \A t \in 1..Len(tokens) : tokens[t].session = l.session => ~Live(t)
          /\ EndsAfterLogout(jar.id, l)
          /\ \A u \in Requests : EndsAfterLogout(req[u].id, l)
      BY DEF SessionInvariant, LogoutInvariant
    <2>2. QED
      BY <1>a, <1>3, <1>4, <1>5, <2>1
  <1>10. RefusalInvariant'
    <2>1. \A u \in Requests : ForCause(req'[u])
      BY <1>3, <1>5 DEF SessionInvariant, RefusalInvariant
    <2>2. QED
      BY <1>2, <2>1 DEF RefusalInvariant, ForCause, Honoured, Live
  <1>11. QED
    BY <1>7, <1>8, <1>9, <1>10 DEF SessionInvariant

-----------------------------------------------------------------------------
(* The rest of the world.                                                  *)

LEMMA RemoveAccessKeeps == ASSUME SessionInvariant, RemoveAccess PROVE SessionInvariant'
  <1>1. /\ clock \in Nat /\ clock \in 0..MaxClock /\ IdLife \in Nat /\ CodeLife \in Nat
        /\ IdSound(jar.id) /\ \A r \in Requests : req[r] \in Request /\ IdSound(req[r].id)
    BY SessionParts
  <1>2. /\ allowed' = FALSE /\ removedAt' = clock
        /\ UNCHANGED <<setting, clock, tokens, jar, req, logouts>>
    BY DEF RemoveAccess
  <1>3. SessionShape'
    <2>1. allowed' \in BOOLEAN /\ removedAt' \in 0..clock'
      <3>1. allowed' \in BOOLEAN
        BY <1>2, Zenon
      <3>2. removedAt' \in 0..clock'
        BY <1>1, <1>2
      <3>3. QED
        BY <3>1, <3>2
    <2>2. /\ IdSound(jar.id)'
          /\ \A r \in Requests : req'[r].rt <= Len(tokens') /\ IdSound(req[r].id)'
      BY <1>1, <1>2, SessionParts DEF IdSound
    <2>3. QED
      BY <1>2, <2>1, <2>2 DEF SessionInvariant, SessionShape
  <1>4. RemovalInvariant'
    <2>1. ASSUME NEW id, IdSound(id) PROVE EndsAfterRemoval(id)'
      BY <1>1, <1>2, <2>1 DEF IdSound, IdToken, EndsAfterRemoval
    <2>2. ASSUME NEW r \in Requests PROVE PendingEnds(req[r])'
      <3>a. PICK q : q = req[r]
        OBVIOUS
      <3>1. req'[r] = q /\ q \in Request /\ IdSound(q.id)
        BY <1>1, <1>2, <3>a
      <3>2. EndsAfterRemoval(q.id)'
        BY <2>1, <3>1
      <3>3. q.pc = "code" => q.since <= clock
        BY <3>a DEF SessionInvariant, RefusalInvariant, ForCause
      <3>4. QED
        BY <1>2, <3>1, <3>2, <3>3 DEF PendingEnds, EndsAfterRemoval
    <2>3. EndsAfterRemoval(jar.id)'
      <3>a. PICK id : id = jar.id
        OBVIOUS
      <3>1. jar'.id = id /\ IdSound(id)
        BY <1>1, <1>2, <3>a
      <3>2. EndsAfterRemoval(id)'
        BY <2>1, <3>1
      <3>3. QED
        BY <3>1, <3>2 DEF EndsAfterRemoval
    <2>4. QED
      BY <2>2, <2>3 DEF RemovalInvariant
  <1>5. LogoutInvariant'
    BY <1>2 DEF SessionInvariant, LogoutInvariant, Live, EndsAfterLogout
  <1>6. RefusalInvariant'
    BY <1>2 DEF SessionInvariant, RefusalInvariant, ForCause, Honoured, Live
  <1>7. QED
    BY <1>3, <1>4, <1>5, <1>6 DEF SessionInvariant

\* Time passes: what was bounded stays bounded, what was dead stays dead.
LEMMA TickKeeps == ASSUME SessionInvariant, Tick PROVE SessionInvariant'
  <1>1. /\ clock \in Nat /\ MaxClock \in Nat /\ removedAt \in 0..clock /\ IdLife \in Nat
        /\ TokensSound(tokens)
        /\ logouts \subseteq [session: 1..Len(tokens), at: 0..clock]
        /\ IdSound(jar.id)
        /\ \A r \in Requests : /\ req[r] \in Request /\ IdSound(req[r].id)
                               /\ req[r].rt <= Len(tokens)
    BY SessionParts
  <1>2. /\ clock' = clock + 1 /\ clock < MaxClock
        /\ UNCHANGED <<setting, allowed, removedAt, tokens, jar, req, logouts>>
    BY DEF Tick
  <1>3. \A id : IdSound(id) => IdSound(id)'
    BY <1>1, <1>2 DEF IdSound, IdToken
  <1>4. IdSound(jar.id)' /\ \A r \in Requests : IdSound(req[r].id)'
    <2>1. PICK id : id = jar.id
      OBVIOUS
    <2>2. IdSound(jar.id)'
      BY <1>1, <1>2, <1>3, <2>1 DEF IdSound
    <2>3. ASSUME NEW r \in Requests PROVE IdSound(req[r].id)'
      <3>1. PICK k : k = req[r].id
        OBVIOUS
      <3>2. IdSound(k)'
        BY <1>1, <1>3, <3>1
      <3>3. QED
        BY <1>2, <3>1, <3>2 DEF IdSound
    <2>4. QED
      BY <2>2, <2>3
  <1>5. SessionShape'
    <2>1. /\ clock' \in 0..MaxClock' /\ removedAt' \in 0..clock'
          /\ logouts' \subseteq [session: 1..Len(tokens'), at: 0..clock']
      BY <1>1, <1>2
    <2>2. QED
      BY <1>1, <1>2, <1>4, <2>1 DEF SessionInvariant, SessionShape
  <1>6. RemovalInvariant'
    BY <1>2 DEF SessionInvariant, RemovalInvariant, PendingEnds, EndsAfterRemoval
  <1>7. LogoutInvariant'
    BY <1>2 DEF SessionInvariant, LogoutInvariant, Live, EndsAfterLogout
  <1>8. RefusalInvariant'
    <2>1. \A t : ~Honoured(t) => ~Honoured(t)'
      <3> SUFFICES ASSUME NEW t, Live(t), ~(clock < tokens[t].born + RefreshLife)
                   PROVE  ~(clock + 1 < tokens[t].born + RefreshLife)
        BY <1>2 DEF Honoured, Live
      <3>1. tokens[t].born \in Nat /\ RefreshLife \in Nat
        <4>1. tokens[t] \in RefreshToken
          BY <1>1 DEF Live, TokensSound
        <4>2. QED
          BY <4>1, LivesAssumption DEF RefreshToken
      <3>2. QED
        BY <1>1, <3>1
    <2>2. ASSUME NEW r \in Requests PROVE ForCause(req[r])'
      <3>1. PICK q : q = req[r]
        OBVIOUS
      <3>2. ForCause(q) /\ req'[r] = q /\ q.since \in Nat
        BY <1>1, <1>2, <3>1 DEF SessionInvariant, RefusalInvariant, Request
      <3>3. ForCause(q)'
        BY <1>1, <1>2, <2>1, <3>2 DEF ForCause
      <3>4. QED
        BY <3>2, <3>3 DEF ForCause, Honoured, Live
    <2>3. QED
      BY <1>2, <2>2 DEF RefusalInvariant
  <1>9. QED
    BY <1>5, <1>6, <1>7, <1>8 DEF SessionInvariant

LEMMA StutterKeeps == ASSUME SessionInvariant, UNCHANGED vars PROVE SessionInvariant'
  <1>1. UNCHANGED <<setting, clock, allowed, removedAt, tokens, jar, req, logouts>>
    BY DEF vars
  <1>2. SessionShape'
    BY <1>1 DEF SessionInvariant, SessionShape, IdSound
  <1>3. RemovalInvariant'
    BY <1>1 DEF SessionInvariant, RemovalInvariant, PendingEnds, EndsAfterRemoval
  <1>4. LogoutInvariant'
    BY <1>1 DEF SessionInvariant, LogoutInvariant, Live, EndsAfterLogout
  <1>5. RefusalInvariant'
    BY <1>1 DEF SessionInvariant, RefusalInvariant, ForCause, Honoured, Live
  <1>6. QED
    BY <1>2, <1>3, <1>4, <1>5 DEF SessionInvariant

-----------------------------------------------------------------------------
(* The invariant and its properties.                                       *)

LEMMA SessionInit == Init => SessionInvariant
  <1> SUFFICES ASSUME Init PROVE SessionInvariant
    OBVIOUS
  <1>1. /\ setting \in Settings /\ clock = 0 /\ allowed = TRUE /\ removedAt = 0
        /\ tokens = <<>> /\ jar = [id |-> NoId, rt |-> 0] /\ logouts = {}
        /\ req = [r \in Requests |-> IdleRequest]
    BY DEF Init
  <1>2. IdLife \in Nat /\ MaxClock \in Nat
    BY LivesAssumption
  <1>3. tokens \in Seq(RefreshToken) /\ Len(tokens) = 0
    BY <1>1
  <1>4. NoId \in IdToken /\ NoId.exp = 0 /\ NoId.session = 0
    BY DEF NoId, IdToken
  <1>5. IdSound(NoId)
    BY <1>1, <1>2, <1>3, <1>4 DEF IdSound
  <1>6. /\ IdleRequest \in Request /\ IdleRequest.rt = 0 /\ IdleRequest.id = NoId
        /\ IdleRequest.pc = "idle"
    BY <1>4 DEF IdleRequest, Request
  <1>7. SessionShape
    <2>1. TokensSound(tokens)
      BY <1>3 DEF TokensSound
    <2>2. jar \in Jar /\ jar.rt = 0 /\ jar.id = NoId
      BY <1>1, <1>4 DEF Jar
    <2>3. req \in [Requests -> Request] /\ \A r \in Requests : req[r] = IdleRequest
      BY <1>1, <1>6
    <2>4. QED
      BY <1>1, <1>2, <1>3, <1>5, <1>6, <2>1, <2>2, <2>3 DEF SessionShape
  <1>8. RemovalInvariant
    BY <1>1 DEF RemovalInvariant
  <1>9. LogoutInvariant
    BY <1>1 DEF LogoutInvariant
  <1>10. RefusalInvariant
    BY <1>1, <1>6 DEF RefusalInvariant, ForCause
  <1>11. QED
    BY <1>7, <1>8, <1>9, <1>10 DEF SessionInvariant

LEMMA SessionStep == SessionInvariant /\ [Next]_vars => SessionInvariant'
  <1> SUFFICES ASSUME SessionInvariant, [Next]_vars PROVE SessionInvariant'
    OBVIOUS
  <1>1. ASSUME NEW r \in Requests, SignInFails(r) \/ Lose(r) PROVE SessionInvariant'
    <2>1. /\ Done(r)
          /\ UNCHANGED <<setting, clock, allowed, removedAt, tokens, jar, logouts>>
      BY <1>1 DEF SignInFails, Lose
    <2>2. QED
      BY <2>1, Unchanged, SessionParts, DoneKeeps
  <1>2. ASSUME NEW r \in Requests,
               \/ SignInGate(r) \/ SignInTokens(r)
               \/ \E route \in {"login", "refresh"} : Visit(r, route)
               \/ Renew(r) \/ CheckAllowlist(r) \/ RevokeRemoved(r)
               \/ Logout(r) \/ SignOut(r) \/ Deliver(r)
        PROVE  SessionInvariant'
    BY <1>2, SignInGateKeeps, SignInTokensKeeps, VisitKeeps, RenewKeeps, CheckAllowlistKeeps,
       RevokeRemovedKeeps, LogoutKeeps, SignOutKeeps, DeliverKeeps
  <1>3. CASE AllOver \/ UNCHANGED vars
    BY <1>3, StutterKeeps DEF AllOver
  <1>4. QED
    BY <1>1, <1>2, <1>3, RemoveAccessKeeps, TickKeeps DEF Next

\* Every session in the browser or on its way to it rests on a token Cognito
\* still honours, or ends in time.
THEOREM SessionsAccountedFor == Spec => []SessionInvariant
  <1>1. QED
    BY SessionInit, SessionStep, PTL DEF Spec

\* The cookies name tokens Cognito issued, and no session cookie promises more
\* than the life of an ID token.
THEOREM SessionTypes == Spec => []TypeOK
  <1>1. SessionInvariant => TypeOK
    BY DEF SessionInvariant, SessionShape, TokensSound, IdSound, TypeOK
  <1>2. QED
    BY <1>1, SessionsAccountedFor, PTL

\* A session ended by a logout or by the removal of its owner ends within the
\* life of one ID token, whatever answers were under way in whatever order.
THEOREM EndedSessionsAlwaysEnd == Spec => []EndedSessionsEnd
  <1>1. SessionInvariant => EndedSessionsEnd
    BY DEF SessionInvariant, RemovalInvariant, EndsAfterRemoval, LogoutInvariant,
           EndsAfterLogout, EndedSessionsEnd, RemovalEndsSession, LogoutEndsSession
  <1>2. QED
    BY <1>1, SessionsAccountedFor, PTL

\* No answer takes the refresh cookie away while its token could still renew an
\* allowed person's session.
THEOREM OnlyDefinitiveEverClears == Spec => []OnlyDefinitiveClears
  <1>1. SessionInvariant => OnlyDefinitiveClears
    BY DEF SessionInvariant, RefusalInvariant, ForCause, OnlyDefinitiveClears
  <1>2. QED
    BY <1>1, SessionsAccountedFor, PTL
=============================================================================
