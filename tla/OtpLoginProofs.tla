--------------------------- MODULE OtpLoginProofs ---------------------------
(***************************************************************************)
(* What holds of OtpLogin for every set of requests, every deadline and    *)
(* every bound.                                                            *)
(***************************************************************************)
EXTENDS OtpLogin, FiniteSetTheorems, TLAPS

-----------------------------------------------------------------------------
(* The helpers keep their types.                                           *)

\* The writes of create-auth-challenge and verify-auth-challenge leave an item.
LEMMA ItemTypes ==
    ASSUME NEW item \in Item, NEW seen \in Item, NEW now \in Nat, NEW code \in Nat
    PROVE  /\ ExtendedTtl(seen, now) \in Nat
           /\ Extended(item, seen, now) \in Item
           /\ Fresh(code, now) \in Item
           /\ OneMoreAttempt(item) \in Item
           /\ NoItem \in Item
  <1>1. seen.ttl \in Nat /\ seen.issuedAt \in Nat
    BY DEF Item
  <1>2. ExtendedTtl(seen, now) \in Nat
    BY <1>1, ParametersAssumption DEF ExtendedTtl, Greater, Lesser
  <1>3. Extended(item, seen, now) \in Item
    BY <1>2 DEF Extended, Item
  <1>4. Fresh(code, now) \in Item
    BY ParametersAssumption DEF Fresh, Item
  <1>5. OneMoreAttempt(item) \in Item
    <2>1. item.attempts + 1 \in Nat
      BY DEF Item
    <2>2. [item EXCEPT !.exists = TRUE, !.attempts = item.attempts + 1] \in Item
      <3>1. [item EXCEPT !.exists = TRUE] \in Item
        BY DEF Item
      <3>2. QED
        BY <2>1, <3>1 DEF Item
    <2>3. QED
      BY <2>2 DEF OneMoreAttempt
  <1>6. QED
    BY <1>2, <1>3, <1>4, <1>5 DEF NoItem, Item

LEMMA IdleTypes == IdleRequest \in Request /\ NoToken \in Token
  BY ItemTypes DEF IdleRequest, Request, PCs, Pages, NoItem, Item, NoToken, Token

\* The field updates the actions make to an invocation.
LEMMA RequestUpdates ==
    ASSUME NEW q \in Request, NEW pc \in PCs, NEW item \in Item,
           NEW m \in Nat, NEW n \in Nat, NEW b \in BOOLEAN,
           NEW k \in Buckets \cup {0}
    PROVE  /\ [q EXCEPT !.pc = pc] \in Request
           /\ [q EXCEPT !.pc = pc, !.seen = item] \in Request
           /\ [q EXCEPT !.pc = pc, !.now = n] \in Request
           /\ [q EXCEPT !.pc = pc, !.ticket = m, !.bucket = k] \in Request
           /\ [q EXCEPT !.typed = n, !.right = b] \in Request
  <1>1. [q EXCEPT !.pc = pc] \in Request
    BY DEF Request
  <1>2. [q EXCEPT !.pc = pc, !.seen = item] \in Request
    BY DEF Request
  <1>3. [q EXCEPT !.pc = pc, !.now = n] \in Request
    BY DEF Request
  <1>4. [q EXCEPT !.pc = pc, !.ticket = m, !.bucket = k] \in Request
    BY DEF Request
  <1>5. [q EXCEPT !.typed = n, !.right = b] \in Request
    BY DEF Request
  <1>6. QED
    BY <1>1, <1>2, <1>3, <1>4, <1>5

LEMMA SeenUpdate ==
    ASSUME NEW q \in Request, NEW pc \in PCs, NEW item \in Item
    PROVE  [q EXCEPT !.pc = pc, !.seen = item] \in Request
  BY DEF Request

LEMMA AnswerUpdate ==
    ASSUME NEW q \in Request, NEW n \in Nat, NEW b \in BOOLEAN
    PROVE  [q EXCEPT !.typed = n, !.right = b] \in Request
  BY DEF Request

LEMMA RestartUpdate ==
    ASSUME NEW q \in Request, NEW n \in Nat, NEW k \in 0..2,
           NEW after \in {"mail", "answer", "page"}, NEW f \in BOOLEAN
    PROVE  [q EXCEPT !.pc = "createGet", !.after = after, !.round = k,
                     !.now = n, !.fresh = f] \in Request
  BY DEF Request, PCs

LEMMA SpanUpdate ==
    ASSUME NEW q \in Request
    PROVE  [q EXCEPT !.span = q.span + 1] \in Request
  <1>1. q.span + 1 \in Nat
    BY DEF Request
  <1>2. QED
    BY <1>1 DEF Request

\* The three ways an invocation moves on.
LEMMA MoveTypes ==
    ASSUME TypeOK, NEW r \in Requests
    PROVE  /\ \A pc \in PCs : Goto(r, pc) => req' \in [Requests -> Request]
           /\ \A page \in Pages : Finish(r, page) => req' \in [Requests -> Request]
           /\ \A after \in {"mail", "answer", "page"}, n \in 0..2 :
                Challenge(r, after, n) => req' \in [Requests -> Request]
  <1>1. req \in [Requests -> Request] /\ req[r] \in Request /\ clock \in Nat
    BY DEF TypeOK
  <1>2. ASSUME NEW pc \in PCs, Goto(r, pc) PROVE req' \in [Requests -> Request]
    <2>1. [req[r] EXCEPT !.pc = pc] \in Request
      BY <1>1 DEF Request
    <2>2. req' = [req EXCEPT ![r] = [req[r] EXCEPT !.pc = pc]]
      BY <1>1, <1>2 DEF Goto
    <2>3. QED
      BY <1>1, <2>1, <2>2
  <1>3. ASSUME NEW page \in Pages, Finish(r, page) PROVE req' \in [Requests -> Request]
    <2>1. [IdleRequest EXCEPT !.pc = "done", !.page = page,
              !.right = req[r].right, !.fresh = req[r].fresh] \in Request
      BY <1>1, IdleTypes DEF Request, PCs
    <2>2. QED
      BY <1>1, <1>3, <2>1 DEF Finish
  <1>4. ASSUME NEW after \in {"mail", "answer", "page"}, NEW n \in 0..2,
               Challenge(r, after, n)
        PROVE  req' \in [Requests -> Request]
    <2>1. [req[r] EXCEPT !.pc = "createGet", !.after = after, !.round = n,
                         !.now = clock, !.seen = NoItem] \in Request
      BY <1>1, ItemTypes DEF Request, PCs, NoItem, Item
    <2>2. QED
      BY <1>1, <1>4, <2>1 DEF Challenge
  <1>5. QED
    BY <1>2, <1>3, <1>4

LEMMA DecoyTypes ==
    ASSUME TypeOK, NEW r \in Requests, DecoyPage(r)
    PROVE  req' \in [Requests -> Request] /\ token' \in [Requests -> Token]
  BY MoveTypes DEF DecoyPage, TypeOK, Token, Pages

LEMMA ChallengedTypes ==
    ASSUME TypeOK, NEW r \in Requests, Challenged(r)
    PROVE  req' \in [Requests -> Request] /\ token' \in [Requests -> Token]
  <1>1. NoItem \in Item
    BY DEF NoItem, Item
  <1>2. clock \in Nat /\ req[r].round \in 0..2
    BY DEF TypeOK, Request
  <1>3. req \in [Requests -> Request] /\ req[r] \in Request
    BY DEF TypeOK
  <1>4. \A pc \in PCs : [req[r] EXCEPT !.pc = pc, !.seen = NoItem] \in Request
    BY <1>1, <1>3, RequestUpdates
  <1>5. CASE req[r].after = "mail"
    <2>1. req' = [req EXCEPT ![r] = [req[r] EXCEPT !.pc = "mail", !.seen = NoItem]]
      BY <1>3, <1>5 DEF Challenged
    <2>2. [req[r] EXCEPT !.pc = "mail", !.seen = NoItem] \in Request
      BY <1>4 DEF PCs
    <2>3. token' \in [Requests -> Token]
      <3>1. [state |-> "live", born |-> clock, round |-> 0] \in Token
        BY <1>2 DEF Token
      <3>2. QED
        BY <1>5, <3>1 DEF Challenged, TypeOK
    <2>4. QED
      BY <1>3, <2>1, <2>2, <2>3
  <1>6. CASE req[r].after = "answer"
    <2>1. req' = [req EXCEPT ![r] = [req[r] EXCEPT !.pc = "verifyGet", !.seen = NoItem]]
      BY <1>3, <1>6 DEF Challenged
    <2>2. [req[r] EXCEPT !.pc = "verifyGet", !.seen = NoItem] \in Request
      BY <1>4 DEF PCs
    <2>3. QED
      BY <1>3, <1>6, <2>1, <2>2 DEF Challenged, TypeOK
  <1>7. CASE req[r].after = "page"
    <2>1. [state |-> "live", born |-> clock, round |-> req[r].round] \in Token
      BY <1>2 DEF Token
    <2>2. token' \in [Requests -> Token]
      BY <1>7, <2>1 DEF Challenged, TypeOK
    <2>3. Finish(r, "incorrectCode")
      BY <1>7 DEF Challenged
    <2>4. QED
      BY <2>2, <2>3, MoveTypes DEF Pages
  <1>8. QED
    BY <1>5, <1>6, <1>7 DEF Challenged

LEMMA AnsweredTypes ==
    ASSUME TypeOK, NEW r \in Requests, NEW correct \in BOOLEAN, NEW at \in Nat,
           Answered(r, correct, at)
    PROVE  /\ req' \in [Requests -> Request]
           /\ signIns' \in SUBSET [code: Nat, at: Nat]
  <1> DEFINE n == req[r].round + 1
  <1>1. req[r].round \in 0..2 /\ req[r].typed \in Nat
    BY DEF TypeOK, Request
  <1>2. DefineAuthChallenge(n, correct) = "CUSTOM_CHALLENGE" => n \in 0..2
    BY <1>1 DEF DefineAuthChallenge
  <1>3. req' \in [Requests -> Request]
    BY <1>2, MoveTypes DEF Answered, Pages
  <1>4. signIns' \in SUBSET [code: Nat, at: Nat]
    BY <1>1 DEF Answered, TypeOK
  <1>5. QED
    BY <1>3, <1>4

-----------------------------------------------------------------------------
(* Type correctness.                                                       *)

\* TypeOK is inductive: every step of every handler, of the two triggers and
\* of the environment keeps the types of the tables, tokens and invocations.
LEMMA TypeStep == TypeOK /\ [Next]_vars => TypeOK'
  <1> SUFFICES ASSUME TypeOK, [Next]_vars PROVE TypeOK'
    OBVIOUS
  <1> USE DEF TypeOK
  <1>0. clock \in Nat /\ \A r \in Requests : req[r] \in Request
    OBVIOUS
  <1>1. ASSUME NEW r \in Requests, SendOtp(r) PROVE TypeOK'
    <2> DEFINE b == clock \div OtpWindow
    <2>1. b \in Buckets /\ sends[b] + 1 \in Nat
      <3>1. b \in Buckets
        BY DEF Buckets
      <3>2. QED
        BY <3>1
    <2>2. sends' \in [Buckets -> Nat]
      BY <1>1, <2>1 DEF SendOtp
    <2>3. req' \in [Requests -> Request] /\ token' \in [Requests -> Token]
      <3>1. CASE Goto(r, "gate") /\ UNCHANGED token
        BY <3>1, MoveTypes DEF PCs
      <3>2. CASE DecoyPage(r)
        BY <3>2, DecoyTypes
      <3>3. ASSUME NEW n, n = sends[b] + 1, n <= SendsPerWindow,
                   req' = [req EXCEPT ![r] = [@ EXCEPT !.pc = "gate", !.ticket = n,
                                                       !.bucket = b]],
                   UNCHANGED token
            PROVE  req' \in [Requests -> Request] /\ token' \in [Requests -> Token]
        <4>1. n \in Nat /\ b \in Buckets
          BY <2>1, <3>3
        <4>2. [req[r] EXCEPT !.pc = "gate", !.ticket = n, !.bucket = b] \in Request
          BY <1>0, <4>1, RequestUpdates, ItemTypes DEF PCs
        <4>3. QED
          BY <3>3, <4>2
      <3>4. QED
        BY <1>1, <3>1, <3>2, <3>3 DEF SendOtp, Allowed
    <2>4. QED
      BY <1>1, <2>2, <2>3 DEF SendOtp
  <1>2. ASSUME NEW r \in Requests, SendGate(r) PROVE TypeOK'
    <2>1. CASE Challenge(r, "mail", 0) /\ UNCHANGED token
      <3>1. req' \in [Requests -> Request]
        BY <2>1, MoveTypes
      <3>2. QED
        BY <1>2, <2>1, <3>1 DEF SendGate
    <2>2. CASE DecoyPage(r)
      <3>1. req' \in [Requests -> Request] /\ token' \in [Requests -> Token]
        BY <2>2, DecoyTypes
      <3>2. QED
        BY <1>2, <3>1 DEF SendGate
    <2>3. CASE Finish(r, "failed") /\ UNCHANGED token
      <3>1. req' \in [Requests -> Request]
        BY <2>3, MoveTypes DEF Pages
      <3>2. QED
        BY <1>2, <2>3, <3>1 DEF SendGate
    <2>4. QED
      BY <1>2, <2>1, <2>2, <2>3 DEF SendGate
  <1>3. ASSUME NEW r \in Requests, SendMail(r) PROVE TypeOK'
    <2>1. req' \in [Requests -> Request]
      BY <1>3, MoveTypes DEF SendMail, Pages
    <2>2. rec.otp \in Nat /\ req[r].ticket \in Nat /\ req[r].bucket \in Buckets \cup {0}
      BY DEF Item, Request
    <2>3. QED
      BY <1>3, <2>1, <2>2 DEF SendMail
  <1>4. ASSUME NEW r \in Requests, CreateGet(r) PROVE TypeOK'
    <2>1. Reads \subseteq Item
      BY DEF Reads
    <2>2. \A item \in Item : [req[r] EXCEPT !.pc = "createSave", !.seen = item] \in Request
      <3>1. "createSave" \in PCs
        BY DEF PCs
      <3>2. QED
        BY <1>0, <3>1, SeenUpdate, Zenon
    <2>3. req' \in [Requests -> Request]
      <3>1. CASE Goto(r, "createPut")
        BY <3>1, MoveTypes DEF PCs
      <3>2. ASSUME NEW item \in Reads,
                   req' = [req EXCEPT ![r] = [@ EXCEPT !.pc = "createSave", !.seen = item]]
            PROVE  req' \in [Requests -> Request]
        BY <2>1, <2>2, <3>2
      <3>3. QED
        BY <1>4, <3>1, <3>2 DEF CreateGet
    <2>4. QED
      BY <1>4, <2>3 DEF CreateGet
  <1>5. ASSUME NEW r \in Requests, CreateSave(r) PROVE TypeOK'
    <2>1. Extended(rec, req[r].seen, req[r].now) \in Item
      BY ItemTypes DEF Request
    <2>2. req' \in [Requests -> Request] /\ token' \in [Requests -> Token]
      BY <1>5, ChallengedTypes, MoveTypes DEF CreateSave, PCs
    <2>3. QED
      BY <1>5, <2>1, <2>2 DEF CreateSave
  <1>6. ASSUME NEW r \in Requests, CreatePut(r) PROVE TypeOK'
    <2>1. req[r].now \in Nat
      BY DEF Request
    <2>2. Fresh(Len(mintedAt) + 1, req[r].now) \in Item
      <3>1. Len(mintedAt) + 1 \in Nat
        OBVIOUS
      <3>2. QED
        BY <2>1, <3>1, ItemTypes
    <2>3. Append(mintedAt, req[r].now) \in Seq(Nat)
      BY <2>1
    <2>4. req' \in [Requests -> Request] /\ token' \in [Requests -> Token]
      <3>1. CASE Challenged(r)
        BY <3>1, ChallengedTypes
      <3>2. CASE /\ Finish(r, IF req[r].after = "mail" THEN "failed" ELSE "expiredSession")
                 /\ UNCHANGED token
        <4>1. {"failed", "expiredSession"} \subseteq Pages /\ token \in [Requests -> Token]
          BY DEF Pages, TypeOK
        <4>2. QED
          BY <3>2, <4>1, MoveTypes
      <3>3. QED
        BY <1>6, <3>1, <3>2 DEF CreatePut
    <2>5. QED
      BY <1>6, <2>2, <2>3, <2>4 DEF CreatePut
  <1>7. ASSUME NEW r \in Requests, NEW s \in Requests,
               NEW code \in MailedCodes \cup {0}, Verify(r, s, code)
        PROVE  TypeOK'
    <2>1. code \in Nat /\ InForce(code) \in BOOLEAN /\ token[s].round \in 0..2
      BY DEF MailedCodes, InForce, Reusable, HasCode, Token
    <2> DEFINE q == [req[r] EXCEPT !.typed = code, !.right = InForce(code)]
    <2>2. q \in Request
      BY <1>0, <2>1, AnswerUpdate, Zenon
    <2> HIDE DEF q
    <2>3. [q EXCEPT !.pc = "verifyGet", !.round = token[s].round,
                    !.fresh = (token[s].round = 0)] \in Request
      <3>1. \A f \in BOOLEAN : [q EXCEPT !.pc = "verifyGet",
                 !.round = token[s].round, !.fresh = f] \in Request
        BY <2>1, <2>2 DEF Request, PCs
      <3>2. CASE token[s].round = 0
        BY <3>1, <3>2, Zenon
      <3>3. CASE token[s].round # 0
        BY <3>1, <3>3, Zenon
      <3>4. QED
        BY <3>2, <3>3
    <2>4. [q EXCEPT !.pc = "createGet", !.after = "answer", !.round = 0,
                    !.now = clock, !.fresh = TRUE] \in Request
      <3>1. 0 \in 0..2 /\ "answer" \in {"mail", "answer", "page"} /\ TRUE \in BOOLEAN
        OBVIOUS
      <3>2. QED
        BY <1>0, <2>2, <3>1, RestartUpdate, Zenon
    <2>5. req' \in [Requests -> Request]
      BY <1>7, <2>3, <2>4, MoveTypes DEF Verify, Pages, q
    <2>6. token' \in [Requests -> Token]
      <3>1. [token[s] EXCEPT !.state = "spent"] \in Token
        BY DEF Token
      <3>2. QED
        BY <1>7, <3>1 DEF Verify
    <2>7. QED
      BY <1>7, <2>5, <2>6 DEF Verify
  <1>8. ASSUME NEW r \in Requests, VerifyGet(r) PROVE TypeOK'
    <2>1. Reads \subseteq Item
      BY DEF Reads
    <2>2. \A item \in Item : [req[r] EXCEPT !.pc = "verifyJudge", !.seen = item] \in Request
      BY <1>0, RequestUpdates DEF PCs
    <2>3. req' \in [Requests -> Request] /\ signIns' \in SUBSET [code: Nat, at: Nat]
      BY <1>0, <1>8, <2>1, <2>2, AnsweredTypes DEF VerifyGet
    <2>4. QED
      BY <1>8, <2>3 DEF VerifyGet
  <1>9. ASSUME NEW r \in Requests, VerifyDiscard(r) PROVE TypeOK'
    BY <1>0, <1>9, AnsweredTypes, IdleTypes, ItemTypes DEF VerifyDiscard
  <1>10. ASSUME NEW r \in Requests, VerifyAccept(r) PROVE TypeOK'
    <2>1. req[r].seen.otp \in Nat /\ NoItem \in Item
      BY ItemTypes DEF Request, Item
    <2>2. [req[r] EXCEPT !.pc = "markVerified", !.now = clock] \in Request
      BY <1>0, <2>1, RequestUpdates DEF PCs
    <2>3. req' \in [Requests -> Request] /\ signIns' \in SUBSET [code: Nat, at: Nat]
      BY <1>0, <1>10, <2>2, AnsweredTypes DEF VerifyAccept
    <2>4. QED
      BY <1>10, <2>1, <2>3 DEF VerifyAccept
  <1>11. ASSUME NEW r \in Requests, VerifyReject(r) PROVE TypeOK'
    BY <1>0, <1>11, AnsweredTypes, ItemTypes DEF VerifyReject
  <1>12. ASSUME NEW r \in Requests, VerifyWriteFails(r) PROVE TypeOK'
    <2>1. NoItem \in Item /\ OneMoreAttempt(rec) \in Item /\ req[r].seen.otp \in Nat
      BY <1>0, ItemTypes DEF Request, Item
    <2>2. rec' \in Item /\ consumed' \in SUBSET Nat
      BY <1>12, <2>1 DEF VerifyWriteFails
    <2>3. QED
      BY <1>0, <1>12, <2>2, AnsweredTypes DEF VerifyWriteFails
  <1>13. ASSUME NEW r \in Requests, MarkVerified(r) PROVE TypeOK'
    <2>1. req[r].now \in Nat
      BY DEF Request
    <2>2. QED
      BY <1>13, <2>1, AnsweredTypes DEF MarkVerified
  <1>14. CASE Replicate
    BY <1>14 DEF Replicate
  <1>15. CASE TtlSweep
    BY <1>15, ItemTypes DEF TtlSweep
  <1>16. CASE Tick
    <2>1. \A r \in Requests : [req[r] EXCEPT !.span = @ + 1] \in Request
      BY <1>0, SpanUpdate
    <2>2. req' \in [Requests -> Request]
      BY <1>16, <2>1 DEF Tick
    <2>3. clock' \in 0..MaxClock
      BY <1>16, ParametersAssumption DEF Tick
    <2>4. QED
      BY <1>16, <2>2, <2>3 DEF Tick
  <1>17. CASE AllOver \/ UNCHANGED vars
    BY <1>17 DEF AllOver, vars
  <1>18. QED
    BY <1>1, <1>2, <1>3, <1>4, <1>5, <1>6, <1>7, <1>8, <1>9, <1>10, <1>11,
       <1>12, <1>13, <1>14, <1>15, <1>16, <1>17 DEF Next

\* The tables, the tokens and the invocations always have their types.
THEOREM TypeCorrect == Spec => []TypeOK
  <1>1. Init => TypeOK
    <2>1. NoItem \in Item
      BY DEF NoItem, Item
    <2>2. <<>> \in Seq(Nat) /\ 0 \in 0..MaxClock
      BY ParametersAssumption
    <2> HIDE DEF NoItem
    <2> USE DEF Init
    <2>3. Init => clock \in 0..MaxClock /\ verified \in BOOLEAN
      BY <2>2
    <2>4. Init => rec \in Item /\ replica \in Item /\ sends \in [Buckets -> Nat]
      BY <2>1
    <2>5. Init => req \in [Requests -> Request] /\ token \in [Requests -> Token]
      BY IdleTypes
    <2>6. Init => mintedAt \in Seq(Nat)
      BY <2>2
    <2>7. QED
      BY <2>3, <2>4, <2>5, <2>6 DEF TypeOK
  <1>2. QED
    BY <1>1, TypeStep, PTL DEF Spec

-----------------------------------------------------------------------------
(* The episode bound.                                                      *)

\* No wrong answer issues tokens, and the right one only on the first round.
LEMMA WrongAnswerIssuesNothing ==
    \A n \in Nat : DefineAuthChallenge(n, FALSE) # "issueTokens"
  BY DEF DefineAuthChallenge

\* The history of minted codes only grows.
Grown(minted, next) ==
    /\ Len(minted) <= Len(next)
    /\ \A c \in 1..Len(minted) : next[c] = minted[c]

LEMMA MintingGrows ==
    ASSUME NEW minted \in Seq(Nat), NEW now \in Nat
    PROVE  /\ Grown(minted, minted)
           /\ Grown(minted, Append(minted, now))
           /\ Len(Append(minted, now)) = Len(minted) + 1
           /\ Append(minted, now)[Len(minted) + 1] = now
  BY DEF Grown

\* An item within its episode stays so when other codes are minted.
LEMMA WithinEpisodeKept ==
    ASSUME NEW minted \in Seq(Nat), NEW next \in Seq(Nat), Grown(minted, next),
           NEW item, WithinEpisode(item, minted)
    PROVE  WithinEpisode(item, next)
  BY DEF Grown, WithinEpisode

\* The deadline reusableOtp writes stays within the episode of the code it read.
LEMMA ExtensionWithinEpisode ==
    ASSUME TypeOK, NEW seen \in Item, NEW now \in Nat,
           WithinEpisode(rec, mintedAt), WithinEpisode(seen, mintedAt),
           rec.otp = seen.otp
    PROVE  WithinEpisode(Extended(rec, seen, now), mintedAt)
  <1> DEFINE item == Extended(rec, seen, now)
  <1>1. /\ item.otp = rec.otp /\ item.issuedAt = rec.issuedAt
        /\ item.ttl = ExtendedTtl(seen, now)
    BY DEF Extended, TypeOK, Item
  <1>2. ASSUME rec.otp # 0
        PROVE  ExtendedTtl(seen, now) <= mintedAt[rec.otp] + MaxReuseAge
    <2>1. seen.issuedAt = mintedAt[rec.otp] /\ seen.ttl <= mintedAt[rec.otp] + MaxReuseAge
      BY <1>2 DEF WithinEpisode
    <2>2. seen.issuedAt \in Nat /\ seen.ttl \in Nat /\ OtpExpiry \in Nat /\ MaxReuseAge \in Nat
      BY ParametersAssumption DEF Item
    <2>3. QED
      BY <2>1, <2>2 DEF ExtendedTtl, Greater, Lesser
  <1> HIDE DEF item
  <1>3. QED
    BY <1>1, <1>2 DEF WithinEpisode, item

\* A code just minted starts its episode.
LEMMA FreshWithinEpisode ==
    ASSUME NEW minted \in Seq(Nat), NEW now \in Nat
    PROVE  WithinEpisode(Fresh(Len(minted) + 1, now), Append(minted, now))
  <1> DEFINE item == Fresh(Len(minted) + 1, now)
  <1>1. /\ item.otp = Len(minted) + 1 /\ item.issuedAt = now
        /\ item.ttl = now + OtpExpiry
    BY DEF Fresh
  <1>2. now + OtpExpiry <= now + MaxReuseAge
    BY ParametersAssumption
  <1> HIDE DEF item
  <1>3. QED
    BY <1>1, <1>2, MintingGrows DEF WithinEpisode, item

\* What most steps do to what the invocations have read: nothing, or forget it.
SeenKept ==
    \A x \in Requests :
        /\ req'[x].seen = req[x].seen \/ req'[x].seen = NoItem
        /\ req'[x].pc = "markVerified" =>
            /\ req[x].pc = "markVerified"
            /\ req'[x].typed = req[x].typed /\ req'[x].now = req[x].now

LEMMA MovesKeepSeen ==
    ASSUME TypeOK, NEW r \in Requests
    PROVE  /\ \A pc \in PCs \ {"markVerified"} : Goto(r, pc) => SeenKept
           /\ \A page : Finish(r, page) => SeenKept
           /\ \A after, n : Challenge(r, after, n) => SeenKept
           /\ Challenged(r) => SeenKept
           /\ \A correct, at : Answered(r, correct, at) => SeenKept
           /\ UNCHANGED req => SeenKept
  <1>1. req \in [Requests -> Request] /\ req[r] \in Request
    BY DEF TypeOK
  <1>2. ASSUME NEW pc \in PCs \ {"markVerified"}, Goto(r, pc) PROVE SeenKept
    BY <1>1, <1>2 DEF Goto, SeenKept, Request
  <1>3. ASSUME NEW page, Finish(r, page) PROVE SeenKept
    BY <1>1, <1>3 DEF Finish, SeenKept, IdleRequest
  <1>4. ASSUME NEW after, NEW n, Challenge(r, after, n) PROVE SeenKept
    BY <1>1, <1>4 DEF Challenge, SeenKept, Request
  <1>5. ASSUME Challenged(r) PROVE SeenKept
    <2>1. ASSUME NEW pc \in {"mail", "verifyGet"},
                 req' = [req EXCEPT ![r] = [@ EXCEPT !.pc = pc, !.seen = NoItem]]
          PROVE  SeenKept
      BY <1>1, <2>1 DEF SeenKept, Request
    <2>2. QED
      BY <1>3, <1>5, <2>1 DEF Challenged
  <1>6. ASSUME NEW correct, NEW at, Answered(r, correct, at) PROVE SeenKept
    BY <1>3, <1>4, <1>6 DEF Answered
  <1>7. ASSUME UNCHANGED req PROVE SeenKept
    BY <1>7 DEF SeenKept
  <1>8. QED
    BY <1>2, <1>3, <1>4, <1>5, <1>6, <1>7

LEMMA VerdictsKept ==
    ASSUME TypeOK, VerdictsWithinEpisode, SeenKept, mintedAt' \in Seq(Nat),
           Grown(mintedAt, mintedAt')
    PROVE  VerdictsWithinEpisode'
  <1>1. mintedAt \in Seq(Nat)
    BY DEF TypeOK
  <1>2. WithinEpisode(NoItem, mintedAt')
    BY DEF NoItem, WithinEpisode
  <1>3. ASSUME NEW x \in Requests PROVE WithinEpisode(req'[x].seen, mintedAt')
    <2>1. WithinEpisode(req[x].seen, mintedAt')
      BY <1>1, WithinEpisodeKept DEF VerdictsWithinEpisode
    <2>2. QED
      BY <1>2, <2>1 DEF SeenKept
  <1>4. ASSUME NEW x \in Requests, req'[x].pc = "markVerified"
        PROVE  /\ req'[x].typed \in 1..Len(mintedAt')
               /\ req'[x].now <= mintedAt'[req'[x].typed] + MaxReuseAge
    <2>1. /\ req[x].pc = "markVerified"
          /\ req'[x].typed = req[x].typed /\ req'[x].now = req[x].now
      BY <1>4 DEF SeenKept
    <2>2. /\ req[x].typed \in 1..Len(mintedAt)
          /\ req[x].now <= mintedAt[req[x].typed] + MaxReuseAge
      BY <2>1 DEF VerdictsWithinEpisode
    <2>3. Len(mintedAt) \in Nat /\ Len(mintedAt') \in Nat
      BY <1>1
    <2>4. /\ req[x].typed \in 1..Len(mintedAt')
          /\ mintedAt'[req[x].typed] = mintedAt[req[x].typed]
      BY <2>2, <2>3 DEF Grown
    <2>5. QED
      BY <2>1, <2>2, <2>4
  <1>5. QED
    BY <1>3, <1>4 DEF VerdictsWithinEpisode

\* Histories that did not grow stay behind a mint that may have.
LEMMA HistoriesKept ==
    ASSUME TypeOK, SignInsWithinEpisode, consumed \subseteq 1..Len(mintedAt),
           mintedAt' \in Seq(Nat), Grown(mintedAt, mintedAt')
    PROVE  /\ UNCHANGED signIns => SignInsWithinEpisode'
           /\ UNCHANGED consumed => consumed' \subseteq 1..Len(mintedAt')
  <1>1. mintedAt \in Seq(Nat)
    BY DEF TypeOK
  <1>2. \A c \in 1..Len(mintedAt) : c \in 1..Len(mintedAt') /\ mintedAt'[c] = mintedAt[c]
    BY <1>1 DEF Grown
  <1>3. ASSUME UNCHANGED signIns PROVE SignInsWithinEpisode'
    BY <1>2, <1>3 DEF SignInsWithinEpisode
  <1>4. ASSUME UNCHANGED consumed PROVE consumed' \subseteq 1..Len(mintedAt')
    BY <1>2, <1>4
  <1>5. QED
    BY <1>3, <1>4

\* An answer judged within the episode of the typed code signs in within it;
\* a refused answer signs nobody in.
LEMMA AnsweredWithinEpisode ==
    ASSUME TypeOK, SignInsWithinEpisode, UNCHANGED mintedAt,
           NEW r \in Requests, NEW correct \in BOOLEAN, NEW at,
           correct => /\ req[r].typed \in 1..Len(mintedAt)
                      /\ at <= mintedAt[req[r].typed] + MaxReuseAge,
           Answered(r, correct, at)
    PROVE  SignInsWithinEpisode'
  <1>1. req[r].round + 1 \in Nat
    <2>1. req[r] \in Request
      BY DEF TypeOK
    <2>2. req[r].round \in 0..2
      BY <2>1 DEF Request
    <2>3. QED
      BY <2>2
  <1>2. CASE UNCHANGED signIns
    BY <1>2 DEF SignInsWithinEpisode
  <1>3. CASE /\ DefineAuthChallenge(req[r].round + 1, correct) = "issueTokens"
             /\ signIns' = signIns \cup {[code |-> req[r].typed, at |-> at]}
    <2>1. correct = TRUE
      BY <1>1, <1>3, WrongAnswerIssuesNothing
    <2>2. QED
      BY <1>3, <2>1 DEF SignInsWithinEpisode
  <1>4. QED
    BY <1>2, <1>3 DEF Answered

\* The steps that neither mint nor write the item, sign in nobody and consume
\* nothing.
LEMMA QuietStep ==
    ASSUME TypeOK, EpisodeInvariant, SeenKept,
           UNCHANGED <<rec, replica, mintedAt, signIns, consumed>>
    PROVE  EpisodeInvariant'
  <1>1. mintedAt' \in Seq(Nat) /\ Grown(mintedAt, mintedAt')
    BY DEF TypeOK, Grown
  <1>2. VerdictsWithinEpisode' /\ SignInsWithinEpisode'
    BY <1>1, VerdictsKept, HistoriesKept DEF EpisodeInvariant
  <1>3. QED
    BY <1>2 DEF EpisodeInvariant, TableWithinEpisode,
                WithinEpisode

\* The steps that delete the item or count a wrong answer on it.
LEMMA DiscardStep ==
    ASSUME TypeOK, EpisodeInvariant, VerdictsWithinEpisode', SignInsWithinEpisode',
           UNCHANGED <<replica, mintedAt, consumed>>,
           rec' = NoItem \/ rec' = OneMoreAttempt(rec)
    PROVE  EpisodeInvariant'
  <1>0. rec \in Item /\ Len(mintedAt) \in Nat
    BY DEF TypeOK
  <1>1. rec'.otp = 0 \/ /\ rec'.otp = rec.otp /\ rec'.issuedAt = rec.issuedAt
                        /\ rec'.ttl = rec.ttl
    <2>1. CASE rec' = NoItem
      BY <2>1 DEF NoItem
    <2>2. CASE rec' = OneMoreAttempt(rec)
      BY <1>0, <2>2 DEF OneMoreAttempt, Item
    <2>3. QED
      BY <2>1, <2>2
  <1>2. 0 \notin consumed
    BY <1>0 DEF EpisodeInvariant
  <1>3. WithinEpisode(rec', mintedAt')
    BY <1>1 DEF EpisodeInvariant, TableWithinEpisode, WithinEpisode
  <1>4. rec'.otp \notin consumed'
    BY <1>1, <1>2 DEF EpisodeInvariant
  <1>5. QED
    <2>1. TableWithinEpisode' /\ consumed' \subseteq 1..Len(mintedAt')
      BY <1>3 DEF EpisodeInvariant, TableWithinEpisode
    <2>2. QED
      BY <1>4, <2>1, Zenon DEF EpisodeInvariant

LEMMA EpisodeStep == TypeOK /\ EpisodeInvariant /\ [Next]_vars => EpisodeInvariant'
  <1> SUFFICES ASSUME TypeOK, EpisodeInvariant, [Next]_vars PROVE EpisodeInvariant'
    OBVIOUS
  <1>0. /\ mintedAt \in Seq(Nat) /\ Grown(mintedAt, mintedAt) /\ clock \in Nat
        /\ \A r \in Requests : /\ req[r].now \in Nat /\ req[r].seen \in Item
                               /\ req[r].seen.otp \in Nat
    <2>1. mintedAt \in Seq(Nat) /\ clock \in Nat /\ req \in [Requests -> Request]
      BY DEF TypeOK
    <2>2. Grown(mintedAt, mintedAt)
      BY <2>1 DEF Grown
    <2>3. \A q \in Request : q.now \in Nat /\ q.seen \in Item /\ q.seen.otp \in Nat
      BY DEF Request, Item
    <2>4. QED
      BY <2>1, <2>2, <2>3
  <1>1. ASSUME NEW r \in Requests, SendOtp(r) PROVE EpisodeInvariant'
    <2>1. SeenKept
      <3>1. CASE Goto(r, "gate") \/ DecoyPage(r)
        BY <3>1, MovesKeepSeen DEF PCs, DecoyPage
      <3>2. ASSUME NEW n, NEW b, req' = [req EXCEPT ![r] = [@ EXCEPT
                        !.pc = "gate", !.ticket = n, !.bucket = b]]
            PROVE  SeenKept
        BY <3>2 DEF SeenKept, TypeOK, Request
      <3>3. QED
        BY <1>1, <3>1, <3>2 DEF SendOtp
    <2>2. QED
      BY <1>1, <2>1, QuietStep DEF SendOtp
  <1>2. ASSUME NEW r \in Requests, SendGate(r) PROVE EpisodeInvariant'
    <2>1. SeenKept
      BY <1>2, MovesKeepSeen DEF SendGate, DecoyPage
    <2>2. QED
      BY <1>2, <2>1, QuietStep DEF SendGate
  <1>3. ASSUME NEW r \in Requests, SendMail(r) PROVE EpisodeInvariant'
    <2>1. SeenKept
      BY <1>3, MovesKeepSeen DEF SendMail
    <2>2. QED
      BY <1>3, <2>1, QuietStep DEF SendMail
  <1>4. ASSUME NEW r \in Requests, CreateGet(r) PROVE EpisodeInvariant'
    <2>1. ASSUME Goto(r, "createPut") PROVE EpisodeInvariant'
      <3>1. SeenKept
        BY <2>1, MovesKeepSeen DEF PCs
      <3>2. QED
        BY <1>4, <3>1, QuietStep DEF CreateGet
    <2>2. ASSUME NEW item \in Reads, UNCHANGED <<rec, replica, mintedAt, signIns, consumed>>,
                 req' = [req EXCEPT ![r] = [@ EXCEPT !.pc = "createSave", !.seen = item]]
          PROVE  EpisodeInvariant'
      <3>1. WithinEpisode(item, mintedAt)
        BY <2>2 DEF Reads, EpisodeInvariant, TableWithinEpisode
      <3>2. VerdictsWithinEpisode'
        BY <2>2, <3>1 DEF EpisodeInvariant, VerdictsWithinEpisode, TypeOK, Request
      <3>3. QED
        BY <2>2, <3>2 DEF EpisodeInvariant, TableWithinEpisode, WithinEpisode,
                          SignInsWithinEpisode
    <2>3. QED
      BY <1>4, <2>1, <2>2 DEF CreateGet
  <1>5. ASSUME NEW r \in Requests, CreateSave(r) PROVE EpisodeInvariant'
    <2>1. ASSUME Goto(r, "createPut"), UNCHANGED rec PROVE EpisodeInvariant'
      <3>1. SeenKept
        BY <2>1, MovesKeepSeen DEF PCs
      <3>2. QED
        BY <1>5, <2>1, <3>1, QuietStep DEF CreateSave
    <2>2. ASSUME Challenged(r), rec.exists, rec.otp = req[r].seen.otp,
                 rec' = Extended(rec, req[r].seen, req[r].now)
          PROVE  EpisodeInvariant'
      <3>1. UNCHANGED <<replica, mintedAt, signIns, consumed>>
        BY <1>5 DEF CreateSave
      <3>2. WithinEpisode(rec', mintedAt')
        BY <1>0, <2>2, <3>1, ExtensionWithinEpisode
           DEF EpisodeInvariant, TableWithinEpisode, VerdictsWithinEpisode
      <3>3. rec'.otp = rec.otp /\ rec'.exists = rec.exists
        BY <2>2 DEF Extended, TypeOK, Item
      <3>4. SeenKept
        BY <2>2, MovesKeepSeen
      <3>5. VerdictsWithinEpisode' /\ SignInsWithinEpisode'
        BY <1>0, <3>1, <3>4, VerdictsKept, HistoriesKept DEF EpisodeInvariant
      <3>6. QED
        BY <3>1, <3>2, <3>3, <3>5 DEF EpisodeInvariant, TableWithinEpisode, WithinEpisode
    <2>3. QED
      BY <1>5, <2>1, <2>2 DEF CreateSave
  <1>6. ASSUME NEW r \in Requests, CreatePut(r) PROVE EpisodeInvariant'
    <2>1. ASSUME NEW page, Finish(r, page), UNCHANGED <<rec, mintedAt>>
          PROVE  EpisodeInvariant'
      <3>1. SeenKept
        BY <2>1, MovesKeepSeen
      <3>2. QED
        BY <1>6, <2>1, <3>1, QuietStep DEF CreatePut
    <2>2. ASSUME Challenged(r), rec' = Fresh(Len(mintedAt) + 1, req[r].now),
                 mintedAt' = Append(mintedAt, req[r].now)
          PROVE  EpisodeInvariant'
      <3>1. UNCHANGED <<replica, signIns, consumed>>
        BY <1>6 DEF CreatePut
      <3>2. mintedAt' \in Seq(Nat) /\ Grown(mintedAt, mintedAt')
        BY <1>0, <2>2, MintingGrows
      <3>3. WithinEpisode(rec', mintedAt') /\ WithinEpisode(replica', mintedAt')
        BY <1>0, <2>2, <3>1, <3>2, FreshWithinEpisode, WithinEpisodeKept
           DEF EpisodeInvariant, TableWithinEpisode
      <3>4. SeenKept
        BY <2>2, MovesKeepSeen
      <3>5. VerdictsWithinEpisode' /\ SignInsWithinEpisode'
            /\ consumed' \subseteq 1..Len(mintedAt')
        BY <3>1, <3>2, <3>4, VerdictsKept, HistoriesKept DEF EpisodeInvariant
      <3>6. rec'.otp \notin consumed'
        <4>1. rec'.otp = Len(mintedAt) + 1 /\ Len(mintedAt) \in Nat
          BY <1>0, <2>2 DEF Fresh
        <4>2. QED
          BY <3>1, <4>1 DEF EpisodeInvariant
      <3>7. QED
        BY <3>3, <3>5, <3>6 DEF EpisodeInvariant, TableWithinEpisode, WithinEpisode
    <2>3. QED
      BY <1>6, <2>1, <2>2 DEF CreatePut
  <1>7. ASSUME NEW r \in Requests, NEW s \in Requests,
               NEW code \in MailedCodes \cup {0}, Verify(r, s, code)
        PROVE  EpisodeInvariant'
    <2>1. SeenKept
      <3>1. ASSUME NEW page, Finish(r, page) PROVE SeenKept
        BY <3>1, MovesKeepSeen
      <3>2. req \in [Requests -> Request] /\ req[r] \in Request
        BY DEF TypeOK
      <3> DEFINE q == [req[r] EXCEPT !.typed = code, !.right = InForce(code)]
      <3>3. CASE req' = [req EXCEPT ![r] = [q EXCEPT !.pc = "verifyGet",
                              !.round = token[s].round, !.fresh = token[s].round = 0]]
        BY <3>2, <3>3 DEF SeenKept, Request
      <3>4. CASE req' = [req EXCEPT ![r] = [q EXCEPT !.pc = "createGet",
                              !.after = "answer", !.round = 0, !.now = clock,
                              !.fresh = TRUE]]
        BY <3>2, <3>4 DEF SeenKept, Request
      <3>5. QED
        BY <1>7, <3>1, <3>3, <3>4, Zenon DEF Verify
    <2>2. QED
      BY <1>7, <2>1, QuietStep DEF Verify
  <1>8. ASSUME NEW r \in Requests, VerifyGet(r) PROVE EpisodeInvariant'
    <2>1. UNCHANGED <<rec, replica, mintedAt, consumed>>
      BY <1>8 DEF VerifyGet
    <2>2. ASSUME Answered(r, FALSE, clock) PROVE EpisodeInvariant'
      <3>1. SeenKept
        BY <2>2, MovesKeepSeen
      <3>2. VerdictsWithinEpisode' /\ SignInsWithinEpisode'
        BY <1>0, <2>1, <2>2, <3>1, VerdictsKept, AnsweredWithinEpisode DEF EpisodeInvariant
      <3>3. QED
        BY <2>1, <3>2 DEF EpisodeInvariant, TableWithinEpisode, WithinEpisode
    <2>3. ASSUME NEW item \in Reads, UNCHANGED signIns,
                 req' = [req EXCEPT ![r] = [@ EXCEPT !.pc = "verifyJudge", !.seen = item]]
          PROVE  EpisodeInvariant'
      <3>1. WithinEpisode(item, mintedAt)
        BY <2>3 DEF Reads, EpisodeInvariant, TableWithinEpisode
      <3>2. VerdictsWithinEpisode'
        BY <2>1, <2>3, <3>1 DEF EpisodeInvariant, VerdictsWithinEpisode, TypeOK, Request
      <3>3. QED
        BY <2>1, <2>3, <3>2 DEF EpisodeInvariant, TableWithinEpisode, WithinEpisode,
                          SignInsWithinEpisode
    <2>4. QED
      BY <1>8, <2>2, <2>3 DEF VerifyGet
  <1>9. ASSUME NEW r \in Requests, VerifyDiscard(r) PROVE EpisodeInvariant'
    <2>1. SeenKept
      BY <1>9, MovesKeepSeen DEF VerifyDiscard
    <2>2. VerdictsWithinEpisode' /\ SignInsWithinEpisode'
      BY <1>0, <1>9, <2>1, VerdictsKept, AnsweredWithinEpisode
         DEF EpisodeInvariant, VerifyDiscard
    <2>3. QED
      BY <1>9, <2>2, DiscardStep DEF VerifyDiscard
  <1>10. ASSUME NEW r \in Requests, VerifyAccept(r) PROVE EpisodeInvariant'
    <2> DEFINE seen == req[r].seen
    <2>1. /\ rec' = NoItem /\ consumed' = consumed \cup {seen.otp}
          /\ UNCHANGED <<replica, mintedAt>>
      BY <1>10 DEF VerifyAccept
    <2>2. /\ req[r].typed = seen.otp /\ seen.otp \in 1..Len(mintedAt)
          /\ clock <= mintedAt[seen.otp] + MaxReuseAge
      <3>1. /\ req[r].typed = seen.otp /\ seen.otp # 0 /\ ~(seen.ttl < clock)
        BY <1>10 DEF VerifyAccept, HasCode, Lapsed
      <3>2. WithinEpisode(seen, mintedAt)
        BY DEF EpisodeInvariant, VerdictsWithinEpisode
      <3>3. seen.ttl \in Nat /\ MaxReuseAge \in Nat
        BY <1>0, ParametersAssumption DEF Item
      <3>4. seen.otp \in 1..Len(mintedAt) /\ seen.ttl <= mintedAt[seen.otp] + MaxReuseAge
        BY <3>1, <3>2 DEF WithinEpisode
      <3>5. mintedAt[seen.otp] \in Nat
        BY <1>0, <3>4
      <3> HIDE DEF seen
      <3>6. QED
        BY <1>0, <3>1, <3>3, <3>4, <3>5
    <2>3. VerdictsWithinEpisode' /\ SignInsWithinEpisode'
      <3>1. CASE Answered(r, TRUE, clock)
        <4>1. SeenKept
          BY <3>1, MovesKeepSeen
        <4>2. QED
          BY <1>0, <2>1, <2>2, <3>1, <4>1, VerdictsKept, AnsweredWithinEpisode
             DEF EpisodeInvariant
      <3>2. CASE /\ req' = [req EXCEPT ![r] = [@ EXCEPT !.pc = "markVerified", !.now = clock]]
                 /\ UNCHANGED signIns
        <4>1. /\ req'[r].seen = seen /\ req'[r].typed = req[r].typed /\ req'[r].now = clock
              /\ \A x \in Requests \ {r} : req'[x] = req[x]
          BY <2>1, <3>2 DEF TypeOK, Request
        <4>2. ASSUME NEW x \in Requests
              PROVE  /\ WithinEpisode(req'[x].seen, mintedAt')
                     /\ req'[x].pc = "markVerified" =>
                          /\ req'[x].typed \in 1..Len(mintedAt')
                          /\ req'[x].now <= mintedAt'[req'[x].typed] + MaxReuseAge
          <5>1. CASE x = r
            BY <2>1, <2>2, <4>1, <5>1 DEF EpisodeInvariant, VerdictsWithinEpisode
          <5>2. CASE x # r
            BY <2>1, <4>1, <5>2 DEF EpisodeInvariant, VerdictsWithinEpisode
          <5>3. QED
            BY <5>1, <5>2
        <4>3. VerdictsWithinEpisode'
          BY <4>2 DEF VerdictsWithinEpisode
        <4>4. QED
          BY <2>1, <3>2, <4>3 DEF EpisodeInvariant, SignInsWithinEpisode
      <3>3. QED
        BY <1>10, <3>1, <3>2 DEF VerifyAccept
    <2>4. rec'.otp \notin consumed' /\ consumed' \subseteq 1..Len(mintedAt')
      <3>1. consumed' \subseteq 1..Len(mintedAt)
        BY <2>1, <2>2 DEF EpisodeInvariant
      <3>2. 0 \notin 1..Len(mintedAt) /\ rec'.otp = 0
        BY <1>0, <2>1 DEF NoItem
      <3>3. QED
        BY <2>1, <3>1, <3>2
    <2>5. TableWithinEpisode'
      BY <2>1 DEF EpisodeInvariant, TableWithinEpisode, WithinEpisode, NoItem
    <2>6. QED
      BY <2>3, <2>4, <2>5 DEF EpisodeInvariant
  <1>11. ASSUME NEW r \in Requests, VerifyReject(r) PROVE EpisodeInvariant'
    <2>1. SeenKept
      BY <1>11, MovesKeepSeen DEF VerifyReject
    <2>2. VerdictsWithinEpisode' /\ SignInsWithinEpisode'
      BY <1>0, <1>11, <2>1, VerdictsKept, AnsweredWithinEpisode
         DEF EpisodeInvariant, VerifyReject
    <2>3. QED
      BY <1>11, <2>2, DiscardStep DEF VerifyReject
  <1>12. ASSUME NEW r \in Requests, VerifyWriteFails(r) PROVE EpisodeInvariant'
    <2>1. SeenKept
      BY <1>12, MovesKeepSeen DEF VerifyWriteFails
    <2>2. VerdictsWithinEpisode' /\ SignInsWithinEpisode'
      BY <1>0, <1>12, <2>1, VerdictsKept, AnsweredWithinEpisode
         DEF EpisodeInvariant, VerifyWriteFails
    <2>3. UNCHANGED <<replica, mintedAt>>
      BY <1>12 DEF VerifyWriteFails
    <2>4. CASE UNCHANGED <<rec, consumed>>
      BY <2>2, <2>3, <2>4 DEF EpisodeInvariant, TableWithinEpisode, WithinEpisode
    <2>5. CASE rec' \in {NoItem, OneMoreAttempt(rec)} /\ UNCHANGED consumed
      BY <2>2, <2>3, <2>5, DiscardStep
    <2>6. CASE /\ HasCode(req[r].seen)
               /\ rec' = NoItem /\ consumed' = consumed \cup {req[r].seen.otp}
      <3>1. req[r].seen.otp \in 1..Len(mintedAt)
        BY <2>6 DEF HasCode, EpisodeInvariant, VerdictsWithinEpisode, WithinEpisode
      <3>2. consumed' \subseteq 1..Len(mintedAt)
        BY <2>6, <3>1 DEF EpisodeInvariant
      <3>3. rec'.otp = 0 /\ 0 \notin 1..Len(mintedAt)
        BY <1>0, <2>6 DEF NoItem
      <3>4. QED
        BY <2>2, <2>3, <3>2, <3>3 DEF EpisodeInvariant, TableWithinEpisode, WithinEpisode
    <2>7. QED
      BY <1>12, <2>4, <2>5, <2>6 DEF VerifyWriteFails
  <1>13. ASSUME NEW r \in Requests, MarkVerified(r) PROVE EpisodeInvariant'
    <2>1. SeenKept
      BY <1>13, MovesKeepSeen DEF MarkVerified
    <2>2. UNCHANGED <<rec, replica, mintedAt, consumed>>
      BY <1>13 DEF MarkVerified
    <2>3. /\ req[r].typed \in 1..Len(mintedAt)
          /\ req[r].now <= mintedAt[req[r].typed] + MaxReuseAge
      BY <1>13 DEF MarkVerified, EpisodeInvariant, VerdictsWithinEpisode
    <2>4. VerdictsWithinEpisode' /\ SignInsWithinEpisode'
      BY <1>0, <1>13, <2>1, <2>2, <2>3, VerdictsKept, AnsweredWithinEpisode
         DEF EpisodeInvariant, MarkVerified
    <2>5. QED
      BY <2>2, <2>4 DEF EpisodeInvariant, TableWithinEpisode, WithinEpisode
  <1>14. CASE Replicate
    <2>1. SeenKept
      BY <1>14, MovesKeepSeen DEF Replicate, SeenKept
    <2>2. VerdictsWithinEpisode' /\ SignInsWithinEpisode'
      BY <1>0, <1>14, <2>1, VerdictsKept, HistoriesKept DEF EpisodeInvariant, Replicate
    <2>3. QED
      BY <1>14, <2>2 DEF EpisodeInvariant, Replicate, TableWithinEpisode, WithinEpisode
  <1>15. CASE TtlSweep
    <2>1. SeenKept
      BY <1>15 DEF TtlSweep, SeenKept
    <2>2. VerdictsWithinEpisode' /\ SignInsWithinEpisode'
      BY <1>0, <1>15, <2>1, VerdictsKept, HistoriesKept DEF EpisodeInvariant, TtlSweep
    <2>3. QED
      BY <1>15, <2>2, DiscardStep DEF TtlSweep
  <1>16. CASE Tick
    <2>1. SeenKept
      BY <1>16 DEF Tick, SeenKept, TypeOK, Request
    <2>2. QED
      BY <1>16, <2>1, QuietStep DEF Tick
  <1>17. CASE AllOver \/ UNCHANGED vars
    <2>1. SeenKept
      BY <1>17 DEF AllOver, vars, SeenKept
    <2>2. QED
      BY <1>17, <2>1, QuietStep DEF AllOver, vars
  <1>18. QED
    BY <1>1, <1>2, <1>3, <1>4, <1>5, <1>6, <1>7, <1>8, <1>9, <1>10, <1>11,
       <1>12, <1>13, <1>14, <1>15, <1>16, <1>17 DEF Next

\* The strengthened invariant holds throughout.
LEMMA EpisodeInvariantHolds == Spec => []EpisodeInvariant
  <1>1. Init => EpisodeInvariant
    BY DEF Init, EpisodeInvariant, TableWithinEpisode, VerdictsWithinEpisode,
           WithinEpisode, SignInsWithinEpisode, NoItem, IdleRequest
  <1>2. QED
    BY <1>1, EpisodeStep, TypeCorrect, PTL DEF Spec

\* Every sign-in happens within MaxReuseAge of the minute its code was minted,
\* however many invocations extended the code at once and whatever they had
\* read (create-auth-challenge, MAX_REUSE_AGE_SECONDS).
THEOREM EpisodeBound == Spec => []SignInsWithinEpisode
  <1>1. EpisodeInvariant => SignInsWithinEpisode
    BY DEF EpisodeInvariant
  <1>2. QED
    BY <1>1, EpisodeInvariantHolds, PTL

\* A code deleted by a correct answer never comes back into the table.
THEOREM NoResurrection == Spec => []ConsumedStaysConsumed
  <1>1. EpisodeInvariant => ConsumedStaysConsumed
    BY DEF EpisodeInvariant, ConsumedStaysConsumed
  <1>2. QED
    BY <1>1, EpisodeInvariantHolds, PTL

-----------------------------------------------------------------------------
(* The wrong answers of an episode.                                        *)

\* What AttemptsKept says of one step.
NoFreshTries ==
    HasCode(rec) /\ HasCode(rec') /\ rec'.otp = rec.otp
        => rec'.attempts >= rec.attempts

LEMMA AttemptsStep == TypeOK /\ EpisodeInvariant /\ [Next]_vars => [NoFreshTries]_rec
  <1> SUFFICES ASSUME TypeOK, EpisodeInvariant, [Next]_vars, rec' # rec
               PROVE  NoFreshTries
    OBVIOUS
  <1>0. rec \in Item /\ rec.attempts \in Nat /\ Len(mintedAt) \in Nat
    BY DEF TypeOK, Item
  <1>1. CASE rec' = NoItem
    BY <1>1 DEF NoFreshTries, HasCode, NoItem
  <1>2. CASE rec' = OneMoreAttempt(rec)
    BY <1>0, <1>2 DEF NoFreshTries, OneMoreAttempt, Item
  <1>3. ASSUME NEW seen, NEW now, rec' = Extended(rec, seen, now)
        PROVE  NoFreshTries
    BY <1>0, <1>3 DEF NoFreshTries, Extended, Item
  <1>4. ASSUME NEW now, rec' = Fresh(Len(mintedAt) + 1, now)
        PROVE  NoFreshTries
    <2>1. HasCode(rec) => rec.otp \in 1..Len(mintedAt)
      BY DEF HasCode, EpisodeInvariant, TableWithinEpisode, WithinEpisode
    <2>2. rec'.otp = Len(mintedAt) + 1
      BY <1>4 DEF Fresh
    <2>3. QED
      BY <1>0, <2>1, <2>2 DEF NoFreshTries
  <1>5. ASSUME NEW r \in Requests,
               CreateSave(r) \/ CreatePut(r) \/ VerifyDiscard(r)
                 \/ VerifyAccept(r) \/ VerifyReject(r) \/ VerifyWriteFails(r)
        PROVE  NoFreshTries
    BY <1>1, <1>2, <1>3, <1>4, <1>5
       DEF CreateSave, CreatePut, VerifyDiscard, VerifyAccept, VerifyReject, VerifyWriteFails
  <1>6. CASE TtlSweep
    BY <1>1, <1>6 DEF TtlSweep
  <1>7. ASSUME NEW r \in Requests,
               \/ SendOtp(r) \/ SendGate(r) \/ SendMail(r) \/ CreateGet(r)
               \/ VerifyGet(r) \/ MarkVerified(r)
               \/ \E s \in Requests, code \in MailedCodes \cup {0} : Verify(r, s, code)
        PROVE  UNCHANGED rec
    BY <1>7 DEF SendOtp, SendGate, SendMail, CreateGet, VerifyGet, MarkVerified, Verify
  <1>8. Replicate \/ Tick \/ AllOver \/ UNCHANGED vars => UNCHANGED rec
    BY DEF Replicate, Tick, AllOver, vars
  <1>9. QED
    BY <1>5, <1>6, <1>7, <1>8 DEF Next

\* A resend hands out no fresh tries, whatever interleaves with it: while the
\* table holds the same code its wrong-answer counter never goes down.
THEOREM NoFreshTriesEver == Spec => AttemptsKept
  <1>1. Spec => [][NoFreshTries]_rec
    BY AttemptsStep, TypeCorrect, EpisodeInvariantHolds, PTL DEF Spec
  <1>2. QED
    BY <1>1, PTL DEF AttemptsKept, NoFreshTries

\* A used code stays used, and a code in force keeps the wrong answers it got,
\* however resends, deletions and retries interleave (create- and verify-auth-challenge).
THEOREM NoCodeRevived == Spec => CodesNotRevived
  BY NoResurrection, NoFreshTriesEver, PTL DEF CodesNotRevived

-----------------------------------------------------------------------------
(* The send throttle, for every allowance, every window and every number   *)
(* of requests: the number the atomic ADD returns is a ticket that no two  *)
(* sends share, so the mails of a window map one to one into the allowance.*)

\* What most steps do to the tickets: nothing, or drop one with its request.
TicketsKept ==
    \A x \in Requests :
        \/ req'[x].ticket = req[x].ticket /\ req'[x].bucket = req[x].bucket
        \/ req'[x].ticket = 0

LEMMA MovesKeepTickets ==
    ASSUME TypeOK, NEW r \in Requests
    PROVE  /\ \A pc : Goto(r, pc) => TicketsKept
           /\ \A page : Finish(r, page) => TicketsKept
           /\ \A after, n : Challenge(r, after, n) => TicketsKept
           /\ Challenged(r) => TicketsKept
           /\ \A correct, at : Answered(r, correct, at) => TicketsKept
           /\ UNCHANGED req => TicketsKept
  <1>1. req \in [Requests -> Request] /\ req[r] \in Request
    BY DEF TypeOK
  <1>2. ASSUME NEW pc, Goto(r, pc) PROVE TicketsKept
    BY <1>1, <1>2 DEF Goto, TicketsKept, Request
  <1>3. ASSUME NEW page, Finish(r, page) PROVE TicketsKept
    BY <1>1, <1>3 DEF Finish, TicketsKept, IdleRequest
  <1>4. ASSUME NEW after, NEW n, Challenge(r, after, n) PROVE TicketsKept
    BY <1>1, <1>4 DEF Challenge, TicketsKept, Request
  <1>5. ASSUME Challenged(r) PROVE TicketsKept
    <2>1. ASSUME NEW pc,
                 req' = [req EXCEPT ![r] = [@ EXCEPT !.pc = pc, !.seen = NoItem]]
          PROVE  TicketsKept
      BY <1>1, <2>1 DEF TicketsKept, Request
    <2>2. QED
      BY <1>3, <1>5, <2>1 DEF Challenged
  <1>6. ASSUME NEW correct, NEW at, Answered(r, correct, at) PROVE TicketsKept
    BY <1>3, <1>4, <1>6 DEF Answered
  <1>7. ASSUME UNCHANGED req PROVE TicketsKept
    BY <1>7 DEF TicketsKept
  <1>8. QED
    BY <1>2, <1>3, <1>4, <1>5, <1>6, <1>7

\* A step that grants no ticket and mails nothing; the counters never go down.
LEMMA NoGrantStep ==
    ASSUME TypeOK, AllowanceInvariant, TicketsKept, UNCHANGED mails,
           \A b \in Buckets : sends'[b] >= sends[b], sends' \in [Buckets -> Nat]
    PROVE  AllowanceInvariant'
  <1>1. /\ sends \in [Buckets -> Nat] /\ SendsPerWindow \in Nat
        /\ \A r \in Requests : req[r].ticket \in Nat
        /\ \A m \in mails : m.ticket \in Nat
    BY ParametersAssumption DEF TypeOK, Request
  <1>2. ASSUME NEW ticket \in Nat, NEW bucket, Granted(ticket, bucket)
        PROVE  Granted(ticket, bucket)'
    BY <1>1, <1>2 DEF Granted
  <1>3. ASSUME NEW r \in Requests, req'[r].ticket > 0
        PROVE  /\ Granted(req[r].ticket, req[r].bucket)'
               /\ \A s \in Requests \ {r} : req'[s].bucket = req'[r].bucket
                                               => req'[s].ticket # req'[r].ticket
               /\ \A m \in mails' : m.bucket = req'[r].bucket => m.ticket # req'[r].ticket
    <2>1. req'[r].ticket = req[r].ticket /\ req'[r].bucket = req[r].bucket
      BY <1>3 DEF TicketsKept
    <2>2. req[r].ticket > 0
      BY <1>3, <2>1
    <2>3. Granted(req[r].ticket, req[r].bucket)'
      BY <1>1, <1>2, <2>1, <2>2 DEF AllowanceInvariant, Granted
    <2>4. ASSUME NEW s \in Requests \ {r}, req'[s].bucket = req'[r].bucket
          PROVE  req'[s].ticket # req'[r].ticket
      <3>1. CASE req'[s].ticket = 0
        BY <1>1, <2>1, <2>2, <3>1
      <3>2. CASE req'[s].ticket = req[s].ticket /\ req'[s].bucket = req[s].bucket
        BY <2>1, <2>2, <2>4, <3>2 DEF AllowanceInvariant
      <3>3. QED
        BY <3>1, <3>2 DEF TicketsKept
    <2>5. QED
      BY <2>1, <2>2, <2>3, <2>4 DEF AllowanceInvariant
  <1>4. ASSUME NEW m \in mails, m.ticket > 0 PROVE Granted(m.ticket, m.bucket)'
    BY <1>1, <1>2, <1>4 DEF AllowanceInvariant
  <1>5. QED
    BY <1>3, <1>4 DEF AllowanceInvariant

\* A request that takes the next number of its window takes one nobody has.
LEMMA GrantStep ==
    ASSUME TypeOK, AllowanceInvariant, NEW r \in Requests, NEW b \in Buckets,
           sends[b] + 1 <= SendsPerWindow,
           sends' = [sends EXCEPT ![b] = sends[b] + 1],
           req' = [req EXCEPT ![r] = [@ EXCEPT !.pc = "gate",
                                        !.ticket = sends[b] + 1, !.bucket = b]],
           UNCHANGED mails
    PROVE  AllowanceInvariant'
  <1> DEFINE n == sends[b] + 1
  <1>0. sends \in [Buckets -> Nat] /\ req \in [Requests -> Request]
    BY DEF TypeOK
  <1>1. /\ sends \in [Buckets -> Nat] /\ SendsPerWindow \in Nat /\ n \in Nat
        /\ req \in [Requests -> Request] /\ req[r] \in Request
        /\ \A s \in Requests : req[s].ticket \in Nat
        /\ \A m \in mails : m.ticket \in Nat
    <2>1. n \in Nat /\ SendsPerWindow \in Nat
      BY <1>0, ParametersAssumption
    <2>2. \A s \in Requests : req[s].ticket \in Nat
      BY <1>0 DEF Request
    <2>3. QED
      BY <1>0, <2>1, <2>2 DEF TypeOK
  <1>2. /\ req'[r].ticket = n /\ req'[r].bucket = b
        /\ \A s \in Requests \ {r} : req'[s] = req[s]
    BY <1>1 DEF Request
  <1>3. ASSUME NEW ticket \in Nat, NEW bucket, Granted(ticket, bucket)
        PROVE  Granted(ticket, bucket)'
    BY <1>1, <1>3 DEF Granted
  <1>4. n <= sends'[b] /\ n <= SendsPerWindow
    BY <1>1
  <1>5. \A s \in Requests : req[s].bucket = b => req[s].ticket # n
    BY <1>1 DEF AllowanceInvariant, Granted
  <1>6. \A m \in mails : m.bucket = b => m.ticket # n
    BY <1>1 DEF AllowanceInvariant, Granted
  <1> HIDE DEF n
  <1>7. ASSUME NEW x \in Requests, req'[x].ticket > 0
        PROVE  /\ Granted(req[x].ticket, req[x].bucket)'
               /\ \A s \in Requests \ {x} : req'[s].bucket = req'[x].bucket
                                               => req'[s].ticket # req'[x].ticket
               /\ \A m \in mails' : m.bucket = req'[x].bucket => m.ticket # req'[x].ticket
    <2>1. CASE x = r
      <3>1. Granted(req[x].ticket, req[x].bucket)'
        BY <1>2, <1>4, <2>1 DEF Granted
      <3>2. QED
        BY <1>2, <1>5, <1>6, <2>1, <3>1
    <2>2. CASE x # r
      <3>1. req'[x] = req[x] /\ req[x].ticket > 0
        BY <1>2, <1>7, <2>2
      <3>2. Granted(req[x].ticket, req[x].bucket)'
        BY <1>1, <1>3, <3>1 DEF AllowanceInvariant, Granted
      <3>3. ASSUME NEW s \in Requests \ {x}, req'[s].bucket = req'[x].bucket
            PROVE  req'[s].ticket # req'[x].ticket
        BY <1>2, <1>5, <3>1, <3>3 DEF AllowanceInvariant
      <3>4. QED
        BY <3>1, <3>2, <3>3 DEF AllowanceInvariant
    <2>3. QED
      BY <2>1, <2>2
  <1>8. ASSUME NEW m \in mails, m.ticket > 0 PROVE Granted(m.ticket, m.bucket)'
    BY <1>1, <1>3, <1>8 DEF AllowanceInvariant
  <1>9. QED
    BY <1>7, <1>8 DEF AllowanceInvariant

\* The mail that leaves takes its request's ticket away with it.
LEMMA MailStep ==
    ASSUME TypeOK, AllowanceInvariant, NEW r \in Requests, NEW page, NEW code,
           Finish(r, page), UNCHANGED sends,
           mails' = mails \cup {[req |-> r, code |-> code, ticket |-> req[r].ticket,
                                 bucket |-> req[r].bucket]}
    PROVE  AllowanceInvariant'
  <1> DEFINE mail == [req |-> r, code |-> code, ticket |-> req[r].ticket,
                      bucket |-> req[r].bucket]
  <1>1. /\ req \in [Requests -> Request] /\ req[r].ticket \in Nat
        /\ \A m \in mails : m.ticket \in Nat
    BY DEF TypeOK, Request
  <1>2. req'[r].ticket = 0 /\ \A s \in Requests \ {r} : req'[s] = req[s]
    BY <1>1 DEF Finish, IdleRequest
  <1>3. /\ mail.ticket = req[r].ticket /\ mail.bucket = req[r].bucket
        /\ mails' = mails \cup {mail}
    OBVIOUS
  <1> HIDE DEF mail
  <1>4. ASSUME NEW x \in Requests, req'[x].ticket > 0
        PROVE  /\ Granted(req[x].ticket, req[x].bucket)'
               /\ \A s \in Requests \ {x} : req'[s].bucket = req'[x].bucket
                                               => req'[s].ticket # req'[x].ticket
               /\ \A m \in mails' : m.bucket = req'[x].bucket => m.ticket # req'[x].ticket
    <2>1. x # r /\ req'[x] = req[x] /\ req[x].ticket > 0
      BY <1>2, <1>4
    <2>2. Granted(req[x].ticket, req[x].bucket)'
      BY <2>1 DEF AllowanceInvariant, Granted
    <2>3. ASSUME NEW s \in Requests \ {x}, req'[s].bucket = req'[x].bucket
          PROVE  req'[s].ticket # req'[x].ticket
      <3>1. CASE s = r
        BY <1>2, <1>4, <3>1
      <3>2. CASE s # r
        BY <1>2, <2>1, <2>3, <3>2 DEF AllowanceInvariant
      <3>3. QED
        BY <3>1, <3>2
    <2>4. ASSUME NEW m \in mails', m.bucket = req'[x].bucket
          PROVE  m.ticket # req'[x].ticket
      BY <1>3, <2>1, <2>4 DEF AllowanceInvariant
    <2>5. QED
      BY <2>2, <2>3, <2>4
  <1>5. ASSUME NEW m \in mails', m.ticket > 0
        PROVE  /\ Granted(m.ticket, m.bucket)'
               /\ \A k \in mails' \ {m} : k.bucket = m.bucket => k.ticket # m.ticket
    <2>1. Granted(m.ticket, m.bucket)
      BY <1>3, <1>5 DEF AllowanceInvariant
    <2>2. ASSUME NEW k \in mails' \ {m}, k.bucket = m.bucket PROVE k.ticket # m.ticket
      BY <1>3, <1>5, <2>2 DEF AllowanceInvariant
    <2>3. QED
      BY <2>1, <2>2 DEF Granted
  <1>6. QED
    BY <1>4, <1>5 DEF AllowanceInvariant

LEMMA AllowanceStep == TypeOK /\ AllowanceInvariant /\ [Next]_vars => AllowanceInvariant'
  <1> SUFFICES ASSUME TypeOK, AllowanceInvariant, [Next]_vars PROVE AllowanceInvariant'
    OBVIOUS
  <1>0. /\ sends \in [Buckets -> Nat] /\ \A b \in Buckets : sends[b] \in Nat
        /\ req \in [Requests -> Request] /\ clock \in 0..MaxClock
    BY DEF TypeOK
  <1>1. ASSUME TicketsKept, UNCHANGED <<mails, sends>> PROVE AllowanceInvariant'
    BY <1>0, <1>1, NoGrantStep
  <1>2. ASSUME NEW r \in Requests, SendOtp(r) PROVE AllowanceInvariant'
    <2> DEFINE b == clock \div OtpWindow
    <2>1. b \in Buckets /\ UNCHANGED mails
      BY <1>0, <1>2 DEF Buckets, SendOtp
    <2>2. CASE Goto(r, "gate") /\ UNCHANGED sends
      BY <1>1, <2>1, <2>2, MovesKeepTickets
    <2>3. CASE DecoyPage(r) /\ sends' = [sends EXCEPT ![b] = sends[b] + 1]
      <3>1. TicketsKept
        BY <2>3, MovesKeepTickets DEF DecoyPage
      <3> HIDE DEF b
      <3>2. sends' \in [Buckets -> Nat] /\ \A d \in Buckets : sends'[d] >= sends[d]
        BY <1>0, <2>1, <2>3
      <3>3. QED
        BY <2>1, <3>1, <3>2, NoGrantStep
    <2>4. CASE /\ sends[b] + 1 <= SendsPerWindow
               /\ sends' = [sends EXCEPT ![b] = sends[b] + 1]
               /\ req' = [req EXCEPT ![r] = [@ EXCEPT !.pc = "gate",
                                        !.ticket = sends[b] + 1, !.bucket = b]]
      BY <2>1, <2>4, GrantStep
    <2>5. QED
      BY <1>2, <2>2, <2>3, <2>4 DEF SendOtp, Allowed
  <1>3. ASSUME NEW r \in Requests, SendGate(r) PROVE AllowanceInvariant'
    BY <1>1, <1>3, MovesKeepTickets DEF SendGate, DecoyPage
  <1>4. ASSUME NEW r \in Requests, SendMail(r) PROVE AllowanceInvariant'
    <2>1. CASE UNCHANGED mails
      BY <1>1, <1>4, <2>1, MovesKeepTickets DEF SendMail
    <2>2. CASE mails' = mails \cup {[req |-> r, code |-> rec.otp,
                            ticket |-> req[r].ticket, bucket |-> req[r].bucket]}
      BY <1>4, <2>2, MailStep DEF SendMail
    <2>3. QED
      BY <1>4, <2>1, <2>2 DEF SendMail
  <1>5. ASSUME NEW r \in Requests, CreateGet(r) PROVE AllowanceInvariant'
    <2>1. ASSUME NEW item,
                 req' = [req EXCEPT ![r] = [@ EXCEPT !.pc = "createSave", !.seen = item]]
          PROVE  TicketsKept
      BY <1>0, <2>1 DEF TicketsKept, Request
    <2>2. QED
      BY <1>1, <1>5, <2>1, MovesKeepTickets DEF CreateGet
  <1>6. ASSUME NEW r \in Requests, CreateSave(r) PROVE AllowanceInvariant'
    BY <1>1, <1>6, MovesKeepTickets DEF CreateSave
  <1>7. ASSUME NEW r \in Requests, CreatePut(r) PROVE AllowanceInvariant'
    BY <1>1, <1>7, MovesKeepTickets DEF CreatePut
  <1>8. ASSUME NEW r \in Requests, NEW s \in Requests,
               NEW code \in MailedCodes \cup {0}, Verify(r, s, code)
        PROVE  AllowanceInvariant'
    <2>1. UNCHANGED <<mails, sends>>
      BY <1>8 DEF Verify
    <2>2. TicketsKept
      <3>1. ASSUME NEW page, Finish(r, page) PROVE TicketsKept
        BY <3>1, MovesKeepTickets
      <3>2. req[r] \in Request
        BY <1>0
      <3> DEFINE q == [req[r] EXCEPT !.typed = code, !.right = InForce(code)]
      <3>3. CASE req' = [req EXCEPT ![r] = [q EXCEPT !.pc = "verifyGet",
                              !.round = token[s].round, !.fresh = token[s].round = 0]]
        BY <1>0, <3>2, <3>3 DEF TicketsKept, Request
      <3>4. CASE req' = [req EXCEPT ![r] = [q EXCEPT !.pc = "createGet",
                              !.after = "answer", !.round = 0, !.now = clock,
                              !.fresh = TRUE]]
        BY <1>0, <3>2, <3>4 DEF TicketsKept, Request
      <3>5. QED
        BY <1>8, <3>1, <3>3, <3>4, Zenon DEF Verify
    <2>3. QED
      BY <1>1, <2>1, <2>2
  <1>9. ASSUME NEW r \in Requests, VerifyGet(r) PROVE AllowanceInvariant'
    <2>1. ASSUME NEW item,
                 req' = [req EXCEPT ![r] = [@ EXCEPT !.pc = "verifyJudge", !.seen = item]]
          PROVE  TicketsKept
      BY <1>0, <2>1 DEF TicketsKept, Request
    <2>2. QED
      BY <1>1, <1>9, <2>1, MovesKeepTickets DEF VerifyGet
  <1>10. ASSUME NEW r \in Requests, VerifyDiscard(r) PROVE AllowanceInvariant'
    BY <1>1, <1>10, MovesKeepTickets DEF VerifyDiscard
  <1>11. ASSUME NEW r \in Requests, VerifyAccept(r) PROVE AllowanceInvariant'
    <2>1. ASSUME req' = [req EXCEPT ![r] = [@ EXCEPT !.pc = "markVerified", !.now = clock]]
          PROVE  TicketsKept
      BY <1>0, <2>1 DEF TicketsKept, Request
    <2>2. QED
      BY <1>1, <1>11, <2>1, MovesKeepTickets DEF VerifyAccept
  <1>12. ASSUME NEW r \in Requests, VerifyReject(r) PROVE AllowanceInvariant'
    BY <1>1, <1>12, MovesKeepTickets DEF VerifyReject
  <1>13. ASSUME NEW r \in Requests, VerifyWriteFails(r) PROVE AllowanceInvariant'
    BY <1>1, <1>13, MovesKeepTickets DEF VerifyWriteFails
  <1>14. ASSUME NEW r \in Requests, MarkVerified(r) PROVE AllowanceInvariant'
    BY <1>1, <1>14, MovesKeepTickets DEF MarkVerified
  <1>15. CASE Replicate \/ TtlSweep
    BY <1>1, <1>15 DEF Replicate, TtlSweep, TicketsKept
  <1>16. CASE Tick
    <2>1. TicketsKept
      BY <1>0, <1>16 DEF Tick, TicketsKept, Request
    <2>2. QED
      BY <1>1, <1>16, <2>1 DEF Tick
  <1>17. CASE AllOver \/ UNCHANGED vars
    BY <1>1, <1>17 DEF AllOver, vars, TicketsKept
  <1>18. QED
    BY <1>2, <1>3, <1>4, <1>5, <1>6, <1>7, <1>8, <1>9, <1>10, <1>11, <1>12,
       <1>13, <1>14, <1>15, <1>16, <1>17 DEF Next

\* Mails of a window with distinct tickets within the allowance fit in it.
LEMMA TicketsCountMails ==
    ASSUME TypeOK, AllowanceInvariant PROVE MailsWithinAllowance
  <1> SUFFICES ASSUME NEW b \in Buckets
               PROVE  Cardinality({m \in mails : m.bucket = b /\ m.ticket > 0})
                        <= SendsPerWindow
    BY DEF MailsWithinAllowance
  <1> DEFINE S == {m \in mails : m.bucket = b /\ m.ticket > 0}
             f == [m \in S |-> m.ticket]
  <1>1. SendsPerWindow \in Nat /\ \A m \in mails : m.ticket \in Nat
    BY ParametersAssumption DEF TypeOK
  <1>2. \A m \in S : m.ticket \in 1..SendsPerWindow
    BY <1>1 DEF AllowanceInvariant, Granted
  <1>3. \A m, k \in S : m.ticket = k.ticket => m = k
    BY DEF AllowanceInvariant
  <1>4. f \in Injection(S, 1..SendsPerWindow)
    BY <1>2, <1>3 DEF Injection, IsInjective
  <1>5. IsFiniteSet(1..SendsPerWindow) /\ Cardinality(1..SendsPerWindow) = SendsPerWindow
    BY <1>1, FS_Interval
  <1> HIDE DEF S, f
  <1>6. Cardinality(S) <= SendsPerWindow
    BY <1>4, <1>5, FS_Injection
  <1>7. QED
    BY <1>6 DEF S

\* However many send-otp requests run at once and in whatever order, a window
\* sees at most SendsPerWindow counted mails for the address (otpSendAllowed).
THEOREM AllowanceBound == Spec => []MailsWithinAllowance
  <1>1. Init => AllowanceInvariant
    BY DEF Init, AllowanceInvariant, IdleRequest
  <1>2. QED
    BY <1>1, AllowanceStep, TypeCorrect, TicketsCountMails, PTL DEF Spec

-----------------------------------------------------------------------------
(* One request at a time, and nothing fails.                               *)

\* The steps of invocation r.
Handles(r) ==
    \/ SendOtp(r) \/ SendGate(r) \/ SendMail(r)
    \/ CreateGet(r) \/ CreateSave(r) \/ CreatePut(r)
    \/ \E s \in Requests, code \in MailedCodes \cup {0} : Verify(r, s, code)
    \/ VerifyGet(r) \/ VerifyDiscard(r) \/ VerifyAccept(r)
    \/ VerifyReject(r) \/ VerifyWriteFails(r) \/ MarkVerified(r)

\* A request that arrives finds nobody at work.
LEMMA FirstInLine ==
    ASSUME OneAtATime, AloneInvariant, Cardinality(InFlight) < MaxInFlight
    PROVE  InFlight = {}
  <1> SUFFICES ASSUME NEW r \in InFlight PROVE FALSE
    OBVIOUS
  <1>1. InFlight = {r}
    BY DEF AloneInvariant
  <1>2. Cardinality(InFlight) = 1
    BY <1>1, FS_Singleton
  <1> QED
    BY <1>2 DEF OneAtATime

\* While one request is served the others have no part in it.
LEMMA OthersRest ==
    ASSUME TypeOK, OneAtATime, AloneInvariant, NEW r \in Requests, Handles(r)
    PROVE  /\ \A x \in Requests \ {r} : req'[x] = req[x] /\ ~Running(x)
           /\ UNCHANGED <<clock, replica>>
  <1>1. req \in [Requests -> Request]
    BY DEF TypeOK
  <1>2. ASSUME NEW x \in Requests \ {r} PROVE req'[x] = req[x]
    BY <1>1, <1>2 DEF Handles, SendOtp, SendGate, SendMail, CreateGet, CreateSave, CreatePut,
         Verify, VerifyGet, VerifyDiscard, VerifyAccept, VerifyReject, VerifyWriteFails,
         MarkVerified, Goto, Finish, DecoyPage, Challenge, Challenged, Answered
  <1>3. UNCHANGED <<clock, replica>>
    BY DEF Handles, SendOtp, SendGate, SendMail, CreateGet, CreateSave, CreatePut,
         Verify, VerifyGet, VerifyDiscard, VerifyAccept, VerifyReject, VerifyWriteFails,
         MarkVerified
  <1>4. Running(r) \/ Cardinality(InFlight) < MaxInFlight
    BY DEF Handles, SendOtp, SendGate, SendMail, CreateGet, CreateSave, CreatePut,
         Verify, VerifyGet, VerifyDiscard, VerifyAccept, VerifyReject, VerifyWriteFails,
         MarkVerified, Running
  <1>5. ASSUME NEW x \in Requests \ {r} PROVE ~Running(x)
    BY <1>4, FirstInLine DEF AloneInvariant, InFlight
  <1> QED
    BY <1>2, <1>3, <1>5

\* What a step of r has to keep.
LEMMA AloneKept ==
    ASSUME TypeOK, TypeOK', OneAtATime, AloneInvariant, NEW r \in Requests, Handles(r),
           req'[r].now <= clock, req'[r].span <= MaxSpan,
           req'[r].pc = "createSave" => rec' = req'[r].seen,
           req'[r].pc = "createPut" => ~Reusable(rec', req'[r].now)
    PROVE  AloneInvariant'
  <1>1. \A x \in Requests \ {r} : req'[x] = req[x] /\ ~Running(x)
    BY OthersRest
  <1>2. UNCHANGED clock
    BY OthersRest
  <1>3. \A x \in InFlight' : x = r
    BY <1>1 DEF InFlight, Running
  <1>4. ASSUME NEW x \in Requests \ {r}
        PROVE  /\ req'[x].now <= clock' /\ req'[x].span <= MaxSpan
               /\ req'[x].pc \notin {"createSave", "createPut"}
    BY <1>1, <1>2 DEF AloneInvariant, Running
  <1> QED
    BY <1>2, <1>3, <1>4 DEF AloneInvariant

\* The ways an invocation moves on, as AloneKept wants them.
LEMMA AloneMoves ==
    ASSUME TypeOK, AloneInvariant, NEW r \in Requests
    PROVE  LET Fine == /\ req'[r].now <= clock /\ req'[r].span <= MaxSpan
                       /\ req'[r].pc \notin {"createSave", "createPut"}
           IN /\ \A pc \in PCs \ {"createSave", "createPut"} : Goto(r, pc) => Fine
              /\ \A page : Finish(r, page) => Fine
              /\ \A after, n : Challenge(r, after, n) => Fine
              /\ Challenged(r) => Fine
              /\ \A correct, at : Answered(r, correct, at) => Fine
  <1> DEFINE Fine == /\ req'[r].now <= clock /\ req'[r].span <= MaxSpan
                     /\ req'[r].pc \notin {"createSave", "createPut"}
  <1>1. /\ req \in [Requests -> Request] /\ req[r] \in Request /\ clock \in Nat /\ MaxSpan \in Nat
        /\ req[r].now <= clock /\ req[r].span <= MaxSpan
    BY ParametersAssumption DEF TypeOK, AloneInvariant
  <1>2. ASSUME NEW pc \in PCs \ {"createSave", "createPut"}, Goto(r, pc) PROVE Fine
    BY <1>1, <1>2 DEF Goto, Request
  <1>3. ASSUME NEW page, Finish(r, page) PROVE Fine
    BY <1>1, <1>3 DEF Finish, IdleRequest
  <1>4. ASSUME NEW after, NEW n, Challenge(r, after, n) PROVE Fine
    BY <1>1, <1>4 DEF Challenge, Request
  <1>5. ASSUME Challenged(r) PROVE Fine
    <2>1. ASSUME NEW pc \in {"mail", "verifyGet"},
                 req' = [req EXCEPT ![r] = [@ EXCEPT !.pc = pc, !.seen = NoItem]]
          PROVE  Fine
      BY <1>1, <2>1 DEF Request
    <2>2. QED
      BY <1>3, <1>5, <2>1 DEF Challenged
  <1>6. ASSUME NEW correct, NEW at, Answered(r, correct, at) PROVE Fine
    BY <1>3, <1>4, <1>6 DEF Answered
  <1> HIDE DEF Fine
  <1>7. QED
    BY <1>2, <1>3, <1>4, <1>5, <1>6 DEF Fine

\* With every minute a code is reusable for less.
LEMMA ReusableNoLonger ==
    ASSUME NEW item \in Item, NEW a \in Nat, NEW b \in Nat, a <= b, Reusable(item, b)
    PROVE  Reusable(item, a)
  <1>1. item.ttl \in Nat /\ item.issuedAt \in Nat /\ MaxReuseAge \in Nat
    BY ParametersAssumption DEF Item
  <1> QED
    BY <1>1 DEF Reusable

\* Every step keeps what AloneInvariant says.
LEMMA AloneStep ==
    ASSUME TypeOK, TypeOK', OneAtATime, AloneInvariant, [Next]_vars
    PROVE  AloneInvariant'
  <1>0. /\ req \in [Requests -> Request] /\ rec \in Item /\ clock \in Nat /\ MaxSpan \in Nat
        /\ \A x \in Requests : req[x] \in Request
        /\ \A x \in Requests : req[x].now <= clock /\ req[x].span <= MaxSpan
    BY ParametersAssumption DEF TypeOK, AloneInvariant
  <1>1. ASSUME NEW r \in Requests, Handles(r) PROVE AloneInvariant'
    <2>0. SUFFICES /\ req'[r].now <= clock /\ req'[r].span <= MaxSpan
                   /\ req'[r].pc = "createSave" => rec' = req'[r].seen
                   /\ req'[r].pc = "createPut" => ~Reusable(rec', req'[r].now)
      BY <1>1, AloneKept
    <2>1. CASE SendOtp(r)
      <3>1. CASE Goto(r, "gate") \/ DecoyPage(r)
        BY <3>1, AloneMoves DEF PCs, DecoyPage
      <3>2. ASSUME NEW n, NEW b, req' = [req EXCEPT ![r] = [@ EXCEPT
                        !.pc = "gate", !.ticket = n, !.bucket = b]]
            PROVE  /\ req'[r].now <= clock /\ req'[r].span <= MaxSpan
                   /\ req'[r].pc \notin {"createSave", "createPut"}
        BY <1>0, <3>2 DEF Request
      <3> QED
        BY <2>1, <3>1, <3>2 DEF SendOtp
    <2>2. CASE SendGate(r) \/ SendMail(r)
      BY <2>2, AloneMoves DEF SendGate, SendMail, DecoyPage
    <2>3. CASE CreateGet(r)
      <3>1. UNCHANGED rec /\ Reads = {rec}
        BY <2>3 DEF CreateGet, Reads, OneAtATime
      <3>2. CASE req' = [req EXCEPT ![r] = [@ EXCEPT !.pc = "createSave", !.seen = rec]]
        BY <1>0, <3>1, <3>2 DEF Request
      <3>3. CASE ~Reusable(rec, req[r].now) /\ Goto(r, "createPut")
        BY <1>0, <3>1, <3>3 DEF Request, Goto
      <3> QED
        BY <2>3, <3>1, <3>2, <3>3 DEF CreateGet, OneAtATime
    <2>4. CASE CreateSave(r)
      <3>1. CASE Challenged(r)
        BY <3>1, AloneMoves
      <3>2. CASE ~(rec.exists /\ rec.otp = req[r].seen.otp) /\ Goto(r, "createPut") /\ UNCHANGED rec
        <4>1. ~HasCode(rec)
          BY <2>4, <3>2 DEF AloneInvariant, CreateSave, HasCode
        <4>2. req'[r].now <= clock /\ req'[r].span <= MaxSpan /\ req'[r].pc = "createPut"
          BY <1>0, <3>2 DEF Request, Goto
        <4> QED
          BY <3>2, <4>1, <4>2 DEF Reusable
      <3> QED
        BY <2>4, <3>1, <3>2 DEF CreateSave, OneAtATime
    <2>5. CASE CreatePut(r)
      BY <2>5, AloneMoves DEF CreatePut, OneAtATime
    <2>6. ASSUME NEW s \in Requests, NEW code \in MailedCodes \cup {0}, Verify(r, s, code)
          PROVE  /\ req'[r].now <= clock /\ req'[r].span <= MaxSpan
                 /\ req'[r].pc \notin {"createSave", "createPut"}
      <3>1. \A page : Finish(r, page) => /\ req'[r].now <= clock /\ req'[r].span <= MaxSpan
                                          /\ req'[r].pc \notin {"createSave", "createPut"}
        BY AloneMoves
      <3>2. ASSUME NEW right, NEW f,
                   req' = [req EXCEPT ![r] = [[req[r] EXCEPT !.typed = code, !.right = right]
                             EXCEPT !.pc = "verifyGet", !.round = token[s].round, !.fresh = f]]
            PROVE  /\ req'[r].now <= clock /\ req'[r].span <= MaxSpan
                   /\ req'[r].pc \notin {"createSave", "createPut"}
        BY <1>0, <3>2 DEF Request
      <3>3. ASSUME NEW right,
                   req' = [req EXCEPT ![r] = [[req[r] EXCEPT !.typed = code, !.right = right]
                             EXCEPT !.pc = "createGet", !.after = "answer", !.round = 0,
                                    !.now = clock, !.fresh = TRUE]]
            PROVE  /\ req'[r].now <= clock /\ req'[r].span <= MaxSpan
                   /\ req'[r].pc \notin {"createSave", "createPut"}
        BY <1>0, <3>3 DEF Request
      <3>4. \/ Finish(r, "incorrectCode")
            \/ req' = [req EXCEPT ![r] = [[req[r] EXCEPT !.typed = code, !.right = InForce(code)]
                         EXCEPT !.pc = "verifyGet", !.round = token[s].round,
                                !.fresh = (token[s].round = 0)]]
            \/ req' = [req EXCEPT ![r] = [[req[r] EXCEPT !.typed = code, !.right = InForce(code)]
                         EXCEPT !.pc = "createGet", !.after = "answer", !.round = 0,
                                !.now = clock, !.fresh = TRUE]]
        BY <2>6, Zenon DEF Verify, OneAtATime
      <3>5. CASE Finish(r, "incorrectCode")
        BY <3>1, <3>5
      <3>6. CASE req' = [req EXCEPT ![r] = [[req[r] EXCEPT !.typed = code, !.right = InForce(code)]
                           EXCEPT !.pc = "verifyGet", !.round = token[s].round,
                                  !.fresh = (token[s].round = 0)]]
        BY <3>2, <3>6, Zenon
      <3>7. CASE req' = [req EXCEPT ![r] = [[req[r] EXCEPT !.typed = code, !.right = InForce(code)]
                           EXCEPT !.pc = "createGet", !.after = "answer", !.round = 0,
                                  !.now = clock, !.fresh = TRUE]]
        BY <3>3, <3>7, Zenon
      <3> QED
        BY <3>4, <3>5, <3>6, <3>7, Zenon
    <2>7. CASE VerifyGet(r)
      <3>1. ASSUME NEW item, req' = [req EXCEPT ![r] = [@ EXCEPT !.pc = "verifyJudge", !.seen = item]]
            PROVE  /\ req'[r].now <= clock /\ req'[r].span <= MaxSpan
                   /\ req'[r].pc \notin {"createSave", "createPut"}
        BY <1>0, <3>1 DEF Request
      <3> QED
        BY <2>7, <3>1, AloneMoves DEF VerifyGet
    <2>8. CASE VerifyDiscard(r) \/ VerifyReject(r) \/ VerifyWriteFails(r)
      BY <2>8, AloneMoves DEF VerifyDiscard, VerifyReject, VerifyWriteFails
    <2>9. CASE VerifyAccept(r)
      <3>1. ASSUME req' = [req EXCEPT ![r] = [@ EXCEPT !.pc = "markVerified", !.now = clock]]
            PROVE  /\ req'[r].now <= clock /\ req'[r].span <= MaxSpan
                   /\ req'[r].pc \notin {"createSave", "createPut"}
        BY <1>0, <3>1 DEF Request
      <3> QED
        BY <2>9, <3>1, AloneMoves DEF VerifyAccept
    <2>10. CASE MarkVerified(r)
      BY <2>10, AloneMoves DEF MarkVerified
    <2> QED
      BY <1>1, <2>1, <2>2, <2>3, <2>4, <2>5, <2>6, <2>7, <2>8, <2>9, <2>10 DEF Handles
  <1>2. CASE Replicate \/ AllOver \/ UNCHANGED vars
    BY <1>2 DEF Replicate, AllOver, vars, AloneInvariant, InFlight, Running
  <1>3. CASE TtlSweep
    <2>1. rec' = NoItem /\ UNCHANGED <<clock, req>>
      BY <1>3 DEF TtlSweep
    <2>2. ~HasCode(rec') /\ \A n : ~Reusable(rec', n)
      BY <2>1 DEF HasCode, NoItem, Reusable
    <2> QED
      BY <2>1, <2>2 DEF AloneInvariant, InFlight, Running
  <1>4. CASE Tick
    <2>1. clock' = clock + 1 /\ UNCHANGED rec
      BY <1>4 DEF Tick
    <2>2. ASSUME NEW x \in Requests
          PROVE  /\ req'[x].pc = req[x].pc /\ req'[x].now = req[x].now /\ req'[x].seen = req[x].seen
                 /\ req'[x].span <= MaxSpan
      <3>1. CASE Running(x)
        <4>1. req[x].span < MaxSpan /\ req'[x] = [req[x] EXCEPT !.span = @ + 1]
          BY <1>4, <3>1 DEF Tick, InFlight
        <4> QED
          BY <1>0, <4>1 DEF Request
      <3>2. CASE ~Running(x)
        BY <1>0, <1>4, <3>2 DEF Tick
      <3> QED
        BY <3>1, <3>2
    <2>3. \A x \in Requests : req[x].now \in Nat
      BY <1>0 DEF Request
    <2> QED
      BY <1>0, <2>1, <2>2, <2>3 DEF AloneInvariant, InFlight, Running
  <1> QED
    BY <1>1, <1>2, <1>3, <1>4 DEF Next, Handles

\* A request that is not the one whose code is in hand has answered already.
LEMMA OnlyTheOneAtWork ==
    ASSUME TypeOK, OneAtATime, AloneInvariant, FirstAnswerInvariant, NEW r \in Requests, Handles(r),
           req'[r].right /\ req'[r].fresh => OnItsWay(req[r])'
    PROVE  FirstAnswerInvariant'
  <1>1. ASSUME NEW x \in Requests \ {r}, req'[x].right, req'[x].fresh
        PROVE  OnItsWay(req[x])'
    <2>1. req'[x] = req[x] /\ ~Running(x) /\ OnItsWay(req[x])
      BY <1>1, OthersRest DEF FirstAnswerInvariant
    <2>2. req[x].pc = "done" /\ req[x].page = "signedIn"
      BY <2>1 DEF Running, OnItsWay
    <2> QED
      BY <2>1, <2>2 DEF OnItsWay
  <1> QED
    BY <1>1 DEF FirstAnswerInvariant

\* No step but the submission itself changes what is known of the code typed.
LEMMA AnswerKept ==
    ASSUME TypeOK, NEW r \in Requests, Handles(r),
           ~\E s \in Requests, code \in MailedCodes \cup {0} : Verify(r, s, code)
    PROVE  req'[r].right = req[r].right /\ req'[r].fresh = req[r].fresh
  <1> DEFINE Same == req'[r].right = req[r].right /\ req'[r].fresh = req[r].fresh
  <1>0. req \in [Requests -> Request] /\ req[r] \in Request
    BY DEF TypeOK
  <1>1. ASSUME NEW pc, Goto(r, pc) PROVE Same
    BY <1>0, <1>1 DEF Goto, Request
  <1>2. ASSUME NEW page, Finish(r, page) PROVE Same
    BY <1>0, <1>2 DEF Finish, IdleRequest
  <1>3. ASSUME NEW after, NEW n, Challenge(r, after, n) PROVE Same
    BY <1>0, <1>3 DEF Challenge, Request
  <1>4. ASSUME NEW pc, NEW item, req' = [req EXCEPT ![r] = [@ EXCEPT !.pc = pc, !.seen = item]] PROVE Same
    BY <1>0, <1>4 DEF Request
  <1>5. ASSUME NEW n, NEW b, req' = [req EXCEPT ![r] = [@ EXCEPT !.pc = "gate", !.ticket = n, !.bucket = b]]
        PROVE  Same
    BY <1>0, <1>5 DEF Request
  <1>6. ASSUME req' = [req EXCEPT ![r] = [@ EXCEPT !.pc = "markVerified", !.now = clock]] PROVE Same
    BY <1>0, <1>6 DEF Request
  <1>7. ASSUME NEW correct, NEW at, Answered(r, correct, at) PROVE Same
    BY <1>2, <1>3, <1>7 DEF Answered
  <1>8. ASSUME Challenged(r) PROVE Same
    BY <1>2, <1>4, <1>8 DEF Challenged
  <1> HIDE DEF Same
  <1>9. SendOtp(r) => Same
    BY <1>1, <1>2, <1>5 DEF SendOtp, DecoyPage
  <1>10. SendGate(r) \/ SendMail(r) => Same
    BY <1>2, <1>3 DEF SendGate, SendMail, DecoyPage
  <1>11. CreateGet(r) \/ CreateSave(r) \/ CreatePut(r) => Same
    BY <1>1, <1>2, <1>4, <1>8 DEF CreateGet, CreateSave, CreatePut
  <1>12. VerifyGet(r) \/ VerifyDiscard(r) \/ VerifyAccept(r) \/ VerifyReject(r) \/ VerifyWriteFails(r)
           \/ MarkVerified(r) => Same
    BY <1>4, <1>6, <1>7 DEF VerifyGet, VerifyDiscard, VerifyAccept, VerifyReject, VerifyWriteFails,
                            MarkVerified
  <1> QED
    BY <1>9, <1>10, <1>11, <1>12 DEF Handles, Same

\* A deadline that is moved is moved later.
LEMMA ExtendedNoEarlier ==
    ASSUME NEW item \in Item, NEW now \in Nat
    PROVE  LET x == Extended(item, item, now) IN
           /\ x.exists = item.exists /\ x.otp = item.otp /\ x.attempts = item.attempts
           /\ x.ttl \in Nat /\ x.ttl >= item.ttl
  <1>1. item.ttl \in Nat /\ item.issuedAt \in Nat /\ OtpExpiry \in Nat /\ MaxReuseAge \in Nat
    BY ParametersAssumption DEF Item
  <1>2. ExtendedTtl(item, now) \in Nat /\ ExtendedTtl(item, now) >= item.ttl
    BY <1>1 DEF ExtendedTtl, Greater, Lesser
  <1> QED
    BY <1>2 DEF Extended, Item

\* The right answer of a first round issues tokens.
LEMMA RightAnswerSignsIn ==
    ASSUME TypeOK, NEW r \in Requests, req[r].round = 0, NEW at, Answered(r, TRUE, at)
    PROVE  req'[r].pc = "done" /\ req'[r].page = "signedIn"
  <1>1. DefineAuthChallenge(req[r].round + 1, TRUE) = "issueTokens"
    BY DEF DefineAuthChallenge
  <1>2. Finish(r, "signedIn")
    BY <1>1 DEF Answered
  <1> QED
    BY <1>2 DEF Finish, IdleRequest, TypeOK

\* What is known of a request's answer is kept from the submission to the verdict.
LEMMA FirstAnswerStep ==
    ASSUME TypeOK, TypeOK', OneAtATime, MaxSpan <= 1, AloneInvariant, FirstAnswerInvariant, [Next]_vars
    PROVE  FirstAnswerInvariant'
  <1>0. /\ req \in [Requests -> Request] /\ rec \in Item /\ clock \in Nat /\ MaxSpan \in Nat
        /\ \A x \in Requests : req[x] \in Request
        /\ \A x \in Requests : req[x].now \in Nat /\ req[x].span \in Nat /\ req[x].span <= 1
        /\ rec.ttl \in Nat /\ rec.attempts \in Nat
    <2>1. /\ req \in [Requests -> Request] /\ rec \in Item /\ clock \in Nat
          /\ \A x \in Requests : req[x] \in Request
      BY DEF TypeOK
    <2>2. \A x \in Requests : req[x].now \in Nat /\ req[x].span \in Nat
      BY <2>1 DEF Request
    <2>3. MaxSpan \in Nat /\ rec.ttl \in Nat /\ rec.attempts \in Nat
      BY <2>1, ParametersAssumption DEF Item
    <2> QED
      BY <2>1, <2>2, <2>3 DEF AloneInvariant
  <1>1. ASSUME NEW r \in Requests, Handles(r) PROVE FirstAnswerInvariant'
    <2> SUFFICES ASSUME req'[r].right, req'[r].fresh PROVE OnItsWay(req[r])'
      BY <1>1, OnlyTheOneAtWork
    <2>0. UNCHANGED clock
      BY <1>1, OthersRest
    <2>1. ASSUME NEW s \in Requests, NEW code \in MailedCodes \cup {0}, Verify(r, s, code)
          PROVE  OnItsWay(req[r])'
      <3>0. ~(req[r].right /\ req[r].fresh) /\ UNCHANGED rec
        BY <2>1 DEF Verify, FirstAnswerInvariant, OnItsWay
      <3>1. CASE Finish(r, "incorrectCode")
        BY <1>0, <3>0, <3>1 DEF Finish, IdleRequest
      <3>2. CASE /\ req' = [req EXCEPT ![r] = [[req[r] EXCEPT !.typed = code, !.right = InForce(code)]
                         EXCEPT !.pc = "verifyGet", !.round = token[s].round,
                                !.fresh = (token[s].round = 0)]]
        <4>0. ASSUME NEW right, NEW f,
                     req' = [req EXCEPT ![r] = [[req[r] EXCEPT !.typed = code, !.right = right]
                               EXCEPT !.pc = "verifyGet", !.round = token[s].round, !.fresh = f]]
              PROVE  /\ req'[r].pc = "verifyGet" /\ req'[r].typed = code /\ req'[r].span = req[r].span
                     /\ req'[r].right = right /\ req'[r].round = token[s].round /\ req'[r].fresh = f
          BY <1>0, <4>0 DEF Request
        <4>1. /\ req'[r].pc = "verifyGet" /\ req'[r].typed = code /\ req'[r].span = req[r].span
              /\ req'[r].right = InForce(code) /\ req'[r].round = token[s].round
              /\ req'[r].fresh = (token[s].round = 0)
          BY <3>2, <4>0, Zenon
        <4>2. InForce(code) /\ token[s].round = 0
          BY <4>1
        <4>3. HasCode(rec) /\ rec.otp = code /\ rec.attempts < MaxAttempts /\ rec.ttl > clock
          BY <4>2 DEF InForce, Reusable
        <4> QED
          BY <1>0, <2>0, <3>0, <4>1, <4>2, <4>3 DEF OnItsWay
      <3>3. CASE req' = [req EXCEPT ![r] = [[req[r] EXCEPT !.typed = code, !.right = InForce(code)]
                         EXCEPT !.pc = "createGet", !.after = "answer", !.round = 0,
                                !.now = clock, !.fresh = TRUE]]
        <4>0. ASSUME NEW right,
                     req' = [req EXCEPT ![r] = [[req[r] EXCEPT !.typed = code, !.right = right]
                               EXCEPT !.pc = "createGet", !.after = "answer", !.round = 0,
                                      !.now = clock, !.fresh = TRUE]]
              PROVE  /\ req'[r].pc = "createGet" /\ req'[r].typed = code /\ req'[r].span = req[r].span
                     /\ req'[r].right = right /\ req'[r].round = 0 /\ req'[r].now = clock
                     /\ req'[r].after = "answer"
          BY <1>0, <4>0 DEF Request
        <4>1. /\ req'[r].pc = "createGet" /\ req'[r].typed = code /\ req'[r].span = req[r].span
              /\ req'[r].right = InForce(code) /\ req'[r].round = 0 /\ req'[r].now = clock
              /\ req'[r].after = "answer"
          BY <3>3, <4>0, Zenon
        <4>2. HasCode(rec) /\ rec.otp = code /\ rec.attempts < MaxAttempts /\ rec.ttl > clock
              /\ Reusable(rec, clock)
          BY <4>1 DEF InForce, Reusable
        <4> QED
          BY <1>0, <2>0, <3>0, <4>1, <4>2 DEF OnItsWay
      <3>4. \/ Finish(r, "incorrectCode")
            \/ req' = [req EXCEPT ![r] = [[req[r] EXCEPT !.typed = code, !.right = InForce(code)]
                         EXCEPT !.pc = "verifyGet", !.round = token[s].round,
                                !.fresh = (token[s].round = 0)]]
            \/ req' = [req EXCEPT ![r] = [[req[r] EXCEPT !.typed = code, !.right = InForce(code)]
                         EXCEPT !.pc = "createGet", !.after = "answer", !.round = 0,
                                !.now = clock, !.fresh = TRUE]]
        BY <2>1, Zenon DEF Verify, OneAtATime
      <3> QED
        BY <3>1, <3>2, <3>3, <3>4, Zenon
    <2>2. ASSUME ~\E s \in Requests, code \in MailedCodes \cup {0} : Verify(r, s, code)
          PROVE  OnItsWay(req[r])'
      <3>0. OnItsWay(req[r])
        BY <1>1, <2>2, AnswerKept DEF FirstAnswerInvariant
      <3>1. ASSUME CreateGet(r) PROVE OnItsWay(req[r])'
        <4>1. Reusable(rec, req[r].now) /\ UNCHANGED rec /\ Reads = {rec}
          BY <3>0, <3>1 DEF CreateGet, OnItsWay, OneAtATime, Reads
        <4>2. req' = [req EXCEPT ![r] = [@ EXCEPT !.pc = "createSave", !.seen = rec]]
          BY <3>1, <4>1 DEF CreateGet, OneAtATime
        <4>3. /\ req'[r].pc = "createSave" /\ req'[r].seen = rec
              /\ req'[r].round = req[r].round /\ req'[r].typed = req[r].typed
              /\ req'[r].span = req[r].span /\ req'[r].now = req[r].now /\ req'[r].after = req[r].after
          BY <1>0, <4>2 DEF Request
        <4> QED
          BY <2>0, <3>0, <3>1, <4>1, <4>3 DEF OnItsWay, CreateGet
      <3>2. ASSUME CreateSave(r) PROVE OnItsWay(req[r])'
        <4>1. req[r].seen = rec /\ req[r].after = "answer" /\ HasCode(rec)
          BY <3>0, <3>2 DEF CreateSave, OnItsWay
        <4>2. rec' = Extended(rec, rec, req[r].now) /\ Challenged(r)
          BY <3>2, <4>1 DEF CreateSave, OneAtATime, HasCode
        <4>3. req' = [req EXCEPT ![r] = [@ EXCEPT !.pc = "verifyGet", !.seen = NoItem]]
          BY <4>1, <4>2 DEF Challenged
        <4>4. /\ req'[r].pc = "verifyGet" /\ req'[r].round = req[r].round
              /\ req'[r].typed = req[r].typed /\ req'[r].span = req[r].span
          BY <1>0, <4>3 DEF Request
        <4>5. /\ rec'.exists = rec.exists /\ rec'.otp = rec.otp /\ rec'.attempts = rec.attempts
              /\ rec'.ttl \in Nat /\ rec'.ttl >= rec.ttl
          BY <1>0, <4>2, ExtendedNoEarlier
        <4> QED
          BY <1>0, <2>0, <3>0, <3>2, <4>4, <4>5 DEF OnItsWay, HasCode, CreateSave
      <3>3. ASSUME VerifyGet(r) PROVE OnItsWay(req[r])'
        <4>1. Reads = {rec} /\ rec.exists /\ UNCHANGED rec
          BY <3>0, <3>3 DEF VerifyGet, OnItsWay, HasCode, OneAtATime, Reads
        <4>2. req' = [req EXCEPT ![r] = [@ EXCEPT !.pc = "verifyJudge", !.seen = rec]]
          BY <3>3, <4>1 DEF VerifyGet, OneAtATime
        <4>3. /\ req'[r].pc = "verifyJudge" /\ req'[r].seen = rec /\ req'[r].round = req[r].round
              /\ req'[r].typed = req[r].typed /\ req'[r].span = req[r].span
          BY <1>0, <4>2 DEF Request
        <4> QED
          BY <2>0, <3>0, <3>3, <4>1, <4>3 DEF OnItsWay, VerifyGet
      <3>4. ASSUME VerifyAccept(r) PROVE OnItsWay(req[r])'
        <4>1. req[r].round = 0
          BY <3>0, <3>4 DEF VerifyAccept, OnItsWay
        <4>2. ASSUME req' = [req EXCEPT ![r] = [@ EXCEPT !.pc = "markVerified", !.now = clock]]
              PROVE  req'[r].pc = "markVerified" /\ req'[r].round = req[r].round
          BY <1>0, <4>2 DEF Request
        <4>3. ASSUME Answered(r, TRUE, clock) PROVE req'[r].pc = "done" /\ req'[r].page = "signedIn"
          BY <4>1, <4>3, RightAnswerSignsIn
        <4> QED
          BY <3>4, <4>1, <4>2, <4>3 DEF VerifyAccept, OnItsWay
      <3>5. ASSUME MarkVerified(r) PROVE OnItsWay(req[r])'
        <4>1. req[r].round = 0
          BY <3>0, <3>5 DEF MarkVerified, OnItsWay
        <4>2. req'[r].pc = "done" /\ req'[r].page = "signedIn"
          BY <3>5, <4>1, RightAnswerSignsIn DEF MarkVerified, OneAtATime
        <4> QED
          BY <4>2 DEF OnItsWay
      <3>6. ~(VerifyDiscard(r) \/ VerifyReject(r) \/ VerifyWriteFails(r))
        <4>1. ASSUME req[r].pc = "verifyJudge"
              PROVE  /\ HasCode(req[r].seen) /\ req[r].seen.otp = req[r].typed
                     /\ req[r].seen.attempts < MaxAttempts
                     /\ ~Lapsed(req[r].seen, clock)
          <5>1. req[r].seen = rec /\ rec.ttl + req[r].span > clock /\ rec.attempts < MaxAttempts
                /\ HasCode(rec) /\ rec.otp = req[r].typed
            BY <3>0, <4>1 DEF OnItsWay
          <5>2. ~(rec.ttl < clock)
            BY <1>0, <5>1
          <5> QED
            BY <5>1, <5>2 DEF Lapsed
        <4>2. MaxAttempts \in Nat
          BY ParametersAssumption
        <4>3. ASSUME req[r].pc = "verifyJudge" PROVE ~(req[r].seen.attempts >= MaxAttempts)
          BY <1>0, <3>0, <4>2, <4>3 DEF OnItsWay
        <4> QED
          BY <4>1, <4>3 DEF VerifyDiscard, VerifyReject, VerifyWriteFails, OneAtATime
      <3>7. ~(SendOtp(r) \/ SendGate(r) \/ SendMail(r) \/ CreatePut(r))
        BY <3>0 DEF SendOtp, SendGate, SendMail, CreatePut, OnItsWay
      <3> QED
        BY <1>1, <2>2, <3>1, <3>2, <3>3, <3>4, <3>5, <3>6, <3>7 DEF Handles
    <2> QED
      BY <2>1, <2>2
  <1>2. CASE Replicate \/ AllOver \/ UNCHANGED vars
    <2>1. UNCHANGED <<req, rec, clock>>
      BY <1>2 DEF Replicate, AllOver, vars
    <2> QED
      BY <2>1 DEF FirstAnswerInvariant, OnItsWay
  <1>3. CASE TtlSweep
    <2>1. UNCHANGED <<req, clock>> /\ HasCode(rec) /\ rec.ttl < clock
      BY <1>3 DEF TtlSweep, Lapsed
    <2>2. ASSUME NEW x \in Requests, OnItsWay(req[x])
          PROVE  req[x].pc \in {"markVerified", "done"}
      BY <1>0, <2>1, <2>2 DEF OnItsWay
    <2>3. ASSUME NEW x \in Requests, req'[x].right, req'[x].fresh
          PROVE  OnItsWay(req[x])'
      <3>1. OnItsWay(req[x]) /\ req'[x] = req[x]
        BY <2>1, <2>3 DEF FirstAnswerInvariant
      <3> QED
        BY <2>2, <3>1 DEF OnItsWay
    <2> QED
      BY <2>3 DEF FirstAnswerInvariant
  <1>4. CASE Tick
    <2>1. clock' = clock + 1 /\ UNCHANGED rec
      BY <1>4 DEF Tick
    <2>2. ASSUME NEW x \in Requests, req'[x].right, req'[x].fresh
          PROVE  OnItsWay(req[x])'
      <3>1. CASE Running(x)
        <4>1. req'[x] = [req[x] EXCEPT !.span = @ + 1]
          BY <1>4, <3>1 DEF Tick
        <4>2. /\ req'[x].pc = req[x].pc /\ req'[x].right = req[x].right /\ req'[x].fresh = req[x].fresh
              /\ req'[x].round = req[x].round /\ req'[x].typed = req[x].typed /\ req'[x].seen = req[x].seen
              /\ req'[x].after = req[x].after /\ req'[x].now = req[x].now /\ req'[x].page = req[x].page
              /\ req'[x].span = req[x].span + 1
          BY <1>0, <4>1 DEF Request
        <4>3. OnItsWay(req[x])
          BY <2>2, <4>2 DEF FirstAnswerInvariant
        <4> QED
          BY <1>0, <2>1, <4>2, <4>3 DEF OnItsWay
      <3>2. CASE ~Running(x)
        <4>1. req'[x] = req[x]
          BY <1>4, <3>2 DEF Tick
        <4>2. OnItsWay(req[x])
          BY <2>2, <4>1 DEF FirstAnswerInvariant
        <4> QED
          BY <3>2, <4>1, <4>2 DEF OnItsWay, Running
      <3> QED
        BY <3>1, <3>2
    <2> QED
      BY <2>2 DEF FirstAnswerInvariant
  <1> QED
    BY <1>1, <1>2, <1>3, <1>4 DEF Next, Handles

\* So that one request at a time is all there ever is.
LEMMA AloneHolds ==
    ASSUME OneAtATime
    PROVE  Spec => []AloneInvariant
  <1>1. Init => AloneInvariant
    <2> SUFFICES ASSUME Init PROVE AloneInvariant
      OBVIOUS
    <2>1. \A r \in Requests : req[r].pc = "idle" /\ req[r].now = 0 /\ req[r].span = 0
      BY DEF Init, IdleRequest
    <2>2. clock = 0 /\ MaxSpan \in Nat
      BY ParametersAssumption DEF Init
    <2> QED
      BY <2>1, <2>2 DEF AloneInvariant, InFlight, Running
  <1>2. TypeOK /\ TypeOK' /\ AloneInvariant /\ [Next]_vars => AloneInvariant'
    BY AloneStep
  <1> QED
    BY <1>1, <1>2, TypeCorrect, PTL DEF Spec

\* A person who types the code in force, on a page whose session is unanswered or
\* has expired, is signed in at the first try, as long as their requests come one
\* at a time and none takes longer than a minute.
THEOREM FirstAnswerAlwaysSignsIn ==
    ASSUME OneAtATime, MaxSpan <= 1
    PROVE  Spec => []FirstAnswerSignsIn
  <1>1. Init => FirstAnswerInvariant
    BY DEF Init, IdleRequest, FirstAnswerInvariant
  <1>2. TypeOK /\ TypeOK' /\ AloneInvariant /\ FirstAnswerInvariant /\ [Next]_vars
          => FirstAnswerInvariant'
    BY FirstAnswerStep
  <1>3. FirstAnswerInvariant => FirstAnswerSignsIn
    BY DEF FirstAnswerInvariant, FirstAnswerSignsIn, OnItsWay
  <1> QED
    BY <1>1, <1>2, <1>3, AloneHolds, TypeCorrect, PTL DEF Spec

\* What MailedCodeNotReplaced says of one step.
CodeStays ==
    Reusable(rec, clock) /\ rec.otp \in MailedCodes => ~HasCode(rec') \/ rec'.otp = rec.otp

\* It holds of every step, since whoever saves a code has read what the table holds.
LEMMA CodeStaysStep ==
    ASSUME TypeOK, OneAtATime, AloneInvariant, [Next]_vars, rec' # rec
    PROVE  CodeStays
  <1>0. rec \in Item /\ clock \in Nat /\ \A r \in Requests : req[r].now \in Nat /\ req[r].now <= clock
    BY DEF TypeOK, Request, AloneInvariant
  <1>1. CASE rec' = NoItem
    BY <1>1 DEF CodeStays, HasCode, NoItem
  <1>2. CASE rec' = OneMoreAttempt(rec)
    BY <1>0, <1>2 DEF CodeStays, OneMoreAttempt, Item
  <1>3. ASSUME NEW seen, NEW now, rec' = Extended(rec, seen, now) PROVE CodeStays
    BY <1>0, <1>3 DEF CodeStays, Extended, Item
  <1>4. ASSUME NEW r \in Requests, CreatePut(r) PROVE CodeStays
    <2>1. ~Reusable(rec, req[r].now)
      BY <1>4 DEF CreatePut, AloneInvariant
    <2>2. ~Reusable(rec, clock)
      BY <1>0, <2>1, ReusableNoLonger
    <2> QED
      BY <2>2 DEF CodeStays
  <1>5. ASSUME NEW r \in Requests,
               \/ CreateSave(r) \/ VerifyDiscard(r) \/ VerifyAccept(r) \/ VerifyReject(r)
               \/ VerifyWriteFails(r)
        PROVE  CodeStays
    BY <1>1, <1>2, <1>3, <1>5
       DEF CreateSave, VerifyDiscard, VerifyAccept, VerifyReject, VerifyWriteFails
  <1>6. CASE TtlSweep
    BY <1>1, <1>6 DEF TtlSweep
  <1>7. ASSUME NEW r \in Requests,
               \/ SendOtp(r) \/ SendGate(r) \/ SendMail(r) \/ CreateGet(r)
               \/ VerifyGet(r) \/ MarkVerified(r)
               \/ \E s \in Requests, code \in MailedCodes \cup {0} : Verify(r, s, code)
        PROVE  UNCHANGED rec
    BY <1>7 DEF SendOtp, SendGate, SendMail, CreateGet, VerifyGet, MarkVerified, Verify
  <1>8. Replicate \/ Tick \/ AllOver \/ UNCHANGED vars => UNCHANGED rec
    BY DEF Replicate, Tick, AllOver, vars
  <1> QED
    BY <1>4, <1>5, <1>6, <1>7, <1>8 DEF Next

\* For a person whose requests come one at a time, resends, retries and restarts
\* all keep the code in the inbox as long as it is in force, however long they take.
THEOREM MailedCodeNeverReplaced ==
    ASSUME OneAtATime
    PROVE  Spec => MailedCodeNotReplaced
  <1>1. TypeOK /\ AloneInvariant /\ [Next]_vars => [CodeStays]_rec
    BY CodeStaysStep
  <1>2. Spec => [][CodeStays]_rec
    BY <1>1, AloneHolds, TypeCorrect, PTL DEF Spec
  <1> QED
    BY <1>2, PTL DEF MailedCodeNotReplaced, CodeStays
=============================================================================
