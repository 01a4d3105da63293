------------------------------ MODULE OtpLogin ------------------------------
(***************************************************************************)
(* Passwordless sign-in of ONE address in ONE user pool.                   *)
(*                                                                         *)
(* Two Lambdas meet here.  The auth Lambda (lib/auth-lambda/index.js)      *)
(* serves POST send-otp and POST verify; Cognito calls the three custom    *)
(* challenge triggers (lib/cognito-triggers) in between.  They share the   *)
(* OTP table (one item per pool and address) and the send counter of the   *)
(* application state table.  Every invocation is a process; every step is  *)
(* one access to shared state, so that any two invocations interleave      *)
(* between the read of an item and the write that was decided from it.     *)
(*                                                                         *)
(* Time is counted in minutes: a code lives OtpExpiry, the session Cognito *)
(* hands out lives SessionLife, an episode lasts MaxReuseAge.  Codes are   *)
(* numbered in the order they are minted (code n is minted at mintedAt[n]) *)
(* so two minted codes differ; 0 stands for "no code" in an item and for a *)
(* mistyped code in an answer.                                             *)
(***************************************************************************)
EXTENDS Integers, Sequences, FiniteSets

CONSTANTS
    Requests,        \* the HTTP requests to the auth Lambda, each used once
    OtpExpiry,       \* OTP_EXPIRY_SECONDS, in minutes
    MaxReuseAge,     \* MAX_REUSE_AGE_SECONDS, in minutes
    MaxAttempts,     \* MAX_ATTEMPTS
    SessionLife,     \* life of a Cognito session, in minutes
    SendsPerWindow,  \* OTP_SENDS_PER_WINDOW
    OtpWindow,       \* OTP_WINDOW_S, in minutes
    Lag,             \* TRUE: reads without ConsistentRead may be stale
    Faults,          \* TRUE: calls to AWS services and Postmark may fail
    MaxClock,        \* bound: the last minute of the model
    MaxInFlight,     \* bound: requests served at the same time
    MaxSpan          \* bound: minute marks one request may live through

ASSUME ParametersAssumption ==
    /\ OtpExpiry \in Nat \ {0} /\ MaxReuseAge \in Nat /\ OtpExpiry <= MaxReuseAge
    /\ MaxAttempts \in Nat \ {0} /\ SessionLife \in Nat \ {0}
    /\ SendsPerWindow \in Nat /\ OtpWindow \in Nat \ {0}
    /\ Lag \in BOOLEAN /\ Faults \in BOOLEAN
    /\ MaxClock \in Nat /\ MaxInFlight \in Nat /\ MaxSpan \in Nat

VARIABLES
    clock,      \* minutes since the start
    standing,   \* what the registry and the pool know of the address
    verified,   \* the Cognito attribute email_verified
    rec,        \* the item of the OTP table
    replica,    \* the item as a reader without ConsistentRead may see it
    sends,      \* send counter of each throttle window
    req,        \* the invocations
    token,      \* token[r]: the session carried by the page r answered with
    mintedAt,   \* history: minute each code was minted
    mails,      \* history: the sends whose mail left (one whose answer is lost may
                \* be sent again, by the next sender: the same code, the same send)
    consumed,   \* history: codes a correct answer has deleted
    signIns     \* history: the sign-ins

vars == <<clock, standing, verified, rec, replica, sends, req, token,
          mintedAt, mails, consumed, signIns>>

-----------------------------------------------------------------------------
(* The OTP item.  A wrong answer counted on a deleted item re-creates it   *)
(* with the counter alone: exists, otp = 0 and no ttl.                     *)

Item == [exists: BOOLEAN, otp: Nat, ttl: Nat, attempts: Nat, issuedAt: Nat]

NoItem == [exists |-> FALSE, otp |-> 0, ttl |-> 0, attempts |-> 0, issuedAt |-> 0]

HasCode(item) == item.exists /\ item.otp # 0

Lesser(a, b) == IF a <= b THEN a ELSE b
Greater(a, b) == IF a >= b THEN a ELSE b

\* reusableOtp: the code may be sent again rather than replaced.
Reusable(item, now) ==
    /\ HasCode(item)
    /\ item.ttl > now
    /\ item.attempts < MaxAttempts
    /\ now - item.issuedAt < MaxReuseAge

\* Mutant: the extension forgets the age of the episode.
ExtendedTtlUnbounded(item, now) == Greater(now + OtpExpiry, item.ttl)

\* reusableOtp: a full window from now, never past the age of the episode and
\* never earlier than what was read.
ExtendedTtl(item, now) ==
    Greater(Lesser(now + OtpExpiry, item.issuedAt + MaxReuseAge), item.ttl)

\* Mutant: a code sent again starts with fresh tries.
ExtendedAnew(item, seen, now) ==
    [item EXCEPT !.ttl = ExtendedTtl(seen, now), !.attempts = 0]

\* The item the UpdateItem of reusableOtp leaves: only ttl is written.
Extended(item, seen, now) == [item EXCEPT !.ttl = ExtendedTtl(seen, now)]

\* The item PutItem writes for a newly minted code.
Fresh(code, now) ==
    [exists |-> TRUE, otp |-> code, ttl |-> now + OtpExpiry, attempts |-> 0,
     issuedAt |-> now]

\* The item after "SET attempts = if_not_exists(attempts, 0) + 1".
OneMoreAttempt(item) == [item EXCEPT !.exists = TRUE, !.attempts = @ + 1]

\* verify-auth-challenge: ttl < now.  An item without ttl never expires.
Lapsed(item, now) == HasCode(item) /\ item.ttl < now

\* What a GetItem without ConsistentRead may return.
Reads == IF Lag THEN {rec, replica} ELSE {rec}

\* Mutant: the third wrong answer no longer ends the session.
DefineAuthChallengeEndless(n, correct) ==
    IF n = 1 /\ correct THEN "issueTokens" ELSE "CUSTOM_CHALLENGE"

\* define-auth-challenge: n rounds were answered, the last one correctly or not.
DefineAuthChallenge(n, correct) ==
    CASE n = 1 /\ correct -> "issueTokens"
      [] n >= 3 -> "failAuthentication"
      [] OTHER -> "CUSTOM_CHALLENGE"

-----------------------------------------------------------------------------
(* Invocations.                                                            *)
(*   pc     where it stands; "idle" before, "done" once it answered        *)
(*   page   the answer                                                     *)
(*   typed  the code of a verify request                                   *)
(*   right  history: that code was the one in force when it was submitted  *)
(*   fresh  history: it was typed on a session Cognito had not seen an     *)
(*          answer on, or on one that has to be restarted                  *)
(*   after  what follows create-auth-challenge                             *)
(*   round  answers already given on the Cognito session                   *)
(*   now    the Date.now() of the trigger that runs                        *)
(*   seen   the item its GetItem returned                                  *)
(*   ticket, bucket   the send counter's answer; ticket 0: not counted     *)
(*   span   minute marks lived through                                     *)

\* The throttle windows of the model.
Buckets == {minute \div OtpWindow : minute \in 0..MaxClock}

Pages == {"none", "code", "decoy", "signedIn", "incorrectCode",
          "expiredSession", "failed"}

PCs == {"idle", "gate", "createGet", "createSave", "createPut", "mail",
        "verifyGet", "verifyJudge", "markVerified", "done"}

Request ==
    [pc: PCs, page: Pages, typed: Nat, right: BOOLEAN, fresh: BOOLEAN,
     after: {"mail", "answer", "page"}, round: 0..2, now: Nat, seen: Item,
     ticket: Nat, bucket: Buckets \cup {0}, span: Nat]

IdleRequest ==
    [pc |-> "idle", page |-> "none", typed |-> 0, right |-> FALSE,
     fresh |-> FALSE, after |-> "mail", round |-> 0, now |-> 0,
     seen |-> NoItem, ticket |-> 0, bucket |-> 0, span |-> 0]

\* A session token: none, a decoy, live (never answered) or spent.
Token == [state: {"none", "decoy", "live", "spent"}, born: Nat, round: 0..2]
NoToken == [state |-> "none", born |-> 0, round |-> 0]

Running(r) == req[r].pc \notin {"idle", "done"}
InFlight == {r \in Requests : Running(r)}

Init ==
    /\ clock = 0
    /\ standing \in {"member", "unlisted", "unknown"}
    /\ verified = FALSE
    /\ rec = NoItem /\ replica = NoItem
    /\ sends = [b \in Buckets |-> 0]
    /\ req = [r \in Requests |-> IdleRequest]
    /\ token = [r \in Requests |-> NoToken]
    /\ mintedAt = <<>>
    /\ mails = {} /\ consumed = {} /\ signIns = {}

-----------------------------------------------------------------------------
(* Common endings.                                                         *)

Goto(r, pc) == req' = [req EXCEPT ![r].pc = pc]

\* The answer leaves; what the invocation held in memory is gone.
Finish(r, page) ==
    req' = [req EXCEPT ![r] = [IdleRequest EXCEPT
                !.pc = "done", !.page = page,
                !.right = req[r].right, !.fresh = req[r].fresh]]

DecoyPage(r) ==
    /\ Finish(r, "decoy")
    /\ token' = [token EXCEPT ![r].state = "decoy"]

\* Cognito calls create-auth-challenge.
Challenge(r, after, round) ==
    req' = [req EXCEPT ![r] = [@ EXCEPT !.pc = "createGet", !.after = after,
                          !.round = round, !.now = clock, !.seen = NoItem]]

-----------------------------------------------------------------------------
(* POST send-otp                                                           *)

\* Mutant: one send too many.
AllowedOneMore(n) == n <= SendsPerWindow + 1

\* otpSendAllowed: the count this send brought its window to is allowed.
Allowed(n) == n <= SendsPerWindow

\* otpSendAllowed: one atomic ADD decides.  Over the allowance the answer is
\* the page every address gets; an unwritable counter lets the send through.
SendOtp(r) ==
    /\ req[r].pc = "idle"
    /\ Cardinality(InFlight) < MaxInFlight
    /\ LET b == clock \div OtpWindow
           n == sends[b] + 1
       IN \/ /\ sends' = [sends EXCEPT ![b] = n]
             /\ \/ /\ Allowed(n)
                   /\ req' = [req EXCEPT ![r] = [@ EXCEPT
                               !.pc = "gate", !.ticket = n, !.bucket = b]]
                   /\ UNCHANGED token
                \/ /\ ~Allowed(n)
                   /\ DecoyPage(r)
          \/ /\ Faults
             /\ Goto(r, "gate")
             /\ UNCHANGED <<sends, token>>
    /\ UNCHANGED <<clock, standing, verified, rec, replica, mintedAt, mails,
                   consumed, signIns>>

\* resolveAppAuth, isAllowlisted and the InitiateAuth call: an application
\* that cannot be resolved, an address off the allowlist or unknown to the
\* pool gets the decoy page; an unreadable allowlist leaves Cognito to decide, and
\* a call to Cognito that fails otherwise answers 500.
SendGate(r) ==
    /\ req[r].pc = "gate"
    /\ \/ /\ standing = "member" \/ (Faults /\ standing = "unlisted")
          /\ Challenge(r, "mail", 0)
          /\ UNCHANGED token
       \/ /\ standing # "member" \/ Faults
          /\ DecoyPage(r)
       \/ /\ Faults
          /\ Finish(r, "failed")
          /\ UNCHANGED token
    /\ UNCHANGED <<clock, standing, verified, rec, replica, sends, mintedAt,
                   mails, consumed, signIns>>

\* challengeOtp reads the table (ConsistentRead) and the code it finds is
\* mailed; unreadable, missing, or refused by Postmark: the page all the same.
SendMail(r) ==
    /\ req[r].pc = "mail"
    /\ \/ /\ HasCode(rec)
          /\ mails' = mails \cup {[req |-> r, code |-> rec.otp,
                                   ticket |-> req[r].ticket,
                                   bucket |-> req[r].bucket]}
       \/ /\ ~HasCode(rec) \/ Faults
          /\ UNCHANGED mails
    /\ Finish(r, "code")
    /\ UNCHANGED <<clock, standing, verified, rec, replica, sends, token,
                   mintedAt, consumed, signIns>>

-----------------------------------------------------------------------------
(* create-auth-challenge                                                   *)

\* The challenge is set.  send-otp goes on to the mail, a restarted session is
\* answered at once, and after a refused answer the page asks again.
Challenged(r) ==
    LET q == req[r] IN
    \/ /\ q.after = "mail"
       /\ req' = [req EXCEPT ![r] = [@ EXCEPT !.pc = "mail", !.seen = NoItem]]
       /\ token' = [token EXCEPT ![r] = [state |-> "live", born |-> clock, round |-> 0]]
    \/ /\ q.after = "answer"
       /\ req' = [req EXCEPT ![r] = [@ EXCEPT !.pc = "verifyGet", !.seen = NoItem]]
       /\ UNCHANGED token
    \/ /\ q.after = "page"
       /\ Finish(r, "incorrectCode")
       /\ token' = [token EXCEPT ![r] = [state |-> "live", born |-> clock,
                                         round |-> q.round]]

\* Mutant: a challenge always mints a code.
CreateGetAlwaysNew(r) ==
    /\ req[r].pc = "createGet"
    /\ Goto(r, "createPut")
    /\ UNCHANGED <<clock, standing, verified, rec, replica, sends, token,
                   mintedAt, mails, consumed, signIns>>

CreateGet(r) ==
    /\ req[r].pc = "createGet"
    /\ \/ \E item \in Reads :
            \/ /\ Reusable(item, req[r].now)
               /\ req' = [req EXCEPT ![r] = [@ EXCEPT !.pc = "createSave",
                                                          !.seen = item]]
            \/ /\ ~Reusable(item, req[r].now)
               /\ Goto(r, "createPut")
       \/ Faults /\ Goto(r, "createPut")
    /\ UNCHANGED <<clock, standing, verified, rec, replica, sends, token,
                   mintedAt, mails, consumed, signIns>>

\* Mutant: the whole item read is written back, without a condition.
CreateSaveUnconditional(r) ==
    LET q == req[r] IN
    /\ q.pc = "createSave"
    /\ rec' = Extended(q.seen, q.seen, q.now)
    /\ Challenged(r)
    /\ UNCHANGED <<clock, standing, verified, replica, sends, mintedAt, mails,
                   consumed, signIns>>

\* Mutant: a deadline that cannot be moved counts as a refused write.
CreateSaveOnlyLater(r) ==
    LET q == req[r]
        moved == rec.exists /\ rec.otp = q.seen.otp /\ ExtendedTtl(q.seen, q.now) > rec.ttl
    IN
    /\ q.pc = "createSave"
    /\ \/ /\ moved
          /\ rec' = Extended(rec, q.seen, q.now)
          /\ Challenged(r)
       \/ /\ ~moved
          /\ Goto(r, "createPut")
          /\ UNCHANGED <<rec, token>>
    /\ UNCHANGED <<clock, standing, verified, replica, sends, mintedAt, mails,
                   consumed, signIns>>

\* UpdateItem with ConditionExpression "otp = :otp".  A refused condition and
\* any other error fall back to a new code.
CreateSave(r) ==
    LET q == req[r] IN
    /\ q.pc = "createSave"
    /\ \/ /\ rec.exists /\ rec.otp = q.seen.otp
          /\ rec' = Extended(rec, q.seen, q.now)
          /\ Challenged(r)
       \/ /\ ~(rec.exists /\ rec.otp = q.seen.otp) \/ Faults
          /\ Goto(r, "createPut")
          /\ UNCHANGED <<rec, token>>
    /\ UNCHANGED <<clock, standing, verified, replica, sends, mintedAt, mails,
                   consumed, signIns>>

\* A new code overwrites whatever is there.  When the write fails the trigger
\* throws: send-otp answers 500, verify answers "session expired".
CreatePut(r) ==
    LET q == req[r] IN
    /\ q.pc = "createPut"
    /\ \/ /\ rec' = Fresh(Len(mintedAt) + 1, q.now)
          /\ mintedAt' = Append(mintedAt, q.now)
          /\ Challenged(r)
       \/ /\ Faults
          /\ Finish(r, IF q.after = "mail" THEN "failed" ELSE "expiredSession")
          /\ UNCHANGED <<rec, mintedAt, token>>
    /\ UNCHANGED <<clock, standing, verified, replica, sends, mails, consumed,
                   signIns>>

-----------------------------------------------------------------------------
(* POST verify                                                             *)

InForce(code) == rec.otp = code /\ Reusable(rec, clock)

Alive(t) == t.state = "live" /\ clock - t.born < SessionLife

\* A page's session s and a code are posted: a mistyped one (0) or one that was
\* mailed.  Cognito takes each session once; an expired or already answered
\* session is restarted, and the restart (a new InitiateAuth) mails nothing.
\* An unresolved application answers 500, any other refusal of Cognito "session
\* expired".
Verify(r, s, code) ==
    /\ req[r].pc = "idle"
    /\ Cardinality(InFlight) < MaxInFlight
    /\ token[s].state # "none"
    /\ req[s].pc = "done"
    /\ LET q == [req[r] EXCEPT !.typed = code, !.right = InForce(code)] IN
       \/ /\ token[s].state = "decoy"
          /\ Finish(r, "incorrectCode")
          /\ UNCHANGED token
       \/ /\ Alive(token[s])
          /\ req' = [req EXCEPT ![r] = [q EXCEPT !.pc = "verifyGet",
                                          !.round = token[s].round,
                                          !.fresh = token[s].round = 0]]
          /\ token' = [token EXCEPT ![s].state = "spent"]
       \/ /\ token[s].state \in {"live", "spent"} /\ ~Alive(token[s])
          /\ req' = [req EXCEPT ![r] = [q EXCEPT !.pc = "createGet",
                                          !.after = "answer", !.round = 0,
                                          !.now = clock, !.fresh = TRUE]]
          /\ UNCHANGED token
       \/ /\ Faults /\ token[s].state # "decoy"
          /\ \E page \in {"failed", "expiredSession"} : Finish(r, page)
          /\ UNCHANGED token
    /\ UNCHANGED <<clock, standing, verified, rec, replica, sends, mintedAt,
                   mails, consumed, signIns>>

\* verify-auth-challenge answered: define-auth-challenge decides what follows.
Answered(r, correct, at) ==
    LET n == req[r].round + 1 IN
    \/ /\ DefineAuthChallenge(n, correct) = "issueTokens"
       /\ Finish(r, "signedIn")
       /\ signIns' = signIns \cup {[code |-> req[r].typed, at |-> at]}
    \/ /\ DefineAuthChallenge(n, correct) = "failAuthentication"
       /\ Finish(r, "expiredSession")
       /\ UNCHANGED signIns
    \/ /\ DefineAuthChallenge(n, correct) = "CUSTOM_CHALLENGE"
       /\ Challenge(r, "page", n)
       /\ UNCHANGED signIns

VerifyGet(r) ==
    /\ req[r].pc = "verifyGet"
    /\ \/ \E item \in Reads :
            /\ item.exists
            /\ req' = [req EXCEPT ![r] = [@ EXCEPT !.pc = "verifyJudge",
                                                       !.seen = item]]
            /\ UNCHANGED signIns
       \/ /\ Faults \/ (\E item \in Reads : ~item.exists)
          /\ Answered(r, FALSE, clock)
    /\ UNCHANGED <<clock, standing, verified, rec, replica, sends, token,
                   mintedAt, mails, consumed>>

\* An expired item, or one with too many wrong answers, is deleted.
VerifyDiscard(r) ==
    LET seen == req[r].seen IN
    /\ req[r].pc = "verifyJudge"
    /\ Lapsed(seen, clock) \/ seen.attempts >= MaxAttempts
    /\ rec' = NoItem
    /\ Answered(r, FALSE, clock)
    /\ UNCHANGED <<clock, standing, verified, replica, sends, token, mintedAt,
                   mails, consumed>>

\* The right code deletes the item; the first sign-in also marks the address
\* as verified before the answer counts.
VerifyAccept(r) ==
    LET seen == req[r].seen IN
    /\ req[r].pc = "verifyJudge"
    /\ ~Lapsed(seen, clock) /\ seen.attempts < MaxAttempts
    /\ HasCode(seen) /\ seen.otp = req[r].typed
    /\ rec' = NoItem
    /\ consumed' = consumed \cup {seen.otp}
    /\ \/ verified /\ Answered(r, TRUE, clock)
       \/ /\ ~verified
          /\ req' = [req EXCEPT ![r] = [@ EXCEPT !.pc = "markVerified",
                                                       !.now = clock]]
          /\ UNCHANGED signIns
    /\ UNCHANGED <<clock, standing, verified, replica, sends, token, mintedAt,
                   mails>>

\* AdminUpdateUserAttributes; when it throws, the answer is not correct.
MarkVerified(r) ==
    /\ req[r].pc = "markVerified"
    /\ \/ verified' = TRUE /\ Answered(r, TRUE, req[r].now)
       \/ Faults /\ UNCHANGED verified /\ Answered(r, FALSE, req[r].now)
    /\ UNCHANGED <<clock, standing, rec, replica, sends, token, mintedAt, mails,
                   consumed>>

\* A wrong code is counted, whatever has become of the item since it was read.
VerifyReject(r) ==
    LET seen == req[r].seen IN
    /\ req[r].pc = "verifyJudge"
    /\ ~Lapsed(seen, clock) /\ seen.attempts < MaxAttempts
    /\ ~(HasCode(seen) /\ seen.otp = req[r].typed)
    /\ rec' = OneMoreAttempt(rec)
    /\ Answered(r, FALSE, clock)
    /\ UNCHANGED <<clock, standing, verified, replica, sends, token, mintedAt,
                   mails, consumed>>

\* The write of any of the three verdicts failed, or was done and its answer lost:
\* the answer is not correct.
VerifyWriteFails(r) ==
    LET seen == req[r].seen
        over == Lapsed(seen, clock) \/ seen.attempts >= MaxAttempts
        correct == HasCode(seen) /\ seen.otp = req[r].typed
    IN
    /\ req[r].pc = "verifyJudge"
    /\ Faults
    /\ Answered(r, FALSE, clock)
    /\ \/ UNCHANGED <<rec, consumed>>
       \/ /\ over \/ correct
          /\ rec' = NoItem
          /\ consumed' = IF over THEN consumed ELSE consumed \cup {seen.otp}
       \/ /\ ~over /\ ~correct
          /\ rec' = OneMoreAttempt(rec)
          /\ UNCHANGED consumed
    /\ UNCHANGED <<clock, standing, verified, replica, sends, token, mintedAt, mails>>

-----------------------------------------------------------------------------
(* The environment.                                                        *)

\* DynamoDB: readers without ConsistentRead catch up within the minute.
Replicate ==
    /\ Lag /\ replica # rec
    /\ replica' = rec
    /\ UNCHANGED <<clock, standing, verified, rec, sends, req, token, mintedAt,
                   mails, consumed, signIns>>

\* DynamoDB: timeToLiveAttribute "ttl" removes an expired item some time later.
TtlSweep ==
    /\ Lapsed(rec, clock)
    /\ rec' = NoItem
    /\ UNCHANGED <<clock, standing, verified, replica, sends, req, token,
                   mintedAt, mails, consumed, signIns>>

\* A minute passes.
Tick ==
    /\ clock < MaxClock
    /\ Lag => replica = rec
    /\ \A r \in InFlight : req[r].span < MaxSpan
    /\ clock' = clock + 1
    /\ req' = [r \in Requests |->
                 IF Running(r) THEN [req[r] EXCEPT !.span = @ + 1] ELSE req[r]]
    /\ UNCHANGED <<standing, verified, rec, replica, sends, token, mintedAt,
                   mails, consumed, signIns>>

\* The end of the model: no request and no minute is left.
AllOver ==
    /\ clock = MaxClock
    /\ \A r \in Requests : req[r].pc = "done"
    /\ UNCHANGED vars

MailedCodes == {m.code : m \in mails}

Next ==
    \/ \E r \in Requests :
        \/ SendOtp(r) \/ SendGate(r) \/ SendMail(r)
        \/ CreateGet(r) \/ CreateSave(r) \/ CreatePut(r)
        \/ \E s \in Requests, code \in MailedCodes \cup {0} : Verify(r, s, code)
        \/ VerifyGet(r) \/ VerifyDiscard(r) \/ VerifyAccept(r)
        \/ VerifyReject(r) \/ VerifyWriteFails(r) \/ MarkVerified(r)
    \/ Replicate \/ TtlSweep \/ Tick \/ AllOver

Spec == Init /\ [][Next]_vars

-----------------------------------------------------------------------------
(* Properties.                                                             *)

\* The state the tables, the sessions and the invocations keep: in particular
\* no Cognito session is ever answered more than three times.
TypeOK ==
    /\ clock \in 0..MaxClock
    /\ standing \in {"member", "unlisted", "unknown"}
    /\ verified \in BOOLEAN
    /\ rec \in Item /\ replica \in Item
    /\ sends \in [Buckets -> Nat]
    /\ req \in [Requests -> Request]
    /\ token \in [Requests -> Token]
    /\ mintedAt \in Seq(Nat)
    /\ mails \in SUBSET [req: Requests, code: Nat, ticket: Nat,
                       bucket: Buckets \cup {0}]
    /\ consumed \in SUBSET Nat
    /\ signIns \in SUBSET [code: Nat, at: Nat]

\* An episode is bounded (create-auth-challenge, MAX_REUSE_AGE_SECONDS): however
\* often a code is sent again, by however many invocations at once, a sign-in
\* happens within MaxReuseAge of the minute its code was minted.
SignInsWithinEpisode ==
    \A s \in signIns :
        /\ s.code \in 1..Len(mintedAt)
        /\ s.at <= mintedAt[s.code] + MaxReuseAge

\* A code a correct answer deleted never comes back into the table: the write
\* that extends a code (reusableOtp) may have read it before the deletion.
ConsumedStaysConsumed == HasCode(rec) => rec.otp \notin consumed

\* A resend hands out no fresh tries: as long as an item holds the same code,
\* its wrong-answer counter never goes down.
AttemptsKept ==
    [][HasCode(rec) /\ HasCode(rec') /\ rec'.otp = rec.otp
         => rec'.attempts >= rec.attempts]_rec

\* Neither a resend nor a race gives a code a second life.
CodesNotRevived == []ConsumedStaysConsumed /\ AttemptsKept

\* The send throttle: however many send-otp requests run at once, at most
\* SendsPerWindow mails counted in one window leave for the address.
MailsWithinAllowance ==
    \A b \in Buckets :
        Cardinality({m \in mails : m.bucket = b /\ m.ticket > 0}) <= SendsPerWindow

\* A resend, a retry and a restart all keep the code that is in the person's
\* inbox: a mailed code still in force is never replaced by another one
\* (create-auth-challenge: "every mail of the episode carry the SAME code").
MailedCodeNotReplaced ==
    [][Reusable(rec, clock) /\ rec.otp \in MailedCodes
         => ~HasCode(rec') \/ rec'.otp = rec.otp]_rec

\* The code in force, typed on a page whose session has expired or was not
\* answered yet, signs the person in (answerOtp restarts the session once).
FirstAnswerSignsIn ==
    \A r \in Requests :
        req[r].pc = "done" /\ req[r].right /\ req[r].fresh => req[r].page = "signedIn"

\* The code in force signs the person in on whatever live page it is typed,
\* the one that said "Incorrect code. Please try again." included.
RightCodeSignsIn ==
    \A r \in Requests :
        req[r].pc = "done" /\ req[r].right => req[r].page = "signedIn"

-----------------------------------------------------------------------------
(* What makes the properties above inductive.                              *)

\* An item that carries a code carries the minute it was minted and a deadline
\* within the episode, whoever wrote or read it last.
WithinEpisode(item, minted) ==
    item.otp # 0 =>
        /\ item.otp \in 1..Len(minted)
        /\ item.issuedAt = minted[item.otp]
        /\ item.ttl <= minted[item.otp] + MaxReuseAge

\* The table and its stale copy hold codes within their episode.
TableWithinEpisode == WithinEpisode(rec, mintedAt) /\ WithinEpisode(replica, mintedAt)

\* So does what every trigger has read, and a verdict already pronounced.
VerdictsWithinEpisode ==
    \A r \in Requests :
        /\ WithinEpisode(req[r].seen, mintedAt)
        /\ req[r].pc = "markVerified" =>
            /\ req[r].typed \in 1..Len(mintedAt)
            /\ req[r].now <= mintedAt[req[r].typed] + MaxReuseAge

EpisodeInvariant ==
    /\ TableWithinEpisode
    /\ VerdictsWithinEpisode
    /\ SignInsWithinEpisode
    /\ consumed \subseteq 1..Len(mintedAt)
    /\ rec.otp \notin consumed

\* The allowance numbers of the send counter: each is handed to one send only,
\* in flight or mailed.
Granted(ticket, bucket) ==
    /\ bucket \in Buckets
    /\ ticket <= sends[bucket]
    /\ ticket <= SendsPerWindow

AllowanceInvariant ==
    /\ \A r \in Requests : req[r].ticket > 0 =>
        /\ Granted(req[r].ticket, req[r].bucket)
        /\ \A s \in Requests \ {r} : req[s].bucket = req[r].bucket
                                        => req[s].ticket # req[r].ticket
        /\ \A m \in mails : m.bucket = req[r].bucket => m.ticket # req[r].ticket
    /\ \A m \in mails : m.ticket > 0 =>
        /\ Granted(m.ticket, m.bucket)
        /\ \A k \in mails \ {m} : k.bucket = m.bucket => k.ticket # m.ticket

\* One person at the keyboard, and nothing fails: a request is answered before
\* the next one leaves, and whatever it reads is up to date.
OneAtATime == MaxInFlight = 1 /\ ~Lag /\ ~Faults

\* What a request has read is what the table still holds, unless it ran out.
AloneInvariant ==
    /\ \A r, s \in InFlight : r = s
    /\ \A r \in Requests :
        /\ req[r].now <= clock /\ req[r].span <= MaxSpan
        /\ req[r].pc = "createSave" => rec = req[r].seen \/ ~HasCode(rec)
        /\ req[r].pc = "createPut" => ~Reusable(rec, req[r].now)

\* The code in force, on its way on a session not answered yet: it stays in
\* force until it is judged, since a request takes a minute at most.
OnItsWay(q) ==
    /\ q.pc \in {"createGet", "createSave", "verifyGet", "verifyJudge", "markVerified", "done"}
    /\ q.pc = "done" => q.page = "signedIn"
    /\ q.pc # "done" => q.round = 0
    /\ q.pc \notin {"markVerified", "done"} =>
        /\ HasCode(rec) /\ rec.otp = q.typed /\ rec.attempts < MaxAttempts
        /\ rec.ttl + q.span > clock
    /\ q.pc \in {"createGet", "createSave"} => q.after = "answer" /\ Reusable(rec, q.now)
    /\ q.pc \in {"createSave", "verifyJudge"} => q.seen = rec

FirstAnswerInvariant ==
    \A r \in Requests : req[r].right /\ req[r].fresh => OnItsWay(req[r])
=============================================================================
