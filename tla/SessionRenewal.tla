--------------------------- MODULE SessionRenewal ---------------------------
(***************************************************************************)
(* The long session of ONE person in ONE browser on one app host           *)
(* (lib/auth-lambda/index.js, "Silent renewal").                           *)
(*                                                                         *)
(* The browser keeps two cookies: dilaya_id_token, which dies with the     *)
(* token it carries, and dilaya_rt, the Cognito refresh token.  Its tabs   *)
(* send requests that carry the cookies of the moment they leave; each is  *)
(* an invocation of the auth Lambda, which asks Cognito, then the          *)
(* allowlist of the application, and answers with cookies to set or to     *)
(* clear.  Answers reach the browser in any order and act on the cookie    *)
(* names, whatever the jar holds by then.                                  *)
(*                                                                         *)
(* Refresh tokens are numbered in the order Cognito issues them; 0 is "no  *)
(* cookie".  The cookie that carries one slides its 30 days at every       *)
(* renewal and so outlives the token: only the token's own life is kept.   *)
(***************************************************************************)
EXTENDS Integers, Sequences, FiniteSets

CONSTANTS
    Requests,     \* requests of the browser, each used once
    IdLife,       \* life of an ID token (Cognito's IdTokenValidity)
    RefreshLife,  \* life of a refresh token
    CodeLife,     \* from a sign-in's allowlist check to its last possible answer
    Settings,     \* the deployments considered, see Setting
    MaxClock      \* bound: the last instant of the model

\* A deployment.
\*   rotation    the client rotates refresh tokens
\*   faults      calls to Cognito and the registry fail, answers get lost
\*   unreadable  the allowlist may be unreadable
\*   tabs        bound: requests under way at the same time
Setting == [rotation: BOOLEAN, faults: BOOLEAN, unreadable: BOOLEAN, tabs: Nat]

ASSUME LivesAssumption ==
    /\ IdLife \in Nat \ {0} /\ RefreshLife \in Nat \ {0} /\ CodeLife \in Nat
    /\ Settings \subseteq Setting /\ MaxClock \in Nat

VARIABLES
    setting,    \* the deployment, chosen once
    clock,      \* time since the start
    allowed,    \* the address is in _user_access
    removedAt,  \* history: when it was taken out
    tokens,     \* the refresh tokens Cognito has issued
    jar,        \* the browser's cookies
    req,        \* the invocations
    logouts     \* history: sessions closed by a logout, and when

vars == <<setting, clock, allowed, removedAt, tokens, jar, req, logouts>>

-----------------------------------------------------------------------------

\* session: the token of the sign-in it descends from, which names the session.
RefreshToken == [session: Nat, born: Nat, state: {"live", "rotated", "revoked"}]

\* An ID token: when it dies, its session, how it came.
IdToken == [exp: Nat, session: Nat, by: {"none", "signIn", "renewal"}]
NoId == [exp |-> 0, session |-> 0, by |-> "none"]

Jar == [id: IdToken, rt: Nat]

\* An invocation.
\*   pc     where the invocation stands
\*   route  login, refresh, logout, or signIn for verify and passkey/finish
\*   rt     the refresh token it carries, then the one its answer sets
\*   id     the ID token Cognito gave it
\*   cookies  what its answer does: nothing, set both, clear dilaya_rt, clear both
\*   since  when the allowlist let the sign-in begin
Request ==
    [pc: {"idle", "code", "renew", "check", "revoke", "signOut", "answer", "done"},
     route: {"none", "signIn", "login", "refresh", "logout"},
     rt: Nat, id: IdToken, cookies: {"none", "set", "clearRt", "clearBoth"},
     since: Nat]

IdleRequest ==
    [pc |-> "idle", route |-> "none", rt |-> 0, id |-> NoId,
     cookies |-> "none", since |-> 0]

InFlight == {r \in Requests : req[r].pc \notin {"idle", "done"}}

Live(t) == t \in 1..Len(tokens) /\ tokens[t].state = "live"

\* Cognito honours a refresh token.
Honoured(t) ==
    /\ Live(t)
    /\ clock < tokens[t].born + RefreshLife

\* The browser drops the session cookie when its token dies (idTokenMaxAge).
SignedIn == jar.id.exp > clock

NewToken == [session |-> Len(tokens) + 1, born |-> clock, state |-> "live"]

\* Rotation reissues a token inside the window of the one it replaces.
Reissued(t) == [tokens[t] EXCEPT !.state = "live"]

\* isAllowlisted does not keep the address out: it is listed, or the list cannot
\* be read at any attempt.
LetsIn == allowed \/ setting.unreadable

\* Mutant: Cognito's refusals and its failures are one.
DefinitiveAll(t) == ~Honoured(t) \/ setting.faults

\* REFRESH_DEFINITIVE: the refusal says the token will never work again.
Definitive(t) == ~Honoured(t)

\* Mutant: the cookie outlives its token.
NewIdLonger(s, by) == [exp |-> clock + IdLife + 1, session |-> s, by |-> by]

NewId(s, by) == [exp |-> clock + IdLife, session |-> s, by |-> by]

\* RevokeToken: only a live token has anything left to revoke.
Revoked(t) ==
    IF Live(t) THEN [tokens EXCEPT ![t].state = "revoked"] ELSE tokens

Init ==
    /\ setting \in Settings
    /\ clock = 0 /\ allowed = TRUE /\ removedAt = 0
    /\ tokens = <<>>
    /\ jar = [id |-> NoId, rt |-> 0]
    /\ req = [r \in Requests |-> IdleRequest]
    /\ logouts = {}

-----------------------------------------------------------------------------
(* Common steps.                                                           *)

Leaves(r) == req[r].pc = "idle" /\ Cardinality(InFlight) < setting.tabs

Answer(r, cookies) ==
    req' = [req EXCEPT ![r] = [@ EXCEPT !.pc = "answer", !.cookies = cookies]]

\* An answer without cookies changes nothing, whenever it arrives.
Done(r) == req' = [req EXCEPT ![r] = [IdleRequest EXCEPT !.pc = "done"]]

-----------------------------------------------------------------------------
(* Signing in: by e-mail code or by passkey.  The allowlist is consulted   *)
(* when it begins (send-otp, passkey/start), not when the answer comes.    *)

SignInGate(r) ==
    /\ Leaves(r)
    /\ LetsIn
    /\ req' = [req EXCEPT ![r] = [@ EXCEPT !.pc = "code", !.route = "signIn",
                                           !.since = clock]]
    /\ UNCHANGED <<setting, clock, allowed, removedAt, tokens, jar, logouts>>

SignInTokens(r) ==
    /\ req[r].pc = "code"
    /\ clock <= req[r].since + CodeLife
    /\ tokens' = Append(tokens, NewToken)
    /\ LET t == Len(tokens) + 1 IN
       req' = [req EXCEPT ![r] = [@ EXCEPT !.pc = "answer", !.cookies = "set",
                                      !.rt = t, !.id = NewId(t, "signIn")]]
    /\ UNCHANGED <<setting, clock, allowed, removedAt, jar, logouts>>

\* The person gives up, or the code is refused (OtpLogin).
SignInFails(r) ==
    /\ req[r].pc = "code"
    /\ Done(r)
    /\ UNCHANGED <<setting, clock, allowed, removedAt, tokens, jar, logouts>>

-----------------------------------------------------------------------------
(* GET login and POST refresh: renewSession.                               *)

\* A live session goes straight back (login only), no refresh cookie gets the
\* login page or 401; anything else is a renewal.
Visit(r, route) ==
    /\ Leaves(r)
    /\ \/ /\ (route = "login" /\ SignedIn) \/ jar.rt = 0
          /\ Done(r)
       \/ /\ ~(route = "login" /\ SignedIn) /\ jar.rt # 0
          /\ req' = [req EXCEPT ![r] = [@ EXCEPT !.pc = "renew", !.route = route,
                                                 !.rt = jar.rt]]
    /\ UNCHANGED <<setting, clock, allowed, removedAt, tokens, jar, logouts>>

\* refreshTokens: fresh tokens, a definitive refusal (REFRESH_DEFINITIVE), or a
\* failure that says nothing of the token: resolveAppAuth answered null, Cognito
\* throttled, or its answer never came, the rotation done.  (Cognito's success
\* always holds an ID token; the code would take one without for a refusal.)
Renew(r) ==
    LET t == req[r].rt
        session == tokens[t].session
        rotated == Append([tokens EXCEPT ![t].state = "rotated"], Reissued(t))
    IN
    /\ req[r].pc = "renew"
    /\ \/ /\ Honoured(t)
          /\ \/ /\ ~setting.rotation
                /\ req' = [req EXCEPT ![r] = [@ EXCEPT !.pc = "check",
                                                !.id = NewId(session, "renewal")]]
                /\ UNCHANGED tokens
             \/ /\ setting.rotation
                /\ tokens' = rotated
                /\ req' = [req EXCEPT ![r] = [@ EXCEPT !.pc = "check", !.rt = Len(tokens) + 1,
                                                !.id = NewId(session, "renewal")]]
       \/ /\ Definitive(t)
          /\ Answer(r, "clearRt")
          /\ UNCHANGED tokens
       \/ /\ setting.faults
          /\ Done(r)
          /\ \/ UNCHANGED tokens
             \/ setting.rotation /\ Honoured(t) /\ tokens' = rotated
    /\ UNCHANGED <<setting, clock, allowed, removedAt, jar, logouts>>

\* Mutant: a renewal trusts the token alone.
CheckAllowlistSkipped(r) ==
    /\ req[r].pc = "check"
    /\ Answer(r, "set")
    /\ UNCHANGED <<setting, clock, allowed, removedAt, tokens, jar, logouts>>

\* isAllowlisted, "exactly as at sign-in": an unreadable list lets through.
CheckAllowlist(r) ==
    /\ req[r].pc = "check"
    /\ \/ /\ LetsIn
          /\ Answer(r, "set")
       \/ /\ ~allowed
          /\ req' = [req EXCEPT ![r] = [@ EXCEPT !.pc = "revoke"]]
    /\ UNCHANGED <<setting, clock, allowed, removedAt, tokens, jar, logouts>>

\* revokeRefresh of a removed address: best effort, the cookie goes anyway.
RevokeRemoved(r) ==
    /\ req[r].pc = "revoke"
    /\ tokens' = Revoked(req[r].rt) \/ (setting.faults /\ UNCHANGED tokens)
    /\ Answer(r, "clearRt")
    /\ UNCHANGED <<setting, clock, allowed, removedAt, jar, logouts>>

-----------------------------------------------------------------------------
(* GET logout.                                                             *)

Logout(r) ==
    /\ Leaves(r)
    /\ req' = [req EXCEPT ![r] = [@ EXCEPT !.pc = "signOut", !.route = "logout",
                                           !.rt = jar.rt]]
    /\ UNCHANGED <<setting, clock, allowed, removedAt, tokens, jar, logouts>>

\* What a logout that came with token t closes.
Closed(t) == IF Live(t) THEN {[session |-> tokens[t].session, at |-> clock]} ELSE {}

\* Mutant: logout only clears the cookies.
SignOutKeepsToken(r) ==
    /\ req[r].pc = "signOut"
    /\ logouts' = logouts \cup Closed(req[r].rt)
    /\ Answer(r, "clearBoth")
    /\ UNCHANGED <<setting, clock, allowed, removedAt, jar, tokens>>

\* The token that came with the logout is revoked, best effort, and both
\* cookies are cleared whatever Cognito answers.
SignOut(r) ==
    /\ req[r].pc = "signOut"
    /\ \/ /\ tokens' = Revoked(req[r].rt)
          /\ logouts' = logouts \cup Closed(req[r].rt)
       \/ setting.faults /\ UNCHANGED <<tokens, logouts>>
    /\ Answer(r, "clearBoth")
    /\ UNCHANGED <<setting, clock, allowed, removedAt, jar>>

-----------------------------------------------------------------------------
(* The browser, the network, the administrator.                            *)

\* Set-Cookie acts on the cookie's name, whatever the jar holds by now.
Deliver(r) ==
    LET q == req[r] IN
    /\ q.pc = "answer"
    /\ jar' = CASE q.cookies = "set" -> [id |-> q.id, rt |-> q.rt]
                [] q.cookies = "clearRt" -> [jar EXCEPT !.rt = 0]
                [] q.cookies = "clearBoth" -> [id |-> NoId, rt |-> 0]
                [] OTHER -> jar
    /\ Done(r)
    /\ UNCHANGED <<setting, clock, allowed, removedAt, tokens, logouts>>

Lose(r) ==
    /\ setting.faults /\ req[r].pc = "answer"
    /\ Done(r)
    /\ UNCHANGED <<setting, clock, allowed, removedAt, tokens, jar, logouts>>

\* revoke-access in the connector: the row leaves _user_access.
RemoveAccess ==
    /\ allowed
    /\ allowed' = FALSE /\ removedAt' = clock
    /\ UNCHANGED <<setting, clock, tokens, jar, req, logouts>>

Tick ==
    /\ clock < MaxClock
    /\ clock' = clock + 1
    /\ UNCHANGED <<setting, allowed, removedAt, tokens, jar, req, logouts>>

\* The end of the model: no request and no time is left.
AllOver ==
    /\ clock = MaxClock /\ ~allowed
    /\ \A r \in Requests : req[r].pc = "done"
    /\ UNCHANGED vars

Next ==
    \/ \E r \in Requests :
        \/ SignInGate(r) \/ SignInTokens(r) \/ SignInFails(r)
        \/ \E route \in {"login", "refresh"} : Visit(r, route)
        \/ Renew(r) \/ CheckAllowlist(r) \/ RevokeRemoved(r)
        \/ Logout(r) \/ SignOut(r)
        \/ Deliver(r) \/ Lose(r)
    \/ RemoveAccess \/ Tick \/ AllOver

Spec == Init /\ [][Next]_vars

-----------------------------------------------------------------------------
(* Properties.                                                             *)

\* The cookies name tokens Cognito issued, and no session cookie promises more
\* than the life of an ID token (idTokenMaxAge).
TypeOK ==
    /\ setting \in Settings
    /\ clock \in 0..MaxClock /\ allowed \in BOOLEAN /\ removedAt \in 0..clock
    /\ tokens \in Seq(RefreshToken)
    /\ jar \in Jar /\ jar.rt <= Len(tokens) /\ jar.id.exp <= clock + IdLife
    /\ req \in [Requests -> Request]
    /\ \A r \in Requests : req[r].rt <= Len(tokens)
    /\ logouts \subseteq [session: 1..Len(tokens), at: 0..clock]

\* An address taken off the allowlist loses its session: what was renewed ends
\* within the life of one ID token, a sign-in already under way within that and
\* the life of its code, as long as the list can be read (renewSession: "loses the session at the next renewal").
RemovalEndsSession ==
    ~allowed /\ ~setting.unreadable =>
        jar.id.exp <= removedAt + IdLife + (IF jar.id.by = "signIn" THEN CodeLife ELSE 0)

\* Logging out is final for the session it closes, whichever of its tokens it
\* came with: an answer on its way to another tab may put the cookies back, but
\* nothing outlives the ID token it carries (handleLogout: "so a copy of the
\* cookie is worthless too").  A logout whose revocation failed, or whose token
\* another tab had rotated away by then, closes nothing at Cognito.
LogoutEndsSession ==
    \A l \in logouts : jar.id.session = l.session => jar.id.exp <= l.at + IdLife

\* A session that was ended, from either side, ends.
EndedSessionsEnd == RemovalEndsSession /\ LogoutEndsSession

\* A renewal takes the refresh cookie away only for a reason that will not go
\* away: its token is dead for Cognito, or the address was removed (a failure
\* that says nothing of the token "keeps the cookie for the next try").
OnlyDefinitiveClears ==
    \A r \in Requests :
        req[r].pc = "answer" /\ req[r].cookies = "clearRt"
            => ~Honoured(req[r].rt) \/ ~allowed

-----------------------------------------------------------------------------
(* What makes the properties inductive.                                    *)

\* Sessions are named by the token they began with, and hold one live token.
TokensSound(ts) ==
    /\ ts \in Seq(RefreshToken)
    /\ \A t \in 1..Len(ts) : ts[t].session \in 1..t
    /\ \A t, u \in 1..Len(ts) :
         ts[t].state = "live" /\ ts[u].state = "live" /\ ts[t].session = ts[u].session => t = u

IdSound(id) == id \in IdToken /\ id.exp <= clock + IdLife /\ id.session <= Len(tokens)

SessionShape ==
    /\ setting \in Settings
    /\ clock \in 0..MaxClock /\ allowed \in BOOLEAN /\ removedAt \in 0..clock
    /\ TokensSound(tokens)
    /\ jar \in Jar /\ jar.rt <= Len(tokens) /\ IdSound(jar.id)
    /\ req \in [Requests -> Request]
    /\ \A r \in Requests : req[r].rt <= Len(tokens) /\ IdSound(req[r].id)
    /\ logouts \subseteq [session: 1..Len(tokens), at: 0..clock]

\* An ID token that ends in time after the removal of its owner.
EndsAfterRemoval(id) ==
    id.exp <= removedAt + IdLife + (IF id.by = "signIn" THEN CodeLife ELSE 0)

\* So do those on their way to the browser, and those a sign-in will bring.
PendingEnds(q) ==
    /\ q.pc = "answer" /\ q.cookies = "set" => EndsAfterRemoval(q.id)
    /\ q.pc = "code" => q.since <= removedAt

RemovalInvariant ==
    ~allowed /\ ~setting.unreadable =>
        EndsAfterRemoval(jar.id) /\ \A r \in Requests : PendingEnds(req[r])

EndsAfterLogout(id, l) == id.session = l.session => id.exp <= l.at + IdLife

\* A session that was logged out has no live token to be renewed by.
LogoutInvariant ==
    \A l \in logouts :
        /\ \A t \in 1..Len(tokens) : tokens[t].session = l.session => ~Live(t)
        /\ EndsAfterLogout(jar.id, l)
        /\ \A r \in Requests : EndsAfterLogout(req[r].id, l)

\* What takes the refresh cookie away stays true until the answer arrives; a
\* sign-in under way has begun.
ForCause(q) ==
    /\ q.pc = "answer" /\ q.cookies = "clearRt" => ~Honoured(q.rt) \/ ~allowed
    /\ q.pc = "revoke" => ~allowed
    /\ q.pc = "code" => q.since <= clock

RefusalInvariant == \A r \in Requests : ForCause(req[r])

SessionInvariant ==
    SessionShape /\ RemovalInvariant /\ LogoutInvariant /\ RefusalInvariant
=============================================================================
