------------------------------- MODULE AppGate -------------------------------
(***************************************************************************)
(* What the gate of an application promises, whoever implements it: every  *)
(* request is told who it comes from.  Nobody is taken for a person or an  *)
(* agent without bringing the session of one; a request of nobody for a    *)
(* closed path gets through only for as long as news of the closing may    *)
(* take; and the gate may refuse anyone, at any time.                      *)
(***************************************************************************)
EXTENDS Integers

CONSTANTS
    Askers,    \* where requests are served, one at a time
    Closable,  \* the paths an application may close
    Elsewhere, \* the paths it may not
    Lag        \* how long a path that was closed may still look open

VARIABLES
    now,       \* time
    closed,    \* the paths closed now
    openedAt,  \* the last instant a path was open
    asks       \* the request each asker serves

gateVars == <<now, closed, openedAt, asks>>

\* Where a request stands: nothing to serve, asked, or told who it comes from.
Idle == [pc |-> "idle"]
Asking == [pc: {"asking"}, uri: Closable \cup Elsewhere, cookies: SUBSET {"human", "agent"}]
Told(q, v) == [pc |-> "told", uri |-> q.uri, cookies |-> q.cookies, verdict |-> v]

\* A closed path that may still look open.
Lagging(uri) == uri \in closed /\ now < openedAt[uri] + Lag

Open(uri) == uri \notin closed

Init ==
    /\ now = 0
    /\ closed \in SUBSET Closable
    /\ openedAt = [uri \in Closable |-> 0]
    /\ asks = [a \in Askers |-> Idle]

Asks(a) ==
    /\ UNCHANGED <<now, closed, openedAt>>
    /\ asks[a] = Idle
    /\ \E q \in Asking : asks' = [asks EXCEPT ![a] = q]

Tells(a) ==
    /\ asks[a].pc = "asking"
    /\ \E v \in {"human", "agent", "anon", "deny"} :
         /\ v \in {"human", "agent"} => v \in asks[a].cookies
         /\ v = "anon" => Open(asks[a].uri) \/ Lagging(asks[a].uri)
         /\ asks' = [asks EXCEPT ![a] = Told(@, v)]
    /\ UNCHANGED <<now, closed, openedAt>>

\* The request is over, told or not.
Ends(a) ==
    /\ asks[a] # Idle
    /\ asks' = [asks EXCEPT ![a] = Idle]
    /\ UNCHANGED <<now, closed, openedAt>>

Closes ==
    /\ closed' \in SUBSET Closable
    /\ openedAt' = [uri \in Closable |-> IF uri \in closed THEN openedAt[uri] ELSE now]
    /\ UNCHANGED <<now, asks>>

Passes == now' = now + 1 /\ UNCHANGED <<closed, openedAt, asks>>

Next ==
    \/ \E a \in Askers : Asks(a) \/ Tells(a) \/ Ends(a)
    \/ Closes \/ Passes

Spec == Init /\ [][Next]_gateVars
=============================================================================
