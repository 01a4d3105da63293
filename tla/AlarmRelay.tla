------------------------------ MODULE AlarmRelay ------------------------------
(***************************************************************************)
(* The road of an alarm: CloudWatch -> SNS -> the relay Lambda             *)
(* (lib/alarm-relay) -> Telegram, which tells a person, and the connector, *)
(* which wakes the ops agent.                                              *)
(*                                                                         *)
(* SNS invokes the relay asynchronously, one message at a time; an         *)
(* invocation that throws is retried, Attempts in all, then dropped.       *)
(* Messages are independent of each other and may overtake each other.     *)
(* Every alarm of the package treats missing data as not breaching: it is  *)
(* born INSUFFICIENT_DATA and never returns there.                         *)
(***************************************************************************)
EXTENDS Integers, Sequences

CONSTANTS
    Alarms,          \* the alarms wired by alertOn
    Attempts,        \* invocations Lambda gives an asynchronous event
    Wired,           \* CONNECTOR_FUNCTION_NAME is set
    TokenFaults,     \* TRUE: the SSM parameter may be unreadable
    MaxTransitions   \* bound: transitions of one alarm

ASSUME RelayAssumption ==
    /\ Attempts \in Nat \ {0}
    /\ Wired \in BOOLEAN /\ TokenFaults \in BOOLEAN
    /\ MaxTransitions \in Nat

VARIABLES
    state,        \* the state of each alarm
    sent,         \* sent[a]: the messages published for alarm a, in order
    cachedToken   \* the relay's container has read the bot token

vars == <<state, sent, cachedToken>>

-----------------------------------------------------------------------------

States == {"INSUFFICIENT_DATA", "OK", "ALARM"}

\* A message and its invocations.
\*   pc     queued before an invocation, deliver within one
\*   tries  invocations begun
\*   telegram, wake   the two deliveries of the invocation under way
\*   told, woken      history: Telegram, the connector took the message
\*   telegramFailed, wakeFailed   history: the invocations whose delivery failed
\*   noToken   history: the invocations that found no bot token
Outcome == {"none", "pending", "ok", "failed"}

Message ==
    [old: States, new: States, tries: 0..Attempts,
     pc: {"queued", "deliver", "done", "suppressed", "dropped"},
     telegram: Outcome, wake: Outcome, told: BOOLEAN, woken: BOOLEAN,
     telegramFailed: SUBSET (1..Attempts), wakeFailed: SUBSET (1..Attempts),
     noToken: SUBSET (1..Attempts)]

NewMessage(old, new) ==
    [old |-> old, new |-> new, tries |-> 0, pc |-> "queued",
     telegram |-> "none", wake |-> "none", told |-> FALSE, woken |-> FALSE,
     telegramFailed |-> {}, wakeFailed |-> {}, noToken |-> {}]

Sent == {m \in Alarms \X (1..MaxTransitions) : m[2] <= Len(sent[m[1]])}

\* Mutant: no recovery is announced.
ShouldAnnounceAlarmsOnly(m) == m.new # "OK"

\* A recovery is announced only when something broke.
ShouldAnnounce(m) == m.new # "OK" \/ m.old = "ALARM"

Init ==
    /\ state = [a \in Alarms |-> "INSUFFICIENT_DATA"]
    /\ sent = [a \in Alarms |-> <<>>]
    /\ cachedToken = FALSE

Update(a, i, m) == sent' = [sent EXCEPT ![a][i] = m]

\* Mutant: an asynchronous event is retried for ever.
ThrownForEver(m) ==
    [m EXCEPT !.telegram = "none", !.wake = "none", !.tries = 0, !.pc = "queued"]

\* Mutant: one attempt too many.
ThrownOnceMore(m) ==
    [m EXCEPT !.telegram = "none", !.wake = "none",
              !.pc = IF m.tries > Attempts THEN "dropped" ELSE "queued"]

\* The invocation throws: Lambda tries again, or gives up.
Thrown(m) ==
    [m EXCEPT !.telegram = "none", !.wake = "none",
              !.pc = IF m.tries = Attempts THEN "dropped" ELSE "queued"]

-----------------------------------------------------------------------------

\* CloudWatch: alertOn publishes the ALARM and the OK of an alarm.
Transition(a) ==
    /\ Len(sent[a]) < MaxTransitions
    /\ \E new \in {"OK", "ALARM"} \ {state[a]} :
         /\ state' = [state EXCEPT ![a] = new]
         /\ sent' = [sent EXCEPT ![a] = Append(@, NewMessage(state[a], new))]
    /\ UNCHANGED cachedToken

\* The handler up to its two deliveries.  Without a bot token it throws before
\* either; a birth-OK is logged and goes no further.
Invoke(a, i) ==
    LET m == [sent[a][i] EXCEPT !.tries = @ + 1] IN
    /\ sent[a][i].pc = "queued"
    /\ UNCHANGED state
    /\ \/ /\ cachedToken' = TRUE
          /\ Update(a, i, IF ShouldAnnounce(m)
                          THEN [m EXCEPT !.pc = "deliver", !.telegram = "pending",
                                         !.wake = IF Wired THEN "pending" ELSE "ok"]
                          ELSE [m EXCEPT !.pc = "suppressed"])
       \/ /\ TokenFaults /\ ~cachedToken
          /\ UNCHANGED cachedToken
          /\ Update(a, i, Thrown([m EXCEPT !.noToken = @ \cup {m.tries}]))

TelegramFailed(m, told) ==
    [m EXCEPT !.telegram = "failed", !.told = told, !.telegramFailed = @ \cup {m.tries}]

WakeFailed(m, woken) ==
    [m EXCEPT !.wake = "failed", !.woken = woken, !.wakeFailed = @ \cup {m.tries}]

\* POST sendMessage: an answer that is not ok, none at all, or one lost after
\* Telegram took the message.
Telegram(a, i) ==
    LET m == sent[a][i] IN
    /\ m.pc = "deliver" /\ m.telegram = "pending"
    /\ \/ Update(a, i, [m EXCEPT !.telegram = "ok", !.told = TRUE])
       \/ \E told \in {m.told, TRUE} : Update(a, i, TelegramFailed(m, told))
    /\ UNCHANGED <<state, cachedToken>>

\* Mutant: the agent is woken once Telegram has answered.
WakeAgentAfterTelegram(a, i) ==
    LET m == sent[a][i] IN
    /\ m.pc = "deliver" /\ m.wake = "pending" /\ m.telegram # "pending"
    /\ UNCHANGED <<state, cachedToken>>
    /\ Update(a, i, [m EXCEPT !.wake = "ok", !.woken = m.telegram = "ok"])

\* Invoke of the connector, waited for: a FunctionError is a failure like a
\* rejected call; a refusal by the connector is an answer like any other.
WakeAgent(a, i) ==
    LET m == sent[a][i] IN
    /\ m.pc = "deliver" /\ m.wake = "pending"
    /\ \/ Update(a, i, [m EXCEPT !.wake = "ok", !.woken = TRUE])
       \/ \E woken \in {m.woken, TRUE} : Update(a, i, WakeFailed(m, woken))
    /\ UNCHANGED <<state, cachedToken>>

\* Lambda's timeout ends an invocation whose deliveries hang.
TimesOut(a, i) ==
    LET m == sent[a][i]
        t == IF m.telegram = "pending" THEN TelegramFailed(m, m.told) ELSE m
    IN
    /\ m.pc = "deliver" /\ "pending" \in {m.telegram, m.wake}
    /\ Update(a, i, Thrown(IF m.wake = "pending" THEN WakeFailed(t, m.woken) ELSE t))
    /\ UNCHANGED <<state, cachedToken>>

\* Mutant: only Telegram's failure is thrown.
SettleTelegramOnly(a, i) ==
    LET m == sent[a][i] IN
    /\ m.pc = "deliver" /\ "pending" \notin {m.telegram, m.wake}
    /\ Update(a, i, IF m.telegram = "failed" THEN Thrown(m) ELSE [m EXCEPT !.pc = "done"])
    /\ UNCHANGED <<state, cachedToken>>

\* Both have answered: either failure is thrown.
Settle(a, i) ==
    LET m == sent[a][i] IN
    /\ m.pc = "deliver" /\ "pending" \notin {m.telegram, m.wake}
    /\ Update(a, i, IF "failed" \in {m.telegram, m.wake}
                    THEN Thrown(m) ELSE [m EXCEPT !.pc = "done"])
    /\ UNCHANGED <<state, cachedToken>>

\* Lambda recycles the container: the next invocation reads the token again.
Recycle ==
    /\ cachedToken /\ cachedToken' = FALSE
    /\ UNCHANGED <<state, sent>>

Next ==
    \/ \E a \in Alarms : Transition(a)
    \/ \E m \in Sent : \/ Invoke(m[1], m[2]) \/ Telegram(m[1], m[2])
                       \/ WakeAgent(m[1], m[2]) \/ TimesOut(m[1], m[2])
                       \/ Settle(m[1], m[2])
    \/ Recycle

\* The work left to AWS on a message: SNS delivers it and Lambda runs it, each
\* invocation to its end, if by the timeout.
Relayed(a, i) ==
    /\ <<a, i>> \in Sent
    /\ \/ Invoke(a, i) \/ Telegram(a, i) \/ WakeAgent(a, i)
       \/ TimesOut(a, i) \/ Settle(a, i)

\* Nothing obliges an alarm to change or a container to be recycled.
Fairness == \A a \in Alarms, i \in 1..MaxTransitions : WF_vars(Relayed(a, i))

Spec == Init /\ [][Next]_vars /\ Fairness

-----------------------------------------------------------------------------
(* Properties.                                                             *)

\* A message is tried Attempts times at most; a failure belongs to an invocation
\* that was made.
TypeOK ==
    /\ state \in [Alarms -> States]
    /\ sent \in [Alarms -> Seq(Message)]
    /\ cachedToken \in BOOLEAN
    /\ \A m \in Sent : LET x == sent[m[1]][m[2]] IN
        x.telegramFailed \cup x.wakeFailed \cup x.noToken \subseteq 1..x.tries

\* The end of an announced incident is announced: a message is suppressed only
\* while the alarm has never rung.
RecoveryAnnounced ==
    \A m \in Sent :
        sent[m[1]][m[2]].pc = "suppressed" =>
            \A i \in 1..(m[2] - 1) : sent[m[1]][i].new # "ALARM"

\* An invocation that reports success has reached both ("a silent failure here is
\* indistinguishable from no alarm fired").
NeverSilent ==
    \A m \in Sent : LET x == sent[m[1]][m[2]] IN
        x.pc = "done" => x.told /\ (Wired => x.woken)

\* An invocation runs both deliveries before it decides to fail: a message is
\* given up undelivered on one road only when that road failed at every attempt
\* that got as far as the deliveries.
BothTried ==
    \A m \in Sent : LET x == sent[m[1]][m[2]] IN
        x.pc = "dropped" =>
            /\ x.told \/ x.telegramFailed \cup x.noToken = 1..Attempts
            /\ Wired => x.woken \/ x.wakeFailed \cup x.noToken = 1..Attempts

\* Neither road is given up while it is thought to have been taken, nor for the
\* other's sake.
NeitherRoadGivenUp == NeverSilent /\ BothTried

\* The deliveries are independent ("letting a Telegram outage suppress the wake
\* (or the reverse)"): what only Telegram needs never costs the agent its wake.
IndependentDeliveries ==
    \A m \in Sent : LET x == sent[m[1]][m[2]] IN
        x.pc = "dropped" /\ Wired => x.woken \/ x.wakeFailed = 1..Attempts

\* What must be announced reaches the person and the agent, or has used up its
\* attempts: nothing lingers, whatever fails.
ReachesBothOrDropped ==
    \A a \in Alarms, i \in 1..MaxTransitions :
        (<<a, i>> \in Sent /\ ShouldAnnounce(sent[a][i])) ~>
            /\ <<a, i>> \in Sent
            /\ \/ sent[a][i].pc = "dropped"
               \/ sent[a][i].told /\ (Wired => sent[a][i].woken)
-----------------------------------------------------------------------------
(* What makes the properties above inductive.                              *)

\* The invocations of a message that are over.
Over(x) == 1..(IF x.pc = "deliver" THEN x.tries - 1 ELSE x.tries)

\* What an invocation under way knows of its two deliveries.
Underway(x) ==
    /\ x.tries > 0 /\ x.telegram # "none" /\ x.wake # "none"
    /\ x.telegram = "ok" => x.told
    /\ x.telegram = "failed" => x.tries \in x.telegramFailed
    /\ Wired /\ x.wake = "ok" => x.woken
    /\ Wired /\ x.wake = "failed" => x.tries \in x.wakeFailed

\* Every invocation that is over took the message, or failed, on either road.
Accounted(x, invocations) ==
    /\ x.told \/ invocations \subseteq x.telegramFailed \cup x.noToken
    /\ Wired => x.woken \/ invocations \subseteq x.wakeFailed \cup x.noToken

MessageInvariant(x) ==
    /\ x.telegramFailed \cup x.wakeFailed \cup x.noToken \subseteq 1..x.tries
    /\ x.pc = "queued" => x.tries < Attempts
    /\ x.pc = "dropped" => x.tries = Attempts
    /\ x.pc = "deliver" => Underway(x)
    /\ x.pc = "done" => x.told /\ (Wired => x.woken)
    /\ x.pc = "suppressed" => ~ShouldAnnounce(x)
    /\ x.pc # "suppressed" => Accounted(x, Over(x))

\* The state an alarm had before its i-th message.
Before(messages, i) == IF i = 1 THEN "INSUFFICIENT_DATA" ELSE messages[i - 1].new

\* The messages of an alarm tell its states one after the other.
History(messages, now) ==
    /\ Len(messages) <= MaxTransitions
    /\ now = Before(messages, Len(messages) + 1)
    /\ \A i \in 1..Len(messages) :
        /\ messages[i].old = Before(messages, i)
        /\ messages[i].new \notin {"INSUFFICIENT_DATA", messages[i].old}

RelayInvariant ==
    /\ TypeOK
    /\ \A a \in Alarms :
        /\ History(sent[a], state[a])
        /\ \A i \in 1..Len(sent[a]) : MessageInvariant(sent[a][i])
=============================================================================
