--------------------------- MODULE AlarmRelayProofs ---------------------------
(***************************************************************************)
(* What holds of AlarmRelay for every set of alarms, every number of       *)
(* attempts and every length of a history; and of AlarmWatch for every     *)
(* period, delay, number of lines and of runs that fail.                   *)
(***************************************************************************)
EXTENDS AlarmRelay, AlarmWatch, TLAPS

-----------------------------------------------------------------------------
(* One message.                                                            *)

\* An invocation that throws with every invocation accounted for.
LEMMA ThrownKeeps ==
    ASSUME NEW m \in Message, m.tries > 0,
           m.telegramFailed \cup m.wakeFailed \cup m.noToken \subseteq 1..m.tries,
           Accounted(m, 1..m.tries)
    PROVE  /\ Thrown(m) \in Message /\ MessageInvariant(Thrown(m))
           /\ Thrown(m).old = m.old /\ Thrown(m).new = m.new
  <1> DEFINE pc == IF m.tries = Attempts THEN "dropped" ELSE "queued"
             x == Thrown(m)
  <1>1. /\ x \in Message
        /\ x.old = m.old /\ x.new = m.new /\ x.tries = m.tries /\ x.pc = pc
        /\ x.told = m.told /\ x.woken = m.woken /\ x.noToken = m.noToken
        /\ x.telegramFailed = m.telegramFailed /\ x.wakeFailed = m.wakeFailed
    BY DEF Thrown, Message, Outcome
  <1>2. m.tries \in 0..Attempts /\ Attempts \in Nat
    BY RelayAssumption DEF Message
  <1> HIDE DEF x
  <1>3. x.pc # "deliver" /\ Over(x) = 1..m.tries
    BY <1>1 DEF Over
  <1>4. Accounted(x, Over(x))
    BY <1>1, <1>3 DEF Accounted
  <1>5. pc = "queued" => m.tries < Attempts
    BY <1>2
  <1>6. MessageInvariant(x)
    BY <1>1, <1>4, <1>5 DEF MessageInvariant
  <1>7. QED
    BY <1>1, <1>6 DEF x

\* A delivery that failed, whether or not the message was taken all the same.
LEMMA FailedDelivery ==
    ASSUME NEW m \in Message, MessageInvariant(m), m.pc = "deliver", NEW b \in BOOLEAN
    PROVE  /\ b \in {m.told, TRUE} =>
                /\ TelegramFailed(m, b) \in Message
                /\ MessageInvariant(TelegramFailed(m, b))
           /\ b \in {m.woken, TRUE} =>
                /\ WakeFailed(m, b) \in Message
                /\ MessageInvariant(WakeFailed(m, b))
  <1>1. /\ m.tries \in 1..Attempts /\ Underway(m) /\ Accounted(m, Over(m))
        /\ Over(m) = 1..(m.tries - 1)
        /\ m.telegramFailed \cup m.wakeFailed \cup m.noToken \subseteq 1..m.tries
    BY RelayAssumption DEF MessageInvariant, Underway, Message, Over
  <1>2. ASSUME b \in {m.told, TRUE}
        PROVE  TelegramFailed(m, b) \in Message /\ MessageInvariant(TelegramFailed(m, b))
    <2> DEFINE x == TelegramFailed(m, b)
    <2>1. /\ x \in Message
          /\ x.pc = "deliver" /\ x.tries = m.tries
          /\ x.told = b /\ x.woken = m.woken /\ x.telegram = "failed" /\ x.wake = m.wake
          /\ x.telegramFailed = m.telegramFailed \cup {m.tries}
          /\ x.wakeFailed = m.wakeFailed /\ x.noToken = m.noToken
      BY <1>1 DEF TelegramFailed, Message, Outcome
    <2>2. Over(x) = Over(m)
      BY <2>1 DEF Over
    <2>3. Accounted(x, Over(x))
      BY <1>1, <1>2, <2>1, <2>2 DEF Accounted
    <2>4. Underway(x)
      BY <1>1, <2>1 DEF Underway
    <2>5. x.telegramFailed \cup x.wakeFailed \cup x.noToken \subseteq 1..x.tries
      BY <1>1, <2>1
    <2>6. QED
      BY <2>1, <2>3, <2>4, <2>5 DEF MessageInvariant
  <1>3. ASSUME b \in {m.woken, TRUE}
        PROVE  WakeFailed(m, b) \in Message /\ MessageInvariant(WakeFailed(m, b))
    <2> DEFINE x == WakeFailed(m, b)
    <2>1. /\ x \in Message
          /\ x.pc = "deliver" /\ x.tries = m.tries
          /\ x.told = m.told /\ x.woken = b /\ x.telegram = m.telegram /\ x.wake = "failed"
          /\ x.wakeFailed = m.wakeFailed \cup {m.tries}
          /\ x.telegramFailed = m.telegramFailed /\ x.noToken = m.noToken
      BY <1>1 DEF WakeFailed, Message, Outcome
    <2>2. Over(x) = Over(m)
      BY <2>1 DEF Over
    <2>3. Accounted(x, Over(x))
      BY <1>1, <1>3, <2>1, <2>2 DEF Accounted
    <2>4. Underway(x)
      BY <1>1, <2>1 DEF Underway
    <2>5. x.telegramFailed \cup x.wakeFailed \cup x.noToken \subseteq 1..x.tries
      BY <1>1, <2>1
    <2>6. QED
      BY <2>1, <2>3, <2>4, <2>5 DEF MessageInvariant
  <1>4. QED
    BY <1>2, <1>3

\* The two failures leave everything else of a message alone.
LEMMA FailedFields ==
    ASSUME NEW m \in Message, NEW b \in BOOLEAN
    PROVE  /\ \A f \in {TelegramFailed(m, b), WakeFailed(m, b)} :
                /\ f.old = m.old /\ f.new = m.new /\ f.pc = m.pc /\ f.tries = m.tries
           /\ TelegramFailed(m, b).wake = m.wake
           /\ TelegramFailed(m, b).woken = m.woken
           /\ WakeFailed(m, b).telegram = m.telegram
           /\ TelegramFailed(m, b).telegram = "failed" /\ WakeFailed(m, b).wake = "failed"
  BY DEF TelegramFailed, WakeFailed, Message

\* With neither delivery pending, the invocation under way is accounted for too.
LEMMA AllAccounted ==
    ASSUME NEW m \in Message, MessageInvariant(m), m.pc = "deliver",
           "pending" \notin {m.telegram, m.wake}
    PROVE  Accounted(m, 1..m.tries)
  <1>1. /\ m.tries \in 1..Attempts /\ Underway(m) /\ Accounted(m, 1..(m.tries - 1))
        /\ m.telegram \in {"ok", "failed"} /\ m.wake \in {"ok", "failed"}
    BY RelayAssumption DEF MessageInvariant, Underway, Message, Over, Outcome
  <1>2. 1..m.tries = 1..(m.tries - 1) \cup {m.tries}
    BY <1>1
  <1>3. QED
    BY <1>1, <1>2 DEF Accounted, Underway

-----------------------------------------------------------------------------
(* The messages of one alarm.                                              *)

\* A history depends on the transitions its messages tell of.
LEMMA HistoryUpdated ==
    ASSUME NEW s \in Seq(Message), NEW t \in Seq(Message), NEW now,
           Len(t) = Len(s), History(s, now),
           \A j \in 1..Len(s) : t[j].old = s[j].old /\ t[j].new = s[j].new
    PROVE  History(t, now)
  <1>1. Len(s) \in Nat
    OBVIOUS
  <1>2. \A j \in 1..(Len(s) + 1) : Before(t, j) = Before(s, j)
    BY <1>1 DEF Before
  <1>3. QED
    BY <1>1, <1>2 DEF History

LEMMA HistoryAppended ==
    ASSUME NEW s \in Seq(Message), NEW now, NEW m \in Message,
           History(s, now), Len(s) < MaxTransitions,
           m.old = now, m.new \notin {"INSUFFICIENT_DATA", now}
    PROVE  History(Append(s, m), m.new)
  <1> DEFINE t == Append(s, m)
  <1>1. /\ Len(s) \in Nat /\ MaxTransitions \in Nat
        /\ Len(t) = Len(s) + 1 /\ t[Len(s) + 1] = m
        /\ \A j \in 1..Len(s) : t[j] = s[j]
    BY RelayAssumption
  <1> HIDE DEF t
  <1>2. \A j \in 1..(Len(s) + 1) : Before(t, j) = Before(s, j)
    BY <1>1 DEF Before
  <1>3. m.new = Before(t, Len(t) + 1)
    BY <1>1 DEF Before
  <1>4. ASSUME NEW j \in 1..Len(t)
        PROVE  t[j].old = Before(t, j) /\ t[j].new \notin {"INSUFFICIENT_DATA", t[j].old}
    <2>1. CASE j = Len(s) + 1
      BY <1>1, <1>2, <2>1 DEF History
    <2>2. CASE j \in 1..Len(s)
      BY <1>1, <1>2, <2>2 DEF History
    <2>3. QED
      BY <1>1, <2>1, <2>2
  <1>5. Len(t) <= MaxTransitions
    BY <1>1
  <1>6. QED
    BY <1>3, <1>4, <1>5 DEF History, t

-----------------------------------------------------------------------------
(* One step.                                                               *)

\* What the invariant says of one message.
LEMMA MessageFacts ==
    ASSUME RelayInvariant, NEW a \in Alarms
    PROVE  /\ sent \in [Alarms -> Seq(Message)] /\ sent[a] \in Seq(Message)
           /\ state \in [Alarms -> States] /\ cachedToken \in BOOLEAN
           /\ History(sent[a], state[a])
           /\ Len(sent[a]) \in Nat
           /\ \A i \in 1..Len(sent[a]) :
                sent[a][i] \in Message /\ MessageInvariant(sent[a][i])
  <1>1. sent \in [Alarms -> Seq(Message)] /\ state \in [Alarms -> States] /\ cachedToken \in BOOLEAN
    BY DEF RelayInvariant, TypeOK
  <1>2. sent[a] \in Seq(Message)
    BY <1>1
  <1>3. \A i \in 1..Len(sent[a]) : sent[a][i] \in Message
    BY <1>2
  <1>4. QED
    BY <1>1, <1>2, <1>3 DEF RelayInvariant

\* What a step has to show: for the alarm it is about, and for the others.
LEMMA InvariantFromParts ==
    ASSUME sent' \in [Alarms -> Seq(Message)], state' \in [Alarms -> States],
           cachedToken' \in BOOLEAN,
           \A a \in Alarms :
              /\ History(sent'[a], state'[a])
              /\ \A i \in 1..Len(sent'[a]) : MessageInvariant(sent'[a][i])
    PROVE  RelayInvariant'
  <1>1. \A a \in Alarms : \A i \in 1..Len(sent'[a]) :
            sent'[a][i].telegramFailed \cup sent'[a][i].wakeFailed \cup sent'[a][i].noToken
                \subseteq 1..sent'[a][i].tries
    BY DEF MessageInvariant
  <1>2. TypeOK'
    <2> SUFFICES ASSUME NEW m \in Sent'
                 PROVE  LET x == sent'[m[1]][m[2]] IN
                        x.telegramFailed \cup x.wakeFailed \cup x.noToken \subseteq 1..x.tries
      BY DEF TypeOK
    <2>1. m[1] \in Alarms /\ m[2] \in 1..MaxTransitions /\ m[2] <= Len(sent'[m[1]])
      BY DEF Sent
    <2>2. Len(sent'[m[1]]) \in Nat
      BY <2>1
    <2>3. m[2] \in 1..Len(sent'[m[1]])
      BY <2>1, <2>2, RelayAssumption
    <2>4. QED
      BY <1>1, <2>1, <2>3
  <1>3. QED
    BY <1>2 DEF RelayInvariant

\* A message put in the place of itself.
LEMMA UpdateKeeps ==
    ASSUME RelayInvariant, NEW a \in Alarms, NEW i \in 1..Len(sent[a]),
           NEW m \in Message, MessageInvariant(m),
           m.old = sent[a][i].old, m.new = sent[a][i].new,
           Update(a, i, m), UNCHANGED state, cachedToken' \in BOOLEAN
    PROVE  RelayInvariant'
  <1> DEFINE t == [sent[a] EXCEPT ![i] = m]
  <1>1. sent \in [Alarms -> Seq(Message)] /\ sent[a] \in Seq(Message) /\ Len(sent[a]) \in Nat
    BY MessageFacts
  <1>2. sent' = [sent EXCEPT ![a] = t]
    BY <1>1 DEF Update
  <1>3. /\ t \in Seq(Message) /\ Len(t) = Len(sent[a])
        /\ \A j \in 1..Len(sent[a]) : t[j] = IF j = i THEN m ELSE sent[a][j]
    BY <1>1
  <1> HIDE DEF t
  <1>4. sent' \in [Alarms -> Seq(Message)] /\ sent'[a] = t
    BY <1>1, <1>2, <1>3
  <1>5. History(t, state[a])
    BY <1>1, <1>3, MessageFacts, HistoryUpdated
  <1>6. \A j \in 1..Len(t) : MessageInvariant(t[j])
    BY <1>3, MessageFacts
  <1>7. ASSUME NEW b \in Alarms
        PROVE  /\ History(sent'[b], state'[b])
               /\ \A j \in 1..Len(sent'[b]) : MessageInvariant(sent'[b][j])
    <2>1. CASE b = a
      BY <1>4, <1>5, <1>6, <2>1
    <2>2. CASE b # a
      BY <1>1, <1>2, <2>2, MessageFacts
    <2>3. QED
      BY <2>1, <2>2
  <1>8. state' \in [Alarms -> States]
    BY MessageFacts
  <1>9. QED
    BY <1>4, <1>7, <1>8, InvariantFromParts

LEMMA TransitionKeeps ==
    ASSUME RelayInvariant, NEW a \in Alarms, Transition(a)
    PROVE  RelayInvariant'
  <1>1. /\ sent \in [Alarms -> Seq(Message)] /\ sent[a] \in Seq(Message)
        /\ state \in [Alarms -> States] /\ cachedToken \in BOOLEAN
        /\ Len(sent[a]) \in Nat /\ Len(sent[a]) < MaxTransitions
    BY MessageFacts DEF Transition
  <1>2. PICK new \in {"OK", "ALARM"} \ {state[a]} :
            /\ state' = [state EXCEPT ![a] = new]
            /\ sent' = [sent EXCEPT ![a] = Append(@, NewMessage(state[a], new))]
    BY DEF Transition
  <1> DEFINE m == NewMessage(state[a], new)
             t == Append(sent[a], m)
  <1>3. m \in Message
    BY <1>1, <1>2, RelayAssumption DEF NewMessage, Message, States, Outcome
  <1>4. m.old = state[a] /\ m.new = new /\ MessageInvariant(m)
    <2>1. /\ m.pc = "queued" /\ m.tries = 0 /\ m.telegramFailed = {} /\ m.wakeFailed = {}
          /\ m.noToken = {} /\ m.old = state[a] /\ m.new = new
      BY DEF NewMessage
    <2>2. 0 < Attempts /\ 1..0 = {}
      BY RelayAssumption
    <2>3. QED
      BY <2>1, <2>2 DEF MessageInvariant, Accounted, Over
  <1> HIDE DEF m
  <1>5. /\ sent' = [sent EXCEPT ![a] = t] /\ t \in Seq(Message)
        /\ Len(t) = Len(sent[a]) + 1 /\ t[Len(sent[a]) + 1] = m
        /\ \A j \in 1..Len(sent[a]) : t[j] = sent[a][j]
    BY <1>1, <1>2, <1>3 DEF m
  <1>6. History(t, new)
    BY <1>1, <1>2, <1>3, <1>4, MessageFacts, HistoryAppended
  <1> HIDE DEF t
  <1>7. sent' \in [Alarms -> Seq(Message)] /\ state' \in [Alarms -> States]
    BY <1>1, <1>2, <1>5 DEF States
  <1>8. \A j \in 1..Len(t) : MessageInvariant(t[j])
    <2> SUFFICES ASSUME NEW j \in 1..Len(t) PROVE MessageInvariant(t[j])
      OBVIOUS
    <2>1. j \in 1..Len(sent[a]) \/ j = Len(sent[a]) + 1
      BY <1>1, <1>5
    <2>2. QED
      BY <1>4, <1>5, <2>1, MessageFacts
  <1>9. ASSUME NEW b \in Alarms
        PROVE  /\ History(sent'[b], state'[b])
               /\ \A j \in 1..Len(sent'[b]) : MessageInvariant(sent'[b][j])
    <2>1. CASE b = a
      <3>1. sent'[b] = t /\ state'[b] = new
        BY <1>1, <1>2, <1>5, <2>1
      <3>2. QED
        BY <1>6, <1>8, <3>1
    <2>2. CASE b # a
      <3>1. sent'[b] = sent[b] /\ state'[b] = state[b]
        BY <1>1, <1>2, <1>5, <2>2
      <3>2. QED
        BY <3>1, MessageFacts
    <2>3. QED
      BY <2>1, <2>2
  <1>10. QED
    BY <1>1, <1>7, <1>9, InvariantFromParts DEF Transition

\* The handler up to its deliveries.
LEMMA InvokeKeeps ==
    ASSUME RelayInvariant, NEW a \in Alarms, NEW i \in 1..Len(sent[a]), Invoke(a, i)
    PROVE  RelayInvariant'
  <1> DEFINE old == sent[a][i]
             m == [old EXCEPT !.tries = @ + 1]
  <1>1. /\ old \in Message /\ MessageInvariant(old) /\ old.pc = "queued"
        /\ old.tries \in Nat /\ old.tries < Attempts /\ Attempts \in Nat
        /\ Accounted(old, 1..old.tries)
        /\ old.telegramFailed \cup old.wakeFailed \cup old.noToken \subseteq 1..old.tries
    <2>1. old \in Message /\ MessageInvariant(old) /\ old.pc = "queued"
      BY MessageFacts DEF Invoke
    <2>2. old.tries \in Nat /\ old.tries < Attempts /\ Attempts \in Nat
      BY <2>1, RelayAssumption DEF MessageInvariant, Message
    <2>3. Over(old) = 1..old.tries
      BY <2>1 DEF Over
    <2>4. QED
      BY <2>1, <2>2, <2>3 DEF MessageInvariant
  <1>2. /\ m \in Message /\ m.tries = old.tries + 1 /\ m.pc = "queued"
        /\ m.told = old.told /\ m.woken = old.woken /\ m.noToken = old.noToken
        /\ m.telegramFailed = old.telegramFailed /\ m.wakeFailed = old.wakeFailed
        /\ m.old = old.old /\ m.new = old.new
    BY <1>1 DEF Message
  <1>3. m.telegramFailed \cup m.wakeFailed \cup m.noToken \subseteq 1..m.tries
    BY <1>1, <1>2
  <1>4. Accounted(m, 1..(m.tries - 1))
    BY <1>1, <1>2 DEF Accounted
  <1> HIDE DEF m
  <1>5. UNCHANGED state /\ cachedToken' \in BOOLEAN
    BY MessageFacts DEF Invoke
  <1>6. CASE ShouldAnnounce(m) /\ Update(a, i, [m EXCEPT !.pc = "deliver", !.telegram = "pending",
                                         !.wake = IF Wired THEN "pending" ELSE "ok"])
    <2> DEFINE x == [m EXCEPT !.pc = "deliver", !.telegram = "pending",
                              !.wake = IF Wired THEN "pending" ELSE "ok"]
    <2>1. /\ x \in Message /\ x.old = m.old /\ x.new = m.new
          /\ x.pc = "deliver" /\ x.telegram = "pending"
          /\ x.wake = (IF Wired THEN "pending" ELSE "ok") /\ x.tries = m.tries
          /\ x.told = m.told /\ x.woken = m.woken /\ x.noToken = m.noToken
          /\ x.telegramFailed = m.telegramFailed /\ x.wakeFailed = m.wakeFailed
      BY <1>2 DEF Message, Outcome
    <2>2. Over(x) = 1..(m.tries - 1)
      BY <2>1 DEF Over
    <2>3. Accounted(x, Over(x))
      BY <1>4, <2>1, <2>2 DEF Accounted
    <2>4. Underway(x)
      BY <1>1, <1>2, <2>1, RelayAssumption DEF Underway
    <2>5. MessageInvariant(x)
      BY <1>3, <2>1, <2>3, <2>4 DEF MessageInvariant
    <2>6. QED
      BY <1>2, <1>5, <1>6, <2>1, <2>5, UpdateKeeps
  <1>7. CASE ~ShouldAnnounce(m) /\ Update(a, i, [m EXCEPT !.pc = "suppressed"])
    <2> DEFINE x == [m EXCEPT !.pc = "suppressed"]
    <2>1. /\ x \in Message /\ x.old = m.old /\ x.new = m.new
          /\ x.pc = "suppressed" /\ x.tries = m.tries /\ x.noToken = m.noToken
          /\ x.telegramFailed = m.telegramFailed /\ x.wakeFailed = m.wakeFailed
      BY <1>2 DEF Message
    <2>2. ~ShouldAnnounce(x)
      BY <1>7, <2>1 DEF ShouldAnnounce
    <2>3. MessageInvariant(x)
      BY <1>3, <2>1, <2>2 DEF MessageInvariant
    <2>4. QED
      BY <1>2, <1>5, <1>7, <2>1, <2>3, UpdateKeeps
  <1>8. CASE Update(a, i, Thrown([m EXCEPT !.noToken = @ \cup {m.tries}]))
    <2> DEFINE x == [m EXCEPT !.noToken = @ \cup {m.tries}]
    <2>1. m.tries \in 1..Attempts
      BY <1>1, <1>2
    <2>2. /\ x \in Message /\ x.old = m.old /\ x.new = m.new /\ x.tries = m.tries
          /\ x.told = m.told /\ x.woken = m.woken
          /\ x.noToken = m.noToken \cup {m.tries}
          /\ x.telegramFailed = m.telegramFailed /\ x.wakeFailed = m.wakeFailed
      BY <1>2, <2>1 DEF Message
    <2>3. 1..m.tries = 1..(m.tries - 1) \cup {m.tries}
      BY <2>1
    <2>4. Accounted(x, 1..x.tries)
      BY <1>4, <2>2, <2>3 DEF Accounted
    <2>5. x.telegramFailed \cup x.wakeFailed \cup x.noToken \subseteq 1..x.tries /\ x.tries > 0
      BY <1>3, <2>1, <2>2
    <2> HIDE DEF x
    <2>6. /\ Thrown(x) \in Message /\ MessageInvariant(Thrown(x))
          /\ Thrown(x).old = x.old /\ Thrown(x).new = x.new
      BY <2>2, <2>4, <2>5, ThrownKeeps DEF Message
    <2>7. Update(a, i, Thrown(x))
      BY <1>8 DEF x
    <2>8. QED
      BY <1>2, <1>5, <2>2, <2>6, <2>7, UpdateKeeps
  <1>9. QED
    BY <1>6, <1>7, <1>8 DEF Invoke, m

LEMMA DeliveryKeeps ==
    ASSUME RelayInvariant, NEW a \in Alarms, NEW i \in 1..Len(sent[a]),
           Telegram(a, i) \/ WakeAgent(a, i)
    PROVE  RelayInvariant'
  <1> DEFINE m == sent[a][i]
  <1>1. /\ m \in Message /\ MessageInvariant(m) /\ m.pc = "deliver"
        /\ m.told \in BOOLEAN /\ m.woken \in BOOLEAN
    <2>1. m \in Message /\ MessageInvariant(m) /\ m.pc = "deliver"
      BY MessageFacts DEF Telegram, WakeAgent
    <2>2. QED
      BY <2>1 DEF Message
  <1>2. UNCHANGED state /\ cachedToken' \in BOOLEAN
    BY MessageFacts DEF Telegram, WakeAgent
  <1>3. Underway(m) /\ Accounted(m, Over(m))
    BY <1>1 DEF MessageInvariant
  <1>4. CASE Update(a, i, [m EXCEPT !.telegram = "ok", !.told = TRUE])
    <2> DEFINE x == [m EXCEPT !.telegram = "ok", !.told = TRUE]
    <2>1. /\ x \in Message /\ x.old = m.old /\ x.new = m.new /\ x.pc = "deliver"
          /\ x.tries = m.tries /\ x.telegram = "ok" /\ x.wake = m.wake
          /\ x.told /\ x.woken = m.woken /\ x.noToken = m.noToken
          /\ x.telegramFailed = m.telegramFailed /\ x.wakeFailed = m.wakeFailed
      BY <1>1 DEF Message, Outcome
    <2>2. Over(x) = Over(m)
      BY <1>1, <2>1 DEF Over
    <2>3. Accounted(x, Over(x)) /\ Underway(x)
      BY <1>3, <2>1, <2>2 DEF Accounted, Underway
    <2>4. MessageInvariant(x)
      BY <1>1, <2>1, <2>3 DEF MessageInvariant
    <2>5. QED
      BY <1>2, <1>4, <2>1, <2>4, UpdateKeeps
  <1>5. CASE Update(a, i, [m EXCEPT !.wake = "ok", !.woken = TRUE])
    <2> DEFINE x == [m EXCEPT !.wake = "ok", !.woken = TRUE]
    <2>1. /\ x \in Message /\ x.old = m.old /\ x.new = m.new /\ x.pc = "deliver"
          /\ x.tries = m.tries /\ x.telegram = m.telegram /\ x.wake = "ok"
          /\ x.told = m.told /\ x.woken /\ x.noToken = m.noToken
          /\ x.telegramFailed = m.telegramFailed /\ x.wakeFailed = m.wakeFailed
      BY <1>1 DEF Message, Outcome
    <2>2. Over(x) = Over(m)
      BY <1>1, <2>1 DEF Over
    <2>3. Accounted(x, Over(x)) /\ Underway(x)
      BY <1>3, <2>1, <2>2 DEF Accounted, Underway
    <2>4. MessageInvariant(x)
      BY <1>1, <2>1, <2>3 DEF MessageInvariant
    <2>5. QED
      BY <1>2, <1>5, <2>1, <2>4, UpdateKeeps
  <1>6. ASSUME NEW b \in {m.told, TRUE}, Update(a, i, TelegramFailed(m, b))
        PROVE  RelayInvariant'
    <2>1. /\ TelegramFailed(m, b) \in Message /\ MessageInvariant(TelegramFailed(m, b))
          /\ TelegramFailed(m, b).old = m.old /\ TelegramFailed(m, b).new = m.new
      <3>1. b \in BOOLEAN
        BY <1>1, <1>6
      <3>2. TelegramFailed(m, b) \in Message /\ MessageInvariant(TelegramFailed(m, b))
        BY <1>1, <1>6, <3>1, FailedDelivery, Zenon
      <3>3. QED
        BY <1>1, <3>1, <3>2, FailedFields, Zenon
    <2>2. QED
      BY <1>2, <1>6, <2>1, UpdateKeeps
  <1>7. ASSUME NEW b \in {m.woken, TRUE}, Update(a, i, WakeFailed(m, b))
        PROVE  RelayInvariant'
    <2>1. /\ WakeFailed(m, b) \in Message /\ MessageInvariant(WakeFailed(m, b))
          /\ WakeFailed(m, b).old = m.old /\ WakeFailed(m, b).new = m.new
      <3>1. b \in BOOLEAN
        BY <1>1, <1>7
      <3>2. WakeFailed(m, b) \in Message /\ MessageInvariant(WakeFailed(m, b))
        BY <1>1, <1>7, <3>1, FailedDelivery, Zenon
      <3>3. QED
        BY <1>1, <3>1, <3>2, FailedFields, Zenon
    <2>2. QED
      BY <1>2, <1>7, <2>1, UpdateKeeps
  <1>8. QED
    BY <1>4, <1>5, <1>6, <1>7 DEF Telegram, WakeAgent

\* The timeout: what was still pending has failed, then the invocation throws.
LEMMA TimesOutKeeps ==
    ASSUME RelayInvariant, NEW a \in Alarms, NEW i \in 1..Len(sent[a]), TimesOut(a, i)
    PROVE  RelayInvariant'
  <1> DEFINE m == sent[a][i]
             t == IF m.telegram = "pending" THEN TelegramFailed(m, m.told) ELSE m
             w == IF m.wake = "pending" THEN WakeFailed(t, m.woken) ELSE t
  <1>1. /\ m \in Message /\ MessageInvariant(m) /\ m.pc = "deliver"
        /\ m.told \in BOOLEAN /\ m.woken \in BOOLEAN
        /\ m.telegram # "none" /\ m.wake # "none"
    <2>1. m \in Message /\ MessageInvariant(m) /\ m.pc = "deliver"
      BY MessageFacts DEF TimesOut
    <2>2. QED
      BY <2>1 DEF Message, MessageInvariant, Underway
  <1>2. /\ t \in Message /\ MessageInvariant(t) /\ t.pc = "deliver"
        /\ t.old = m.old /\ t.new = m.new /\ t.wake = m.wake /\ t.woken = m.woken
        /\ t.telegram # "pending"
    <2>1. CASE m.telegram = "pending"
      <3> DEFINE f == TelegramFailed(m, m.told)
      <3>1. /\ f.old = m.old /\ f.new = m.new /\ f.pc = m.pc
            /\ f.wake = m.wake /\ f.woken = m.woken /\ f.telegram = "failed"
        BY <1>1, FailedFields, Zenon
      <3>2. f \in Message /\ MessageInvariant(f)
        BY <1>1, FailedDelivery, Zenon
      <3>3. t = f
        BY <2>1
      <3> HIDE DEF f, t
      <3>4. QED
        BY <1>1, <3>1, <3>2, <3>3
    <2>2. CASE m.telegram # "pending"
      BY <1>1, <2>2
    <2>3. QED
      BY <2>1, <2>2
  <1> HIDE DEF t
  <1>3. /\ w \in Message /\ MessageInvariant(w) /\ w.pc = "deliver"
        /\ w.old = m.old /\ w.new = m.new /\ "pending" \notin {w.telegram, w.wake}
    <2>1. CASE m.wake = "pending"
      <3> DEFINE f == WakeFailed(t, m.woken)
      <3>1. /\ f.old = t.old /\ f.new = t.new /\ f.pc = t.pc
            /\ f.telegram = t.telegram /\ f.wake = "failed"
        BY <1>1, <1>2, FailedFields, Zenon
      <3>2. f \in Message /\ MessageInvariant(f)
        <4>1. m.woken \in {t.woken, TRUE}
          BY <1>2
        <4>2. QED
          BY <1>1, <1>2, <4>1, FailedDelivery, Zenon
      <3>3. w = f
        BY <2>1
      <3> HIDE DEF f, w
      <3>4. QED
        BY <1>2, <3>1, <3>2, <3>3
    <2>2. CASE m.wake # "pending"
      BY <1>2, <2>2
    <2>3. QED
      BY <2>1, <2>2
  <1>4. Update(a, i, Thrown(w)) /\ UNCHANGED state /\ cachedToken' \in BOOLEAN
    BY MessageFacts DEF TimesOut, t
  <1> HIDE DEF w
  <1>5. /\ Accounted(w, 1..w.tries) /\ w.tries > 0
        /\ w.telegramFailed \cup w.wakeFailed \cup w.noToken \subseteq 1..w.tries
    BY <1>3, AllAccounted DEF MessageInvariant, Underway
  <1>6. /\ Thrown(w) \in Message /\ MessageInvariant(Thrown(w))
        /\ Thrown(w).old = m.old /\ Thrown(w).new = m.new
    BY <1>3, <1>5, ThrownKeeps
  <1>7. QED
    BY <1>4, <1>6, UpdateKeeps

LEMMA SettleKeeps ==
    ASSUME RelayInvariant, NEW a \in Alarms, NEW i \in 1..Len(sent[a]), Settle(a, i)
    PROVE  RelayInvariant'
  <1> DEFINE m == sent[a][i]
  <1>1. /\ m \in Message /\ MessageInvariant(m) /\ m.pc = "deliver" /\ Underway(m)
        /\ "pending" \notin {m.telegram, m.wake}
    BY MessageFacts DEF Settle, MessageInvariant
  <1>2. /\ Accounted(m, 1..m.tries) /\ m.tries > 0
        /\ m.telegramFailed \cup m.wakeFailed \cup m.noToken \subseteq 1..m.tries
    BY <1>1, AllAccounted DEF MessageInvariant, Underway
  <1>3. UNCHANGED state /\ cachedToken' \in BOOLEAN
    BY MessageFacts DEF Settle
  <1>4. CASE Update(a, i, Thrown(m))
    BY <1>1, <1>2, <1>3, <1>4, ThrownKeeps, UpdateKeeps
  <1>5. CASE "failed" \notin {m.telegram, m.wake} /\ Update(a, i, [m EXCEPT !.pc = "done"])
    <2> DEFINE x == [m EXCEPT !.pc = "done"]
    <2>1. /\ x \in Message /\ x.old = m.old /\ x.new = m.new /\ x.pc = "done"
          /\ x.tries = m.tries /\ x.told = m.told /\ x.woken = m.woken
          /\ x.noToken = m.noToken
          /\ x.telegramFailed = m.telegramFailed /\ x.wakeFailed = m.wakeFailed
      BY <1>1 DEF Message
    <2>2. m.telegram = "ok" /\ m.wake = "ok"
      BY <1>1, <1>5 DEF Message, Outcome, Underway
    <2>3. x.told /\ (Wired => x.woken)
      BY <1>1, <2>1, <2>2 DEF Underway
    <2>4. Accounted(x, Over(x))
      BY <2>3 DEF Accounted
    <2>5. MessageInvariant(x)
      BY <1>2, <2>1, <2>3, <2>4 DEF MessageInvariant
    <2>6. QED
      BY <1>3, <1>5, <2>1, <2>5, UpdateKeeps
  <1>6. QED
    BY <1>4, <1>5 DEF Settle

-----------------------------------------------------------------------------
(* The theorems.                                                           *)

LEMMA RelayInit == ASSUME Init PROVE RelayInvariant
  <1>1. sent \in [Alarms -> Seq(Message)]
    <2>1. <<>> \in Seq(Message)
      OBVIOUS
    <2>2. QED
      BY <2>1 DEF Init
  <1>2. state \in [Alarms -> States] /\ cachedToken \in BOOLEAN
    BY DEF Init, States
  <1>3. \A a \in Alarms : sent[a] = <<>> /\ state[a] = "INSUFFICIENT_DATA"
    BY DEF Init
  <1>4. History(<<>>, "INSUFFICIENT_DATA")
    <2>1. Len(<<>>) = 0 /\ 0 <= MaxTransitions /\ 1..0 = {}
      BY RelayAssumption
    <2>2. QED
      BY <2>1 DEF History, Before
  <1>5. \A a \in Alarms : Len(sent[a]) = 0
    <2>1. Len(<<>>) = 0
      OBVIOUS
    <2>2. QED
      BY <1>3, <2>1, Zenon
  <1>6. Sent = {}
    BY <1>5 DEF Sent
  <1>7. QED
    BY <1>1, <1>2, <1>3, <1>4, <1>5, <1>6 DEF RelayInvariant, TypeOK

LEMMA SentFacts ==
    ASSUME RelayInvariant, NEW m \in Sent
    PROVE  m[1] \in Alarms /\ m[2] \in 1..Len(sent[m[1]])
  <1>1. m[1] \in Alarms /\ m[2] \in 1..MaxTransitions /\ m[2] <= Len(sent[m[1]])
    BY DEF Sent
  <1>2. Len(sent[m[1]]) \in Nat
    BY <1>1, MessageFacts
  <1>3. QED
    BY <1>1, <1>2, RelayAssumption

LEMMA RelayStep == ASSUME RelayInvariant, [Next]_vars PROVE RelayInvariant'
  <1>1. CASE \E a \in Alarms : Transition(a)
    BY <1>1, TransitionKeeps
  <1>2. ASSUME NEW m \in Sent,
               \/ Invoke(m[1], m[2]) \/ Telegram(m[1], m[2])
               \/ WakeAgent(m[1], m[2]) \/ TimesOut(m[1], m[2]) \/ Settle(m[1], m[2])
        PROVE  RelayInvariant'
    <2>1. m[1] \in Alarms /\ m[2] \in 1..Len(sent[m[1]])
      BY SentFacts
    <2>2. QED
      BY <1>2, <2>1, InvokeKeeps, DeliveryKeeps, TimesOutKeeps, SettleKeeps
  <1>3. CASE Recycle
    <2>1. UNCHANGED <<state, sent>> /\ cachedToken' \in BOOLEAN
      BY <1>3 DEF Recycle
    <2>2. QED
      BY <2>1 DEF RelayInvariant, TypeOK, Sent
  <1>4. CASE UNCHANGED vars
    BY <1>4 DEF vars, RelayInvariant, TypeOK, Sent
  <1>5. QED
    BY <1>1, <1>2, <1>3, <1>4 DEF Next

\* Every message keeps its account, whatever fails, times out or is retried.
THEOREM RelayInvariantHolds == Spec => []RelayInvariant
  BY RelayInit, RelayStep, PTL DEF Spec

\* Messages, their invocations and the history of their failures are what
\* announce.js, wake.js and Lambda's retries make of them.
THEOREM RelayTypes == Spec => []TypeOK
  <1>1. RelayInvariant => TypeOK
    BY DEF RelayInvariant
  <1>2. QED
    BY <1>1, RelayInvariantHolds, PTL

\* Promise.allSettled, then the throw: a message counted as relayed was taken on
\* both roads, and one given up on a road failed there at every attempt that got
\* as far as the deliveries, for any number of attempts.
THEOREM NeitherRoadEverGivenUp == Spec => []NeitherRoadGivenUp
  <1>1. RelayInvariant => NeitherRoadGivenUp
    <2> SUFFICES ASSUME RelayInvariant, NEW m \in Sent
                 PROVE  LET x == sent[m[1]][m[2]] IN
                        /\ x.pc = "done" => x.told /\ (Wired => x.woken)
                        /\ x.pc = "dropped" =>
                            /\ x.told \/ x.telegramFailed \cup x.noToken = 1..Attempts
                            /\ Wired => x.woken \/ x.wakeFailed \cup x.noToken = 1..Attempts
      BY DEF NeitherRoadGivenUp, NeverSilent, BothTried
    <2> DEFINE x == sent[m[1]][m[2]]
    <2>1. m[1] \in Alarms /\ m[2] \in 1..Len(sent[m[1]])
      BY SentFacts
    <2>2. MessageInvariant(x)
      BY <2>1 DEF RelayInvariant
    <2>3. ASSUME x.pc = "dropped"
          PROVE  /\ x.tries = Attempts /\ Accounted(x, 1..Attempts)
                 /\ x.telegramFailed \cup x.wakeFailed \cup x.noToken \subseteq 1..Attempts
      BY <2>2, <2>3 DEF MessageInvariant, Over
    <2>4. QED
      BY <2>2, <2>3 DEF MessageInvariant, Accounted
  <1>2. QED
    BY <1>1, RelayInvariantHolds, PTL

\* shouldAnnounce decides from the message alone, and yet no recovery from an
\* announced incident is withheld, however many messages overtake each other.
THEOREM RecoveryAlwaysAnnounced == Spec => []RecoveryAnnounced
  <1>1. RelayInvariant => RecoveryAnnounced
    <2> SUFFICES ASSUME RelayInvariant, NEW m \in Sent,
                        sent[m[1]][m[2]].pc = "suppressed",
                        NEW i \in 1..(m[2] - 1)
                 PROVE  sent[m[1]][i].new # "ALARM"
      BY DEF RecoveryAnnounced
    <2> DEFINE x == sent[m[1]][m[2]]
    <2>1. m[1] \in Alarms /\ m[2] \in 1..Len(sent[m[1]])
      BY SentFacts
    <2>2. /\ History(sent[m[1]], state[m[1]]) /\ MessageInvariant(x)
          /\ \A j \in 1..Len(sent[m[1]]) : sent[m[1]][j] \in Message
          /\ Len(sent[m[1]]) \in Nat
      BY <2>1, MessageFacts
    <2>3. x.new = "OK" /\ x.old # "ALARM"
      BY <2>2 DEF MessageInvariant, ShouldAnnounce
    <2>4. m[2] - 1 \in 1..Len(sent[m[1]]) /\ m[2] # 1
      BY <2>1, <2>2
    <2>5. /\ x.old = sent[m[1]][m[2] - 1].new /\ x.new # x.old
          /\ sent[m[1]][m[2] - 1].new \in {"OK", "ALARM"}
      BY <2>1, <2>2, <2>4 DEF History, Before, Message, States
    <2>6. QED
      BY <2>3, <2>5
  <1>2. QED
    BY <1>1, RelayInvariantHolds, PTL
-----------------------------------------------------------------------------
(* What rings an alarm: periods, and what one gathers.                     *)

LEMMA Periods ==
    ASSUME NEW t \in Nat
    PROVE  /\ t \div Step \in Nat /\ t % Step \in Nat
           /\ (t \div Step) * Step <= t
           /\ (t + 1) % Step # 0 => (t + 1) \div Step = t \div Step
           /\ (t + 1) % Step = 0 => t \div Step < (t + 1) \div Step
  <1>1. Step \in Nat /\ Step > 0
    BY WatchAssumption
  <1>2. t \div Step \in Nat /\ t % Step \in Nat
    BY <1>1
  <1>3. (t \div Step) * Step <= t
    BY <1>1
  <1>4. ASSUME (t + 1) % Step # 0 PROVE (t + 1) \div Step = t \div Step
    BY <1>1, <1>4
  <1>5. ASSUME (t + 1) % Step = 0 PROVE t \div Step < (t + 1) \div Step
    BY <1>1, <1>5
  <1>6. QED
    BY <1>2, <1>3, <1>4, <1>5

Run == [tick: Nat, at: Nat, try: Nat]

LEMMA NothingFacts ==
    Nothing \in Gathering /\ Nothing.point = Missing /\ Nothing.errors = 0 /\ ~Nothing.started
      /\ Nothing.total = 0 /\ Nothing.tenantApp = 0 /\ Nothing.upstream = 0
      /\ Nothing.ours = 0 /\ Nothing.theirs = 0 /\ Nothing.lines = 0
  BY DEF Nothing, Gathering

LEMMA BegunFacts ==
    ASSUME NEW p \in Gathering, NEW r \in Run
    PROVE  /\ Begun(p, r) \in Gathering
           /\ Begun(p, r).point = p.point /\ Begun(p, r).errors = p.errors
           /\ Begun(p, r).ticked = p.ticked
           /\ Begun(p, r).strayed <=> (p.strayed \/ r.tick # Now)
           /\ LinesSorted(p) => LinesSorted(Begun(p, r))
  <1> DEFINE s == p.started \/ (r.tick = Now /\ r.try = 0)
             t == p.strayed \/ r.tick # Now
  <1>1. s \in BOOLEAN /\ t \in BOOLEAN
    OBVIOUS
  <1>2. Begun(p, r) = [p EXCEPT !.started = s, !.strayed = t]
    BY DEF Begun
  <1>3. t <=> p.strayed \/ r.tick # Now
    OBVIOUS
  <1> HIDE DEF s, t
  <1>4. /\ Begun(p, r) \in Gathering
        /\ Begun(p, r).point = p.point /\ Begun(p, r).errors = p.errors
        /\ Begun(p, r).ticked = p.ticked /\ Begun(p, r).strayed = t
        /\ Begun(p, r).total = p.total /\ Begun(p, r).tenantApp = p.tenantApp
        /\ Begun(p, r).upstream = p.upstream /\ Begun(p, r).ours = p.ours
        /\ Begun(p, r).theirs = p.theirs /\ Begun(p, r).lines = p.lines
    BY <1>1, <1>2 DEF Gathering
  <1>5. QED
    BY <1>3, <1>4 DEF LinesSorted

\* A copy finds its bucket as it will stay.
LEMMA CopyFinds ==
    ASSUME WatchShape
    PROVE  Value(BucketOf(clock)) = IF BucketOf(clock) \in world.broken THEN 1 ELSE Missing
  <1>1. clock \in Nat /\ Step \in Nat /\ world.publishing \in 0..Step
    BY WatchAssumption DEF WatchShape
  <1> DEFINE k == clock \div Step
  <1>2. k \in Nat /\ k * Step <= clock
    BY <1>1, Periods
  <1>3. BucketOf(clock) = k - 2
    BY DEF BucketOf
  <1> HIDE DEF k
  <1>4. (k - 2 + 1) * Step = k * Step - Step
    BY <1>1, <1>2
  <1>5. k * Step \in Int
    BY <1>1, <1>2
  <1>6. clock >= (k - 2 + 1) * Step + world.publishing
    BY <1>1, <1>2, <1>4, <1>5
  <1>7. QED
    BY <1>3, <1>6 DEF Value

LEMMA PublishedFacts ==
    ASSUME WatchShape, NEW p \in Gathering
    PROVE  /\ Published(p) \in Gathering
           /\ Published(p).point = IF BucketOf(clock) \in world.broken
                                   THEN (IF p.point = Missing THEN 1 ELSE p.point + 1)
                                   ELSE p.point
           /\ Published(p).errors = p.errors /\ Published(p).ticked = p.ticked
           /\ Published(p).strayed = p.strayed
           /\ LinesSorted(p) => LinesSorted(Published(p))
  <1>1. CASE BucketOf(clock) \notin world.broken
    <2>1. Published(p) = p
      BY <1>1, CopyFinds DEF Published
    <2>2. QED
      BY <1>1, <2>1
  <1>2. CASE BucketOf(clock) \in world.broken
    <2> DEFINE n == IF p.point = Missing THEN 1 ELSE p.point + 1
    <2>1. n \in Nat \ {0}
      BY DEF Gathering, Missing
    <2>2. Published(p) = [p EXCEPT !.point = n]
      BY <1>2, CopyFinds DEF Published, Missing
    <2> HIDE DEF n
    <2>3. /\ Published(p) \in Gathering /\ Published(p).point = n
          /\ Published(p).errors = p.errors /\ Published(p).ticked = p.ticked
          /\ Published(p).strayed = p.strayed
          /\ Published(p).total = p.total /\ Published(p).tenantApp = p.tenantApp
          /\ Published(p).upstream = p.upstream /\ Published(p).ours = p.ours
          /\ Published(p).theirs = p.theirs /\ Published(p).lines = p.lines
      BY <2>1, <2>2 DEF Gathering
    <2>4. QED
      BY <1>2, <2>3 DEF LinesSorted, n
  <1>3. QED
    BY <1>1, <1>2

LEMMA FailedFacts ==
    ASSUME NEW p \in Gathering
    PROVE  /\ Failed(p) \in Gathering /\ Failed(p).errors > 0
           /\ Failed(p).point = p.point /\ Failed(p).ticked = p.ticked
           /\ LinesSorted(p) => LinesSorted(Failed(p))
  <1>1. /\ Failed(p) \in Gathering /\ Failed(p).errors = p.errors + 1 /\ p.errors \in Nat
        /\ Failed(p).point = p.point /\ Failed(p).ticked = p.ticked
        /\ Failed(p).total = p.total /\ Failed(p).tenantApp = p.tenantApp
        /\ Failed(p).upstream = p.upstream /\ Failed(p).ours = p.ours
        /\ Failed(p).theirs = p.theirs /\ Failed(p).lines = p.lines
    BY DEF Gathering, Failed
  <1>2. QED
    BY <1>1 DEF LinesSorted

-----------------------------------------------------------------------------
(* What rings an alarm: the steps within a period.                         *)

Broken == BucketOf(clock) \in world.broken

LEMMA WithinPeriod ==
    ASSUME WatchInvariant, UNCHANGED <<road, clock, world, closed, alarm>>,
           troubles' \in Nat, runs' \in SUBSET Run, period' \in Gathering,
           road = "gateway" => runs' = {} /\ period'.point = Missing /\ ~period'.started,
           RunsInOrder', CopiedOnce', CopiesTell(period', Broken), LinesSorted(period')
    PROVE  WatchInvariant'
  <1>1. WatchShape'
    BY DEF WatchInvariant, WatchShape, Run
  <1>2. CopiesTell(period, BucketOf(clock) \in world.broken)'
    BY DEF CopiesTell, BucketOf, Broken
  <1>3. CopiesTell(closed, closed.breach)' /\ Judgements'
    BY DEF WatchInvariant, CopiesTell, Judgements, EachFaultRingsItsOwn
  <1>4. LinesSorted(period)'
    BY DEF LinesSorted
  <1>5. QED
    BY <1>1, <1>2, <1>3, <1>4 DEF WatchInvariant

LEMMA WatchParts ==
    ASSUME WatchInvariant
    PROVE  /\ clock \in Nat /\ Now \in Nat /\ troubles \in Nat /\ runs \in SUBSET Run
           /\ period \in Gathering /\ closed \in Gathering
           /\ CopiesTell(period, Broken)
  BY Periods DEF WatchInvariant, WatchShape, Run, Now, Broken

LEMMA TickKeeps ==
    ASSUME WatchInvariant, Tick
    PROVE  WatchInvariant'
  <1>1. /\ UNCHANGED <<road, clock, world, closed, alarm>>
        /\ road = "edge" /\ ~period.ticked
        /\ period' = [period EXCEPT !.ticked = TRUE]
        /\ clock \in Nat /\ Now \in Nat /\ troubles \in Nat /\ runs \in SUBSET Run
        /\ period \in Gathering /\ MaxDelay \in Nat
    BY WatchParts, WatchAssumption DEF Tick, TickDue
  <1>2. /\ period' \in Gathering /\ period'.ticked
        /\ period'.point = period.point /\ period'.errors = period.errors
        /\ period'.started = period.started /\ period'.strayed = period.strayed
        /\ period'.total = period.total /\ period'.tenantApp = period.tenantApp
        /\ period'.upstream = period.upstream /\ period'.ours = period.ours
        /\ period'.theirs = period.theirs /\ period'.lines = period.lines
    BY <1>1 DEF Gathering
  <1>3. troubles' \in Nat
    BY <1>1 DEF Tick, Trouble
  <1>4. Now' = Now
    BY <1>1 DEF Now
  <1>5. runs' = runs \/ \E d \in 0..MaxDelay :
            runs' = runs \cup {[tick |-> Now, at |-> clock + d, try |-> 0]}
    <2>1. CASE runs' = runs \cup {[tick |-> Now, at |-> clock, try |-> 0]}
      <3>1. clock = clock + 0 /\ 0 \in 0..MaxDelay
        BY <1>1
      <3>2. QED
        BY <2>1, <3>1
    <2>2. CASE \E d \in 1..MaxDelay :
                 runs' = runs \cup {[tick |-> Now, at |-> clock + d, try |-> 0]}
      <3>1. 1..MaxDelay \subseteq 0..MaxDelay
        BY <1>1
      <3>2. QED
        BY <2>2, <3>1
    <2>3. QED
      BY <2>1, <2>2 DEF Tick
  <1>6. runs' \in SUBSET Run /\ RunsInOrder'
    <2>1. CASE runs' = runs
      BY <1>1, <1>2, <1>4, <2>1 DEF WatchInvariant, RunsInOrder
    <2>2. CASE \E d \in 0..MaxDelay :
                 runs' = runs \cup {[tick |-> Now, at |-> clock + d, try |-> 0]}
      <3>1. PICK d \in 0..MaxDelay :
              runs' = runs \cup {[tick |-> Now, at |-> clock + d, try |-> 0]}
        BY <2>2
      <3> DEFINE n == [tick |-> Now, at |-> clock + d, try |-> 0]
      <3>2. n \in Run /\ n.tick = Now /\ n.try = 0 /\ clock <= n.at /\ runs' = runs \cup {n}
        BY <1>1, <3>1 DEF Run
      <3> HIDE DEF n
      <3>3. RunsInOrder
        BY DEF WatchInvariant
      <3>4. \A r \in runs : r.tick # Now
        BY <1>1, <3>3 DEF RunsInOrder
      <3>5. QED
        BY <1>1, <1>2, <1>4, <3>2, <3>3, <3>4 DEF RunsInOrder
    <2>3. QED
      BY <1>5, <2>1, <2>2
  <1>7. CopiedOnce'
    BY <1>1, <1>2 DEF WatchInvariant, CopiedOnce
  <1>8. CopiesTell(period', Broken) /\ LinesSorted(period')
    BY <1>2, WatchParts DEF WatchInvariant, CopiesTell, LinesSorted
  <1>9. QED
    BY <1>1, <1>2, <1>3, <1>6, <1>7, <1>8, WithinPeriod

LEMMA CopyKeeps ==
    ASSUME WatchInvariant, NEW r \in runs, Copy(r)
    PROVE  WatchInvariant'
  <1> DEFINE q == Begun(period, r)
  <1>1. /\ UNCHANGED <<road, clock, world, closed, alarm>> /\ r.at = clock
        /\ clock \in Nat /\ Now \in Nat /\ troubles \in Nat /\ runs \in SUBSET Run /\ r \in Run
        /\ period \in Gathering /\ WatchShape /\ Now' = Now /\ Retries \in Nat
    BY WatchParts, WatchAssumption DEF Copy, WatchInvariant, Now
  <1>2. road = "edge"
    BY <1>1 DEF WatchShape
  <1>3. /\ q \in Gathering /\ q.point = period.point /\ q.errors = period.errors
        /\ q.ticked = period.ticked
        /\ q.strayed <=> period.strayed \/ r.tick # Now
        /\ LinesSorted(q)
    BY <1>1, BegunFacts DEF WatchInvariant
  <1>4. /\ r.tick <= Now
        /\ r.tick = Now => period.ticked
        /\ \A s \in runs \ {r} : s.tick # r.tick
    <2>1. RunsInOrder
      BY DEF WatchInvariant
    <2>2. QED
      BY <2>1 DEF RunsInOrder
  <1> HIDE DEF q
  <1> DEFINE P == Published(q)
  <1>5. /\ P \in Gathering
        /\ P.point = IF Broken THEN (IF period.point = Missing THEN 1 ELSE period.point + 1)
                     ELSE period.point
        /\ P.errors = period.errors /\ P.ticked = period.ticked
        /\ P.strayed = q.strayed /\ LinesSorted(P)
    BY <1>1, <1>3, PublishedFacts DEF Broken
  <1> HIDE DEF P
  <1>6. /\ P.point # Missing => Broken
        /\ Broken => P.point # Missing
        /\ q.point # Missing => Broken
    BY <1>1, <1>3, <1>5, WatchParts DEF CopiesTell, Gathering, Missing
  <1>7. CASE /\ period' = P /\ runs' = runs \ {r} /\ UNCHANGED troubles
    <2>1. RunsInOrder'
      BY <1>1, <1>5, <1>7 DEF WatchInvariant, RunsInOrder
    <2>2. ASSUME P.point # Missing, P.errors = 0, ~P.strayed
          PROVE  /\ P.point = 1 /\ P.ticked
                 /\ \A s \in runs \ {r} : s.tick # Now
      <3>1. r.tick = Now /\ ~period.strayed /\ period.errors = 0
        BY <1>3, <1>5, <2>2
      <3>2. period.point = Missing
        BY <3>1 DEF WatchInvariant, CopiedOnce
      <3>3. QED
        BY <1>4, <1>5, <1>6, <2>2, <3>1, <3>2
    <2>3. P.errors \in Nat
      BY <1>5 DEF Gathering
    <2>4. CopiedOnce'
      BY <1>1, <1>7, <2>2, <2>3 DEF CopiedOnce
    <2>5. CopiesTell(period', Broken)
      BY <1>6, <1>7, <2>2, <2>3 DEF CopiesTell, Missing
    <2>6. QED
      BY <1>1, <1>2, <1>5, <1>7, <2>1, <2>4, <2>5, WithinPeriod
  <1>8. CASE /\ Trouble
             /\ \E p \in {q, P} : period' = Failed(p)
             /\ runs' = (runs \ {r}) \cup
                        {[r EXCEPT !.at = @ + n, !.try = n] : n \in {r.try + 1} \cap (1..Retries)}
    <2>1. PICK p \in {q, P} : period' = Failed(p)
      BY <1>8
    <2>2. /\ period' \in Gathering /\ period'.errors > 0 /\ period'.ticked = period.ticked
          /\ period'.point = p.point /\ LinesSorted(period')
      BY <1>3, <1>5, <2>1, FailedFacts
    <2>3. \A s \in runs' \ runs : /\ s \in Run /\ s.tick = r.tick /\ clock <= s.at
      <3>1. ASSUME NEW n \in 1..Retries
            PROVE  /\ [r EXCEPT !.at = @ + n, !.try = n] \in Run
                   /\ [r EXCEPT !.at = @ + n, !.try = n].tick = r.tick
                   /\ clock <= [r EXCEPT !.at = @ + n, !.try = n].at
        <4>1. r.at \in Nat /\ n \in Nat
          BY <1>1 DEF Run
        <4>2. r.at + n \in Nat /\ clock <= r.at + n
          BY <1>1, <4>1
        <4> DEFINE m == r.at + n
        <4>3. m = r.at + n
          OBVIOUS
        <4> HIDE DEF m
        <4>4. [r EXCEPT !.at = @ + n, !.try = n] = [r EXCEPT !.at = m, !.try = n]
          BY <4>3
        <4>5. m \in Nat /\ n \in Nat /\ clock <= m
          BY <4>1, <4>2, <4>3
        <4>6. /\ [r EXCEPT !.at = m, !.try = n] \in Run
              /\ [r EXCEPT !.at = m, !.try = n].tick = r.tick
              /\ [r EXCEPT !.at = m, !.try = n].at = m
          BY <1>1, <4>5 DEF Run
        <4>7. QED
          BY <4>4, <4>5, <4>6
      <3>2. QED
        BY <1>8, <3>1
    <2>4. \A s, t \in runs' \ runs : s = t
      BY <1>8
    <2>5. runs' \subseteq (runs \ {r}) \cup (runs' \ runs)
      <3>1. ASSUME NEW n \in 1..Retries, n = r.try + 1
            PROVE  [r EXCEPT !.at = @ + n, !.try = n] # r
        <4>1. r.try \in Nat /\ n # r.try
          BY <1>1, <3>1 DEF Run
        <4>2. [r EXCEPT !.at = @ + n, !.try = n].try = n
          BY <1>1 DEF Run
        <4>3. QED
          BY <4>1, <4>2
      <3>2. r \notin runs'
        BY <1>8, <3>1
      <3>3. QED
        BY <3>2
    <2>6. runs' \in SUBSET Run
      BY <1>1, <2>3, <2>5
    <2>7. RunsInOrder'
      <3>1. ASSUME NEW s \in runs'
            PROVE  /\ s.tick <= Now /\ clock <= s.at
                   /\ s.tick = Now => period'.ticked
        BY <1>4, <2>2, <2>3, <2>5 DEF WatchInvariant, RunsInOrder
      <3>2. ASSUME NEW s \in runs', NEW t \in runs', s.tick = t.tick PROVE s = t
        BY <1>4, <2>3, <2>4, <2>5, <3>2 DEF WatchInvariant, RunsInOrder
      <3>3. QED
        BY <1>1, <2>2, <3>1, <3>2 DEF RunsInOrder
    <2>8. CopiedOnce'
      BY <2>2 DEF CopiedOnce
    <2>9. CopiesTell(period', Broken)
      BY <1>6, <2>1, <2>2 DEF CopiesTell
    <2>10. troubles' \in Nat
      <3>1. Trouble
        BY <1>8
      <3>2. QED
        BY <1>1, <3>1 DEF Trouble
    <2>11. QED
      BY <1>1, <1>2, <2>2, <2>6, <2>7, <2>8, <2>9, <2>10, WithinPeriod
  <1>9. QED
    BY <1>7, <1>8 DEF Copy, q, P

\* Whatever happened to a request, its line counts as the fault it was.
LEMMA LineSorted ==
    ASSUME NEW cause \in Causes, NEW l \in Lines(cause)
    PROVE  /\ One(Is5xx(l)) = One(IsTenantApp(l)) + One(IsUpstream(l)) + One(cause \in Ours)
           /\ One(cause \in Tenants) = One(IsTenantApp(l))
  <1> USE DEF Lines, Line, Causes, Is5xx, IsTenantApp, IsUpstream, One, Ours, Tenants
  <1>1. CASE cause = "page"
    BY <1>1
  <1>2. CASE cause = "appError"
    BY <1>2
  <1>3. CASE cause = "appMalformed"
    BY <1>3
  <1>4. CASE cause = "timeout"
    BY <1>4
  <1>5. CASE cause = "thirdParty"
    BY <1>5
  <1>6. CASE cause = "malformed"
    BY <1>6
  <1>7. CASE cause = "bug"
    BY <1>7
  <1>8. CASE cause = "refused"
    BY <1>8
  <1>9. QED
    BY <1>1, <1>2, <1>3, <1>4, <1>5, <1>6, <1>7, <1>8

LEMMA LogKeeps ==
    ASSUME WatchInvariant, NEW cause \in Causes, Log(cause)
    PROVE  WatchInvariant'
  <1>1. /\ UNCHANGED <<road, clock, world, runs, closed, alarm, troubles>>
        /\ road = "gateway" /\ WatchShape /\ runs = {}
        /\ period \in Gathering /\ troubles \in Nat /\ LinesSorted(period)
    BY WatchParts DEF Log, WatchInvariant, WatchShape
  <1>2. PICK l \in Lines(cause) :
         period' = [period EXCEPT
             !.lines = @ + 1, !.total = @ + One(Is5xx(l)),
             !.tenantApp = @ + One(IsTenantApp(l)), !.upstream = @ + One(IsUpstream(l)),
             !.theirs = @ + One(cause \in Tenants), !.ours = @ + One(cause \in Ours)]
    BY DEF Log
  <1> DEFINE t == One(Is5xx(l))
             a == One(IsTenantApp(l))
             u == One(IsUpstream(l))
             h == One(cause \in Tenants)
             o == One(cause \in Ours)
  <1>3. t = a + u + o /\ h = a
    BY LineSorted
  <1>4. t \in Nat /\ a \in Nat /\ u \in Nat /\ h \in Nat /\ o \in Nat
    BY DEF One
  <1>5. period' = [period EXCEPT !.lines = @ + 1, !.total = @ + t, !.tenantApp = @ + a,
                                 !.upstream = @ + u, !.theirs = @ + h, !.ours = @ + o]
    BY <1>2
  <1> HIDE DEF t, a, u, h, o
  <1>6. /\ period.lines \in Nat /\ period.total \in Nat /\ period.tenantApp \in Nat
        /\ period.upstream \in Nat /\ period.theirs \in Nat /\ period.ours \in Nat
    BY <1>1 DEF Gathering
  <1>7. /\ period'.lines = period.lines + 1 /\ period'.total = period.total + t
        /\ period'.tenantApp = period.tenantApp + a /\ period'.upstream = period.upstream + u
        /\ period'.theirs = period.theirs + h /\ period'.ours = period.ours + o
    BY <1>1, <1>5 DEF Gathering
  <1>8. /\ period'.point = period.point /\ period'.errors = period.errors
        /\ period'.started = period.started
    BY <1>1, <1>5 DEF Gathering
  <1>9. period' \in Gathering
    <2> DEFINE n1 == period.lines + 1
               n2 == period.total + t
               n3 == period.tenantApp + a
               n4 == period.upstream + u
               n5 == period.theirs + h
               n6 == period.ours + o
    <2>1. n1 \in Nat /\ n2 \in Nat /\ n3 \in Nat /\ n4 \in Nat /\ n5 \in Nat /\ n6 \in Nat
      BY <1>4, <1>6
    <2>2. period' = [period EXCEPT !.lines = n1, !.total = n2, !.tenantApp = n3,
                                   !.upstream = n4, !.theirs = n5, !.ours = n6]
      BY <1>5
    <2> HIDE DEF n1, n2, n3, n4, n5, n6
    <2>3. QED
      BY <1>1, <2>1, <2>2 DEF Gathering
  <1>10. LinesSorted(period')
    BY <1>1, <1>3, <1>4, <1>6, <1>7 DEF LinesSorted
  <1>11. period'.point = Missing /\ ~period'.started
    BY <1>1, <1>8 DEF WatchShape
  <1>12. RunsInOrder' /\ CopiedOnce'
    BY <1>1, <1>11 DEF RunsInOrder, CopiedOnce
  <1>13. CopiesTell(period', Broken)
    BY <1>11 DEF CopiesTell, Missing
  <1>14. runs' \in SUBSET Run /\ troubles' \in Nat
    BY <1>1
  <1>15. QED
    BY <1>1, <1>9, <1>10, <1>11, <1>12, <1>13, <1>14, WithinPeriod

-----------------------------------------------------------------------------
(* What rings an alarm: the end of a period.                               *)

LEMMA AlarmsJudge ==
    ASSUME period \in Gathering, LinesSorted(period), NEW b \in BOOLEAN,
           closed' = [period EXCEPT !.breach = b],
           alarm' = [router |-> Judged(period.point, 1), bridge |-> Judged(period.errors, 1),
                     platform |-> Judged(PlatformFaults, 1),
                     tenant |-> Judged(Sum(period.tenantApp), 3)]
    PROVE  Judgements'
  <1>1. /\ period.point \in {Missing} \cup (Nat \ {0}) /\ period.errors \in Nat
        /\ period.total \in Nat /\ period.tenantApp \in Nat /\ period.upstream \in Nat
        /\ period.ours \in Nat /\ period.theirs \in Nat /\ period.lines \in Nat
    BY DEF Gathering
  <1>2. /\ closed'.point = period.point /\ closed'.errors = period.errors
        /\ closed'.ours = period.ours /\ closed'.theirs = period.theirs
    BY DEF Gathering
  <1>3. /\ alarm'.router = Judged(period.point, 1) /\ alarm'.bridge = Judged(period.errors, 1)
        /\ alarm'.platform = Judged(PlatformFaults, 1)
        /\ alarm'.tenant = Judged(Sum(period.tenantApp), 3)
    OBVIOUS
  <1>4. alarm'.router = "ALARM" <=> closed'.point # Missing
    BY <1>1, <1>2, <1>3 DEF Judged, Missing
  <1>5. alarm'.bridge = "ALARM" <=> closed'.errors > 0
    BY <1>1, <1>2, <1>3 DEF Judged, Missing
  <1>6. PlatformFaults = IF period.lines = 0 THEN Missing ELSE period.ours
    <2>1. period.total - period.tenantApp - period.upstream = period.ours
      BY <1>1 DEF LinesSorted
    <2>2. QED
      BY <1>1, <2>1 DEF PlatformFaults, Sum, Missing
  <1>7. period.lines = 0 => period.ours = 0 /\ period.theirs = 0
    BY <1>1 DEF LinesSorted
  <1>8. alarm'.platform = "ALARM" <=> closed'.ours > 0
    BY <1>1, <1>2, <1>3, <1>6, <1>7 DEF Judged, Missing
  <1>9. alarm'.tenant = "ALARM" <=> closed'.theirs >= 3
    <2>1. period.theirs = period.tenantApp
      BY DEF LinesSorted
    <2>2. QED
      BY <1>1, <1>2, <1>3, <1>7, <2>1 DEF Judged, Sum, Missing
  <1>10. QED
    BY <1>4, <1>5, <1>8, <1>9 DEF Judgements, EachFaultRingsItsOwn

LEMMA MinuteKeeps ==
    ASSUME WatchInvariant, Minute
    PROVE  WatchInvariant'
  <1>1. /\ clock \in Nat /\ Now \in Nat /\ troubles \in Nat /\ runs \in SUBSET Run
        /\ period \in Gathering /\ closed \in Gathering /\ CopiesTell(period, Broken)
        /\ WatchShape /\ RunsInOrder /\ CopiedOnce /\ LinesSorted(period)
        /\ Step \in Nat /\ Step > 0
    BY WatchParts, WatchAssumption DEF WatchInvariant
  <1>2. /\ UNCHANGED <<road, world, runs, troubles>>
        /\ \A r \in runs : r.at > clock
        /\ clock' = clock + (IF road = "edge" THEN 1 ELSE Step)
    BY DEF Minute
  <1>3. clock' \in Nat
    BY <1>1, <1>2
  <1>4. road = "gateway" => runs = {} /\ period.point = Missing /\ ~period.started
    BY <1>1 DEF WatchShape
  <1>5. road = "edge" => clock' = clock + 1
    BY <1>2
  <1>6. \A r \in runs : clock' <= r.at
    <2> SUFFICES ASSUME NEW r \in runs PROVE clock' <= r.at
      OBVIOUS
    <2>1. road = "edge" /\ r.at \in Nat
      BY <1>1, <1>4 DEF Run, WatchShape
    <2>2. QED
      BY <1>1, <1>2, <1>5, <2>1
  <1>7. CASE clock' % Step = 0
    <2>1. /\ closed' = [period EXCEPT !.breach = Broken]
          /\ alarm' = [router |-> Judged(period.point, 1), bridge |-> Judged(period.errors, 1),
                       platform |-> Judged(PlatformFaults, 1),
                       tenant |-> Judged(Sum(period.tenantApp), 3)]
          /\ period' = Nothing
      BY <1>7 DEF Minute, Broken
    <2> DEFINE b == Broken
    <2>2. b \in BOOLEAN
      BY DEF Broken
    <2>3. CopiesTell(period, b)
      BY <1>1
    <2> HIDE DEF b
    <2>4. closed' = [period EXCEPT !.breach = b]
      BY <2>1 DEF b
    <2>5. Judgements'
      BY <1>1, <2>1, <2>2, <2>4, AlarmsJudge
    <2>6. /\ closed' \in Gathering /\ closed'.breach = b
          /\ closed'.point = period.point /\ closed'.errors = period.errors
          /\ closed'.started = period.started /\ closed'.strayed = period.strayed
      BY <1>1, <2>2, <2>4 DEF Gathering
    <2>7. CopiesTell(closed, closed.breach)'
      BY <2>3, <2>6 DEF CopiesTell
    <2>8. WatchShape'
      BY <1>1, <1>2, <1>3, <1>4, <2>1, <2>6, NothingFacts DEF WatchShape
    <2>9. \A r \in runs : r.tick < Now'
      <3> SUFFICES ASSUME NEW r \in runs PROVE r.tick < Now'
        OBVIOUS
      <3>1. road = "edge" /\ r.tick \in Nat /\ r.tick <= Now
        BY <1>1, <1>4 DEF Run, WatchShape, RunsInOrder
      <3>2. clock \div Step < (clock + 1) \div Step
        BY <1>1, <1>5, <1>7, <3>1, Periods
      <3>3. Now < Now' /\ Now' \in Nat
        BY <1>3, <1>5, <3>1, <3>2, Periods DEF Now
      <3>4. QED
        BY <1>1, <3>1, <3>3
    <2>10. Now' \in Nat
      BY <1>3, Periods DEF Now
    <2>11. RunsInOrder'
      <3>1. ASSUME NEW r \in runs PROVE r.tick <= Now' /\ r.tick # Now'
        BY <1>1, <2>9, <2>10 DEF Run
      <3>2. QED
        BY <1>1, <1>2, <1>6, <3>1 DEF RunsInOrder
    <2>12. CopiedOnce' /\ CopiesTell(period, BucketOf(clock) \in world.broken)'
      BY <2>1, NothingFacts DEF CopiedOnce, CopiesTell, Missing
    <2>13. LinesSorted(period)'
      BY <2>1, NothingFacts DEF LinesSorted
    <2>14. QED
      BY <2>5, <2>7, <2>8, <2>11, <2>12, <2>13 DEF WatchInvariant
  <1>8. CASE clock' % Step # 0
    <2>1. UNCHANGED <<closed, alarm, period>>
      BY <1>8 DEF Minute
    <2>2. road = "edge" => Now' = Now /\ BucketOf(clock)' = BucketOf(clock)
      <3>1. ASSUME road = "edge" PROVE (clock + 1) \div Step = clock \div Step
        BY <1>1, <1>5, <1>8, <3>1, Periods
      <3>2. QED
        BY <1>5, <3>1 DEF Now, BucketOf
    <2>3. WatchShape'
      BY <1>1, <1>2, <1>3, <2>1 DEF WatchShape
    <2>4. RunsInOrder'
      <3>1. CASE road = "edge"
        BY <1>1, <1>2, <1>6, <2>1, <2>2, <3>1 DEF RunsInOrder
      <3>2. CASE road = "gateway"
        BY <1>2, <1>4, <3>2 DEF RunsInOrder
      <3>3. QED
        BY <1>1, <3>1, <3>2 DEF WatchShape
    <2>5. CopiedOnce' /\ CopiesTell(period, BucketOf(clock) \in world.broken)'
      <3>1. CASE road = "edge"
        BY <1>1, <1>2, <2>1, <2>2, <3>1 DEF CopiedOnce, CopiesTell, Broken
      <3>2. CASE road = "gateway"
        BY <1>4, <2>1, <3>2 DEF CopiedOnce, CopiesTell, Missing
      <3>3. QED
        BY <1>1, <3>1, <3>2 DEF WatchShape
    <2>6. CopiesTell(closed, closed.breach)' /\ Judgements' /\ LinesSorted(period)'
      BY <2>1 DEF WatchInvariant, CopiesTell, Judgements, EachFaultRingsItsOwn, LinesSorted
    <2>7. QED
      BY <2>3, <2>4, <2>5, <2>6 DEF WatchInvariant
  <1>9. QED
    BY <1>7, <1>8

-----------------------------------------------------------------------------
(* What rings an alarm.                                                    *)

LEMMA WatchBegins == WatchInit => WatchInvariant
  <1> SUFFICES ASSUME WatchInit PROVE WatchInvariant
    OBVIOUS
  <1>1. /\ road \in {"edge", "gateway"} /\ clock = 0 /\ runs = {} /\ troubles = 0
        /\ period = Nothing /\ closed = Nothing
        /\ alarm = [a \in {"router", "bridge", "platform", "tenant"} |-> "INSUFFICIENT_DATA"]
    BY DEF WatchInit
  <1>2. world.publishing \in 0..Step
    <2>1. 0 \in 0..Step
      BY WatchAssumption
    <2>2. CASE road = "edge"
      BY <2>2 DEF WatchInit
    <2>3. CASE road = "gateway"
      BY <2>1, <2>3 DEF WatchInit
    <2>4. QED
      BY <1>1, <2>2, <2>3
  <1>3. WatchShape
    BY <1>1, <1>2, NothingFacts DEF WatchShape
  <1>4. RunsInOrder /\ CopiedOnce
    BY <1>1, NothingFacts DEF RunsInOrder, CopiedOnce
  <1>5. /\ CopiesTell(period, BucketOf(clock) \in world.broken)
        /\ CopiesTell(closed, closed.breach) /\ LinesSorted(period)
    BY <1>1, NothingFacts DEF CopiesTell, Missing, LinesSorted
  <1>6. Judgements
    BY <1>1, NothingFacts DEF Judgements, EachFaultRingsItsOwn
  <1>7. QED
    BY <1>3, <1>4, <1>5, <1>6 DEF WatchInvariant

\* The bridge copies each tick once, unless a run of it failed, and the filters
\* take from the total what is not the platform's.
THEOREM WatchInvariantHolds == WatchSpec => []WatchInvariant
  <1>1. ASSUME WatchInvariant, [WatchNext]_watchVars PROVE WatchInvariant'
    <2>1. CASE UNCHANGED watchVars
      BY <1>1, <2>1 DEF watchVars, WatchInvariant, WatchShape, RunsInOrder, CopiedOnce, CopiesTell,
                        LinesSorted, Judgements, EachFaultRingsItsOwn, Now, BucketOf
    <2>2. CASE WatchNext
      BY <1>1, <2>2, TickKeeps, CopyKeeps, LogKeeps, MinuteKeeps DEF WatchNext
    <2>3. QED
      BY <1>1, <2>1, <2>2
  <1>2. QED
    BY <1>1, WatchBegins, PTL DEF WatchSpec

\* Errors at the edge ring, or the bridge's own alarm does; nothing else rings
\* the router's; and a bucket is copied twice only by a run that was repeated or
\* came in another's period.
THEOREM BreachAlwaysRings == WatchSpec => []BreachRings
  <1>1. WatchInvariant => BreachRings
    BY DEF WatchInvariant, CopiesTell, Judgements, BreachRings
  <1>2. QED
    BY <1>1, WatchInvariantHolds, PTL

\* The alarms of the shared access log ring for the fault that was, however many
\* lines of each kind a period has.
THEOREM EachFaultAlwaysRingsItsOwn == WatchSpec => []EachFaultRingsItsOwn
  <1>1. WatchInvariant => EachFaultRingsItsOwn
    BY DEF WatchInvariant, Judgements
  <1>2. QED
    BY <1>1, WatchInvariantHolds, PTL
=============================================================================
