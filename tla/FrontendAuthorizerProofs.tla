----------------------- MODULE FrontendAuthorizerProofs -----------------------
(***************************************************************************)
(* The gate and the front door for every number of containers and every    *)
(* deadline, cache life, timeout and number of retries.                    *)
(***************************************************************************)
EXTENDS FrontendAuthorizer, TLAPS

\* A step of one container.
OwnStep(c) ==
    \/ Arrive(c) \/ Meter(c) \/ ConfigHit(c) \/ Resolve(c) \/ ReadPool(c)
    \/ Decide(c) \/ Answers(c) \/ ReadRow(c) \/ Invoke(c)
    \/ AppAnswers(c) \/ TooSlow(c) \/ Killed(c)

LEMMA NextCases ==
    [Next]_vars => \/ \E c \in Containers : OwnStep(c)
                   \/ Change \/ Tick \/ UNCHANGED vars
  BY DEF Next, OwnStep

-----------------------------------------------------------------------------
(* Type correctness.                                                       *)

LEMMA RequestWritten ==
    ASSUME TypeOK, NEW c \in Containers, NEW q, Goes(c, q)
    PROVE  /\ inv' = [inv EXCEPT ![c] = q]
           /\ inv'[c] = q
           /\ \A x \in Containers \ {c} : inv'[x] = inv[x]
           /\ q \in Request => inv' \in [Containers -> Request]
  BY DEF TypeOK, Goes

LEMMA Initials ==
    /\ NoApp \in App /\ NoRequest \in Request
    /\ NoConfig \in [at: Int, row: App] /\ NoConfig.at <= 0
  BY GateAssumption DEF NoApp, App, NoRequest, Request, NoConfig, Paths, Closable

\* A verdict is a request at the front door.
LEMMA VerdictWritten ==
    ASSUME TypeOK, NEW c \in Containers, NEW failed \in BOOLEAN,
           NEW v \in {"human", "agent", "anon", "deny"}, Verdict(c, v, failed)
    PROVE  /\ inv' \in [Containers -> Request]
           /\ inv'[c].pc = "door" /\ inv'[c].verdict = v
           /\ inv'[c].uri = inv[c].uri /\ inv'[c].entered = inv[c].entered
           /\ inv'[c].cookies = inv[c].cookies
           /\ inv'[c].failed = (inv[c].failed \/ failed)
  <1>1. inv[c] \in Request
    BY DEF TypeOK
  <1> DEFINE b == inv[c].failed \/ failed
             d == [inv[c] EXCEPT !.pc = "door", !.verdict = v, !.row = NoApp,
                                 !.attempt = 0, !.failed = b]
  <1>2. Goes(c, d)
    BY DEF Verdict
  <1>3. b \in BOOLEAN /\ b = (inv[c].failed \/ failed) /\ 0 \in 0..Retries
    BY GateAssumption
  <1> HIDE DEF b
  <1>4. d \in Request
    BY <1>1, <1>3, Initials DEF Request
  <1>5. /\ d.pc = "door" /\ d.verdict = v /\ d.failed = b
        /\ d.uri = inv[c].uri /\ d.entered = inv[c].entered
        /\ d.cookies = inv[c].cookies
    BY <1>1 DEF Request
  <1> HIDE DEF d
  <1>6. inv' \in [Containers -> Request] /\ inv'[c] = d
    BY <1>2, <1>4, RequestWritten
  <1>7. QED
    BY <1>3, <1>5, <1>6

\* What a request is told, and on what ground.
LEMMA Decisions ==
    ASSUME TypeOK, NEW c \in Containers, Decide(c)
    PROVE  \E v \in {"human", "agent", "anon", "deny"}, failed \in BOOLEAN :
              /\ Verdict(c, v, failed)
              /\ v = "anon" => ~Gated(inv[c].row, inv[c].uri)
              /\ ("human" \in inv[c].cookies /\ v # "human" /\ ~failed) => ~inv[c].row.pool
  <1> DEFINE anonymous == IF Gated(inv[c].row, inv[c].uri) THEN "deny" ELSE "anon"
             Grounds(v, failed) ==
               /\ Verdict(c, v, failed)
               /\ v = "anon" => ~Gated(inv[c].row, inv[c].uri)
               /\ ("human" \in inv[c].cookies /\ v # "human" /\ ~failed)
                    => ~inv[c].row.pool
  <1>1. /\ anonymous \in {"human", "agent", "anon", "deny"}
        /\ anonymous = "anon" => ~Gated(inv[c].row, inv[c].uri)
    OBVIOUS
  <1>2. \/ ~inv[c].row.pool /\ Verdict(c, anonymous, FALSE)
        \/ inv[c].row.pool /\ "human" \in inv[c].cookies /\ Verdict(c, "human", FALSE)
        \/ inv[c].row.pool /\ "agent" \in inv[c].cookies
             /\ Verdict(c, "agent", "human" \in inv[c].cookies)
        \/ inv[c].row.pool /\ Verdict(c, anonymous, inv[c].cookies # {})
    BY Zenon DEF Decide, IsPerson, IsAgent
  <1> HIDE DEF anonymous
  <1>3. CASE ~inv[c].row.pool /\ Verdict(c, anonymous, FALSE)
    <2>1. Grounds(anonymous, FALSE)
      BY <1>1, <1>3, Zenon
    <2>2. QED
      BY <1>1, <2>1, Zenon
  <1>4. CASE inv[c].row.pool /\ "human" \in inv[c].cookies /\ Verdict(c, "human", FALSE)
    <2>1. Grounds("human", FALSE)
      BY <1>4
    <2>2. QED
      BY <2>1, Zenon
  <1>5. CASE inv[c].row.pool /\ "agent" \in inv[c].cookies
               /\ Verdict(c, "agent", "human" \in inv[c].cookies)
    <2> DEFINE b == "human" \in inv[c].cookies
    <2>1. Grounds("agent", b)
      BY <1>5
    <2>2. b \in BOOLEAN
      OBVIOUS
    <2>3. QED
      BY <2>1, <2>2, Zenon
  <1>6. CASE inv[c].row.pool /\ Verdict(c, anonymous, inv[c].cookies # {})
    <2> DEFINE b == inv[c].cookies # {}
    <2>1. Grounds(anonymous, b)
      BY <1>1, <1>6, Zenon
    <2>2. b \in BOOLEAN
      OBVIOUS
    <2>3. QED
      BY <1>1, <2>1, <2>2, Zenon
  <1>7. QED
    BY <1>2, <1>3, <1>4, <1>5, <1>6

\* What reading the pool leaves: the row, stamped now, or none.
LEMMA PoolReads ==
    ASSUME TypeOK, NEW c \in Containers, ReadPool(c)
    PROVE  /\ inv'[c].entered = inv[c].entered
           /\ \A uri : Gated(inv'[c].row, uri) <=> Gated(inv[c].row, uri)
           /\ \/ /\ inv'[c].pc = "decide" /\ inv'[c].row = config'[c].row
                 /\ config'[c].at = clock
                 /\ config'[c].row.pool <=> (app.live /\ app.pool)
              \/ inv'[c].pc = "pool" /\ UNCHANGED config
              \/ inv'[c].pc = "decide" /\ inv'[c].failed /\ UNCHANGED config
  <1>1. /\ inv \in [Containers -> Request] /\ inv[c] \in Request
        /\ DOMAIN config = Containers
    BY DEF TypeOK
  <1> DEFINE b == app.live /\ app.pool
             row == [inv[c].row EXCEPT !.pool = b]
  <1>2. b \in BOOLEAN /\ (b <=> (app.live /\ app.pool))
    OBVIOUS
  <1> HIDE DEF b
  <1>3. (row.pool <=> (app.live /\ app.pool)) /\ row.live = inv[c].row.live
        /\ row.enforce = inv[c].row.enforce /\ row.publicPaths = inv[c].row.publicPaths
    BY <1>1, <1>2 DEF Request, App
  <1> HIDE DEF row
  <1>4. CASE /\ config' = [config EXCEPT ![c] = [at |-> clock, row |-> row]]
             /\ Goes(c, [inv[c] EXCEPT !.pc = "decide", !.row = row])
    <2>1. config'[c] = [at |-> clock, row |-> row]
      BY <1>1, <1>4
    <2>2. /\ inv'[c].pc = "decide" /\ inv'[c].row = row
          /\ inv'[c].entered = inv[c].entered
      BY <1>1, <1>4 DEF Goes, Request
    <2>3. QED
      BY <1>3, <2>1, <2>2 DEF Gated
  <1>5. CASE Goes(c, [inv[c] EXCEPT !.attempt = @ + 1]) /\ UNCHANGED config
    <2>1. inv[c].pc = "pool"
      BY DEF ReadPool, AskAgain, At
    <2>2. /\ inv'[c].pc = inv[c].pc /\ inv'[c].row = inv[c].row
          /\ inv'[c].entered = inv[c].entered
      BY <1>1, <1>5 DEF Goes, Request
    <2>3. QED
      BY <1>5, <2>1, <2>2
  <1>6. CASE /\ Goes(c, [inv[c] EXCEPT !.pc = "decide", !.failed = TRUE])
             /\ UNCHANGED config
    <2>1. /\ inv'[c].pc = "decide" /\ inv'[c].failed = TRUE /\ inv'[c].row = inv[c].row
          /\ inv'[c].entered = inv[c].entered
      BY <1>1, <1>6 DEF Goes, Request
    <2>2. QED
      BY <1>6, <2>1
  <1>7. QED
    BY <1>4, <1>5, <1>6 DEF ReadPool, AskAgain, row, b

\* A step of a container is nobody else's, and leaves the application alone.
LEMMA OthersStay ==
    ASSUME TypeOK, NEW c \in Containers, OwnStep(c)
    PROVE  /\ UNCHANGED <<clock, app, changes, lastOpen, poolAt, goneAt>>
           /\ \A x \in Containers \ {c} :
                /\ inv'[x] = inv[x]
                /\ config'[x] = config[x]
                /\ lastAppRow'[x] = lastAppRow[x]
  <1>1. /\ inv \in [Containers -> Request]
        /\ DOMAIN config = Containers /\ DOMAIN lastAppRow = Containers
    BY DEF TypeOK
  <1>2. CASE Arrive(c)
    BY <1>1, <1>2 DEF Arrive, Goes
  <1>3. CASE Meter(c)
    BY <1>1, <1>3 DEF Meter, Goes, Verdict
  <1>4. CASE ConfigHit(c)
    BY <1>1, <1>4 DEF ConfigHit, Goes
  <1>5. CASE Resolve(c)
    BY <1>1, <1>5 DEF Resolve, Goes, Verdict
  <1>6. CASE ReadPool(c)
    BY <1>1, <1>6 DEF ReadPool, AskAgain, Goes
  <1>7. CASE Decide(c)
    BY <1>1, <1>7 DEF Decide, IsPerson, IsAgent, Goes, Verdict
  <1>8. CASE Answers(c)
    BY <1>1, <1>8 DEF Answers, Goes, Reply
  <1>9. CASE ReadRow(c)
    BY <1>1, <1>9 DEF ReadRow, Goes, Reply
  <1>10. CASE Invoke(c)
    BY <1>1, <1>10 DEF Invoke, Goes, Reply
  <1>11. CASE AppAnswers(c)
    BY <1>1, <1>11 DEF AppAnswers, Goes, Reply
  <1>12. CASE TooSlow(c)
    BY <1>1, <1>12 DEF TooSlow, Goes, Reply
  <1>13. CASE Killed(c)
    BY <1>1, <1>13 DEF Killed, Goes, Reply
  <1>14. QED
    BY <1>2, <1>3, <1>4, <1>5, <1>6, <1>7, <1>8, <1>9, <1>10, <1>11, <1>12, <1>13
       DEF OwnStep

\* What the containers keep has its type, once each part that changed has.
LEMMA TypeFromParts ==
    ASSUME TypeOK, NEW c \in Containers, OwnStep(c),
           inv' \in [Containers -> Request],
           \/ UNCHANGED config
           \/ \E e \in [at: Int, row: App] :
                e.at <= clock /\ config' = [config EXCEPT ![c] = e],
           \/ UNCHANGED lastAppRow
           \/ \E row \in App : lastAppRow' = [lastAppRow EXCEPT ![c] = row]
    PROVE  TypeOK'
  <1>1. UNCHANGED <<clock, app, changes, lastOpen, poolAt, goneAt>>
    BY OthersStay
  <1>2. config' \in [Containers -> [at: Int, row: App]]
    BY DEF TypeOK
  <1>3. \A x \in Containers : config'[x].at <= clock
    <2>1. CASE UNCHANGED config
      BY <2>1 DEF TypeOK
    <2>2. ASSUME NEW e \in [at: Int, row: App], e.at <= clock,
                 config' = [config EXCEPT ![c] = e]
          PROVE  \A x \in Containers : config'[x].at <= clock
      <3>1. config \in [Containers -> [at: Int, row: App]]
        BY DEF TypeOK
      <3>2. config'[c] = e /\ \A x \in Containers \ {c} : config'[x] = config[x]
        BY <2>2, <3>1
      <3>3. QED
        BY <2>2, <3>2 DEF TypeOK
    <2>3. QED
      BY <2>1, <2>2
  <1>4. lastAppRow' \in [Containers -> App]
    BY DEF TypeOK
  <1>5. QED
    BY <1>1, <1>2, <1>3, <1>4 DEF TypeOK

LEMMA OwnStepTypes ==
    ASSUME TypeOK, NEW c \in Containers, OwnStep(c)
    PROVE  TypeOK'
  <1>1. /\ inv[c] \in Request /\ app \in App /\ clock \in Nat
        /\ config[c] \in [at: Int, row: App] /\ 0 \in 0..Retries
    BY GateAssumption DEF TypeOK
  <1>2. CASE Arrive(c)
    <2>1. PICK caller \in Callers :
            Goes(c, [NoRequest EXCEPT !.pc = "meter", !.uri = caller.uri,
                                      !.cookies = caller.cookies, !.door = caller.door,
                                      !.entered = clock])
      BY <1>2 DEF Arrive
    <2>2. /\ caller.uri \in Paths /\ caller.cookies \in SUBSET {"human", "agent"}
          /\ caller.door \in {"front", "legacy"}
      BY GateAssumption DEF Paths, Closable
    <2>3. [NoRequest EXCEPT !.pc = "meter", !.uri = caller.uri,
                            !.cookies = caller.cookies, !.door = caller.door,
                            !.entered = clock] \in Request
      BY <1>1, <2>2, Initials DEF Request
    <2>4. inv' \in [Containers -> Request]
      BY <2>1, <2>3, RequestWritten
    <2>5. UNCHANGED config /\ lastAppRow' = [lastAppRow EXCEPT ![c] = NoApp]
      BY <1>2 DEF Arrive
    <2>6. QED
      BY <2>4, <2>5, Initials, TypeFromParts
  <1>3. CASE Meter(c)
    <2>1. UNCHANGED <<config, lastAppRow>>
      BY <1>3 DEF Meter
    <2>2. CASE Goes(c, [inv[c] EXCEPT !.pc = "config"])
      <3>1. [inv[c] EXCEPT !.pc = "config"] \in Request
        BY <1>1 DEF Request
      <3>2. QED
        BY <2>1, <2>2, <3>1, RequestWritten, TypeFromParts
    <2>3. CASE Verdict(c, "deny", TRUE)
      BY <2>1, <2>3, VerdictWritten, TypeFromParts
    <2>4. QED
      BY <1>3, <2>2, <2>3 DEF Meter
  <1>4. CASE ConfigHit(c)
    <2>1. /\ Goes(c, [inv[c] EXCEPT !.pc = "decide", !.row = config[c].row])
          /\ UNCHANGED <<config, lastAppRow>>
      BY <1>4 DEF ConfigHit
    <2>2. [inv[c] EXCEPT !.pc = "decide", !.row = config[c].row] \in Request
      BY <1>1 DEF Request
    <2>3. QED
      BY <2>1, <2>2, RequestWritten, TypeFromParts
  <1>5. CASE Resolve(c)
    <2>1. UNCHANGED config
      BY <1>5 DEF Resolve
    <2>2. CASE /\ lastAppRow' = [lastAppRow EXCEPT ![c] = app]
               /\ Goes(c, [inv[c] EXCEPT !.pc = "pool", !.row = [app EXCEPT !.pool = FALSE]])
      <3>1. [app EXCEPT !.pool = FALSE] \in App
        BY <1>1 DEF App
      <3>2. [inv[c] EXCEPT !.pc = "pool", !.row = [app EXCEPT !.pool = FALSE]] \in Request
        BY <1>1, <3>1 DEF Request
      <3>3. QED
        BY <1>1, <2>1, <2>2, <3>2, RequestWritten, TypeFromParts
    <2>3. CASE Verdict(c, "anon", FALSE) /\ UNCHANGED lastAppRow
      BY <2>1, <2>3, VerdictWritten, TypeFromParts
    <2>4. CASE /\ Verdict(c, IF inv[c].uri = "auth" THEN "anon" ELSE "deny", TRUE)
               /\ UNCHANGED lastAppRow
      <3>1. (IF inv[c].uri = "auth" THEN "anon" ELSE "deny")
              \in {"human", "agent", "anon", "deny"}
        OBVIOUS
      <3>2. QED
        BY <2>1, <2>4, <3>1, VerdictWritten, TypeFromParts
    <2>5. QED
      BY <1>5, <2>2, <2>3, <2>4 DEF Resolve
  <1>6. CASE ReadPool(c)
    <2>1. UNCHANGED lastAppRow
      BY <1>6 DEF ReadPool, AskAgain
    <2> DEFINE b == app.live /\ app.pool
               row == [inv[c].row EXCEPT !.pool = b]
    <2>2. b \in BOOLEAN
      OBVIOUS
    <2> HIDE DEF b
    <2>3. row \in App
      BY <1>1, <2>2 DEF Request, App
    <2>4. [at |-> clock, row |-> row] \in [at: Int, row: App]
      BY <1>1, <2>3
    <2> HIDE DEF row
    <2>5. CASE /\ config' = [config EXCEPT ![c] = [at |-> clock, row |-> row]]
               /\ Goes(c, [inv[c] EXCEPT !.pc = "decide", !.row = row])
      <3>1. [inv[c] EXCEPT !.pc = "decide", !.row = row] \in Request
        BY <1>1, <2>3 DEF Request
      <3>2. inv' \in [Containers -> Request]
        BY <2>5, <3>1, RequestWritten
      <3>3. \E e \in [at: Int, row: App] :
              e.at <= clock /\ config' = [config EXCEPT ![c] = e]
        <4> DEFINE e == [at |-> clock, row |-> row]
        <4>1. e \in [at: Int, row: App] /\ e.at <= clock
          BY <1>1, <2>4
        <4>2. config' = [config EXCEPT ![c] = e]
          BY <2>5
        <4> HIDE DEF e
        <4>3. QED
          BY <4>1, <4>2
      <3>4. QED
        BY <2>1, <3>2, <3>3, TypeFromParts
    <2>6. CASE /\ inv[c].attempt < Retries
               /\ Goes(c, [inv[c] EXCEPT !.attempt = @ + 1])
               /\ UNCHANGED config
      <3>1. [inv[c] EXCEPT !.attempt = @ + 1] \in Request
        BY <1>1, <2>6, GateAssumption DEF Request
      <3>2. QED
        BY <2>1, <2>6, <3>1, RequestWritten, TypeFromParts
    <2>7. CASE /\ Goes(c, [inv[c] EXCEPT !.pc = "decide", !.failed = TRUE])
               /\ UNCHANGED config
      <3>1. [inv[c] EXCEPT !.pc = "decide", !.failed = TRUE] \in Request
        BY <1>1 DEF Request
      <3>2. QED
        BY <2>1, <2>7, <3>1, RequestWritten, TypeFromParts
    <2>8. QED
      BY <1>6, <2>5, <2>6, <2>7 DEF ReadPool, AskAgain, row, b
  <1>7. CASE Decide(c)
    <2>1. UNCHANGED <<config, lastAppRow>>
      BY <1>7 DEF Decide, IsPerson, IsAgent
    <2>2. PICK v \in {"human", "agent", "anon", "deny"}, failed \in BOOLEAN :
            Verdict(c, v, failed)
      BY <1>7, Decisions, Zenon
    <2>3. QED
      BY <2>1, <2>2, VerdictWritten, TypeFromParts
  <1>8. ASSUME Reply(c), \/ UNCHANGED config
                         \/ config' = [config EXCEPT ![c] = NoConfig],
               \/ UNCHANGED lastAppRow
               \/ lastAppRow' = [lastAppRow EXCEPT ![c] = NoApp]
        PROVE  TypeOK'
    <2>1. NoConfig.at <= clock
      BY <1>1, Initials, GateAssumption DEF NoConfig
    <2>2. inv' \in [Containers -> Request]
      BY <1>8, Initials, RequestWritten DEF Reply
    <2>3. QED
      BY <1>8, <2>1, <2>2, Initials, TypeFromParts
  <1>9. CASE Answers(c) \/ AppAnswers(c) \/ TooSlow(c) \/ Killed(c)
    BY <1>8, <1>9 DEF Answers, AppAnswers, TooSlow, Killed
  <1>10. CASE ReadRow(c)
    <2>1. CASE Reply(c) /\ UNCHANGED lastAppRow
      BY <1>8, <1>10, <2>1 DEF ReadRow
    <2>2. CASE lastAppRow' = [lastAppRow EXCEPT ![c] = app] /\ UNCHANGED inv
      <3>1. inv' \in [Containers -> Request] /\ UNCHANGED config
        BY <1>10, <2>2 DEF ReadRow, TypeOK
      <3>2. QED
        BY <1>1, <2>2, <3>1, TypeFromParts
    <2>3. QED
      BY <1>10, <2>1, <2>2 DEF ReadRow
  <1>11. CASE Invoke(c)
    <2>1. UNCHANGED <<config, lastAppRow>>
      BY <1>11 DEF Invoke
    <2>2. CASE Goes(c, [inv[c] EXCEPT !.pc = "running"])
      <3>1. [inv[c] EXCEPT !.pc = "running"] \in Request
        BY <1>1 DEF Request
      <3>2. QED
        BY <2>1, <2>2, <3>1, RequestWritten, TypeFromParts
    <2>3. CASE Reply(c)
      BY <1>8, <2>1, <2>3
    <2>4. QED
      BY <1>11, <2>2, <2>3 DEF Invoke
  <1>12. QED
    BY <1>2, <1>3, <1>4, <1>5, <1>6, <1>7, <1>9, <1>10, <1>11 DEF OwnStep

LEMMA ChangeCases ==
    ASSUME TypeOK, Change
    PROVE  \E new \in App : Becomes(new)
  <1>1. app \in App /\ NoApp \in App
    BY Initials DEF TypeOK
  <1>2. ASSUME NEW enforce \in BOOLEAN, NEW publicPaths \in PublicChoices
        PROVE  [app EXCEPT !.enforce = enforce, !.publicPaths = publicPaths] \in App
    <2>1. publicPaths \in SUBSET Closable
      BY GateAssumption DEF Closable
    <2>2. QED
      BY <1>1, <2>1 DEF App
  <1>3. /\ [app EXCEPT !.pool = TRUE] \in App
        /\ [app EXCEPT !.deployed = TRUE] \in App
    BY <1>1 DEF App
  <1>4. ASSUME NEW enforce \in BOOLEAN
        PROVE  [NoApp EXCEPT !.live = TRUE, !.enforce = enforce] \in App
    BY <1>1 DEF App
  <1>5. QED
    BY <1>1, <1>2, <1>3, <1>4, Zenon DEF Change

LEMMA TypeKept ==
    ASSUME TypeOK, [Next]_vars
    PROVE  TypeOK'
  <1>1. ASSUME NEW c \in Containers, OwnStep(c) PROVE TypeOK'
    BY <1>1, OwnStepTypes
  <1>2. CASE Change
    <2>1. PICK new \in App : Becomes(new)
      BY <1>2, ChangeCases
    <2>2. clock \in Nat /\ lastOpen \in [Closable -> 0..clock]
      BY GateAssumption DEF TypeOK
    <2>3. lastOpen' \in [Closable -> 0..clock]
      BY <2>1, <2>2 DEF Becomes
    <2>4. QED
      BY <2>1, <2>2, <2>3, GateAssumption DEF TypeOK, Becomes
  <1>3. CASE Tick
    <2>1. /\ clock \in Nat /\ clock' = clock + 1 /\ clock' \in 0..MaxClock
          /\ UNCHANGED <<app, changes, lastOpen, poolAt, goneAt, config, lastAppRow, inv>>
      BY <1>3, GateAssumption DEF TypeOK, Tick
    <2>2. lastOpen \in [Closable -> 0..clock']
      BY <2>1 DEF TypeOK
    <2>3. \A x \in Containers : config[x].at \in Int /\ config[x].at <= clock
      BY DEF TypeOK
    <2>4. QED
      BY <2>1, <2>2, <2>3 DEF TypeOK
  <1>4. CASE UNCHANGED vars
    BY <1>4 DEF vars, TypeOK
  <1>5. QED
    BY <1>1, <1>2, <1>3, <1>4, NextCases

LEMMA InitTypes == Init => TypeOK
  <1> SUFFICES ASSUME Init PROVE TypeOK
    OBVIOUS
  <1>1. app \in App
    BY DEF Init, App
  <1>2. 0 \in 0..MaxClock /\ 0 \in 0..MaxChanges /\ 0 \in 0..0
    BY GateAssumption
  <1>3. QED
    BY <1>1, <1>2, Initials DEF Init, TypeOK

\* Every reachable state of the gate has the type TypeOK states: the caches are
\* stamped with instants that have been (authConfigCache), and dataApiQuery asks
\* 1 + DATA_API_RETRIES times at most.
THEOREM GateTypeCorrect == Spec => []TypeOK
  <1>1. TypeOK /\ [Next]_vars => TypeOK'
    BY TypeKept
  <1>2. QED
    BY InitTypes, <1>1, PTL DEF Spec

-----------------------------------------------------------------------------
(* Deadlines.                                                              *)

\* The request of a container whose step it is: where it is now, and since when.
LEMMA OwnStepTimes ==
    ASSUME TypeOK, NEW c \in Containers, OwnStep(c)
    PROVE  \/ inv'[c].pc = "idle"
           \/ inv'[c].pc = "meter" /\ inv'[c].entered = clock /\ ~lastAppRow'[c].live
           \/ /\ inv[c].pc # "idle" /\ inv'[c].pc # "idle"
              /\ inv'[c].entered = inv[c].entered
              /\ clock < inv[c].entered + Limit \/ inv' = inv
  <1>1. /\ inv \in [Containers -> Request] /\ inv[c] \in Request
        /\ NoRequest \in Request /\ NoRequest.pc = "idle"
    BY Initials DEF TypeOK, NoRequest
  <1>2. CASE Arrive(c)
    <2>1. inv'[c].pc = "meter" /\ inv'[c].entered = clock
      BY <1>1, <1>2, RequestWritten DEF Arrive, Goes, Request
    <2>2. lastAppRow'[c] = NoApp /\ ~NoApp.live
      BY <1>2 DEF Arrive, TypeOK, NoApp
    <2>3. QED
      BY <2>1, <2>2
  <1>3. CASE Meter(c)
    <2>1. CASE Goes(c, [inv[c] EXCEPT !.pc = "config"])
      BY <1>1, <1>3, <2>1 DEF Meter, At, Goes, Request
    <2>2. CASE Verdict(c, "deny", TRUE)
      BY <1>1, <1>3, <2>2, VerdictWritten DEF Meter, At
    <2>3. QED
      BY <1>3, <2>1, <2>2 DEF Meter
  <1>4. CASE ConfigHit(c)
    BY <1>1, <1>4 DEF ConfigHit, At, Goes, Request
  <1>5. CASE Resolve(c)
    <2>1. CASE Goes(c, [inv[c] EXCEPT !.pc = "pool", !.row = [app EXCEPT !.pool = FALSE]])
      BY <1>1, <1>5, <2>1 DEF Resolve, At, Goes, Request
    <2>2. ASSUME NEW v \in {"human", "agent", "anon", "deny"}, NEW failed \in BOOLEAN,
                 Verdict(c, v, failed)
          PROVE  inv'[c].pc = "door" /\ inv'[c].entered = inv[c].entered
      BY <2>2, VerdictWritten
    <2>3. (IF inv[c].uri = "auth" THEN "anon" ELSE "deny")
            \in {"human", "agent", "anon", "deny"}
      OBVIOUS
    <2>4. At(c, "config")
      BY <1>5 DEF Resolve
    <2>5. QED
      BY <1>1, <1>5, <2>1, <2>2, <2>3, <2>4 DEF Resolve, At
  <1>6. CASE ReadPool(c)
    <2>1. At(c, "pool")
      BY <1>6 DEF ReadPool, AskAgain
    <2>2. inv'[c].entered = inv[c].entered /\ inv'[c].pc \in {"decide", "pool"}
      BY <1>6, PoolReads
    <2>3. QED
      BY <2>1, <2>2 DEF At
  <1>7. CASE Decide(c)
    BY <1>1, <1>7, Decisions, VerdictWritten DEF Decide, IsPerson, IsAgent, At
  <1>8. CASE Reply(c)
    BY <1>1, <1>8 DEF Reply, Goes
  <1>9. CASE Answers(c) \/ AppAnswers(c) \/ TooSlow(c) \/ Killed(c)
    BY <1>8, <1>9 DEF Answers, AppAnswers, TooSlow, Killed
  <1>10. CASE ReadRow(c)
    BY <1>1, <1>8, <1>10 DEF ReadRow, Enters, At
  <1>11. CASE Invoke(c)
    BY <1>1, <1>8, <1>11 DEF Invoke, Enters, At, Goes, Request
  <1>12. QED
    BY <1>2, <1>3, <1>4, <1>5, <1>6, <1>7, <1>9, <1>10, <1>11 DEF OwnStep

LEMMA InTimeKept ==
    ASSUME TypeOK, InTime, [Next]_vars
    PROVE  InTime'
  <1>1. /\ clock \in Nat /\ Limit \in Nat
        /\ \A x \in Containers : inv[x].entered \in Nat
    BY GateAssumption DEF TypeOK, Request
  <1>2. ASSUME NEW c \in Containers, OwnStep(c) PROVE InTime'
    BY <1>1, <1>2, OwnStepTimes, OthersStay DEF InTime
  <1>3. CASE Change
    BY <1>3, ChangeCases DEF Becomes, InTime
  <1>4. CASE Tick
    BY <1>1, <1>4 DEF Tick, InTime
  <1>5. CASE UNCHANGED vars
    BY <1>5 DEF vars, InTime
  <1>6. QED
    BY <1>2, <1>3, <1>4, <1>5, NextCases

LEMMA InitInTime == Init => InTime
  BY DEF Init, InTime, NoRequest

\* No application keeps the front door until its own timeout: for every Deadline
\* below Limit the timer of invoke wins (APP_DEADLINE_MS below the function's
\* and API Gateway's).
THEOREM DeadlineAlwaysFirst == Spec => []DeadlineComesFirst
  <1>1. Init => DeadlineComesFirst
    BY DEF Init, DeadlineComesFirst, NoRequest
  <1>2. TypeOK /\ DeadlineComesFirst /\ [Next]_vars => DeadlineComesFirst'
    <2> SUFFICES ASSUME TypeOK, DeadlineComesFirst, [Next]_vars
                 PROVE  DeadlineComesFirst'
      OBVIOUS
    <2>1. /\ clock \in Nat /\ Limit \in Nat /\ Deadline \in Nat /\ Deadline < Limit
          /\ \A x \in Containers : inv[x].entered \in Nat
      BY GateAssumption DEF TypeOK, Request
    <2>2. ASSUME NEW c \in Containers, OwnStep(c) PROVE DeadlineComesFirst'
      BY <2>1, <2>2, OwnStepTimes, OthersStay DEF DeadlineComesFirst
    <2>3. CASE Change
      BY <2>3, ChangeCases DEF Becomes, DeadlineComesFirst
    <2>4. CASE Tick
      BY <2>1, <2>4 DEF Tick, Due, DeadlineComesFirst
    <2>5. CASE UNCHANGED vars
      BY <2>5 DEF vars, DeadlineComesFirst
    <2>6. QED
      BY <2>2, <2>3, <2>4, <2>5, NextCases
  <1>3. QED
    BY <1>1, <1>2, GateTypeCorrect, PTL DEF Spec

-----------------------------------------------------------------------------
(* The gate, and the session it must not lose.                             *)

\* The instants the gate goes by never go back.
LEMMA HorizonsGrow ==
    ASSUME TypeOK, [Next]_vars
    PROVE  /\ \A uri \in Closable : /\ OpenUntil(uri) \in Nat /\ OpenUntil(uri)' \in Nat
                                    /\ OpenUntil(uri) <= OpenUntil(uri)'
           /\ PoolMissingUntil \in Nat /\ PoolMissingUntil' \in Nat
           /\ PoolMissingUntil <= PoolMissingUntil'
  <1>1. /\ clock \in Nat /\ poolAt \in Nat /\ poolAt <= clock
        /\ \A uri \in Closable : lastOpen[uri] \in Nat /\ lastOpen[uri] <= clock
    BY GateAssumption DEF TypeOK
  <1>2. CASE UNCHANGED <<clock, app, lastOpen, poolAt>>
    BY <1>1, <1>2 DEF OpenUntil, PoolMissingUntil, Gated
  <1>3. CASE Change
    <2>1. PICK new \in App : Becomes(new)
      BY <1>3, ChangeCases
    <2>2. \A uri \in Closable : lastOpen'[uri] = IF Gated(app, uri) THEN lastOpen[uri] ELSE clock
      BY <2>1 DEF Becomes
    <2>3. UNCHANGED clock /\ app' = new
          /\ poolAt' = IF new.pool /\ ~app.pool THEN clock ELSE poolAt
      BY <2>1 DEF Becomes
    <2>4. ASSUME NEW uri \in Closable
          PROVE  /\ OpenUntil(uri) \in Nat /\ OpenUntil(uri)' \in Nat
                 /\ OpenUntil(uri) <= OpenUntil(uri)'
      BY <1>1, <2>2, <2>3 DEF OpenUntil
    <2>5. ASSUME ~app.live PROVE ~app'.pool
      <3>1. \/ app' = NoApp
            \/ \E enforce \in BOOLEAN :
                 app' = [NoApp EXCEPT !.live = TRUE, !.enforce = enforce]
        BY <1>3, <2>5, Zenon DEF Change, Becomes
      <3>2. /\ NoApp.pool = FALSE
            /\ \A enforce \in BOOLEAN :
                 [NoApp EXCEPT !.live = TRUE, !.enforce = enforce].pool = FALSE
        BY DEF NoApp
      <3>3. QED
        BY <3>1, <3>2, Zenon
    <2>6. /\ PoolMissingUntil \in Nat /\ PoolMissingUntil' \in Nat
          /\ PoolMissingUntil <= PoolMissingUntil'
      BY <1>1, <2>3, <2>5 DEF PoolMissingUntil
    <2>7. QED
      BY <2>4, <2>6
  <1>4. CASE Tick
    BY <1>1, <1>4 DEF Tick, OpenUntil, PoolMissingUntil, Gated
  <1>5. CASE UNCHANGED vars
    BY <1>2, <1>5 DEF vars
  <1>6. ASSUME NEW c \in Containers, OwnStep(c) PROVE UNCHANGED <<clock, app, lastOpen, poolAt>>
    BY <1>6, OthersStay
  <1>7. QED
    BY <1>2, <1>3, <1>4, <1>5, <1>6, NextCases

\* What a container holds stays true of it while it does nothing.
LEMMA HeldStays ==
    ASSUME TypeOK, [Next]_vars, NEW c \in Containers,
           inv'[c] = inv[c], config'[c] = config[c]
    PROVE  /\ \A uri \in Closable : GateFor(c, uri) => GateFor(c, uri)'
           /\ SessionFor(c) => SessionFor(c)'
  <1>1. /\ Limit \in Nat /\ ConfigLife \in Nat
        /\ config[c].at \in Int /\ inv[c].entered \in Nat
    BY GateAssumption DEF TypeOK, Request
  <1>2. ASSUME NEW uri \in Closable, GateFor(c, uri) PROVE GateFor(c, uri)'
    <2>1. /\ OpenUntil(uri) \in Nat /\ OpenUntil(uri)' \in Nat
          /\ OpenUntil(uri) <= OpenUntil(uri)'
      BY HorizonsGrow
    <2>2. QED
      BY <1>1, <1>2, <2>1 DEF GateFor, Passed, Gated
  <1>3. ASSUME SessionFor(c) PROVE SessionFor(c)'
    BY <1>1, <1>3, HorizonsGrow DEF SessionFor
  <1>4. QED
    BY <1>2, <1>3

\* A container that answers, or starts anew, holds no more than its cache.
LEMMA RepliesHold ==
    ASSUME TypeOK, [Next]_vars, NEW c \in Containers, Reply(c),
           config'[c] = config[c] \/ config'[c] = NoConfig
    PROVE  /\ \A uri \in Closable : GateFor(c, uri) => GateFor(c, uri)'
           /\ SessionFor(c) => SessionFor(c)'
  <1>1. inv'[c].pc = "idle"
    BY Initials DEF Reply, Goes, NoRequest, TypeOK
  <1>2. /\ Limit \in Nat /\ Limit > 0 /\ ConfigLife \in Nat /\ config[c].at \in Int
        /\ NoConfig.at \in Int /\ NoConfig.at <= 0
    BY Initials, GateAssumption DEF TypeOK, NoConfig
  <1>3. ASSUME NEW uri \in Closable, GateFor(c, uri) PROVE GateFor(c, uri)'
    <2>1. /\ OpenUntil(uri) \in Nat /\ OpenUntil(uri)' \in Nat
          /\ OpenUntil(uri) <= OpenUntil(uri)'
      BY HorizonsGrow
    <2>2. ~Gated(config'[c].row, uri) => config'[c].at < OpenUntil(uri)' + Limit
      <3>1. CASE config'[c] = config[c]
        BY <1>2, <1>3, <2>1, <3>1 DEF GateFor
      <3>2. CASE config'[c] = NoConfig
        BY <1>2, <2>1, <3>2
      <3>3. QED
        BY <3>1, <3>2
    <2>3. QED
      BY <1>1, <2>2 DEF GateFor, Passed, Gated
  <1>4. ASSUME SessionFor(c) PROVE SessionFor(c)'
    <2>1. ~config'[c].row.pool => config'[c].at <= PoolMissingUntil'
      <3>1. CASE config'[c] = config[c]
        BY <1>2, <1>4, <3>1, HorizonsGrow DEF SessionFor
      <3>2. CASE config'[c] = NoConfig
        BY <1>2, <3>2, HorizonsGrow
      <3>3. QED
        BY <3>1, <3>2
    <2>2. QED
      BY <1>1, <2>1 DEF SessionFor
  <1>5. QED
    BY <1>3, <1>4

\* A verdict holds if its ground was good recently.
LEMMA VerdictsHold ==
    ASSUME TypeOK, [Next]_vars, NEW c \in Containers, config'[c] = config[c],
           NEW v \in {"human", "agent", "anon", "deny"}, NEW failed \in BOOLEAN,
           Verdict(c, v, failed),
           \A uri \in Closable : GateFor(c, uri), SessionFor(c),
           (v = "anon" /\ inv[c].uri \in Closable)
             => inv[c].entered < OpenUntil(inv[c].uri) + ConfigLife + Limit,
           (v # "human" /\ "human" \in inv[c].cookies /\ ~failed /\ ~inv[c].failed)
             => inv[c].entered <= PoolMissingUntil + ConfigLife
    PROVE  (\A uri \in Closable : GateFor(c, uri)') /\ SessionFor(c)'
  <1>1. /\ Limit \in Nat /\ ConfigLife \in Nat
        /\ config[c].at \in Int /\ inv[c].entered \in Nat
    BY GateAssumption DEF TypeOK, Request
  <1>2. /\ inv'[c].pc = "door" /\ inv'[c].verdict = v
        /\ inv'[c].uri = inv[c].uri /\ inv'[c].entered = inv[c].entered
        /\ inv'[c].cookies = inv[c].cookies
        /\ inv'[c].failed = (inv[c].failed \/ failed)
    BY VerdictWritten
  <1>3. ASSUME NEW uri \in Closable PROVE GateFor(c, uri)'
    <2>1. /\ OpenUntil(uri) \in Nat /\ OpenUntil(uri)' \in Nat
          /\ OpenUntil(uri) <= OpenUntil(uri)'
      BY HorizonsGrow
    <2>2. ~Gated(config'[c].row, uri) => config'[c].at < OpenUntil(uri)' + Limit
      BY <1>1, <2>1 DEF GateFor
    <2>3. (v = "anon" /\ inv'[c].uri = uri)
            => inv'[c].entered < OpenUntil(uri)' + ConfigLife + Limit
      BY <1>1, <1>2, <2>1
    <2>4. QED
      BY <1>2, <2>2, <2>3 DEF GateFor, Passed, Gated
  <1>4. SessionFor(c)'
    <2>1. ~config'[c].row.pool => config'[c].at <= PoolMissingUntil'
      BY <1>1, HorizonsGrow DEF SessionFor
    <2>2. ~inv'[c].failed => ~inv[c].failed /\ ~failed
      BY <1>2, Zenon
    <2>3. ASSUME ~inv'[c].failed, "human" \in inv'[c].cookies, inv'[c].verdict # "human"
          PROVE  inv'[c].entered <= PoolMissingUntil' + ConfigLife
      <3>1. inv[c].entered <= PoolMissingUntil + ConfigLife
        BY <1>2, <2>2, <2>3, Zenon
      <3>2. inv'[c].entered = inv[c].entered
        BY <1>2
      <3>3. QED
        BY <1>1, <3>1, <3>2, HorizonsGrow
    <2>4. inv'[c].pc = "door"
      BY <1>2
    <2>5. QED
      BY <2>1, <2>3, <2>4 DEF SessionFor
  <1>5. QED
    BY <1>3, <1>4

LEMMA OwnStepHolds ==
    ASSUME TypeOK, InTime, [Next]_vars, NEW c \in Containers, OwnStep(c),
           \A uri \in Closable : GateFor(c, uri), SessionFor(c)
    PROVE  (\A uri \in Closable : GateFor(c, uri)') /\ SessionFor(c)'
  <1>1. /\ inv \in [Containers -> Request] /\ inv[c] \in Request /\ clock \in Nat
        /\ DOMAIN config = Containers /\ config[c].at \in Int /\ inv[c].entered \in Nat
        /\ Limit \in Nat /\ Limit > 0 /\ ConfigLife \in Nat
        /\ inv[c].pc # "idle" => inv[c].entered <= clock
    BY GateAssumption DEF TypeOK, InTime, Request
  <1>2. /\ \A uri \in Closable : /\ OpenUntil(uri) \in Nat
                                 /\ OpenUntil(uri)' = OpenUntil(uri)
        /\ PoolMissingUntil \in Nat /\ PoolMissingUntil' = PoolMissingUntil
    BY OthersStay, HorizonsGrow DEF OpenUntil, PoolMissingUntil, Gated
  <1>3. ASSUME inv'[c].pc \in {"meter", "config"}, config'[c] = config[c]
        PROVE  (\A uri \in Closable : GateFor(c, uri)') /\ SessionFor(c)'
    BY <1>2, <1>3 DEF GateFor, SessionFor, Passed, Gated
  <1>4. CASE Arrive(c)
    <2>1. inv'[c].pc = "meter" /\ config'[c] = config[c]
      BY <1>1, <1>4, Initials DEF Arrive, Goes, Request
    <2>2. QED
      BY <1>3, <2>1
  <1>5. CASE Meter(c)
    <2>1. config'[c] = config[c]
      BY <1>5 DEF Meter
    <2>2. CASE Goes(c, [inv[c] EXCEPT !.pc = "config"])
      BY <1>1, <1>3, <2>1, <2>2 DEF Goes, Request
    <2>3. CASE Verdict(c, "deny", TRUE)
      BY <2>1, <2>3, VerdictsHold
    <2>4. QED
      BY <1>5, <2>2, <2>3 DEF Meter
  <1>6. CASE ConfigHit(c)
    <2>1. /\ inv'[c].pc = "decide" /\ inv'[c].row = config[c].row
          /\ inv'[c].entered = inv[c].entered /\ config'[c] = config[c]
      BY <1>1, <1>6 DEF ConfigHit, Goes, Request
    <2>2. inv[c].entered <= clock /\ clock < config[c].at + ConfigLife
      BY <1>1, <1>6 DEF ConfigHit, At, Fresh
    <2>3. ASSUME NEW uri \in Closable PROVE GateFor(c, uri)'
      <3>1. ~Gated(config[c].row, uri) => config[c].at < OpenUntil(uri) + Limit
        BY DEF GateFor
      <3>2. QED
        BY <1>1, <1>2, <2>1, <2>2, <3>1 DEF GateFor, Passed, Gated
    <2>4. SessionFor(c)'
      BY <1>1, <1>2, <2>1, <2>2 DEF SessionFor
    <2>5. QED
      BY <2>3, <2>4
  <1>7. CASE Resolve(c)
    <2>1. config'[c] = config[c] /\ inv[c].pc = "config"
      BY <1>7 DEF Resolve, At
    <2>2. CASE Goes(c, [inv[c] EXCEPT !.pc = "pool", !.row = [app EXCEPT !.pool = FALSE]])
      <3>1. /\ inv'[c].pc = "pool" /\ inv'[c].row = [app EXCEPT !.pool = FALSE]
            /\ inv'[c].entered = inv[c].entered
        BY <1>1, <2>2 DEF Goes, Request
      <3>2. \A uri : Gated(inv'[c].row, uri) <=> Gated(app, uri)
        BY <3>1 DEF Gated, TypeOK, App
      <3>3. ASSUME NEW uri \in Closable PROVE GateFor(c, uri)'
        <4>1. ~Gated(app, uri) => OpenUntil(uri) = clock
          BY DEF OpenUntil
        <4>2. (~Gated(config[c].row, uri) => config[c].at < OpenUntil(uri) + Limit)'
          BY <1>2, <2>1 DEF GateFor, Gated
        <4>3. (inv[c].pc = "pool" /\ ~Gated(inv[c].row, uri) => inv[c].entered <= OpenUntil(uri))'
          BY <1>1, <1>2, <2>1, <3>1, <3>2, <4>1 DEF Gated
        <4>4. QED
          BY <3>1, <4>2, <4>3 DEF GateFor, Passed
      <3>4. SessionFor(c)'
        BY <1>2, <2>1, <3>1 DEF SessionFor
      <3>5. QED
        BY <3>3, <3>4
    <2>3. CASE ~app.live /\ Verdict(c, "anon", FALSE)
      <3>1. /\ \A uri \in Closable : OpenUntil(uri) = clock
            /\ PoolMissingUntil = clock
        BY <2>3 DEF OpenUntil, PoolMissingUntil, Gated
      <3>2. /\ inv[c].uri \in Closable
                 => inv[c].entered < OpenUntil(inv[c].uri) + ConfigLife + Limit
            /\ inv[c].entered <= PoolMissingUntil + ConfigLife
        BY <1>1, <2>1, <3>1
      <3>3. QED
        BY <2>1, <2>3, <3>2, VerdictsHold
    <2>4. CASE Verdict(c, IF inv[c].uri = "auth" THEN "anon" ELSE "deny", TRUE)
      <3>1. CASE inv[c].uri = "auth"
        <4>1. Verdict(c, "anon", TRUE) /\ inv[c].uri \notin Closable
          BY <2>4, <3>1 DEF Closable
        <4>2. QED
          BY <2>1, <4>1, VerdictsHold
      <3>2. CASE inv[c].uri # "auth"
        <4>1. Verdict(c, "deny", TRUE)
          BY <2>4, <3>2
        <4>2. QED
          BY <2>1, <4>1, VerdictsHold
      <3>3. QED
        BY <3>1, <3>2
    <2>5. QED
      BY <1>7, <2>2, <2>3, <2>4 DEF Resolve
  <1>8. CASE ReadPool(c)
    <2>1. inv[c].pc = "pool" /\ clock < inv[c].entered + Limit
      BY <1>8 DEF ReadPool, AskAgain, At
    <2>2. /\ inv'[c].entered = inv[c].entered
          /\ \A uri : Gated(inv'[c].row, uri) <=> Gated(inv[c].row, uri)
      BY <1>8, PoolReads
    <2>3. \/ /\ inv'[c].pc = "decide" /\ inv'[c].row = config'[c].row
             /\ config'[c].at = clock
             /\ config'[c].row.pool <=> (app.live /\ app.pool)
          \/ inv'[c].pc = "pool" /\ UNCHANGED config
          \/ inv'[c].pc = "decide" /\ inv'[c].failed /\ UNCHANGED config
      BY <1>8, PoolReads
    <2>4. ASSUME NEW uri \in Closable PROVE GateFor(c, uri)'
      <3>1. ~Gated(inv[c].row, uri) => inv[c].entered <= OpenUntil(uri)
        BY <2>1 DEF GateFor
      <3>2. ~Gated(config'[c].row, uri) => config'[c].at < OpenUntil(uri) + Limit
        <4>1. CASE UNCHANGED config
          BY <4>1 DEF GateFor
        <4>2. CASE inv'[c].row = config'[c].row /\ config'[c].at = clock
          BY <1>1, <1>2, <2>1, <2>2, <3>1, <4>2
        <4>3. QED
          BY <2>3, <4>1, <4>2
      <3>3. ~Gated(inv'[c].row, uri) => inv'[c].entered <= OpenUntil(uri)
        BY <2>2, <3>1
      <3>4. inv'[c].pc \in {"pool", "decide"}
        BY <2>3
      <3>5. QED
        BY <1>1, <1>2, <2>2, <3>2, <3>3, <3>4 DEF GateFor, Passed, Gated
    <2>5. SessionFor(c)'
      <3>1. CASE UNCHANGED config /\ inv'[c].pc = "pool"
        BY <1>2, <3>1 DEF SessionFor
      <3>2. CASE UNCHANGED config /\ inv'[c].pc = "decide" /\ inv'[c].failed
        BY <1>2, <3>2 DEF SessionFor
      <3>3. CASE /\ inv'[c].pc = "decide" /\ inv'[c].row = config'[c].row
                 /\ config'[c].at = clock
                 /\ config'[c].row.pool <=> (app.live /\ app.pool)
        <4>1. ~config'[c].row.pool => PoolMissingUntil = clock
          BY <3>3 DEF PoolMissingUntil
        <4>2. inv'[c].entered <= clock
          BY <1>1, <2>1, <2>2
        <4>3. QED
          BY <1>1, <1>2, <2>2, <3>3, <4>1, <4>2 DEF SessionFor
      <3>4. QED
        BY <2>3, <3>1, <3>2, <3>3
    <2>6. QED
      BY <2>4, <2>5
  <1>9. CASE Decide(c)
    <2>1. config'[c] = config[c] /\ inv[c].pc = "decide"
      BY <1>9 DEF Decide, IsPerson, IsAgent, At
    <2>2. PICK v \in {"human", "agent", "anon", "deny"}, failed \in BOOLEAN :
            /\ Verdict(c, v, failed)
            /\ v = "anon" => ~Gated(inv[c].row, inv[c].uri)
            /\ ("human" \in inv[c].cookies /\ v # "human" /\ ~failed) => ~inv[c].row.pool
      BY <1>9, Decisions, Zenon
    <2>3. (v = "anon" /\ inv[c].uri \in Closable)
            => inv[c].entered < OpenUntil(inv[c].uri) + ConfigLife + Limit
      BY <2>1, <2>2 DEF GateFor
    <2>4. (v # "human" /\ "human" \in inv[c].cookies /\ ~failed /\ ~inv[c].failed)
            => inv[c].entered <= PoolMissingUntil + ConfigLife
      BY <2>1, <2>2 DEF SessionFor
    <2>5. QED
      BY <2>1, <2>2, <2>3, <2>4, VerdictsHold
  <1>10. CASE Answers(c) \/ AppAnswers(c) \/ TooSlow(c) \/ Killed(c)
    <2>1. Reply(c) /\ (config'[c] = config[c] \/ config'[c] = NoConfig)
      BY <1>1, <1>10 DEF Answers, AppAnswers, TooSlow, Killed
    <2>2. QED
      BY <2>1, RepliesHold
  <1>11. CASE ReadRow(c)
    <2>1. config'[c] = config[c] /\ (Reply(c) \/ inv'[c] = inv[c])
      BY <1>11 DEF ReadRow
    <2>2. QED
      BY <2>1, HeldStays, RepliesHold
  <1>12. CASE Invoke(c)
    <2>1. config'[c] = config[c] /\ inv[c].pc = "door"
      BY <1>12 DEF Invoke, Enters, At
    <2>2. CASE Goes(c, [inv[c] EXCEPT !.pc = "running"])
      <3>1. /\ inv'[c].pc = "running" /\ inv'[c].verdict = inv[c].verdict
            /\ inv'[c].uri = inv[c].uri /\ inv'[c].entered = inv[c].entered
        BY <1>1, <2>2 DEF Goes, Request
      <3>2. QED
        BY <1>2, <2>1, <3>1 DEF GateFor, SessionFor, Passed, Gated
    <2>3. CASE Reply(c)
      BY <2>1, <2>3, RepliesHold
    <2>4. QED
      BY <1>12, <2>2, <2>3 DEF Invoke
  <1>13. QED
    BY <1>4, <1>5, <1>6, <1>7, <1>8, <1>9, <1>10, <1>11, <1>12 DEF OwnStep

LEMMA CachesKept ==
    ASSUME TypeOK, InTime, GateInvariant, SessionInvariant, [Next]_vars
    PROVE  GateInvariant' /\ SessionInvariant'
  <1>1. ASSUME NEW c \in Containers, inv'[c] = inv[c], config'[c] = config[c]
        PROVE  (\A uri \in Closable : GateFor(c, uri)') /\ SessionFor(c)'
    BY <1>1, HeldStays DEF GateInvariant, SessionInvariant
  <1>2. ASSUME NEW c \in Containers, OwnStep(c) PROVE GateInvariant' /\ SessionInvariant'
    <2>1. (\A uri \in Closable : GateFor(c, uri)') /\ SessionFor(c)'
      BY <1>2, OwnStepHolds DEF GateInvariant, SessionInvariant
    <2>2. \A x \in Containers \ {c} : inv'[x] = inv[x] /\ config'[x] = config[x]
      BY <1>2, OthersStay
    <2>3. \A x \in Containers : (\A uri \in Closable : GateFor(x, uri)') /\ SessionFor(x)'
      BY <1>1, <2>1, <2>2, Zenon
    <2>4. QED
      BY <2>3 DEF GateInvariant, SessionInvariant
  <1>3. CASE UNCHANGED <<inv, config>>
    <2>1. \A x \in Containers : (\A uri \in Closable : GateFor(x, uri)') /\ SessionFor(x)'
      BY <1>1, <1>3
    <2>2. QED
      BY <2>1 DEF GateInvariant, SessionInvariant
  <1>4. CASE Change \/ Tick \/ UNCHANGED vars
    BY <1>3, <1>4, ChangeCases DEF Becomes, Tick, vars
  <1>5. QED
    BY <1>2, <1>4, NextCases

LEMMA InitCaches == Init => GateInvariant /\ SessionInvariant
  <1> SUFFICES ASSUME Init, NEW c \in Containers
               PROVE  (\A uri \in Closable : GateFor(c, uri)) /\ SessionFor(c)
    BY DEF GateInvariant, SessionInvariant
  <1>1. /\ clock = 0 /\ config[c].at = -ConfigLife /\ inv[c].pc = "idle"
        /\ ConfigLife \in Nat /\ Limit \in Nat /\ Limit > 0
        /\ \A uri \in Closable : lastOpen[uri] = 0
        /\ poolAt = 0
    BY GateAssumption DEF Init, NoConfig, NoRequest
  <1>2. /\ \A uri \in Closable : OpenUntil(uri) = 0
        /\ PoolMissingUntil = 0
    BY <1>1 DEF OpenUntil, PoolMissingUntil
  <1>3. QED
    BY <1>1, <1>2 DEF GateFor, SessionFor, Passed

LEMMA CachesInvariant == Spec => [](TypeOK /\ InTime /\ GateInvariant /\ SessionInvariant)
  <1> DEFINE I == TypeOK /\ InTime /\ GateInvariant /\ SessionInvariant
  <1>1. Init => I
    BY InitTypes, InitInTime, InitCaches
  <1>2. I /\ [Next]_vars => I'
    BY TypeKept, InTimeKept, CachesKept
  <1>3. QED
    BY <1>1, <1>2, PTL DEF Spec

\* Closing a path takes effect in time, for every cache life and every timeout:
\* whatever says that the path is open says so of an instant at most a request,
\* a cache entry's life and a request ago (readAuthConfig, gatedPath).
THEOREM GateAlwaysTakesEffect == Spec => []GateTakesEffect
  <1>1. TypeOK /\ InTime /\ GateInvariant => GateTakesEffect
    <2> SUFFICES ASSUME TypeOK, InTime, GateInvariant,
                        NEW c \in Containers, Passed(c, "anon"), Gated(app, inv[c].uri)
                 PROVE  clock < lastOpen[inv[c].uri] + ConfigLife + 2 * Limit
      BY DEF GateTakesEffect
    <2> DEFINE uri == inv[c].uri
    <2>1. uri \in Closable
      BY DEF Gated
    <2>2. OpenUntil(uri) = lastOpen[uri]
      BY DEF OpenUntil
    <2>3. inv[c].entered < OpenUntil(uri) + ConfigLife + Limit
      BY <2>1 DEF GateInvariant, GateFor
    <2>4. inv[c].pc # "idle"
      BY DEF Passed
    <2>5. clock <= inv[c].entered + Limit
      BY <2>4 DEF InTime
    <2>6. /\ clock \in Nat /\ inv[c].entered \in Nat /\ lastOpen[uri] \in Nat
          /\ ConfigLife \in Nat /\ Limit \in Nat
      BY <2>1, GateAssumption DEF TypeOK, Request
    <2> HIDE DEF uri
    <2>7. QED
      BY <2>2, <2>3, <2>5, <2>6 DEF uri
  <1>2. QED
    BY <1>1, CachesInvariant, PTL

\* No one with a session is taken for somebody else for longer than a cache entry
\* lives, unless a call of this very request failed (readAuthConfig caches a pool
\* it read and never one it could not read).
THEOREM SessionAlwaysHonoured == Spec => []SessionHonoured
  <1>1. TypeOK /\ InTime /\ SessionInvariant => SessionHonoured
    <2> SUFFICES ASSUME TypeOK, InTime, SessionInvariant, NEW c \in Containers,
                        inv[c].pc = "door", "human" \in inv[c].cookies, ~inv[c].failed,
                        app.live, app.pool, clock > poolAt + ConfigLife + Limit,
                        inv[c].verdict # "human"
                 PROVE  FALSE
      BY DEF SessionHonoured
    <2>1. inv[c].entered <= PoolMissingUntil + ConfigLife
      BY DEF SessionInvariant, SessionFor
    <2>2. PoolMissingUntil = poolAt
      BY DEF PoolMissingUntil
    <2>3. clock <= inv[c].entered + Limit
      BY DEF InTime
    <2>4. /\ clock \in Nat /\ inv[c].entered \in Nat /\ poolAt \in Nat
          /\ ConfigLife \in Nat /\ Limit \in Nat
      BY GateAssumption DEF TypeOK, Request
    <2>5. QED
      BY <2>1, <2>2, <2>3, <2>4
  <1>2. QED
    BY <1>1, CachesInvariant, PTL

-----------------------------------------------------------------------------
(* The application the front door runs.                                    *)

\* A container remembers the row it had, or the live one, or none.
LEMMA RowsRead ==
    ASSUME TypeOK, NEW c \in Containers, OwnStep(c)
    PROVE  lastAppRow'[c] = lastAppRow[c] \/ app.live \/ ~lastAppRow'[c].live
  <1>1. c \in DOMAIN lastAppRow /\ ~NoApp.live
    BY DEF TypeOK, NoApp
  <1>2. CASE Arrive(c) \/ Killed(c)
    BY <1>1, <1>2 DEF Arrive, Killed
  <1>3. CASE Resolve(c) \/ ReadRow(c)
    BY <1>3 DEF Resolve, ReadRow
  <1>4. CASE ~(Arrive(c) \/ Killed(c) \/ Resolve(c) \/ ReadRow(c))
    BY <1>4 DEF OwnStep, Meter, ConfigHit, ReadPool, AskAgain, Decide, IsPerson, IsAgent, Answers, Invoke,
                AppAnswers, TooSlow
  <1>5. QED
    BY <1>2, <1>3, <1>4

\* Running a page of the site takes a row.
LEMMA RunsFromRow ==
    ASSUME TypeOK, NEW c \in Containers, OwnStep(c),
           inv'[c].pc = "running", inv'[c].uri # "auth"
    PROVE  /\ inv[c].pc # "idle" /\ inv'[c].entered = inv[c].entered
           /\ lastAppRow[c].live \/ inv'[c] = inv[c]
  <1>1. inv \in [Containers -> Request] /\ inv[c] \in Request
    BY DEF TypeOK
  <1>2. /\ inv[c].pc # "idle" /\ inv'[c].entered = inv[c].entered
    BY OwnStepTimes
  <1>3. lastAppRow[c].live \/ inv'[c] = inv[c]
    <2>1. ASSUME Reply(c) PROVE FALSE
      BY <1>1, <2>1 DEF Reply, Goes, NoRequest
    <2>2. ASSUME NEW v \in {"human", "agent", "anon", "deny"}, NEW failed \in BOOLEAN,
                 Verdict(c, v, failed)
          PROVE  FALSE
      BY <2>2, VerdictWritten
    <2>3. CASE Invoke(c)
      BY <1>1, <2>1, <2>3 DEF Invoke, Goes, Request
    <2>4. CASE ReadRow(c)
      BY <2>1, <2>4 DEF ReadRow
    <2>5. CASE Arrive(c)
      BY <1>1, <2>5, Initials DEF Arrive, Goes, Request
    <2>6. CASE Meter(c)
      <3>1. ~Verdict(c, "deny", TRUE)
        BY <2>2
      <3>2. inv' = [inv EXCEPT ![c] = [inv[c] EXCEPT !.pc = "config"]]
        BY <2>6, <3>1 DEF Meter, Goes
      <3>3. inv'[c].pc = "config"
        BY <1>1, <3>2 DEF Request
      <3>4. QED
        BY <3>3
    <2>7. CASE ConfigHit(c)
      <3>1. inv'[c].pc \in {"decide", "gate"}
        BY <1>1, <2>7 DEF ConfigHit, Goes, Request
      <3>2. QED
        BY <3>1
    <2>8. CASE Resolve(c)
      <3>1. (IF inv[c].uri = "auth" THEN "anon" ELSE "deny")
              \in {"human", "agent", "anon", "deny"}
        OBVIOUS
      <3>2. ~ Goes(c, [inv[c] EXCEPT !.pc = "pool", !.row = [app EXCEPT !.pool = FALSE]])
        <4> SUFFICES ASSUME Goes(c, [inv[c] EXCEPT !.pc = "pool",
                                                   !.row = [app EXCEPT !.pool = FALSE]])
                     PROVE  FALSE
          OBVIOUS
        <4>1. inv'[c].pc = "pool"
          BY <1>1 DEF Goes, Request
        <4>2. QED
          BY <4>1
      <3>3. QED
        BY <2>2, <2>8, <3>1, <3>2, Zenon DEF Resolve
    <2>9. CASE ReadPool(c)
      BY <2>9, PoolReads
    <2>10. CASE Decide(c)
      BY <2>2, <2>10, Decisions, Zenon
    <2>11. CASE Answers(c) \/ AppAnswers(c) \/ TooSlow(c) \/ Killed(c)
      BY <2>1, <2>11 DEF Answers, AppAnswers, TooSlow, Killed
    <2>12. QED
      BY <2>3, <2>4, <2>5, <2>6, <2>7, <2>8, <2>9, <2>10, <2>11 DEF OwnStep
  <1>4. QED
    BY <1>2, <1>3

LEMMA RowsKept ==
    ASSUME TypeOK, InTime, RowInvariant, GoneNotRun, [Next]_vars
    PROVE  RowInvariant' /\ GoneNotRun'
  <1>1. /\ clock \in Nat /\ goneAt \in Nat
        /\ \A x \in Containers : inv[x].entered \in Nat
    BY GateAssumption DEF TypeOK, Request
  <1>2. ASSUME NEW c \in Containers, OwnStep(c) PROVE RowInvariant' /\ GoneNotRun'
    <2>1. /\ UNCHANGED <<app, goneAt>>
          /\ \A x \in Containers \ {c} : inv'[x] = inv[x] /\ lastAppRow'[x] = lastAppRow[x]
      BY <1>2, OthersStay
    <2>2. (inv'[c].pc # "idle" /\ lastAppRow'[c].live) => app.live \/ goneAt >= inv'[c].entered
      <3>1. \/ inv'[c].pc = "idle" \/ ~lastAppRow'[c].live
            \/ inv[c].pc # "idle" /\ inv'[c].entered = inv[c].entered
        BY <1>2, OwnStepTimes
      <3>2. lastAppRow'[c] = lastAppRow[c] \/ app.live \/ ~lastAppRow'[c].live
        BY <1>2, RowsRead
      <3>3. QED
        BY <3>1, <3>2 DEF RowInvariant
    <2>3. (inv'[c].pc = "running" /\ inv'[c].uri # "auth")
            => app.live \/ goneAt >= inv'[c].entered
      BY <1>2, RunsFromRow DEF RowInvariant, GoneNotRun
    <2>4. QED
      BY <2>1, <2>2, <2>3 DEF RowInvariant, GoneNotRun
  <1>3. CASE Change
    <2>1. /\ UNCHANGED <<inv, lastAppRow, clock>>
          /\ \/ app'.live \/ goneAt' = clock
             \/ ~app.live /\ goneAt' = goneAt
          /\ goneAt' = goneAt \/ goneAt' = clock
      BY <1>3, ChangeCases DEF Becomes
    <2>2. ASSUME NEW x \in Containers, inv[x].pc # "idle",
                 app.live \/ goneAt >= inv[x].entered
          PROVE  app'.live \/ goneAt' >= inv[x].entered
      BY <1>1, <2>1, <2>2 DEF InTime
    <2>3. QED
      BY <2>1, <2>2 DEF RowInvariant, GoneNotRun
  <1>4. CASE Tick \/ UNCHANGED vars
    BY <1>4 DEF Tick, vars, RowInvariant, GoneNotRun
  <1>5. QED
    BY <1>2, <1>3, <1>4, NextCases

\* Whatever a container remembers of an application, the front door runs no page
\* of one that was gone before the request arrived: handler clears lastAppRow.
THEOREM GoneNeverRun == Spec => []GoneNotRun
  <1> DEFINE I == TypeOK /\ InTime /\ RowInvariant /\ GoneNotRun
  <1>1. Init => I
    <2>1. Init => RowInvariant /\ GoneNotRun
      BY DEF Init, RowInvariant, GoneNotRun, NoRequest
    <2>2. QED
      BY <2>1, InitTypes, InitInTime
  <1>2. I /\ [Next]_vars => I'
    BY TypeKept, InTimeKept, RowsKept
  <1>3. QED
    BY <1>1, <1>2, PTL DEF Spec

\* The front door: what it runs is there, and is answered for in time (invoke).
THEOREM DoorAlwaysKept == Spec => []DoorKept
  <1>1. GoneNotRun /\ DeadlineComesFirst => DoorKept
    BY DEF DoorKept
  <1>2. QED
    BY <1>1, GoneNeverRun, DeadlineAlwaysFirst, PTL

-----------------------------------------------------------------------------
(* The frontend authorizer implements AppGate, for every number of         *)
(* containers, every cache life, deadline, timeout and number of retries.  *)

\* The request of one container is all that a step of its own changes.
LEMMA SeenWritten ==
    ASSUME TypeOK, NEW c \in Containers, OwnStep(c)
    PROVE  /\ SeenNow' = [SeenNow EXCEPT ![c] = Seen(inv'[c])]
           /\ UNCHANGED <<clock, ClosedNow, lastOpen>>
  <1>1. /\ UNCHANGED <<clock, app, lastOpen>>
        /\ \A x \in Containers \ {c} : inv'[x] = inv[x]
    BY OthersStay
  <1>2. UNCHANGED ClosedNow
    BY <1>1 DEF ClosedNow, Gated
  <1>3. \A x \in Containers : SeenNow'[x] = [SeenNow EXCEPT ![c] = Seen(inv'[c])][x]
    BY <1>1 DEF SeenNow
  <1>4. QED
    BY <1>1, <1>2, <1>3 DEF SeenNow

\* A step that shows nothing of itself outside.
LEMMA StepsUnseen ==
    ASSUME TypeOK, NEW c \in Containers, OwnStep(c), Seen(inv'[c]) = Seen(inv[c])
    PROVE  UNCHANGED Gate!gateVars
  <1>1. [SeenNow EXCEPT ![c] = Seen(inv[c])] = SeenNow
    BY DEF SeenNow
  <1>2. QED
    BY <1>1, SeenWritten DEF Gate!gateVars

LEMMA StepsEnd ==
    ASSUME TypeOK, NEW c \in Containers, OwnStep(c),
           inv[c].pc # "idle", inv'[c].pc = "idle"
    PROVE  Gate!Ends(c)
  <1>1. SeenNow[c] # Gate!Idle /\ Seen(inv'[c]) = Gate!Idle
    BY DEF SeenNow, Seen, Gate!Idle
  <1>2. QED
    BY <1>1, SeenWritten DEF Gate!Ends

LEMMA StepsTell ==
    ASSUME TypeOK, NEW c \in Containers, OwnStep(c),
           inv[c].pc \in {"meter", "config", "pool", "decide"},
           NEW v \in {"human", "agent", "anon", "deny"}, NEW failed \in BOOLEAN,
           Verdict(c, v, failed),
           v \in {"human", "agent"} => v \in inv[c].cookies,
           (v = "anon" /\ inv[c].uri \in ClosedNow)
             => clock < lastOpen[inv[c].uri] + (ConfigLife + 2 * Limit)
    PROVE  Gate!Tells(c)
  <1> DEFINE q == SeenNow[c]
  <1>1. q = [pc |-> "asking", uri |-> inv[c].uri, cookies |-> inv[c].cookies]
    BY DEF SeenNow, Seen
  <1>2. /\ q.pc = "asking" /\ q.uri = inv[c].uri /\ q.cookies = inv[c].cookies
    BY <1>1
  <1>3. /\ inv'[c].pc = "door" /\ inv'[c].verdict = v
        /\ inv'[c].uri = inv[c].uri /\ inv'[c].cookies = inv[c].cookies
    BY VerdictWritten
  <1>4. Seen(inv'[c]) = Gate!Told(q, v)
    BY <1>2, <1>3 DEF Seen, Gate!Told
  <1>5. SeenNow' = [SeenNow EXCEPT ![c] = Gate!Told(q, v)]
    BY <1>4, SeenWritten
  <1>6. v = "anon" => Gate!Open(q.uri) \/ Gate!Lagging(q.uri)
    BY <1>2 DEF Gate!Open, Gate!Lagging
  <1>7. UNCHANGED <<clock, ClosedNow, lastOpen>>
    BY SeenWritten
  <1>8. QED
    BY <1>2, <1>5, <1>6, <1>7 DEF Gate!Tells

-----------------------------------------------------------------------------

\* Nobody on a closed path: the row the verdict goes by was good recently.
LEMMA AnonInTime ==
    ASSUME TypeOK, InTime, GateInvariant, NEW c \in Containers, At(c, "decide"),
           ~Gated(inv[c].row, inv[c].uri), inv[c].uri \in ClosedNow
    PROVE  clock < lastOpen[inv[c].uri] + (ConfigLife + 2 * Limit)
  <1> DEFINE uri == inv[c].uri
  <1>1. uri \in Closable /\ OpenUntil(uri) = lastOpen[uri]
    BY DEF ClosedNow, OpenUntil
  <1>2. inv[c].entered < OpenUntil(uri) + ConfigLife + Limit
    BY <1>1 DEF GateInvariant, GateFor, At
  <1>3. clock < inv[c].entered + Limit
    BY DEF At
  <1>4. /\ clock \in Nat /\ inv[c].entered \in Nat /\ lastOpen[uri] \in Nat
        /\ ConfigLife \in Nat /\ Limit \in Nat
    BY <1>1, GateAssumption DEF TypeOK, Request
  <1> HIDE DEF uri
  <1>5. clock < lastOpen[uri] + (ConfigLife + 2 * Limit)
    BY <1>1, <1>2, <1>3, <1>4 DEF uri
  <1>6. QED
    BY <1>5 DEF uri

\* Every step of a container is a step of the gate.
LEMMA OwnStepRefines ==
    ASSUME TypeOK, InTime, GateInvariant, NEW c \in Containers, OwnStep(c)
    PROVE  Gate!Next \/ UNCHANGED Gate!gateVars
  <1>1. /\ inv[c] \in Request /\ app \in App /\ inv \in [Containers -> Request]
    BY DEF TypeOK
  <1>2. ASSUME Gate!Asks(c) \/ Gate!Tells(c) \/ Gate!Ends(c) PROVE Gate!Next
    BY <1>2 DEF Gate!Next
  <1>3. ASSUME Reply(c), inv[c].pc # "idle" PROVE Gate!Next
    <2>1. inv'[c].pc = "idle"
      BY <1>1, <1>3 DEF Reply, Goes, NoRequest
    <2>2. QED
      BY <1>2, <1>3, <2>1, StepsEnd
  <1>4. CASE Arrive(c)
    <2>1. PICK caller \in Callers :
            Goes(c, [NoRequest EXCEPT !.pc = "meter", !.uri = caller.uri,
                                      !.cookies = caller.cookies, !.door = caller.door,
                                      !.entered = clock])
      BY <1>4 DEF Arrive
    <2>2. /\ inv[c].pc = "idle" /\ inv'[c].pc = "meter"
          /\ inv'[c].uri = caller.uri /\ inv'[c].cookies = caller.cookies
      BY <1>1, <1>4, <2>1 DEF Arrive, Goes, NoRequest
    <2>3. caller.uri \in Paths /\ caller.cookies \in SUBSET {"human", "agent"}
      BY GateAssumption DEF Paths, Closable
    <2>4. SeenNow[c] = Gate!Idle
      BY <2>2 DEF SeenNow, Seen, Gate!Idle
    <2>5. Seen(inv'[c]) \in Gate!Asking
      BY <2>2, <2>3 DEF Seen, Gate!Asking
    <2>6. Gate!Asks(c)
      BY <2>4, <2>5, SeenWritten DEF Gate!Asks
    <2>7. QED
      BY <1>2, <2>6
  <1>5. CASE Meter(c)
    <2>1. CASE Goes(c, [inv[c] EXCEPT !.pc = "config"])
      <3>1. /\ inv[c].pc = "meter" /\ inv'[c].pc = "config"
            /\ inv'[c].uri = inv[c].uri /\ inv'[c].cookies = inv[c].cookies
        BY <1>1, <1>5, <2>1 DEF Meter, At, Goes, Request
      <3>2. QED
        BY <3>1, StepsUnseen DEF Seen
    <2>2. CASE Verdict(c, "deny", TRUE)
      <3>1. inv[c].pc = "meter"
        BY <1>5 DEF Meter, At
      <3>2. Gate!Tells(c)
        BY <2>2, <3>1, StepsTell
      <3>3. QED
        BY <1>2, <3>2
    <2>3. QED
      BY <1>5, <2>1, <2>2 DEF Meter
  <1>6. CASE ConfigHit(c)
    <2>1. /\ inv[c].pc = "config" /\ inv'[c].pc = "decide"
          /\ inv'[c].uri = inv[c].uri /\ inv'[c].cookies = inv[c].cookies
      BY <1>1, <1>6 DEF ConfigHit, At, Goes, Request
    <2>2. QED
      BY <2>1, StepsUnseen DEF Seen
  <1>7. CASE Resolve(c)
    <2>1. inv[c].pc = "config"
      BY <1>7 DEF Resolve, At
    <2>2. CASE Goes(c, [inv[c] EXCEPT !.pc = "pool", !.row = [app EXCEPT !.pool = FALSE]])
      <3>1. /\ inv'[c].pc = "pool" /\ inv'[c].uri = inv[c].uri
            /\ inv'[c].cookies = inv[c].cookies
        BY <1>1, <2>2 DEF Goes, Request
      <3>2. QED
        BY <2>1, <3>1, StepsUnseen DEF Seen
    <2>3. CASE ~app.live /\ Verdict(c, "anon", FALSE)
      <3>1. inv[c].uri \notin ClosedNow
        BY <2>3 DEF ClosedNow, Gated
      <3>2. Gate!Tells(c)
        BY <2>1, <2>3, <3>1, StepsTell
      <3>3. QED
        BY <1>2, <3>2
    <2>4. CASE Verdict(c, IF inv[c].uri = "auth" THEN "anon" ELSE "deny", TRUE)
      <3>1. CASE inv[c].uri = "auth"
        <4>1. Verdict(c, "anon", TRUE)
          BY <2>4, <3>1
        <4>2. inv[c].uri \notin ClosedNow
          BY <3>1 DEF ClosedNow, Closable
        <4>3. Gate!Tells(c)
          BY <2>1, <4>1, <4>2, StepsTell
        <4>4. QED
          BY <1>2, <4>3
      <3>2. CASE inv[c].uri # "auth"
        <4>1. Verdict(c, "deny", TRUE)
          BY <2>4, <3>2
        <4>2. Gate!Tells(c)
          BY <2>1, <4>1, StepsTell
        <4>3. QED
          BY <1>2, <4>2
      <3>3. QED
        BY <3>1, <3>2
    <2>5. QED
      BY <1>7, <2>2, <2>3, <2>4 DEF Resolve
  <1>8. CASE ReadPool(c)
    <2>1. inv[c].pc = "pool"
      BY <1>8 DEF ReadPool, AskAgain, At
    <2>2. /\ inv'[c].pc \in {"pool", "decide"} /\ inv'[c].uri = inv[c].uri
          /\ inv'[c].cookies = inv[c].cookies
      <3>1. CASE Goes(c, [inv[c] EXCEPT !.attempt = @ + 1])
        BY <1>1, <2>1, <3>1 DEF Goes, Request
      <3>2. CASE Goes(c, [inv[c] EXCEPT !.pc = "decide", !.failed = TRUE])
        BY <1>1, <3>2 DEF Goes, Request
      <3>3. ASSUME NEW row, Goes(c, [inv[c] EXCEPT !.pc = "decide", !.row = row])
            PROVE  /\ inv'[c].pc \in {"pool", "decide"} /\ inv'[c].uri = inv[c].uri
                   /\ inv'[c].cookies = inv[c].cookies
        BY <1>1, <3>3 DEF Goes, Request
      <3>4. QED
        BY <1>8, <3>1, <3>2, <3>3 DEF ReadPool, AskAgain
    <2>3. QED
      BY <2>1, <2>2, StepsUnseen DEF Seen
  <1>9. CASE Decide(c)
    <2>1. At(c, "decide") /\ inv[c].pc = "decide"
      BY <1>9 DEF Decide, IsPerson, IsAgent, At
    <2>2. ASSUME NEW v \in {"human", "agent", "anon", "deny"}, NEW failed \in BOOLEAN,
                 Verdict(c, v, failed),
                 v \in {"human", "agent"} => v \in inv[c].cookies,
                 v = "anon" => ~Gated(inv[c].row, inv[c].uri)
          PROVE  Gate!Next
      <3>1. (v = "anon" /\ inv[c].uri \in ClosedNow)
              => clock < lastOpen[inv[c].uri] + (ConfigLife + 2 * Limit)
        BY <2>1, <2>2, AnonInTime
      <3>2. Gate!Tells(c)
        BY <2>1, <2>2, <3>1, StepsTell
      <3>3. QED
        BY <1>2, <3>2
    <2> DEFINE gated == Gated(inv[c].row, inv[c].uri)
               anonymous == IF gated THEN "deny" ELSE "anon"
    <2>3. /\ anonymous \in {"human", "agent", "anon", "deny"}
          /\ anonymous \notin {"human", "agent"}
          /\ anonymous = "anon" => ~gated
      OBVIOUS
    <2> HIDE DEF anonymous
    <2>4. \/ Verdict(c, anonymous, FALSE)
          \/ "human" \in inv[c].cookies /\ Verdict(c, "human", FALSE)
          \/ "agent" \in inv[c].cookies /\ Verdict(c, "agent", "human" \in inv[c].cookies)
          \/ Verdict(c, anonymous, inv[c].cookies # {})
      BY <1>9 DEF Decide, IsPerson, IsAgent, anonymous
    <2>5. CASE Verdict(c, anonymous, FALSE)
      BY <2>2, <2>3, <2>5
    <2>6. CASE "human" \in inv[c].cookies /\ Verdict(c, "human", FALSE)
      BY <2>2, <2>6
    <2>7. CASE "agent" \in inv[c].cookies /\ Verdict(c, "agent", "human" \in inv[c].cookies)
      <3>1. ("human" \in inv[c].cookies) \in BOOLEAN
        OBVIOUS
      <3>2. QED
        BY <2>2, <2>7, <3>1, Zenon
    <2>8. CASE Verdict(c, anonymous, inv[c].cookies # {})
      <3>1. (inv[c].cookies # {}) \in BOOLEAN
        OBVIOUS
      <3>2. QED
        BY <2>2, <2>3, <2>8, <3>1, Zenon
    <2>9. QED
      BY <2>4, <2>5, <2>6, <2>7, <2>8
  <1>10. CASE Answers(c)
    BY <1>3, <1>10 DEF Answers, At
  <1>11. CASE ReadRow(c)
    <2>1. inv[c].pc = "door"
      BY <1>11 DEF ReadRow, Enters, At
    <2>2. CASE UNCHANGED inv
      BY <2>2, StepsUnseen
    <2>3. QED
      BY <1>3, <1>11, <2>1, <2>2 DEF ReadRow
  <1>12. CASE Invoke(c)
    <2>1. inv[c].pc = "door"
      BY <1>12 DEF Invoke, Enters, At
    <2>2. CASE Goes(c, [inv[c] EXCEPT !.pc = "running"])
      <3>1. /\ inv'[c].pc = "running" /\ inv'[c].uri = inv[c].uri
            /\ inv'[c].cookies = inv[c].cookies /\ inv'[c].verdict = inv[c].verdict
        BY <1>1, <2>2 DEF Goes, Request
      <3>2. QED
        BY <2>1, <3>1, StepsUnseen DEF Seen
    <2>3. QED
      BY <1>3, <1>12, <2>1, <2>2 DEF Invoke
  <1>13. CASE AppAnswers(c)
    BY <1>3, <1>13 DEF AppAnswers, At
  <1>14. CASE TooSlow(c)
    BY <1>3, <1>14 DEF TooSlow, At
  <1>15. CASE Killed(c)
    BY <1>3, <1>15 DEF Killed
  <1>16. QED
    BY <1>4, <1>5, <1>6, <1>7, <1>8, <1>9, <1>10, <1>11, <1>12, <1>13, <1>14, <1>15
       DEF OwnStep

-----------------------------------------------------------------------------

\* The application changes, or time passes: the gate lives in the same world.
LEMMA WorldRefines ==
    ASSUME TypeOK, Change \/ Tick
    PROVE  Gate!Next \/ UNCHANGED Gate!gateVars
  <1>1. CASE Change
    <2>1. PICK new \in App : Becomes(new)
      BY <1>1, ChangeCases
    <2>2. /\ UNCHANGED <<clock, inv>>
          /\ lastOpen' = [uri \in Closable |-> IF Gated(app, uri) THEN lastOpen[uri] ELSE clock]
      BY <2>1 DEF Becomes
    <2>3. UNCHANGED SeenNow
      BY <2>2 DEF SeenNow, Seen
    <2>4. \A uri \in Closable : Gated(app, uri) <=> uri \in ClosedNow
      BY DEF ClosedNow
    <2>5. lastOpen' = [uri \in Closable |-> IF uri \in ClosedNow THEN lastOpen[uri] ELSE clock]
      BY <2>2, <2>4
    <2>6. ClosedNow' \in SUBSET Closable
      BY DEF ClosedNow
    <2>7. Gate!Closes
      BY <2>2, <2>3, <2>5, <2>6 DEF Gate!Closes
    <2>8. QED
      BY <2>7 DEF Gate!Next
  <1>2. CASE Tick
    <2>1. clock' = clock + 1 /\ UNCHANGED <<app, lastOpen, inv>>
      BY <1>2 DEF Tick
    <2>2. UNCHANGED <<ClosedNow, SeenNow>>
      BY <2>1 DEF ClosedNow, Gated, SeenNow, Seen
    <2>3. QED
      BY <2>1, <2>2 DEF Gate!Passes, Gate!Next
  <1>3. QED
    BY <1>1, <1>2

\* The frontend authorizer keeps the promise of a gate, whatever its numbers: the
\* caches, the retries, the front door and the timeouts do not show outside
\* except as the time a closing takes to be noticed.
THEOREM PromiseAlwaysKept == Spec => KeepsThePromise
  <1>1. Init => Gate!Init
    <2> SUFFICES ASSUME Init PROVE Gate!Init
      OBVIOUS
    <2>1. SeenNow = [c \in Containers |-> Gate!Idle]
      BY DEF Init, SeenNow, Seen, NoRequest, Gate!Idle
    <2>2. ClosedNow \in SUBSET Closable
      BY DEF ClosedNow
    <2>3. QED
      BY <2>1, <2>2 DEF Init, Gate!Init
  <1>2. TypeOK /\ InTime /\ GateInvariant /\ [Next]_vars => [Gate!Next]_(Gate!gateVars)
    <2> SUFFICES ASSUME TypeOK, InTime, GateInvariant, [Next]_vars
                 PROVE  Gate!Next \/ UNCHANGED Gate!gateVars
      OBVIOUS
    <2>1. CASE UNCHANGED vars
      BY <2>1 DEF vars, Gate!gateVars, ClosedNow, Gated, SeenNow, Seen
    <2>2. QED
      BY <2>1, NextCases, OwnStepRefines, WorldRefines
  <1>3. QED
    BY <1>1, <1>2, CachesInvariant, PTL DEF Spec, KeepsThePromise, Gate!Spec
=============================================================================
