-------------------------- MODULE RequestMeterProofs --------------------------
(***************************************************************************)
(* What holds of RequestMeter for every number of containers, requests,    *)
(* applications and addresses, every limit and every failure.              *)
(***************************************************************************)
EXTENDS RequestMeter, FiniteSetTheorems, TLAPS

-----------------------------------------------------------------------------
(* Sets of containers that differ in one.                                  *)

LEMMA OneMoves ==
    ASSUME NEW S \in SUBSET Containers, NEW T \in SUBSET Containers, NEW c,
           T \subseteq S \cup {c}
    PROVE  /\ Cardinality(S) \in Nat /\ Cardinality(T) \in Nat
           /\ (c \in T => c \in S) => Cardinality(T) <= Cardinality(S)
           /\ Cardinality(T) <= Cardinality(S) + 1
           /\ c \in S /\ c \notin T => Cardinality(T) + 1 <= Cardinality(S)
  <1>1. IsFiniteSet(S) /\ IsFiniteSet(T)
    BY MeterAssumption, FS_Subset
  <1>2. Cardinality(S) \in Nat /\ Cardinality(T) \in Nat
    BY <1>1, FS_CardinalityType
  <1>3. ASSUME c \in T => c \in S PROVE Cardinality(T) <= Cardinality(S)
    BY <1>1, <1>3, FS_Subset
  <1>4. Cardinality(T) <= Cardinality(S) + 1
    <2>1. /\ IsFiniteSet(S \cup {c})
          /\ Cardinality(S \cup {c}) = IF c \in S THEN Cardinality(S) ELSE Cardinality(S) + 1
      BY <1>1, FS_AddElement
    <2>2. Cardinality(T) <= Cardinality(S \cup {c})
      BY <2>1, FS_Subset
    <2>3. QED
      BY <1>2, <2>1, <2>2
  <1>5. ASSUME c \in S, c \notin T PROVE Cardinality(T) + 1 <= Cardinality(S)
    <2>1. IsFiniteSet(S \ {c}) /\ Cardinality(S \ {c}) = Cardinality(S) - 1
      BY <1>1, <1>5, FS_RemoveElement
    <2>2. T \subseteq S \ {c}
      BY <1>5
    <2>3. Cardinality(T) <= Cardinality(S \ {c})
      BY <2>1, <2>2, FS_Subset
    <2>4. QED
      BY <1>2, <2>1, <2>3
  <1>6. QED
    BY <1>2, <1>3, <1>4, <1>5

\* A counter is added to, if there is one.
LEMMA Added ==
    ASSUME NEW D, NEW f \in [D -> Nat], NEW k, NEW n \in Nat
    PROVE  /\ [f EXCEPT ![k] = f[k] + n] \in [D -> Nat]
           /\ \A x \in D : /\ f[x] \in Nat
                           /\ [f EXCEPT ![k] = f[k] + n][x] = IF x = k THEN f[x] + n ELSE f[x]
  <1>1. \A x \in D : f[x] \in Nat /\ f[x] + n \in Nat
    OBVIOUS
  <1> DEFINE g == [x \in D |-> IF x = k THEN f[k] + n ELSE f[x]]
  <1>2. [f EXCEPT ![k] = f[k] + n] = g
    BY Zenon
  <1>3. \A x \in D : g[x] = IF x = k THEN f[x] + n ELSE f[x]
    OBVIOUS
  <1>4. g \in [D -> Nat]
    BY <1>1
  <1>5. QED
    BY <1>1, <1>2, <1>3, <1>4, Zenon

-----------------------------------------------------------------------------
(* What a step of one container has to show.                               *)

LEMMA OneServes ==
    ASSUME MeterShape, NEW c \in Containers, NEW q, Goes(c, q)
    PROVE  \A d \in Containers : inv'[d] = IF d = c THEN q ELSE inv[d]
  BY DEF MeterShape, Goes

LEMMA HoldersMove ==
    ASSUME MeterShape, NEW c \in Containers, NEW q, Goes(c, q), NEW b
    PROVE  /\ Cardinality(Holders(b)) \in Nat /\ Cardinality(Holders(b)') \in Nat
           /\ (Within(q, b) => Within(inv[c], b))
                => Cardinality(Holders(b)') <= Cardinality(Holders(b))
           /\ Cardinality(Holders(b)') <= Cardinality(Holders(b)) + 1
           /\ Within(inv[c], b) /\ ~Within(q, b)
                => Cardinality(Holders(b)') + 1 <= Cardinality(Holders(b))
  <1> DEFINE S == Holders(b)
             T == {d \in Containers : Within(IF d = c THEN q ELSE inv[d], b)}
  <1>1. Holders(b)' = T
    <2>1. Holders(b)' = {d \in Containers : Within(inv'[d], b)}
      BY DEF Holders, Within, Bucket
    <2>2. \A d \in Containers : inv'[d] = IF d = c THEN q ELSE inv[d]
      BY OneServes
    <2>3. QED
      BY <2>1, <2>2
  <1>2. /\ S \in SUBSET Containers /\ T \in SUBSET Containers
        /\ T \subseteq S \cup {c}
        /\ c \in T <=> Within(q, b)
        /\ c \in S <=> Within(inv[c], b)
    BY DEF Holders
  <1> HIDE DEF S, T
  <1>3. /\ Cardinality(S) \in Nat /\ Cardinality(T) \in Nat
        /\ (c \in T => c \in S) => Cardinality(T) <= Cardinality(S)
        /\ Cardinality(T) <= Cardinality(S) + 1
        /\ c \in S /\ c \notin T => Cardinality(T) + 1 <= Cardinality(S)
    BY <1>2, OneMoves
  <1>4. S = Holders(b)
    BY DEF S
  <1>5. QED
    BY <1>1, <1>2, <1>3, <1>4

LEMMA OwedMove ==
    ASSUME MeterShape, NEW c \in Containers, NEW q, Goes(c, q), NEW key
    PROVE  /\ Cardinality(Owed(key)) \in Nat /\ Cardinality(Owed(key)') \in Nat
           /\ (Settled(q, key) => Settled(inv[c], key))
                => Cardinality(Owed(key)') <= Cardinality(Owed(key))
           /\ Cardinality(Owed(key)') <= Cardinality(Owed(key)) + 1
           /\ Settled(inv[c], key) /\ ~Settled(q, key)
                => Cardinality(Owed(key)') + 1 <= Cardinality(Owed(key))
  <1> DEFINE S == Owed(key)
             T == {d \in Containers : Settled(IF d = c THEN q ELSE inv[d], key)}
  <1>1. Owed(key)' = T
    <2>1. Owed(key)' = {d \in Containers : Settled(inv'[d], key)}
      BY DEF Owed, Settled, Month
    <2>2. \A d \in Containers : inv'[d] = IF d = c THEN q ELSE inv[d]
      BY OneServes
    <2>3. QED
      BY <2>1, <2>2
  <1>2. /\ S \in SUBSET Containers /\ T \in SUBSET Containers
        /\ T \subseteq S \cup {c}
        /\ c \in T <=> Settled(q, key)
        /\ c \in S <=> Settled(inv[c], key)
    BY DEF Owed
  <1> HIDE DEF S, T
  <1>3. /\ Cardinality(S) \in Nat /\ Cardinality(T) \in Nat
        /\ (c \in T => c \in S) => Cardinality(T) <= Cardinality(S)
        /\ Cardinality(T) <= Cardinality(S) + 1
        /\ c \in S /\ c \notin T => Cardinality(T) + 1 <= Cardinality(S)
    BY <1>2, OneMoves
  <1>4. S = Owed(key)
    BY DEF S
  <1>5. QED
    BY <1>1, <1>2, <1>3, <1>4

\* A bucket hears of nothing, gives a request a hit of its own within the limit,
\* or sees one that had its hit pass.
LEMMA RatesFromParts ==
    ASSUME MeterShape, MeterShape', RatesInvariant, NEW c \in Containers, NEW q, Goes(c, q),
           \A b \in Buckets : b[1] \in Blocking =>
              \/ /\ passes'[b] = passes[b] /\ hits[b] <= hits'[b]
                 /\ Within(q, b) => Within(inv[c], b)
              \/ /\ passes'[b] = passes[b] /\ hits[b] + 1 <= hits'[b]
                 /\ hits'[b] <= RateLimit[b[1]]
              \/ /\ passes'[b] = passes[b] + 1 /\ hits[b] <= hits'[b]
                 /\ Within(inv[c], b) /\ ~Within(q, b)
    PROVE  RatesInvariant'
  <1>1. SUFFICES ASSUME NEW b \in Buckets, b[1] \in Blocking
                 PROVE  /\ passes'[b] + Cardinality(Holders(b)') <= hits'[b]
                        /\ passes'[b] + Cardinality(Holders(b)') <= RateLimit[b[1]]
    BY DEF RatesInvariant, Holders, Within, Bucket
  <1> DEFINE n == Cardinality(Holders(b))
             m == Cardinality(Holders(b)')
             l == RateLimit[b[1]]
  <1>2. /\ n \in Nat /\ m \in Nat /\ l \in Nat /\ m <= n + 1
        /\ (Within(q, b) => Within(inv[c], b)) => m <= n
        /\ Within(inv[c], b) /\ ~Within(q, b) => m + 1 <= n
    <2>1. b[1] \in Kinds
      BY DEF Buckets
    <2>2. l \in Nat
      BY <2>1, MeterAssumption
    <2>3. QED
      BY <2>2, HoldersMove
  <1>3. hits[b] \in Nat /\ hits'[b] \in Nat /\ passes[b] \in Nat /\ passes'[b] \in Nat
    BY DEF MeterShape
  <1>4. passes[b] + n <= hits[b] /\ passes[b] + n <= l
    BY <1>1 DEF RatesInvariant
  <1>5. \/ /\ passes'[b] = passes[b] /\ hits[b] <= hits'[b]
           /\ Within(q, b) => Within(inv[c], b)
        \/ /\ passes'[b] = passes[b] /\ hits[b] + 1 <= hits'[b]
           /\ hits'[b] <= l
        \/ /\ passes'[b] = passes[b] + 1 /\ hits[b] <= hits'[b]
           /\ Within(inv[c], b) /\ ~Within(q, b)
    BY <1>1
  <1> HIDE DEF n, m, l
  <1>6. passes'[b] + m <= hits'[b] /\ passes'[b] + m <= l
    <2>1. CASE /\ passes'[b] = passes[b] /\ hits[b] <= hits'[b]
               /\ Within(q, b) => Within(inv[c], b)
      <3>1. m <= n
        BY <1>2, <2>1
      <3>2. QED
        BY <1>2, <1>3, <1>4, <2>1, <3>1
    <2>2. CASE /\ passes'[b] = passes[b] /\ hits[b] + 1 <= hits'[b]
               /\ hits'[b] <= l
      BY <1>2, <1>3, <1>4, <2>2
    <2>3. CASE /\ passes'[b] = passes[b] + 1 /\ hits[b] <= hits'[b]
               /\ Within(inv[c], b) /\ ~Within(q, b)
      <3>1. m + 1 <= n
        BY <1>2, <2>3
      <3>2. QED
        BY <1>2, <1>3, <1>4, <2>3, <3>1
    <2>4. QED
      BY <1>5, <2>1, <2>2, <2>3
  <1>7. QED
    BY <1>6 DEF m, l

\* The same of the usage count of one application and month.
LEMMA CountsFromParts ==
    ASSUME MeterShape, MeterShape', CountsInvariant, NEW c \in Containers, NEW q, Goes(c, q),
           \A key \in Apps \X Months :
              \/ /\ answered'[key] = answered[key]
                 /\ count[key] + uncounted[key] <= count'[key] + uncounted'[key]
                 /\ Settled(q, key) => Settled(inv[c], key)
              \/ /\ answered'[key] = answered[key]
                 /\ count[key] + uncounted[key] + 1 <= count'[key] + uncounted'[key]
              \/ /\ answered'[key] = answered[key] + 1
                 /\ count[key] + uncounted[key] <= count'[key] + uncounted'[key]
                 /\ Settled(inv[c], key) /\ ~Settled(q, key)
    PROVE  CountsInvariant'
  <1>1. SUFFICES ASSUME NEW key \in Apps \X Months
                 PROVE  answered'[key] + Cardinality(Owed(key)') <= count'[key] + uncounted'[key]
    BY DEF CountsInvariant, Owed, Settled, Month
  <1> DEFINE n == Cardinality(Owed(key))
             m == Cardinality(Owed(key)')
             s == count[key] + uncounted[key]
             t == count'[key] + uncounted'[key]
  <1>2. /\ n \in Nat /\ m \in Nat /\ m <= n + 1
        /\ (Settled(q, key) => Settled(inv[c], key)) => m <= n
        /\ Settled(inv[c], key) /\ ~Settled(q, key) => m + 1 <= n
    BY OwedMove
  <1>3. s \in Nat /\ t \in Nat /\ answered[key] \in Nat /\ answered'[key] \in Nat
    <2>1. count[key] \in Nat /\ uncounted[key] \in Nat /\ answered[key] \in Nat
      BY DEF MeterShape
    <2>2. count'[key] \in Nat /\ uncounted'[key] \in Nat /\ answered'[key] \in Nat
      BY DEF MeterShape
    <2>3. QED
      BY <2>1, <2>2
  <1>4. answered[key] + n <= s
    BY DEF CountsInvariant
  <1>5. \/ /\ answered'[key] = answered[key] /\ s <= t
           /\ Settled(q, key) => Settled(inv[c], key)
        \/ /\ answered'[key] = answered[key] /\ s + 1 <= t
        \/ /\ answered'[key] = answered[key] + 1 /\ s <= t
           /\ Settled(inv[c], key) /\ ~Settled(q, key)
    OBVIOUS
  <1> HIDE DEF n, m, s, t
  <1>6. answered'[key] + m <= t
    <2>1. CASE /\ answered'[key] = answered[key] /\ s <= t
               /\ Settled(q, key) => Settled(inv[c], key)
      <3>1. m <= n
        BY <1>2, <2>1
      <3>2. QED
        BY <1>2, <1>3, <1>4, <2>1, <3>1
    <2>2. CASE answered'[key] = answered[key] /\ s + 1 <= t
      BY <1>2, <1>3, <1>4, <2>2
    <2>3. CASE /\ answered'[key] = answered[key] + 1 /\ s <= t
               /\ Settled(inv[c], key) /\ ~Settled(q, key)
      <3>1. m + 1 <= n
        BY <1>2, <2>3
      <3>2. QED
        BY <1>2, <1>3, <1>4, <2>3, <3>1
    <2>4. QED
      BY <1>5, <2>1, <2>2, <2>3
  <1>7. QED
    BY <1>6 DEF m, t

LEMMA ShapeFromParts ==
    ASSUME MeterShape, NEW c \in Containers, NEW q \in Request, Goes(c, q), Orderly(q),
           clock' \in Nat, plan' \in Nat,
           capCache' \in [Containers -> [at: Int, cap: Nat]],
           hits' \in [Buckets -> Nat], passes' \in [Buckets -> Nat],
           count' \in [Apps \X Months -> Nat],
           answered' \in [Apps \X Months -> Nat], uncounted' \in [Apps \X Months -> Nat]
    PROVE  MeterShape'
  <1>1. inv' \in [Containers -> Request]
    BY DEF MeterShape, Goes
  <1>2. \A d \in Containers : Orderly(inv'[d])
    <2>1. \A d \in Containers : Orderly(inv[d])
      BY DEF MeterShape
    <2>2. QED
      BY <2>1, OneServes
  <1>3. \A d \in Containers : Orderly(inv[d])'
    BY <1>2 DEF Orderly
  <1>4. QED
    BY <1>1, <1>3 DEF MeterShape

\* A step that serves one request and touches no counter of a request's own.
LEMMA Onwards ==
    ASSUME MeterInvariant, NEW c \in Containers, NEW q \in Request, Goes(c, q),
           q.clean = {},
           \/ q.counting = "none" /\ q.pc = "idle"
           \/ q.counting = "pending"
           \/ /\ q.counting = inv[c].counting /\ q.app = inv[c].app /\ q.entered = inv[c].entered
              /\ inv[c].pc # "idle",
           capCache' \in [Containers -> [at: Int, cap: Nat]],
           UNCHANGED <<clock, plan, hits, passes, count, answered, uncounted>>
    PROVE  MeterInvariant'
  <1>1. MeterShape
    BY DEF MeterInvariant
  <1>2. MeterShape'
    <2>1. Orderly(q)
      <3>1. Orderly(inv[c])
        BY <1>1 DEF MeterShape
      <3>2. q.pc # "idle" => q.counting # "none"
        BY <3>1 DEF Orderly
      <3>3. QED
        BY <3>2 DEF Orderly
    <2>2. /\ clock' \in Nat /\ plan' \in Nat
          /\ hits' \in [Buckets -> Nat] /\ passes' \in [Buckets -> Nat]
          /\ count' \in [Apps \X Months -> Nat]
          /\ answered' \in [Apps \X Months -> Nat] /\ uncounted' \in [Apps \X Months -> Nat]
      BY <1>1 DEF MeterShape
    <2>3. QED
      BY <1>1, <2>1, <2>2, ShapeFromParts
  <1>3. RatesInvariant'
    <2>1. \A b \in Buckets : /\ passes'[b] = passes[b] /\ hits[b] <= hits'[b] /\ ~Within(q, b)
      <3>1. \A b \in Buckets : hits[b] \in Nat
        BY <1>1 DEF MeterShape
      <3>2. QED
        BY <3>1 DEF Within
    <2>2. QED
      BY <1>1, <1>2, <2>1, RatesFromParts DEF MeterInvariant
  <1>4. CountsInvariant'
    <2>1. \A key \in Apps \X Months :
            /\ answered'[key] = answered[key]
            /\ count[key] + uncounted[key] <= count'[key] + uncounted'[key]
            /\ Settled(q, key) => Settled(inv[c], key)
      <3>1. \A key \in Apps \X Months : count[key] \in Nat /\ uncounted[key] \in Nat
        BY <1>1 DEF MeterShape
      <3>2. \A key \in Apps \X Months :
              count[key] + uncounted[key] <= count'[key] + uncounted'[key]
        BY <3>1
      <3>3. ASSUME NEW key PROVE Settled(q, key) => Settled(inv[c], key)
        BY DEF Settled
      <3>4. QED
        BY <3>2, <3>3
    <2>2. QED
      BY <1>1, <1>2, <2>1, CountsFromParts DEF MeterInvariant
  <1>5. QED
    BY <1>2, <1>3, <1>4 DEF MeterInvariant

\* A step that serves no request.
LEMMA Elsewhere ==
    ASSUME MeterInvariant, clock' \in Nat, plan' \in Nat,
           UNCHANGED <<capCache, inv, hits, passes, count, answered, uncounted>>
    PROVE  MeterInvariant'
  <1>1. MeterShape'
    BY DEF MeterInvariant, MeterShape, Orderly
  <1>2. RatesInvariant'
    BY DEF MeterInvariant, RatesInvariant, Holders, Within, Bucket
  <1>3. CountsInvariant'
    BY DEF MeterInvariant, CountsInvariant, Owed, Settled, Month
  <1>4. QED
    BY <1>1, <1>2, <1>3 DEF MeterInvariant

-----------------------------------------------------------------------------
(* The steps of one request.                                               *)

LEMMA MeterConstants ==
    /\ IsFiniteSet(Containers) /\ Plans \subseteq Nat /\ RateLimit \in [Kinds -> Nat]
    /\ Limit \in Nat /\ CapLife \in Nat /\ MonthLength \in Nat /\ MonthLength > 0
  BY MeterAssumption

LEMMA OutcomeFacts ==
    ASSUME NEW o \in Outcomes
    PROVE  o.ok \in BOOLEAN /\ o.n \in Nat /\ (o.ok => o.n >= 1)
  <1>1. CASE o = Clean
    BY <1>1 DEF Clean
  <1>2. CASE o = [ok |-> TRUE, n |-> 2]
    BY <1>2
  <1>3. CASE o = [ok |-> FALSE, n |-> 0]
    BY <1>3
  <1>4. CASE o = [ok |-> FALSE, n |-> 1]
    BY <1>4
  <1>5. QED
    BY <1>1, <1>2, <1>3, <1>4 DEF Outcomes

LEMMA NoRequestFacts ==
    /\ NoRequest \in Request /\ NoRequest.clean = {} /\ NoRequest.counting = "none"
    /\ NoRequest.pc = "idle"
    /\ Orderly(NoRequest)
  BY DEF NoRequest, Request, Orderly

LEMMA NoCapFacts == NoCap \in [at: Int, cap: Nat]
  BY MeterConstants DEF NoCap

LEMMA MonthType == ASSUME NEW t \in Nat PROVE Month(t) \in Int
  BY MeterConstants DEF Month

\* The parts the steps below need.
LEMMA MeterParts ==
    ASSUME MeterInvariant, NEW c \in Containers
    PROVE  /\ MeterShape /\ RatesInvariant /\ CountsInvariant
           /\ clock \in Nat /\ plan \in Nat
           /\ capCache \in [Containers -> [at: Int, cap: Nat]]
           /\ hits \in [Buckets -> Nat] /\ passes \in [Buckets -> Nat]
           /\ count \in [Apps \X Months -> Nat]
           /\ answered \in [Apps \X Months -> Nat] /\ uncounted \in [Apps \X Months -> Nat]
           /\ inv[c] \in Request /\ Orderly(inv[c])
           /\ inv[c].pc # "rate" => inv[c].clean = {}
  BY DEF MeterInvariant, MeterShape, Orderly

LEMMA ArriveKeeps ==
    ASSUME MeterInvariant, NEW c \in Containers, Arrive(c)
    PROVE  MeterInvariant'
  <1>1. PICK a \in Apps, i \in Addresses, auth \in BOOLEAN :
          Goes(c, [NoRequest EXCEPT !.pc = "cap", !.app = a, !.ip = i, !.kinds = KindsOf(auth),
                                    !.entered = clock, !.counting = "pending"])
    BY DEF Arrive
  <1> DEFINE q == [NoRequest EXCEPT !.pc = "cap", !.app = a, !.ip = i, !.kinds = KindsOf(auth),
                                    !.entered = clock, !.counting = "pending"]
  <1>2. q \in Request /\ q.clean = {} /\ q.counting = "pending"
    <2>1. KindsOf(auth) \in SUBSET Kinds /\ clock \in Int
      BY MeterParts DEF KindsOf
    <2>2. PICK k \in SUBSET Kinds : k = KindsOf(auth)
      BY <2>1
    <2>3. q = [NoRequest EXCEPT !.pc = "cap", !.app = a, !.ip = i, !.kinds = k,
                                !.entered = clock, !.counting = "pending"]
      BY <2>2
    <2>4. NoRequest \in Request /\ NoRequest.clean = {}
      BY NoRequestFacts
    <2>5. q \in Request
      BY <2>1, <2>3, <2>4 DEF Request
    <2>6. q.clean = {} /\ q.counting = "pending"
      BY <2>3, <2>4 DEF Request
    <2>7. QED
      BY <2>5, <2>6
  <1>3. /\ UNCHANGED <<clock, plan, hits, passes, count, answered, uncounted>>
        /\ capCache' \in [Containers -> [at: Int, cap: Nat]]
    <2>1. capCache' = capCache
      BY DEF Arrive
    <2>2. QED
      BY <2>1, MeterParts DEF Arrive, store, histories
  <1> HIDE DEF q
  <1>4. Goes(c, q)
    BY <1>1 DEF q
  <1>5. QED
    BY <1>2, <1>3, <1>4, Onwards

\* A field of a request is set to a value of its type.
LEMMA Updates ==
    ASSUME NEW q \in Request, NEW n \in Nat, NEW m \in Int, NEW w \in {"cap", "stamp", "org", "settle"},
           NEW v \in {"none", "cap", "rate", "passed"}
    PROVE  /\ [q EXCEPT !.pc = w, !.cap = n, !.month = m] \in Request
           /\ [q EXCEPT !.pc = w, !.cap = n] \in Request
           /\ [q EXCEPT !.pc = w, !.month = m] \in Request
           /\ [q EXCEPT !.pc = w, !.month = m, !.unsure = TRUE] \in Request
           /\ [q EXCEPT !.unsure = TRUE] \in Request
  <1>1. [q EXCEPT !.pc = w, !.cap = n, !.month = m] \in Request
    BY DEF Request
  <1>2. [q EXCEPT !.pc = w, !.cap = n] \in Request
    BY DEF Request
  <1>3. [q EXCEPT !.pc = w, !.month = m] \in Request
    BY DEF Request
  <1>4. [q EXCEPT !.pc = w, !.month = m, !.unsure = TRUE] \in Request
    BY DEF Request
  <1>5. [q EXCEPT !.unsure = TRUE] \in Request
    BY DEF Request
  <1>6. QED
    BY <1>1, <1>2, <1>3, <1>4, <1>5

\* Everything a request goes on with.
Same(q, r) == q.counting = r.counting /\ q.app = r.app /\ q.entered = r.entered

LEMMA EndsFacts ==
    ASSUME NEW q \in Request, NEW v \in {"none", "cap", "rate", "passed"}
    PROVE  /\ Ends(q, v) \in Request /\ Ends(q, v).clean = {} /\ Ends(q, v).pc = "settle"
           /\ Same(Ends(q, v), q)
  <1>1. {} \in SUBSET Kinds /\ 0 \in Nat
    OBVIOUS
  <1>2. Ends(q, v) \in Request
    <2>1. \A r \in Request, e \in SUBSET Kinds :
            [r EXCEPT !.waiting = e, !.over = e, !.clean = e] \in Request
      BY DEF Request
    <2>2. \A z \in Nat : [q EXCEPT !.pc = "settle", !.verdict = v, !.cap = z] \in Request
      BY DEF Request
    <2>3. QED
      BY <1>1, <2>1, <2>2 DEF Ends
  <1>3. Ends(q, v).clean = {} /\ Ends(q, v).pc = "settle" /\ Same(Ends(q, v), q)
    BY DEF Request, Ends, Same
  <1>4. QED
    BY <1>2, <1>3

LEMMA RatedFacts ==
    ASSUME NEW q \in Request, clock \in Nat
    PROVE  Rated(q) \in Request /\ Rated(q).clean = q.clean /\ Same(Rated(q), q)
  <1>1. q.kinds \in SUBSET Kinds
    BY DEF Request
  <1>2. \A k \in SUBSET Kinds, t \in Int :
          [q EXCEPT !.pc = "rate", !.minute = t, !.waiting = k] \in Request
    BY DEF Request
  <1>3. Rated(q) \in Request
    <2>1. clock \in Int
      OBVIOUS
    <2>2. [q EXCEPT !.pc = "rate", !.minute = clock, !.waiting = q.kinds] \in Request
      BY <1>1, <1>2, <2>1, Zenon
    <2>3. QED
      BY <2>2 DEF Rated
  <1>4. Rated(q).clean = q.clean /\ Same(Rated(q), q)
    BY DEF Request, Rated, Same
  <1>5. QED
    BY <1>3, <1>4

LEMMA ReadCapKeeps ==
    ASSUME MeterInvariant, NEW c \in Containers, ReadCap(c)
    PROVE  MeterInvariant'
  <1> DEFINE q0 == inv[c]
             Later(q) == /\ q \in Request /\ Goes(c, q) /\ q.clean = {}
                         /\ q.counting = q0.counting /\ q.app = q0.app /\ q.entered = q0.entered
  <1>1. q0 \in Request /\ q0.clean = {} /\ q0.pc # "idle"
    <2>1. inv[c].pc # "rate" /\ inv[c].pc # "idle"
      BY DEF ReadCap, At
    <2>2. QED
      BY <2>1, MeterParts
  <1>2. /\ Month(clock) \in Int /\ capCache[c].cap \in Nat /\ plan \in Nat
        /\ UNCHANGED <<clock, plan, hits, passes, count, answered, uncounted>>
        /\ capCache' \in [Containers -> [at: Int, cap: Nat]]
    <2>1. UNCHANGED <<clock, plan, hits, passes, count, answered, uncounted, capCache>>
      BY DEF ReadCap, store, histories
    <2>2. QED
      BY <2>1, MeterParts, MonthType
  <1>3. \E q : Later(q)
    <2>1. CASE Goes(c, [q0 EXCEPT !.pc = "org", !.cap = capCache[c].cap, !.month = Month(clock)])
      <3> DEFINE q == [q0 EXCEPT !.pc = "org", !.cap = capCache[c].cap, !.month = Month(clock)]
      <3>1. q \in Request
        BY <1>1, <1>2, Updates
      <3>2. q.clean = {} /\ q.counting = q0.counting /\ q.app = q0.app /\ q.entered = q0.entered
        BY <1>1 DEF Request
      <3>3. QED
        BY <2>1, <3>1, <3>2
    <2>2. ASSUME NEW p \in Plans, Goes(c, [q0 EXCEPT !.pc = "stamp", !.cap = p])
          PROVE  \E q : Later(q)
      <3> DEFINE q == [q0 EXCEPT !.pc = "stamp", !.cap = p]
      <3>1. q \in Request
        BY <1>1, <1>2, MeterAssumption, Updates
      <3>2. q.clean = {} /\ q.counting = q0.counting /\ q.app = q0.app /\ q.entered = q0.entered
        BY <1>1 DEF Request
      <3>3. QED
        BY <2>2, <3>1, <3>2
    <2>3. CASE Goes(c, [q0 EXCEPT !.pc = "org", !.month = Month(clock), !.unsure = TRUE])
      <3> DEFINE q == [q0 EXCEPT !.pc = "org", !.month = Month(clock), !.unsure = TRUE]
      <3>1. q \in Request
        BY <1>1, <1>2, Updates
      <3>2. q.clean = {} /\ q.counting = q0.counting /\ q.app = q0.app /\ q.entered = q0.entered
        BY <1>1 DEF Request
      <3>3. QED
        BY <2>3, <3>1, <3>2
    <2>4. QED
      BY <2>1, <2>2, <2>3 DEF ReadCap
  <1>4. QED
    BY <1>1, <1>2, <1>3, Onwards

LEMMA StampCapKeeps ==
    ASSUME MeterInvariant, NEW c \in Containers, StampCap(c)
    PROVE  MeterInvariant'
  <1> DEFINE q0 == inv[c]
             q == [q0 EXCEPT !.pc = "org", !.month = Month(clock)]
  <1>1. /\ q0 \in Request /\ q0.clean = {} /\ clock \in Nat /\ Month(clock) \in Int
        /\ q0.pc # "idle"
    <2>1. inv[c].pc # "rate" /\ inv[c].pc # "idle"
      BY DEF StampCap, At
    <2>2. QED
      BY <2>1, MeterParts, MonthType
  <1>2. q \in Request
    BY <1>1, Updates
  <1>3. q.clean = {} /\ q.counting = q0.counting /\ q.app = q0.app /\ q.entered = q0.entered
    BY <1>1 DEF Request
  <1>4. capCache' \in [Containers -> [at: Int, cap: Nat]]
    <2>1. capCache' = [capCache EXCEPT ![c] = [at |-> clock, cap |-> inv[c].cap]]
      BY DEF StampCap
    <2>2. inv[c].cap \in Nat
      BY <1>1 DEF Request
    <2>3. QED
      BY <1>1, <2>1, <2>2, MeterParts
  <1>5. Goes(c, q) /\ UNCHANGED <<clock, plan, hits, passes, count, answered, uncounted>>
    BY DEF StampCap, store, histories
  <1> HIDE DEF q
  <1>6. QED
    BY <1>1, <1>2, <1>3, <1>4, <1>5, Onwards

LEMMA BumpOrgKeeps ==
    ASSUME MeterInvariant, NEW c \in Containers, BumpOrg(c)
    PROVE  MeterInvariant'
  <1> DEFINE q0 == inv[c]
             Later(q) == /\ q \in Request /\ q.clean = {}
                         /\ q.counting = q0.counting /\ q.app = q0.app /\ q.entered = q0.entered
  <1>1. q0 \in Request /\ q0.clean = {} /\ clock \in Nat /\ q0.pc # "idle"
    <2>1. inv[c].pc # "rate" /\ inv[c].pc # "idle"
      BY DEF BumpOrg, At
    <2>2. QED
      BY <2>1, MeterParts
  <1>2. Later(Rated([q0 EXCEPT !.unsure = TRUE]))
    <2>1. [q0 EXCEPT !.unsure = TRUE] \in Request
      BY <1>1 DEF Request
    <2>2. [q0 EXCEPT !.unsure = TRUE].clean = {} /\ Same([q0 EXCEPT !.unsure = TRUE], q0)
      BY <1>1 DEF Request, Same
    <2>3. QED
      BY <1>1, <2>1, <2>2, RatedFacts DEF Same
  <1>3. Later(Rated(q0))
    BY <1>1, RatedFacts DEF Same
  <1>4. Later(Ends(q0, "cap"))
    BY <1>1, EndsFacts DEF Same
  <1>5. \/ Goes(c, Rated([q0 EXCEPT !.unsure = TRUE]))
        \/ Goes(c, Rated(q0)) \/ Goes(c, Ends(q0, "cap"))
    BY DEF BumpOrg
  <1>6. \E q : Later(q) /\ Goes(c, q)
    <2> HIDE DEF Later
    <2>1. QED
      BY <1>2, <1>3, <1>4, <1>5
  <1>7. /\ UNCHANGED <<clock, plan, hits, passes, count, answered, uncounted>>
        /\ capCache' \in [Containers -> [at: Int, cap: Nat]]
    <2>1. UNCHANGED <<clock, plan, hits, passes, count, answered, uncounted, capCache>>
      BY DEF BumpOrg, histories
    <2>2. QED
      BY <2>1, MeterParts
  <1>8. QED
    BY <1>1, <1>6, <1>7, Onwards

LEMMA KilledKeeps ==
    ASSUME MeterInvariant, NEW c \in Containers, Killed(c)
    PROVE  MeterInvariant'
  <1>1. /\ Goes(c, NoRequest) /\ capCache' = [capCache EXCEPT ![c] = NoCap]
        /\ UNCHANGED <<clock, plan, hits, passes, count, answered, uncounted>>
    BY DEF Killed, Dies, store, histories
  <1>2. capCache' \in [Containers -> [at: Int, cap: Nat]]
    BY <1>1, NoCapFacts, MeterParts
  <1>3. QED
    BY <1>1, <1>2, NoRequestFacts, Onwards

\* Requests told apart by neither their bucket nor their counters' answers.
LEMMA WithinSame ==
    ASSUME NEW q, NEW r, NEW b, q.clean = r.clean, q.over = r.over, q.app = r.app,
           q.ip = r.ip, q.minute = r.minute
    PROVE  Within(q, b) <=> Within(r, b)
  BY DEF Within, Bucket

LEMMA CountEndsKeeps ==
    ASSUME MeterInvariant, NEW c \in Containers, CountEnds(c)
    PROVE  MeterInvariant'
  <1> DEFINE q0 == inv[c]
             key0 == <<q0.app, Month(q0.entered)>>
  <1>1. PICK o \in Outcomes :
            /\ count' = [count EXCEPT ![key0] = @ + o.n]
            /\ \/ o.ok /\ Goes(c, [q0 EXCEPT !.counting = "written"])
                  /\ UNCHANGED <<capCache, uncounted, lost>>
               \/ ~o.ok /\ q0.pc = "settle" /\ Goes(c, [q0 EXCEPT !.counting = "failed"])
                  /\ uncounted' = [uncounted EXCEPT ![key0] = @ + 1]
                  /\ UNCHANGED <<capCache, lost>>
               \/ ~o.ok /\ q0.pc # "settle" /\ Dies(c) /\ lost' = TRUE
                  /\ UNCHANGED uncounted
    BY DEF CountEnds
  <1>2. q0.counting = "pending" /\ UNCHANGED <<clock, plan, hits, passes, answered>>
    BY DEF CountEnds
  <1>3. q0 \in Request /\ Orderly(q0) /\ MeterShape
    BY MeterParts
  <1>4. o.ok \in BOOLEAN /\ o.n \in Nat /\ (o.ok => o.n >= 1)
    BY OutcomeFacts
  <1> HIDE DEF q0, key0
  <1>5. /\ count' \in [Apps \X Months -> Nat]
        /\ \A key \in Apps \X Months :
            /\ count[key] \in Nat
            /\ count'[key] = IF key = key0 THEN count[key] + o.n ELSE count[key]
    <2>1. count \in [Apps \X Months -> Nat]
      BY MeterParts
    <2>2. count' = [count EXCEPT ![key0] = count[key0] + o.n]
      BY <1>1
    <2>3. QED
      BY <1>4, <2>1, <2>2, Added
  <1>6. /\ uncounted' \in [Apps \X Months -> Nat]
        /\ \A key \in Apps \X Months : uncounted[key] \in Nat /\ uncounted[key] <= uncounted'[key]
    <2>1. uncounted \in [Apps \X Months -> Nat]
      BY MeterParts
    <2>2. CASE uncounted' = uncounted
      BY <2>1, <2>2
    <2>3. CASE uncounted' = [uncounted EXCEPT ![key0] = @ + 1]
      <3>1. uncounted' = [uncounted EXCEPT ![key0] = uncounted[key0] + 1]
        BY <2>3
      <3>2. /\ uncounted' \in [Apps \X Months -> Nat]
            /\ \A key \in Apps \X Months :
                 /\ uncounted[key] \in Nat
                 /\ uncounted'[key] = IF key = key0 THEN uncounted[key] + 1 ELSE uncounted[key]
        BY <2>1, <3>1, Added
      <3>3. QED
        BY <3>2
    <2>4. QED
      BY <1>1, <2>2, <2>3
  <1>7. ASSUME NEW q \in Request, Goes(c, q), Orderly(q), capCache' \in [Containers -> [at: Int, cap: Nat]],
               q.clean = {} \/ \A b : Within(q, b) => Within(q0, b),
               \A key \in Apps \X Months :
                  \/ ~Settled(q, key)
                  \/ count[key] + uncounted[key] + 1 <= count'[key] + uncounted'[key]
        PROVE  MeterInvariant'
    <2>1. MeterShape'
      <3>1. /\ clock' \in Nat /\ plan' \in Nat
            /\ hits' \in [Buckets -> Nat] /\ passes' \in [Buckets -> Nat]
            /\ answered' \in [Apps \X Months -> Nat]
        BY <1>2, MeterParts
      <3>2. QED
        BY <1>3, <1>5, <1>6, <1>7, <3>1, ShapeFromParts
    <2>2. RatesInvariant'
      <3>1. \A b \in Buckets : /\ passes'[b] = passes[b] /\ hits[b] <= hits'[b]
                               /\ Within(q, b) => Within(q0, b)
        <4>1. \A b \in Buckets : hits[b] \in Nat
          BY MeterParts
        <4>2. \A b : Within(q, b) => Within(q0, b)
          BY <1>7 DEF Within
        <4>3. QED
          BY <1>2, <4>1, <4>2
      <3>2. QED
        BY <1>3, <1>7, <2>1, <3>1, MeterParts, RatesFromParts DEF q0
    <2>3. CountsInvariant'
      <3>1. \A key \in Apps \X Months :
              /\ answered'[key] = answered[key]
              /\ count[key] + uncounted[key] <= count'[key] + uncounted'[key]
        <4>1. ASSUME NEW key \in Apps \X Months
              PROVE  count[key] + uncounted[key] <= count'[key] + uncounted'[key]
          <5>1. /\ count[key] \in Nat /\ uncounted[key] \in Nat
                /\ count'[key] \in Nat /\ uncounted'[key] \in Nat
                /\ count[key] <= count'[key] /\ uncounted[key] <= uncounted'[key]
            BY <1>4, <1>5, <1>6
          <5>2. QED
            BY <5>1
        <4>2. QED
          BY <1>2, <4>1
      <3>2. QED
        BY <1>3, <1>7, <2>1, <3>1, MeterParts, CountsFromParts DEF q0
    <2>4. QED
      BY <2>1, <2>2, <2>3 DEF MeterInvariant
  <1>8. capCache \in [Containers -> [at: Int, cap: Nat]]
    BY MeterParts
  <1>9. CASE o.ok /\ Goes(c, [q0 EXCEPT !.counting = "written"]) /\ UNCHANGED <<capCache, uncounted>>
    <2> DEFINE q == [q0 EXCEPT !.counting = "written"]
    <2>1. /\ q \in Request /\ q.clean = q0.clean /\ q.over = q0.over /\ q.app = q0.app
          /\ q.ip = q0.ip /\ q.minute = q0.minute /\ q.pc = q0.pc /\ q.waiting = q0.waiting
          /\ q.entered = q0.entered /\ q.counting = "written"
      BY <1>3 DEF Request
    <2>2. Goes(c, q)
      BY <1>9
    <2> HIDE DEF q
    <2>3. Orderly(q)
      BY <1>3, <2>1 DEF Orderly
    <2>4. ASSUME NEW key \in Apps \X Months, Settled(q, key)
          PROVE  count[key] + uncounted[key] + 1 <= count'[key] + uncounted'[key]
      <3>1. key = key0
        BY <2>1, <2>4 DEF Settled, key0
      <3>2. count'[key] = count[key] + o.n /\ uncounted'[key] = uncounted[key]
        BY <1>5, <1>9, <3>1
      <3>3. count[key] \in Nat /\ uncounted[key] \in Nat /\ o.n \in Nat /\ o.n >= 1
        BY <1>4, <1>5, <1>6, <1>9
      <3>4. QED
        BY <3>2, <3>3
    <2>5. \A b : Within(q, b) => Within(q0, b)
      BY <2>1, WithinSame
    <2>6. capCache' \in [Containers -> [at: Int, cap: Nat]]
      BY <1>8, <1>9
    <2>7. QED
      BY <1>7, <2>1, <2>2, <2>3, <2>4, <2>5, <2>6
  <1>10. CASE /\ ~o.ok /\ q0.pc = "settle" /\ Goes(c, [q0 EXCEPT !.counting = "failed"])
              /\ uncounted' = [uncounted EXCEPT ![key0] = @ + 1] /\ UNCHANGED capCache
    <2> DEFINE q == [q0 EXCEPT !.counting = "failed"]
    <2>1. /\ q \in Request /\ q.clean = q0.clean /\ q.over = q0.over /\ q.app = q0.app
          /\ q.ip = q0.ip /\ q.minute = q0.minute /\ q.pc = q0.pc /\ q.waiting = q0.waiting
          /\ q.entered = q0.entered /\ q.counting = "failed"
      BY <1>3 DEF Request
    <2>2. Goes(c, q)
      BY <1>10
    <2> HIDE DEF q
    <2>3. Orderly(q)
      BY <1>3, <2>1 DEF Orderly
    <2>4. ASSUME NEW key \in Apps \X Months, Settled(q, key)
          PROVE  count[key] + uncounted[key] + 1 <= count'[key] + uncounted'[key]
      <3>1. key = key0
        BY <2>1, <2>4 DEF Settled, key0
      <3>2. uncounted \in [Apps \X Months -> Nat]
        BY MeterParts
      <3>3. count'[key] = count[key] + o.n /\ uncounted'[key] = uncounted[key] + 1
        BY <1>5, <1>10, <3>1, <3>2
      <3>4. count[key] \in Nat /\ uncounted[key] \in Nat /\ o.n \in Nat
        BY <1>4, <1>5, <1>6
      <3>5. QED
        BY <3>3, <3>4
    <2>5. \A b : Within(q, b) => Within(q0, b)
      BY <2>1, WithinSame
    <2>6. capCache' \in [Containers -> [at: Int, cap: Nat]]
      BY <1>8, <1>10
    <2>7. QED
      BY <1>7, <2>1, <2>2, <2>3, <2>4, <2>5, <2>6
  <1>11. CASE Dies(c)
    <2>1. Goes(c, NoRequest) /\ capCache' \in [Containers -> [at: Int, cap: Nat]]
      BY <1>8, <1>11, NoCapFacts DEF Dies
    <2>2. \A key : ~Settled(NoRequest, key)
      BY NoRequestFacts DEF Settled
    <2>3. QED
      BY <1>7, <2>1, <2>2, NoRequestFacts
  <1>12. QED
    BY <1>1, <1>9, <1>10, <1>11

LEMMA BumpRateKeeps ==
    ASSUME MeterInvariant, NEW c \in Containers, BumpRate(c)
    PROVE  MeterInvariant'
  <1> DEFINE q0 == inv[c]
  <1>1. PICK k \in q0.waiting, o \in Outcomes :
            /\ hits' = [hits EXCEPT ![Bucket(k, q0)] = @ + o.n]
            /\ Goes(c, [q0 EXCEPT
                 !.waiting = @ \ {k},
                 !.clean = IF o.ok THEN @ \cup {k} ELSE @,
                 !.over = IF o.ok /\ hits'[Bucket(k, q0)] > RateLimit[k] THEN @ \cup {k} ELSE @])
    BY DEF BumpRate
  <1> DEFINE b0 == Bucket(k, q0)
             wait == q0.waiting \ {k}
             clean == IF o.ok THEN q0.clean \cup {k} ELSE q0.clean
             over == IF o.ok /\ hits'[b0] > RateLimit[k] THEN q0.over \cup {k} ELSE q0.over
             q == [q0 EXCEPT !.waiting = wait, !.clean = clean, !.over = over]
  <1>2. /\ q0.pc = "rate"
        /\ UNCHANGED <<clock, plan, passes, count, answered, uncounted, capCache>>
    BY DEF BumpRate, At, histories
  <1>3. q0 \in Request /\ Orderly(q0) /\ MeterShape
    BY MeterParts
  <1>4. o.ok \in BOOLEAN /\ o.n \in Nat /\ (o.ok => o.n >= 1)
    BY OutcomeFacts
  <1>5. q0.waiting \in SUBSET Kinds /\ q0.clean \in SUBSET Kinds /\ q0.over \in SUBSET Kinds
        /\ k \in Kinds /\ k \notin q0.clean
    BY <1>3 DEF Request, Orderly
  <1>6. wait \in SUBSET Kinds /\ clean \in SUBSET Kinds /\ over \in SUBSET Kinds
        /\ wait \cap clean = {}
    BY <1>3, <1>5 DEF Orderly
  <1>7. Goes(c, q)
    BY <1>1
  <1>8. b0[1] = k
    BY DEF Bucket
  <1>9. /\ o.ok => clean = q0.clean \cup {k}
        /\ ~o.ok => clean = q0.clean
        /\ q0.over \subseteq over
        /\ o.ok /\ k \notin over => ~(hits'[b0] > RateLimit[k])
    BY <1>4
  <1> HIDE DEF q0, b0, wait, clean, over
  <1>10. /\ q \in Request /\ q.waiting = wait /\ q.clean = clean /\ q.over = over
         /\ q.pc = "rate" /\ q.app = q0.app /\ q.ip = q0.ip /\ q.minute = q0.minute
         /\ q.counting = q0.counting /\ q.entered = q0.entered
    BY <1>2, <1>3, <1>6 DEF Request
  <1> HIDE DEF q
  <1>11. Orderly(q)
    BY <1>2, <1>3, <1>6, <1>10 DEF Orderly
  <1>12. /\ hits' \in [Buckets -> Nat]
         /\ \A b \in Buckets : /\ hits[b] \in Nat
                               /\ hits'[b] = IF b = b0 THEN hits[b] + o.n ELSE hits[b]
    <2>1. hits \in [Buckets -> Nat] /\ hits' = [hits EXCEPT ![b0] = hits[b0] + o.n]
      BY <1>1, MeterParts DEF b0
    <2>2. QED
      BY <1>4, <2>1, Added
  <1>13. MeterShape'
    <2>1. /\ clock' \in Nat /\ plan' \in Nat /\ passes' \in [Buckets -> Nat]
          /\ count' \in [Apps \X Months -> Nat] /\ answered' \in [Apps \X Months -> Nat]
          /\ uncounted' \in [Apps \X Months -> Nat]
          /\ capCache' \in [Containers -> [at: Int, cap: Nat]]
      BY <1>2, MeterParts
    <2>2. QED
      BY <1>3, <1>7, <1>10, <1>11, <1>12, <2>1, ShapeFromParts
  <1>14. \A j : Bucket(j, q) = Bucket(j, q0)
    BY <1>10 DEF Bucket
  <1>15. ASSUME NEW b \in Buckets, b[1] \in Blocking
         PROVE  \/ /\ passes'[b] = passes[b] /\ hits[b] <= hits'[b]
                   /\ Within(q, b) => Within(q0, b)
                \/ /\ passes'[b] = passes[b] /\ hits[b] + 1 <= hits'[b]
                   /\ hits'[b] <= RateLimit[b[1]]
    <2>1. CASE Within(q, b) /\ ~Within(q0, b)
      <3>1. PICK j \in clean \ over : b = Bucket(j, q0)
        BY <1>10, <1>14, <2>1 DEF Within
      <3>2. j \notin q0.clean
        BY <1>9, <2>1, <3>1 DEF Within
      <3>3. o.ok /\ j = k /\ k \notin over
        BY <1>4, <1>9, <3>1, <3>2
      <3>4. b = b0
        BY <3>1, <3>3 DEF b0
      <3>5. hits'[b] = hits[b] + o.n /\ hits[b] \in Nat /\ o.n \in Nat /\ o.n >= 1
        BY <1>4, <1>12, <3>3, <3>4
      <3>6. ~(hits'[b] > RateLimit[k]) /\ RateLimit[k] \in Nat
        BY <1>5, <1>9, <3>3, <3>4, MeterConstants
      <3>7. b[1] = k
        BY <1>8, <3>4
      <3>8. QED
        BY <1>2, <3>5, <3>6, <3>7
    <2>2. CASE Within(q, b) => Within(q0, b)
      <3>1. hits[b] <= hits'[b]
        BY <1>4, <1>12
      <3>2. QED
        BY <1>2, <2>2, <3>1
    <2>3. QED
      BY <2>1, <2>2
  <1>16. RatesInvariant'
    BY <1>3, <1>7, <1>13, <1>15, MeterParts, RatesFromParts DEF q0
  <1>17. CountsInvariant'
    <2>1. \A key \in Apps \X Months :
            /\ answered'[key] = answered[key]
            /\ count[key] + uncounted[key] <= count'[key] + uncounted'[key]
            /\ Settled(q, key) => Settled(q0, key)
      <3>1. \A key \in Apps \X Months : count[key] \in Nat /\ uncounted[key] \in Nat
        BY MeterParts
      <3>2. \A key : Settled(q, key) => Settled(q0, key)
        BY <1>10 DEF Settled
      <3>3. QED
        BY <1>2, <3>1, <3>2
    <2>2. QED
      BY <1>3, <1>7, <1>13, <2>1, MeterParts, CountsFromParts DEF q0
  <1>18. QED
    BY <1>13, <1>16, <1>17 DEF MeterInvariant

LEMMA ThrottleKeeps ==
    ASSUME MeterInvariant, NEW c \in Containers, Throttle(c)
    PROVE  MeterInvariant'
  <1> DEFINE q0 == inv[c]
             passing == ~(q0.over \cap Blocking # {})
             verdict == IF passing THEN "passed" ELSE "rate"
             q == Ends(q0, verdict)
  <1>1. /\ Goes(c, q)
        /\ ~passing => passes' = passes
        /\ passing => passes' = [b \in Buckets |->
              passes[b] + (IF \E k \in q0.clean : b = Bucket(k, q0) THEN 1 ELSE 0)]
        /\ UNCHANGED <<clock, plan, hits, count, answered, uncounted, capCache>>
    BY DEF Throttle, store
  <1>2. q0 \in Request /\ MeterShape /\ Orderly(q0) /\ q0.pc = "rate"
    BY MeterParts DEF Throttle, At
  <1>3. verdict \in {"none", "cap", "rate", "passed"}
    OBVIOUS
  <1> HIDE DEF q0, verdict
  <1>4. q \in Request /\ q.clean = {} /\ Same(q, q0) /\ Orderly(q)
    <2>1. q \in Request /\ q.clean = {} /\ Same(q, q0)
      BY <1>2, <1>3, EndsFacts
    <2>2. q0.counting # "none"
      BY <1>2 DEF Orderly
    <2>3. QED
      BY <2>1, <2>2 DEF Orderly, Same
  <1> HIDE DEF q
  <1>5. /\ passes' \in [Buckets -> Nat]
        /\ \A b \in Buckets :
             \/ passes'[b] = passes[b]
             \/ passes'[b] = passes[b] + 1 /\ passing /\ \E k \in q0.clean : b = Bucket(k, q0)
    <2>1. passes \in [Buckets -> Nat]
      BY MeterParts
    <2>2. CASE passing
      <3>1. \A b \in Buckets : passes[b] \in Nat
        BY <2>1
      <3>2. \A b \in Buckets :
              passes'[b] = passes[b] + (IF \E k \in q0.clean : b = Bucket(k, q0) THEN 1 ELSE 0)
        BY <1>1, <2>2
      <3>3. ASSUME NEW b \in Buckets
            PROVE  \/ passes'[b] = passes[b]
                   \/ passes'[b] = passes[b] + 1 /\ passing /\ \E k \in q0.clean : b = Bucket(k, q0)
        <4>1. CASE \E k \in q0.clean : b = Bucket(k, q0)
          BY <2>2, <3>2, <4>1
        <4>2. CASE ~\E k \in q0.clean : b = Bucket(k, q0)
          BY <3>1, <3>2, <4>2
        <4>3. QED
          BY <4>1, <4>2
      <3>4. \A b \in Buckets : passes'[b] \in Nat
        BY <3>1, <3>3
      <3>5. passes' = [b \in Buckets |-> passes'[b]]
        BY <1>1, <2>2
      <3>6. QED
        BY <3>3, <3>4, <3>5
    <2>3. CASE ~passing
      BY <1>1, <2>1, <2>3
    <2>4. QED
      BY <2>2, <2>3
  <1>6. MeterShape'
    <2>1. /\ clock' \in Nat /\ plan' \in Nat /\ hits' \in [Buckets -> Nat]
          /\ count' \in [Apps \X Months -> Nat] /\ answered' \in [Apps \X Months -> Nat]
          /\ uncounted' \in [Apps \X Months -> Nat]
          /\ capCache' \in [Containers -> [at: Int, cap: Nat]]
      BY <1>1, MeterParts
    <2>2. QED
      BY <1>1, <1>2, <1>4, <1>5, <2>1, ShapeFromParts
  <1>7. \A b : ~Within(q, b)
    BY <1>4 DEF Within
  <1>8. \A b \in Buckets : hits[b] <= hits'[b]
    <2>1. \A b \in Buckets : hits[b] \in Nat
      BY MeterParts
    <2>2. QED
      BY <1>1, <2>1
  <1>9. ASSUME NEW b \in Buckets, b[1] \in Blocking
        PROVE  \/ passes'[b] = passes[b]
               \/ passes'[b] = passes[b] + 1 /\ Within(q0, b)
    <2>1. CASE passing /\ \E k \in q0.clean : b = Bucket(k, q0)
      <3>1. PICK k \in q0.clean : b = Bucket(k, q0)
        BY <2>1
      <3>2. b[1] = k
        BY <3>1 DEF Bucket
      <3>3. k \notin q0.over
        BY <1>9, <2>1, <3>2
      <3>4. Within(q0, b)
        BY <3>1, <3>3 DEF Within
      <3>5. QED
        BY <1>5, <3>4
    <2>2. CASE ~(passing /\ \E k \in q0.clean : b = Bucket(k, q0))
      BY <1>5, <2>2
    <2>3. QED
      BY <2>1, <2>2
  <1> HIDE DEF passing
  <1>10. RatesInvariant'
    BY <1>1, <1>2, <1>6, <1>7, <1>8, <1>9, MeterParts, RatesFromParts DEF q0
  <1>11. CountsInvariant'
    <2>1. \A key \in Apps \X Months :
            /\ answered'[key] = answered[key]
            /\ count[key] + uncounted[key] <= count'[key] + uncounted'[key]
            /\ Settled(q, key) => Settled(q0, key)
      <3>1. \A key \in Apps \X Months : count[key] \in Nat /\ uncounted[key] \in Nat
        BY MeterParts
      <3>2. \A key : Settled(q, key) => Settled(q0, key)
        BY <1>4 DEF Settled, Same
      <3>3. QED
        BY <1>1, <3>1, <3>2
    <2>2. QED
      BY <1>1, <1>2, <1>6, <2>1, MeterParts, CountsFromParts DEF q0
  <1>12. QED
    BY <1>6, <1>10, <1>11 DEF MeterInvariant

LEMMA SettleKeeps ==
    ASSUME MeterInvariant, NEW c \in Containers, Settle(c)
    PROVE  MeterInvariant'
  <1> DEFINE q0 == inv[c]
             key0 == <<q0.app, Month(q0.entered)>>
  <1>1. /\ Goes(c, NoRequest) /\ q0.pc = "settle" /\ q0.counting # "pending"
        /\ answered' = [answered EXCEPT ![key0] = answered[key0] + 1]
        /\ UNCHANGED <<clock, plan, hits, passes, count, uncounted, capCache>>
    BY DEF Settle, At, store
  <1>2. q0 \in Request /\ MeterShape /\ Orderly(q0)
    BY MeterParts
  <1>3. q0.counting \in {"written", "failed"}
    BY <1>1, <1>2 DEF Request, Orderly
  <1> HIDE DEF q0, key0
  <1>4. /\ answered' \in [Apps \X Months -> Nat]
        /\ \A key \in Apps \X Months :
             /\ answered[key] \in Nat
             /\ answered'[key] = IF key = key0 THEN answered[key] + 1 ELSE answered[key]
    <2>1. answered \in [Apps \X Months -> Nat]
      BY MeterParts
    <2>2. QED
      BY <1>1, <2>1, Added
  <1>5. MeterShape'
    <2>1. /\ clock' \in Nat /\ plan' \in Nat /\ hits' \in [Buckets -> Nat]
          /\ passes' \in [Buckets -> Nat] /\ count' \in [Apps \X Months -> Nat]
          /\ uncounted' \in [Apps \X Months -> Nat]
          /\ capCache' \in [Containers -> [at: Int, cap: Nat]]
      BY <1>1, MeterParts
    <2>2. QED
      BY <1>1, <1>2, <1>4, <2>1, NoRequestFacts, ShapeFromParts
  <1>6. RatesInvariant'
    <2>1. \A b \in Buckets : /\ passes'[b] = passes[b] /\ hits[b] <= hits'[b]
                             /\ ~Within(NoRequest, b)
      <3>1. \A b \in Buckets : hits[b] \in Nat
        BY MeterParts
      <3>2. QED
        BY <1>1, <3>1, NoRequestFacts DEF Within
    <2>2. QED
      BY <1>1, <1>2, <1>5, <2>1, MeterParts, RatesFromParts
  <1>7. CountsInvariant'
    <2>1. \A key \in Apps \X Months :
            count[key] + uncounted[key] <= count'[key] + uncounted'[key]
      <3>1. \A key \in Apps \X Months : count[key] \in Nat /\ uncounted[key] \in Nat
        BY MeterParts
      <3>2. QED
        BY <1>1, <3>1
    <2>2. \A key : ~Settled(NoRequest, key)
      BY NoRequestFacts DEF Settled
    <2>3. ASSUME NEW key \in Apps \X Months
          PROVE  \/ answered'[key] = answered[key]
                 \/ answered'[key] = answered[key] + 1 /\ Settled(q0, key)
      <3>1. CASE key = key0
        <4>1. Settled(q0, key)
          BY <1>3, <3>1 DEF Settled, key0
        <4>2. QED
          BY <1>4, <3>1, <4>1
      <3>2. CASE key # key0
        BY <1>4, <3>2
      <3>3. QED
        BY <3>1, <3>2
    <2>4. QED
      BY <1>1, <1>2, <1>5, <2>1, <2>2, <2>3, MeterParts, CountsFromParts DEF q0
  <1>8. QED
    BY <1>5, <1>6, <1>7 DEF MeterInvariant

-----------------------------------------------------------------------------
(* The invariant.                                                          *)

LEMMA MeterInit == Init => MeterInvariant
  <1> SUFFICES ASSUME Init PROVE MeterInvariant
    OBVIOUS
  <1>1. /\ clock = 0 /\ plan \in Plans
        /\ hits = [b \in Buckets |-> 0] /\ passes = [b \in Buckets |-> 0]
        /\ count = [key \in Apps \X Months |-> 0]
        /\ answered = [key \in Apps \X Months |-> 0]
        /\ uncounted = [key \in Apps \X Months |-> 0]
        /\ capCache = [c \in Containers |-> NoCap]
        /\ inv = [c \in Containers |-> NoRequest]
    BY DEF Init
  <1>2. MeterShape
    <2>1. hits \in [Buckets -> Nat] /\ passes \in [Buckets -> Nat]
      BY <1>1
    <2>2. count \in [Apps \X Months -> Nat]
      BY <1>1
    <2>3. answered \in [Apps \X Months -> Nat] /\ uncounted \in [Apps \X Months -> Nat]
      BY <1>1
    <2>4. inv \in [Containers -> Request] /\ \A c \in Containers : Orderly(inv[c])
      BY <1>1, NoRequestFacts
    <2>5. capCache \in [Containers -> [at: Int, cap: Nat]]
      BY <1>1, NoCapFacts
    <2>6. clock \in Nat /\ plan \in Nat
      BY <1>1, MeterConstants
    <2>7. QED
      BY <2>1, <2>2, <2>3, <2>4, <2>5, <2>6 DEF MeterShape
  <1>3. \A b : Holders(b) = {}
    BY <1>1, NoRequestFacts DEF Holders, Within
  <1>4. \A key : Owed(key) = {}
    BY <1>1, NoRequestFacts DEF Owed, Settled
  <1>5. Cardinality({}) = 0
    BY FS_EmptySet
  <1>6. RatesInvariant
    <2>1. ASSUME NEW b \in Buckets
          PROVE  hits[b] = 0 /\ passes[b] = 0 /\ RateLimit[b[1]] \in Nat
      <3>1. b[1] \in Kinds
        BY DEF Buckets
      <3>2. QED
        BY <1>1, <3>1, MeterConstants
    <2>2. QED
      BY <1>3, <1>5, <2>1 DEF RatesInvariant
  <1>7. CountsInvariant
    <2>1. \A key \in Apps \X Months : count[key] = 0 /\ answered[key] = 0 /\ uncounted[key] = 0
      BY <1>1
    <2>2. QED
      BY <1>4, <1>5, <2>1 DEF CountsInvariant
  <1>8. QED
    BY <1>2, <1>6, <1>7 DEF MeterInvariant

LEMMA MeterStep == MeterInvariant /\ [Next]_vars => MeterInvariant'
  <1> SUFFICES ASSUME MeterInvariant, [Next]_vars PROVE MeterInvariant'
    OBVIOUS
  <1>1. clock \in Nat /\ plan \in Nat
    BY DEF MeterInvariant, MeterShape
  <1>2. ASSUME NEW c \in Containers, Serve(c) PROVE MeterInvariant'
    BY <1>2, ArriveKeeps, CountEndsKeeps, ReadCapKeeps, StampCapKeeps, BumpOrgKeeps,
       BumpRateKeeps, ThrottleKeeps, SettleKeeps, KilledKeeps DEF Serve
  <1>3. CASE ChangePlan
    <2>1. plan' \in Nat
      BY <1>3, MeterConstants DEF ChangePlan
    <2>2. clock' \in Nat /\ UNCHANGED <<capCache, inv, hits, passes, count, answered, uncounted>>
      BY <1>1, <1>3 DEF ChangePlan
    <2>3. QED
      BY <2>1, <2>2, Elsewhere
  <1>4. CASE ReportEdge
    <2>1. /\ UNCHANGED <<clock, plan>>
          /\ UNCHANGED <<capCache, inv, hits, passes, count, answered, uncounted>>
      BY <1>4 DEF ReportEdge, histories
    <2>2. QED
      BY <1>1, <2>1, Elsewhere
  <1>5. CASE Tick
    <2>1. /\ clock' = clock + 1 /\ plan' = plan
          /\ UNCHANGED <<capCache, inv, hits, passes, count, answered, uncounted>>
      BY <1>5 DEF Tick, store, histories
    <2>2. clock' \in Nat /\ plan' \in Nat
      BY <1>1, <2>1
    <2>3. QED
      BY <2>1, <2>2, Elsewhere
  <1>6. CASE AllOver
    <2>1. /\ UNCHANGED <<clock, plan>>
          /\ UNCHANGED <<capCache, inv, hits, passes, count, answered, uncounted>>
      BY <1>6 DEF AllOver, store, histories
    <2>2. QED
      BY <1>1, <2>1, Elsewhere
  <1>7. CASE UNCHANGED vars
    <2>1. /\ UNCHANGED <<clock, plan>>
          /\ UNCHANGED <<capCache, inv, hits, passes, count, answered, uncounted>>
      BY <1>7 DEF vars
    <2>2. QED
      BY <1>1, <2>1, Elsewhere
  <1>8. QED
    BY <1>2, <1>3, <1>4, <1>5, <1>6, <1>7 DEF Next

\* Every request that passed, or is about to, had a hit of its own within the
\* limit, and every one that is answered, or about to be, a count of its own.
THEOREM EveryRequestMetered == Spec => []MeterInvariant
  <1>1. QED
    BY MeterInit, MeterStep, PTL DEF Spec

\* A bucket that refuses lets no more requests pass than its limit, not counting
\* those it failed to count, however many arrive at once.
THEOREM RateAlwaysHolds == Spec => []RateHolds
  <1>1. MeterInvariant => RateHolds
    <2> SUFFICES ASSUME MeterInvariant, NEW b \in Buckets, b[1] \in Blocking
                 PROVE  passes[b] <= RateLimit[b[1]]
      BY DEF RateHolds
    <2>1. Holders(b) \in SUBSET Containers
      BY DEF Holders
    <2>2. Cardinality(Holders(b)) \in Nat
      BY <2>1, OneMoves
    <2>3. passes[b] \in Nat /\ passes[b] + Cardinality(Holders(b)) <= RateLimit[b[1]]
      BY DEF MeterInvariant, MeterShape, RatesInvariant
    <2>4. RateLimit[b[1]] \in Nat
      <3>1. b[1] \in Kinds
        BY DEF Buckets
      <3>2. QED
        BY <3>1, MeterConstants
    <2>5. QED
      BY <2>2, <2>3, <2>4
  <1>2. QED
    BY <1>1, EveryRequestMetered, PTL

\* Every answered request is in the usage report, or its count was refused.
THEOREM AnsweredAlwaysCounted == Spec => []AnsweredIsCounted
  <1>1. MeterInvariant => AnsweredIsCounted
    <2> SUFFICES ASSUME MeterInvariant, NEW a \in Apps, NEW m \in Months
                 PROVE  answered[<<a, m>>] <= count[<<a, m>>] + uncounted[<<a, m>>]
      BY DEF AnsweredIsCounted
    <2> DEFINE key == <<a, m>>
    <2>1. key \in Apps \X Months
      OBVIOUS
    <2> HIDE DEF key
    <2>2. Owed(key) \in SUBSET Containers
      BY DEF Owed
    <2>3. Cardinality(Owed(key)) \in Nat
      BY <2>2, OneMoves
    <2>4. /\ answered[key] \in Nat /\ count[key] \in Nat /\ uncounted[key] \in Nat
          /\ answered[key] + Cardinality(Owed(key)) <= count[key] + uncounted[key]
      BY <2>1 DEF MeterInvariant, MeterShape, CountsInvariant
    <2>5. answered[key] <= count[key] + uncounted[key]
      BY <2>3, <2>4
    <2>6. QED
      BY <2>5 DEF key
  <1>2. QED
    BY <1>1, EveryRequestMetered, PTL

-----------------------------------------------------------------------------
(* Plans, months and causes.                                               *)

LEMMA MonthFacts ==
    /\ 0 \in Months
    /\ \A t \in 0..MaxClock : Month(t) \in Months /\ Month(t) \in Nat
    /\ \A s, t \in 0..MaxClock : s <= t => Month(s) <= Month(t)
    /\ Months \subseteq Nat
  <1>1. MonthLength \in Nat /\ MonthLength > 0 /\ MaxClock \in Nat
    BY MeterAssumption
  <1>2. \A t \in Nat : t \div MonthLength \in Nat
    BY <1>1
  <1>3. \A s, t \in Nat : s <= t => s \div MonthLength <= t \div MonthLength
    BY <1>1
  <1>4. \A t \in 0..MaxClock : t \in Nat /\ t <= MaxClock
    BY <1>1
  <1>5. MaxClock \div MonthLength \in Nat
    BY <1>1, <1>2
  <1>6. QED
    BY <1>1, <1>2, <1>3, <1>4, <1>5 DEF Months, Month

LEMMA MeterNumbers ==
    /\ Plans \subseteq Nat /\ Limit \in Nat /\ CapLife \in Nat /\ Limit >= 1 /\ CapLife >= 1
    /\ Long \in Int /\ Long < 0 /\ MaxClock \in Nat /\ Counted \in Nat
    /\ \A t \in Int : HeardBy(t) = t + (Limit - 1) + (CapLife - 1)
    /\ \A t \in Int : HeardBy(t) \in Int /\ t <= HeardBy(t)
  BY MeterAssumption DEF Long, HeardBy

\* Months only fill.
LEMMA OverPlanGrows ==
    ASSUME NEW a \in Nat, NEW b \in Nat, NEW x \in Nat, NEW y \in Nat, NEW p \in Nat,
           a <= x, b <= y, OverPlan(a, b, p)
    PROVE  OverPlan(x, y, p)
  BY DEF OverPlan, Larger

LEMMA NothingOver == ASSUME NEW p \in Nat PROVE ~OverPlan(0, 0, p)
  <1>1. Larger(0, 0) = 0
    BY DEF Larger
  <1>2. ~(p > 0 /\ 0 > 105 * p)
    OBVIOUS
  <1>3. QED
    BY <1>1, <1>2 DEF OverPlan

\* What TypeOK says of a request under way, field by field.
Proper(q, now) ==
    /\ q \in Request /\ q.pc # "idle" /\ q.counting # "none"
    /\ q.app \in Apps /\ q.ip \in Addresses /\ q.entered \in 0..now /\ q.minute \in 0..now
    /\ q.cap \in Plans \cup {0} /\ q.month \in Months

\* The part of TypeOK that MeterShape leaves open.
WorldTypes ==
    /\ clock \in 0..MaxClock /\ plan \in Plans
    /\ edge \in [Months -> Nat] /\ org \in [Months -> Nat]
    /\ arrivals \in 0..MaxRequests /\ faults \in 0..MaxFaults /\ changes \in 0..MaxChanges
    /\ inForce \in [Plans -> {Long} \cup 0..clock] /\ lastUnder \in 0..clock
    /\ lost \in BOOLEAN

PlanTypes ==
    /\ WorldTypes
    /\ capCache \in [Containers -> [at: -CapLife..clock, cap: Plans \cup {0}]]
    /\ \A c \in Containers : inv[c] = NoRequest \/ Proper(inv[c], clock)

LEMMA BucketType ==
    ASSUME NEW q, PlanTypes, Proper(q, clock), NEW k \in Kinds
    PROVE  Bucket(k, q) \in Buckets
  <1>1. {MinuteLength, WindowLength} \subseteq Nat /\ MinuteLength > 0 /\ WindowLength > 0
    BY MeterAssumption
  <1>2. q.minute \in Nat /\ q.minute <= MaxClock /\ MaxClock \in Nat
    BY MeterNumbers DEF PlanTypes, WorldTypes, Proper
  <1>3. q.minute \div MinuteLength \in 0..MaxClock
    <2>1. q.minute \div MinuteLength \in Nat /\ q.minute \div MinuteLength <= q.minute
      BY <1>1, <1>2
    <2>2. QED
      BY <1>2, <2>1
  <1>4. q.minute \div WindowLength \in 0..MaxClock
    <2>1. q.minute \div WindowLength \in Nat /\ q.minute \div WindowLength <= q.minute
      BY <1>1, <1>2
    <2>2. QED
      BY <1>2, <2>1
  <1>5. QED
    BY <1>3, <1>4 DEF Bucket, Buckets, Proper

-----------------------------------------------------------------------------
(* What a step does to the registry and the counters.                      *)

\* Clocks, counters and histories advance; a plan that is left was in force
\* until now; a new month begins within every plan.
Grows ==
    /\ clock <= clock' /\ clock' \in 0..MaxClock
    /\ \A p \in Plans : inForce[p] <= inForce'[p]
    /\ plan = plan' \/ inForce'[plan] = clock
    /\ \A p \in Plans : inForce'[p] = clock' =>
         clock' = clock /\ (p = plan \/ inForce[p] = clock)
    /\ \A m \in Months : org[m] <= org'[m] /\ edge[m] <= edge'[m]
    /\ \A b \in Buckets : hits[b] <= hits'[b]
    /\ lastUnder <= lastUnder' /\ lastUnder' <= clock'
    /\ Month(clock') = Month(clock) \/ lastUnder' = clock'

\* Knows, PlanSound and the causes of a refusal, after a step.
KnowsNext(p, t) ==
    /\ p # 0 => p \in Plans /\ (p = plan' \/ t <= inForce'[p])
    /\ t > lastUnder' => OverPlan(org'[Month(clock')], edge'[Month(clock')], p)

PlanSoundNext(q) ==
    /\ q.verdict # "none" => q.pc = "settle"
    /\ q.pc = "cap" => q.cap = 0 /\ ~q.unsure
    /\ q.pc # "rate" => q.over = {}
    /\ q.pc = "stamp" => ~q.unsure /\ KnowsNext(q.cap, q.entered)
    /\ q.pc = "org" =>
         /\ q.month <= Month(clock')
         /\ q.entered > lastUnder' => q.month = Month(clock')
         /\ IF q.unsure THEN q.cap = 0 ELSE KnowsNext(q.cap, q.entered - HeardBy(0))
    /\ (q.pc = "rate" \/ q.verdict = "passed") /\ ~q.unsure =>
         q.entered <= HeardBy(lastUnder')
    /\ q.pc = "rate" => \A k \in q.over : hits'[Bucket(k, q)] > RateLimit[k]

Cause(q) ==
    /\ q.verdict = "cap" =>
         \E p \in Plans : /\ p = plan \/ q.entered <= HeardBy(inForce[p])
                          /\ OverPlan(org[q.month], edge[q.month], p)
    /\ q.verdict = "rate" => \E k \in Blocking : hits[Bucket(k, q)] > RateLimit[k]

CauseNext(q) ==
    /\ q.verdict = "cap" =>
         \E p \in Plans : /\ p = plan' \/ q.entered <= HeardBy(inForce'[p])
                          /\ OverPlan(org'[q.month], edge'[q.month], p)
    /\ q.verdict = "rate" => \E k \in Blocking : hits'[Bucket(k, q)] > RateLimit[k]

\* What is known of a plan stays known.
LEMMA KnowsKept ==
    ASSUME PlanTypes, WorldTypes', Grows, NEW p \in Plans \cup {0}, NEW t \in Int, t <= clock,
           Knows(p, t)
    PROVE  KnowsNext(p, t)
  <1>1. clock \in Nat /\ lastUnder \in Nat /\ lastUnder' \in Nat /\ p \in Nat /\ clock' \in Nat
    BY MeterNumbers DEF PlanTypes, WorldTypes
  <1>2. ASSUME p # 0 PROVE p \in Plans /\ (p = plan' \/ t <= inForce'[p])
    <2>1. p \in Plans /\ (p = plan \/ t <= inForce[p])
      BY <1>2 DEF Knows
    <2>2. inForce[p] \in Int /\ inForce'[p] \in Int
      BY <2>1, MeterNumbers DEF PlanTypes, WorldTypes
    <2>3. inForce[p] <= inForce'[p]
      BY <2>1 DEF Grows
    <2>4. p = plan => p = plan' \/ inForce'[p] = clock
      BY DEF Grows
    <2>5. QED
      BY <1>1, <2>1, <2>2, <2>3, <2>4
  <1>3. ASSUME t > lastUnder' PROVE OverPlan(org'[Month(clock')], edge'[Month(clock')], p)
    <2>1. t > lastUnder /\ lastUnder' # clock'
      BY <1>1, <1>3 DEF Grows
    <2>2. Month(clock') = Month(clock) /\ Month(clock) \in Months
      BY <2>1, MonthFacts DEF Grows, PlanTypes, WorldTypes
    <2>3. OverPlan(org[Month(clock)], edge[Month(clock)], p)
      BY <2>1 DEF Knows, Past
    <2>4. ASSUME NEW m \in Months
          PROVE  /\ org[m] \in Nat /\ org'[m] \in Nat /\ edge[m] \in Nat /\ edge'[m] \in Nat
                 /\ org[m] <= org'[m] /\ edge[m] <= edge'[m]
      BY DEF PlanTypes, WorldTypes, Grows
    <2>5. QED
      BY <1>1, <2>2, <2>3, <2>4, OverPlanGrows
  <1>4. QED
    BY <1>2, <1>3 DEF KnowsNext

\* A request that does not move stays as it should be.
LEMMA PlanSoundKept ==
    ASSUME PlanTypes, WorldTypes', MeterShape, MeterShape', Grows, NEW q, Proper(q, clock),
           PlanSound(q), Cause(q)
    PROVE  PlanSoundNext(q) /\ CauseNext(q)
  <1>1. /\ q \in Request /\ q.entered \in Nat /\ q.entered <= clock /\ q.cap \in Plans \cup {0}
        /\ q.month \in Months /\ q.month \in Nat /\ q.over \in SUBSET Kinds
        /\ clock \in Nat /\ lastUnder \in Nat /\ lastUnder' \in Nat /\ clock' \in Nat
    BY MonthFacts, MeterNumbers DEF PlanTypes, WorldTypes, Proper, Request
  <1>2. /\ Month(clock) <= Month(clock') /\ Month(clock) \in Nat /\ Month(clock') \in Nat
        /\ clock <= clock' /\ lastUnder <= lastUnder' /\ lastUnder' <= clock'
        /\ Month(clock') = Month(clock) \/ lastUnder' = clock'
    BY MonthFacts DEF Grows, PlanTypes, WorldTypes
  <1>3. \A k \in Kinds : /\ hits[Bucket(k, q)] \in Nat /\ hits'[Bucket(k, q)] \in Nat
                         /\ hits[Bucket(k, q)] <= hits'[Bucket(k, q)] /\ RateLimit[k] \in Nat
    BY BucketType, MeterConstants DEF MeterShape, Grows
  <1>4. q.pc = "stamp" => KnowsNext(q.cap, q.entered)
    BY <1>1, KnowsKept DEF PlanSound
  <1>5. ASSUME q.pc = "org", ~q.unsure PROVE KnowsNext(q.cap, q.entered - HeardBy(0))
    <2>1. q.entered - HeardBy(0) \in Int /\ q.entered - HeardBy(0) <= clock
      BY <1>1, MeterNumbers
    <2>2. Knows(q.cap, q.entered - HeardBy(0))
      BY <1>5 DEF PlanSound
    <2>3. QED
      BY <1>1, <2>1, <2>2, KnowsKept
  <1>6. q.pc = "org" => /\ q.month <= Month(clock')
                        /\ q.entered > lastUnder' => q.month = Month(clock')
                        /\ q.unsure => q.cap = 0
    BY <1>1, <1>2 DEF PlanSound
  <1>7. (q.pc = "rate" \/ q.verdict = "passed") /\ ~q.unsure => q.entered <= HeardBy(lastUnder')
    <2>1. HeardBy(lastUnder) <= HeardBy(lastUnder') /\ HeardBy(lastUnder) \in Int
          /\ HeardBy(lastUnder') \in Int
      BY <1>1, <1>2, MeterNumbers
    <2>2. QED
      BY <1>1, <2>1 DEF PlanSound
  <1>8. q.pc = "rate" => \A k \in q.over : hits'[Bucket(k, q)] > RateLimit[k]
    BY <1>1, <1>3 DEF PlanSound
  <1>9. PlanSoundNext(q)
    <2>1. /\ q.verdict # "none" => q.pc = "settle"
          /\ q.pc = "cap" => q.cap = 0 /\ ~q.unsure
          /\ q.pc # "rate" => q.over = {}
          /\ q.pc = "stamp" => ~q.unsure
      BY DEF PlanSound
    <2>2. QED
      BY <1>4, <1>5, <1>6, <1>7, <1>8, <2>1 DEF PlanSoundNext
  <1>10. ASSUME q.verdict = "cap"
         PROVE  \E p \in Plans : /\ p = plan' \/ q.entered <= HeardBy(inForce'[p])
                                 /\ OverPlan(org'[q.month], edge'[q.month], p)
    <2>1. PICK p \in Plans : /\ p = plan \/ q.entered <= HeardBy(inForce[p])
                             /\ OverPlan(org[q.month], edge[q.month], p)
      BY <1>10 DEF Cause
    <2>2. OverPlan(org'[q.month], edge'[q.month], p)
      <3>1. /\ org[q.month] \in Nat /\ org'[q.month] \in Nat
            /\ edge[q.month] \in Nat /\ edge'[q.month] \in Nat
            /\ org[q.month] <= org'[q.month] /\ edge[q.month] <= edge'[q.month]
        BY <1>1 DEF PlanTypes, WorldTypes, Grows
      <3>2. p \in Nat
        BY MeterNumbers
      <3>3. QED
        BY <2>1, <3>1, <3>2, OverPlanGrows
    <2>3. p = plan' \/ q.entered <= HeardBy(inForce'[p])
      <3>1. inForce[p] \in Int /\ inForce'[p] \in Int /\ inForce[p] <= inForce'[p]
        BY MeterNumbers DEF PlanTypes, WorldTypes, Grows
      <3>2. p = plan => p = plan' \/ inForce'[p] = clock
        BY DEF Grows
      <3>3. CASE p = plan
        <4>1. p = plan' \/ clock <= HeardBy(inForce'[p])
          BY <1>1, <3>1, <3>2, <3>3, MeterNumbers
        <4>2. QED
          BY <1>1, <3>1, <4>1, MeterNumbers
      <3>4. CASE q.entered <= HeardBy(inForce[p])
        BY <1>1, <3>1, <3>4, MeterNumbers
      <3>5. QED
        BY <2>1, <3>3, <3>4
    <2>4. QED
      BY <2>2, <2>3
  <1>11. ASSUME q.verdict = "rate" PROVE \E k \in Blocking : hits'[Bucket(k, q)] > RateLimit[k]
    <2>1. PICK k \in Blocking : hits[Bucket(k, q)] > RateLimit[k]
      BY <1>11 DEF Cause
    <2>2. k \in Kinds
      BY MeterAssumption
    <2>3. QED
      BY <1>3, <2>1, <2>2
  <1>12. QED
    BY <1>9, <1>10, <1>11 DEF CauseNext

LEMMA NoRequestSound == PlanSoundNext(NoRequest) /\ CauseNext(NoRequest)
  BY DEF NoRequest, PlanSoundNext, CauseNext

LEMMA KnowsEarlier ==
    ASSUME WorldTypes', NEW p \in Plans \cup {0}, NEW s \in Int, NEW t \in Int, s <= t,
           KnowsNext(p, t)
    PROVE  KnowsNext(p, s)
  <1>1. lastUnder' \in Int /\ \A x \in Plans : inForce'[x] \in Int
    BY MeterNumbers DEF PlanTypes, WorldTypes
  <1>2. QED
    BY <1>1 DEF KnowsNext

\* Every step records whether it leaves the month within the plan.
Recorded ==
    lastUnder' = IF OverPlan(org'[Month(clock')], edge'[Month(clock')], plan')
                 THEN lastUnder ELSE clock'

-----------------------------------------------------------------------------
(* The world of a step that serves a request.                              *)

\* What such a step leaves alone, and what it only adds to.
Served ==
    /\ UNCHANGED <<clock, plan, edge, inForce, changes>>
    /\ org' \in [Months -> Nat] /\ \A m \in Months : org[m] <= org'[m]
    /\ \A m \in Months : m > Month(clock) => org'[m] = org[m]
    /\ \A b \in Buckets : hits[b] <= hits'[b]
    /\ arrivals' \in 0..MaxRequests /\ faults' \in 0..MaxFaults /\ lost' \in BOOLEAN

LEMMA RequestUnderWay ==
    ASSUME PlanTypes, PlanInvariant, NEW c \in Containers, inv[c].pc # "idle"
    PROVE  Proper(inv[c], clock) /\ PlanSound(inv[c]) /\ Cause(inv[c])
  <1>1. inv[c] # NoRequest
    BY NoRequestFacts
  <1>2. Cause(inv[c])
    BY DEF PlanInvariant, RefusedForCause, Cause
  <1>3. QED
    BY <1>1, <1>2 DEF PlanTypes, WorldTypes, PlanInvariant

LEMMA SpendTypes ==
    ASSUME PlanTypes, NEW o, Suffer(o) \/ Spend(0) \/ Spend(1)
    PROVE  faults' \in 0..MaxFaults
  <1>1. faults \in Nat /\ MaxFaults \in Nat
    BY MeterAssumption DEF PlanTypes, WorldTypes
  <1>2. QED
    BY <1>1 DEF Suffer, Spend

LEMMA ServedWorld ==
    ASSUME PlanTypes, PlanInvariant, MeterShape, NEW c \in Containers, Serve(c)
    PROVE  Served
  <1>1. /\ org \in [Months -> Nat] /\ hits \in [Buckets -> Nat]
        /\ faults \in 0..MaxFaults /\ lost \in BOOLEAN /\ arrivals \in 0..MaxRequests
        /\ MaxRequests \in Nat /\ clock \in 0..MaxClock
        /\ \A m \in Months : org[m] \in Nat
        /\ \A b \in Buckets : hits[b] \in Nat
    BY MeterAssumption DEF PlanTypes, WorldTypes, MeterShape
  <1>2. CASE Arrive(c)
    <2>1. /\ UNCHANGED <<clock, plan, edge, inForce, changes, org, hits, faults, lost>>
          /\ arrivals' = arrivals + 1 /\ arrivals < MaxRequests
      BY <1>2 DEF Arrive, store, histories
    <2>2. QED
      BY <1>1, <2>1 DEF Served
  <1>3. CASE CountEnds(c)
    <2>1. /\ UNCHANGED <<clock, plan, edge, inForce, changes, org, hits, arrivals>>
          /\ lost' \in BOOLEAN
      BY <1>1, <1>3 DEF CountEnds
    <2>2. PICK o \in Outcomes : Suffer(o)
      BY <1>3 DEF CountEnds
    <2>3. faults' \in 0..MaxFaults
      BY <2>2, SpendTypes
    <2>4. QED
      BY <1>1, <2>1, <2>3 DEF Served
  <1>4. CASE ReadCap(c)
    <2>1. UNCHANGED <<clock, plan, edge, inForce, changes, org, hits, arrivals, lost>>
      BY <1>4 DEF ReadCap, store, histories
    <2>2. faults' \in 0..MaxFaults
      BY <1>4, SpendTypes DEF ReadCap
    <2>3. QED
      BY <1>1, <2>1, <2>2 DEF Served
  <1>5. CASE BumpOrg(c)
    <2>1. PICK o \in Outcomes : Suffer(o) /\ org' = [org EXCEPT ![inv[c].month] = @ + o.n]
      BY <1>5 DEF BumpOrg
    <2>2. UNCHANGED <<clock, plan, edge, inForce, changes, hits, arrivals, lost>>
      BY <1>5 DEF BumpOrg, histories
    <2>3. faults' \in 0..MaxFaults
      BY <2>1, SpendTypes
    <2>4. /\ o.n \in Nat
          /\ org' = [org EXCEPT ![inv[c].month] = org[inv[c].month] + o.n]
      BY <2>1, OutcomeFacts
    <2>5. /\ org' \in [Months -> Nat]
          /\ \A m \in Months : org'[m] = IF m = inv[c].month THEN org[m] + o.n ELSE org[m]
      <3>1. org \in [Months -> Nat]
        BY <1>1
      <3>2. QED
        BY <2>4, <3>1, Added
    <2>6. inv[c].month <= Month(clock) /\ inv[c].month \in Nat /\ Month(clock) \in Nat
      <3>1. inv[c].pc = "org"
        BY <1>5 DEF BumpOrg, At
      <3>2. Proper(inv[c], clock) /\ PlanSound(inv[c])
        BY <3>1, RequestUnderWay
      <3>3. inv[c].month \in Nat /\ Month(clock) \in Nat
        BY <1>1, <3>2, MonthFacts DEF Proper
      <3>4. QED
        BY <3>1, <3>2, <3>3 DEF PlanSound
    <2>7. ASSUME NEW m \in Months, m > Month(clock) PROVE org'[m] = org[m]
      <3>1. m \in Nat
        BY MonthFacts
      <3>2. m # inv[c].month
        BY <2>6, <2>7, <3>1
      <3>3. QED
        BY <2>5, <3>2
    <2>8. \A m \in Months : org[m] <= org'[m]
      BY <1>1, <2>4, <2>5
    <2>9. QED
      BY <1>1, <2>2, <2>3, <2>5, <2>7, <2>8 DEF Served
  <1>6. CASE BumpRate(c)
    <2>1. PICK k \in inv[c].waiting, o \in Outcomes :
            Suffer(o) /\ hits' = [hits EXCEPT ![Bucket(k, inv[c])] = @ + o.n]
      BY <1>6 DEF BumpRate
    <2>2. UNCHANGED <<clock, plan, edge, inForce, changes, org, arrivals, lost>>
      BY <1>6 DEF BumpRate, histories
    <2>3. faults' \in 0..MaxFaults
      BY <2>1, SpendTypes
    <2>4. /\ o.n \in Nat
          /\ hits' = [hits EXCEPT ![Bucket(k, inv[c])] = hits[Bucket(k, inv[c])] + o.n]
      BY <2>1, OutcomeFacts
    <2>5. \A b \in Buckets :
            hits'[b] = IF b = Bucket(k, inv[c]) THEN hits[b] + o.n ELSE hits[b]
      BY <1>1, <2>4, Added
    <2>6. \A b \in Buckets : hits[b] <= hits'[b]
      BY <1>1, <2>4, <2>5
    <2>7. QED
      BY <1>1, <2>2, <2>3, <2>6 DEF Served
  <1>7. CASE StampCap(c) \/ Throttle(c) \/ Settle(c) \/ Killed(c)
    <2>1. UNCHANGED <<clock, plan, edge, inForce, changes, org, hits, faults, arrivals, lost>>
      BY <1>7 DEF StampCap, Throttle, Settle, Killed, store, histories
    <2>2. QED
      BY <1>1, <2>1 DEF Served
  <1>8. QED
    BY <1>2, <1>3, <1>4, <1>5, <1>6, <1>7 DEF Serve

LEMMA ServedGrows ==
    ASSUME PlanTypes, MeterShape, Served, Recorded
    PROVE  Grows /\ lastUnder' \in 0..clock'
  <1>1. /\ clock \in Nat /\ clock \in 0..MaxClock /\ lastUnder \in Nat /\ lastUnder <= clock
        /\ clock' = clock /\ plan' = plan
        /\ \A p \in Plans : inForce[p] \in Int
        /\ \A m \in Months : org[m] <= org'[m] /\ edge[m] \in Nat /\ edge'[m] = edge[m]
        /\ \A b \in Buckets : hits[b] <= hits'[b]
        /\ inForce' = inForce
    BY MeterNumbers DEF PlanTypes, WorldTypes, Served
  <1>2. lastUnder' = lastUnder \/ lastUnder' = clock
    BY <1>1 DEF Recorded
  <1>3. lastUnder <= lastUnder' /\ lastUnder' <= clock /\ lastUnder' \in 0..clock'
    BY <1>1, <1>2
  <1>4. QED
    BY <1>1, <1>3 DEF Grows

-----------------------------------------------------------------------------
(* The request of a step that serves it.                                   *)

\* What its new state has to satisfy.
Fits(q) == q = NoRequest \/ (Proper(q, clock') /\ PlanSoundNext(q) /\ CauseNext(q))

CacheFits(c) ==
    \/ UNCHANGED capCache
    \/ capCache' = [capCache EXCEPT ![c] = NoCap]
    \/ \E cap \in Plans \cup {0} :
         /\ capCache' = [capCache EXCEPT ![c] = [at |-> clock, cap |-> cap]]
         /\ KnowsNext(cap, clock - (Limit - 1))

\* The circumstances of such a step.
Circumstances ==
    /\ PlanTypes /\ WorldTypes' /\ PlanInvariant /\ MeterShape /\ MeterShape'
    /\ Served /\ Recorded /\ Grows

LEMMA GoesTo ==
    ASSUME MeterShape, MeterShape', NEW c \in Containers, NEW q, Goes(c, q)
    PROVE  q \in Request /\ Orderly(q)
  <1>1. inv'[c] = q
    BY DEF MeterShape, Goes
  <1>2. inv'[c] \in Request /\ Orderly(inv'[c])
    BY DEF MeterShape, Orderly
  <1>3. QED
    BY <1>1, <1>2

LEMMA ArriveFits ==
    ASSUME PlanTypes, MeterShape, MeterShape', Grows, clock' = clock, NEW c \in Containers, Arrive(c)
    PROVE  CacheFits(c) /\ \E q : Goes(c, q) /\ Fits(q)
  <1>1. PICK a \in Apps, i \in Addresses, auth \in BOOLEAN :
          Goes(c, [NoRequest EXCEPT !.pc = "cap", !.app = a, !.ip = i, !.kinds = KindsOf(auth),
                                    !.entered = clock, !.counting = "pending"])
    BY DEF Arrive
  <1> DEFINE q == [NoRequest EXCEPT !.pc = "cap", !.app = a, !.ip = i, !.kinds = KindsOf(auth),
                                    !.entered = clock, !.counting = "pending"]
  <1>2. /\ q.pc = "cap" /\ q.app = a /\ q.ip = i /\ q.entered = clock /\ q.counting = "pending"
        /\ q.cap = 0 /\ q.month = 0 /\ q.minute = 0 /\ ~q.unsure /\ q.verdict = "none"
        /\ q.over = {}
    BY DEF NoRequest
  <1>3. Goes(c, q)
    BY <1>1
  <1> HIDE DEF q
  <1>4. q \in Request
    BY <1>3, GoesTo
  <1>5. Proper(q, clock')
    BY <1>2, <1>4, MonthFacts DEF Proper, PlanTypes, WorldTypes
  <1>6. PlanSoundNext(q) /\ CauseNext(q)
    BY <1>2 DEF PlanSoundNext, CauseNext
  <1>7. UNCHANGED capCache
    BY DEF Arrive
  <1>8. QED
    BY <1>3, <1>5, <1>6, <1>7 DEF Fits, CacheFits

\* The request of c, as it is before its step.
LEMMA RequestBefore ==
    ASSUME Circumstances, NEW c \in Containers, inv[c].pc # "idle"
    PROVE  /\ Proper(inv[c], clock) /\ PlanSound(inv[c]) /\ Cause(inv[c])
           /\ PlanSoundNext(inv[c]) /\ CauseNext(inv[c])
           /\ inv[c] \in Request /\ inv[c].entered \in Nat /\ inv[c].entered <= clock
           /\ inv[c].over \in SUBSET Kinds
           /\ clock \in Nat /\ clock' = clock /\ clock \in 0..MaxClock /\ lastUnder' \in Nat
           /\ inv[c].cap \in Plans \cup {0} /\ inv[c].cap \in Nat
  <1>1. Proper(inv[c], clock) /\ PlanSound(inv[c]) /\ Cause(inv[c])
    BY RequestUnderWay DEF Circumstances
  <1>2. PlanSoundNext(inv[c]) /\ CauseNext(inv[c])
    BY <1>1, PlanSoundKept DEF Circumstances
  <1>3. /\ clock \in Nat /\ clock' = clock /\ clock \in 0..MaxClock /\ lastUnder' \in Nat
    BY MeterNumbers DEF Circumstances, PlanTypes, WorldTypes, Served
  <1>4. /\ inv[c] \in Request /\ inv[c].entered \in Nat /\ inv[c].entered <= clock
        /\ inv[c].over \in SUBSET Kinds
        /\ inv[c].cap \in Plans \cup {0} /\ inv[c].cap \in Nat
    BY <1>1, <1>3, MeterNumbers DEF Proper, Request
  <1>5. QED
    BY <1>1, <1>2, <1>3, <1>4

LEMMA CountEndsFits ==
    ASSUME Circumstances, NEW c \in Containers, CountEnds(c)
    PROVE  CacheFits(c) /\ \E q : Goes(c, q) /\ Fits(q)
  <1> DEFINE q0 == inv[c]
  <1>1. \/ UNCHANGED capCache /\ \E w \in {"written", "failed"} : Goes(c, [q0 EXCEPT !.counting = w])
        \/ Dies(c)
    BY DEF CountEnds
  <1>2. q0.pc # "idle"
    <2>1. q0.counting = "pending" /\ (inv[c] = NoRequest \/ Proper(inv[c], clock))
      BY DEF CountEnds, Circumstances, PlanTypes
    <2>2. QED
      BY <2>1, NoRequestFacts DEF Proper, CountEnds
  <1>3. /\ Proper(q0, clock) /\ PlanSoundNext(q0) /\ CauseNext(q0) /\ clock' = clock
        /\ q0 \in Request
    BY <1>2, RequestBefore
  <1> HIDE DEF q0
  <1>4. ASSUME NEW w \in {"written", "failed"}, Goes(c, [q0 EXCEPT !.counting = w])
        PROVE  Fits([q0 EXCEPT !.counting = w])
    <2> DEFINE q == [q0 EXCEPT !.counting = w]
    <2>1. /\ q.counting = w /\ q.pc = q0.pc /\ q.app = q0.app /\ q.ip = q0.ip
          /\ q.entered = q0.entered /\ q.cap = q0.cap /\ q.month = q0.month
          /\ q.minute = q0.minute /\ q.over = q0.over /\ q.unsure = q0.unsure
          /\ q.verdict = q0.verdict
      BY <1>3 DEF Request
    <2>2. q \in Request
      BY <1>4, GoesTo DEF Circumstances
    <2> HIDE DEF q
    <2>3. Proper(q, clock')
      BY <1>3, <2>1, <2>2 DEF Proper
    <2>4. \A k : Bucket(k, q) = Bucket(k, q0)
      BY <2>1 DEF Bucket
    <2>5. PlanSoundNext(q)
      BY <1>3, <2>1, <2>4 DEF PlanSoundNext
    <2>6. CauseNext(q)
      BY <1>3, <2>1, <2>4 DEF CauseNext
    <2>7. QED
      BY <2>3, <2>5, <2>6 DEF Fits, q
  <1>5. CASE Dies(c)
    BY <1>5 DEF Dies, CacheFits, Fits
  <1>6. CASE UNCHANGED capCache /\ \E w \in {"written", "failed"} : Goes(c, [q0 EXCEPT !.counting = w])
    <2>1. PICK w \in {"written", "failed"} : Goes(c, [q0 EXCEPT !.counting = w])
      BY <1>6
    <2>2. QED
      BY <1>4, <1>6, <2>1 DEF CacheFits
  <1>7. QED
    BY <1>1, <1>5, <1>6 DEF q0

\* The plan read from the registry now.
LEMMA PlanKnown ==
    ASSUME Circumstances, NEW p \in Plans, p = plan \/ inForce[p] = clock,
           NEW t \in Int, t <= clock
    PROVE  KnowsNext(p, t)
  <1>1. Knows(p, clock)
    BY DEF Circumstances, PlanInvariant, LeftSound
  <1>2. clock \in Int
    BY MeterNumbers DEF Circumstances, PlanTypes, WorldTypes
  <1>3. KnowsNext(p, clock)
    BY <1>1, <1>2, KnowsKept DEF Circumstances
  <1>4. QED
    BY <1>2, <1>3, KnowsEarlier DEF Circumstances

LEMMA ReadCapFits ==
    ASSUME Circumstances, NEW c \in Containers, ReadCap(c)
    PROVE  CacheFits(c) /\ \E q : Goes(c, q) /\ Fits(q)
  <1> DEFINE q0 == inv[c]
  <1>1. q0.pc = "cap" /\ UNCHANGED capCache /\ UNCHANGED clock
    BY DEF ReadCap, At, histories
  <1>2. /\ Proper(q0, clock) /\ PlanSound(q0) /\ q0 \in Request /\ q0.entered \in Nat
        /\ q0.entered <= clock /\ clock \in Nat /\ clock \in 0..MaxClock /\ clock' = clock
        /\ lastUnder' \in Nat
    BY <1>1, RequestBefore
  <1>3. q0.cap = 0 /\ ~q0.unsure /\ q0.verdict = "none" /\ q0.over = {}
    BY <1>1, <1>2 DEF PlanSound, Request
  <1>4. Month(clock) \in Months /\ Month(clock) \in Nat
    BY <1>2, MonthFacts
  <1>5. CASE Fresh(c) /\ Goes(c, [q0 EXCEPT !.pc = "org", !.cap = capCache[c].cap, !.month = Month(clock)])
    <2> DEFINE q == [q0 EXCEPT !.pc = "org", !.cap = capCache[c].cap, !.month = Month(clock)]
    <2>1. /\ q.pc = "org" /\ q.cap = capCache[c].cap /\ q.month = Month(clock)
          /\ q.app = q0.app /\ q.ip = q0.ip /\ q.entered = q0.entered /\ q.minute = q0.minute
          /\ q.counting = q0.counting /\ q.unsure = q0.unsure /\ q.verdict = q0.verdict
          /\ q.over = q0.over
      BY <1>2 DEF Request
    <2>2. q \in Request
      BY <1>5, GoesTo DEF Circumstances
    <2> HIDE DEF q
    <2>3. capCache[c].cap \in Plans \cup {0} /\ capCache[c].at \in Int /\ capCache[c].at <= clock
      BY <1>2, MeterNumbers DEF Circumstances, PlanTypes
    <2>4. Proper(q, clock')
      BY <1>2, <1>4, <2>1, <2>2, <2>3 DEF Proper
    <2>5. KnowsNext(q.cap, q.entered - HeardBy(0))
      <3>1. capCache[c].at - (Limit - 1) \in Int /\ capCache[c].at - (Limit - 1) <= clock
        BY <1>2, <2>3, MeterNumbers
      <3>2. Knows(capCache[c].cap, capCache[c].at - (Limit - 1))
        BY DEF Circumstances, PlanInvariant, CachesSound
      <3>3. KnowsNext(capCache[c].cap, capCache[c].at - (Limit - 1))
        BY <2>3, <3>1, <3>2, KnowsKept DEF Circumstances
      <3>4. q.entered - HeardBy(0) \in Int
            /\ q.entered - HeardBy(0) <= capCache[c].at - (Limit - 1)
        BY <1>2, <1>5, <2>1, <2>3, MeterNumbers DEF Fresh
      <3>5. QED
        BY <2>1, <2>3, <3>1, <3>3, <3>4, KnowsEarlier DEF Circumstances
    <2>6. PlanSoundNext(q)
      BY <1>2, <1>3, <1>4, <2>1, <2>5 DEF PlanSoundNext
    <2>7. CauseNext(q)
      BY <1>3, <2>1 DEF CauseNext
    <2>8. QED
      BY <1>1, <1>5, <2>4, <2>6, <2>7 DEF Fits, CacheFits, q
  <1>6. ASSUME NEW p \in Plans, p = plan \/ inForce[p] = clock,
               Goes(c, [q0 EXCEPT !.pc = "stamp", !.cap = p])
        PROVE  CacheFits(c) /\ \E q : Goes(c, q) /\ Fits(q)
    <2> DEFINE q == [q0 EXCEPT !.pc = "stamp", !.cap = p]
    <2>1. /\ q.pc = "stamp" /\ q.cap = p /\ q.month = q0.month
          /\ q.app = q0.app /\ q.ip = q0.ip /\ q.entered = q0.entered /\ q.minute = q0.minute
          /\ q.counting = q0.counting /\ q.unsure = q0.unsure /\ q.verdict = q0.verdict
          /\ q.over = q0.over
      BY <1>2 DEF Request
    <2>2. q \in Request
      BY <1>6, GoesTo DEF Circumstances
    <2> HIDE DEF q
    <2>3. KnowsNext(p, q0.entered)
      BY <1>2, <1>6, PlanKnown
    <2>4. Proper(q, clock')
      BY <1>2, <2>1, <2>2, <2>3 DEF Proper
    <2>5. PlanSoundNext(q) /\ CauseNext(q)
      BY <1>3, <2>1, <2>3 DEF PlanSoundNext, CauseNext
    <2>6. QED
      BY <1>1, <1>6, <2>4, <2>5 DEF Fits, CacheFits, q
  <1>7. CASE Goes(c, [q0 EXCEPT !.pc = "org", !.month = Month(clock), !.unsure = TRUE])
    <2> DEFINE q == [q0 EXCEPT !.pc = "org", !.month = Month(clock), !.unsure = TRUE]
    <2>1. /\ q.pc = "org" /\ q.cap = q0.cap /\ q.month = Month(clock)
          /\ q.app = q0.app /\ q.ip = q0.ip /\ q.entered = q0.entered /\ q.minute = q0.minute
          /\ q.counting = q0.counting /\ q.unsure = TRUE /\ q.verdict = q0.verdict
          /\ q.over = q0.over
      BY <1>2 DEF Request
    <2>2. q \in Request
      BY <1>7, GoesTo DEF Circumstances
    <2> HIDE DEF q
    <2>3. Proper(q, clock')
      BY <1>2, <1>4, <2>1, <2>2 DEF Proper
    <2>4. PlanSoundNext(q) /\ CauseNext(q)
      BY <1>2, <1>3, <1>4, <2>1 DEF PlanSoundNext, CauseNext
    <2>5. QED
      BY <1>1, <1>7, <2>3, <2>4 DEF Fits, CacheFits, q
  <1>8. QED
    BY <1>5, <1>6, <1>7 DEF ReadCap

LEMMA StampCapFits ==
    ASSUME Circumstances, NEW c \in Containers, StampCap(c)
    PROVE  CacheFits(c) /\ \E q : Goes(c, q) /\ Fits(q)
  <1> DEFINE q0 == inv[c]
             q == [q0 EXCEPT !.pc = "org", !.month = Month(clock)]
  <1>1. /\ q0.pc = "stamp" /\ clock < q0.entered + Limit /\ Goes(c, q)
        /\ capCache' = [capCache EXCEPT ![c] = [at |-> clock, cap |-> q0.cap]]
    BY DEF StampCap, At
  <1>2. /\ Proper(q0, clock) /\ PlanSound(q0) /\ PlanSoundNext(q0) /\ q0 \in Request
        /\ q0.entered \in Nat
        /\ q0.entered <= clock /\ clock \in Nat /\ clock \in 0..MaxClock /\ clock' = clock
        /\ lastUnder' \in Nat /\ q0.cap \in Plans \cup {0}
    BY <1>1, RequestBefore
  <1>3. q0.verdict = "none" /\ ~q0.unsure /\ q0.over = {}
    BY <1>1, <1>2 DEF PlanSound, Request
  <1>4. Month(clock) \in Months /\ Month(clock) \in Nat
    BY <1>2, MonthFacts
  <1> HIDE DEF q0
  <1>5. /\ q.pc = "org" /\ q.cap = q0.cap /\ q.month = Month(clock)
        /\ q.app = q0.app /\ q.ip = q0.ip /\ q.entered = q0.entered /\ q.minute = q0.minute
        /\ q.counting = q0.counting /\ q.unsure = q0.unsure /\ q.verdict = q0.verdict
        /\ q.over = q0.over
    BY <1>2 DEF Request
  <1>6. q \in Request
    BY <1>1, GoesTo DEF Circumstances
  <1> HIDE DEF q
  <1>7. Proper(q, clock')
    BY <1>2, <1>4, <1>5, <1>6 DEF Proper
  <1>8. KnowsNext(q0.cap, q0.entered)
    BY <1>1, <1>2 DEF PlanSoundNext
  <1>9. KnowsNext(q0.cap, clock - (Limit - 1)) /\ KnowsNext(q0.cap, q0.entered - HeardBy(0))
    <2>1. /\ clock - (Limit - 1) \in Int /\ clock - (Limit - 1) <= q0.entered
          /\ q0.entered - HeardBy(0) \in Int /\ q0.entered - HeardBy(0) <= q0.entered
      BY <1>1, <1>2, MeterNumbers
    <2>2. QED
      BY <1>2, <1>8, <2>1, KnowsEarlier DEF Circumstances
  <1>10. PlanSoundNext(q) /\ CauseNext(q)
    BY <1>2, <1>3, <1>4, <1>5, <1>9 DEF PlanSoundNext, CauseNext
  <1>11. CacheFits(c)
    BY <1>1, <1>2, <1>9 DEF CacheFits
  <1>12. QED
    BY <1>1, <1>7, <1>10, <1>11 DEF Fits

LEMMA RatedFields ==
    ASSUME NEW q \in Request
    PROVE  /\ Rated(q).pc = "rate" /\ Rated(q).minute = clock /\ Rated(q).app = q.app
           /\ Rated(q).ip = q.ip /\ Rated(q).entered = q.entered /\ Rated(q).cap = q.cap
           /\ Rated(q).month = q.month /\ Rated(q).counting = q.counting
           /\ Rated(q).unsure = q.unsure /\ Rated(q).verdict = q.verdict
           /\ Rated(q).over = q.over
  BY DEF Rated, Request

LEMMA EndsFields ==
    ASSUME NEW q \in Request, NEW v
    PROVE  /\ Ends(q, v).pc = "settle" /\ Ends(q, v).minute = q.minute /\ Ends(q, v).app = q.app
           /\ Ends(q, v).ip = q.ip /\ Ends(q, v).entered = q.entered /\ Ends(q, v).cap = 0
           /\ Ends(q, v).month = q.month /\ Ends(q, v).counting = q.counting
           /\ Ends(q, v).unsure = q.unsure /\ Ends(q, v).verdict = v
           /\ Ends(q, v).over = {}
  BY DEF Ends, Request

LEMMA BumpOrgFits ==
    ASSUME Circumstances, NEW c \in Containers, BumpOrg(c)
    PROVE  CacheFits(c) /\ \E q : Goes(c, q) /\ Fits(q)
  <1> DEFINE q0 == inv[c]
             u == [q0 EXCEPT !.unsure = TRUE]
  <1>1. q0.pc = "org" /\ UNCHANGED capCache /\ UNCHANGED edge
    BY DEF BumpOrg, At
  <1>2. /\ Proper(q0, clock) /\ PlanSound(q0) /\ PlanSoundNext(q0) /\ q0 \in Request
        /\ q0.entered \in Nat
        /\ q0.entered <= clock /\ clock \in Nat /\ clock \in 0..MaxClock /\ clock' = clock
        /\ lastUnder' \in Nat /\ q0.cap \in Plans \cup {0} /\ q0.cap \in Nat
    BY <1>1, RequestBefore
  <1>3. q0.verdict = "none" /\ q0.over = {}
    BY <1>1, <1>2 DEF PlanSound, Request
  <1>4. \/ Goes(c, Rated(u))
        \/ Goes(c, Rated(q0)) /\ ~OverPlan(org'[q0.month], edge[q0.month], q0.cap)
        \/ Goes(c, Ends(q0, "cap")) /\ OverPlan(org'[q0.month], edge[q0.month], q0.cap)
    BY DEF BumpOrg
  <1> HIDE DEF q0, u
  <1>5. /\ u \in Request /\ u.unsure = TRUE /\ u.app = q0.app /\ u.ip = q0.ip
        /\ u.entered = q0.entered /\ u.cap = q0.cap /\ u.month = q0.month
        /\ u.counting = q0.counting /\ u.verdict = q0.verdict /\ u.over = q0.over
    BY <1>2 DEF Request, u
  <1>6. CASE Goes(c, Rated(u))
    <2> DEFINE q == Rated(u)
    <2>1. /\ q.pc = "rate" /\ q.minute = clock /\ q.app = q0.app
          /\ q.ip = q0.ip /\ q.entered = q0.entered /\ q.cap = q0.cap
          /\ q.month = q0.month /\ q.counting = q0.counting
          /\ q.unsure = TRUE /\ q.verdict = "none" /\ q.over = {}
      BY <1>3, <1>5, RatedFields
    <2>2. q \in Request
      BY <1>6, GoesTo DEF Circumstances
    <2> HIDE DEF q
    <2>3. Proper(q, clock')
      BY <1>2, <2>1, <2>2 DEF Proper
    <2>4. PlanSoundNext(q) /\ CauseNext(q)
      BY <2>1 DEF PlanSoundNext, CauseNext
    <2>5. QED
      BY <1>1, <1>6, <2>3, <2>4 DEF Fits, CacheFits, q
  <1>7. CASE Goes(c, Rated(q0)) /\ ~OverPlan(org'[q0.month], edge[q0.month], q0.cap)
    <2> DEFINE q == Rated(q0)
    <2>1. /\ q.pc = "rate" /\ q.minute = clock /\ q.app = q0.app
          /\ q.ip = q0.ip /\ q.entered = q0.entered /\ q.cap = q0.cap
          /\ q.month = q0.month /\ q.counting = q0.counting
          /\ q.unsure = q0.unsure /\ q.verdict = "none" /\ q.over = {}
      BY <1>2, <1>3, RatedFields
    <2>2. q \in Request
      BY <1>7, GoesTo DEF Circumstances
    <2> HIDE DEF q
    <2>3. Proper(q, clock')
      BY <1>2, <2>1, <2>2 DEF Proper
    <2>4. ~q0.unsure => q0.entered <= HeardBy(lastUnder')
      <3> SUFFICES ASSUME ~q0.unsure, q0.entered > HeardBy(lastUnder') PROVE FALSE
        BY <1>2, MeterNumbers
      <3>1. q0.entered - HeardBy(0) > lastUnder' /\ q0.entered > lastUnder'
        BY <1>2, MeterNumbers
      <3>2. q0.month = Month(clock') /\ KnowsNext(q0.cap, q0.entered - HeardBy(0))
        BY <1>1, <1>2, <3>1 DEF PlanSoundNext
      <3>3. OverPlan(org'[q0.month], edge'[q0.month], q0.cap)
        BY <3>1, <3>2 DEF KnowsNext
      <3>4. QED
        BY <1>1, <1>7, <3>3
    <2>5. PlanSoundNext(q) /\ CauseNext(q)
      BY <2>1, <2>4 DEF PlanSoundNext, CauseNext
    <2>6. QED
      BY <1>1, <1>7, <2>3, <2>5 DEF Fits, CacheFits, q
  <1>8. CASE Goes(c, Ends(q0, "cap")) /\ OverPlan(org'[q0.month], edge[q0.month], q0.cap)
    <2> DEFINE q == Ends(q0, "cap")
    <2>1. /\ q.pc = "settle" /\ q.minute = q0.minute /\ q.app = q0.app
          /\ q.ip = q0.ip /\ q.entered = q0.entered /\ q.cap = 0
          /\ q.month = q0.month /\ q.counting = q0.counting
          /\ q.unsure = q0.unsure /\ q.verdict = "cap" /\ q.over = {}
      BY <1>2, EndsFields
    <2>2. q \in Request
      BY <1>8, GoesTo DEF Circumstances
    <2> HIDE DEF q
    <2>3. Proper(q, clock')
      BY <1>2, <2>1, <2>2 DEF Proper
    <2>4. q0.cap # 0 /\ ~q0.unsure
      BY <1>1, <1>2, <1>8 DEF OverPlan, PlanSoundNext
    <2>5. KnowsNext(q0.cap, q0.entered - HeardBy(0))
      BY <1>1, <1>2, <2>4 DEF PlanSoundNext
    <2>6. q0.cap \in Plans /\ (q0.cap = plan' \/ q0.entered - HeardBy(0) <= inForce'[q0.cap])
      BY <2>4, <2>5 DEF KnowsNext
    <2>7. q0.cap = plan' \/ q0.entered <= HeardBy(inForce'[q0.cap])
      <3>1. inForce'[q0.cap] \in Int
        <4>1. inForce' \in [Plans -> {Long} \cup 0..clock']
          BY DEF Circumstances, WorldTypes
        <4>2. clock' \in Int /\ Long \in Int
          BY <1>2, MeterNumbers
        <4>3. QED
          BY <2>6, <4>1, <4>2
      <3>2. QED
        BY <1>2, <2>6, <3>1, MeterNumbers
    <2>8. OverPlan(org'[q0.month], edge'[q0.month], q0.cap)
      BY <1>1, <1>8
    <2>9. CauseNext(q)
      BY <2>1, <2>6, <2>7, <2>8 DEF CauseNext
    <2>10. PlanSoundNext(q)
      BY <2>1 DEF PlanSoundNext
    <2>11. QED
      BY <1>1, <1>8, <2>3, <2>9, <2>10 DEF Fits, CacheFits, q
  <1>9. QED
    BY <1>4, <1>6, <1>7, <1>8

LEMMA BumpRateFits ==
    ASSUME Circumstances, NEW c \in Containers, BumpRate(c)
    PROVE  CacheFits(c) /\ \E q : Goes(c, q) /\ Fits(q)
  <1> DEFINE q0 == inv[c]
  <1>1. q0.pc = "rate" /\ UNCHANGED capCache
    BY DEF BumpRate, At
  <1>2. PICK k \in q0.waiting, o \in Outcomes :
          Goes(c, [q0 EXCEPT
             !.waiting = @ \ {k},
             !.clean = IF o.ok THEN @ \cup {k} ELSE @,
             !.over = IF o.ok /\ hits'[Bucket(k, q0)] > RateLimit[k] THEN @ \cup {k} ELSE @])
    BY DEF BumpRate
  <1>3. /\ Proper(q0, clock) /\ PlanSoundNext(q0) /\ CauseNext(q0) /\ PlanSound(q0)
        /\ q0 \in Request /\ clock' = clock
    BY <1>1, RequestBefore
  <1> DEFINE wait == q0.waiting \ {k}
             clean == IF o.ok THEN q0.clean \cup {k} ELSE q0.clean
             over == IF o.ok /\ hits'[Bucket(k, q0)] > RateLimit[k] THEN q0.over \cup {k}
                     ELSE q0.over
             q == [q0 EXCEPT !.waiting = wait, !.clean = clean, !.over = over]
  <1>4. Goes(c, q)
    BY <1>2
  <1>5. \A j \in over : j \in q0.over \/ hits'[Bucket(j, q0)] > RateLimit[j]
    OBVIOUS
  <1> HIDE DEF q0, wait, clean, over
  <1>6. /\ q.pc = "rate" /\ q.minute = q0.minute /\ q.app = q0.app
        /\ q.ip = q0.ip /\ q.entered = q0.entered /\ q.cap = q0.cap
        /\ q.month = q0.month /\ q.counting = q0.counting
        /\ q.unsure = q0.unsure /\ q.verdict = q0.verdict /\ q.over = over
    BY <1>1, <1>3 DEF Request
  <1>7. q \in Request
    BY <1>4, GoesTo DEF Circumstances
  <1> HIDE DEF q
  <1>8. Proper(q, clock')
    BY <1>3, <1>6, <1>7 DEF Proper
  <1>9. \A j : Bucket(j, q) = Bucket(j, q0)
    BY <1>6 DEF Bucket
  <1>10. q0.verdict = "none"
    BY <1>1, <1>3 DEF PlanSoundNext
  <1>11. PlanSoundNext(q)
    BY <1>1, <1>3, <1>5, <1>6, <1>9, <1>10 DEF PlanSoundNext
  <1>12. CauseNext(q)
    BY <1>6, <1>10 DEF CauseNext
  <1>13. QED
    BY <1>1, <1>4, <1>8, <1>11, <1>12 DEF Fits, CacheFits

LEMMA ThrottleFits ==
    ASSUME Circumstances, NEW c \in Containers, Throttle(c)
    PROVE  CacheFits(c) /\ \E q : Goes(c, q) /\ Fits(q)
  <1> DEFINE q0 == inv[c]
             verdict == IF q0.over \cap Blocking # {} THEN "rate" ELSE "passed"
             q == Ends(q0, verdict)
  <1>1. q0.pc = "rate" /\ UNCHANGED capCache /\ Goes(c, q)
    BY DEF Throttle, At
  <1>2. /\ Proper(q0, clock) /\ PlanSoundNext(q0) /\ q0 \in Request /\ clock' = clock
    BY <1>1, RequestBefore
  <1>3. /\ verdict = "passed" \/ verdict = "rate"
        /\ verdict = "rate" => \E k \in Blocking : k \in q0.over
    OBVIOUS
  <1> HIDE DEF q0, verdict
  <1>4. /\ q.pc = "settle" /\ q.minute = q0.minute /\ q.app = q0.app
        /\ q.ip = q0.ip /\ q.entered = q0.entered /\ q.cap = 0
        /\ q.month = q0.month /\ q.counting = q0.counting
        /\ q.unsure = q0.unsure /\ q.verdict = verdict /\ q.over = {}
    BY <1>2, EndsFields
  <1>5. q \in Request
    BY <1>1, GoesTo DEF Circumstances
  <1> HIDE DEF q
  <1>6. Proper(q, clock')
    BY <1>2, <1>4, <1>5 DEF Proper
  <1>7. \A k : Bucket(k, q) = Bucket(k, q0)
    BY <1>4 DEF Bucket
  <1>8. PlanSoundNext(q)
    BY <1>1, <1>2, <1>4 DEF PlanSoundNext
  <1>9. CauseNext(q)
    <2>1. \A k \in q0.over : hits'[Bucket(k, q0)] > RateLimit[k]
      BY <1>1, <1>2 DEF PlanSoundNext
    <2>2. QED
      BY <1>3, <1>4, <1>7, <2>1 DEF CauseNext
  <1>10. QED
    BY <1>1, <1>6, <1>8, <1>9 DEF Fits, CacheFits

LEMMA ServedFits ==
    ASSUME Circumstances, NEW c \in Containers, Serve(c)
    PROVE  CacheFits(c) /\ \E q : Goes(c, q) /\ Fits(q)
  <1>1. CASE Arrive(c)
    <2>1. clock' = clock
      BY DEF Circumstances, Served
    <2>2. QED
      BY <1>1, <2>1, ArriveFits DEF Circumstances
  <1>2. CASE Settle(c) \/ Killed(c)
    <2>1. Goes(c, NoRequest) /\ CacheFits(c)
      BY <1>2 DEF Settle, Killed, Dies, CacheFits
    <2>2. QED
      BY <2>1 DEF Fits
  <1>3. QED
    BY <1>1, <1>2, CountEndsFits, ReadCapFits, StampCapFits, BumpOrgFits, BumpRateFits,
       ThrottleFits DEF Serve

-----------------------------------------------------------------------------
(* Every step keeps what plans, months and causes are known to be.         *)

LEMMA PlanFromParts ==
    ASSUME PlanTypes, WorldTypes', PlanInvariant, MeterShape, MeterShape', Grows, MonthsToCome',
           Recorded \/ UNCHANGED <<clock, plan>>,
           \A d \in Containers :
             \/ capCache'[d] = capCache[d] \/ capCache'[d] = NoCap
             \/ \E cap \in Plans \cup {0} : /\ capCache'[d] = [at |-> clock, cap |-> cap]
                                            /\ KnowsNext(cap, clock - (Limit - 1)),
           \A d \in Containers : inv'[d] = inv[d] \/ Fits(inv'[d])
    PROVE  PlanTypes' /\ PlanInvariant'
  <1>1. clock \in Nat /\ clock' \in Nat /\ clock <= clock' /\ lastUnder' \in Nat
    BY MeterNumbers DEF PlanTypes, WorldTypes, Grows
  <1>2. ASSUME NEW d \in Containers
        PROVE  /\ capCache'[d] \in [at: -CapLife..clock', cap: Plans \cup {0}]
               /\ KnowsNext(capCache'[d].cap, capCache'[d].at - (Limit - 1))
    <2>1. CASE capCache'[d] = capCache[d]
      <3>1. capCache[d] \in [at: -CapLife..clock, cap: Plans \cup {0}]
        BY DEF PlanTypes
      <3>2. /\ capCache[d].at \in Int /\ -CapLife <= capCache[d].at /\ capCache[d].at <= clock
            /\ capCache[d].cap \in Plans \cup {0}
        BY <1>1, <3>1, MeterNumbers
      <3>3. capCache[d] \in [at: -CapLife..clock', cap: Plans \cup {0}]
        <4>1. -CapLife..clock \subseteq -CapLife..clock'
          BY <1>1, MeterNumbers
        <4>2. QED
          BY <3>1, <4>1
      <3>4. Knows(capCache[d].cap, capCache[d].at - (Limit - 1))
        BY DEF PlanInvariant, CachesSound
      <3>5. capCache[d].at - (Limit - 1) \in Int /\ capCache[d].at - (Limit - 1) <= clock
        BY <1>1, <3>2, MeterNumbers
      <3>6. QED
        BY <2>1, <3>2, <3>3, <3>4, <3>5, KnowsKept
    <2>2. CASE capCache'[d] = NoCap
      <3>1. NoCap.at = -CapLife /\ NoCap.cap = 0
        BY DEF NoCap
      <3>2. NoCap \in [at: -CapLife..clock', cap: Plans \cup {0}]
        BY <1>1, MeterNumbers DEF NoCap
      <3>3. ~(NoCap.at - (Limit - 1) > lastUnder')
        BY <1>1, <3>1, MeterNumbers
      <3>4. KnowsNext(NoCap.cap, NoCap.at - (Limit - 1))
        BY <3>1, <3>3 DEF KnowsNext
      <3>5. QED
        BY <2>2, <3>2, <3>4
    <2>3. CASE \E cap \in Plans \cup {0} : /\ capCache'[d] = [at |-> clock, cap |-> cap]
                                           /\ KnowsNext(cap, clock - (Limit - 1))
      <3>1. PICK cap \in Plans \cup {0} : /\ capCache'[d] = [at |-> clock, cap |-> cap]
                                          /\ KnowsNext(cap, clock - (Limit - 1))
        BY <2>3
      <3>2. clock \in -CapLife..clock'
        BY <1>1, MeterNumbers
      <3>3. QED
        BY <3>1, <3>2
    <2>4. QED
      BY <2>1, <2>2, <2>3
  <1>3. ASSUME NEW d \in Containers
        PROVE  /\ inv'[d] = NoRequest \/ Proper(inv'[d], clock')
               /\ PlanSoundNext(inv'[d]) /\ CauseNext(inv'[d])
    <2>1. CASE inv'[d] = inv[d]
      <3>1. CASE inv[d] = NoRequest
        BY <2>1, <3>1, NoRequestSound
      <3>2. CASE Proper(inv[d], clock)
        <4>1. PlanSound(inv[d]) /\ Cause(inv[d])
          BY DEF PlanInvariant, RefusedForCause, Cause
        <4>2. PlanSoundNext(inv[d]) /\ CauseNext(inv[d])
          BY <3>2, <4>1, PlanSoundKept
        <4>3. Proper(inv[d], clock')
          <5>1. 0..clock \subseteq 0..clock'
            BY <1>1
          <5>2. QED
            BY <3>2, <5>1 DEF Proper
        <4>4. QED
          BY <2>1, <4>2, <4>3
      <3>3. QED
        BY <3>1, <3>2 DEF PlanTypes
    <2>2. CASE Fits(inv'[d])
      BY <2>2, NoRequestSound DEF Fits
    <2>3. QED
      BY <2>1, <2>2
  <1>4. PlanTypes'
    <2>1. capCache' = [d \in Containers |-> capCache'[d]]
      BY DEF MeterShape
    <2>2. capCache' \in [Containers -> [at: -CapLife..clock', cap: Plans \cup {0}]]
      BY <1>2, <2>1
    <2>3. \A d \in Containers : (inv[d] = NoRequest \/ Proper(inv[d], clock))'
      BY <1>3 DEF Proper
    <2>4. QED
      BY <2>2, <2>3 DEF PlanTypes
  <1>5. CachesSound'
    BY <1>2 DEF CachesSound, Knows, KnowsNext, Past
  <1>6. RefusedForCause'
    BY <1>3 DEF RefusedForCause, CauseNext, Bucket
  <1>7. \A d \in Containers : PlanSound(inv[d])'
    BY <1>3 DEF PlanSound, PlanSoundNext, KnowsNext, Knows, Past, Bucket
  <1>8. LeftSound'
    <2>1. ASSUME NEW p \in Plans, p = plan' \/ inForce'[p] = clock'
          PROVE  KnowsNext(p, clock')
      <3>1. CASE Recorded /\ p = plan'
        BY <1>1, <3>1 DEF Recorded, KnowsNext
      <3>2. CASE clock' = clock /\ (p = plan \/ inForce[p] = clock)
        <4>1. Knows(p, clock)
          BY <3>2 DEF PlanInvariant, LeftSound
        <4>2. QED
          BY <1>1, <3>2, <4>1, KnowsKept
      <3>3. QED
        BY <2>1, <3>1, <3>2 DEF Grows
    <2>2. QED
      BY <2>1 DEF LeftSound, Knows, KnowsNext, Past
  <1>9. QED
    BY <1>4, <1>5, <1>6, <1>7, <1>8 DEF PlanInvariant

LEMMA PlanServes ==
    ASSUME PlanTypes, PlanInvariant, MeterShape, MeterShape', NEW c \in Containers, Serve(c), Recorded
    PROVE  PlanTypes' /\ PlanInvariant'
  <1>1. Served /\ Grows /\ lastUnder' \in 0..clock'
    BY ServedWorld, ServedGrows
  <1>2. WorldTypes'
    BY <1>1 DEF PlanTypes, WorldTypes, Served
  <1>3. MonthsToCome'
    <2>1. \A m \in Months : m > Month(clock) => org'[m] = 0 /\ edge'[m] = 0
      BY <1>1 DEF Served, PlanInvariant, MonthsToCome
    <2>2. QED
      BY <1>1, <2>1 DEF Served, MonthsToCome, Month
  <1>4. CacheFits(c) /\ \E q : Goes(c, q) /\ Fits(q)
    BY <1>1, <1>2, ServedFits DEF Circumstances
  <1>5. \A d \in Containers :
             \/ capCache'[d] = capCache[d] \/ capCache'[d] = NoCap
             \/ \E cap \in Plans \cup {0} : /\ capCache'[d] = [at |-> clock, cap |-> cap]
                                            /\ KnowsNext(cap, clock - (Limit - 1))
    <2>1. capCache \in [Containers -> [at: Int, cap: Nat]]
      BY DEF MeterShape
    <2>2. CASE UNCHANGED capCache
      BY <2>2
    <2>3. CASE capCache' = [capCache EXCEPT ![c] = NoCap]
      BY <2>1, <2>3
    <2>4. CASE \E cap \in Plans \cup {0} :
                 /\ capCache' = [capCache EXCEPT ![c] = [at |-> clock, cap |-> cap]]
                 /\ KnowsNext(cap, clock - (Limit - 1))
      <3>1. PICK cap \in Plans \cup {0} :
                 /\ capCache' = [capCache EXCEPT ![c] = [at |-> clock, cap |-> cap]]
                 /\ KnowsNext(cap, clock - (Limit - 1))
        BY <2>4
      <3>2. \A d \in Containers : capCache'[d] = IF d = c THEN [at |-> clock, cap |-> cap]
                                                 ELSE capCache[d]
        BY <2>1, <3>1
      <3>3. QED
        BY <3>1, <3>2
    <2>5. QED
      BY <1>4, <2>2, <2>3, <2>4 DEF CacheFits
  <1>6. \A d \in Containers : inv'[d] = inv[d] \/ Fits(inv'[d])
    <2>1. PICK q : Goes(c, q) /\ Fits(q)
      BY <1>4
    <2>2. \A d \in Containers : inv'[d] = IF d = c THEN q ELSE inv[d]
      BY <2>1, OneServes
    <2>3. QED
      BY <2>1, <2>2
  <1>7. QED
    BY <1>1, <1>2, <1>3, <1>5, <1>6, PlanFromParts

\* The connector, and time.
LEMMA PlanElsewhere ==
    ASSUME PlanTypes, PlanInvariant, MeterShape, MeterShape',
           \/ (ChangePlan \/ ReportEdge \/ Tick \/ AllOver) /\ Recorded
           \/ UNCHANGED vars
    PROVE  PlanTypes' /\ PlanInvariant'
  <1>1. /\ clock \in Nat /\ clock \in 0..MaxClock /\ MaxClock \in Nat
        /\ lastUnder \in Nat /\ lastUnder <= clock /\ plan \in Plans /\ Plans \subseteq Nat
        /\ edge \in [Months -> Nat] /\ org \in [Months -> Nat]
        /\ inForce \in [Plans -> {Long} \cup 0..clock] /\ changes \in 0..MaxChanges
        /\ MaxChanges \in Nat /\ Long \in Int /\ Long < 0
        /\ arrivals \in 0..MaxRequests /\ faults \in 0..MaxFaults /\ lost \in BOOLEAN
        /\ Month(clock) \in Months
    BY MeterNumbers, MeterAssumption, MonthFacts DEF PlanTypes, WorldTypes
  <1>2. \A p \in Plans : inForce[p] \in Int /\ inForce[p] <= clock
    BY <1>1
  <1>3. \A m \in Months : org[m] \in Nat /\ edge[m] \in Nat
    BY <1>1
  <1>4. \A b \in Buckets : hits[b] \in Nat
    BY DEF MeterShape
  <1>5. UNCHANGED <<capCache, inv, hits, arrivals, faults, lost, org>>
    BY DEF ChangePlan, ReportEdge, Tick, AllOver, store, histories, vars
  <1>6. WorldTypes' /\ Grows /\ MonthsToCome'
    <2>1. CASE UNCHANGED vars
      <3>1. UNCHANGED <<clock, plan, edge, inForce, changes, lastUnder>>
        BY <2>1 DEF vars
      <3>2. WorldTypes'
        BY <1>1, <1>5, <3>1 DEF WorldTypes
      <3>3. Grows
        BY <1>1, <1>2, <1>3, <1>4, <1>5, <3>1 DEF Grows
      <3>4. MonthsToCome'
        BY <1>5, <3>1 DEF PlanInvariant, MonthsToCome, Month
      <3>5. QED
        BY <3>2, <3>3, <3>4
    <2>2. CASE ChangePlan /\ Recorded
      <3>1. /\ UNCHANGED <<clock, edge>> /\ plan' \in Plans
            /\ inForce' = [inForce EXCEPT ![plan] = clock]
            /\ changes < MaxChanges /\ changes' = changes + 1
        BY <2>2 DEF ChangePlan
      <3>2. lastUnder' = lastUnder \/ lastUnder' = clock
        BY <2>2, <3>1 DEF Recorded
      <3>3. lastUnder <= lastUnder' /\ lastUnder' <= clock /\ lastUnder' \in 0..clock
        BY <1>1, <3>2
      <3>4. /\ inForce' \in [Plans -> {Long} \cup 0..clock] /\ inForce'[plan] = clock
            /\ \A p \in Plans : inForce[p] <= inForce'[p]
        BY <1>1, <1>2, <3>1
      <3>5. changes' \in 0..MaxChanges
        BY <1>1, <3>1
      <3>6. WorldTypes'
        BY <1>1, <1>5, <3>1, <3>3, <3>4, <3>5 DEF WorldTypes
      <3>7. Grows
        BY <1>1, <1>3, <1>4, <1>5, <3>1, <3>3, <3>4 DEF Grows
      <3>8. MonthsToCome'
        BY <1>5, <3>1 DEF PlanInvariant, MonthsToCome, Month
      <3>9. QED
        BY <3>6, <3>7, <3>8
    <2>3. CASE ReportEdge /\ Recorded
      <3>1. PICK n \in EdgeReports : edge' = [edge EXCEPT ![Month(clock)] = Larger(@, n)]
        BY <2>3 DEF ReportEdge
      <3>2. /\ UNCHANGED <<clock, plan, inForce>>
            /\ changes < MaxChanges /\ changes' = changes + 1
        BY <2>3 DEF ReportEdge, histories
      <3>3. lastUnder' = lastUnder \/ lastUnder' = clock
        BY <2>3, <3>2 DEF Recorded
      <3>4. lastUnder <= lastUnder' /\ lastUnder' <= clock /\ lastUnder' \in 0..clock
        BY <1>1, <3>3
      <3>5. n \in Nat
        BY MeterAssumption
      <3>6. Larger(edge[Month(clock)], n) \in Nat /\ edge[Month(clock)] <= Larger(edge[Month(clock)], n)
        BY <1>1, <1>3, <3>5 DEF Larger
      <3>7. /\ edge' \in [Months -> Nat]
            /\ \A m \in Months : edge'[m] = IF m = Month(clock) THEN Larger(edge[Month(clock)], n)
                                            ELSE edge[m]
        BY <1>1, <3>1, <3>6
      <3>8. \A m \in Months : edge[m] <= edge'[m]
        BY <1>3, <3>6, <3>7
      <3>9. changes' \in 0..MaxChanges
        BY <1>1, <3>2
      <3>10. WorldTypes'
        BY <1>1, <1>5, <3>2, <3>4, <3>7, <3>9 DEF WorldTypes
      <3>11. Grows
        BY <1>1, <1>2, <1>3, <1>4, <1>5, <3>2, <3>4, <3>8 DEF Grows
      <3>12. MonthsToCome'
        <4>1. Month(clock) \in Nat
          BY <1>1, MonthFacts
        <4>2. \A m \in Months : m > Month(clock) => org[m] = 0 /\ edge'[m] = 0
          BY <3>7, <4>1, MonthFacts DEF PlanInvariant, MonthsToCome
        <4>3. QED
          BY <1>5, <3>2, <4>2 DEF MonthsToCome, Month
      <3>13. QED
        BY <3>10, <3>11, <3>12
    <2>4. CASE Tick /\ Recorded
      <3>1. /\ clock' = clock + 1 /\ clock < MaxClock
            /\ UNCHANGED <<plan, edge, inForce, changes>>
        BY <2>4 DEF Tick, store, histories
      <3>2. /\ clock' \in 0..MaxClock /\ clock' \in Nat /\ clock <= clock' /\ clock < clock'
        BY <1>1, <3>1
      <3>3. lastUnder' = lastUnder \/ lastUnder' = clock'
        BY <2>4 DEF Recorded
      <3>4. lastUnder <= lastUnder' /\ lastUnder' <= clock' /\ lastUnder' \in 0..clock'
        BY <1>1, <3>2, <3>3
      <3>5. /\ Month(clock') \in Months /\ Month(clock') \in Nat /\ Month(clock) \in Nat
            /\ Month(clock) <= Month(clock')
        BY <1>1, <3>2, MonthFacts
      <3>6. Month(clock') = Month(clock) \/ lastUnder' = clock'
        <4>1. ASSUME Month(clock') # Month(clock) PROVE lastUnder' = clock'
          <5>1. org'[Month(clock')] = 0 /\ edge'[Month(clock')] = 0
            BY <1>5, <3>1, <3>5, <4>1 DEF PlanInvariant, MonthsToCome
          <5>2. plan' \in Nat
            BY <1>1, <3>1
          <5>3. ~OverPlan(0, 0, plan')
            BY <5>2, NothingOver
          <5>4. QED
            BY <2>4, <5>1, <5>3 DEF Recorded
        <4>2. QED
          BY <4>1
      <3>7. 0..clock \subseteq 0..clock'
        BY <1>1, <3>2
      <3>8. WorldTypes'
        <4>1. inForce' \in [Plans -> {Long} \cup 0..clock']
          BY <1>1, <3>1, <3>7
        <4>2. QED
          BY <1>1, <1>5, <3>1, <3>2, <3>4, <4>1 DEF WorldTypes
      <3>9. Grows
        BY <1>1, <1>2, <1>3, <1>4, <1>5, <3>1, <3>2, <3>4, <3>6 DEF Grows
      <3>10. MonthsToCome'
        <4>1. \A m \in Months : m > Month(clock') => org'[m] = 0 /\ edge'[m] = 0
          BY <1>5, <3>1, <3>5, MonthFacts DEF PlanInvariant, MonthsToCome
        <4>2. QED
          BY <4>1 DEF MonthsToCome, Month
      <3>11. QED
        BY <3>8, <3>9, <3>10
    <2>5. CASE AllOver /\ Recorded
      <3>1. UNCHANGED <<clock, plan, edge, inForce, changes>>
        BY <2>5 DEF AllOver, store, histories
      <3>2. lastUnder' = lastUnder \/ lastUnder' = clock
        BY <2>5, <3>1 DEF Recorded
      <3>3. lastUnder <= lastUnder' /\ lastUnder' <= clock /\ lastUnder' \in 0..clock
        BY <1>1, <3>2
      <3>4. WorldTypes'
        BY <1>1, <1>5, <3>1, <3>3 DEF WorldTypes
      <3>5. Grows
        BY <1>1, <1>2, <1>3, <1>4, <1>5, <3>1, <3>3 DEF Grows
      <3>6. MonthsToCome'
        BY <1>5, <3>1 DEF PlanInvariant, MonthsToCome, Month
      <3>7. QED
        BY <3>4, <3>5, <3>6
    <2>6. QED
      BY <2>1, <2>2, <2>3, <2>4, <2>5
  <1>7. Recorded \/ UNCHANGED <<clock, plan>>
    BY DEF vars
  <1>8. QED
    BY <1>5, <1>6, <1>7, PlanFromParts

LEMMA PlanStep ==
    ASSUME MeterInvariant, MeterInvariant', PlanTypes, PlanInvariant, [Next]_vars
    PROVE  PlanTypes' /\ PlanInvariant'
  <1>1. MeterShape /\ MeterShape'
    BY DEF MeterInvariant
  <1>2. Next => Recorded
    BY DEF Next, Over, Recorded, Month
  <1>3. QED
    BY <1>1, <1>2, PlanServes, PlanElsewhere DEF Next

LEMMA PlanInit == Init => PlanTypes /\ PlanInvariant
  <1> SUFFICES ASSUME Init PROVE PlanTypes /\ PlanInvariant
    OBVIOUS
  <1>1. /\ clock = 0 /\ plan \in Plans
        /\ edge = [m \in Months |-> 0]
        /\ org = [m \in Months |-> IF m = 0 THEN Counted ELSE 0]
        /\ capCache = [c \in Containers |-> NoCap]
        /\ inv = [c \in Containers |-> NoRequest]
        /\ arrivals = 0 /\ faults = 0 /\ changes = 0
        /\ inForce = [p \in Plans |-> Long] /\ lastUnder = 0 /\ lost = FALSE
    BY DEF Init
  <1>2. Month(0) = 0 /\ 0 \in Months /\ Months \subseteq Nat
    BY MonthFacts, MeterAssumption DEF Month
  <1>3. WorldTypes
    <2>1. 0 \in 0..MaxClock /\ 0 \in 0..MaxRequests /\ 0 \in 0..MaxFaults /\ 0 \in 0..MaxChanges
      BY MeterAssumption
    <2>2. org \in [Months -> Nat] /\ edge \in [Months -> Nat]
      BY <1>1, MeterNumbers
    <2>3. inForce \in [Plans -> {Long} \cup 0..clock]
      BY <1>1
    <2>4. lastUnder \in 0..clock
      BY <1>1
    <2>5. QED
      BY <1>1, <2>1, <2>2, <2>3, <2>4 DEF WorldTypes
  <1>4. NoCap \in [at: -CapLife..0, cap: Plans \cup {0}] /\ NoCap.cap = 0 /\ NoCap.at = -CapLife
    BY MeterNumbers DEF NoCap
  <1>5. PlanTypes
    BY <1>1, <1>3, <1>4 DEF PlanTypes
  <1>6. MonthsToCome
    BY <1>1, <1>2 DEF MonthsToCome
  <1>7. CachesSound
    <2>1. ~(NoCap.at - (Limit - 1) > 0)
      BY <1>4, MeterNumbers
    <2>2. QED
      BY <1>1, <1>4, <2>1 DEF CachesSound, Knows
  <1>8. \A c \in Containers : inv[c].verdict = "none" /\ inv[c].pc = "idle" /\ inv[c].over = {}
    BY <1>1 DEF NoRequest
  <1>9. RefusedForCause
    BY <1>8 DEF RefusedForCause
  <1>10. \A c \in Containers : PlanSound(inv[c])
    BY <1>8 DEF PlanSound
  <1>11. LeftSound
    BY <1>1, MeterAssumption DEF LeftSound, Knows, Long
  <1>12. QED
    BY <1>5, <1>6, <1>7, <1>9, <1>10, <1>11 DEF PlanInvariant

\* A plan a container goes by was in force recently, and where the month has been
\* past its plan ever since, it is past that one.
THEOREM PlansKnown == Spec => [](PlanTypes /\ PlanInvariant)
  <1>1. QED
    BY EveryRequestMetered, PlanInit, PlanStep, PTL DEF Spec

\* The cap falls where the month is past the plan, in every container once the plan
\* has been heard, and a refusal has its cause (checkMonthlyCap, checkAuthRate).
THEOREM CutAlwaysDue == Spec => []CutWhereDue
  <1>1. PlanInvariant => CutWhereDue
    BY DEF PlanInvariant, PlanSound, CutWhereDue, CutTakesEffect
  <1>2. QED
    BY <1>1, PlansKnown, PTL

-----------------------------------------------------------------------------
(* No request is recorded twice.                                           *)

One(b) == IF b THEN 1 ELSE 0

\* The sets S and T differ in c at most.
LEMMA OneApart ==
    ASSUME NEW S \in SUBSET Containers, NEW T \in SUBSET Containers, NEW c \in Containers,
           \A d \in Containers \ {c} : d \in S <=> d \in T
    PROVE  /\ Cardinality(S) \in Nat /\ Cardinality(T) \in Nat
           /\ Cardinality(T) + One(c \in S) = Cardinality(S) + One(c \in T)
  <1>1. IsFiniteSet(S) /\ IsFiniteSet(T)
    BY MeterAssumption, FS_Subset
  <1>2. Cardinality(S) \in Nat /\ Cardinality(T) \in Nat
    BY <1>1, FS_CardinalityType
  <1>3. S \ {c} = T \ {c}
    OBVIOUS
  <1>4. ASSUME NEW R \in SUBSET Containers, IsFiniteSet(R)
        PROVE  Cardinality(R) = Cardinality(R \ {c}) + One(c \in R)
    <2>1. CASE c \in R
      <3>1. Cardinality(R \ {c}) = Cardinality(R) - 1 /\ Cardinality(R) \in Nat
        BY <1>4, <2>1, FS_RemoveElement, FS_CardinalityType
      <3>2. QED
        BY <2>1, <3>1 DEF One
    <2>2. CASE c \notin R
      <3>1. R \ {c} = R /\ Cardinality(R) \in Nat
        BY <1>4, <2>2, FS_CardinalityType
      <3>2. QED
        BY <2>2, <3>1 DEF One
    <2>3. QED
      BY <2>1, <2>2
  <1>5. Cardinality(S) = Cardinality(S \ {c}) + One(c \in S)
    BY <1>1, <1>4
  <1>6. Cardinality(T) = Cardinality(S \ {c}) + One(c \in T)
    BY <1>1, <1>3, <1>4
  <1>7. Cardinality(S \ {c}) \in Nat
    <2>1. IsFiniteSet(S \ {c})
      BY <1>1, FS_Subset
    <2>2. QED
      BY <2>1, FS_CardinalityType
  <1>8. One(c \in S) \in Nat /\ One(c \in T) \in Nat
    BY DEF One
  <1>9. QED
    BY <1>2, <1>5, <1>6, <1>7, <1>8

\* Stages of a request: not answered, without a verdict, its count under way.
OpenNow(q) == IF q.pc # "idle" THEN 1 ELSE 0
JudgedLater(q) == IF q.pc \notin {"idle", "settle"} THEN 1 ELSE 0
CountedLater(q) == IF q.counting = "pending" THEN 1 ELSE 0

LEMMA StagesMove ==
    ASSUME MeterShape, NEW c \in Containers, NEW q, Goes(c, q)
    PROVE  /\ Cardinality(Unanswered) \in Nat /\ Cardinality(Unanswered') \in Nat
           /\ Cardinality(Unanswered') + OpenNow(inv[c]) = Cardinality(Unanswered) + OpenNow(q)
           /\ Cardinality(Unjudged) \in Nat /\ Cardinality(Unjudged') \in Nat
           /\ Cardinality(Unjudged') + JudgedLater(inv[c]) = Cardinality(Unjudged) + JudgedLater(q)
           /\ Cardinality(Uncertain) \in Nat /\ Cardinality(Uncertain') \in Nat
           /\ Cardinality(Uncertain') + CountedLater(inv[c]) = Cardinality(Uncertain) + CountedLater(q)
  <1>1. \A d \in Containers : inv'[d] = IF d = c THEN q ELSE inv[d]
    BY OneServes
  <1>2. /\ Unanswered \in SUBSET Containers /\ Unanswered' \in SUBSET Containers
        /\ \A d \in Containers \ {c} : d \in Unanswered <=> d \in Unanswered'
        /\ One(c \in Unanswered) = OpenNow(inv[c])
        /\ One(c \in Unanswered') = OpenNow(q)
    BY <1>1 DEF Unanswered, OpenNow, One
  <1>3. /\ Unjudged \in SUBSET Containers /\ Unjudged' \in SUBSET Containers
        /\ \A d \in Containers \ {c} : d \in Unjudged <=> d \in Unjudged'
        /\ One(c \in Unjudged) = JudgedLater(inv[c])
        /\ One(c \in Unjudged') = JudgedLater(q)
    BY <1>1 DEF Unjudged, JudgedLater, One
  <1>4. /\ Uncertain \in SUBSET Containers /\ Uncertain' \in SUBSET Containers
        /\ \A d \in Containers \ {c} : d \in Uncertain <=> d \in Uncertain'
        /\ One(c \in Uncertain) = CountedLater(inv[c])
        /\ One(c \in Uncertain') = CountedLater(q)
    BY <1>1 DEF Uncertain, CountedLater, One
  <1>5. \A S, T \in SUBSET Containers :
          (\A d \in Containers \ {c} : d \in S <=> d \in T) =>
             /\ Cardinality(S) \in Nat /\ Cardinality(T) \in Nat
             /\ Cardinality(T) + One(c \in S) = Cardinality(S) + One(c \in T)
    BY OneApart
  <1>6. /\ Cardinality(Unanswered) \in Nat /\ Cardinality(Unanswered') \in Nat
        /\ Cardinality(Unanswered') + One(c \in Unanswered) = Cardinality(Unanswered) + One(c \in Unanswered')
    BY <1>2, <1>5
  <1>7. /\ Cardinality(Unjudged) \in Nat /\ Cardinality(Unjudged') \in Nat
        /\ Cardinality(Unjudged') + One(c \in Unjudged) = Cardinality(Unjudged) + One(c \in Unjudged')
    BY <1>3, <1>5
  <1>8. /\ Cardinality(Uncertain) \in Nat /\ Cardinality(Uncertain') \in Nat
        /\ Cardinality(Uncertain') + One(c \in Uncertain) = Cardinality(Uncertain) + One(c \in Uncertain')
    BY <1>4, <1>5
  <1>9. QED
    BY <1>2, <1>3, <1>4, <1>6, <1>7, <1>8

\* A history takes in a request as it leaves the stage before it.
LEMMA ArrivalsFromParts ==
    ASSUME MeterShape, MeterShape', PlanTypes, PlanTypes', ArrivalsInvariant,
           NEW c \in Containers, NEW q, Goes(c, q),
           \A key \in Apps \X Months :
             /\ answered'[key] + OpenNow(q) + arrivals
                  <= answered[key] + OpenNow(inv[c]) + arrivals'
             /\ uncounted'[key] + CountedLater(q) + arrivals
                  <= uncounted[key] + CountedLater(inv[c]) + arrivals',
           \A b \in Buckets :
             passes'[b] + JudgedLater(q) + arrivals
                  <= passes[b] + JudgedLater(inv[c]) + arrivals'
    PROVE  ArrivalsInvariant'
  <1>1. arrivals \in Nat /\ arrivals' \in Nat
    BY MeterAssumption DEF PlanTypes, WorldTypes
  <1>2. /\ OpenNow(q) \in Nat /\ OpenNow(inv[c]) \in Nat
        /\ JudgedLater(q) \in Nat /\ JudgedLater(inv[c]) \in Nat
        /\ CountedLater(q) \in Nat /\ CountedLater(inv[c]) \in Nat
    BY DEF OpenNow, JudgedLater, CountedLater
  <1>3. /\ Cardinality(Unanswered) \in Nat /\ Cardinality(Unanswered') \in Nat
        /\ Cardinality(Unanswered') + OpenNow(inv[c]) = Cardinality(Unanswered) + OpenNow(q)
        /\ Cardinality(Unjudged) \in Nat /\ Cardinality(Unjudged') \in Nat
        /\ Cardinality(Unjudged') + JudgedLater(inv[c]) = Cardinality(Unjudged) + JudgedLater(q)
        /\ Cardinality(Uncertain) \in Nat /\ Cardinality(Uncertain') \in Nat
        /\ Cardinality(Uncertain') + CountedLater(inv[c]) = Cardinality(Uncertain) + CountedLater(q)
    BY StagesMove
  <1>4. \A x, y, m, n, s, t \in Nat :
          m + s = n + t /\ y + t + arrivals <= x + s + arrivals' /\ x + n <= arrivals
            => y + m <= arrivals'
    BY <1>1
  <1>5. ASSUME NEW key \in Apps \X Months
        PROVE  /\ answered'[key] + Cardinality(Unanswered') <= arrivals'
               /\ uncounted'[key] + Cardinality(Uncertain') <= arrivals'
    <2>1. /\ answered[key] \in Nat /\ answered'[key] \in Nat
          /\ uncounted[key] \in Nat /\ uncounted'[key] \in Nat
      BY DEF MeterShape
    <2>2. /\ answered[key] + Cardinality(Unanswered) <= arrivals
          /\ uncounted[key] + Cardinality(Uncertain) <= arrivals
      BY DEF ArrivalsInvariant
    <2>3. answered'[key] + Cardinality(Unanswered') <= arrivals'
      BY <1>2, <1>3, <1>4, <2>1, <2>2
    <2>4. uncounted'[key] + Cardinality(Uncertain') <= arrivals'
      BY <1>2, <1>3, <1>4, <2>1, <2>2
    <2>5. QED
      BY <2>3, <2>4
  <1>6. ASSUME NEW b \in Buckets PROVE passes'[b] + Cardinality(Unjudged') <= arrivals'
    <2>1. passes[b] \in Nat /\ passes'[b] \in Nat /\ passes[b] + Cardinality(Unjudged) <= arrivals
      BY DEF MeterShape, ArrivalsInvariant
    <2>2. QED
      BY <1>2, <1>3, <1>4, <2>1
  <1>7. QED
    BY <1>5, <1>6 DEF ArrivalsInvariant

LEMMA BothSides ==
    ASSUME NEW x \in Nat, NEW s \in Nat, NEW t \in Nat, NEW a \in Nat, NEW b \in Nat,
           t + a <= s + b
    PROVE  x + t + a <= x + s + b
  OBVIOUS

LEMMA OneKept ==
    ASSUME NEW s \in {0, 1}, NEW t \in {0, 1}, NEW a \in Nat, NEW b \in Nat,
           b = a + 1 \/ (b = a /\ t <= s)
    PROVE  t \in Nat /\ s \in Nat /\ t + a <= s + b
  OBVIOUS

\* A step within the stages: nothing is recorded, no request goes back.
LEMMA StagesKept ==
    ASSUME MeterShape, MeterShape', PlanTypes, PlanTypes', ArrivalsInvariant,
           NEW c \in Containers, NEW q, Goes(c, q),
           UNCHANGED <<answered, uncounted, passes>>,
           \/ arrivals' = arrivals + 1
           \/ /\ arrivals' = arrivals
              /\ OpenNow(q) <= OpenNow(inv[c])
              /\ JudgedLater(q) <= JudgedLater(inv[c])
              /\ CountedLater(q) <= CountedLater(inv[c])
    PROVE  ArrivalsInvariant'
  <1>1. arrivals \in Nat /\ arrivals' \in Nat
    BY MeterAssumption DEF PlanTypes, WorldTypes
  <1>2. /\ OpenNow(q) \in {0, 1} /\ OpenNow(inv[c]) \in {0, 1}
        /\ JudgedLater(q) \in {0, 1} /\ JudgedLater(inv[c]) \in {0, 1}
        /\ CountedLater(q) \in {0, 1} /\ CountedLater(inv[c]) \in {0, 1}
    BY DEF OpenNow, JudgedLater, CountedLater
  <1>3. /\ OpenNow(q) \in Nat /\ OpenNow(inv[c]) \in Nat
        /\ OpenNow(q) + arrivals <= OpenNow(inv[c]) + arrivals'
        /\ JudgedLater(q) \in Nat /\ JudgedLater(inv[c]) \in Nat
        /\ JudgedLater(q) + arrivals <= JudgedLater(inv[c]) + arrivals'
        /\ CountedLater(q) \in Nat /\ CountedLater(inv[c]) \in Nat
        /\ CountedLater(q) + arrivals <= CountedLater(inv[c]) + arrivals'
    BY <1>1, <1>2, OneKept
  <1>4. \A key \in Apps \X Months : answered[key] \in Nat /\ uncounted[key] \in Nat
    BY DEF MeterShape
  <1>5. \A b \in Buckets : passes[b] \in Nat
    BY DEF MeterShape
  <1>6. QED
    BY <1>1, <1>3, <1>4, <1>5, BothSides, ArrivalsFromParts

\* A request served goes to a stage; what the step records is its own.
LEMMA ArrivalsServed ==
    ASSUME MeterInvariant, MeterInvariant', PlanTypes, PlanTypes', ArrivalsInvariant,
           NEW c \in Containers, Serve(c)
    PROVE  ArrivalsInvariant'
  <1>0. MeterShape /\ MeterShape' /\ inv[c] \in Request
    BY MeterParts DEF MeterInvariant
  <1>1. ASSUME Goes(c, NoRequest), UNCHANGED <<answered, uncounted, passes, arrivals>>
        PROVE  ArrivalsInvariant'
    <2>1. /\ OpenNow(NoRequest) <= OpenNow(inv[c])
          /\ JudgedLater(NoRequest) <= JudgedLater(inv[c])
          /\ CountedLater(NoRequest) <= CountedLater(inv[c])
      BY NoRequestFacts DEF OpenNow, JudgedLater, CountedLater
    <2>2. QED
      BY <1>0, <1>1, <2>1, StagesKept
  <1>2. ASSUME NEW q, Goes(c, q), UNCHANGED <<answered, uncounted, passes, arrivals>>,
               q.counting = inv[c].counting \/ q.counting = "written",
               inv[c].pc # "idle",
               q.pc = inv[c].pc \/ inv[c].pc # "settle"
        PROVE  ArrivalsInvariant'
    <2>1. /\ OpenNow(q) <= OpenNow(inv[c])
          /\ JudgedLater(q) <= JudgedLater(inv[c])
          /\ CountedLater(q) <= CountedLater(inv[c])
      BY <1>2 DEF OpenNow, JudgedLater, CountedLater
    <2>2. QED
      BY <1>0, <1>2, <2>1, StagesKept
  <1>3. /\ \A key \in Apps \X Months : answered[key] \in Nat /\ uncounted[key] \in Nat
        /\ \A b \in Buckets : passes[b] \in Nat
        /\ arrivals \in Nat
    BY <1>0, MeterAssumption DEF MeterShape, PlanTypes, WorldTypes
  <1>4. CASE Arrive(c)
    <2>1. arrivals' = arrivals + 1 /\ UNCHANGED <<answered, uncounted, passes>>
      BY <1>4 DEF Arrive, histories
    <2>2. PICK q : Goes(c, q)
      BY <1>4 DEF Arrive
    <2>3. QED
      BY <1>0, <2>1, <2>2, StagesKept
  <1>5. CASE CountEnds(c)
    <2> DEFINE q0 == inv[c]
               key0 == <<q0.app, Month(q0.entered)>>
    <2>1. /\ q0.counting = "pending" /\ UNCHANGED <<answered, passes, arrivals>>
          /\ \/ Goes(c, [q0 EXCEPT !.counting = "written"]) /\ UNCHANGED uncounted
             \/ /\ q0.pc = "settle" /\ Goes(c, [q0 EXCEPT !.counting = "failed"])
                /\ uncounted' = [uncounted EXCEPT ![key0] = uncounted[key0] + 1]
             \/ Goes(c, NoRequest) /\ UNCHANGED uncounted
      BY <1>5 DEF CountEnds, Dies
    <2>2. q0.pc # "idle"
      <3>1. Proper(q0, clock) \/ q0 = NoRequest
        BY DEF PlanTypes
      <3>2. QED
        BY <2>1, <3>1, NoRequestFacts DEF Proper
    <2> HIDE DEF q0, key0
    <2>3. CASE Goes(c, [q0 EXCEPT !.counting = "written"]) /\ UNCHANGED uncounted
      <3> DEFINE q == [q0 EXCEPT !.counting = "written"]
      <3>1. q.counting = "written" /\ q.pc = q0.pc /\ Goes(c, q)
        BY <1>0, <2>3 DEF Request, q0
      <3> HIDE DEF q
      <3>2. QED
        BY <1>2, <2>1, <2>2, <2>3, <3>1 DEF q0
    <2>4. CASE /\ q0.pc = "settle" /\ Goes(c, [q0 EXCEPT !.counting = "failed"])
               /\ uncounted' = [uncounted EXCEPT ![key0] = uncounted[key0] + 1]
      <3> DEFINE q == [q0 EXCEPT !.counting = "failed"]
      <3>1. q.counting = "failed" /\ q.pc = q0.pc /\ Goes(c, q)
        BY <1>0, <2>4 DEF Request, q0
      <3> HIDE DEF q
      <3>2. /\ OpenNow(q) = OpenNow(q0) /\ JudgedLater(q) = JudgedLater(q0)
            /\ CountedLater(q) = 0 /\ CountedLater(q0) = 1
            /\ OpenNow(q) \in Nat /\ JudgedLater(q) \in Nat
        BY <2>1, <3>1 DEF OpenNow, JudgedLater, CountedLater
      <3>3. \A key \in Apps \X Months : uncounted'[key] <= uncounted[key] + 1 /\ uncounted'[key] \in Nat
        <4>1. uncounted \in [Apps \X Months -> Nat] /\ 1 \in Nat
          BY <1>0 DEF MeterShape
        <4>2. \A key \in Apps \X Months :
                uncounted'[key] = IF key = key0 THEN uncounted[key] + 1 ELSE uncounted[key]
          BY <2>4, <4>1, Added
        <4>3. QED
          BY <1>3, <4>2
      <3>4. ASSUME NEW key \in Apps \X Months
            PROVE  /\ answered'[key] + OpenNow(q) + arrivals
                        <= answered[key] + OpenNow(q0) + arrivals'
                   /\ uncounted'[key] + CountedLater(q) + arrivals
                        <= uncounted[key] + CountedLater(q0) + arrivals'
        BY <1>3, <2>1, <3>2, <3>3
      <3>5. ASSUME NEW b \in Buckets
            PROVE  passes'[b] + JudgedLater(q) + arrivals <= passes[b] + JudgedLater(q0) + arrivals'
        BY <1>3, <2>1, <3>2
      <3>6. QED
        BY <1>0, <3>1, <3>4, <3>5, ArrivalsFromParts DEF q0
    <2>5. CASE Goes(c, NoRequest) /\ UNCHANGED uncounted
      BY <1>1, <2>1, <2>5
    <2>6. QED
      BY <2>1, <2>3, <2>4, <2>5
  <1>6. CASE ReadCap(c) \/ StampCap(c) \/ BumpOrg(c) \/ BumpRate(c)
    <2>1. /\ UNCHANGED <<answered, uncounted, passes, arrivals>>
          /\ inv[c].pc # "idle" /\ inv[c].pc # "settle"
      BY <1>6 DEF ReadCap, StampCap, BumpOrg, BumpRate, At, histories
    <2>2. \E q : Goes(c, q) /\ q.counting = inv[c].counting
      <3> DEFINE q0 == inv[c]
      <3>1. CASE ReadCap(c)
        <4>1. CASE Goes(c, [q0 EXCEPT !.pc = "org", !.cap = capCache[c].cap, !.month = Month(clock)])
          <5>1. [q0 EXCEPT !.pc = "org", !.cap = capCache[c].cap, !.month = Month(clock)].counting
                  = q0.counting
            BY <1>0 DEF Request
          <5>2. QED
            BY <4>1, <5>1
        <4>2. ASSUME NEW p \in Plans, Goes(c, [q0 EXCEPT !.pc = "stamp", !.cap = p])
              PROVE  \E q : Goes(c, q) /\ q.counting = q0.counting
          <5>1. [q0 EXCEPT !.pc = "stamp", !.cap = p].counting = q0.counting
            BY <1>0 DEF Request
          <5>2. QED
            BY <4>2, <5>1
        <4>3. CASE Goes(c, [q0 EXCEPT !.pc = "org", !.month = Month(clock), !.unsure = TRUE])
          <5>1. [q0 EXCEPT !.pc = "org", !.month = Month(clock), !.unsure = TRUE].counting
                  = q0.counting
            BY <1>0 DEF Request
          <5>2. QED
            BY <4>3, <5>1
        <4>4. QED
          BY <3>1, <4>1, <4>2, <4>3 DEF ReadCap
      <3>2. CASE StampCap(c)
        <4>1. Goes(c, [q0 EXCEPT !.pc = "org", !.month = Month(clock)])
          BY <3>2 DEF StampCap
        <4>2. [q0 EXCEPT !.pc = "org", !.month = Month(clock)].counting = q0.counting
          BY <1>0 DEF Request
        <4>3. QED
          BY <4>1, <4>2
      <3>3. CASE BumpOrg(c)
        <4>1. \/ Goes(c, Rated([q0 EXCEPT !.unsure = TRUE]))
              \/ Goes(c, Rated(q0)) \/ Goes(c, Ends(q0, "cap"))
          BY <3>3 DEF BumpOrg
        <4>2. [q0 EXCEPT !.unsure = TRUE] \in Request
              /\ [q0 EXCEPT !.unsure = TRUE].counting = q0.counting
          BY <1>0 DEF Request
        <4>3. Rated([q0 EXCEPT !.unsure = TRUE]).counting = q0.counting
          <5> DEFINE r == [q0 EXCEPT !.unsure = TRUE]
          <5>1. r \in Request /\ r.counting = q0.counting
            BY <4>2
          <5> HIDE DEF r
          <5>2. Rated(r).counting = r.counting
            BY <5>1, RatedFields
          <5>3. QED
            BY <5>1, <5>2 DEF r
        <4>4. Rated(q0).counting = q0.counting
          <5>1. q0 \in Request
            BY <1>0
          <5> HIDE DEF q0
          <5>2. QED
            BY <5>1, RatedFields
        <4>5. Ends(q0, "cap").counting = q0.counting
          <5>1. q0 \in Request
            BY <1>0
          <5> HIDE DEF q0
          <5>2. QED
            BY <5>1, EndsFields
        <4>6. QED
          BY <4>1, <4>3, <4>4, <4>5
      <3>4. CASE BumpRate(c)
        <4>1. \E wait, clean, over :
                Goes(c, [q0 EXCEPT !.waiting = wait, !.clean = clean, !.over = over])
          BY <3>4 DEF BumpRate
        <4>2. PICK wait, clean, over :
                Goes(c, [q0 EXCEPT !.waiting = wait, !.clean = clean, !.over = over])
          BY <4>1
        <4>3. [q0 EXCEPT !.waiting = wait, !.clean = clean, !.over = over].counting = q0.counting
          BY <1>0 DEF Request
        <4>4. QED
          BY <4>2, <4>3
      <3>5. QED
        BY <1>6, <3>1, <3>2, <3>3, <3>4
    <2>3. QED
      BY <1>2, <2>1, <2>2
  <1>7. CASE Throttle(c)
    <2> DEFINE q0 == inv[c]
               verdict == IF q0.over \cap Blocking # {} THEN "rate" ELSE "passed"
               q == Ends(q0, verdict)
    <2>1. /\ Goes(c, q) /\ q0.pc = "rate" /\ UNCHANGED <<answered, uncounted, arrivals>>
      BY <1>7 DEF Throttle, At
    <2>2. \A b \in Buckets : passes'[b] <= passes[b] + 1 /\ passes'[b] \in Nat
      <3>1. CASE UNCHANGED passes
        BY <1>3, <3>1
      <3>2. CASE passes' = [b \in Buckets |->
                   passes[b] + (IF \E k \in q0.clean : b = Bucket(k, q0) THEN 1 ELSE 0)]
        <4>1. ASSUME NEW b \in Buckets
              PROVE  passes'[b] = passes[b] + 1 \/ passes'[b] = passes[b] + 0
          BY <3>2
        <4>2. QED
          BY <1>3, <4>1
      <3>3. QED
        BY <1>7, <3>1, <3>2 DEF Throttle
    <2>3. q.pc = "settle" /\ q.counting = q0.counting
      BY <1>0, EndsFields
    <2> HIDE DEF q, q0
    <2>4. /\ OpenNow(q) = OpenNow(q0) /\ CountedLater(q) = CountedLater(q0)
          /\ JudgedLater(q) = 0 /\ JudgedLater(q0) = 1
          /\ OpenNow(q) \in Nat /\ CountedLater(q) \in Nat
      BY <2>1, <2>3 DEF OpenNow, JudgedLater, CountedLater
    <2>5. ASSUME NEW key \in Apps \X Months
          PROVE  /\ answered'[key] + OpenNow(q) + arrivals
                      <= answered[key] + OpenNow(q0) + arrivals'
                 /\ uncounted'[key] + CountedLater(q) + arrivals
                      <= uncounted[key] + CountedLater(q0) + arrivals'
      BY <1>3, <2>1, <2>4
    <2>6. ASSUME NEW b \in Buckets
          PROVE  passes'[b] + JudgedLater(q) + arrivals <= passes[b] + JudgedLater(q0) + arrivals'
      BY <1>3, <2>1, <2>2, <2>4
    <2>7. QED
      BY <1>0, <2>1, <2>5, <2>6, ArrivalsFromParts DEF q0
  <1>8. CASE Settle(c)
    <2> DEFINE q0 == inv[c]
               key0 == <<q0.app, Month(q0.entered)>>
    <2>1. /\ Goes(c, NoRequest) /\ q0.pc = "settle" /\ q0.counting # "pending"
          /\ UNCHANGED <<passes, uncounted, arrivals>>
          /\ answered' = [answered EXCEPT ![key0] = answered[key0] + 1]
      BY <1>8 DEF Settle, At
    <2> HIDE DEF q0, key0
    <2>2. \A key \in Apps \X Months : answered'[key] <= answered[key] + 1 /\ answered'[key] \in Nat
      <3>1. answered \in [Apps \X Months -> Nat] /\ 1 \in Nat
        BY <1>0 DEF MeterShape
      <3>2. \A key \in Apps \X Months :
              answered'[key] = IF key = key0 THEN answered[key] + 1 ELSE answered[key]
        BY <2>1, <3>1, Added
      <3>3. QED
        BY <1>3, <3>2
    <2>3. /\ OpenNow(NoRequest) = 0 /\ OpenNow(q0) = 1
          /\ CountedLater(NoRequest) = 0 /\ CountedLater(q0) = 0
          /\ JudgedLater(NoRequest) = 0 /\ JudgedLater(q0) = 0
      BY <2>1, NoRequestFacts DEF OpenNow, JudgedLater, CountedLater
    <2>4. ASSUME NEW key \in Apps \X Months
          PROVE  /\ answered'[key] + OpenNow(NoRequest) + arrivals
                      <= answered[key] + OpenNow(q0) + arrivals'
                 /\ uncounted'[key] + CountedLater(NoRequest) + arrivals
                      <= uncounted[key] + CountedLater(q0) + arrivals'
      BY <1>3, <2>1, <2>2, <2>3
    <2>5. ASSUME NEW b \in Buckets
          PROVE  passes'[b] + JudgedLater(NoRequest) + arrivals
                   <= passes[b] + JudgedLater(q0) + arrivals'
      BY <1>3, <2>1, <2>3
    <2>6. QED
      BY <1>0, <2>1, <2>4, <2>5, ArrivalsFromParts DEF q0
  <1>9. CASE Killed(c)
    <2>1. Goes(c, NoRequest) /\ UNCHANGED <<answered, uncounted, passes, arrivals>>
      BY <1>9 DEF Killed, Dies, histories
    <2>2. QED
      BY <1>1, <2>1
  <1>10. QED
    BY <1>4, <1>5, <1>6, <1>7, <1>8, <1>9 DEF Serve

LEMMA ArrivalsStep ==
    ASSUME MeterInvariant, MeterInvariant', PlanTypes, PlanTypes', ArrivalsInvariant, [Next]_vars
    PROVE  ArrivalsInvariant'
  <1>1. CASE ChangePlan \/ ReportEdge \/ Tick \/ AllOver \/ UNCHANGED vars
    <2>1. UNCHANGED <<inv, answered, uncounted, passes, arrivals>>
      BY <1>1 DEF ChangePlan, ReportEdge, Tick, AllOver, store, histories, vars
    <2>2. QED
      BY <2>1 DEF ArrivalsInvariant, Unanswered, Unjudged, Uncertain
  <1>2. QED
    BY <1>1, ArrivalsServed DEF Next

LEMMA ArrivalsInit == Init => ArrivalsInvariant
  <1> SUFFICES ASSUME Init PROVE ArrivalsInvariant
    OBVIOUS
  <1>1. /\ arrivals = 0 /\ inv = [c \in Containers |-> NoRequest]
        /\ passes = [b \in Buckets |-> 0]
        /\ answered = [key \in Apps \X Months |-> 0]
        /\ uncounted = [key \in Apps \X Months |-> 0]
    BY DEF Init
  <1>2. Unanswered = {} /\ Unjudged = {} /\ Uncertain = {}
    BY <1>1, NoRequestFacts DEF Unanswered, Unjudged, Uncertain
  <1>3. Cardinality({}) = 0
    BY FS_EmptySet
  <1>4. QED
    BY <1>1, <1>2, <1>3 DEF ArrivalsInvariant

\* No request is recorded twice in a history.
THEOREM NoneRecordedTwice == Spec => []ArrivalsInvariant
  <1>1. QED
    BY EveryRequestMetered, PlansKnown, ArrivalsInit, ArrivalsStep, PTL DEF Spec

\* The counters, the caches and the requests keep their types; no history counts
\* more requests than came.
THEOREM MeterTypes == Spec => []TypeOK
  <1>1. MeterInvariant /\ PlanTypes /\ ArrivalsInvariant => TypeOK
    <2> SUFFICES ASSUME MeterInvariant, PlanTypes, ArrivalsInvariant PROVE TypeOK
      OBVIOUS
    <2>1. MeterShape /\ WorldTypes /\ arrivals \in Nat
      BY MeterAssumption DEF MeterInvariant, PlanTypes, WorldTypes
    <2>2. /\ Cardinality(Unanswered) \in Nat /\ Cardinality(Unjudged) \in Nat
          /\ Cardinality(Uncertain) \in Nat
      <3>1. \A S \in SUBSET Containers : Cardinality(S) \in Nat
        BY OneMoves
      <3>2. QED
        BY <3>1 DEF Unanswered, Unjudged, Uncertain
    <2>3. passes \in [Buckets -> 0..arrivals]
      <3>1. \A b \in Buckets : passes[b] \in Nat /\ passes[b] + Cardinality(Unjudged) <= arrivals
        BY <2>1 DEF MeterShape, ArrivalsInvariant
      <3>2. \A b \in Buckets : passes[b] \in 0..arrivals
        BY <2>1, <2>2, <3>1
      <3>3. passes = [b \in Buckets |-> passes[b]]
        BY <2>1 DEF MeterShape
      <3>4. QED
        BY <3>2, <3>3
    <2>4. answered \in [Apps \X Months -> 0..arrivals] /\ uncounted \in [Apps \X Months -> 0..arrivals]
      <3>1. \A key \in Apps \X Months :
              /\ answered[key] \in Nat /\ answered[key] + Cardinality(Unanswered) <= arrivals
              /\ uncounted[key] \in Nat /\ uncounted[key] + Cardinality(Uncertain) <= arrivals
        BY <2>1 DEF MeterShape, ArrivalsInvariant
      <3>2. \A key \in Apps \X Months : answered[key] \in 0..arrivals /\ uncounted[key] \in 0..arrivals
        BY <2>1, <2>2, <3>1
      <3>3. answered = [key \in Apps \X Months |-> answered[key]]
        BY <2>1 DEF MeterShape
      <3>4. uncounted = [key \in Apps \X Months |-> uncounted[key]]
        BY <2>1 DEF MeterShape
      <3>5. QED
        BY <3>2, <3>3, <3>4
    <2>5. ASSUME NEW c \in Containers, Proper(inv[c], clock)
          PROVE  inv[c] \in
            [pc: {"cap", "stamp", "org", "rate", "settle"}, app: Apps, ip: Addresses,
             kinds: SUBSET Kinds, entered: 0..clock, counting: {"pending", "written", "failed"},
             cap: Plans \cup {0}, month: Months, minute: 0..clock, waiting: SUBSET Kinds,
             over: SUBSET Kinds, clean: SUBSET Kinds, unsure: BOOLEAN,
             verdict: {"none", "cap", "rate", "passed"}]
      <3> DEFINE q == inv[c]
      <3> HIDE DEF q
      <3>1. ASSUME Proper(q, clock)
            PROVE  q \in
              [pc: {"cap", "stamp", "org", "rate", "settle"}, app: Apps, ip: Addresses,
               kinds: SUBSET Kinds, entered: 0..clock, counting: {"pending", "written", "failed"},
               cap: Plans \cup {0}, month: Months, minute: 0..clock, waiting: SUBSET Kinds,
               over: SUBSET Kinds, clean: SUBSET Kinds, unsure: BOOLEAN,
               verdict: {"none", "cap", "rate", "passed"}]
        BY <3>1 DEF Proper, Request
      <3>2. QED
        BY <2>5, <3>1 DEF q
    <2>6. count \in [Apps \X Months -> Nat] /\ hits \in [Buckets -> Nat]
      BY <2>1 DEF MeterShape
    <2>7. \A c \in Containers : inv[c] = NoRequest \/ Proper(inv[c], clock)
      BY DEF PlanTypes
    <2>8. QED
      BY <2>1, <2>3, <2>4, <2>5, <2>6, <2>7 DEF TypeOK, PlanTypes, WorldTypes
  <1>2. QED
    BY <1>1, EveryRequestMetered, PlansKnown, NoneRecordedTwice, PTL
=============================================================================
