--------------------------- MODULE SiteVisitProofs ---------------------------
(***************************************************************************)
(* What is true of SiteVisit for any visitors, hosts and budgets: whatever *)
(* two, or two hundred, tabs do, the login page that the CDN keeps is the  *)
(* viewer's own, the edge and the authorizer agree, and everybody comes    *)
(* back to the page they asked for, in four redirects at most.             *)
(***************************************************************************)
EXTENDS SiteVisit, SequenceTheorems, WellFoundedInduction, TLAPS

Path == Seq(Tokens)

-----------------------------------------------------------------------------
(* Paths.                                                                  *)

\* A prefix agrees in every place it has.
LEMMA PrefixIs ==
  ASSUME NEW s \in Path, NEW t \in Path
  PROVE  IsPrefix(s, t) <=> Len(s) <= Len(t) /\ \A i \in 1..Len(s) : s[i] = t[i]
  <1>1. /\ Len(s) \in Nat /\ Len(t) \in Nat
    BY DEF Path
  <1>2. /\ SubSeq(s, 1, Len(s)) \in Path
        /\ Len(SubSeq(s, 1, Len(s))) = Len(s)
        /\ \A i \in 1..Len(s) : SubSeq(s, 1, Len(s))[i] = s[i]
    BY DEF Path
  <1>3. ASSUME Len(s) <= Len(t)
        PROVE  /\ SubSeq(t, 1, Len(s)) \in Path
               /\ Len(SubSeq(t, 1, Len(s))) = Len(s)
               /\ \A i \in 1..Len(s) : SubSeq(t, 1, Len(s))[i] = t[i]
    BY <1>1, <1>3 DEF Path
  <1> DEFINE a == SubSeq(s, 1, Len(s))
             b == SubSeq(t, 1, Len(s))
  <1>4. ASSUME Len(s) <= Len(t), \A i \in 1..Len(s) : s[i] = t[i]
        PROVE  a = b
    <2> HIDE DEF a, b
    <2>1. /\ a \in Seq(Tokens) /\ b \in Seq(Tokens) /\ Len(a) = Len(b)
          /\ \A i \in 1..Len(a) : a[i] = b[i]
      BY <1>2, <1>3, <1>4 DEF Path, a, b
    <2> QED
      BY <2>1, SeqEqual
  <1> QED
    BY <1>2, <1>3, <1>4 DEF IsPrefix

\* Under a prefix: the prefix itself, or beyond a slash after it.
LEMMA UnderIs ==
  ASSUME NEW uri \in Path, NEW pf \in Path
  PROVE  Under(uri, pf) <=>
           \/ uri = pf
           \/ /\ Len(pf) < Len(uri) /\ uri[Len(pf) + 1] = "/"
              /\ \A i \in 1..Len(pf) : uri[i] = pf[i]
  <1> DEFINE long == Append(pf, "/")
  <1>1. /\ long \in Path /\ Len(long) = Len(pf) + 1 /\ long[Len(pf) + 1] = "/"
        /\ \A i \in 1..Len(pf) : long[i] = pf[i]
    <2>1. "/" \in Tokens
      BY TokensAssumption
    <2> QED
      BY <2>1, AppendProperties DEF Path
  <1>2. Len(pf) \in Nat /\ Len(uri) \in Nat
    BY DEF Path
  <1> HIDE DEF long
  <1>3. IsPrefix(long, uri) <=> Len(long) <= Len(uri) /\ \A i \in 1..Len(long) : long[i] = uri[i]
    BY <1>1, PrefixIs
  <1>4. Under(uri, pf) <=> uri = pf \/ IsPrefix(long, uri)
    BY DEF Under, long
  <1> QED
    BY <1>1, <1>2, <1>3, <1>4

\* The platform's own paths.
LEMMA AuthIs ==
  ASSUME NEW uri \in Path
  PROVE  Under(uri, AuthTree) <=>
           /\ Len(uri) >= 2 /\ uri[1] = "/" /\ uri[2] = "auth"
           /\ Len(uri) = 2 \/ uri[3] = "/"
  <1>1. /\ AuthTree \in Path /\ Len(AuthTree) = 2
        /\ AuthTree[1] = "/" /\ AuthTree[2] = "auth"
    BY TokensAssumption DEF AuthTree, Path
  <1>2. Len(uri) \in Nat
    BY DEF Path
  <1>3. ASSUME Len(uri) = 2, uri[1] = "/", uri[2] = "auth"
        PROVE  uri = AuthTree
    <2>1. uri \in Seq(Tokens) /\ AuthTree \in Seq(Tokens) /\ Len(uri) = Len(AuthTree)
          /\ \A i \in 1..Len(uri) : uri[i] = AuthTree[i]
      BY <1>1, <1>3 DEF Path
    <2> QED
      BY <2>1, SeqEqual
  <1>4. Under(uri, AuthTree) <=>
           \/ uri = AuthTree
           \/ 2 < Len(uri) /\ uri[3] = "/" /\ \A i \in 1..2 : uri[i] = AuthTree[i]
    <2>1. Under(uri, AuthTree) <=>
            \/ uri = AuthTree
            \/ /\ Len(AuthTree) < Len(uri) /\ uri[Len(AuthTree) + 1] = "/"
               /\ \A i \in 1..Len(AuthTree) : uri[i] = AuthTree[i]
      BY <1>1, UnderIs
    <2>2. Len(AuthTree) + 1 = 3
      BY <1>1
    <2> QED
      BY <1>1, <2>1, <2>2
  <1>5. (\A i \in 1..2 : uri[i] = AuthTree[i]) <=> uri[1] = "/" /\ uri[2] = "auth"
    BY <1>1
  <1>6. Under(uri, AuthTree) <=>
           uri = AuthTree \/ (2 < Len(uri) /\ uri[3] = "/" /\ uri[1] = "/" /\ uri[2] = "auth")
    BY <1>4, <1>5
  <1>7. ASSUME Under(uri, AuthTree)
        PROVE  Len(uri) >= 2 /\ uri[1] = "/" /\ uri[2] = "auth" /\ (Len(uri) = 2 \/ uri[3] = "/")
    BY <1>1, <1>2, <1>6, <1>7
  <1>8. ASSUME Len(uri) >= 2, uri[1] = "/", uri[2] = "auth", Len(uri) = 2 \/ uri[3] = "/"
        PROVE  Under(uri, AuthTree)
    BY <1>2, <1>3, <1>6, <1>8
  <1> QED
    BY <1>7, <1>8

\* A static asset's path begins with /static.
LEMMA StaticIs ==
  ASSUME NEW uri \in Path, Under(uri, Static)
  PROVE  Len(uri) >= 2 /\ uri[1] = "/" /\ uri[2] = "static"
  <1>1. /\ Static \in Path /\ Len(Static) = 2
        /\ Static[1] = "/" /\ Static[2] = "static"
    BY TokensAssumption DEF Static, Path
  <1>2. Len(uri) \in Nat
    BY DEF Path
  <1>3. uri = Static \/ (2 < Len(uri) /\ \A i \in 1..2 : uri[i] = Static[i])
    BY <1>1, UnderIs
  <1> QED
    BY <1>1, <1>2, <1>3

\* The platform's own paths are paths, its pages lie under /auth, the root does not.
LEMMA Names ==
  /\ {Root, Login, SendOtp, Verify, Logout, Register, Nowhere} \subseteq Path
  /\ \A uri \in {Login, SendOtp, Verify, Logout, Register} : Under(uri, AuthTree)
  /\ Relative(Root) /\ ~Under(Root, AuthTree) /\ ~Relative(Nowhere)
  /\ Login \notin {SendOtp, Verify, Logout, Register} /\ Register \notin {SendOtp, Verify}
  /\ Logout \notin {SendOtp, Verify, Register} /\ Nowhere # Root
  <1>1. {Root, Login, SendOtp, Verify, Logout, Register, Nowhere} \subseteq Path
    BY TokensAssumption DEF Path, Root, Login, SendOtp, Verify, Logout, Register, Nowhere
  <1>2. \A uri \in {Login, SendOtp, Verify, Logout, Register} : Under(uri, AuthTree)
    <2>1. ASSUME NEW name \in Tokens
          PROVE  Under(<<"/", "auth", "/", name>>, AuthTree)
      <3>1. <<"/", "auth", "/", name>> \in Path
        BY TokensAssumption DEF Path
      <3> QED
        BY <3>1, AuthIs
    <2> QED
      BY <2>1, TokensAssumption DEF Login, SendOtp, Verify, Logout, Register
  <1>3. Relative(Root) /\ ~Under(Root, AuthTree) /\ ~Relative(Nowhere) /\ Nowhere # Root
    BY <1>1, AuthIs DEF Root, Nowhere, Relative
  <1>4. /\ Login \notin {SendOtp, Verify, Logout, Register} /\ Register \notin {SendOtp, Verify}
        /\ Logout \notin {SendOtp, Verify, Register}
    BY DEF Login, SendOtp, Verify, Logout, Register
  <1> QED
    BY <1>1, <1>2, <1>3, <1>4

\* safeReturnUrl: a path stays, nothing is the root, an own address its path.
LEMMA SafeIs ==
  ASSUME NEW host \in Hosts, NEW ret \in Path
  PROVE  /\ Safe(host, ret) \in Path
         /\ Relative(ret) => Safe(host, ret) = ret
         /\ Safe(host, Nowhere) = Root
  <1>1. ASSUME ret # Nowhere
        PROVE  Tail(ret) \in Path
    BY <1>1 DEF Nowhere, Path
  <1> QED
    BY <1>1, Names DEF Safe

\* An address on the own host leads where its path does.
LEMMA OwnAddress ==
  ASSUME NEW host \in Hosts, NEW uri \in Path, Relative(uri)
  PROVE  /\ <<host>> \o uri \in Path /\ Safe(host, <<host>> \o uri) = uri
         /\ <<host>> \o uri # Nowhere
         /\ <<>> \o uri = uri
  <1> DEFINE ret == <<host>> \o uri
  <1>1. <<host>> \in Seq(Tokens) /\ Len(<<host>>) = 1 /\ <<host>>[1] = host
    BY VisitAssumption
  <1>2. /\ ret \in Seq(Tokens) /\ Len(ret) = 1 + Len(uri) /\ Len(uri) \in Nat
        /\ \A i \in 1..1 + Len(uri) : ret[i] = IF i <= 1 THEN <<host>>[i] ELSE uri[i - 1]
    BY <1>1, ConcatProperties DEF Path
  <1>3. Len(uri) >= 1 /\ uri[1] = "/"
    BY DEF Relative, Nowhere, Path
  <1>4. ret[1] = host /\ ret[2] = "/"
    BY <1>1, <1>2, <1>3
  <1> HIDE DEF ret
  <1>5. ret # Nowhere
    BY <1>2, <1>3 DEF Nowhere
  <1>6. ~Relative(ret)
    BY <1>2, <1>3, <1>4 DEF Relative
  <1>7. Tail(ret) = uri
    <2>1. /\ Tail(ret) \in Seq(Tokens) /\ Len(Tail(ret)) = Len(uri)
          /\ \A i \in 1..Len(Tail(ret)) : Tail(ret)[i] = ret[i + 1]
      BY <1>2, <1>5, HeadTailProperties DEF Nowhere
    <2>2. \A i \in 1..Len(uri) : ret[i + 1] = uri[i]
      BY <1>2
    <2> QED
      BY <2>1, <2>2, SeqEqual DEF Path
  <1>8. Safe(host, ret) = uri
    BY <1>4, <1>5, <1>6, <1>7 DEF Safe
  <1>9. <<>> \o uri = uri
    BY ConcatEmptySeq DEF Path
  <1> QED
    BY <1>2, <1>5, <1>8, <1>9 DEF ret, Path

\* Who is on the right page is on a page of the site.
LEMMA RightIs ==
  ASSUME NEW s, NEW w, Asked(w), NEW uri, Right(s, w, uri)
  PROVE  uri \in Path /\ Relative(uri) /\ ~Under(uri, AuthTree)
  BY Names DEF Right, Asked, Path

\* Decoding a path token by token.
LEMMA AtOriginIs ==
  ASSUME NEW uri \in Path
  PROVE  /\ AtOrigin(uri) \in Path /\ Len(AtOrigin(uri)) = Len(uri)
         /\ \A i \in 1..Len(uri) : AtOrigin(uri)[i] = Once(uri[i])
  <1>1. DOMAIN uri = 1..Len(uri) /\ Len(uri) \in Nat /\ \A i \in 1..Len(uri) : uri[i] \in Tokens
    BY DEF Path
  <1>2. \A token \in Tokens : Once(token) \in Tokens
    BY TokensAssumption DEF Once
  <1>3. AtOrigin(uri) = [i \in 1..Len(uri) |-> Once(uri[i])]
    BY <1>1 DEF AtOrigin
  <1>4. [i \in 1..Len(uri) |-> Once(uri[i])] \in Seq(Tokens)
    BY <1>1, <1>2
  <1> QED
    BY <1>1, <1>3, <1>4 DEF Path

\* Slashes and the platform's names are no escapes.
LEMMA SlashStays ==
  /\ Once("/") = "/" /\ Once("auth") = "auth" /\ Once("static") = "static"
  BY TokensAssumption DEF Once

\* A prefix without an escape is one of the decoded path as well.
LEMMA StillUnder ==
  ASSUME NEW uri \in Path, NEW pf \in Path, Under(uri, pf),
         \A i \in 1..Len(pf) : Once(pf[i]) = pf[i]
  PROVE  Under(AtOrigin(uri), pf)
  <1> DEFINE u == AtOrigin(uri)
  <1>1. u \in Path /\ Len(u) = Len(uri) /\ \A i \in 1..Len(uri) : u[i] = Once(uri[i])
    BY AtOriginIs
  <1>2. Len(uri) \in Nat /\ Len(pf) \in Nat
    BY DEF Path
  <1> HIDE DEF u
  <1>3. CASE uri = pf
    <2>1. \A i \in 1..Len(u) : u[i] = uri[i]
      BY <1>1, <1>3
    <2>2. u = uri
      BY <1>1, <2>1, SeqEqual DEF Path
    <2> QED
      BY <1>3, <2>2 DEF Under, u
  <1>4. CASE uri # pf
    <2>1. /\ Len(pf) < Len(uri) /\ uri[Len(pf) + 1] = "/"
          /\ \A i \in 1..Len(pf) : uri[i] = pf[i]
      BY <1>4, UnderIs
    <2>2. /\ Len(pf) < Len(u) /\ u[Len(pf) + 1] = "/"
          /\ \A i \in 1..Len(pf) : u[i] = pf[i]
      BY <1>1, <1>2, <2>1, SlashStays
    <2> QED
      BY <1>1, <2>2, UnderIs DEF u
  <1> QED
    BY <1>3, <1>4

\* The edge and the authorizer agree on what is public.
LEMMA SameGate ==
  ASSUME NEW e, Written(e), NEW uri \in Path, ~Under(uri, AuthTree),
         Platform(uri) \/ Public(uri, e.pub)
  PROVE  ~GatedAtOrigin(e, uri)
  <1>1. CASE Platform(uri)
    <2>1. Under(uri, Static)
      BY <1>1 DEF Platform
    <2>2. Static \in Path /\ \A i \in 1..Len(Static) : Once(Static[i]) = Static[i]
      BY TokensAssumption, SlashStays DEF Static, Path
    <2> QED
      BY <2>1, <2>2, StillUnder DEF GatedAtOrigin
  <1>2. CASE Public(uri, e.pub)
    <2>1. PICK pf \in e.pub : IF pf = Root THEN uri = Root ELSE Under(uri, pf)
      BY <1>2 DEF Public
    <2>2. /\ pf \in Path /\ DOMAIN pf = 1..Len(pf)
          /\ \A token \in DOMAIN Escapes : \A i \in 1..Len(pf) : pf[i] # token
      BY DEF Written, Path
    <2>3. \A i \in 1..Len(pf) : Once(pf[i]) = pf[i]
      BY <2>2 DEF Once
    <2>4. CASE pf = Root
      <3>1. AtOrigin(Root) = Root
        <4>1. Root \in Path /\ Len(Root) = 1 /\ Root[1] = "/"
          BY Names DEF Root
        <4>2. /\ AtOrigin(Root) \in Seq(Tokens) /\ Len(AtOrigin(Root)) = 1
              /\ AtOrigin(Root)[1] = "/"
          BY <4>1, AtOriginIs, SlashStays DEF Path
        <4> QED
          BY <4>1, <4>2, SeqEqual DEF Path
      <3> QED
        BY <2>1, <2>4, <3>1 DEF GatedAtOrigin, Public
    <2>5. CASE pf # Root
      BY <2>1, <2>2, <2>3, <2>5, StillUnder DEF GatedAtOrigin, Public
    <2> QED
      BY <2>4, <2>5
  <1> QED
    BY <1>1, <1>2

\* What the edge's rule lets pass, no application takes for a dot-name or a script.
LEMMA UnscannedIsDecent ==
  ASSUME NEW uri \in Path, Relative(uri), ~Scanned(uri)
  PROVE  Decent(uri)
  <1> DEFINE du == Decoded(uri)
             u == AtOrigin(AtOrigin(uri))
  <1>1. DOMAIN uri = 1..Len(uri) /\ Len(uri) \in Nat /\ Len(uri) >= 1 /\ uri[1] = "/"
    BY DEF Path, Relative, Nowhere
  <1>2. /\ u \in Path /\ Len(u) = Len(uri)
        /\ \A i \in 1..Len(uri) : u[i] = Once(Once(uri[i]))
    BY AtOriginIs, <1>1
  <1>3. du = [i \in 1..Len(uri) |-> Once(Once(uri[i]))]
    BY <1>1 DEF Decoded
  <1>4. du \in Seq(Tokens) /\ Len(du) = Len(uri) /\ \A i \in 1..Len(uri) : du[i] = Once(Once(uri[i]))
    <2>1. \A i \in 1..Len(uri) : Once(Once(uri[i])) \in Tokens
      BY TokensAssumption DEF Once, Path
    <2> QED
      BY <1>1, <1>3, <2>1
  <1> HIDE DEF u, du
  <1>5. du = u
    BY <1>2, <1>4, SeqEqual DEF Path
  <1>6. Last(u) \notin Scripts
    BY <1>5 DEF Scanned, du
  <1>7. u[1] = "/"
    BY <1>1, <1>2, SlashStays
  <1>8. ASSUME Len(u) > 1, u[2] = "."
        PROVE  u[3] = "well-known"
    <2>1. 1 \in 1..Len(u) - 1
      BY <1>1, <1>2, <1>8
    <2>2. \A i \in 1..Len(u) - 1 :
             u[i] = "/" /\ u[i + 1] = "." => i + 2 <= Len(u) /\ u[i + 2] = "well-known"
      BY <1>5 DEF Scanned, du
    <2> QED
      BY <1>7, <1>8, <2>1, <2>2
  <1> QED
    BY <1>6, <1>8 DEF Decent, u

\* The root is no dot-name and no script.
LEMMA RootIsDecent == Decent(Root)
  <1>1. Root \in Path /\ Len(Root) = 1 /\ Root[1] = "/"
    BY Names DEF Root
  <1> DEFINE u == AtOrigin(AtOrigin(Root))
  <1>2. Len(u) = 1 /\ u[1] = "/"
    BY <1>1, AtOriginIs, SlashStays
  <1> HIDE DEF u
  <1> QED
    BY <1>2, TokensAssumption DEF Decent, Last, u

-----------------------------------------------------------------------------
(* The first rule that applies.                                            *)

\* A nonempty set of naturals has a least element.
LEMMA Least ==
  ASSUME NEW T \in SUBSET Nat, T # {}
  PROVE  \E x \in T : \A y \in T : x <= y
  <1> DEFINE R == OpToRel(<, Nat)
  <1>1. IsWellFoundedOn(R, Nat)
    BY NatLessThanWellFounded
  <1>2. \A x, y \in Nat : <<y, x>> \in R <=> y < x
    BY DEF OpToRel
  <1> HIDE DEF R
  <1>3. PICK x \in T : \A y \in T : ~(<<y, x>> \in R)
    BY <1>1, WFMin
  <1>4. \A y \in T : ~(y < x)
    BY <1>2, <1>3
  <1> QED
    BY <1>4

\* FirstOf picks a rule that applies, and none before it does.
LEMMA FirstRule ==
  ASSUME NEW rules, DOMAIN rules = 1..12, rules[12].when = TRUE
  PROVE  \E k \in 1..12 :
           /\ FirstOf(rules) = rules[k] /\ rules[k].when
           /\ \A j \in 1..12 : j < k => ~rules[j].when
  <1> DEFINE I == {i \in DOMAIN rules : rules[i].when}
  <1>1. \E k \in I : \A j \in I : k <= j
    <2>1. I \in SUBSET Nat /\ 12 \in I
      OBVIOUS
    <2> HIDE DEF I
    <2> QED
      BY <2>1, Least
  <1>2. PICK k \in I : k = Min(I) /\ \A j \in I : k <= j
    BY <1>1 DEF Min
  <1>3. FirstOf(rules) = rules[k]
    BY <1>2 DEF FirstOf
  <1>4. k \in 1..12 /\ rules[k].when
    BY <1>2
  <1>5. ASSUME NEW j \in 1..12, j < k, rules[j].when
        PROVE  FALSE
    <2>1. j \in I
      BY <1>5
    <2> QED
      BY <1>2, <1>5, <2>1
  <1> QED
    BY <1>3, <1>4, <1>5

Kinds == {"unrouted", "stopped", "moved", "stranded", "notFound", "fold", "unauthorized",
          "login", "asset", "section", "origin"}

\* What each verdict says of the request and of the host's value.
LEMMA VerdictIs ==
  ASSUME NEW e, NEW q, NEW anon \in BOOLEAN, NEW v, v = Verdict(e, q, anon)
  PROVE  /\ v \in Kinds
         /\ v \notin {"unrouted", "stopped"} => e.x = 0
         /\ v = "moved" => e.r # None
         /\ v \notin {"unrouted", "stopped", "moved"} => e.r = None
         /\ v \notin {"unrouted", "stopped", "moved", "stranded", "notFound"} => ~(anon /\ Scanned(q.uri))
         /\ v = "fold" <=> (v \notin {"unrouted", "stopped", "moved", "stranded", "notFound"} /\ Folds(q, anon))
         /\ v \in {"unauthorized", "login"} => Closed(e, q, anon)
         /\ v \in {"asset", "section", "origin"} => ~Closed(e, q, anon)
         /\ v = "asset" => Under(q.uri, Static)
         /\ v = "section" => InSection(e, q.uri)
  <1> DEFINE a0 == ~e.named
             a1 == e.x # 0
             a2 == e.r # None
             a3 == Origins # {} /\ e.g \notin Origins \cup {None}
             a4 == anon /\ Scanned(q.uri)
             a5 == Folds(q, anon)
             c == Closed(e, q, anon)
             a6 == c /\ Under(q.uri, Api)
             a7 == q.uri = Static
             a8 == Under(q.uri, Static)
             a9 == InSection(e, q.uri)
             rules == <<Rule(a0, "unrouted"), Rule(a1, "stopped"), Rule(a2, "moved"),
                        Rule(a3, "stranded"), Rule(a4, "notFound"), Rule(a5, "fold"),
                        Rule(a6, "unauthorized"), Rule(c, "login"), Rule(a7, "unrouted"),
                        Rule(a8, "asset"), Rule(a9, "section"), Rule(TRUE, "origin")>>
  <1>1. v = FirstOf(rules).kind
    BY DEF Verdict
  <1> HIDE DEF a0, a1, a2, a3, a4, a5, a6, a7, a8, a9, c
  <1>2. DOMAIN rules = 1..12 /\ rules[12].when = TRUE
    BY DEF Rule
  <1>3. PICK k \in 1..12 :
           /\ FirstOf(rules) = rules[k] /\ rules[k].when
           /\ \A j \in 1..12 : j < k => ~rules[j].when
    <2> HIDE DEF rules
    <2> QED
      BY <1>2, FirstRule
  <1>4. /\ v \in Kinds
        /\ v \notin {"unrouted", "stopped"} => ~a1
        /\ v = "moved" => a2
        /\ v \notin {"unrouted", "stopped", "moved"} => ~a2
        /\ v \notin {"unrouted", "stopped", "moved", "stranded", "notFound"} => ~a4
        /\ v = "fold" <=> (v \notin {"unrouted", "stopped", "moved", "stranded", "notFound"} /\ a5)
        /\ v \in {"unauthorized", "login"} => c
        /\ v \in {"asset", "section", "origin"} => ~c
        /\ v = "asset" => a8
        /\ v = "section" => a9
    <2>1. v = rules[k].kind
      BY <1>1, <1>3
    <2>2. /\ rules[2].when = a1 /\ rules[3].when = a2 /\ rules[5].when = a4 /\ rules[6].when = a5
          /\ rules[7].when = a6 /\ rules[8].when = c /\ rules[10].when = a8 /\ rules[11].when = a9
      BY DEF Rule
    <2>3. /\ rules[1].kind = "unrouted" /\ rules[2].kind = "stopped" /\ rules[3].kind = "moved"
          /\ rules[4].kind = "stranded" /\ rules[5].kind = "notFound" /\ rules[6].kind = "fold"
          /\ rules[7].kind = "unauthorized" /\ rules[8].kind = "login" /\ rules[9].kind = "unrouted"
          /\ rules[10].kind = "asset" /\ rules[11].kind = "section" /\ rules[12].kind = "origin"
      BY DEF Rule
    <2> HIDE DEF rules
    <2>4. \A j \in {2, 3, 5, 6, 8} : j < k => ~rules[j].when
      BY <1>3
    <2>5. k \in {1, 2, 3, 4, 5, 6, 7, 8, 9, 10, 11, 12}
      BY <1>3
    <2>6. /\ 2 < k => ~a1
          /\ 3 < k => ~a2
          /\ 5 < k => ~a4
          /\ 6 < k => ~a5
          /\ 8 < k => ~c
      BY <2>2, <2>4
    <2>7. /\ k = 3 => a2
          /\ k = 6 => a5
          /\ k = 7 => a6
          /\ k = 8 => c
          /\ k = 10 => a8
          /\ k = 11 => a9
      BY <1>3, <2>2
    <2> QED
      BY <2>1, <2>3, <2>5, <2>6, <2>7 DEF Kinds, a6
  <1> QED
    BY <1>4 DEF a1, a2, a4, a5, a8, a9, c

-----------------------------------------------------------------------------
(* Situations and tabs.                                                    *)

Sensible(s) ==
    /\ s.who \in [Tabs -> [name: People, lang: Languages, host: Hosts]]
    /\ DOMAIN s.entry = Hosts /\ \A host \in Hosts : Written(s.entry[host])
    /\ \A host \in Hosts : s.entry[host].r # None => s.entry[s.entry[host].r].r = None
    /\ s.closed \in BOOLEAN /\ s.own \in {None, "path", "address"}
    /\ \A t \in Tabs : \A uri \in s.wants[t] : Asked(uri)
    /\ \A c \in s.jars : c \in Jar /\ c.id <= IdLife

\* The situation of a visit is one of those assumed.
LEMMA SituationSensible ==
  ASSUME visit \in DOMAIN Visits
  PROVE  Sensible(Situation)
  BY VisitAssumption DEF Sensible, Situation

\* What a tab takes along is in order.
Carried(b) ==
    /\ b.host \in Hosts /\ b.wanted \in Path /\ b.hops \in 0..MaxRedirects
    /\ b.beaten \in BOOLEAN /\ b.spurned \in BOOLEAN /\ b.known \in BOOLEAN

\* What a new tab is made of has its type.
LEMMA NothingTyped ==
  /\ Get(Root) \in Request /\ NoCookie \in Jar /\ Nowhere \in Path /\ Nowhere \in Places
  /\ Form(None, FALSE, None) \in Forms /\ "away" \in Stages
  /\ 0 \in 0..MaxRedirects + 1
  <1>1. MaxRedirects \in Nat
    BY VisitAssumption
  <1> QED
    BY <1>1, Names DEF Get, Ask, Request, NoCookie, Jar, Path, Form, Places, Forms, Stages

\* So has a new tab.
LEMMA NewTabTyped ==
  ASSUME NEW host \in Hosts
  PROVE  NewTab(host) \in Tab
  <1> DEFINE q == Get(Root)
             f == Form(None, FALSE, None)
  <1>1. /\ q \in Request /\ f \in Forms /\ NoCookie \in Jar /\ Nowhere \in Seq(Tokens)
        /\ Nowhere \in Places /\ Root \in Seq(Tokens) /\ "away" \in Stages /\ 0 \in 0..MaxRedirects + 1
    BY NothingTyped, Names DEF Path
  <1>2. NewTab(host) =
          [pc |-> "away", host |-> host, ask |-> q, sent |-> NoCookie,
           field |-> Nowhere, form |-> f, place |-> Nowhere, wanted |-> Root,
           hops |-> 0, again |-> FALSE, beaten |-> FALSE, failed |-> FALSE, lagged |-> FALSE,
           spurned |-> FALSE, known |-> FALSE, forced |-> FALSE, shownAt |-> 0]
    BY DEF NewTab
  <1> HIDE DEF q, f
  <1> QED
    BY <1>1, <1>2 DEF Tab

\* A new tab, with what it takes along from b.
LEMMA AnewIs ==
  ASSUME NEW b, Carried(b), NEW x, x = Anew(b)
  PROVE  /\ x \in Tab
         /\ x.host = b.host /\ x.wanted = b.wanted /\ x.hops = b.hops /\ x.beaten = b.beaten
         /\ x.spurned = b.spurned /\ x.known = b.known
         /\ x.pc = "away" /\ x.ask = Get(Root) /\ x.sent = NoCookie /\ x.field = Nowhere
         /\ ~x.again /\ ~x.failed /\ ~x.lagged /\ ~x.forced /\ x.shownAt = 0
  <1> DEFINE n == NewTab(b.host)
  <1>1. /\ n \in Tab
        /\ n.pc = "away" /\ n.ask = Get(Root) /\ n.sent = NoCookie /\ n.host = b.host /\ n.field = Nowhere
        /\ ~n.again /\ ~n.failed /\ ~n.lagged /\ ~n.forced /\ n.shownAt = 0
    BY NewTabTyped DEF Carried, NewTab
  <1>2. x = [n EXCEPT !.wanted = b.wanted, !.hops = b.hops, !.beaten = b.beaten,
                      !.spurned = b.spurned, !.known = b.known]
    BY DEF Anew
  <1>3. b.hops \in 0..MaxRedirects + 1
    BY VisitAssumption DEF Carried
  <1> HIDE DEF n
  <1>4. x \in Tab
    BY <1>1, <1>2, <1>3 DEF Carried, Tab, Path
  <1>5. /\ x.wanted = b.wanted /\ x.hops = b.hops /\ x.beaten = b.beaten
        /\ x.spurned = b.spurned /\ x.known = b.known
    BY <1>1, <1>2 DEF Tab
  <1>6. /\ x.pc = n.pc /\ x.ask = n.ask /\ x.sent = n.sent /\ x.host = n.host /\ x.field = n.field
        /\ x.again = n.again /\ x.failed = n.failed /\ x.lagged = n.lagged /\ x.forced = n.forced
        /\ x.shownAt = n.shownAt
    BY <1>1, <1>2 DEF Tab
  <1> QED
    BY <1>1, <1>4, <1>5, <1>6

\* A redirected tab keeps what Anew keeps, and is one redirect further.
LEMMA RedirectedIs ==
  ASSUME NEW b, Carried(b), NEW q \in Request, NEW x, x = Redirected(b, q)
  PROVE  /\ x \in Tab
         /\ x.pc = IF b.hops < MaxRedirects THEN "going" ELSE "gaveUp"
         /\ x.ask = q /\ x.hops = b.hops + 1 /\ x.sent = NoCookie
         /\ x.host = b.host /\ x.wanted = b.wanted /\ x.beaten = b.beaten /\ x.known = b.known
         /\ x.spurned = b.spurned
         /\ ~x.again /\ ~x.forced /\ x.shownAt = 0
  <1> DEFINE a == Anew(b)
             pc == IF b.hops < MaxRedirects THEN "going" ELSE "gaveUp"
             h == a.hops + 1
  <1>1. x = [a EXCEPT !.pc = pc, !.ask = q, !.hops = h]
    BY DEF Redirected
  <1>2. /\ a \in Tab /\ a.hops = b.hops /\ a.host = b.host /\ a.wanted = b.wanted
        /\ a.beaten = b.beaten /\ a.known = b.known /\ a.spurned = b.spurned
        /\ ~a.again /\ ~a.forced /\ a.shownAt = 0 /\ a.sent = NoCookie
    BY AnewIs
  <1>3. h \in 0..MaxRedirects + 1 /\ h = b.hops + 1
    BY <1>2, VisitAssumption DEF Carried
  <1> HIDE DEF a, h
  <1>4. pc \in Stages
    BY DEF Stages
  <1> HIDE DEF pc
  <1>5. x \in Tab
    BY <1>1, <1>2, <1>3, <1>4 DEF Tab
  <1>6. x.pc = pc /\ x.ask = q /\ x.hops = h
    BY <1>1, <1>2 DEF Tab
  <1>7. /\ x.sent = a.sent /\ x.host = a.host /\ x.wanted = a.wanted /\ x.beaten = a.beaten
        /\ x.known = a.known /\ x.spurned = a.spurned /\ x.again = a.again /\ x.forced = a.forced
        /\ x.shownAt = a.shownAt
    BY <1>1, <1>2 DEF Tab
  <1> QED
    BY <1>2, <1>3, <1>5, <1>6, <1>7 DEF pc

\* A page of the sign-in and the return_url in it.
LEMMA AtIs ==
  ASSUME NEW b, Carried(b), NEW pc \in Stages, NEW to \in Path, NEW x, x = At(b, pc, to)
  PROVE  /\ x \in Tab
         /\ x.pc = pc /\ x.field = to
         /\ x.host = b.host /\ x.wanted = b.wanted /\ x.hops = b.hops /\ x.beaten = b.beaten
         /\ x.known = b.known /\ x.spurned = b.spurned /\ ~x.again /\ ~x.forced /\ x.shownAt = 0
  <1> DEFINE a == Anew(b)
  <1>1. x = [a EXCEPT !.pc = pc, !.field = to]
    BY DEF At
  <1>2. /\ a \in Tab /\ a.hops = b.hops /\ a.host = b.host /\ a.wanted = b.wanted
        /\ a.beaten = b.beaten /\ a.known = b.known /\ a.spurned = b.spurned /\ ~a.again /\ ~a.forced /\ a.shownAt = 0
    BY AnewIs
  <1> HIDE DEF a
  <1>3. x \in Tab
    BY <1>1, <1>2 DEF Tab, Path
  <1>4. x.pc = pc /\ x.field = to
    BY <1>1, <1>2 DEF Tab
  <1>5. /\ x.hops = a.hops /\ x.host = a.host /\ x.wanted = a.wanted /\ x.beaten = a.beaten
        /\ x.known = a.known /\ x.spurned = a.spurned /\ x.again = a.again /\ x.forced = a.forced /\ x.shownAt = a.shownAt
    BY <1>1, <1>2 DEF Tab
  <1> QED
    BY <1>2, <1>3, <1>4, <1>5

\* A login page: its form, the page to return to, and whether it was forced.
LEMMA ShownIs ==
  ASSUME NEW b, Carried(b), clock \in Nat, NEW form \in Forms, b.ask \in Request, b.sent \in Jar,
         b.failed \in BOOLEAN, NEW x, x = Shown(b, form)
  PROVE  /\ x \in Tab
         /\ x.pc = "login" /\ x.form = form /\ x.shownAt = clock
         /\ x.field = IF b.ask.ret # Nowhere THEN b.ask.ret ELSE b.ask.frag
         /\ x.forced = (b.sent.rt = "live" /\ ~b.failed)
         /\ x.host = b.host /\ x.wanted = b.wanted /\ x.hops = b.hops /\ x.beaten = b.beaten
         /\ x.known = b.known /\ x.spurned = b.spurned /\ ~x.again /\ x.sent = NoCookie
  <1> DEFINE a == Anew(b)
             to == IF b.ask.ret # Nowhere THEN b.ask.ret ELSE b.ask.frag
             forced == b.sent.rt = "live" /\ ~b.failed
  <1>1. x = [a EXCEPT !.pc = "login", !.form = form, !.shownAt = clock, !.field = to, !.forced = forced]
    BY DEF Shown
  <1>2. /\ a \in Tab /\ a.hops = b.hops /\ a.host = b.host /\ a.wanted = b.wanted
        /\ a.beaten = b.beaten /\ a.known = b.known /\ a.spurned = b.spurned /\ ~a.again /\ a.sent = NoCookie
    BY AnewIs
  <1>3. to \in Path /\ forced \in BOOLEAN /\ "login" \in Stages
    BY DEF Request, Path, Jar, Stages
  <1> HIDE DEF a, to, forced
  <1>4. x \in Tab
    BY <1>1, <1>2, <1>3 DEF Tab, Path
  <1>5. x.pc = "login" /\ x.form = form /\ x.shownAt = clock /\ x.field = to /\ x.forced = forced
    BY <1>1, <1>2 DEF Tab
  <1>6. /\ x.hops = a.hops /\ x.host = a.host /\ x.wanted = a.wanted /\ x.beaten = a.beaten
        /\ x.known = a.known /\ x.spurned = a.spurned /\ x.again = a.again /\ x.sent = a.sent
    BY <1>1, <1>2 DEF Tab
  <1> QED
    BY <1>2, <1>4, <1>5, <1>6 DEF to, forced

\* The part of ShownIs that needs nothing of the form.
LEMMA ShownForm ==
  ASSUME NEW b, Carried(b), NEW form, NEW x, x = Shown(b, form)
  PROVE  /\ x.pc = "login" /\ x.form = form /\ x.shownAt = clock /\ x.host = b.host
         /\ x.hops = b.hops /\ x.spurned = b.spurned
         /\ x.field = IF b.ask.ret # Nowhere THEN b.ask.ret ELSE b.ask.frag
  <1> DEFINE a == Anew(b)
             to == IF b.ask.ret # Nowhere THEN b.ask.ret ELSE b.ask.frag
             forced == b.sent.rt = "live" /\ ~b.failed
  <1>1. x = [a EXCEPT !.pc = "login", !.form = form, !.shownAt = clock, !.field = to, !.forced = forced]
    BY DEF Shown
  <1>2. a \in Tab /\ a.host = b.host /\ a.hops = b.hops /\ a.spurned = b.spurned
    BY AnewIs
  <1> HIDE DEF a, to, forced
  <1>3. x.pc = "login" /\ x.form = form /\ x.shownAt = clock /\ x.field = to
    BY <1>1, <1>2 DEF Tab
  <1>4. x.host = b.host /\ x.hops = b.hops /\ x.spurned = b.spurned
    BY <1>1, <1>2 DEF Tab
  <1> QED
    BY <1>3, <1>4 DEF to

\* And of the site's own page.
LEMMA LandedForm ==
  ASSUME NEW b, Carried(b), NEW place, NEW x, x = Landed(b, place)
  PROVE  x.pc = "page" /\ x.hops = b.hops /\ x.spurned = b.spurned
  <1> DEFINE a == Anew(b)
             q == Get(b.ask.uri)
  <1>1. x = [a EXCEPT !.pc = "page", !.ask = q, !.place = place]
    BY DEF Landed
  <1>2. a \in Tab /\ a.hops = b.hops /\ a.spurned = b.spurned
    BY AnewIs
  <1> HIDE DEF a, q
  <1> QED
    BY <1>1, <1>2 DEF Tab

\* A page of the site and the place it came from.
LEMMA LandedIs ==
  ASSUME NEW b, Carried(b), b.ask \in Request, NEW place \in Places, NEW x, x = Landed(b, place)
  PROVE  /\ x \in Tab
         /\ x.pc = "page" /\ x.place = place /\ x.ask.uri = b.ask.uri
         /\ x.host = b.host /\ x.wanted = b.wanted /\ x.hops = b.hops /\ x.beaten = b.beaten
         /\ x.known = b.known /\ x.spurned = b.spurned /\ ~x.again /\ ~x.forced /\ x.shownAt = 0
  <1> DEFINE a == Anew(b)
             q == Get(b.ask.uri)
  <1>1. x = [a EXCEPT !.pc = "page", !.ask = q, !.place = place]
    BY DEF Landed
  <1>2. /\ a \in Tab /\ a.hops = b.hops /\ a.host = b.host /\ a.wanted = b.wanted
        /\ a.beaten = b.beaten /\ a.known = b.known /\ a.spurned = b.spurned /\ ~a.again /\ ~a.forced /\ a.shownAt = 0
    BY AnewIs
  <1>3. q \in Request /\ q.uri = b.ask.uri /\ "page" \in Stages
    BY Names DEF Get, Ask, Request, Stages, Path
  <1> HIDE DEF a, q
  <1>4. x \in Tab
    BY <1>1, <1>2, <1>3 DEF Tab
  <1>5. x.pc = "page" /\ x.ask = q /\ x.place = place
    BY <1>1, <1>2 DEF Tab
  <1>6. /\ x.hops = a.hops /\ x.host = a.host /\ x.wanted = a.wanted /\ x.beaten = a.beaten
        /\ x.known = a.known /\ x.spurned = a.spurned /\ x.again = a.again /\ x.forced = a.forced /\ x.shownAt = a.shownAt
    BY <1>1, <1>2 DEF Tab
  <1> QED
    BY <1>2, <1>3, <1>4, <1>5, <1>6

\* The tab at the edge: its request and cookies, the rest as before.
LEMMA AskingIs ==
  ASSUME NEW b, Carried(b), NEW q \in Request, NEW c \in Jar, NEW x, x = Asking(b, q, c),
         shut \in [edge: BOOLEAN, row: BOOLEAN]
  PROVE  /\ x \in Tab /\ Carried(x)
         /\ x.ask = q /\ x.sent = c /\ x.lagged = ~InStep
         /\ x.known = (b.known \/ ~Anonymous(c)) /\ x.spurned = (b.spurned \/ ~c.good)
         /\ x.host = b.host /\ x.wanted = b.wanted /\ x.hops = b.hops /\ x.beaten = b.beaten
         /\ ~x.again /\ ~x.forced /\ ~x.failed /\ x.shownAt = 0
  <1> DEFINE a == Anew(b)
             sp == a.spurned \/ ~c.good
             kn == a.known \/ ~Anonymous(c)
             lag == ~InStep
  <1>1. x = [a EXCEPT !.ask = q, !.sent = c, !.lagged = lag, !.spurned = sp, !.known = kn]
    BY DEF Asking
  <1>2. /\ a \in Tab /\ a.hops = b.hops /\ a.host = b.host /\ a.wanted = b.wanted
        /\ a.beaten = b.beaten /\ a.known = b.known /\ a.spurned = b.spurned
        /\ ~a.again /\ ~a.forced /\ ~a.failed /\ a.shownAt = 0
    BY AnewIs
  <1>3. /\ sp \in BOOLEAN /\ kn \in BOOLEAN /\ lag \in BOOLEAN
        /\ sp = (b.spurned \/ ~c.good) /\ kn = (b.known \/ ~Anonymous(c))
    BY <1>2 DEF InStep, Anonymous, Carried
  <1> HIDE DEF a, sp, kn, lag
  <1>4. x \in Tab
    <2> DEFINE y == [a EXCEPT !.ask = q, !.sent = c, !.lagged = lag]
    <2>1. y \in Tab
      BY <1>2, <1>3 DEF Tab
    <2>2. x = [y EXCEPT !.spurned = sp, !.known = kn]
      BY <1>1
    <2> HIDE DEF y
    <2> QED
      BY <1>3, <2>1, <2>2 DEF Tab
  <1>5. x.ask = q /\ x.sent = c /\ x.lagged = lag /\ x.spurned = sp /\ x.known = kn
    BY <1>1, <1>2 DEF Tab
  <1>6. /\ x.hops = a.hops /\ x.host = a.host /\ x.wanted = a.wanted /\ x.beaten = a.beaten
        /\ x.again = a.again /\ x.forced = a.forced /\ x.failed = a.failed /\ x.shownAt = a.shownAt
    BY <1>1, <1>2 DEF Tab
  <1>7. Carried(x)
    BY <1>2, <1>3, <1>5, <1>6 DEF Carried
  <1> QED
    BY <1>2, <1>3, <1>4, <1>5, <1>6, <1>7 DEF lag

-----------------------------------------------------------------------------
(* Where the content of a host is.                                         *)

\* The longest section there is, among those that a path is in.
LEMMA SectionIs ==
  ASSUME NEW e, Written(e), NEW uri \in Path, Sections(e, uri) # {},
         NEW pf, pf = Section(e, uri)
  PROVE  /\ pf \in e.p /\ pf \in Path /\ Relative(pf) /\ (pf = Root \/ Under(uri, pf))
         /\ \A o \in e.p : Under(uri, o) => Len(o) <= Len(pf)
  <1> DEFINE S == Sections(e, uri)
             far == Len(uri) + 1
             T == {far - Len(o) : o \in S}
  <1>1. Len(uri) \in Nat /\ S \subseteq Path /\ \A o \in S : Relative(o)
    BY DEF Written, Sections, Path
  <1>2. \A o \in S : Len(o) \in Nat /\ Len(o) <= far
    <2>1. ASSUME NEW o \in S
          PROVE  Len(o) \in Nat /\ Len(o) <= far
      <3>1. o \in Path /\ (o = Root \/ Under(uri, o))
        BY <1>1 DEF Sections
      <3>2. Len(Root) = 1
        BY DEF Root
      <3>3. Under(uri, o) => Len(o) <= Len(uri)
        BY <3>1, UnderIs
      <3>4. Len(o) \in Nat
        BY <3>1 DEF Path
      <3>5. Len(o) = 1 \/ Len(o) <= Len(uri)
        BY <3>1, <3>2, <3>3
      <3>6. \A m, n \in Nat : n = 1 \/ n <= m => n <= m + 1
        OBVIOUS
      <3> HIDE DEF S
      <3> QED
        BY <1>1, <3>4, <3>5, <3>6
    <2> QED
      BY <2>1
  <1>3. T \in SUBSET Nat /\ T # {}
    BY <1>1, <1>2
  <1>4. PICK x \in T : \A y \in T : x <= y
    BY <1>3, Least
  <1>5. PICK long \in S : x = far - Len(long)
    BY <1>4
  <1> HIDE DEF S
  <1>6. \A o \in S : Len(o) <= Len(long)
    <2>1. ASSUME NEW o \in S
          PROVE  Len(o) <= Len(long)
      <3>1. far - Len(long) <= far - Len(o)
        BY <1>4, <1>5
      <3> QED
        BY <1>1, <1>2, <3>1
    <2> QED
      BY <2>1
  <1>7. pf \in S /\ \A o \in S : Len(o) <= Len(pf)
    BY <1>6 DEF Section, S
  <1> QED
    BY <1>1, <1>7 DEF S, Sections

\* The index of a page begins like the page, and goes on with a slash.
LEMMA IndexIs ==
  ASSUME NEW uri \in Path
  PROVE  /\ Index(uri) \in Path
         /\ uri # Root => /\ Len(Index(uri)) = Len(uri) + 2 /\ Index(uri)[Len(uri) + 1] = "/"
                          /\ \A i \in 1..Len(uri) : Index(uri)[i] = uri[i]
  <1> DEFINE page == IF uri = Root THEN <<>> ELSE uri
             end == <<"/", "index">>
  <1>1. end \in Seq(Tokens) /\ Len(end) = 2 /\ end[1] = "/"
    BY TokensAssumption
  <1>2. page \in Seq(Tokens) /\ Len(page) \in Nat
    BY DEF Path
  <1>3. Index(uri) = page \o end
    BY DEF Index
  <1> HIDE DEF end, page
  <1>4. /\ page \o end \in Seq(Tokens) /\ Len(page \o end) = Len(page) + 2
        /\ \A i \in 1..Len(page) + 2 :
             (page \o end)[i] = IF i <= Len(page) THEN page[i] ELSE end[i - Len(page)]
    <2>1. /\ page \o end \in Seq(Tokens) /\ Len(page \o end) = Len(page) + Len(end)
          /\ \A i \in 1..Len(page) + Len(end) :
               (page \o end)[i] = IF i <= Len(page) THEN page[i] ELSE end[i - Len(page)]
      BY <1>1, <1>2, ConcatProperties
    <2> QED
      BY <1>1, <2>1
  <1>5. /\ (page \o end)[Len(page) + 1] = "/"
        /\ \A i \in 1..Len(page) : (page \o end)[i] = page[i]
    BY <1>1, <1>2, <1>4
  <1> QED
    BY <1>3, <1>4, <1>5 DEF page, Path

\* A path without its last token.
LEMMA FrontIs ==
  ASSUME NEW uri \in Path, Len(uri) > 1
  PROVE  /\ Front(uri) \in Path /\ Len(Front(uri)) = Len(uri) - 1
         /\ \A i \in 1..Len(uri) - 1 : Front(uri)[i] = uri[i]
  <1>1. Len(uri) - 1 \in 0..Len(uri) /\ Len(uri) \in Nat
    BY DEF Path
  <1>2. Front(uri) = SubSeq(uri, 1, Len(uri) - 1)
    BY DEF Front
  <1> QED
    BY <1>1, <1>2, SubSeqProperties DEF Path

\* What is served of a section has the path of the longest section.
LEMMA StaticFileIs ==
  ASSUME NEW e, Written(e), NEW uri \in Path, Sections(e, uri) # {},
         NEW file, file = StaticFile(e, uri)
  PROVE  /\ file \in Path
         /\ \A pf \in e.p : pf # Root /\ Under(uri, pf) => IsPrefix(pf, file)
  <1> DEFINE page == IF Len(uri) > 1 /\ Last(uri) = "/" THEN Front(uri) ELSE uri
  <1>1. Len(uri) \in Nat /\ page \in Path
    BY FrontIs DEF Path
  <1> HIDE DEF page
  <1>2. ASSUME NEW pf \in e.p, pf # Root, Under(uri, pf)
        PROVE  /\ pf \in Path /\ Len(pf) <= Len(uri) /\ Len(pf) \in Nat
               /\ \A i \in 1..Len(pf) : uri[i] = pf[i]
               /\ Len(pf) > 1
    <2>1. pf \in Path /\ Relative(pf) /\ Len(pf) \in Nat
      BY DEF Written, Path
    <2>2. Len(pf) <= Len(uri) /\ \A i \in 1..Len(pf) : uri[i] = pf[i]
      BY <1>1, <1>2, <2>1, UnderIs
    <2>3. Len(pf) >= 1 /\ pf[1] = "/"
      BY <2>1 DEF Relative, Nowhere, Path
    <2>4. Len(pf) # 1
      <3>1. ASSUME Len(pf) = 1
            PROVE  pf = Root
        <4>1. Root \in Seq(Tokens) /\ Len(Root) = 1 /\ Root[1] = "/"
          BY Names DEF Root, Path
        <4>2. \A i \in 1..Len(pf) : pf[i] = Root[i]
          BY <2>3, <3>1, <4>1
        <4> QED
          BY <2>1, <3>1, <4>1, <4>2, SeqEqual DEF Path
      <3> QED
        BY <1>2, <3>1
    <2>5. Len(pf) > 1
      <3>1. \A n \in Nat : n >= 1 /\ n # 1 => n > 1
        OBVIOUS
      <3> QED
        BY <2>1, <2>3, <2>4, <3>1
    <2> QED
      BY <2>1, <2>2, <2>5
  <1>3. Len(Root) = 1
    BY DEF Root
  <1>4. CASE IsFile(uri)
    <2>1. file = uri
      BY <1>4 DEF StaticFile
    <2> QED
      BY <1>2, <2>1, PrefixIs
  <1>5. CASE ~IsFile(uri) /\ page \in e.routes
    <2>1. file = Index(page)
      BY <1>5 DEF StaticFile, page
    <2>2. file \in Path /\ Len(file) \in Nat
      BY <1>1, <2>1, IndexIs DEF Path
    <2>3. ASSUME NEW pf \in e.p, pf # Root, Under(uri, pf)
          PROVE  IsPrefix(pf, file)
      <3>1. /\ pf \in Path /\ Len(pf) <= Len(uri) /\ Len(pf) \in Nat /\ Len(pf) > 1
            /\ \A i \in 1..Len(pf) : uri[i] = pf[i]
        BY <1>2, <2>3
      <3>2. CASE page = uri
        <4>1. page # Root
          BY <1>3, <3>1, <3>2
        <4>2. Len(file) = Len(uri) + 2 /\ \A i \in 1..Len(uri) : file[i] = uri[i]
          BY <1>1, <2>1, <3>2, <4>1, IndexIs
        <4> QED
          BY <2>2, <3>1, <4>2, PrefixIs
      <3>3. CASE page # uri
        <4>1. Len(uri) > 1 /\ uri[Len(uri)] = "/" /\ page = Front(uri)
          BY <3>3 DEF Last, page
        <4>2. /\ Len(page) = Len(uri) - 1
              /\ \A i \in 1..Len(uri) - 1 : page[i] = uri[i]
          BY <4>1, FrontIs
        <4>3. page # Root
          <5>1. ASSUME page = Root
                PROVE  FALSE
            <6>1. Len(uri) = 2 /\ Len(pf) = 2
              <7>1. \A m, n \in Nat : m - 1 = 1 /\ n <= m /\ n > 1 => m = 2 /\ n = 2
                OBVIOUS
              <7> QED
                BY <1>1, <1>3, <3>1, <4>2, <5>1, <7>1
            <6>2. pf[2] = "/"
              BY <3>1, <4>1, <6>1
            <6>3. Relative(pf)
              BY DEF Written
            <6> QED
              BY <6>1, <6>2, <6>3 DEF Relative
          <5> QED
            BY <5>1
        <4>4. /\ Len(file) = Len(uri) + 1 /\ file[Len(uri)] = "/"
              /\ \A i \in 1..Len(uri) - 1 : file[i] = page[i]
          BY <1>1, <2>1, <4>2, <4>3, IndexIs
        <4>5. \A i \in 1..Len(uri) : file[i] = uri[i]
          BY <1>1, <4>1, <4>2, <4>4
        <4>6. Len(pf) <= Len(file)
          BY <2>2, <3>1, <4>1, <4>4
        <4>7. \A i \in 1..Len(pf) : pf[i] = file[i]
          BY <3>1, <4>1, <4>5
        <4> QED
          BY <2>2, <3>1, <4>6, <4>7, PrefixIs
      <3> QED
        BY <3>2, <3>3
    <2> QED
      BY <2>2, <2>3
  <1>6. CASE ~IsFile(uri) /\ page \notin e.routes
    <2> DEFINE sec == Section(e, uri)
    <2>1. file = Index(sec)
      BY <1>6 DEF StaticFile, page
    <2>2. /\ sec \in e.p /\ sec \in Path /\ (sec = Root \/ Under(uri, sec))
          /\ \A o \in e.p : Under(uri, o) => Len(o) <= Len(sec)
      BY SectionIs
    <2> HIDE DEF sec
    <2>3. file \in Path
      BY <2>1, <2>2, IndexIs
    <2>4. ASSUME NEW pf \in e.p, pf # Root, Under(uri, pf)
          PROVE  IsPrefix(pf, file)
      <3>1. /\ pf \in Path /\ Len(pf) <= Len(uri) /\ Len(pf) \in Nat /\ Len(pf) > 1
            /\ \A i \in 1..Len(pf) : uri[i] = pf[i]
        BY <1>2, <2>4
      <3>2. Len(pf) <= Len(sec)
        BY <2>2, <2>4
      <3>3. sec # Root
        <4>1. Len(sec) # 1
          <5>1. Len(sec) \in Nat
            BY <2>2 DEF Path
          <5>2. \A m, n \in Nat : n > 1 /\ n <= m => m # 1
            OBVIOUS
          <5> QED
            BY <3>1, <3>2, <5>1, <5>2
        <4>2. sec = Root => Len(sec) = 1
          BY <1>3
        <4> QED
          BY <4>1, <4>2
      <3>4. \A i \in 1..Len(sec) : uri[i] = sec[i]
        BY <1>2, <2>2, <3>3
      <3>5. Len(file) = Len(sec) + 2 /\ (\A i \in 1..Len(sec) : file[i] = sec[i]) /\ Len(sec) \in Nat
        BY <2>1, <2>2, <3>3, IndexIs DEF Path
      <3>6. \A i \in 1..Len(pf) : pf[i] = file[i]
        BY <3>1, <3>2, <3>4, <3>5
      <3>7. Len(pf) <= Len(file)
        BY <3>1, <3>2, <3>5
      <3> QED
        BY <2>3, <3>1, <3>6, <3>7, PrefixIs
    <2> QED
      BY <2>3, <2>4
  <1> QED
    BY <1>4, <1>5, <1>6

-----------------------------------------------------------------------------
(* Sound tabs: what makes one, whoever it is and whatever the time.        *)

\* A tab that is sent on with a request it may send is sound.
LEMMA RedirectSound ==
  ASSUME NEW s, NEW now \in Nat, NEW closing, NEW keys, NEW anon, NEW t, NEW b,
         Carried(b), Asked(b.wanted), NEW q \in Request, Sendable(s, anon, t, b, q),
         NEW x, x = Redirected(b, q)
  PROVE  x \in Tab /\ TabSound(s, now, closing, keys, anon, t, x)
  <1>1. /\ x \in Tab
        /\ x.pc = IF b.hops < MaxRedirects THEN "going" ELSE "gaveUp"
        /\ x.ask = q /\ x.hops = b.hops + 1
        /\ x.host = b.host /\ x.wanted = b.wanted /\ x.beaten = b.beaten /\ x.known = b.known
        /\ ~x.again /\ ~x.forced /\ x.shownAt = 0
    BY RedirectedIs
  <1>2. b.hops \in Nat /\ MaxRedirects \in Nat
    BY VisitAssumption DEF Carried
  <1>3. x.pc # "gaveUp" => x.hops <= MaxRedirects
    BY <1>1, <1>2
  <1>4. x.pc = "going" => Sendable(s, anon, t, x, x.ask)
    BY <1>1, <1>3 DEF Sendable
  <1>5. x.pc \in {"going", "gaveUp"}
    BY <1>1
  <1>6. OwnPage(s, keys, t, x) /\ Justified(now, x) /\ InItsPlace(s, x)
    BY <1>5 DEF OwnPage, Justified, InItsPlace
  <1>7. x.shownAt <= now
    BY <1>1
  <1> QED
    BY <1>1, <1>3, <1>4, <1>5, <1>6, <1>7 DEF TabSound

\* A page of the sign-in that leads back is sound.
LEMMA AtSound ==
  ASSUME NEW s, NEW now \in Nat, NEW closing, NEW keys, NEW anon, NEW t, NEW b,
         Carried(b), Asked(b.wanted), s.entry[b.host].r = None, b.known \/ Decent(b.wanted),
         NEW pc \in {"code", "assert", "offer", "create", "later"}, NEW to \in Path,
         ~b.beaten /\ pc \in {"code", "assert"} => Returns(s, b.host, b.wanted, to),
         ~b.beaten /\ pc \in {"offer", "create", "later"} => Relative(to) /\ Right(s, b.wanted, to),
         NEW x, x = At(b, pc, to)
  PROVE  x \in Tab /\ TabSound(s, now, closing, keys, anon, t, x)
  <1>1. pc \in Stages
    BY DEF Stages
  <1>2. /\ x \in Tab /\ x.pc = pc /\ x.field = to
        /\ x.host = b.host /\ x.wanted = b.wanted /\ x.hops = b.hops /\ x.beaten = b.beaten
        /\ x.known = b.known /\ ~x.again /\ ~x.forced /\ x.shownAt = 0
    BY <1>1, AtIs
  <1>3. b.hops <= MaxRedirects
    BY VisitAssumption DEF Carried
  <1>4. Inside(s, x)
    BY <1>2 DEF Inside
  <1>5. OwnPage(s, keys, t, x) /\ Justified(now, x) /\ InItsPlace(s, x)
    BY <1>2 DEF OwnPage, Justified, InItsPlace
  <1> QED
    BY <1>2, <1>3, <1>4, <1>5 DEF TabSound

\* A page of the site that was asked for, from its place, is sound.
LEMMA LandedSound ==
  ASSUME NEW s, NEW now \in Nat, NEW closing, NEW keys, NEW anon, NEW t, NEW b,
         Carried(b), Asked(b.wanted), s.entry[b.host].r = None, b.known \/ Decent(b.wanted),
         b.ask \in Request, NEW place \in Places, NEW x, x = Landed(b, place),
         ~b.beaten => Right(s, b.wanted, b.ask.uri), InItsPlace(s, x)
  PROVE  x \in Tab /\ TabSound(s, now, closing, keys, anon, t, x)
  <1>1. /\ x \in Tab /\ x.pc = "page" /\ x.ask.uri = b.ask.uri
        /\ x.host = b.host /\ x.wanted = b.wanted /\ x.hops = b.hops /\ x.beaten = b.beaten
        /\ x.known = b.known /\ ~x.again /\ ~x.forced /\ x.shownAt = 0
    BY LandedIs
  <1>2. b.hops <= MaxRedirects
    BY VisitAssumption DEF Carried
  <1>3. Inside(s, x)
    BY <1>1 DEF Inside
  <1>4. OwnPage(s, keys, t, x) /\ Justified(now, x)
    BY <1>1 DEF OwnPage, Justified
  <1> QED
    BY <1>1, <1>2, <1>3, <1>4 DEF TabSound

\* A login page that is the viewer's own and leads back is sound.
LEMMA ShownSound ==
  ASSUME NEW s, clock \in Nat, NEW closing, NEW keys, NEW anon, NEW t, NEW b,
         Carried(b), Asked(b.wanted), s.entry[b.host].r = None, b.known \/ Decent(b.wanted),
         b.ask \in Request, b.sent \in Jar, b.failed \in BOOLEAN, b.failed \/ b.sent.rt # "live",
         ~b.beaten => Returns(s, b.host, b.wanted, IF b.ask.ret # Nowhere THEN b.ask.ret ELSE b.ask.frag),
         NEW form \in Forms, NEW x, x = Shown(b, form), OwnPage(s, keys, t, x)
  PROVE  x \in Tab /\ TabSound(s, clock, closing, keys, anon, t, x)
  <1>1. /\ x \in Tab /\ x.pc = "login" /\ x.shownAt = clock
        /\ x.field = IF b.ask.ret # Nowhere THEN b.ask.ret ELSE b.ask.frag
        /\ x.forced = (b.sent.rt = "live" /\ ~b.failed)
        /\ x.host = b.host /\ x.wanted = b.wanted /\ x.hops = b.hops /\ x.beaten = b.beaten
        /\ x.known = b.known /\ ~x.again
    BY ShownIs
  <1>2. b.hops <= MaxRedirects
    BY VisitAssumption DEF Carried
  <1>3. Inside(s, x)
    BY <1>1 DEF Inside
  <1>4. Justified(clock, x) /\ InItsPlace(s, x)
    BY <1>1 DEF Justified, InItsPlace
  <1>5. ~x.forced
    BY <1>1
  <1>6. x.shownAt <= clock
    <2>1. x.shownAt = clock
      BY <1>1
    <2> QED
      BY <2>1
  <1> QED
    BY <1>1, <1>2, <1>3, <1>4, <1>5, <1>6 DEF TabSound

\* What a state of the invariant gives every step.
LEMMA StateIs ==
  ASSUME SiteInvariant
  PROVE  /\ visit \in DOMAIN Visits /\ Sensible(Situation) /\ clock \in Nat
         /\ shut \in [edge: BOOLEAN, row: BOOLEAN] /\ passkeys \in [on: BOOLEAN, since: Int]
         /\ passkeys.since <= clock
         /\ \A t \in Tabs, host \in Hosts :
              /\ Box(t, host) = <<Situation.who[t].name, host>>
              /\ Box(t, host) \in People \X Hosts /\ jar[Box(t, host)] \in Jar
         /\ \A t \in Tabs :
              /\ Who(t).name \in People /\ Who(t).lang \in Languages /\ Who(t).host \in Hosts
              /\ Who(t) = Situation.who[t] /\ tab[t] \in Tab
  <1>1. visit \in DOMAIN Visits /\ Sensible(Situation)
    BY SituationSensible DEF SiteInvariant, TypeOK
  <1>2. Situation.who \in [Tabs -> [name: People, lang: Languages, host: Hosts]]
    BY <1>1 DEF Sensible
  <1>3. jar \in [People \X Hosts -> Jar] /\ tab \in [Tabs -> Tab]
    BY DEF SiteInvariant, TypeOK
  <1>4. /\ clock \in Nat /\ shut \in [edge: BOOLEAN, row: BOOLEAN]
        /\ passkeys \in [on: BOOLEAN, since: Int] /\ passkeys.since <= clock
    BY DEF SiteInvariant, TypeOK
  <1> QED
    BY <1>1, <1>2, <1>3, <1>4 DEF Who, Box

\* The value of a host as the edge has it: Situation's but for the closing.
LEMMA EntryIs ==
  ASSUME SiteInvariant, NEW host \in Hosts, NEW e, e = EntryOf(host),
         NEW o, o = Situation.entry[host]
  PROVE  /\ Written(e) /\ e.auth = shut.edge
         /\ e.x = o.x /\ e.r = o.r /\ e.g = o.g /\ e.pub = o.pub /\ e.stg = o.stg
         /\ e.p = o.p /\ e.routes = o.routes
         /\ e.r # None => e.r \in Hosts
         /\ e.g = None \/ e.g \in Regions
         /\ e.stg \in BOOLEAN
  <1>1. Written(o) /\ shut.edge \in BOOLEAN
    BY StateIs DEF Sensible
  <1>2. e = [o EXCEPT !.auth = shut.edge]
    BY DEF EntryOf
  <1>3. /\ e \in [x: Nat, r: Hosts \cup {None}, g: Regions \cup {None}, auth: BOOLEAN,
                  pub: SUBSET Seq(Tokens), stg: BOOLEAN, named: BOOLEAN, p: SUBSET Seq(Tokens), routes: SUBSET Seq(Tokens)]
        /\ e.auth = shut.edge
        /\ e.x = o.x /\ e.r = o.r /\ e.g = o.g /\ e.pub = o.pub /\ e.stg = o.stg
        /\ e.p = o.p /\ e.routes = o.routes
    BY <1>1, <1>2 DEF Written
  <1>4. Written(e)
    BY <1>1, <1>3 DEF Written
  <1> QED
    BY <1>3, <1>4

-----------------------------------------------------------------------------
(* What the edge makes of a request, verdict by verdict.                   *)

\* Tab b0 of t is about to send q.
Starts(t, b0, q) ==
    /\ SiteInvariant /\ t \in Tabs
    /\ Carried(b0) /\ Asked(b0.wanted) /\ q \in Request
    /\ Sendable(Situation, Anonymous(jar[Box(t, b0.host)]), t, b0, q)

Hits(t, b, q) == {page \in cache : q.get /\ page.key = CacheKeyOf(t, b)}

\* The edge sees it as b, of a host with the value e, and decides v.
AtEdge(t, b0, q, c, b, e, v) ==
    /\ Starts(t, b0, q)
    /\ c = jar[Box(t, b0.host)] /\ b = Asking(b0, q, c) /\ e = EntryOf(b0.host)
    /\ v = Verdict(e, q, Anonymous(c))

\* Whoever starts is, at the edge, as they were, with the cookies of the host.
LEMMA StartIs ==
  ASSUME NEW t, NEW b0, NEW q, NEW c, NEW b, NEW e, NEW v, AtEdge(t, b0, q, c, b, e, v)
  PROVE  /\ c \in Jar /\ b \in Tab /\ Carried(b) /\ Asked(b.wanted)
         /\ Sendable(Situation, Anonymous(c), t, b, q)
         /\ b.ask = q /\ b.sent = c /\ b.host = b0.host /\ b.lagged = ~InStep
         /\ ~b.again /\ ~b.forced /\ ~b.failed /\ b.shownAt = 0
         /\ b.known \/ Anonymous(c)
         /\ Anonymous(c) \in BOOLEAN
         /\ t \in Tabs /\ b.host \in Hosts /\ q \in Request /\ SiteInvariant
         /\ c = jar[Box(t, b.host)] /\ e = EntryOf(b.host) /\ v = Verdict(e, q, Anonymous(c))
  <1>0. /\ Starts(t, b0, q) /\ c = jar[Box(t, b0.host)] /\ b = Asking(b0, q, c)
        /\ e = EntryOf(b0.host) /\ v = Verdict(e, q, Anonymous(c))
    BY DEF AtEdge
  <1>1. /\ SiteInvariant /\ t \in Tabs /\ Carried(b0) /\ Asked(b0.wanted) /\ q \in Request
        /\ Sendable(Situation, Anonymous(c), t, b0, q) /\ b0.host \in Hosts
    BY <1>0 DEF Starts, Carried
  <1>2. c \in Jar /\ shut \in [edge: BOOLEAN, row: BOOLEAN]
    BY <1>0, <1>1, StateIs
  <1>3. /\ b \in Tab /\ Carried(b)
        /\ b.ask = q /\ b.sent = c /\ b.lagged = ~InStep
        /\ b.known = (b0.known \/ ~Anonymous(c))
        /\ b.host = b0.host /\ b.wanted = b0.wanted /\ b.hops = b0.hops /\ b.beaten = b0.beaten
        /\ ~b.again /\ ~b.forced /\ ~b.failed /\ b.shownAt = 0
    BY <1>0, <1>1, <1>2, AskingIs
  <1>4. /\ q.get \/ q.uri \in {SendOtp, Verify}
        /\ q.mail \in {None, Situation.who[t].name}
        /\ b0.hops <= MaxRedirects
        /\ ~b0.beaten => Leads(Situation, b0.host, b0.wanted, Anonymous(c), q)
        /\ Under(q.uri, AuthTree) => Situation.entry[b0.host].r = None
        /\ ~b0.known => Decent(b0.wanted) \/ q.uri = b0.wanted
    BY <1>1 DEF Sendable
  <1>5. b0.known => b.known
    BY <1>3
  <1>6. Sendable(Situation, Anonymous(c), t, b, q)
    BY <1>3, <1>4, <1>5 DEF Sendable
  <1>7. b.known \/ Anonymous(c)
    BY <1>3
  <1>8. Anonymous(c) \in BOOLEAN
    BY DEF Anonymous
  <1> QED
    BY <1>0, <1>1, <1>2, <1>3, <1>6, <1>7, <1>8

\* EntryIs and VerdictIs, at the edge.
LEMMA EdgeIs ==
  ASSUME NEW t, NEW b0, NEW q, NEW c, NEW b, NEW e, NEW v, AtEdge(t, b0, q, c, b, e, v),
         NEW o, o = Situation.entry[b.host]
  PROVE  /\ Written(e) /\ e.auth = shut.edge
         /\ e.x = o.x /\ e.r = o.r /\ e.g = o.g /\ e.pub = o.pub /\ e.stg = o.stg
         /\ e.p = o.p /\ e.routes = o.routes
         /\ e.r # None => e.r \in Hosts
         /\ e.g = None \/ e.g \in Regions
         /\ e.stg \in BOOLEAN
         /\ v \in Kinds
         /\ v \notin {"unrouted", "stopped"} => e.x = 0
         /\ v = "moved" => e.r # None
         /\ v \notin {"unrouted", "stopped", "moved"} => e.r = None
         /\ v \notin {"unrouted", "stopped", "moved", "stranded", "notFound"} => ~(Anonymous(c) /\ Scanned(q.uri))
         /\ v = "fold" <=> (v \notin {"unrouted", "stopped", "moved", "stranded", "notFound"} /\ Folds(q, Anonymous(c)))
         /\ v \in {"unauthorized", "login"} => Closed(e, q, Anonymous(c))
         /\ v \in {"asset", "section", "origin"} => ~Closed(e, q, Anonymous(c))
         /\ v = "asset" => Under(q.uri, Static)
         /\ v = "section" => InSection(e, q.uri)
  <1>1. /\ SiteInvariant /\ b.host \in Hosts /\ e = EntryOf(b.host) /\ v = Verdict(e, q, Anonymous(c))
    BY StartIs
  <1> DEFINE anon == Anonymous(c)
  <1>2. anon \in BOOLEAN /\ v = Verdict(e, q, anon)
    BY <1>1 DEF Anonymous
  <1>3. /\ Written(e) /\ e.auth = shut.edge
        /\ e.x = o.x /\ e.r = o.r /\ e.g = o.g /\ e.pub = o.pub /\ e.stg = o.stg
        /\ e.p = o.p /\ e.routes = o.routes
        /\ e.r # None => e.r \in Hosts
        /\ e.g = None \/ e.g \in Regions
        /\ e.stg \in BOOLEAN
    BY <1>1, EntryIs
  <1> HIDE DEF anon
  <1>4. /\ v \in Kinds
        /\ v \notin {"unrouted", "stopped"} => e.x = 0
        /\ v = "moved" => e.r # None
        /\ v \notin {"unrouted", "stopped", "moved"} => e.r = None
        /\ v \notin {"unrouted", "stopped", "moved", "stranded", "notFound"} => ~(anon /\ Scanned(q.uri))
        /\ v = "fold" <=> (v \notin {"unrouted", "stopped", "moved", "stranded", "notFound"} /\ Folds(q, anon))
        /\ v \in {"unauthorized", "login"} => Closed(e, q, anon)
        /\ v \in {"asset", "section", "origin"} => ~Closed(e, q, anon)
        /\ v = "asset" => Under(q.uri, Static)
        /\ v = "section" => InSection(e, q.uri)
    BY <1>2, VerdictIs
  <1> QED
    BY <1>3, <1>4 DEF anon

\* The tab x that a verdict leaves.
Left(t, q, b, e, v, x) ==
    /\ v = "moved" => x = Redirected([b EXCEPT !.host = e.r], q)
    /\ v = "fold" =>
         x = Redirected(b, [Get(Login) EXCEPT !.mail = q.mail,
                               !.frag = IF Carriable(q.ret) THEN q.ret ELSE Nowhere])
    /\ v = "login" => x = Redirected(b, [Get(Login) EXCEPT !.frag = q.uri])
    /\ v = "asset" => x = Landed(b, Place(e, "asset", q.uri))
    /\ v = "section" => x = Landed(b, Place(e, "section", StaticFile(e, q.uri)))
    /\ v = "origin" /\ Hits(t, b, q) # {} =>
         \E page \in Hits(t, b, q) : x = Shown(b, page.form)
    /\ v = "origin" /\ Hits(t, b, q) = {} =>
         x = [b EXCEPT !.pc = "origin",
                       !.again = Plain(b) /\ rendered[<<b.host, Who(t).lang>>] >= 0
                                 /\ clock < rendered[<<b.host, Who(t).lang>>] + CacheLife]
    /\ v \in {"unrouted", "stopped", "stranded", "notFound", "unauthorized"} => x = [b EXCEPT !.pc = v]

\* What becomes of a request, by its verdict.
LEMMA SentCases ==
  ASSUME NEW t, NEW b0, NEW q, NEW b, b = Asking(b0, q, jar[Box(t, b0.host)]),
         NEW e, e = EntryOf(b0.host), NEW v, v = Verdict(e, q, Anonymous(b.sent)),
         NEW x, x = Sent(t, b0, q)
  PROVE  Left(t, q, b, e, v, x)
  <1> DEFINE hits == {page \in cache : q.get /\ page.key = CacheKeyOf(t, b)}
             moved == Redirected([b EXCEPT !.host = e.r], q)
             fold == Redirected(b, [Get(Login) EXCEPT !.mail = q.mail,
                                    !.frag = IF Carriable(q.ret) THEN q.ret ELSE Nowhere])
             login == Redirected(b, [Get(Login) EXCEPT !.frag = q.uri])
             landed == Landed(b, Place(e, v, IF v = "asset" THEN q.uri ELSE StaticFile(e, q.uri)))
             shown == Shown(b, (CHOOSE page \in hits : TRUE).form)
             origin == [b EXCEPT !.pc = "origin",
                            !.again = Plain(b) /\ rendered[<<b.host, Who(t).lang>>] >= 0
                                      /\ clock < rendered[<<b.host, Who(t).lang>>] + CacheLife]
             other == [b EXCEPT !.pc = v]
  <1>1. x = CASE v = "moved" -> moved
              [] v = "fold" -> fold
              [] v = "login" -> login
              [] v \in {"asset", "section"} -> landed
              [] v = "origin" /\ hits # {} -> shown
              [] v = "origin" /\ hits = {} -> origin
              [] OTHER -> other
    BY DEF Sent
  <1> HIDE DEF hits, moved, fold, login, landed, shown, origin, other
  <1>2. /\ v = "moved" => x = moved
        /\ v = "fold" => x = fold
        /\ v = "login" => x = login
        /\ v \in {"asset", "section"} => x = landed
        /\ v = "origin" /\ hits # {} => x = shown
        /\ v = "origin" /\ hits = {} => x = origin
        /\ v \in {"unrouted", "stopped", "stranded", "notFound", "unauthorized"} => x = other
    BY <1>1
  <1>3. v = "asset" => landed = Landed(b, Place(e, "asset", q.uri))
    BY DEF landed
  <1>4. v = "section" => landed = Landed(b, Place(e, "section", StaticFile(e, q.uri)))
    BY DEF landed
  <1>5. hits # {} => \E page \in hits : shown = Shown(b, page.form)
    BY DEF shown
  <1>6. hits = Hits(t, b, q)
    BY DEF hits, Hits
  <1> QED
    BY <1>2, <1>3, <1>4, <1>5, <1>6 DEF moved, fold, login, origin, other, Left

\* So it is for whoever starts.
LEMMA SentIs ==
  ASSUME NEW t, NEW b0, NEW q, NEW c, NEW b, NEW e, NEW v, AtEdge(t, b0, q, c, b, e, v),
         NEW x, x = Sent(t, b0, q)
  PROVE  Left(t, q, b, e, v, x)
  <1>1. /\ e = EntryOf(b0.host) /\ b = Asking(b0, q, jar[Box(t, b0.host)])
        /\ v = Verdict(e, q, Anonymous(b.sent))
    BY StartIs DEF AtEdge
  <1> QED
    BY <1>1, SentCases

Sound(t, x) ==
    x \in Tab /\ TabSound(Situation, clock, shut, passkeys, Sessionless(Situation, jar, t, x), t, x)

\* What passes the first five rules is on a host that serves it.
Passes(v) == v \notin {"unrouted", "stopped", "moved", "stranded", "notFound"}

\* Past the first five rules the host serves and no scanner is left.
LEMMA PassedIs ==
  ASSUME NEW t, NEW b0, NEW q, NEW c, NEW b, NEW e, NEW v, AtEdge(t, b0, q, c, b, e, v),
         Passes(v)
  PROVE  /\ Situation.entry[b.host].r = None /\ Situation.entry[b.host].x = 0
         /\ b.known \/ Decent(b.wanted)
  <1>1. /\ b.host \in Hosts /\ SiteInvariant /\ Anonymous(c) \in BOOLEAN
        /\ b.known \/ Anonymous(c)
        /\ Sendable(Situation, Anonymous(c), t, b, q) /\ Asked(b.wanted)
    BY StartIs
  <1>2. e.r = None /\ e.x = 0 /\ ~(Anonymous(c) /\ Scanned(q.uri))
    BY EdgeIs DEF Passes
  <1>3. Situation.entry[b.host].r = None /\ Situation.entry[b.host].x = 0
    BY <1>2, EdgeIs
  <1>4. ASSUME ~b.known
        PROVE  Decent(b.wanted)
    <2>1. Decent(b.wanted) \/ (q.uri = b.wanted /\ ~Scanned(b.wanted))
      BY <1>1, <1>2, <1>4 DEF Sendable
    <2> QED
      BY <1>1, <2>1, UnscannedIsDecent DEF Asked, Path
  <1> QED
    BY <1>3, <1>4

\* Moved: the same request, for the other host.
LEMMA MovedSound ==
  ASSUME NEW t, NEW b0, NEW q, NEW c, NEW b, NEW e, NEW v, AtEdge(t, b0, q, c, b, e, v),
         v = "moved",
         NEW x, x = Redirected([b EXCEPT !.host = e.r], q)
  PROVE  Sound(t, x)
  <1> DEFINE m == [b EXCEPT !.host = e.r]
             anon == Sessionless(Situation, jar, t, x)
  <1>1. /\ b \in Tab /\ Carried(b) /\ Asked(b.wanted) /\ q \in Request /\ SiteInvariant
        /\ Sendable(Situation, Anonymous(c), t, b, q) /\ b.host \in Hosts
        /\ Anonymous(c) \in BOOLEAN
    BY StartIs
  <1>2. e.r # None
    BY EdgeIs
  <1>3. e.r \in Hosts /\ Situation.entry[b.host].r # None
    BY <1>2, EdgeIs
  <1>4. /\ m \in Tab /\ m.host = e.r /\ m.wanted = b.wanted /\ m.hops = b.hops
        /\ m.beaten = b.beaten /\ m.spurned = b.spurned /\ m.known = b.known
    BY <1>1, <1>3 DEF Tab
  <1> HIDE DEF m, anon
  <1>5. ~Under(q.uri, AuthTree)
    BY <1>1, <1>3 DEF Sendable
  <1>6. Sendable(Situation, anon, t, m, q)
    BY <1>1, <1>4, <1>5 DEF Sendable, Leads
  <1>7. Carried(m)
    BY <1>1, <1>3, <1>4 DEF Carried
  <1>8. clock \in Nat /\ x = Redirected(m, q)
    BY <1>1, StateIs DEF m
  <1>9. x \in Tab /\ TabSound(Situation, clock, shut, passkeys, anon, t, x)
    BY <1>1, <1>4, <1>6, <1>7, <1>8, RedirectSound
  <1> QED
    BY <1>9 DEF Sound, anon

\* The plain request for the login page.
LEMMA LoginIs ==
  /\ Get(Login) \in Request /\ Get(Login).get = TRUE /\ Get(Login).uri = Login
  /\ Get(Login).ret = Nowhere /\ Get(Login).mail = None /\ Get(Login).frag = Nowhere
  BY Names DEF Get, Ask, Request, Path

\* The tab of somebody without a session is redirected to the login page, with
\* the page to return to in the fragment.
LEMMA ToLogin ==
  ASSUME NEW t, NEW b0, NEW q, NEW c, NEW b, NEW e, NEW v, AtEdge(t, b0, q, c, b, e, v),
         Anonymous(c), Situation.entry[b.host].r = None, b.known \/ Decent(b.wanted),
         NEW mail \in {None, Who(t).name}, NEW frag \in Path,
         ~b.beaten => (frag = Nowhere \/ Relative(frag)) /\ Returns(Situation, b.host, b.wanted, frag),
         NEW p, p = [Get(Login) EXCEPT !.mail = mail, !.frag = frag], NEW x, x = Redirected(b, p)
  PROVE  Sound(t, x)
  <1> DEFINE anon == Sessionless(Situation, jar, t, x)
  <1>1. /\ b \in Tab /\ Carried(b) /\ Asked(b.wanted) /\ SiteInvariant
        /\ b.host \in Hosts /\ t \in Tabs /\ c = jar[Box(t, b.host)]
    BY StartIs
  <1>2. mail \in {None} \cup People /\ clock \in Nat /\ Who(t) = Situation.who[t]
        /\ Box(t, b.host) = <<Situation.who[t].name, b.host>>
    BY <1>1, StateIs
  <1>3. /\ p \in Request /\ p.get = TRUE /\ p.uri = Login /\ p.ret = Nowhere
        /\ p.mail = mail /\ p.frag = frag
    BY <1>2, LoginIs DEF Request, Path
  <1>4. x.pc = (IF b.hops < MaxRedirects THEN "going" ELSE "gaveUp") /\ x.host = b.host /\ x.sent = NoCookie
    BY <1>1, <1>3, RedirectedIs
  <1>5. anon
    <2>1. Anonymous(NoCookie)
      BY DEF Anonymous, NoCookie
    <2> QED
      BY <1>1, <1>2, <1>4, <2>1 DEF Sessionless
  <1> HIDE DEF anon
  <1>6. b.hops <= MaxRedirects
    BY <1>1, VisitAssumption DEF Carried
  <1>7. ~b.beaten => Leads(Situation, b.host, b.wanted, anon, p)
    BY <1>3, <1>5, Names DEF Leads
  <1>8. Sendable(Situation, anon, t, b, p)
    BY <1>2, <1>3, <1>6, <1>7 DEF Sendable
  <1>9. x \in Tab /\ TabSound(Situation, clock, shut, passkeys, anon, t, x)
    BY <1>1, <1>2, <1>3, <1>8, RedirectSound
  <1> QED
    BY <1>9 DEF Sound, anon

\* A page that is not carried any further leads to the root.
LEMMA LostIsRoot ==
  ASSUME NEW s, NEW w, NEW uri, Right(s, w, uri), ~Carriable(uri)
  PROVE  Right(s, w, Root)
  BY DEF Right

\* The query of an anonymous visitor moves to the fragment and still leads back.
LEMMA FoldSound ==
  ASSUME NEW t, NEW b0, NEW q, NEW c, NEW b, NEW e, NEW v, AtEdge(t, b0, q, c, b, e, v),
         v = "fold",
         NEW frag, frag = (IF Carriable(q.ret) THEN q.ret ELSE Nowhere),
         NEW p, p = [Get(Login) EXCEPT !.mail = q.mail, !.frag = frag], NEW x, x = Redirected(b, p)
  PROVE  Sound(t, x)
  <1>1. /\ SiteInvariant /\ q \in Request /\ t \in Tabs /\ b.host \in Hosts /\ Anonymous(c) \in BOOLEAN
        /\ Sendable(Situation, Anonymous(c), t, b, q)
    BY StartIs
  <1>2. Situation.entry[b.host].r = None /\ (b.known \/ Decent(b.wanted))
    <2>1. Passes(v)
      BY DEF Passes
    <2> QED
      BY <2>1, PassedIs
  <1>3. Anonymous(c) /\ q.uri = Login /\ q.ret # Nowhere
    BY EdgeIs DEF Folds
  <1>4. q.mail \in {None, Who(t).name}
    BY <1>1, StateIs DEF Sendable
  <1>5. frag \in Path /\ (frag = Nowhere \/ Relative(frag))
    BY <1>1, Names DEF Request, Path, Carriable
  <1>6. ~b.beaten => Returns(Situation, b.host, b.wanted, q.ret)
    BY <1>1, <1>3, Names DEF Sendable, Leads
  <1>7. ASSUME ~b.beaten
        PROVE  Returns(Situation, b.host, b.wanted, frag)
    <2>1. CASE Carriable(q.ret)
      BY <1>6, <1>7, <2>1
    <2>2. CASE ~Carriable(q.ret)
      <3>1. Safe(b.host, Nowhere) = Root /\ frag = Nowhere
        BY <1>1, <2>2, SafeIs, Names
      <3>2. Right(Situation, b.wanted, Root)
        <4>1. CASE Relative(q.ret)
          <5>1. Right(Situation, b.wanted, q.ret)
            BY <1>1, <1>6, <1>7, <4>1, SafeIs DEF Returns, Request, Path
          <5> QED
            BY <2>2, <5>1, LostIsRoot
        <4>2. CASE ~Relative(q.ret)
          BY <1>3, <1>6, <1>7, <4>2 DEF Returns, Right
        <4> QED
          BY <4>1, <4>2
      <3> QED
        BY <3>1, <3>2 DEF Returns
    <2> QED
      BY <2>1, <2>2
  <1> QED
    BY <1>2, <1>3, <1>4, <1>5, <1>7, ToLogin

\* A closed page's visitor is sent to log in, with the page in the fragment.
LEMMA ClosedSound ==
  ASSUME NEW t, NEW b0, NEW q, NEW c, NEW b, NEW e, NEW v, AtEdge(t, b0, q, c, b, e, v),
         v = "login",
         NEW x, x = Redirected(b, [Get(Login) EXCEPT !.frag = q.uri])
  PROVE  Sound(t, x)
  <1>1. /\ SiteInvariant /\ q \in Request /\ t \in Tabs /\ b.host \in Hosts /\ Anonymous(c) \in BOOLEAN
        /\ Sendable(Situation, Anonymous(c), t, b, q) /\ Asked(b.wanted)
    BY StartIs
  <1>2. Situation.entry[b.host].r = None /\ (b.known \/ Decent(b.wanted))
    <2>1. Passes(v)
      BY DEF Passes
    <2> QED
      BY <2>1, PassedIs
  <1>3. Anonymous(c) /\ ~Platform(q.uri)
    BY EdgeIs DEF Closed
  <1>4. q.uri \in Path
    BY <1>1 DEF Request, Path
  <1>5. ~b.beaten => Right(Situation, b.wanted, q.uri)
    BY <1>1, <1>3 DEF Sendable, Leads, Platform
  <1>6. ASSUME ~b.beaten
        PROVE  Relative(q.uri) /\ Returns(Situation, b.host, b.wanted, q.uri)
    <2>1. Relative(q.uri)
      BY <1>1, <1>5, <1>6, RightIs
    <2>2. Safe(b.host, q.uri) = q.uri
      BY <1>1, <1>4, <2>1, SafeIs
    <2> QED
      BY <1>5, <1>6, <2>1, <2>2 DEF Returns
  <1> DEFINE p == [Get(Login) EXCEPT !.mail = None, !.frag = q.uri]
  <1>7. x = Redirected(b, p) /\ p = [Get(Login) EXCEPT !.mail = None, !.frag = q.uri]
    <2>1. p = [Get(Login) EXCEPT !.frag = q.uri]
      BY LoginIs DEF Request
    <2> QED
      BY <2>1
  <1> HIDE DEF p
  <1> QED
    BY <1>2, <1>3, <1>4, <1>6, <1>7, ToLogin

\* A place is of the host's region and kind.
LEMMA PlaceIs ==
  ASSUME NEW e, e.g = None \/ e.g \in Regions, e.stg \in BOOLEAN,
         NEW from \in {"asset", "section", "origin"}, NEW file \in Path,
         NEW place, place = Place(e, from, file)
  PROVE  /\ place \in Places /\ place.from = from /\ place.file = file /\ place.staging = e.stg
         /\ IF e.g = None THEN place.region = Home ELSE Origins # {} => place.region = e.g
  <1>1. RegionOf(e) \in Regions
    BY VisitAssumption DEF RegionOf
  <1>2. IF e.g = None THEN RegionOf(e) = Home ELSE Origins # {} => RegionOf(e) = e.g
    BY DEF RegionOf
  <1> QED
    BY <1>1, <1>2 DEF Place, Places, Path

\* What the edge serves itself comes from its place.
LEMMA ServedSound ==
  ASSUME NEW t, NEW b0, NEW q, NEW c, NEW b, NEW e, NEW v, AtEdge(t, b0, q, c, b, e, v),
         v \in {"asset", "section"}, NEW file \in Path,
         v = "section" => \A pf \in e.p : pf # Root /\ Under(q.uri, pf) => IsPrefix(pf, file),
         NEW x, x = Landed(b, Place(e, v, file))
  PROVE  Sound(t, x)
  <1> DEFINE place == Place(e, v, file)
             anon == Sessionless(Situation, jar, t, x)
  <1>1. /\ SiteInvariant /\ q \in Request /\ t \in Tabs /\ b.host \in Hosts /\ b.ask = q
        /\ Sendable(Situation, Anonymous(c), t, b, q) /\ Asked(b.wanted) /\ Carried(b)
    BY StartIs
  <1>2. /\ Situation.entry[b.host].r = None /\ Situation.entry[b.host].x = 0
        /\ b.known \/ Decent(b.wanted)
    <2>1. Passes(v)
      BY DEF Passes
    <2> QED
      BY <2>1, PassedIs
  <1>3. ~Under(q.uri, AuthTree)
    <2>1. CASE v = "asset"
      <3>1. Under(q.uri, Static)
        BY <2>1, EdgeIs
      <3>2. q.uri[2] = "static"
        BY <1>1, <3>1, StaticIs DEF Request, Path
      <3> QED
        BY <1>1, <3>2, AuthIs DEF Request, Path
    <2>2. CASE v = "section"
      BY <2>2, EdgeIs DEF InSection
    <2> QED
      BY <2>1, <2>2
  <1>4. ~b.beaten => Right(Situation, b.wanted, b.ask.uri)
    BY <1>1, <1>3 DEF Sendable, Leads
  <1>5. (e.g = None \/ e.g \in Regions) /\ e.stg \in BOOLEAN
    BY EdgeIs
  <1>6. /\ place \in Places /\ place.from = v /\ place.file = file /\ place.staging = e.stg
        /\ IF e.g = None THEN place.region = Home ELSE Origins # {} => place.region = e.g
    BY <1>5, PlaceIs
  <1> HIDE DEF place, anon
  <1>7. x = Landed(b, place)
    BY DEF place
  <1>8. x.place = place /\ x.host = b.host /\ x.ask.uri = q.uri
    BY <1>1, <1>6, <1>7, LandedIs
  <1> DEFINE o == Situation.entry[b.host]
  <1>9. o.g = e.g /\ o.stg = e.stg /\ o.p = e.p
    BY EdgeIs
  <1>10. InItsPlace(Situation, x)
    BY <1>2, <1>6, <1>8, <1>9 DEF InItsPlace
  <1>11. clock \in Nat
    BY <1>1, StateIs
  <1>12. x \in Tab /\ TabSound(Situation, clock, shut, passkeys, anon, t, x)
    BY <1>1, <1>2, <1>4, <1>6, <1>7, <1>10, <1>11, LandedSound
  <1> QED
    BY <1>12 DEF Sound, anon

\* Static assets are files of the host.
LEMMA AssetSound ==
  ASSUME NEW t, NEW b0, NEW q, NEW c, NEW b, NEW e, NEW v, AtEdge(t, b0, q, c, b, e, v),
         v = "asset", NEW x, x = Landed(b, Place(e, "asset", q.uri))
  PROVE  Sound(t, x)
  <1>1. q.uri \in Path /\ x = Landed(b, Place(e, v, q.uri))
    BY StartIs DEF Request, Path
  <1> QED
    BY <1>1, ServedSound

\* A section's file lies in the longest section.
LEMMA SectionSound ==
  ASSUME NEW t, NEW b0, NEW q, NEW c, NEW b, NEW e, NEW v, AtEdge(t, b0, q, c, b, e, v),
         v = "section", NEW x, x = Landed(b, Place(e, "section", StaticFile(e, q.uri)))
  PROVE  Sound(t, x)
  <1> DEFINE file == StaticFile(e, q.uri)
  <1>1. q.uri \in Path
    BY StartIs DEF Request, Path
  <1>2. Written(e) /\ Sections(e, q.uri) # {}
    BY EdgeIs DEF InSection
  <1>3. file \in Path /\ \A pf \in e.p : pf # Root /\ Under(q.uri, pf) => IsPrefix(pf, file)
    BY <1>1, <1>2, StaticFileIs
  <1> HIDE DEF file
  <1>4. x = Landed(b, Place(e, v, file))
    BY DEF file
  <1> QED
    BY <1>3, <1>4, ServedSound

\* What the pages kept at the edge say of the key that finds one.
LEMMA KeyIs ==
  ASSUME NEW t, NEW b, NEW k, k = CacheKeyOf(t, b)
  PROVE  /\ k[1] = b.host /\ k[2] = Who(t).lang /\ k[3] = b.ask.uri /\ k[4] = b.ask.ret
         /\ k[5] = b.ask.mail /\ k[6][2] = b.sent
         /\ k[6][1] = IF b.sent = NoCookie THEN None ELSE Who(t).name
  BY DEF CacheKeyOf, CacheKey

\* A page of the CDN is the own page of whoever gets it.
LEMMA HitSound ==
  ASSUME NEW t, NEW b0, NEW q, NEW c, NEW b, NEW e, NEW v, AtEdge(t, b0, q, c, b, e, v),
         v = "origin", NEW page \in Hits(t, b, q), NEW x, x = Shown(b, page.form)
  PROVE  Sound(t, x)
  <1> DEFINE anon == Sessionless(Situation, jar, t, x)
             k == page.key
             form == page.form
  <1>1. /\ SiteInvariant /\ q \in Request /\ t \in Tabs /\ b.host \in Hosts /\ b.ask = q /\ b.sent = c
        /\ c \in Jar /\ Sendable(Situation, Anonymous(c), t, b, q) /\ Asked(b.wanted) /\ Carried(b)
        /\ b \in Tab
    BY StartIs
  <1>2. Situation.entry[b.host].r = None /\ (b.known \/ Decent(b.wanted))
    <2>1. Passes(v)
      BY DEF Passes
    <2> QED
      BY <2>1, PassedIs
  <1>3. page \in cache /\ PageSound(passkeys, page) /\ k = CacheKeyOf(t, b)
    BY <1>1 DEF Hits, SiteInvariant
  <1>4. page.until \in clock + 1 .. clock + CacheLife
    BY <1>1, <1>3 DEF SiteInvariant, TypeOK
  <1>5. clock \in Nat /\ passkeys.since \in Int /\ Who(t) = Situation.who[t] /\ CacheLife \in Nat /\ AuthLife \in Nat
    BY <1>1, StateIs, VisitAssumption
  <1> HIDE DEF anon, k
  <1>6. /\ k[1] = b.host /\ k[2] = Who(t).lang /\ k[3] = q.uri
        /\ k[5] = q.mail /\ k[6][2] = c
        /\ k[6][1] = IF c = NoCookie THEN None ELSE Who(t).name
    BY <1>1, <1>3, KeyIs
  <1>7. /\ form \in Forms /\ k[3] = Login /\ form.lang = k[2]
        /\ form.mail = IF k[5] # None THEN k[5] ELSE IF k[6][2].mail THEN k[6][1] ELSE None
        /\ form.key => k[1] \in PasskeyHosts /\ (passkeys.on \/ page.until <= passkeys.since + CacheLife + AuthLife)
        /\ k[6][2].rt = "none"
    BY <1>3 DEF PageSound, k
  <1>8. q.uri = Login /\ c.rt = "none" /\ form.lang = Who(t).lang
    BY <1>6, <1>7
  <1>9. form.mail \in {None, Who(t).name}
    <2>1. q.mail \in {None, Who(t).name}
      BY <1>1, <1>5 DEF Sendable
    <2>2. c.mail => c # NoCookie
      BY DEF NoCookie
    <2> QED
      BY <1>6, <1>7, <2>1, <2>2
  <1> HIDE DEF form
  <1>10. x.pc = "login" /\ x.form = form /\ x.shownAt = clock /\ x.host = b.host
    <2>1. b.failed \in BOOLEAN
      BY <1>1 DEF Tab
    <2> QED
      BY <1>1, <1>5, <1>7, <2>1, ShownIs DEF form
  <1>11. passkeys.on \/ ~form.key \/ x.shownAt < passkeys.since + CacheLife + AuthLife
    <2>1. clock < page.until
      BY <1>4, <1>5
    <2> QED
      BY <1>4, <1>5, <1>7, <1>10, <2>1
  <1>12. OwnPage(Situation, passkeys, t, x)
    BY <1>5, <1>6, <1>7, <1>8, <1>9, <1>10, <1>11 DEF OwnPage
  <1>13. ~b.beaten => Returns(Situation, b.host, b.wanted, IF b.ask.ret # Nowhere THEN b.ask.ret ELSE b.ask.frag)
    BY <1>1, <1>8, Names DEF Sendable, Leads
  <1>14. b.failed \in BOOLEAN /\ b.sent.rt # "live"
    BY <1>1, <1>8 DEF Tab
  <1>15. x \in Tab /\ TabSound(Situation, clock, shut, passkeys, anon, t, x)
    BY <1>1, <1>2, <1>5, <1>7, <1>12, <1>13, <1>14, ShownSound DEF form
  <1> QED
    BY <1>15 DEF Sound, anon

\* Two plain requests of a language for the login page of a host find one page.
LEMMA NoSecondRender ==
  ASSUME NEW t, NEW b0, NEW q, NEW c, NEW b, NEW e, NEW v, AtEdge(t, b0, q, c, b, e, v),
         v = "origin", Hits(t, b, q) = {}, Plain(b),
         rendered[<<b.host, Who(t).lang>>] >= 0,
         clock < rendered[<<b.host, Who(t).lang>>] + CacheLife
  PROVE  FALSE
  <1> DEFINE r == <<b.host, Who(t).lang>>
  <1>1. /\ SiteInvariant /\ q \in Request /\ t \in Tabs /\ b.host \in Hosts /\ b.ask = q /\ b.sent = c
        /\ Sendable(Situation, Anonymous(c), t, b, q)
    BY StartIs
  <1>2. q.uri = Login /\ q.mail = None /\ c = NoCookie /\ Anonymous(c)
    BY <1>1 DEF Plain, Anonymous, NoCookie
  <1>3. q.get
    BY <1>1, <1>2, Names DEF Sendable
  <1>4. q.ret = Nowhere
    <2>1. ~Folds(q, Anonymous(c))
      BY EdgeIs
    <2> QED
      BY <1>2, <1>3, <2>1 DEF Folds
  <1>5. r \in DOMAIN rendered
    BY <1>1 DEF SiteInvariant, TypeOK
  <1>6. PICK page \in cache : page.key = CacheKey(r[1], r[2], Get(Login), <<None, NoCookie>>)
    BY <1>1, <1>5 DEF SiteInvariant, RendersKept
  <1>7. CacheKeyOf(t, b) = CacheKey(r[1], r[2], Get(Login), <<None, NoCookie>>)
    BY <1>1, <1>2, <1>4, LoginIs DEF CacheKeyOf, CacheKey
  <1>8. page \in Hits(t, b, q)
    BY <1>3, <1>6, <1>7 DEF Hits
  <1> QED
    BY <1>8

\* What goes to the origin may go there, and renders nothing twice a minute.
LEMMA OriginSound ==
  ASSUME NEW t, NEW b0, NEW q, NEW c, NEW b, NEW e, NEW v, AtEdge(t, b0, q, c, b, e, v),
         v = "origin", Hits(t, b, q) = {},
         NEW x, x = [b EXCEPT !.pc = "origin",
                              !.again = Plain(b) /\ rendered[<<b.host, Who(t).lang>>] >= 0
                                        /\ clock < rendered[<<b.host, Who(t).lang>>] + CacheLife]
  PROVE  Sound(t, x)
  <1> DEFINE anon == Sessionless(Situation, jar, t, x)
             again == Plain(b) /\ rendered[<<b.host, Who(t).lang>>] >= 0
                               /\ clock < rendered[<<b.host, Who(t).lang>>] + CacheLife
  <1>1. /\ SiteInvariant /\ q \in Request /\ t \in Tabs /\ b.host \in Hosts /\ b.ask = q /\ b.sent = c
        /\ c \in Jar /\ Sendable(Situation, Anonymous(c), t, b, q) /\ Asked(b.wanted) /\ Carried(b)
        /\ b \in Tab /\ b.lagged = ~InStep /\ ~b.forced /\ b.shownAt = 0
    BY StartIs
  <1>2. /\ Situation.entry[b.host].r = None /\ Situation.entry[b.host].x = 0
        /\ b.known \/ Decent(b.wanted)
    <2>1. Passes(v)
      BY DEF Passes
    <2> QED
      BY <2>1, PassedIs
  <1>3. ~again
    BY NoSecondRender
  <1>4. x = [b EXCEPT !.pc = "origin", !.again = again]
    OBVIOUS
  <1>5. "origin" \in Stages /\ again \in BOOLEAN
    BY DEF Stages, Plain
  <1> HIDE DEF again, anon
  <1>6. /\ x \in Tab /\ x.pc = "origin" /\ x.again = again
        /\ x.ask = q /\ x.sent = c /\ x.host = b.host /\ x.wanted = b.wanted /\ x.hops = b.hops
        /\ x.beaten = b.beaten /\ x.known = b.known /\ x.lagged = b.lagged /\ x.forced = b.forced
        /\ x.shownAt = b.shownAt
    BY <1>1, <1>4, <1>5 DEF Tab
  <1>7. anon = Anonymous(c)
    BY <1>6 DEF anon, Sessionless
  <1>8. Sendable(Situation, anon, t, x, x.ask) /\ Inside(Situation, x)
    BY <1>1, <1>2, <1>6, <1>7 DEF Sendable, Inside
  <1> DEFINE o == Situation.entry[x.host]
  <1>9. o.x = 0 /\ o.pub = e.pub
    BY <1>2, <1>6, EdgeIs
  <1>10. x.ask.uri = Login /\ Anonymous(x.sent) => x.ask.ret = Nowhere
    <2>1. ~Folds(q, Anonymous(c))
      BY EdgeIs
    <2> QED
      BY <1>1, <1>6, <2>1, Names DEF Folds, Sendable
  <1>11. ASSUME ~x.lagged
         PROVE  /\ shut.edge = shut.row
                /\ shut.row /\ Anonymous(x.sent) => Platform(x.ask.uri) \/ Public(x.ask.uri, o.pub)
    <2>1. shut.edge = shut.row
      BY <1>1, <1>6, <1>11 DEF InStep
    <2>2. ~Closed(e, q, Anonymous(c)) /\ e.auth = shut.edge
      BY EdgeIs
    <2> QED
      BY <1>6, <1>9, <2>1, <2>2 DEF Closed
  <1>12. LetThrough(Situation, shut, x)
    <2> HIDE DEF o
    <2> QED
      BY <1>9, <1>10, <1>11 DEF LetThrough, o
  <1>13. OwnPage(Situation, passkeys, t, x) /\ Justified(clock, x) /\ InItsPlace(Situation, x)
    BY <1>6 DEF OwnPage, Justified, InItsPlace
  <1>14. Asked(x.wanted) /\ x.shownAt <= clock /\ x.hops <= MaxRedirects /\ ~x.again /\ ~x.forced
    <2>1. clock \in Nat /\ MaxRedirects \in Nat
      BY <1>1, StateIs, VisitAssumption
    <2>2. x.shownAt = 0 /\ x.hops \in 0..MaxRedirects
      BY <1>1, <1>6 DEF Carried
    <2> QED
      BY <1>1, <1>3, <1>6, <2>1, <2>2
  <1>15. TabSound(Situation, clock, shut, passkeys, anon, t, x)
    BY <1>6, <1>8, <1>12, <1>13, <1>14 DEF TabSound
  <1> QED
    BY <1>6, <1>15 DEF Sound, anon

\* An answer of the edge's own ends the visit.
LEMMA StoppedSound ==
  ASSUME NEW t, NEW b0, NEW q, NEW c, NEW b, NEW e, NEW v, AtEdge(t, b0, q, c, b, e, v),
         v \in {"unrouted", "stopped", "stranded", "notFound", "unauthorized"}, NEW x, x = [b EXCEPT !.pc = v]
  PROVE  Sound(t, x)
  <1>1. /\ SiteInvariant /\ b \in Tab /\ Asked(b.wanted) /\ Carried(b)
        /\ ~b.again /\ ~b.forced /\ b.shownAt = 0
    BY StartIs
  <1>2. v \in Stages
    BY DEF Stages
  <1>3. /\ x \in Tab /\ x.pc = v /\ x.wanted = b.wanted /\ x.hops = b.hops
        /\ x.again = b.again /\ x.forced = b.forced /\ x.shownAt = b.shownAt
    BY <1>1, <1>2 DEF Tab
  <1>4. clock \in Nat /\ MaxRedirects \in Nat
    BY <1>1, StateIs, VisitAssumption
  <1>5. x.shownAt <= clock /\ x.hops <= MaxRedirects
    <2>1. x.shownAt = 0 /\ x.hops \in 0..MaxRedirects
      BY <1>1, <1>3 DEF Carried
    <2> QED
      BY <1>4, <2>1
  <1>6. OwnPage(Situation, passkeys, t, x) /\ Justified(clock, x) /\ InItsPlace(Situation, x)
    BY <1>3 DEF OwnPage, Justified, InItsPlace
  <1> QED
    BY <1>1, <1>3, <1>5, <1>6 DEF Sound, TabSound

\* Whatever a tab may send, the edge makes a sound tab of it.
LEMMA SentSound ==
  ASSUME NEW t, NEW b0, NEW q, Starts(t, b0, q), NEW x, x = Sent(t, b0, q)
  PROVE  Sound(t, x)
  <1> DEFINE c == jar[Box(t, b0.host)]
             b == Asking(b0, q, c)
             e == EntryOf(b0.host)
             v == Verdict(e, q, Anonymous(c))
             hits == Hits(t, b, q)
  <1>1. AtEdge(t, b0, q, c, b, e, v)
    BY DEF AtEdge
  <1> HIDE DEF c, b, e, v
  <1>3. v \in Kinds
    BY <1>1, EdgeIs
  <1>5. Left(t, q, b, e, v, x)
    BY <1>1, SentIs
  <1>6. CASE v = "moved"
    BY <1>1, <1>5, <1>6, MovedSound DEF Left
  <1>7. CASE v = "fold"
    <2> DEFINE frag == IF Carriable(q.ret) THEN q.ret ELSE Nowhere
               p == [Get(Login) EXCEPT !.mail = q.mail, !.frag = frag]
    <2>1. x = Redirected(b, p)
      BY <1>5, <1>7 DEF Left
    <2>2. frag = (IF Carriable(q.ret) THEN q.ret ELSE Nowhere) /\ p = [Get(Login) EXCEPT !.mail = q.mail, !.frag = frag]
      OBVIOUS
    <2> HIDE DEF frag, p
    <2> QED
      BY <1>1, <1>7, <2>1, <2>2, FoldSound DEF Left
  <1>8. CASE v = "login"
    BY <1>1, <1>5, <1>8, ClosedSound DEF Left
  <1>9. CASE v = "asset"
    BY <1>1, <1>5, <1>9, AssetSound DEF Left
  <1>10. CASE v = "section"
    BY <1>1, <1>5, <1>10, SectionSound DEF Left
  <1>11. CASE v = "origin"
    <2>1. CASE hits # {}
      BY <1>1, <1>5, <1>11, <2>1, HitSound DEF Left
    <2>2. CASE hits = {}
      BY <1>1, <1>5, <1>11, <2>2, OriginSound DEF Left
    <2> QED
      BY <2>1, <2>2
  <1>12. CASE v \in {"unrouted", "stopped", "stranded", "notFound", "unauthorized"}
    BY <1>1, <1>5, <1>12, StoppedSound DEF Left
  <1> QED
    BY <1>3, <1>6, <1>7, <1>8, <1>9, <1>10, <1>11, <1>12 DEF Kinds

-----------------------------------------------------------------------------
(* The steps.                                                              *)

\* The tabs alone.
LEMMA TabsOnly ==
  ASSUME SiteInvariant, UNCHANGED <<visit, clock, shut, passkeys, jar, cache, rendered>>,
         tab' \in [Tabs -> Tab],
         \A u \in Tabs :
           TabSound(Situation, clock, shut, passkeys, Sessionless(Situation, jar, u, tab'[u]), u, tab'[u])
  PROVE  SiteInvariant'
  <1>1. TypeOK'
    BY DEF SiteInvariant, TypeOK, Who, Situation
  <1>2. (passkeys.since <= clock)' /\ \A page \in cache' : PageSound(passkeys', page)
    BY DEF SiteInvariant
  <1>3. RendersKept'
    BY DEF SiteInvariant, RendersKept
  <1>4. Situation' = Situation
    BY DEF Situation
  <1> QED
    BY <1>1, <1>2, <1>3, <1>4 DEF SiteInvariant

\* One tab alone.
LEMMA OneTab ==
  ASSUME SiteInvariant, UNCHANGED <<visit, clock, shut, passkeys, jar, cache, rendered>>,
         NEW t \in Tabs, NEW x, Sound(t, x), Becomes(t, x)
  PROVE  SiteInvariant'
  <1>1. /\ tab \in [Tabs -> Tab]
        /\ \A u \in Tabs :
             TabSound(Situation, clock, shut, passkeys, Sessionless(Situation, jar, u, tab[u]), u, tab[u])
    BY DEF SiteInvariant, TypeOK
  <1>2. tab' = [tab EXCEPT ![t] = x] /\ x \in Tab
        /\ TabSound(Situation, clock, shut, passkeys, Sessionless(Situation, jar, t, x), t, x)
    BY DEF Becomes, Sound
  <1>3. tab' \in [Tabs -> Tab] /\ tab'[t] = x /\ \A u \in Tabs \ {t} : tab'[u] = tab[u]
    BY <1>1, <1>2
  <1>4. ASSUME NEW u \in Tabs
        PROVE  TabSound(Situation, clock, shut, passkeys, Sessionless(Situation, jar, u, tab'[u]), u, tab'[u])
    <2>1. CASE u = t
      BY <1>2, <1>3, <2>1
    <2>2. CASE u # t
      BY <1>1, <1>3, <2>2
    <2> QED
      BY <2>1, <2>2
  <1> QED
    BY <1>3, <1>4, TabsOnly

\* What a tab that is sound gives its next step.
LEMMA TabIs ==
  ASSUME SiteInvariant, NEW t \in Tabs, NEW b, b = tab[t]
  PROVE  /\ b \in Tab /\ b.host \in Hosts /\ Asked(b.wanted) /\ b.wanted \in Path
         /\ b.ask \in Request /\ b.sent \in Jar /\ b.field \in Path
         /\ b.beaten \in BOOLEAN /\ b.spurned \in BOOLEAN /\ b.known \in BOOLEAN /\ b.failed \in BOOLEAN
         /\ b.hops \in Nat
         /\ b.pc # "gaveUp" => Carried(b)
         /\ b.pc \in {"going", "origin"} => Sendable(Situation, Sessionless(Situation, jar, t, b), t, b, b.ask)
         /\ b.pc \in {"origin", "login", "code", "assert", "offer", "create", "later", "page"} =>
              Inside(Situation, b)
         /\ b.pc = "origin" => LetThrough(Situation, shut, b)
  <1>1. b \in Tab
    BY StateIs
  <1>2. TabSound(Situation, clock, shut, passkeys, Sessionless(Situation, jar, t, b), t, b)
    BY DEF SiteInvariant
  <1>3. /\ b.host \in Hosts /\ b.wanted \in Path
        /\ b.ask \in Request /\ b.sent \in Jar /\ b.field \in Path
        /\ b.beaten \in BOOLEAN /\ b.spurned \in BOOLEAN /\ b.known \in BOOLEAN /\ b.failed \in BOOLEAN
        /\ b.hops \in 0..MaxRedirects + 1
    BY <1>1 DEF Tab, Path
  <1>4. MaxRedirects \in Nat
    BY VisitAssumption
  <1>5. b.hops \in Nat /\ (b.pc # "gaveUp" => b.hops \in 0..MaxRedirects)
    BY <1>2, <1>3, <1>4 DEF TabSound
  <1> QED
    BY <1>1, <1>2, <1>3, <1>5 DEF TabSound, Carried

\* The edge sees a redirected request.
LEMMA FollowKeeps ==
  ASSUME SiteInvariant, NEW t \in Tabs, Follow(t)
  PROVE  SiteInvariant'
  <1> DEFINE b == tab[t]
             x == Sent(t, b, b.ask)
  <1>1. b.pc = "going" /\ Becomes(t, x) /\ UNCHANGED <<visit, clock, shut, passkeys, jar, cache, rendered>>
    BY DEF Follow
  <1>2. /\ Carried(b) /\ Asked(b.wanted) /\ b.ask \in Request /\ b.host \in Hosts
        /\ Sendable(Situation, Sessionless(Situation, jar, t, b), t, b, b.ask)
    BY <1>1, TabIs
  <1>3. Sessionless(Situation, jar, t, b) = Anonymous(jar[Box(t, b.host)])
    BY <1>1, <1>2, StateIs DEF Sessionless
  <1> HIDE DEF b
  <1>4. Starts(t, b, b.ask)
    BY <1>2, <1>3 DEF Starts
  <1>5. Sound(t, x)
    BY <1>4, SentSound
  <1> QED
    BY <1>1, <1>5, OneTab

\* The answers of the origin that leave everything but the tab.
LEMMA AtOriginIsSound ==
  ASSUME SiteInvariant, NEW t \in Tabs, NEW uri, Answering(t, uri), NEW b, b = tab[t]
  PROVE  /\ b.pc = "origin" /\ b.ask.uri = uri
         /\ UNCHANGED <<visit, clock, shut, passkeys>> /\ clock \in Nat
         /\ b \in Tab /\ Carried(b) /\ b.host \in Hosts /\ Asked(b.wanted) /\ b.wanted \in Path
         /\ b.ask \in Request /\ b.ask.ret \in Path /\ b.ask.frag \in Path /\ uri \in Path
         /\ b.sent \in Jar /\ b.failed \in BOOLEAN
         /\ Situation.entry[b.host].r = None /\ (b.known \/ Decent(b.wanted))
         /\ b.hops <= MaxRedirects
         /\ ~b.beaten => Leads(Situation, b.host, b.wanted, Anonymous(b.sent), b.ask)
         /\ LetThrough(Situation, shut, b)
         /\ b.ask.mail \in {None, Who(t).name}
  <1>1. b.pc = "origin" /\ b.ask.uri = uri /\ UNCHANGED <<visit, clock, shut, passkeys>>
    BY DEF Answering
  <1>2. /\ Carried(b) /\ b \in Tab /\ b.host \in Hosts /\ Asked(b.wanted) /\ b.wanted \in Path
        /\ b.ask \in Request /\ b.sent \in Jar /\ b.failed \in BOOLEAN
        /\ Sendable(Situation, Sessionless(Situation, jar, t, b), t, b, b.ask)
        /\ Inside(Situation, b) /\ LetThrough(Situation, shut, b)
    BY <1>1, TabIs
  <1>3. Sessionless(Situation, jar, t, b) = Anonymous(b.sent)
    BY <1>1 DEF Sessionless
  <1>4. clock \in Nat /\ Who(t) = Situation.who[t]
    BY <1>2, StateIs
  <1>5. /\ Situation.entry[b.host].r = None /\ (b.known \/ Decent(b.wanted))
        /\ b.hops <= MaxRedirects
        /\ ~b.beaten => Leads(Situation, b.host, b.wanted, Anonymous(b.sent), b.ask)
        /\ b.ask.mail \in {None, Who(t).name}
    BY <1>2, <1>3, <1>4 DEF Inside, Sendable
  <1>6. b.ask.ret \in Path /\ b.ask.frag \in Path /\ uri \in Path
    BY <1>1, <1>2 DEF Request, Path
  <1> QED
    BY <1>1, <1>2, <1>4, <1>5, <1>6

\* A plain request.
LEMMA GetIs ==
  ASSUME NEW uri \in Path, NEW q, q = Get(uri)
  PROVE  q \in Request /\ q.get = TRUE /\ q.uri = uri /\ q.ret = Nowhere /\ q.mail = None /\ q.frag = Nowhere
  BY Names DEF Get, Ask, Request, Path

\* A request without a fragment may be sent with a session or without.
LEMMA MaySend ==
  ASSUME NEW s, NEW anon, NEW t, NEW b, b.hops <= MaxRedirects,
         s.entry[b.host].r = None, b.known \/ Decent(b.wanted),
         NEW q, q.get \/ q.uri \in {SendOtp, Verify}, q.frag = Nowhere, q.mail \in {None, s.who[t].name},
         ~b.beaten => IF Under(q.uri, AuthTree)
                      THEN Returns(s, b.host, b.wanted, q.ret) /\ (q.uri = Logout => q.ret = Nowhere)
                      ELSE Right(s, b.wanted, q.uri)
  PROVE  Sendable(s, anon, t, b, q)
  <1>1. q.frag = Nowhere /\ (IF q.ret # Nowhere THEN q.ret ELSE q.frag) = q.ret
    OBVIOUS
  <1>2. ~b.beaten => Leads(s, b.host, b.wanted, anon, q)
    BY <1>1 DEF Leads
  <1> QED
    BY <1>2 DEF Sendable

\* Back to the page, whether the browser has a session by then or not.
LEMMA HomeSound ==
  ASSUME NEW s, NEW now \in Nat, NEW closing, NEW keys, NEW anon, NEW t, NEW b, Carried(b), Asked(b.wanted),
         s.entry[b.host].r = None, b.known \/ Decent(b.wanted),
         NEW uri \in Path, ~b.beaten => Right(s, b.wanted, uri),
         NEW x, x = Redirected(b, Get(uri))
  PROVE  x \in Tab /\ TabSound(s, now, closing, keys, anon, t, x)
  <1> DEFINE q == Get(uri)
  <1>1. q = Get(uri) /\ x = Redirected(b, q)
    OBVIOUS
  <1>2. b.hops <= MaxRedirects
    BY VisitAssumption DEF Carried
  <1> HIDE DEF q
  <1>3. /\ q \in Request /\ q.get = TRUE /\ q.uri = uri /\ q.ret = Nowhere /\ q.mail = None /\ q.frag = Nowhere
    BY <1>1, GetIs
  <1>4. ~b.beaten => ~Under(uri, AuthTree)
    BY RightIs
  <1>5. Sendable(s, anon, t, b, q)
    BY <1>2, <1>3, <1>4, MaySend
  <1> QED
    BY <1>1, <1>3, <1>5, RedirectSound

\* At the origin, return_url leads back, and so does the fragment of the login page.
LEMMA BackIs ==
  ASSUME NEW s, NEW host \in Hosts, NEW w, Asked(w), NEW anon, NEW q \in Request, Leads(s, host, w, anon, q)
  PROVE  /\ q.uri \in {SendOtp, Verify, Register} \/ (q.uri = Login /\ ~anon) =>
              Returns(s, host, w, q.ret) /\ Right(s, w, Safe(host, q.ret))
         /\ q.uri = Login => Returns(s, host, w, IF q.ret # Nowhere THEN q.ret ELSE q.frag)
         /\ q.uri = Login => Right(s, w, IF q.ret # Nowhere THEN Safe(host, q.ret)
                                         ELSE IF Carriable(q.frag) THEN q.frag ELSE Root)
         /\ q.uri = Logout => Right(s, w, Root) /\ Returns(s, host, w, Nowhere)
         /\ Safe(host, q.ret) \in Path
  <1> DEFINE to == IF q.ret # Nowhere THEN q.ret ELSE q.frag
  <1>1. q.ret \in Path /\ q.frag \in Path
    BY DEF Request, Path
  <1>2. Safe(host, q.ret) \in Path /\ Safe(host, Nowhere) = Root /\ (Relative(q.frag) => Safe(host, q.frag) = q.frag)
    BY <1>1, SafeIs
  <1>3. q.uri \in {Login, SendOtp, Verify, Register, Logout} =>
           /\ Returns(s, host, w, to)
           /\ q.frag # Nowhere => q.uri = Login /\ Relative(q.frag) /\ anon
           /\ q.uri = Logout => to = Nowhere
    BY Names DEF Leads
  <1>4. q.frag = Nowhere => to = q.ret
    OBVIOUS
  <1> HIDE DEF to
  <1>5. q.uri \in {SendOtp, Verify, Register} \/ (q.uri = Login /\ ~anon) =>
           Returns(s, host, w, q.ret) /\ Right(s, w, Safe(host, q.ret))
    BY <1>3, <1>4, Names DEF Returns
  <1>6. q.uri = Logout => Right(s, w, Root) /\ Returns(s, host, w, Nowhere)
    BY <1>2, <1>3 DEF Returns
  <1>7. q.uri = Login => Right(s, w, IF q.ret # Nowhere THEN Safe(host, q.ret)
                                     ELSE IF Carriable(q.frag) THEN q.frag ELSE Root)
    <2>1. CASE q.ret # Nowhere
      BY <1>3, <2>1 DEF Returns, to
    <2>2. CASE q.ret = Nowhere /\ Carriable(q.frag)
      BY <1>2, <1>3, <2>2 DEF Returns, to, Carriable
    <2>3. CASE q.ret = Nowhere /\ ~Carriable(q.frag)
      <3>1. CASE q.frag = Nowhere
        BY <1>2, <1>3, <2>3, <3>1, Names DEF Returns, to
      <3>2. CASE q.frag # Nowhere
        <4>1. q.uri = Login => Right(s, w, q.frag)
          BY <1>2, <1>3, <2>3, <3>2 DEF Returns, to
        <4> QED
          BY <2>3, <4>1, LostIsRoot
      <3> QED
        BY <3>1, <3>2
    <2> QED
      BY <2>1, <2>2, <2>3
  <1> QED
    BY <1>2, <1>3, <1>5, <1>6, <1>7 DEF to

\* Who has a session goes back to the page.
LEMMA LoginBackKeeps ==
  ASSUME SiteInvariant, NEW t \in Tabs, LoginBack(t)
  PROVE  SiteInvariant'
  <1> DEFINE b == tab[t]
             to == Safe(b.host, b.ask.ret)
             x == Redirected(b, Get(to))
  <1>1. Answering(t, Login) /\ Back(b) /\ Becomes(t, x) /\ UNCHANGED <<jar, cache, rendered>>
    BY DEF LoginBack
  <1>2. /\ b.ask.uri = Login /\ UNCHANGED <<visit, clock, shut, passkeys>> /\ clock \in Nat
        /\ Carried(b) /\ b.host \in Hosts /\ Asked(b.wanted) /\ b.ask \in Request
        /\ Situation.entry[b.host].r = None /\ (b.known \/ Decent(b.wanted))
        /\ ~b.beaten => Leads(Situation, b.host, b.wanted, Anonymous(b.sent), b.ask)
    BY <1>1, AtOriginIsSound
  <1>3. ~Anonymous(b.sent)
    BY <1>1 DEF Back, Unexpired, Anonymous
  <1> HIDE DEF b
  <1>4. to \in Path
    <2>1. b.ask.ret \in Path
      BY <1>2 DEF Request, Path
    <2> QED
      BY <1>2, <2>1, SafeIs
  <1>5. ~b.beaten => Right(Situation, b.wanted, to)
    BY <1>2, <1>3, BackIs
  <1> HIDE DEF to
  <1>6. x \in Tab /\ \A anon : TabSound(Situation, clock, shut, passkeys, anon, t, x)
    BY <1>2, <1>4, <1>5, HomeSound
  <1>7. Sound(t, x)
    BY <1>6 DEF Sound
  <1> QED
    BY <1>1, <1>2, <1>7, OneTab

\* The page that asks for the code.
LEMMA CodePageSound ==
  ASSUME SiteInvariant, NEW t \in Tabs, NEW uri \in {SendOtp, Verify}, Answering(t, uri),
         NEW x, x = At(tab[t], "code", tab[t].ask.ret)
  PROVE  Sound(t, x)
  <1> DEFINE b == tab[t]
             to == b.ask.ret
             anon == Sessionless(Situation, jar, t, x)
  <1>1. /\ b.ask.uri = uri /\ clock \in Nat
        /\ Carried(b) /\ b.host \in Hosts /\ Asked(b.wanted) /\ b.ask \in Request /\ to \in Path
        /\ Situation.entry[b.host].r = None /\ (b.known \/ Decent(b.wanted))
        /\ ~b.beaten => Leads(Situation, b.host, b.wanted, Anonymous(b.sent), b.ask)
    BY AtOriginIsSound
  <1>2. x = At(b, "code", to)
    OBVIOUS
  <1> HIDE DEF b, anon
  <1>3. ~b.beaten => Returns(Situation, b.host, b.wanted, to)
    BY <1>1, BackIs
  <1> HIDE DEF to
  <1>4. x \in Tab /\ TabSound(Situation, clock, shut, passkeys, anon, t, x)
    BY <1>1, <1>2, <1>3, AtSound
  <1> QED
    BY <1>4 DEF Sound, anon

\* A tab whose renewal, or form, failed.
Failed(b, f) ==
    /\ f \in Tab /\ f.failed = TRUE /\ f.ask = b.ask /\ f.sent = b.sent /\ f.host = b.host
    /\ f.wanted = b.wanted /\ f.hops = b.hops /\ f.beaten = b.beaten /\ f.spurned = b.spurned
    /\ f.known = b.known

\* A tab marked as failed is the same otherwise.
LEMMA FailedIs ==
  ASSUME NEW b \in Tab, NEW f, f = [b EXCEPT !.failed = TRUE]
  PROVE  Failed(b, f)
  BY DEF Failed, Tab

\* The login page after a form.
LEMMA AgainSound ==
  ASSUME SiteInvariant, NEW t \in Tabs, NEW uri \in {SendOtp, Verify}, Answering(t, uri),
         NEW f, Failed(tab[t], f), NEW form \in Forms,
         form.lang = Who(t).lang, ~form.key, form.mail = Who(t).name, NEW x, x = Shown(f, form)
  PROVE  Sound(t, x)
  <1> DEFINE b == tab[t]
             anon == Sessionless(Situation, jar, t, x)
  <1>1. /\ b.ask.uri = uri /\ clock \in Nat
        /\ Carried(b) /\ b.host \in Hosts /\ Asked(b.wanted) /\ b.ask \in Request /\ b.sent \in Jar
        /\ Situation.entry[b.host].r = None /\ (b.known \/ Decent(b.wanted))
        /\ ~b.beaten => Leads(Situation, b.host, b.wanted, Anonymous(b.sent), b.ask)
        /\ b \in Tab
    BY AtOriginIsSound
  <1>2. Who(t) = Situation.who[t]
    BY StateIs
  <1> HIDE DEF anon
  <1>3. /\ f \in Tab /\ f.failed = TRUE /\ f.ask = b.ask /\ f.sent = b.sent /\ f.host = b.host
        /\ f.wanted = b.wanted /\ f.hops = b.hops /\ f.beaten = b.beaten /\ f.spurned = b.spurned
        /\ f.known = b.known
    BY DEF Failed
  <1> HIDE DEF b
  <1>5. Carried(f) /\ f.ask \in Request /\ f.sent \in Jar /\ f.failed \in BOOLEAN
    BY <1>1, <1>3 DEF Carried
  <1>6. x.pc = "login" /\ x.form = form
    BY <1>5, ShownForm
  <1>7. OwnPage(Situation, passkeys, t, x)
    BY <1>2, <1>6 DEF OwnPage
  <1>8. ~f.beaten => Returns(Situation, f.host, f.wanted, IF f.ask.ret # Nowhere THEN f.ask.ret ELSE f.ask.frag)
    <2>1. uri # Login /\ Under(uri, AuthTree)
      BY Names
    <2> QED
      BY <1>1, <1>3, <2>1 DEF Leads
  <1>9. x \in Tab /\ TabSound(Situation, clock, shut, passkeys, anon, t, x)
    BY <1>1, <1>2, <1>3, <1>5, <1>7, <1>8, ShownSound
  <1> QED
    BY <1>9 DEF Sound, anon

\* A form is answered by the code page or the login page again.
LEMMA FormAnswered ==
  ASSUME SiteInvariant, NEW t \in Tabs, NEW uri \in {SendOtp, Verify}, Answering(t, uri),
         Becomes(t, At(tab[t], "code", tab[t].ask.ret)) \/ LoginAgain(t), UNCHANGED <<jar, cache, rendered>>
  PROVE  SiteInvariant'
  <1>1. UNCHANGED <<visit, clock, shut, passkeys>>
    BY DEF Answering
  <1>2. PICK x : Sound(t, x) /\ Becomes(t, x)
    <2>1. CASE Becomes(t, At(tab[t], "code", tab[t].ask.ret))
      BY <2>1, CodePageSound
    <2>2. CASE LoginAgain(t)
      <3> DEFINE f == [tab[t] EXCEPT !.failed = TRUE]
                 form == Form(Who(t).lang, FALSE, Who(t).name)
      <3>1. Failed(tab[t], f)
        BY FailedIs, StateIs
      <3>2. form \in Forms /\ form.lang = Who(t).lang /\ ~form.key /\ form.mail = Who(t).name
        <4>1. Who(t).lang \in Languages /\ Who(t).name \in People
          BY StateIs
        <4> QED
          BY <4>1 DEF Form, Forms
      <3>3. Becomes(t, Shown(f, form))
        BY <2>2 DEF LoginAgain
      <3> HIDE DEF f, form
      <3>4. Sound(t, Shown(f, form))
        BY <3>1, <3>2, AgainSound
      <3> QED
        BY <3>3, <3>4
    <2> QED
      BY <2>1, <2>2
  <1> QED
    BY <1>1, <1>2, OneTab

\* send-otp is.
LEMMA AnswerSendKeeps ==
  ASSUME SiteInvariant, NEW t \in Tabs, AnswerSend(t)
  PROVE  SiteInvariant'
  BY FormAnswered DEF AnswerSend

\* So is verify, of a wrong code.
LEMMA WrongCodeKeeps ==
  ASSUME SiteInvariant, NEW t \in Tabs, WrongCode(t)
  PROVE  SiteInvariant'
  BY FormAnswered DEF WrongCode

\* The offer of a passkey, or on to the page.
LEMMA AnswerRegisterKeeps ==
  ASSUME SiteInvariant, NEW t \in Tabs, AnswerRegister(t)
  PROVE  SiteInvariant'
  <1> DEFINE b == tab[t]
             to == Safe(b.host, b.ask.ret)
  <1>1. Answering(t, Register) /\ UNCHANGED <<jar, cache, rendered>>
    BY DEF AnswerRegister
  <1>2. PICK x : (x = At(b, "offer", to) \/ x = Redirected(b, Get(to))) /\ Becomes(t, x)
    BY DEF AnswerRegister
  <1>3. /\ b.ask.uri = Register /\ UNCHANGED <<visit, clock, shut, passkeys>> /\ clock \in Nat
        /\ Carried(b) /\ b.host \in Hosts /\ Asked(b.wanted) /\ b.ask \in Request
        /\ Situation.entry[b.host].r = None /\ (b.known \/ Decent(b.wanted))
        /\ ~b.beaten => Leads(Situation, b.host, b.wanted, Anonymous(b.sent), b.ask)
    BY <1>1, AtOriginIsSound
  <1> HIDE DEF b
  <1>4. to \in Path /\ (~b.beaten => Right(Situation, b.wanted, to))
    <2>1. b.ask.ret \in Path
      BY <1>3 DEF Request, Path
    <2>2. to \in Path
      BY <1>3, <2>1, SafeIs
    <2>3. ~b.beaten => Right(Situation, b.wanted, to)
      BY <1>3, BackIs
    <2> QED
      BY <2>2, <2>3
  <1> HIDE DEF to
  <1>5. ~b.beaten => Relative(to)
    BY <1>3, <1>4, RightIs
  <1> DEFINE anon == Sessionless(Situation, jar, t, x)
  <1> HIDE DEF anon
  <1>6. x \in Tab /\ TabSound(Situation, clock, shut, passkeys, anon, t, x)
    <2>1. CASE x = At(b, "offer", to)
      BY <1>3, <1>4, <1>5, <2>1, AtSound
    <2>2. CASE x = Redirected(b, Get(to))
      BY <1>3, <1>4, <2>2, HomeSound
    <2> QED
      BY <1>2, <2>1, <2>2
  <1>7. Sound(t, x)
    BY <1>6 DEF Sound, anon
  <1> QED
    BY <1>1, <1>2, <1>3, <1>7, OneTab

\* The authorizer refuses nobody but with a reason.
LEMMA RefusedSound ==
  ASSUME SiteInvariant, NEW t \in Tabs, NEW uri, ~Under(uri, AuthTree), Answering(t, uri),
         NEW b, b = tab[t], GatedAtOrigin(EntryOf(b.host), uri), ~Honoured(b.sent),
         NEW x, x = [b EXCEPT !.pc = "refused"]
  PROVE  Sound(t, x)
  <1> DEFINE o == Situation.entry[b.host]
             e == EntryOf(b.host)
  <1>1. /\ b \in Tab /\ b.host \in Hosts /\ clock \in Nat /\ uri \in Path /\ b.ask.uri = uri
        /\ Asked(b.wanted) /\ b.hops <= MaxRedirects /\ LetThrough(Situation, shut, b) /\ b.sent \in Jar
    BY AtOriginIsSound
  <1>2. b.shownAt <= clock /\ ~b.again /\ ~b.forced
    BY DEF SiteInvariant, TabSound
  <1>3. e.pub = o.pub /\ Written(e)
    BY <1>1, EntryIs
  <1>4. shut.row
    BY DEF GatedAtOrigin
  <1> HIDE DEF e, o
  <1>5. ~(Platform(uri) \/ Public(uri, e.pub))
    BY <1>1, <1>3, SameGate DEF e
  <1>6. Anonymous(b.sent) => b.lagged
    BY <1>1, <1>3, <1>4, <1>5 DEF LetThrough, o
  <1>7. ~Anonymous(b.sent) => ~b.sent.good \/ b.sent.id < clock
    <2>1. b.sent.id \in Nat
      BY <1>1 DEF Jar
    <2> QED
      BY <1>1, <2>1 DEF Honoured, Unexpired, Anonymous
  <1>8. "refused" \in Stages
    BY DEF Stages
  <1>9. /\ x \in Tab /\ x.pc = "refused" /\ x.sent = b.sent /\ x.lagged = b.lagged /\ x.wanted = b.wanted
        /\ x.hops = b.hops /\ x.shownAt = b.shownAt /\ x.again = b.again /\ x.forced = b.forced
    BY <1>1, <1>8 DEF Tab
  <1>10. Justified(clock, x)
    BY <1>6, <1>7, <1>9 DEF Justified
  <1>11. OwnPage(Situation, passkeys, t, x) /\ InItsPlace(Situation, x)
    BY <1>9 DEF OwnPage, InItsPlace
  <1> QED
    BY <1>1, <1>2, <1>9, <1>10, <1>11 DEF Sound, TabSound

\* The application's own redirect, with the page's path or its address.
LEMMA OwnRedirectSound ==
  ASSUME SiteInvariant, NEW t \in Tabs, NEW uri, ~Under(uri, AuthTree), Answering(t, uri),
         NEW b, b = tab[t], Situation.own # None,
         NEW to, to = (IF Situation.own = "address" THEN <<b.host>> ELSE <<>>) \o uri,
         NEW x, x = Redirected(b, Ask(TRUE, Login, to))
  PROVE  Sound(t, x)
  <1> DEFINE q == Ask(TRUE, Login, to)
             anon == Sessionless(Situation, jar, t, x)
  <1>1. /\ b.ask.uri = uri /\ uri \in Path /\ clock \in Nat /\ Carried(b) /\ b.host \in Hosts /\ Asked(b.wanted)
        /\ Situation.entry[b.host].r = None /\ (b.known \/ Decent(b.wanted)) /\ b.hops <= MaxRedirects
        /\ ~b.beaten => Leads(Situation, b.host, b.wanted, Anonymous(b.sent), b.ask)
    BY AtOriginIsSound
  <1>2. Situation.own \in {"path", "address"}
    BY StateIs DEF Sensible
  <1>3. to \in Path
    <2>1. <<b.host>> \in Seq(Tokens) /\ <<>> \in Seq(Tokens)
      BY <1>1, VisitAssumption
    <2>2. (IF Situation.own = "address" THEN <<b.host>> ELSE <<>>) \in Seq(Tokens)
      BY <2>1
    <2> QED
      BY <1>1, <2>2, ConcatProperties DEF Path
  <1>4. ASSUME ~b.beaten
        PROVE  Returns(Situation, b.host, b.wanted, to)
    <2>1. Right(Situation, b.wanted, uri) /\ Relative(uri)
      <3>1. Right(Situation, b.wanted, uri)
        BY <1>1, <1>4 DEF Leads
      <3> QED
        BY <1>1, <3>1, RightIs
    <2>2. CASE Situation.own = "address"
      <3>1. to = <<b.host>> \o uri
        BY <2>2
      <3>2. Safe(b.host, to) = uri
        BY <1>1, <2>1, <3>1, OwnAddress
      <3> QED
        BY <2>1, <2>2, <3>2 DEF Returns
    <2>3. CASE Situation.own # "address"
      <3>1. to = uri
        BY <1>1, <2>1, <2>3, OwnAddress
      <3>2. Safe(b.host, to) = uri
        BY <1>1, <2>1, <3>1, SafeIs
      <3> QED
        BY <2>1, <3>1, <3>2 DEF Returns
    <2> QED
      BY <2>2, <2>3
  <1>5. q \in Request /\ q.get = TRUE /\ q.uri = Login /\ q.ret = to /\ q.mail = None /\ q.frag = Nowhere
    BY <1>3, Names DEF Ask, Request, Path
  <1>6. x = Redirected(b, q)
    OBVIOUS
  <1> HIDE DEF q, anon
  <1>7. Sendable(Situation, anon, t, b, q)
    BY <1>1, <1>4, <1>5, Names, MaySend
  <1>8. x \in Tab /\ TabSound(Situation, clock, shut, passkeys, anon, t, x)
    BY <1>1, <1>5, <1>6, <1>7, RedirectSound
  <1> QED
    BY <1>8 DEF Sound, anon

\* The page itself.
LEMMA PageServedSound ==
  ASSUME SiteInvariant, NEW t \in Tabs, NEW uri, ~Under(uri, AuthTree), Answering(t, uri),
         NEW b, b = tab[t], NEW x, x = Landed(b, Place(EntryOf(b.host), "origin", uri))
  PROVE  Sound(t, x)
  <1> DEFINE o == Situation.entry[b.host]
             e == EntryOf(b.host)
             place == Place(e, "origin", uri)
             anon == Sessionless(Situation, jar, t, x)
  <1>1. /\ b.ask.uri = uri /\ uri \in Path /\ clock \in Nat /\ Carried(b) /\ b.host \in Hosts /\ Asked(b.wanted)
        /\ o.r = None /\ (b.known \/ Decent(b.wanted)) /\ b.ask \in Request
        /\ ~b.beaten => Leads(Situation, b.host, b.wanted, Anonymous(b.sent), b.ask)
        /\ LetThrough(Situation, shut, b)
    BY AtOriginIsSound
  <1>2. o.x = 0
    BY <1>1 DEF LetThrough
  <1>3. ~b.beaten => Right(Situation, b.wanted, b.ask.uri)
    BY <1>1 DEF Leads
  <1>4. o.g = e.g /\ o.stg = e.stg /\ (e.g = None \/ e.g \in Regions) /\ e.stg \in BOOLEAN
    BY <1>1, EntryIs
  <1> HIDE DEF e
  <1>5. /\ place \in Places /\ place.from = "origin" /\ place.staging = e.stg
        /\ IF e.g = None THEN place.region = Home ELSE Origins # {} => place.region = e.g
    BY <1>1, <1>4, PlaceIs
  <1>6. x = Landed(b, place)
    BY DEF e
  <1> HIDE DEF place, anon
  <1>7. x.place = place /\ x.host = b.host
    BY <1>1, <1>5, <1>6, LandedIs
  <1>8. InItsPlace(Situation, x)
    BY <1>1, <1>2, <1>4, <1>5, <1>7 DEF InItsPlace
  <1> HIDE DEF o
  <1>9. Situation.entry[b.host].r = None
    BY <1>1 DEF o
  <1>10. x \in Tab /\ TabSound(Situation, clock, shut, passkeys, anon, t, x)
    BY <1>1, <1>3, <1>5, <1>6, <1>8, <1>9, LandedSound
  <1> QED
    BY <1>10 DEF Sound, anon

\* The authorizer refuses, the application asks to log in, or the page comes.
LEMMA AnswerPageKeeps ==
  ASSUME SiteInvariant, NEW t \in Tabs, AnswerPage(t)
  PROVE  SiteInvariant'
  <1> DEFINE b == tab[t]
             uri == b.ask.uri
             e == EntryOf(b.host)
             to == (IF Situation.own = "address" THEN <<b.host>> ELSE <<>>) \o uri
  <1>1. ~Under(uri, AuthTree) /\ Answering(t, uri) /\ UNCHANGED <<jar, cache, rendered>>
    BY DEF AnswerPage
  <1>2. UNCHANGED <<visit, clock, shut, passkeys>>
    BY <1>1 DEF Answering
  <1>3. \/ GatedAtOrigin(e, uri) /\ ~Honoured(b.sent) /\ Becomes(t, [b EXCEPT !.pc = "refused"])
        \/ Situation.own # None /\ Becomes(t, Redirected(b, Ask(TRUE, Login, to)))
        \/ Becomes(t, Landed(b, Place(e, "origin", uri)))
    BY DEF AnswerPage
  <1>4. CASE GatedAtOrigin(e, uri) /\ ~Honoured(b.sent) /\ Becomes(t, [b EXCEPT !.pc = "refused"])
    <2> DEFINE x == [b EXCEPT !.pc = "refused"]
    <2>1. Sound(t, x)
      BY <1>1, <1>4, RefusedSound
    <2> QED
      BY <1>1, <1>2, <1>4, <2>1, OneTab
  <1>5. CASE Situation.own # None /\ Becomes(t, Redirected(b, Ask(TRUE, Login, to)))
    <2> DEFINE x == Redirected(b, Ask(TRUE, Login, to))
    <2>1. Sound(t, x)
      BY <1>1, <1>5, OwnRedirectSound
    <2> QED
      BY <1>1, <1>2, <1>5, <2>1, OneTab
  <1>6. CASE Becomes(t, Landed(b, Place(e, "origin", uri)))
    <2> DEFINE x == Landed(b, Place(e, "origin", uri))
    <2>1. Sound(t, x)
      BY <1>1, PageServedSound
    <2> QED
      BY <1>1, <1>2, <1>6, <2>1, OneTab
  <1> QED
    BY <1>3, <1>4, <1>5, <1>6

\* A tab that another one may have overtaken, or whose redirects count from here, or
\* whose renewal comes too late.
Overtaken(b, x) ==
    /\ x \in Tab /\ (b.beaten => x.beaten)
    /\ x.pc = b.pc /\ x.host = b.host /\ x.ask = b.ask /\ x.field = b.field
    /\ x.sent.id = b.sent.id /\ x.sent.good = b.sent.good
    /\ x.form = b.form /\ x.place = b.place /\ x.wanted = b.wanted /\ x.hops \in {b.hops, 0}
    /\ x.again = b.again /\ x.lagged = b.lagged /\ x.known = b.known /\ x.forced = b.forced
    /\ x.shownAt = b.shownAt

\* A tab marked as overtaken is the same otherwise.
LEMMA OvertakenIs ==
  ASSUME NEW b \in Tab, NEW p \in BOOLEAN, NEW x, x = [b EXCEPT !.beaten = @ \/ p]
  PROVE  Overtaken(b, x) /\ (p => x.beaten)
  <1> DEFINE v == b.beaten \/ p
  <1>1. v \in BOOLEAN /\ (b.beaten => v) /\ (p => v) /\ x = [b EXCEPT !.beaten = v]
    BY DEF Tab
  <1> HIDE DEF v
  <1>2. x \in Tab /\ x.beaten = v
    BY <1>1 DEF Tab
  <1>3. /\ x.pc = b.pc /\ x.host = b.host /\ x.ask = b.ask /\ x.sent = b.sent /\ x.field = b.field
        /\ x.form = b.form /\ x.place = b.place /\ x.wanted = b.wanted /\ x.hops = b.hops
        /\ x.again = b.again /\ x.lagged = b.lagged /\ x.known = b.known /\ x.forced = b.forced
        /\ x.shownAt = b.shownAt
    BY <1>1 DEF Tab
  <1> QED
    BY <1>1, <1>2, <1>3 DEF Overtaken

\* It stays sound, whatever the session it has now.
LEMMA OvertakenSound ==
  ASSUME NEW s, NEW now, NEW closing, NEW keys, NEW anon, NEW u, NEW b,
         TabSound(s, now, closing, keys, anon, u, b), NEW x, Overtaken(b, x),
         NEW other, x.beaten \/ (anon => other)
  PROVE  TabSound(s, now, closing, keys, other, u, x)
  <1>1. /\ b.beaten => x.beaten
        /\ x.pc = b.pc /\ x.host = b.host /\ x.ask = b.ask /\ x.field = b.field
        /\ x.sent.id = b.sent.id /\ x.sent.good = b.sent.good
        /\ x.form = b.form /\ x.place = b.place /\ x.wanted = b.wanted /\ x.hops \in {b.hops, 0} /\ MaxRedirects >= 0
        /\ x.again = b.again /\ x.lagged = b.lagged /\ x.known = b.known /\ x.forced = b.forced
        /\ x.shownAt = b.shownAt
    BY VisitAssumption DEF Overtaken
  <1>2. x.pc \in {"going", "origin"} => Sendable(s, other, u, x, x.ask)
    <2>1. ASSUME x.pc \in {"going", "origin"}
          PROVE  Sendable(s, other, u, x, x.ask)
      <3>1. Sendable(s, anon, u, b, b.ask)
        BY <1>1, <2>1 DEF TabSound
      <3>2. ~x.beaten => Leads(s, x.host, x.wanted, other, x.ask)
        BY <1>1, <3>1 DEF Sendable, Leads
      <3> QED
        BY <1>1, <3>1, <3>2 DEF Sendable
    <2> QED
      BY <2>1
  <1>3. x.pc \in {"origin", "login", "code", "assert", "offer", "create", "later", "page"} => Inside(s, x)
    BY <1>1 DEF TabSound, Inside
  <1>4. x.pc = "origin" => LetThrough(s, closing, x)
    BY <1>1 DEF TabSound, LetThrough, Anonymous
  <1>5. OwnPage(s, keys, u, x) /\ Justified(now, x) /\ InItsPlace(s, x)
    BY <1>1 DEF TabSound, OwnPage, Justified, InItsPlace, Anonymous
  <1>6. Asked(x.wanted) /\ x.shownAt <= now /\ (x.pc # "gaveUp" => x.hops <= MaxRedirects) /\ ~x.again /\ ~x.forced
    BY <1>1 DEF TabSound
  <1> QED
    BY <1>2, <1>3, <1>4, <1>5, <1>6 DEF TabSound

\* A tab whose redirects count from here is the same otherwise.
LEMMA RestedIs ==
  ASSUME NEW b \in Tab, NEW x, x = [b EXCEPT !.hops = 0]
  PROVE  Overtaken(b, x)
  <1>1. 0 \in 0..MaxRedirects + 1
    BY NothingTyped
  <1>2. x \in Tab /\ x.hops = 0
    BY <1>1 DEF Tab
  <1>3. /\ x.pc = b.pc /\ x.host = b.host /\ x.ask = b.ask /\ x.sent = b.sent /\ x.field = b.field
        /\ x.form = b.form /\ x.place = b.place /\ x.wanted = b.wanted
        /\ x.again = b.again /\ x.lagged = b.lagged /\ x.known = b.known /\ x.forced = b.forced
        /\ x.beaten = b.beaten /\ x.shownAt = b.shownAt
    BY DEF Tab
  <1> QED
    BY <1>2, <1>3 DEF Overtaken

\* A session whose refresh token is revoked is the same otherwise.
LEMMA DeadIs ==
  ASSUME NEW c \in Jar
  PROVE  Dead(c) \in Jar /\ Dead(c).id = c.id /\ Dead(c).good = c.good
  BY DEF Jar, Dead

\* So is a tab that somebody's logout makes too late.
LEMMA TooLateIs ==
  ASSUME NEW b \in Tab, NEW revoked \in BOOLEAN,
         NEW x, x = [b EXCEPT !.hops = 0, !.sent = IF revoked THEN Dead(@) ELSE @]
  PROVE  Overtaken(b, x)
  <1> DEFINE d == IF revoked THEN Dead(b.sent) ELSE b.sent
  <1>1. d \in Jar /\ d.id = b.sent.id /\ d.good = b.sent.good
    <2>1. b.sent \in Jar
      BY DEF Tab
    <2> QED
      BY <2>1, DeadIs
  <1>2. x = [b EXCEPT !.hops = 0, !.sent = d]
    BY DEF Tab
  <1> HIDE DEF d
  <1>3. 0 \in 0..MaxRedirects + 1
    BY NothingTyped
  <1>4. x \in Tab /\ x.hops = 0 /\ x.sent = d
    BY <1>1, <1>2, <1>3 DEF Tab
  <1>5. /\ x.pc = b.pc /\ x.host = b.host /\ x.ask = b.ask /\ x.field = b.field
        /\ x.form = b.form /\ x.place = b.place /\ x.wanted = b.wanted
        /\ x.again = b.again /\ x.lagged = b.lagged /\ x.known = b.known /\ x.forced = b.forced
        /\ x.beaten = b.beaten /\ x.shownAt = b.shownAt
    BY <1>2 DEF Tab
  <1> QED
    BY <1>1, <1>4, <1>5 DEF Overtaken

\* Somebody signs in: their other tabs are overtaken, nobody else's are.
LEMMA SignsInKeeps ==
  ASSUME SiteInvariant, UNCHANGED <<visit, clock, shut, passkeys, cache, rendered>>,
         NEW t \in Tabs, NEW x \in Tab,
         \A anon : TabSound(Situation, clock, shut, passkeys, anon, t, x),
         NEW c \in Jar, SignsIn(t, x, c)
  PROVE  SiteInvariant'
  <1> DEFINE box == Box(t, tab[t].host)
             d == [c EXCEPT !.id = clock + IdLife, !.good = TRUE, !.rt = "live"]
  <1>1. /\ tab \in [Tabs -> Tab] /\ jar \in [People \X Hosts -> Jar] /\ clock \in Nat
        /\ \A p \in People \X Hosts : jar[p].id <= clock + IdLife
        /\ \A u \in Tabs :
             TabSound(Situation, clock, shut, passkeys, Sessionless(Situation, jar, u, tab[u]), u, tab[u])
    BY DEF SiteInvariant, TypeOK
  <1>2. \A u \in Tabs : tab[u].host \in Hosts /\ Box(u, tab[u].host) = <<Situation.who[u].name, tab[u].host>>
                        /\ Box(u, tab[u].host) \in People \X Hosts
    <2>1. \A u \in Tabs : tab[u].host \in Hosts
      BY <1>1 DEF Tab
    <2> QED
      BY <2>1, StateIs
  <1>3. d \in Jar /\ d.id = clock + IdLife
    <2>1. clock + IdLife \in Nat
      BY <1>1, VisitAssumption
    <2> QED
      BY <2>1 DEF Jar
  <1>4. jar' = [jar EXCEPT ![box] = d]
    BY DEF SignsIn
  <1>5. tab' = [u \in Tabs |-> IF u = t THEN x
                               ELSE [tab[u] EXCEPT !.beaten = @ \/ Box(u, tab[u].host) = box]]
    BY DEF SignsIn
  <1> HIDE DEF box, d
  <1>6. ASSUME NEW u \in Tabs, u # t
        PROVE  Overtaken(tab[u], tab'[u]) /\ (Box(u, tab[u].host) = box => tab'[u].beaten)
    <2> DEFINE p == Box(u, tab[u].host) = box
    <2>1. tab'[u] = [tab[u] EXCEPT !.beaten = @ \/ p] /\ tab[u] \in Tab /\ p \in BOOLEAN
      BY <1>1, <1>5, <1>6
    <2> HIDE DEF p
    <2>2. Overtaken(tab[u], tab'[u]) /\ (p => tab'[u].beaten)
      BY <2>1, OvertakenIs
    <2> QED
      BY <2>2 DEF p
  <1>7. tab'[t] = x /\ tab' \in [Tabs -> Tab]
    <2>1. tab'[t] = x
      BY <1>5
    <2>2. \A u \in Tabs : tab'[u] \in Tab
      BY <1>6, <2>1 DEF Overtaken
    <2> QED
      BY <1>5, <2>1, <2>2
  <1>8. /\ jar' \in [People \X Hosts -> Jar] /\ \A p \in People \X Hosts : jar'[p].id <= clock + IdLife
        /\ \A p \in People \X Hosts : p # box => jar'[p] = jar[p]
    <2>1. box \in People \X Hosts
      BY <1>2 DEF box
    <2>2. jar' \in [People \X Hosts -> Jar] /\ jar'[box] = d /\ \A p \in People \X Hosts : p # box => jar'[p] = jar[p]
      BY <1>1, <1>3, <1>4, <2>1
    <2>3. d.id <= clock + IdLife
      <3>1. clock + IdLife \in Nat
        BY <1>1, VisitAssumption
      <3> QED
        BY <1>3, <3>1
    <2> QED
      BY <1>1, <2>2, <2>3
  <1>9. ASSUME NEW u \in Tabs
        PROVE  TabSound(Situation, clock, shut, passkeys, Sessionless(Situation, jar', u, tab'[u]), u, tab'[u])
    <2>1. CASE u = t
      BY <1>7, <2>1
    <2>2. CASE u # t /\ Box(u, tab[u].host) = box
      BY <1>1, <1>6, <2>2, OvertakenSound
    <2>3. CASE u # t /\ Box(u, tab[u].host) # box
      <3>1. Sessionless(Situation, jar', u, tab'[u]) = Sessionless(Situation, jar, u, tab[u])
        BY <1>2, <1>6, <1>8, <2>3 DEF Sessionless, Anonymous, Overtaken
      <3> QED
        BY <1>1, <1>6, <2>3, <3>1, OvertakenSound
    <2> QED
      BY <2>1, <2>2, <2>3
  <1>10. TypeOK'
    BY <1>7, <1>8 DEF SiteInvariant, TypeOK, Who, Situation
  <1>11. (passkeys.since <= clock)' /\ \A page \in cache' : PageSound(passkeys', page)
    BY DEF SiteInvariant
  <1>12. RendersKept'
    BY DEF SiteInvariant, RendersKept
  <1>13. Situation' = Situation
    BY DEF Situation
  <1> QED
    BY <1>9, <1>10, <1>11, <1>12, <1>13 DEF SiteInvariant

\* A renewal signs in and goes back to the page.
LEMMA RenewKeeps ==
  ASSUME SiteInvariant, NEW t \in Tabs, Renew(t)
  PROVE  SiteInvariant'
  <1> DEFINE b == tab[t]
             to == ResumeAt(b)
             x == Redirected(b, Get(to))
             c == jar[Box(t, b.host)]
  <1>1. Answering(t, Login) /\ SignsIn(t, x, c) /\ UNCHANGED <<cache, rendered>>
    BY DEF Renew
  <1>2. /\ b.ask.uri = Login /\ UNCHANGED <<visit, clock, shut, passkeys>> /\ clock \in Nat
        /\ Carried(b) /\ b.host \in Hosts /\ Asked(b.wanted) /\ b.ask \in Request
        /\ b.ask.ret \in Path /\ b.ask.frag \in Path
        /\ Situation.entry[b.host].r = None /\ (b.known \/ Decent(b.wanted))
        /\ ~b.beaten => Leads(Situation, b.host, b.wanted, Anonymous(b.sent), b.ask)
    BY <1>1, AtOriginIsSound
  <1>3. c \in Jar
    BY <1>2, StateIs
  <1> HIDE DEF b, c
  <1>4. to \in Path
    BY <1>2, SafeIs, Names DEF ResumeAt
  <1>5. ~b.beaten => Right(Situation, b.wanted, to)
    BY <1>2, BackIs DEF ResumeAt
  <1> HIDE DEF to
  <1>6. x \in Tab /\ \A anon : TabSound(Situation, clock, shut, passkeys, anon, t, x)
    BY <1>2, <1>4, <1>5, HomeSound
  <1> HIDE DEF x
  <1> QED
    BY <1>1, <1>2, <1>3, <1>6, SignsInKeeps

\* The right code signs in, and goes back or offers a passkey.
LEMMA RightCodeKeeps ==
  ASSUME SiteInvariant, NEW t \in Tabs, RightCode(t)
  PROVE  SiteInvariant'
  <1> DEFINE b == tab[t]
             to == Safe(b.host, b.ask.ret)
             c == jar[Box(t, b.host)]
  <1>1. Answering(t, Verify) /\ UNCHANGED <<cache, rendered>>
    BY DEF RightCode
  <1>2. PICK x, d :
           /\ x = Redirected(b, Ask(TRUE, Register, to)) \/ x = Redirected(b, Get(to))
           /\ d = [c EXCEPT !.mail = TRUE, !.at = clock + AccessLife] \/ d = [c EXCEPT !.mail = TRUE, !.at = @]
           /\ SignsIn(t, x, d)
    <2>1. PICK on \in Offers(b.host) :
             SignsIn(t, Redirected(b, IF on /\ ~b.sent.pk THEN Ask(TRUE, Register, to) ELSE Get(to)),
                     [c EXCEPT !.mail = TRUE, !.at = IF on /\ ~b.sent.pk THEN clock + AccessLife ELSE @])
      BY DEF RightCode
    <2>2. CASE on /\ ~b.sent.pk
      BY <2>1, <2>2
    <2>3. CASE ~(on /\ ~b.sent.pk)
      BY <2>1, <2>3
    <2> QED
      BY <2>2, <2>3
  <1>3. /\ b.ask.uri = Verify /\ UNCHANGED <<visit, clock, shut, passkeys>> /\ clock \in Nat
        /\ Carried(b) /\ b.host \in Hosts /\ Asked(b.wanted) /\ b.ask \in Request /\ b.ask.ret \in Path
        /\ Situation.entry[b.host].r = None /\ (b.known \/ Decent(b.wanted)) /\ b.hops <= MaxRedirects
        /\ ~b.beaten => Leads(Situation, b.host, b.wanted, Anonymous(b.sent), b.ask)
    BY <1>1, AtOriginIsSound
  <1>4. c \in Jar
    BY <1>3, StateIs
  <1> HIDE DEF b, c
  <1>5. to \in Path
    BY <1>3, SafeIs
  <1>6. ~b.beaten => Right(Situation, b.wanted, to)
    BY <1>3, BackIs
  <1> HIDE DEF to
  <1>7. d \in Jar
    <2>1. clock + AccessLife \in Nat
      BY <1>3, VisitAssumption
    <2> QED
      BY <1>2, <1>4, <2>1 DEF Jar
  <1>8. x \in Tab /\ \A anon : TabSound(Situation, clock, shut, passkeys, anon, t, x)
    <2>1. CASE x = Redirected(b, Get(to))
      BY <1>3, <1>5, <1>6, <2>1, HomeSound
    <2>2. CASE x = Redirected(b, Ask(TRUE, Register, to))
      <3> DEFINE q == Ask(TRUE, Register, to)
      <3>1. q \in Request /\ q.get = TRUE /\ q.uri = Register /\ q.ret = to /\ q.mail = None /\ q.frag = Nowhere
        BY <1>5, Names DEF Ask, Request, Path
      <3>2. x = Redirected(b, q)
        BY <2>2
      <3> HIDE DEF q
      <3>3. ~b.beaten => Returns(Situation, b.host, b.wanted, to)
        <4>1. ~b.beaten => Relative(to)
          BY <1>3, <1>6, RightIs
        <4> QED
          BY <1>3, <1>5, <1>6, <4>1, SafeIs DEF Returns
      <3>4. \A anon : Sendable(Situation, anon, t, b, q)
        BY <1>3, <3>1, <3>3, Names, MaySend
      <3> QED
        BY <1>3, <3>1, <3>2, <3>4, RedirectSound
    <2> QED
      BY <1>2, <2>1, <2>2
  <1> QED
    BY <1>1, <1>2, <1>3, <1>7, <1>8, SignsInKeeps

\* A tab moves on and the cookies of a host change, without a new session.
LEMMA TabsAndJar ==
  ASSUME SiteInvariant, UNCHANGED <<visit, clock, shut, passkeys, cache, rendered>>,
         NEW t \in Tabs, NEW x \in Tab,
         \A anon : TabSound(Situation, clock, shut, passkeys, anon, t, x), tab' = [u \in Tabs |-> tab'[u]],
         tab'[t] = x, \A u \in Tabs \ {t} : Overtaken(tab[u], tab'[u]),
         NEW box \in People \X Hosts, NEW c \in Jar, c.id <= jar[box].id, jar' = [jar EXCEPT ![box] = c]
  PROVE  SiteInvariant'
  <1>1. /\ tab \in [Tabs -> Tab] /\ jar \in [People \X Hosts -> Jar] /\ clock \in Nat /\ IdLife \in Nat
        /\ \A p \in People \X Hosts : jar[p].id <= clock + IdLife
        /\ \A u \in Tabs :
             TabSound(Situation, clock, shut, passkeys, Sessionless(Situation, jar, u, tab[u]), u, tab[u])
    BY VisitAssumption DEF SiteInvariant, TypeOK
  <1>2. tab' \in [Tabs -> Tab]
    BY DEF Overtaken
  <1>3. /\ jar' \in [People \X Hosts -> Jar]
        /\ \A p \in People \X Hosts : jar'[p].id <= jar[p].id /\ jar'[p].id \in Nat /\ jar[p].id \in Nat
    <2>1. jar' \in [People \X Hosts -> Jar] /\ jar'[box] = c /\ \A p \in People \X Hosts : p # box => jar'[p] = jar[p]
      BY <1>1
    <2>2. \A p \in People \X Hosts : jar'[p].id \in Nat /\ jar[p].id \in Nat
      BY <1>1, <2>1 DEF Jar
    <2>3. \A p \in People \X Hosts : jar'[p].id <= jar[p].id
      BY <2>1, <2>2
    <2> QED
      BY <2>1, <2>2, <2>3
  <1>4. ASSUME NEW u \in Tabs
        PROVE  TabSound(Situation, clock, shut, passkeys, Sessionless(Situation, jar', u, tab'[u]), u, tab'[u])
    <2>1. CASE u = t
      BY <2>1
    <2>2. CASE u # t
      <3>1. Overtaken(tab[u], tab'[u])
        BY <2>2
      <3>2. Sessionless(Situation, jar, u, tab[u]) => Sessionless(Situation, jar', u, tab'[u])
        <4>1. tab[u].host \in Hosts
          BY <1>1 DEF Tab
        <4>2. <<Situation.who[u].name, tab[u].host>> \in People \X Hosts
          BY <4>1, StateIs
        <4> QED
          BY <1>3, <3>1, <4>2 DEF Sessionless, Anonymous, Overtaken
      <3> QED
        BY <1>1, <3>1, <3>2, OvertakenSound
    <2> QED
      BY <2>1, <2>2
  <1>5. \A p \in People \X Hosts : jar'[p].id <= clock + IdLife
    <2>1. clock + IdLife \in Nat
      BY <1>1
    <2> QED
      BY <1>1, <1>3, <2>1
  <1>6. TypeOK'
    BY <1>2, <1>3, <1>5 DEF SiteInvariant, TypeOK, Who, Situation
  <1>7. (passkeys.since <= clock)' /\ \A page \in cache' : PageSound(passkeys', page)
    BY DEF SiteInvariant
  <1>8. RendersKept'
    BY DEF SiteInvariant, RendersKept
  <1>9. Situation' = Situation
    BY DEF Situation
  <1> QED
    BY <1>4, <1>6, <1>7, <1>8, <1>9 DEF SiteInvariant

\* One tab moves on, and the cookies of a host change.
LEMMA OneTabAndJar ==
  ASSUME SiteInvariant, UNCHANGED <<visit, clock, shut, passkeys, cache, rendered>>,
         NEW t \in Tabs, NEW x \in Tab,
         \A anon : TabSound(Situation, clock, shut, passkeys, anon, t, x), Becomes(t, x),
         NEW box \in People \X Hosts, NEW c \in Jar, c.id <= jar[box].id, jar' = [jar EXCEPT ![box] = c]
  PROVE  SiteInvariant'
  <1>1. tab \in [Tabs -> Tab]
    BY DEF SiteInvariant, TypeOK
  <1>2. tab' = [u \in Tabs |-> tab'[u]] /\ tab'[t] = x /\ \A u \in Tabs \ {t} : tab'[u] = tab[u]
    BY <1>1 DEF Becomes
  <1>3. \A u \in Tabs \ {t} : Overtaken(tab[u], tab'[u])
    BY <1>1, <1>2 DEF Overtaken
  <1> QED
    BY <1>2, <1>3, TabsAndJar

\* The logout ends the session of this browser and host.
LEMMA AnswerLogoutKeeps ==
  ASSUME SiteInvariant, NEW t \in Tabs, AnswerLogout(t)
  PROVE  SiteInvariant'
  <1> DEFINE b == tab[t]
             x == Redirected(b, Get(Login))
             box == Box(t, b.host)
             c == jar[box]
             d == [c EXCEPT !.id = 0, !.good = TRUE, !.rt = "none"]
             q == Get(Login)
  <1>0. Answering(t, Logout) /\ jar' = [jar EXCEPT ![box] = d] /\ UNCHANGED <<cache, rendered>>
    BY DEF AnswerLogout
  <1>1. PICK revoked \in BOOLEAN :
          tab' = [u \in Tabs |-> IF u = t THEN x
                                 ELSE IF Box(u, tab[u].host) = box
                                 THEN [tab[u] EXCEPT !.hops = 0, !.sent = IF revoked THEN Dead(@) ELSE @]
                                 ELSE tab[u]]
    BY DEF AnswerLogout
  <1>2. /\ b.ask.uri = Logout /\ UNCHANGED <<visit, clock, shut, passkeys>> /\ clock \in Nat
        /\ Carried(b) /\ b.host \in Hosts /\ Asked(b.wanted) /\ b.ask \in Request
        /\ Situation.entry[b.host].r = None /\ (b.known \/ Decent(b.wanted)) /\ b.hops <= MaxRedirects
        /\ ~b.beaten => Leads(Situation, b.host, b.wanted, Anonymous(b.sent), b.ask)
    BY <1>0, AtOriginIsSound
  <1>3. box \in People \X Hosts /\ c \in Jar
    BY <1>2, StateIs
  <1> HIDE DEF b, c
  <1>4. d \in Jar /\ d.id <= c.id
    <2>1. d \in Jar /\ d.id = 0
      BY <1>3 DEF Jar
    <2>2. c.id \in Nat
      BY <1>3 DEF Jar
    <2> HIDE DEF d
    <2> QED
      BY <2>1, <2>2
  <1> HIDE DEF box, d
  <1>5. q \in Request /\ q.get = TRUE /\ q.uri = Login /\ q.ret = Nowhere /\ q.mail = None /\ q.frag = Nowhere
    BY LoginIs
  <1> HIDE DEF q
  <1>6. ~b.beaten => Returns(Situation, b.host, b.wanted, Nowhere)
    BY <1>2, BackIs
  <1>7. \A anon : Sendable(Situation, anon, t, b, q)
    BY <1>2, <1>5, <1>6, Names, MaySend
  <1>8. x \in Tab /\ \A anon : TabSound(Situation, clock, shut, passkeys, anon, t, x)
    BY <1>2, <1>5, <1>7, RedirectSound DEF q
  <1> HIDE DEF x
  <1> QED
    <2>1. \A u \in Tabs : tab[u] \in Tab
      BY StateIs
    <2>2. tab' = [u \in Tabs |-> tab'[u]] /\ tab'[t] = x
      BY <1>1
    <2>3. ASSUME NEW u \in Tabs \ {t}
          PROVE  Overtaken(tab[u], tab'[u])
      <3>1. tab'[u] = IF Box(u, tab[u].host) = box
                      THEN [tab[u] EXCEPT !.hops = 0, !.sent = IF revoked THEN Dead(@) ELSE @]
                      ELSE tab[u]
        BY <1>1
      <3>2. Overtaken(tab[u], tab[u])
        BY <2>1, RestedIs DEF Overtaken
      <3>3. Overtaken(tab[u], [tab[u] EXCEPT !.hops = 0, !.sent = IF revoked THEN Dead(@) ELSE @])
        BY <2>1, TooLateIs
      <3> QED
        BY <3>1, <3>2, <3>3
    <2> QED
      BY <1>0, <1>2, <1>3, <1>4, <1>8, <2>2, <2>3, TabsAndJar DEF c

\* The origin draws the form of the login page for tab f of t.
Drawn(t, f, button, mail, form) ==
    /\ f.host \in Hosts /\ f.ask \in Request /\ f.sent \in Jar /\ f.ask.mail \in {None, Who(t).name}
    /\ button \in Offers(f.host)
    /\ mail = IF f.ask.mail # None THEN f.ask.mail ELSE IF f.sent.mail THEN Who(t).name ELSE None
    /\ form = Form(Who(t).lang, button, mail)

\* The page that a login page's answer is, for the tab f and for the CDN.
LEMMA FormIs ==
  ASSUME SiteInvariant, NEW t \in Tabs, NEW f, NEW button, NEW mail, NEW form, Drawn(t, f, button, mail, form)
  PROVE  /\ form \in Forms /\ form.lang = Who(t).lang /\ form.mail = mail /\ mail \in {None, Who(t).name}
         /\ form.key => f.host \in PasskeyHosts /\ (passkeys.on \/ clock < passkeys.since + AuthLife)
  <1>1. PICK on \in IF clock < passkeys.since + AuthLife THEN BOOLEAN ELSE {passkeys.on} :
           button = (on /\ f.host \in PasskeyHosts)
    BY DEF Offers, Drawn
  <1>2. button \in BOOLEAN /\ (button => f.host \in PasskeyHosts /\ (passkeys.on \/ clock < passkeys.since + AuthLife))
    BY <1>1
  <1>3. Who(t).lang \in Languages /\ Who(t).name \in People
    BY StateIs
  <1>4. mail \in {None, Who(t).name}
    BY DEF Drawn
  <1>5. form \in Forms /\ form.lang = Who(t).lang /\ form.mail = mail /\ (form.key <=> button)
    BY <1>2, <1>3, <1>4 DEF Form, Forms, Drawn
  <1> QED
    BY <1>2, <1>4, <1>5

\* The page that the CDN keeps of it is sound.
LEMMA NewPageSound ==
  ASSUME SiteInvariant, NEW t \in Tabs, NEW f, f.ask.uri = Login, f.sent \in Jar, f.sent.rt = "none",
         NEW form \in Forms, form.lang = Who(t).lang,
         form.mail = (IF f.ask.mail # None THEN f.ask.mail ELSE IF f.sent.mail THEN Who(t).name ELSE None),
         form.key => f.host \in PasskeyHosts /\ (passkeys.on \/ clock < passkeys.since + AuthLife),
         NEW page, page = [key |-> CacheKeyOf(t, f), form |-> form, until |-> clock + CacheLife]
  PROVE  /\ PageSound(passkeys, page) /\ page.until \in clock + 1 .. clock + CacheLife
         /\ page.until = clock + CacheLife /\ page.key = CacheKeyOf(t, f)
  <1> DEFINE k == CacheKeyOf(t, f)
  <1>1. page.key = k /\ page.form = form /\ page.until = clock + CacheLife
    OBVIOUS
  <1>2. /\ k[1] = f.host /\ k[2] = Who(t).lang /\ k[3] = f.ask.uri
        /\ k[5] = f.ask.mail /\ k[6][2] = f.sent
        /\ k[6][1] = IF f.sent = NoCookie THEN None ELSE Who(t).name
    BY KeyIs
  <1> HIDE DEF k
  <1>3. f.sent.mail => f.sent # NoCookie
    BY DEF NoCookie
  <1>4. clock \in Nat /\ passkeys.since \in Int /\ CacheLife \in Nat \ {0} /\ AuthLife \in Nat
    BY StateIs, VisitAssumption
  <1>5. form.mail = IF k[5] # None THEN k[5] ELSE IF k[6][2].mail THEN k[6][1] ELSE None
    BY <1>2, <1>3
  <1>6. clock < passkeys.since + AuthLife => clock + CacheLife <= passkeys.since + CacheLife + AuthLife
    BY <1>4
  <1>7. form.key => k[1] \in PasskeyHosts /\ (passkeys.on \/ page.until <= passkeys.since + CacheLife + AuthLife)
    BY <1>1, <1>2, <1>6
  <1>8. clock + CacheLife \in clock + 1 .. clock + CacheLife
    BY <1>4
  <1>9. PageSound(passkeys, page)
    BY <1>1, <1>2, <1>5, <1>7 DEF PageSound
  <1> QED
    BY <1>1, <1>8, <1>9 DEF k

\* The origin answers with the login page of f, the tab of t once its renewal failed
\* or as it is.
LEMMA RenderKeeps ==
  ASSUME SiteInvariant, NEW t \in Tabs, Answering(t, Login), NEW b, b = tab[t],
         NEW f \in Tab, f.ask = b.ask, f.sent = b.sent, f.host = b.host, f.wanted = b.wanted,
         f.hops = b.hops, f.beaten = b.beaten, f.spurned = b.spurned, f.known = b.known,
         f.failed \/ f.sent.rt # "live", Render(t, f, Kept(f.sent)),
         jar' \in [People \X Hosts -> Jar], \A p \in People \X Hosts : jar'[p].id = jar[p].id
  PROVE  SiteInvariant'
  <1>1. /\ b.ask.uri = Login /\ UNCHANGED <<visit, clock, shut, passkeys>> /\ clock \in Nat
        /\ Carried(b) /\ b.host \in Hosts /\ Asked(b.wanted) /\ b.ask \in Request /\ b.sent \in Jar
        /\ Situation.entry[b.host].r = None /\ (b.known \/ Decent(b.wanted))
        /\ ~b.beaten => Leads(Situation, b.host, b.wanted, Anonymous(b.sent), b.ask)
        /\ LetThrough(Situation, shut, b) /\ b.ask.mail \in {None, Who(t).name}
    BY AtOriginIsSound
  <1> DEFINE r == <<f.host, Who(t).lang>>
             mail == IF f.ask.mail # None THEN f.ask.mail ELSE IF f.sent.mail THEN Who(t).name ELSE None
  <1>2. PICK button \in Offers(f.host) :
          LET form == Form(Who(t).lang, button, mail)
          IN /\ Becomes(t, Shown(f, form))
             /\ cache' = cache \cup IF Kept(f.sent) THEN {[key |-> CacheKeyOf(t, f), form |-> form, until |-> clock + CacheLife]} ELSE {}
             /\ rendered' = IF Plain(f) THEN [rendered EXCEPT ![r] = clock] ELSE rendered
    BY DEF Render
  <1> DEFINE form == Form(Who(t).lang, button, mail)
             x == Shown(f, form)
             page == [key |-> CacheKeyOf(t, f), form |-> form, until |-> clock + CacheLife]
             anon == Sessionless(Situation, jar', t, x)
  <1>3. /\ Becomes(t, x)
        /\ cache' = cache \cup IF Kept(f.sent) THEN {page} ELSE {}
        /\ rendered' = IF Plain(f) THEN [rendered EXCEPT ![r] = clock] ELSE rendered
    BY <1>2
  <1>4. /\ form \in Forms /\ form.lang = Who(t).lang /\ form.mail = mail /\ mail \in {None, Who(t).name}
        /\ form.key => f.host \in PasskeyHosts /\ (passkeys.on \/ clock < passkeys.since + AuthLife)
    <2> HIDE DEF mail
    <2>1. mail = (IF f.ask.mail # None THEN f.ask.mail ELSE IF f.sent.mail THEN Who(t).name ELSE None)
      BY DEF mail
    <2>2. form = Form(Who(t).lang, button, mail)
      OBVIOUS
    <2>3. f.host \in Hosts /\ f.ask \in Request /\ f.sent \in Jar /\ f.ask.mail \in {None, Who(t).name}
      BY <1>1
    <2>4. button \in Offers(f.host)
      OBVIOUS
    <2> HIDE DEF form
    <2>5. Drawn(t, f, button, mail, form)
      BY <2>1, <2>2, <2>3, <2>4 DEF Drawn
    <2> QED
      BY <2>5, FormIs
  <1>5. /\ f.ask.uri = Login /\ f.sent \in Jar /\ f.failed \in BOOLEAN /\ Carried(f) /\ Asked(f.wanted)
        /\ Situation.entry[f.host].r = None /\ (f.known \/ Decent(f.wanted)) /\ f.ask \in Request
        /\ f.host \in Hosts
    BY <1>1 DEF Carried, Tab
  <1> HIDE DEF form
  <1>6. f.sent.rt = "none" =>
           /\ PageSound(passkeys, page) /\ page.until \in clock + 1 .. clock + CacheLife
           /\ page.until = clock + CacheLife /\ page.key = CacheKeyOf(t, f)
    BY <1>1, <1>4, <1>5, NewPageSound
  <1> HIDE DEF x, page, anon, mail, r
  <1>7. x.pc = "login" /\ x.form = form /\ x.shownAt = clock /\ x.host = f.host
    BY <1>5, ShownForm DEF x
  <1>8. OwnPage(Situation, passkeys, t, x)
    <2>1. Who(t) = Situation.who[t] /\ passkeys.since \in Int /\ CacheLife \in Nat /\ AuthLife \in Nat
      BY StateIs, VisitAssumption
    <2>2. clock < passkeys.since + AuthLife => clock < passkeys.since + CacheLife + AuthLife
      BY <1>1, <2>1
    <2> QED
      BY <1>4, <1>7, <2>1, <2>2 DEF OwnPage
  <1>9. ~f.beaten => Returns(Situation, f.host, f.wanted, IF f.ask.ret # Nowhere THEN f.ask.ret ELSE f.ask.frag)
    BY <1>1, BackIs
  <1>10. x \in Tab /\ TabSound(Situation, clock, shut, passkeys, anon, t, x)
    BY <1>1, <1>4, <1>5, <1>8, <1>9, ShownSound DEF x
  <1>11. /\ tab \in [Tabs -> Tab] /\ jar \in [People \X Hosts -> Jar]
         /\ \A p \in People \X Hosts : jar[p].id <= clock + IdLife
         /\ rendered \in [Hosts \X {Who(u).lang : u \in Tabs} -> {-1} \cup 0..clock]
         /\ \A u \in Tabs :
              TabSound(Situation, clock, shut, passkeys, Sessionless(Situation, jar, u, tab[u]), u, tab[u])
    BY DEF SiteInvariant, TypeOK
  <1>12. tab' \in [Tabs -> Tab] /\ tab'[t] = x /\ \A u \in Tabs \ {t} : tab'[u] = tab[u]
    BY <1>3, <1>10, <1>11 DEF Becomes
  <1>13. ASSUME NEW u \in Tabs
         PROVE  TabSound(Situation, clock, shut, passkeys, Sessionless(Situation, jar', u, tab'[u]), u, tab'[u])
    <2>1. CASE u = t
      BY <1>10, <1>12, <2>1 DEF anon
    <2>2. CASE u # t
      <3>1. tab[u].host \in Hosts
        BY <1>11 DEF Tab
      <3>2. <<Situation.who[u].name, tab[u].host>> \in People \X Hosts
        BY <3>1, StateIs
      <3>3. Sessionless(Situation, jar', u, tab'[u]) = Sessionless(Situation, jar, u, tab[u])
        BY <1>12, <2>2, <3>2 DEF Sessionless, Anonymous
      <3> QED
        BY <1>11, <1>12, <2>2, <3>3
    <2> QED
      BY <2>1, <2>2
  <1>14. r \in DOMAIN rendered /\ r = <<f.host, Who(t).lang>>
    BY <1>5, <1>11 DEF r
  <1>15. /\ rendered' \in [Hosts \X {Who(u).lang : u \in Tabs} -> {-1} \cup 0..clock]
         /\ \A p \in DOMAIN rendered : p # r \/ ~Plain(f) => rendered'[p] = rendered[p]
         /\ Plain(f) => rendered'[r] = clock
    BY <1>1, <1>3, <1>11, <1>14
  <1>16. \A y \in cache' : PageSound(passkeys, y) /\ y.until \in clock + 1 .. clock + CacheLife
    BY <1>3, <1>6 DEF Kept, SiteInvariant, TypeOK
  <1>17. TypeOK'
    BY <1>1, <1>11, <1>12, <1>15, <1>16 DEF SiteInvariant, TypeOK, Who, Situation
  <1>18. RendersKept'
    <2>1. ASSUME NEW p \in DOMAIN rendered', rendered'[p] >= 0, clock' < rendered'[p] + CacheLife
          PROVE  \E y \in cache' : /\ y.key = CacheKey(p[1], p[2], Get(Login), <<None, NoCookie>>)
                                   /\ rendered'[p] + CacheLife <= y.until
      <3>1. CASE p # r \/ ~Plain(f)
        <4>1. p \in DOMAIN rendered /\ rendered'[p] = rendered[p] /\ clock' = clock
          BY <1>1, <1>11, <1>15, <2>1, <3>1
        <4>2. PICK y \in cache : /\ y.key = CacheKey(p[1], p[2], Get(Login), <<None, NoCookie>>)
                                 /\ rendered[p] + CacheLife <= y.until
          BY <2>1, <4>1 DEF SiteInvariant, RendersKept
        <4> QED
          BY <1>3, <4>1, <4>2
      <3>2. CASE p = r /\ Plain(f)
        <4>1. f.sent = NoCookie /\ f.ask.mail = None /\ f.sent.rt = "none" /\ Anonymous(f.sent)
          BY <3>2 DEF Plain, NoCookie, Anonymous
        <4>2. f.ask.ret = Nowhere
          BY <1>1, <1>5, <4>1 DEF LetThrough
        <4>3. CacheKeyOf(t, f) = CacheKey(p[1], p[2], Get(Login), <<None, NoCookie>>)
          BY <1>5, <1>14, <3>2, <4>1, <4>2, LoginIs DEF CacheKeyOf, CacheKey
        <4>4. page \in cache'
          BY <1>3, <4>1 DEF Kept
        <4>5. rendered'[p] + CacheLife <= page.until
          <5>1. clock + CacheLife \in Int
            BY <1>1, VisitAssumption
          <5> QED
            BY <1>6, <1>15, <3>2, <4>1, <5>1
        <4> QED
          BY <1>6, <4>1, <4>3, <4>4, <4>5
      <3> QED
        BY <3>1, <3>2
    <2> QED
      BY <2>1 DEF RendersKept
  <1>19. (passkeys.since <= clock)' /\ \A y \in cache' : PageSound(passkeys', y)
    BY <1>1, <1>16 DEF SiteInvariant
  <1>20. Situation' = Situation
    BY <1>1 DEF Situation
  <1> QED
    BY <1>1, <1>13, <1>17, <1>18, <1>19, <1>20 DEF SiteInvariant

\* The login page for who has no refresh token.
LEMMA LoginPageKeeps ==
  ASSUME SiteInvariant, NEW t \in Tabs, LoginPage(t)
  PROVE  SiteInvariant'
  <1> DEFINE b == tab[t]
  <1>1. Answering(t, Login) /\ b.sent.rt = "none" /\ Render(t, b, Kept(b.sent)) /\ jar' = jar
    BY DEF LoginPage
  <1>2. b \in Tab
    BY StateIs
  <1>3. jar' \in [People \X Hosts -> Jar] /\ \A p \in People \X Hosts : jar'[p].id = jar[p].id
    BY <1>1 DEF SiteInvariant, TypeOK
  <1> HIDE DEF b
  <1> QED
    BY <1>1, <1>2, <1>3, RenderKeeps DEF b

\* The login page for whose renewal failed.
LEMMA LoginPageRefusedKeeps ==
  ASSUME SiteInvariant, NEW t \in Tabs, LoginPageRefused(t)
  PROVE  SiteInvariant'
  <1> DEFINE b == tab[t]
             f == [b EXCEPT !.failed = TRUE]
             box == Box(t, b.host)
             d == [jar[box] EXCEPT !.rt = "none"]
  <1>1. /\ Answering(t, Login) /\ Render(t, f, Kept(b.sent))
        /\ jar' = jar \/ jar' = [jar EXCEPT ![box] = d]
    BY DEF LoginPageRefused
  <1>2. b \in Tab /\ b.host \in Hosts
    BY TabIs
  <1>3. Failed(b, f)
    BY <1>2, FailedIs
  <1>4. jar' \in [People \X Hosts -> Jar] /\ \A p \in People \X Hosts : jar'[p].id = jar[p].id
    <2>1. jar \in [People \X Hosts -> Jar] /\ box \in People \X Hosts
      BY <1>2, StateIs DEF SiteInvariant, TypeOK
    <2>2. d \in Jar /\ d.id = jar[box].id
      BY <2>1 DEF Jar
    <2> HIDE DEF box, d
    <2> QED
      BY <1>1, <2>1, <2>2
  <1> HIDE DEF f, b
  <1>5. /\ f \in Tab /\ f.ask = b.ask /\ f.sent = b.sent /\ f.host = b.host /\ f.wanted = b.wanted
        /\ f.hops = b.hops /\ f.beaten = b.beaten /\ f.spurned = b.spurned /\ f.known = b.known
        /\ f.failed
    BY <1>3 DEF Failed
  <1> QED
    BY <1>1, <1>4, <1>5, RenderKeeps DEF b

-----------------------------------------------------------------------------
(* The person's steps.                                                     *)

\* The tab of somebody who looks at a page, before they send a request from it.
LEMMA StillIs ==
  ASSUME SiteInvariant, NEW t \in Tabs, NEW o, o = tab[t], NEW b, b = Still(t)
  PROVE  /\ Carried(b) /\ Asked(b.wanted) /\ b.hops = 0 /\ b.hops <= MaxRedirects /\ ~b.spurned
         /\ b.host = o.host /\ b.wanted = o.wanted /\ b.beaten = o.beaten /\ b.known = o.known
         /\ b.host \in Hosts /\ o.field \in Path
         /\ o.pc \in {"login", "code", "assert", "offer", "create", "later", "page"} =>
              Inside(Situation, o) /\ Situation.entry[b.host].r = None /\ (b.known \/ Decent(b.wanted))
  <1>1. /\ o \in Tab /\ o.host \in Hosts /\ Asked(o.wanted) /\ o.wanted \in Path /\ o.field \in Path
        /\ o.beaten \in BOOLEAN /\ o.spurned \in BOOLEAN /\ o.known \in BOOLEAN
        /\ o.pc \in {"origin", "login", "code", "assert", "offer", "create", "later", "page"} => Inside(Situation, o)
    BY TabIs
  <1>2. b = [o EXCEPT !.hops = 0, !.spurned = FALSE]
    BY DEF Still
  <1>3. /\ b.host = o.host /\ b.wanted = o.wanted /\ b.beaten = o.beaten /\ b.known = o.known
        /\ b.hops = 0 /\ b.spurned \in BOOLEAN /\ ~b.spurned
    BY <1>1, <1>2 DEF Tab
  <1>4. MaxRedirects \in Nat
    BY VisitAssumption
  <1>5. Carried(b) /\ b.hops <= MaxRedirects
    BY <1>1, <1>3, <1>4 DEF Carried
  <1> QED
    BY <1>1, <1>3, <1>5 DEF Inside

\* A form of the sign-in is sent from a page of it.
LEMMA FormSent ==
  ASSUME SiteInvariant, NEW t \in Tabs, tab[t].pc \in {"login", "code", "assert"},
         UNCHANGED <<visit, clock, shut, passkeys, jar, cache, rendered>>,
         NEW uri \in {SendOtp, Verify}, NEW q, q = Ask(FALSE, uri, tab[t].field),
         Becomes(t, Sent(t, Still(t), q))
  PROVE  SiteInvariant'
  <1> DEFINE o == tab[t]
             b == Still(t)
             x == Sent(t, b, q)
             anon == Anonymous(jar[Box(t, b.host)])
  <1>1. /\ Carried(b) /\ Asked(b.wanted) /\ b.hops <= MaxRedirects
        /\ b.host = o.host /\ b.wanted = o.wanted /\ b.beaten = o.beaten /\ b.known = o.known
        /\ o.field \in Path
        /\ Inside(Situation, o) /\ Situation.entry[b.host].r = None /\ (b.known \/ Decent(b.wanted))
    BY StillIs
  <1>2. q \in Request /\ q.uri = uri /\ q.ret = o.field /\ q.mail = None /\ q.frag = Nowhere
    BY <1>1, Names DEF Ask, Request, Path
  <1>3. ~b.beaten => Returns(Situation, b.host, b.wanted, o.field)
    BY <1>1 DEF Inside
  <1>4. x = Sent(t, b, q) /\ Becomes(t, x)
    OBVIOUS
  <1> HIDE DEF b, x, anon, o
  <1>5. Sendable(Situation, anon, t, b, q)
    BY <1>1, <1>2, <1>3, Names, MaySend
  <1>6. Starts(t, b, q)
    BY <1>1, <1>2, <1>5 DEF Starts, anon
  <1>7. Sound(t, x)
    BY <1>4, <1>6, SentSound
  <1> QED
    BY <1>4, <1>7, OneTab

\* The address is sent.
LEMMA AskForCodeKeeps ==
  ASSUME SiteInvariant, NEW t \in Tabs, AskForCode(t)
  PROVE  SiteInvariant'
  BY FormSent DEF AskForCode, Acts

\* The code is sent.
LEMMA EnterCodeKeeps ==
  ASSUME SiteInvariant, NEW t \in Tabs, EnterCode(t)
  PROVE  SiteInvariant'
  BY FormSent DEF EnterCode, Acts

\* Another address: back to the login page, with the page and the address.
LEMMA BackToEmailKeeps ==
  ASSUME SiteInvariant, NEW t \in Tabs, BackToEmail(t)
  PROVE  SiteInvariant'
  <1> DEFINE o == tab[t]
             b == Still(t)
             q == [Ask(TRUE, Login, tab[t].field) EXCEPT !.mail = Who(t).name]
             x == Sent(t, b, q)
             anon == Anonymous(jar[Box(t, b.host)])
  <1>1. /\ o.pc = "code" /\ Becomes(t, x)
        /\ UNCHANGED <<visit, clock, shut, passkeys, jar, cache, rendered>>
    BY DEF BackToEmail, Acts
  <1>2. /\ Carried(b) /\ Asked(b.wanted) /\ b.hops <= MaxRedirects
        /\ b.host = o.host /\ b.wanted = o.wanted /\ b.beaten = o.beaten /\ b.known = o.known
        /\ o.field \in Path
        /\ Inside(Situation, o) /\ Situation.entry[b.host].r = None /\ (b.known \/ Decent(b.wanted))
    BY <1>1, StillIs
  <1>3. Who(t).name \in People /\ Who(t) = Situation.who[t]
    BY StateIs
  <1>4. /\ q \in Request /\ q.get = TRUE /\ q.uri = Login /\ q.ret = o.field /\ q.frag = Nowhere
        /\ q.mail = Who(t).name
    BY <1>2, <1>3, Names DEF Ask, Request, Path
  <1>5. ~b.beaten => Returns(Situation, b.host, b.wanted, o.field)
    BY <1>1, <1>2 DEF Inside
  <1>6. x = Sent(t, b, q) /\ Becomes(t, x)
    BY <1>1
  <1> HIDE DEF b, x, anon, o, q
  <1>7. Sendable(Situation, anon, t, b, q)
    BY <1>2, <1>3, <1>4, <1>5, Names, MaySend
  <1>8. Starts(t, b, q)
    BY <1>2, <1>4, <1>7 DEF Starts, anon
  <1>9. Sound(t, x)
    BY <1>6, <1>8, SentSound
  <1> QED
    BY <1>1, <1>6, <1>9, OneTab

\* Somebody who was offered a passkey goes on to the page.
LEMMA LaterKeeps ==
  ASSUME SiteInvariant, NEW t \in Tabs, Later(t)
  PROVE  SiteInvariant'
  <1> DEFINE o == tab[t]
             b == Still(t)
             q == Get(o.field)
             x == Sent(t, b, q)
             anon == Anonymous(jar[Box(t, b.host)])
  <1>1. /\ o.pc \in {"offer", "later"} /\ Becomes(t, x)
        /\ UNCHANGED <<visit, clock, shut, passkeys, jar, cache, rendered>>
    BY DEF Later, Acts
  <1>2. /\ Carried(b) /\ Asked(b.wanted) /\ b.hops <= MaxRedirects
        /\ b.host = o.host /\ b.wanted = o.wanted /\ b.beaten = o.beaten /\ b.known = o.known
        /\ o.field \in Path
        /\ Inside(Situation, o) /\ Situation.entry[b.host].r = None /\ (b.known \/ Decent(b.wanted))
    BY <1>1, StillIs
  <1>3. /\ q \in Request /\ q.get = TRUE /\ q.uri = o.field /\ q.ret = Nowhere /\ q.frag = Nowhere
        /\ q.mail = None
    BY <1>2, GetIs
  <1>4. ASSUME ~b.beaten
        PROVE  ~Under(o.field, AuthTree) /\ Right(Situation, b.wanted, o.field)
    <2>1. Right(Situation, b.wanted, o.field)
      BY <1>1, <1>2, <1>4 DEF Inside
    <2> QED
      BY <1>2, <2>1, RightIs
  <1>5. x = Sent(t, b, q) /\ Becomes(t, x)
    BY <1>1
  <1> HIDE DEF b, x, anon, o, q
  <1>6. Sendable(Situation, anon, t, b, q)
    BY <1>2, <1>3, <1>4, MaySend
  <1>7. Starts(t, b, q)
    BY <1>2, <1>3, <1>6 DEF Starts, anon
  <1>8. Sound(t, x)
    BY <1>5, <1>7, SentSound
  <1> QED
    BY <1>1, <1>5, <1>8, OneTab

\* A person signs out: from here on the tab is about the root.
LEMMA LogOutKeeps ==
  ASSUME SiteInvariant, NEW t \in Tabs, LogOut(t)
  PROVE  SiteInvariant'
  <1> DEFINE o == tab[t]
             a == Still(t)
             b == [Still(t) EXCEPT !.wanted = Root]
             q == Get(Logout)
             x == Sent(t, b, q)
             anon == Anonymous(jar[Box(t, b.host)])
  <1>1. /\ o.pc = "page" /\ Becomes(t, x)
        /\ UNCHANGED <<visit, clock, shut, passkeys, jar, cache, rendered>>
    BY DEF LogOut, Acts
  <1>2. /\ Carried(a) /\ a.hops <= MaxRedirects /\ a.host \in Hosts /\ Situation.entry[a.host].r = None
    BY <1>1, StillIs
  <1>3. /\ b.host = a.host /\ b.hops = a.hops /\ b.beaten = a.beaten /\ b.spurned = a.spurned /\ b.known = a.known
    BY DEF Still
  <1>4. b.wanted = Root
    <2>1. o \in Tab
      BY StateIs
    <2> QED
      BY <2>1 DEF Still, Tab
  <1>5. Root \in Path /\ Asked(Root) /\ Decent(Root)
    BY Names, RootIsDecent DEF Asked, Path
  <1>6. q \in Request /\ q.get = TRUE /\ q.uri = Logout /\ q.ret = Nowhere /\ q.frag = Nowhere /\ q.mail = None
    BY Names, GetIs
  <1>7. x = Sent(t, b, q) /\ Becomes(t, x)
    BY <1>1
  <1> HIDE DEF a, b, x, anon, o, q
  <1>8. Carried(b) /\ b.hops <= MaxRedirects /\ b.host \in Hosts /\ Situation.entry[b.host].r = None
    BY <1>2, <1>3, <1>4, <1>5 DEF Carried
  <1>9. Returns(Situation, b.host, b.wanted, Nowhere)
    BY <1>4, <1>8, Names, SafeIs DEF Returns, Right
  <1>10. Sendable(Situation, anon, t, b, q)
    BY <1>4, <1>5, <1>6, <1>8, <1>9, Names, MaySend
  <1>11. Starts(t, b, q)
    BY <1>4, <1>5, <1>6, <1>8, <1>10 DEF Starts, anon
  <1>12. Sound(t, x)
    BY <1>7, <1>11, SentSound
  <1> QED
    BY <1>1, <1>7, <1>12, OneTab

\* A tab asks for a page that somebody may ask for.
LEMMA VisitKeeps ==
  ASSUME SiteInvariant, NEW t \in Tabs, Visit(t)
  PROVE  SiteInvariant'
  <1>1. PICK uri \in Situation.wants[t] :
          Becomes(t, Sent(t, [NewTab(Who(t).host) EXCEPT !.wanted = uri], Get(uri)))
    BY DEF Visit
  <1>2. UNCHANGED <<visit, clock, shut, passkeys, jar, cache, rendered>>
    BY DEF Visit, Acts
  <1> DEFINE host == Who(t).host
             n == NewTab(host)
             b == [n EXCEPT !.wanted = uri]
             q == Get(uri)
             x == Sent(t, b, q)
             anon == Anonymous(jar[Box(t, b.host)])
  <1>3. Asked(uri) /\ uri \in Path /\ ~Under(uri, AuthTree) /\ host \in Hosts
    BY StateIs DEF Sensible, Asked, Path
  <1>4. n \in Tab /\ n.host = host /\ n.hops = 0 /\ n.beaten = FALSE /\ n.spurned = FALSE /\ n.known = FALSE
    BY <1>3, NewTabTyped DEF NewTab
  <1>5. q \in Request /\ q.get = TRUE /\ q.uri = uri /\ q.ret = Nowhere /\ q.frag = Nowhere /\ q.mail = None
    BY <1>3, GetIs
  <1>6. x = Sent(t, b, q) /\ Becomes(t, x)
    BY <1>1
  <1> HIDE DEF n, q, host
  <1>7. b.host = host /\ b.hops = 0 /\ b.beaten = FALSE /\ b.spurned = FALSE /\ b.known = FALSE /\ b.wanted = uri
    BY <1>4 DEF Tab
  <1>8. MaxRedirects \in Nat
    BY VisitAssumption
  <1> HIDE DEF b, x, anon
  <1>9. Carried(b) /\ b.hops <= MaxRedirects
    <2>1. b.hops \in 0..MaxRedirects /\ b.hops <= MaxRedirects
      BY <1>7, <1>8
    <2>2. b.beaten \in BOOLEAN /\ b.spurned \in BOOLEAN /\ b.known \in BOOLEAN
      BY <1>7
    <2>3. b.host \in Hosts /\ b.wanted \in Path
      BY <1>3, <1>7
    <2> QED
      BY <2>1, <2>2, <2>3 DEF Carried
  <1>10. Sendable(Situation, anon, t, b, q)
    BY <1>3, <1>5, <1>7, <1>9 DEF Sendable, Leads, Right
  <1>11. Starts(t, b, q)
    BY <1>3, <1>5, <1>7, <1>9, <1>10 DEF Starts, anon
  <1>12. Sound(t, x)
    BY <1>6, <1>11, SentSound
  <1> QED
    BY <1>2, <1>6, <1>12, OneTab

\* The passkey dialog, or a code after all.
LEMMA StartPasskeyKeeps ==
  ASSUME SiteInvariant, NEW t \in Tabs, StartPasskey(t)
  PROVE  SiteInvariant'
  <1> DEFINE o == tab[t]
             b == Still(t)
             x == At(b, "assert", o.field)
  <1>1. /\ o.pc = "login" /\ UNCHANGED <<visit, clock, shut, passkeys, jar, cache, rendered>>
        /\ Becomes(t, x) \/ Becomes(t, Sent(t, Still(t), Ask(FALSE, SendOtp, tab[t].field)))
    BY DEF StartPasskey, Acts
  <1>2. /\ Carried(b) /\ Asked(b.wanted) /\ b.host = o.host /\ b.wanted = o.wanted /\ b.beaten = o.beaten
        /\ o.field \in Path /\ Inside(Situation, o)
        /\ Situation.entry[b.host].r = None /\ (b.known \/ Decent(b.wanted))
    BY <1>1, StillIs
  <1>3. clock \in Nat
    BY StateIs
  <1>4. CASE Becomes(t, x)
    <2>1. ~b.beaten => Returns(Situation, b.host, b.wanted, o.field)
      BY <1>1, <1>2 DEF Inside
    <2> HIDE DEF b, o
    <2>2. x \in Tab /\ \A anon : TabSound(Situation, clock, shut, passkeys, anon, t, x)
      BY <1>2, <1>3, <2>1, AtSound
    <2> HIDE DEF x
    <2> QED
      BY <1>1, <1>4, <2>2, OneTab DEF Sound
  <1>5. CASE Becomes(t, Sent(t, Still(t), Ask(FALSE, SendOtp, tab[t].field)))
    BY <1>1, <1>5, FormSent
  <1> QED
    BY <1>1, <1>4, <1>5

\* The passkey was right: a session, and back to the page; or a code after all.
LEMMA FinishPasskeyKeeps ==
  ASSUME SiteInvariant, NEW t \in Tabs, FinishPasskey(t)
  PROVE  SiteInvariant'
  <1> DEFINE o == tab[t]
             to == Safe(o.host, o.field)
             x == Redirected(o, Get(to))
             c == jar[Box(t, o.host)]
             d == [c EXCEPT !.mail = TRUE, !.pk = TRUE]
  <1>1. /\ o.pc = "assert" /\ UNCHANGED <<visit, clock, shut, passkeys, cache, rendered>>
        /\ \/ SignsIn(t, x, d)
           \/ Becomes(t, Sent(t, Still(t), Ask(FALSE, SendOtp, tab[t].field))) /\ UNCHANGED jar
    BY DEF FinishPasskey, Acts
  <1>2. CASE SignsIn(t, x, d)
    <2>1. /\ Carried(o) /\ Asked(o.wanted) /\ o.host \in Hosts /\ o.field \in Path /\ Inside(Situation, o)
      BY <1>1, TabIs
    <2>2. c \in Jar /\ clock \in Nat
      BY <2>1, StateIs
    <2>3. Situation.entry[o.host].r = None /\ (o.known \/ Decent(o.wanted))
      BY <2>1 DEF Inside
    <2>4. to \in Path
      BY <2>1, SafeIs
    <2>5. ~o.beaten => Right(Situation, o.wanted, to)
      BY <1>1, <2>1 DEF Inside, Returns
    <2> HIDE DEF o, c, to
    <2>6. d \in Jar
      BY <2>2 DEF Jar
    <2>7. x \in Tab /\ \A anon : TabSound(Situation, clock, shut, passkeys, anon, t, x)
      BY <2>1, <2>2, <2>3, <2>4, <2>5, HomeSound
    <2> HIDE DEF x, d
    <2> QED
      BY <1>1, <1>2, <2>6, <2>7, SignsInKeeps
  <1>3. CASE Becomes(t, Sent(t, Still(t), Ask(FALSE, SendOtp, tab[t].field))) /\ UNCHANGED jar
    BY <1>1, <1>3, FormSent
  <1> QED
    BY <1>1, <1>2, <1>3

\* The passkey dialog of the offer, or later alone.
LEMMA StartRegisterKeeps ==
  ASSUME SiteInvariant, NEW t \in Tabs, StartRegister(t)
  PROVE  SiteInvariant'
  <1> DEFINE o == tab[t]
             b == Still(t)
  <1>1. /\ o.pc = "offer" /\ UNCHANGED <<visit, clock, shut, passkeys, jar, cache, rendered>>
        /\ Becomes(t, At(b, "create", o.field)) \/ Becomes(t, At(b, "later", o.field))
    BY DEF StartRegister, Acts
  <1>2. /\ Carried(b) /\ Asked(b.wanted) /\ b.host = o.host /\ b.wanted = o.wanted /\ b.beaten = o.beaten
        /\ o.field \in Path /\ Inside(Situation, o)
        /\ Situation.entry[b.host].r = None /\ (b.known \/ Decent(b.wanted))
    BY <1>1, StillIs
  <1>3. clock \in Nat
    BY StateIs
  <1>4. ~b.beaten => Relative(o.field) /\ Right(Situation, b.wanted, o.field)
    BY <1>1, <1>2 DEF Inside
  <1> HIDE DEF b, o
  <1>5. ASSUME NEW pc \in {"create", "later"}, NEW x, x = At(b, pc, o.field)
        PROVE  x \in Tab /\ \A anon : TabSound(Situation, clock, shut, passkeys, anon, t, x)
    BY <1>2, <1>3, <1>4, <1>5, AtSound
  <1>6. ASSUME NEW pc \in {"create", "later"}, Becomes(t, At(b, pc, o.field))
        PROVE  SiteInvariant'
    <2> DEFINE x == At(b, pc, o.field)
    <2>1. Sound(t, x)
      BY <1>5 DEF Sound
    <2> HIDE DEF x
    <2> QED
      BY <1>1, <1>6, <2>1, OneTab DEF x
  <1> QED
    BY <1>1, <1>6

\* The passkey is registered, and back to the page; or "later" alone.
LEMMA FinishRegisterKeeps ==
  ASSUME SiteInvariant, NEW t \in Tabs, FinishRegister(t)
  PROVE  SiteInvariant'
  <1> DEFINE o == tab[t]
             box == Box(t, o.host)
             c == jar[box]
             d == [c EXCEPT !.at = 0, !.pk = TRUE]
             x == Redirected(o, Get(o.field))
             y == At(o, "later", o.field)
  <1>1. /\ o.pc = "create" /\ UNCHANGED <<visit, clock, shut, passkeys, cache, rendered>>
        /\ \/ jar' = [jar EXCEPT ![box] = d] /\ Becomes(t, x)
           \/ Becomes(t, y) /\ UNCHANGED jar
    BY DEF FinishRegister, Acts
  <1>2. /\ Carried(o) /\ Asked(o.wanted) /\ o.host \in Hosts /\ o.field \in Path /\ Inside(Situation, o)
    BY <1>1, TabIs
  <1>3. box \in People \X Hosts /\ c \in Jar /\ clock \in Nat
    BY <1>2, StateIs
  <1>4. Situation.entry[o.host].r = None /\ (o.known \/ Decent(o.wanted))
    BY <1>2 DEF Inside
  <1>5. ~o.beaten => Relative(o.field) /\ Right(Situation, o.wanted, o.field)
    BY <1>1, <1>2 DEF Inside
  <1> HIDE DEF o, c
  <1>6. d \in Jar /\ d.id <= c.id
    <2>1. d \in Jar /\ d.id = c.id /\ c.id \in Nat
      BY <1>3 DEF Jar
    <2> HIDE DEF d
    <2> QED
      BY <2>1
  <1>7. x \in Tab /\ \A anon : TabSound(Situation, clock, shut, passkeys, anon, t, x)
    BY <1>2, <1>3, <1>4, <1>5, HomeSound
  <1>8. y \in Tab /\ \A anon : TabSound(Situation, clock, shut, passkeys, anon, t, y)
    BY <1>2, <1>3, <1>4, <1>5, AtSound
  <1> HIDE DEF x, y, box, d
  <1>9. CASE jar' = [jar EXCEPT ![box] = d] /\ Becomes(t, x)
    BY <1>1, <1>3, <1>6, <1>7, <1>9, OneTabAndJar DEF c
  <1>10. CASE Becomes(t, y) /\ UNCHANGED jar
    BY <1>1, <1>8, <1>10, OneTab DEF Sound
  <1> QED
    BY <1>1, <1>9, <1>10

-----------------------------------------------------------------------------
(* The rest of the world's steps.                                          *)

\* A tab whose cookies were revoked on the way: nothing that is judged by them is.
Revoked(b, x) ==
    /\ x \in Tab
    /\ x.pc = b.pc /\ x.host = b.host /\ x.ask = b.ask /\ x.field = b.field
    /\ x.sent.id = b.sent.id /\ x.sent.good = b.sent.good
    /\ x.form = b.form /\ x.place = b.place /\ x.wanted = b.wanted /\ x.hops = b.hops
    /\ x.again = b.again /\ x.lagged = b.lagged /\ x.known = b.known /\ x.forced = b.forced
    /\ x.beaten = b.beaten /\ x.shownAt = b.shownAt

\* It stays sound.
LEMMA RevokedSound ==
  ASSUME NEW s, NEW now, NEW closing, NEW keys, NEW anon, NEW u, NEW b,
         TabSound(s, now, closing, keys, anon, u, b), NEW x, Revoked(b, x)
  PROVE  TabSound(s, now, closing, keys, anon, u, x)
  <1>1. /\ x.pc = b.pc /\ x.host = b.host /\ x.ask = b.ask /\ x.field = b.field
        /\ x.sent.id = b.sent.id /\ x.sent.good = b.sent.good
        /\ x.form = b.form /\ x.place = b.place /\ x.wanted = b.wanted /\ x.hops = b.hops
        /\ x.again = b.again /\ x.lagged = b.lagged /\ x.known = b.known /\ x.forced = b.forced
        /\ x.beaten = b.beaten /\ x.shownAt = b.shownAt
    BY DEF Revoked
  <1>2. x.pc \in {"going", "origin"} => Sendable(s, anon, u, x, x.ask)
    BY <1>1 DEF TabSound, Sendable, Leads
  <1>3. x.pc \in {"origin", "login", "code", "assert", "offer", "create", "later", "page"} => Inside(s, x)
    BY <1>1 DEF TabSound, Inside
  <1>4. x.pc = "origin" => LetThrough(s, closing, x)
    BY <1>1 DEF TabSound, LetThrough, Anonymous
  <1>5. OwnPage(s, keys, u, x) /\ InItsPlace(s, x)
    BY <1>1 DEF TabSound, OwnPage, InItsPlace
  <1>6. Justified(now, x)
    BY <1>1 DEF TabSound, Justified, Anonymous
  <1>7. Asked(x.wanted) /\ x.shownAt <= now /\ (x.pc # "gaveUp" => x.hops <= MaxRedirects) /\ ~x.again /\ ~x.forced
    BY <1>1 DEF TabSound
  <1> QED
    BY <1>2, <1>3, <1>4, <1>5, <1>6, <1>7 DEF TabSound

\* A person's refresh tokens are revoked in every jar and on every way.
LEMMA RevokeKeeps ==
  ASSUME SiteInvariant, NEW p \in People, Revoke(p)
  PROVE  SiteInvariant'
  <1>1. /\ jar' = [b \in DOMAIN jar |-> IF b[1] = p THEN Dead(jar[b]) ELSE jar[b]]
        /\ tab' = [t \in Tabs |-> IF Who(t).name = p THEN [tab[t] EXCEPT !.sent = Dead(@)] ELSE tab[t]]
        /\ UNCHANGED <<visit, clock, shut, passkeys, key, cache, rendered>>
    BY DEF Revoke
  <1>2. /\ tab \in [Tabs -> Tab] /\ jar \in [People \X Hosts -> Jar] /\ clock \in Nat
        /\ \A b \in People \X Hosts : jar[b].id <= clock + IdLife
        /\ \A u \in Tabs :
             TabSound(Situation, clock, shut, passkeys, Sessionless(Situation, jar, u, tab[u]), u, tab[u])
    BY DEF SiteInvariant, TypeOK
  <1>3. \A c \in Jar : Dead(c) \in Jar /\ Dead(c).id = c.id /\ Dead(c).good = c.good
    BY DeadIs
  <1>4. jar' \in [People \X Hosts -> Jar] /\ \A b \in People \X Hosts : jar'[b].id = jar[b].id
    BY <1>1, <1>2, <1>3
  <1>5. ASSUME NEW u \in Tabs
        PROVE  Revoked(tab[u], tab'[u])
    <2>1. CASE Who(u).name = p
      <3> DEFINE d == Dead(tab[u].sent)
      <3>1. tab'[u] = [tab[u] EXCEPT !.sent = d] /\ tab[u] \in Tab
        BY <1>1, <1>2, <2>1
      <3>2. d \in Jar /\ d.id = tab[u].sent.id /\ d.good = tab[u].sent.good
        BY <1>3, <3>1 DEF Tab
      <3> HIDE DEF d
      <3>3. tab'[u] \in Tab /\ tab'[u].sent = d
        BY <3>1, <3>2 DEF Tab
      <3> QED
        BY <3>1, <3>2, <3>3 DEF Revoked, Tab
    <2>2. CASE Who(u).name # p
      BY <1>1, <1>2, <2>2 DEF Revoked
    <2> QED
      BY <2>1, <2>2
  <1>6. tab' \in [Tabs -> Tab]
    BY <1>1, <1>5 DEF Revoked
  <1>7. ASSUME NEW u \in Tabs
        PROVE  TabSound(Situation, clock, shut, passkeys, Sessionless(Situation, jar', u, tab'[u]), u, tab'[u])
    <2>1. tab[u].host \in Hosts
      BY <1>2 DEF Tab
    <2>2. <<Situation.who[u].name, tab[u].host>> \in People \X Hosts
      BY <2>1, StateIs
    <2>3. /\ tab'[u].pc = tab[u].pc /\ tab'[u].host = tab[u].host /\ tab'[u].sent.id = tab[u].sent.id
      BY <1>5 DEF Revoked
    <2>4. Sessionless(Situation, jar', u, tab'[u]) = Sessionless(Situation, jar, u, tab[u])
      <3>1. CASE tab[u].pc = "going"
        BY <1>4, <2>2, <2>3, <3>1 DEF Sessionless, Anonymous
      <3>2. CASE tab[u].pc # "going"
        BY <2>3, <3>2 DEF Sessionless, Anonymous
      <3> QED
        BY <3>1, <3>2
    <2> QED
      BY <1>2, <1>5, <2>4, RevokedSound
  <1>8. TypeOK'
    BY <1>1, <1>2, <1>4, <1>6 DEF SiteInvariant, TypeOK, Who, Situation
  <1>9. (passkeys.since <= clock)' /\ \A page \in cache' : PageSound(passkeys', page)
    BY <1>1 DEF SiteInvariant
  <1>10. RendersKept'
    BY <1>1 DEF SiteInvariant, RendersKept
  <1>11. Situation' = Situation
    BY <1>1 DEF Situation
  <1> QED
    BY <1>1, <1>7, <1>8, <1>9, <1>10, <1>11 DEF SiteInvariant

\* A tab that is marked when the edge and the row disagree.
Lagged(b, x, p) ==
    /\ x \in Tab /\ x.lagged = (b.lagged \/ p)
    /\ x.pc = b.pc /\ x.host = b.host /\ x.ask = b.ask /\ x.sent = b.sent /\ x.field = b.field
    /\ x.form = b.form /\ x.place = b.place /\ x.wanted = b.wanted /\ x.hops = b.hops
    /\ x.again = b.again /\ x.known = b.known /\ x.forced = b.forced
    /\ x.beaten = b.beaten /\ x.shownAt = b.shownAt

\* A tab marked so is the same otherwise.
LEMMA LaggedIs ==
  ASSUME NEW b \in Tab, NEW p \in BOOLEAN, NEW x, x = [b EXCEPT !.lagged = @ \/ p]
  PROVE  Lagged(b, x, p)
  <1> DEFINE v == b.lagged \/ p
  <1>1. v \in BOOLEAN /\ x = [b EXCEPT !.lagged = v] /\ v = (b.lagged \/ p)
    BY DEF Tab
  <1> HIDE DEF v
  <1>2. x \in Tab /\ x.lagged = v
    BY <1>1 DEF Tab
  <1>3. /\ x.pc = b.pc /\ x.host = b.host /\ x.ask = b.ask /\ x.sent = b.sent /\ x.field = b.field
        /\ x.form = b.form /\ x.place = b.place /\ x.wanted = b.wanted /\ x.hops = b.hops
        /\ x.again = b.again /\ x.known = b.known /\ x.forced = b.forced
        /\ x.beaten = b.beaten /\ x.shownAt = b.shownAt
    BY <1>1 DEF Tab
  <1> QED
    BY <1>1, <1>2, <1>3 DEF Lagged

\* One of two flags was turned: they agree now if they did not.
LEMMA LaggedSound ==
  ASSUME NEW s, NEW now, NEW closing, NEW keys, NEW anon, NEW u, NEW b,
         TabSound(s, now, closing, keys, anon, u, b), NEW p \in BOOLEAN, NEW x, Lagged(b, x, p),
         NEW then, closing.edge = closing.row => p
  PROVE  TabSound(s, now, then, keys, anon, u, x)
  <1>1. /\ x.lagged = (b.lagged \/ p)
        /\ x.pc = b.pc /\ x.host = b.host /\ x.ask = b.ask /\ x.sent = b.sent /\ x.field = b.field
        /\ x.form = b.form /\ x.place = b.place /\ x.wanted = b.wanted /\ x.hops = b.hops
        /\ x.again = b.again /\ x.known = b.known /\ x.forced = b.forced
        /\ x.beaten = b.beaten /\ x.shownAt = b.shownAt
    BY DEF Lagged
  <1>2. x.pc \in {"going", "origin"} => Sendable(s, anon, u, x, x.ask)
    BY <1>1 DEF TabSound, Sendable, Leads
  <1>3. x.pc \in {"origin", "login", "code", "assert", "offer", "create", "later", "page"} => Inside(s, x)
    BY <1>1 DEF TabSound, Inside
  <1>4. x.pc = "origin" => LetThrough(s, then, x)
    BY <1>1 DEF TabSound, LetThrough
  <1>5. OwnPage(s, keys, u, x) /\ InItsPlace(s, x)
    BY <1>1 DEF TabSound, OwnPage, InItsPlace
  <1>6. Justified(now, x)
    BY <1>1 DEF TabSound, Justified
  <1>7. Asked(x.wanted) /\ x.shownAt <= now /\ (x.pc # "gaveUp" => x.hops <= MaxRedirects) /\ ~x.again /\ ~x.forced
    BY <1>1 DEF TabSound
  <1> QED
    BY <1>2, <1>3, <1>4, <1>5, <1>6, <1>7 DEF TabSound

\* The site is closed or opened at one of the two places.
LEMMA CloseOrOpenKeeps ==
  ASSUME SiteInvariant, NEW where \in {"edge", "row"}, CloseOrOpen(where)
  PROVE  SiteInvariant'
  <1> DEFINE p == ~InStep'
  <1>1. /\ shut' = [shut EXCEPT ![where] = ~@]
        /\ tab' = [t \in Tabs |-> [tab[t] EXCEPT !.lagged = @ \/ p]]
        /\ UNCHANGED <<visit, clock, passkeys, jar, key, cache, rendered>>
    BY DEF CloseOrOpen
  <1>2. /\ tab \in [Tabs -> Tab] /\ shut \in [edge: BOOLEAN, row: BOOLEAN]
        /\ \A u \in Tabs :
             TabSound(Situation, clock, shut, passkeys, Sessionless(Situation, jar, u, tab[u]), u, tab[u])
    BY DEF SiteInvariant, TypeOK
  <1>3. shut' \in [edge: BOOLEAN, row: BOOLEAN]
    BY <1>1, <1>2
  <1>4. p = (shut'.edge # shut'.row) /\ p \in BOOLEAN
    BY <1>3 DEF InStep
  <1>5. shut.edge = shut.row => p
    <2>1. CASE where = "edge"
      BY <1>1, <1>2, <1>4, <2>1
    <2>2. CASE where = "row"
      BY <1>1, <1>2, <1>4, <2>2
    <2> QED
      BY <2>1, <2>2
  <1> HIDE DEF p
  <1>6. \A u \in Tabs : Lagged(tab[u], tab'[u], p)
    BY <1>1, <1>2, <1>4, LaggedIs
  <1>7. tab' \in [Tabs -> Tab]
    BY <1>1, <1>6 DEF Lagged
  <1>8. ASSUME NEW u \in Tabs
        PROVE  TabSound(Situation, clock, shut', passkeys, Sessionless(Situation, jar, u, tab'[u]), u, tab'[u])
    <2>1. Lagged(tab[u], tab'[u], p)
      BY <1>6
    <2>2. tab'[u].pc = tab[u].pc /\ tab'[u].host = tab[u].host /\ tab'[u].sent = tab[u].sent
      BY <2>1 DEF Lagged
    <2>3. Sessionless(Situation, jar, u, tab'[u]) = Sessionless(Situation, jar, u, tab[u])
      BY <2>2 DEF Sessionless
    <2> QED
      BY <1>2, <1>4, <1>5, <2>1, <2>3, LaggedSound
  <1>9. TypeOK'
    BY <1>1, <1>3, <1>7 DEF SiteInvariant, TypeOK, Who, Situation
  <1>10. (passkeys.since <= clock)' /\ \A page \in cache' : PageSound(passkeys', page)
    BY <1>1 DEF SiteInvariant
  <1>11. RendersKept'
    BY <1>1 DEF SiteInvariant, RendersKept
  <1>12. Situation' = Situation
    BY <1>1 DEF Situation
  <1> QED
    BY <1>1, <1>8, <1>9, <1>10, <1>11, <1>12 DEF SiteInvariant

\* What is shown or kept now is younger than the change that comes.
LEMMA TogglePasskeysKeeps ==
  ASSUME SiteInvariant, TogglePasskeys
  PROVE  SiteInvariant'
  <1> DEFINE keys == [on |-> ~passkeys.on, since |-> clock]
  <1>1. passkeys' = keys /\ UNCHANGED <<visit, clock, shut, jar, key, cache, tab, rendered>>
    BY DEF TogglePasskeys
  <1>2. keys \in [on: BOOLEAN, since: Int] /\ keys.since = clock /\ clock \in Nat
    BY StateIs
  <1> HIDE DEF keys
  <1>3. AuthLife \in Nat \ {0} /\ CacheLife \in Nat \ {0}
    BY VisitAssumption
  <1>4. ASSUME NEW page \in cache
        PROVE  PageSound(keys, page)
    <2>1. PageSound(passkeys, page) /\ page.until \in clock + 1 .. clock + CacheLife
      BY DEF SiteInvariant, TypeOK
    <2>2. page.until <= keys.since + CacheLife + AuthLife
      BY <1>2, <1>3, <2>1
    <2> QED
      BY <2>1, <2>2 DEF PageSound
  <1>5. ASSUME NEW u \in Tabs
        PROVE  TabSound(Situation, clock, shut, keys, Sessionless(Situation, jar, u, tab[u]), u, tab[u])
    <2>1. TabSound(Situation, clock, shut, passkeys, Sessionless(Situation, jar, u, tab[u]), u, tab[u])
      BY DEF SiteInvariant
    <2>2. tab[u].shownAt \in Nat /\ tab[u].shownAt <= clock
      BY <2>1, StateIs DEF TabSound, Tab
    <2>3. tab[u].shownAt < keys.since + CacheLife + AuthLife
      BY <1>2, <1>3, <2>2
    <2>4. OwnPage(Situation, keys, u, tab[u])
      BY <2>1, <2>3 DEF TabSound, OwnPage
    <2> QED
      BY <2>1, <2>4 DEF TabSound
  <1>6. TypeOK'
    BY <1>1, <1>2 DEF SiteInvariant, TypeOK, Who, Situation
  <1>7. (passkeys.since <= clock)'
    BY <1>1, <1>2
  <1>8. RendersKept'
    BY <1>1 DEF SiteInvariant, RendersKept
  <1>9. Situation' = Situation
    BY <1>1 DEF Situation
  <1> QED
    BY <1>1, <1>4, <1>5, <1>6, <1>7, <1>8, <1>9 DEF SiteInvariant

\* A tab that only gets older.
LEMMA OlderSound ==
  ASSUME NEW s, NEW now \in Nat, NEW closing, NEW keys, NEW anon, NEW u, NEW b \in Tab,
         TabSound(s, now, closing, keys, anon, u, b)
  PROVE  TabSound(s, now + 1, closing, keys, anon, u, b)
  <1>1. b.shownAt \in Nat /\ b.sent.id \in Nat
    BY DEF Tab, Jar
  <1>2. b.shownAt <= now + 1
    BY <1>1 DEF TabSound
  <1>3. b.sent.id < now => b.sent.id < now + 1
    BY <1>1
  <1>4. Justified(now + 1, b)
    BY <1>3 DEF TabSound, Justified
  <1> QED
    BY <1>2, <1>4 DEF TabSound

\* Cookies that the browser drops at their end.
LEMMA AgedIs ==
  ASSUME NEW c \in Jar, NEW now \in Nat,
         NEW d, d = [c EXCEPT !.at = IF @ > now THEN @ ELSE 0, !.id = IF @ > now THEN @ ELSE 0,
                              !.good = @ \/ c.id <= now]
  PROVE  d \in Jar /\ d.id \in {0, c.id}
  <1> DEFINE at == IF c.at > now THEN c.at ELSE 0
             id == IF c.id > now THEN c.id ELSE 0
             good == c.good \/ c.id <= now
  <1>1. at \in Nat /\ id \in Nat /\ good \in BOOLEAN /\ id \in {0, c.id}
    BY DEF Jar
  <1>2. d = [c EXCEPT !.at = at, !.id = id, !.good = good]
    OBVIOUS
  <1> HIDE DEF at, id, good
  <1> QED
    BY <1>1, <1>2 DEF Jar

\* Time passes: cookies and pages end, and with them what rested on them.
LEMMA TickKeeps ==
  ASSUME SiteInvariant, Tick
  PROVE  SiteInvariant'
  <1> DEFINE Kept0(c) == [c EXCEPT !.at = IF @ > clock' THEN @ ELSE 0,
                                   !.id = IF @ > clock' THEN @ ELSE 0,
                                   !.good = @ \/ c.id <= clock']
  <1>1. /\ clock' = clock + 1
        /\ jar' = [b \in DOMAIN jar |-> Kept0(jar[b])]
        /\ cache' = {page \in cache : clock' < page.until}
        /\ tab' = [t \in Tabs |-> [tab[t] EXCEPT !.hops = 0]]
        /\ UNCHANGED <<visit, shut, passkeys, key, events, rendered>>
    BY DEF Tick
  <1>2. /\ tab \in [Tabs -> Tab] /\ jar \in [People \X Hosts -> Jar] /\ clock \in Nat
        /\ \A b \in People \X Hosts : jar[b].id <= clock + IdLife
        /\ \A page \in cache : page.until \in clock + 1 .. clock + CacheLife
        /\ passkeys.since \in Int /\ passkeys.since <= clock
        /\ \A page \in cache : PageSound(passkeys, page)
        /\ rendered \in [Hosts \X {Who(t).lang : t \in Tabs} -> {-1} \cup 0..clock]
        /\ \A u \in Tabs :
             TabSound(Situation, clock, shut, passkeys, Sessionless(Situation, jar, u, tab[u]), u, tab[u])
    BY DEF SiteInvariant, TypeOK
  <1>3. IdLife \in Nat /\ CacheLife \in Nat
    BY VisitAssumption
  <1>4. clock' \in Nat
    <2>1. clock' = clock + 1 /\ clock \in Nat
      BY <1>2 DEF Tick
    <2> QED
      BY <2>1
  <1>5. \A c \in Jar : Kept0(c) \in Jar /\ Kept0(c).id \in {0, c.id}
    BY <1>4, AgedIs
  <1> HIDE DEF Kept0
  <1>6. jar' \in [People \X Hosts -> Jar] /\ \A b \in People \X Hosts : jar'[b].id \in {0, jar[b].id}
    BY <1>1, <1>2, <1>5
  <1>7. \A b \in People \X Hosts : jar'[b].id <= clock' + IdLife
    <2>1. \A b \in People \X Hosts : jar[b].id \in Nat
      BY <1>2 DEF Jar
    <2> QED
      BY <1>1, <1>2, <1>3, <1>6, <2>1
  <1>8. \A page \in cache' : page.until \in clock' + 1 .. clock' + CacheLife
    BY <1>1, <1>2, <1>3
  <1>9. rendered' \in [Hosts \X {Who(t).lang : t \in Tabs} -> {-1} \cup 0..clock']
    <2>1. {-1} \cup 0..clock \subseteq {-1} \cup 0..clock'
      BY <1>1, <1>2
    <2> QED
      BY <1>1, <1>2, <2>1
  <1>0. tab' \in [Tabs -> Tab] /\ \A u \in Tabs : Overtaken(tab[u], tab'[u])
    BY <1>1, <1>2, RestedIs DEF Overtaken
  <1>10. TypeOK'
    BY <1>0, <1>1, <1>4, <1>6, <1>7, <1>8, <1>9 DEF SiteInvariant, TypeOK, Who, Situation
  <1>11. (passkeys.since <= clock)' /\ \A page \in cache' : PageSound(passkeys', page)
    BY <1>1, <1>2
  <1>12. RendersKept'
    <2>1. ASSUME NEW b \in DOMAIN rendered', rendered'[b] >= 0, clock' < rendered'[b] + CacheLife
          PROVE  \E y \in cache' : /\ y.key = CacheKey(b[1], b[2], Get(Login), <<None, NoCookie>>)
                                   /\ rendered'[b] + CacheLife <= y.until
      <3>1. b \in DOMAIN rendered /\ rendered'[b] = rendered[b] /\ rendered[b] \in Int
        BY <1>1, <1>2, <2>1
      <3>2. clock < rendered[b] + CacheLife /\ rendered[b] >= 0
        BY <1>1, <1>2, <1>3, <2>1, <3>1
      <3>3. PICK y \in cache : /\ y.key = CacheKey(b[1], b[2], Get(Login), <<None, NoCookie>>)
                               /\ rendered[b] + CacheLife <= y.until
        BY <3>1, <3>2 DEF SiteInvariant, RendersKept
      <3>4. y.until \in Int
        BY <1>2
      <3>5. clock' < y.until
        BY <1>1, <1>2, <1>3, <2>1, <3>1, <3>3, <3>4
      <3> QED
        BY <1>1, <3>1, <3>3, <3>5
    <2> QED
      BY <2>1 DEF RendersKept
  <1>13. ASSUME NEW u \in Tabs
         PROVE  TabSound(Situation, clock', shut, passkeys, Sessionless(Situation, jar', u, tab'[u]), u, tab'[u])
    <2> DEFINE anon == Sessionless(Situation, jar, u, tab[u])
               other == Sessionless(Situation, jar', u, tab'[u])
    <2>1. tab[u] \in Tab /\ TabSound(Situation, clock, shut, passkeys, anon, u, tab[u])
      BY <1>2
    <2>2. anon => other
      <3>1. tab[u].host \in Hosts
        BY <2>1 DEF Tab
      <3>2. <<Situation.who[u].name, tab[u].host>> \in People \X Hosts
        BY <3>1, StateIs
      <3> QED
        BY <1>0, <1>6, <3>2 DEF Sessionless, Anonymous, Overtaken
    <2>3. Overtaken(tab[u], tab'[u])
      BY <1>0
    <2> HIDE DEF anon, other
    <2>4. TabSound(Situation, clock + 1, shut, passkeys, anon, u, tab[u])
      BY <1>2, <2>1, OlderSound
    <2>5. TabSound(Situation, clock + 1, shut, passkeys, other, u, tab'[u])
      BY <2>2, <2>3, <2>4, OvertakenSound
    <2> QED
      BY <1>1, <2>5 DEF other
  <1>14. Situation' = Situation
    BY <1>1 DEF Situation
  <1> QED
    BY <1>1, <1>10, <1>11, <1>12, <1>13, <1>14 DEF SiteInvariant

-----------------------------------------------------------------------------
(* The invariant of the specification, and what it says.                   *)

\* Nobody has asked for anything yet.
LEMMA SiteInit ==
  ASSUME Init
  PROVE  SiteInvariant
  <1> DEFINE boxes == {Box(t, Who(t).host) : t \in Tabs}
  <1>1. /\ visit \in DOMAIN Visits /\ clock = 0
        /\ shut = [edge |-> Situation.closed, row |-> Situation.closed]
        /\ passkeys = [on |-> TRUE, since |-> 0 - AuthLife]
        /\ cache = {} /\ tab = [t \in Tabs |-> NewTab(Who(t).host)]
        /\ rendered = [b \in Hosts \X {Who(t).lang : t \in Tabs} |-> -1]
    BY DEF Init
  <1>2. PICK given \in [boxes -> Situation.jars] :
          jar = [b \in People \X Hosts |-> IF b \in boxes THEN given[b] ELSE NoCookie]
    BY DEF Init
  <1> HIDE DEF boxes
  <1>3. Sensible(Situation)
    BY <1>1, SituationSensible
  <1>4. CacheLife \in Nat \ {0} /\ AuthLife \in Nat \ {0} /\ IdLife \in Nat \ {0} /\ MaxRedirects \in Nat
    BY VisitAssumption
  <1>5. \A t \in Tabs : Who(t).host \in Hosts
    BY <1>3 DEF Sensible, Who
  <1>6. NoCookie \in Jar /\ NoCookie.id = 0
    BY NothingTyped DEF NoCookie
  <1>7. \A b \in People \X Hosts : jar[b] \in Jar /\ jar[b].id <= 0 + IdLife
    <2>1. \A b \in boxes : given[b] \in Jar /\ given[b].id <= IdLife
      BY <1>3 DEF Sensible
    <2> QED
      BY <1>2, <1>4, <1>6, <2>1
  <1>8. jar \in [People \X Hosts -> Jar]
    BY <1>2, <1>7
  <1>9. shut \in [edge: BOOLEAN, row: BOOLEAN]
    BY <1>1, <1>3 DEF Sensible
  <1>10. passkeys \in [on: BOOLEAN, since: Int] /\ passkeys.since <= clock
    BY <1>1, <1>4
  <1>11. tab \in [Tabs -> Tab]
    BY <1>1, <1>5, NewTabTyped
  <1>12. rendered \in [Hosts \X {Who(t).lang : t \in Tabs} -> {-1} \cup 0..clock]
    BY <1>1
  <1>13. TypeOK
    <2>1. \A b \in People \X Hosts : jar[b].id <= clock + IdLife
      BY <1>1, <1>7
    <2>2. clock \in Nat /\ visit \in DOMAIN Visits /\ passkeys \in [on: BOOLEAN, since: Int]
      BY <1>1, <1>10
    <2>3. \A page \in cache : page.until \in clock + 1 .. clock + CacheLife
      BY <1>1
    <2> QED
      BY <1>8, <1>9, <1>11, <1>12, <2>1, <2>2, <2>3 DEF TypeOK
  <1>14. RendersKept
    BY <1>1 DEF RendersKept
  <1>15. ASSUME NEW t \in Tabs, NEW anon
         PROVE  TabSound(Situation, clock, shut, passkeys, anon, t, tab[t])
    <2> DEFINE b == tab[t]
    <2>1. b.pc = "away" /\ b.wanted = Root /\ b.shownAt = 0 /\ b.hops = 0 /\ ~b.again /\ ~b.forced
      BY <1>1 DEF NewTab
    <2>2. Asked(Root)
      BY Names DEF Asked, Path
    <2> HIDE DEF b
    <2>3. b.shownAt <= clock /\ b.hops <= MaxRedirects
      BY <1>1, <1>4, <2>1
    <2> QED
      BY <2>1, <2>2, <2>3 DEF TabSound, OwnPage, Justified, InItsPlace, b
  <1> QED
    BY <1>1, <1>10, <1>13, <1>14, <1>15 DEF SiteInvariant

\* Every step keeps it.
LEMMA SiteStep ==
  ASSUME SiteInvariant, [Next]_vars
  PROVE  SiteInvariant'
  <1>1. ASSUME NEW t \in Tabs, Follow(t) \/ LoginBack(t) \/ Renew(t) \/ LoginPage(t) \/ LoginPageRefused(t)
        PROVE  SiteInvariant'
    BY <1>1, FollowKeeps, LoginBackKeeps, RenewKeeps, LoginPageKeeps, LoginPageRefusedKeeps
  <1>2. ASSUME NEW t \in Tabs,
               \/ AnswerSend(t) \/ WrongCode(t) \/ RightCode(t) \/ AnswerRegister(t)
               \/ AnswerLogout(t) \/ AnswerPage(t)
        PROVE  SiteInvariant'
    BY <1>2, AnswerSendKeeps, WrongCodeKeeps, RightCodeKeeps, AnswerRegisterKeeps, AnswerLogoutKeeps,
       AnswerPageKeeps
  <1>3. ASSUME NEW t \in Tabs,
               Visit(t) \/ LogOut(t) \/ AskForCode(t) \/ EnterCode(t) \/ BackToEmail(t)
        PROVE  SiteInvariant'
    BY <1>3, VisitKeeps, LogOutKeeps, AskForCodeKeeps, EnterCodeKeeps, BackToEmailKeeps
  <1>4. ASSUME NEW t \in Tabs,
               StartPasskey(t) \/ FinishPasskey(t) \/ StartRegister(t) \/ FinishRegister(t) \/ Later(t)
        PROVE  SiteInvariant'
    BY <1>4, StartPasskeyKeeps, FinishPasskeyKeeps, StartRegisterKeeps, FinishRegisterKeeps, LaterKeeps
  <1>5. ASSUME NEW p \in People, Revoke(p)
        PROVE  SiteInvariant'
    BY <1>5, RevokeKeeps
  <1>6. ASSUME NEW where \in {"edge", "row"}, CloseOrOpen(where)
        PROVE  SiteInvariant'
    BY <1>6, CloseOrOpenKeeps
  <1>7. CASE TogglePasskeys
    BY <1>7, TogglePasskeysKeeps
  <1>8. CASE Tick
    BY <1>8, TickKeeps
  <1>9. CASE UNCHANGED vars
    <2>1. UNCHANGED <<visit, clock, shut, passkeys, jar, cache, rendered>> /\ tab' = tab
      BY <1>9 DEF vars
    <2> QED
      BY <2>1, TabsOnly DEF SiteInvariant, TypeOK
  <1> QED
    BY <1>1, <1>2, <1>3, <1>4, <1>5, <1>6, <1>7, <1>8, <1>9 DEF Next

\* SiteInvariant, what the edge, the pages and the cookies have to agree on for the
\* properties below to last, holds in every visit.
THEOREM SiteInvariantHolds == Spec => []SiteInvariant
  <1>1. Init => SiteInvariant
    BY SiteInit
  <1>2. SiteInvariant /\ [Next]_vars => SiteInvariant'
    BY SiteStep
  <1> QED
    BY <1>1, <1>2, PTL DEF Spec

\* Every tab, cookie and kept page has its type, no redirect leaves the hosts of the
\* application, and no session cookie outlives its token.
THEOREM SiteTypes == Spec => []TypeOK
  <1>1. SiteInvariant => TypeOK
    BY DEF SiteInvariant
  <1> QED
    BY <1>1, SiteInvariantHolds, PTL

\* Whatever the CDN keeps, whoever it was rendered for: the login page that somebody
\* is shown is theirs, and no visitor without cookies costs a second render within
\* CacheLife.
THEOREM LoginPageEverybodysOwn == Spec => []CachedLoginPage
  <1>1. SiteInvariant => CachedLoginPage
    <2>1. SiteInvariant => \A t \in Tabs : OwnPage(Situation, passkeys, t, tab[t]) /\ ~tab[t].again
      BY DEF SiteInvariant, TabSound
    <2> QED
      BY <2>1 DEF CachedLoginPage, LoginPageIsTheViewers, OneRenderAMinute
  <1> QED
    BY <1>1, SiteInvariantHolds, PTL

\* The authorizer refuses nobody that the edge let through, but for a cookie that is
\* not good, or ended on the way, or while the two are out of step; and nobody who
\* holds a good refresh token is shown a login page but because their own renewal
\* failed.
THEOREM NobodyTurnedAwayWithoutReason == Spec => []TurnedAwayWithReason
  <1>1. SiteInvariant => TurnedAwayWithReason
    <2>1. SiteInvariant => \A t \in Tabs : Justified(clock, tab[t]) /\ ~tab[t].forced
      BY DEF SiteInvariant, TabSound
    <2> QED
      BY <2>1 DEF TurnedAwayWithReason, RefusedWithReason, LoginOnlyIfItMust
  <1> QED
    BY <1>1, SiteInvariantHolds, PTL

\* Whatever way they signed in, people end on the page they asked for: the fragment,
\* return_url and the forms carry it from the edge's redirect to the last one, but for
\* an address that the resume page or the edge does not carry (LostIsRoot).
THEOREM EverybodyBackWhereTheyWere == Spec => []BackWhereTheyWere
  <1>1. SiteInvariant => BackWhereTheyWere
    <2>1. ASSUME SiteInvariant, NEW t \in Tabs, tab[t].pc = "page", ~tab[t].beaten
          PROVE  Right(Situation, tab[t].wanted, tab[t].ask.uri)
      <3>1. TabSound(Situation, clock, shut, passkeys, Sessionless(Situation, jar, t, tab[t]), t, tab[t])
        BY <2>1 DEF SiteInvariant
      <3>2. Inside(Situation, tab[t])
        BY <2>1, <3>1 DEF TabSound
      <3> QED
        BY <2>1, <3>2 DEF Inside
    <2> QED
      BY <2>1 DEF BackWhereTheyWere, Right
  <1> QED
    BY <1>1, SiteInvariantHolds, PTL

\* What is shown comes from the region and the section the host's value names, and
\* no spelling of a dot-name or a script gets a visitor without a session past the
\* edge.
THEOREM AlwaysRoutedByTheEdge == Spec => []RoutedByTheEdge
  <1>1. SiteInvariant => RoutedByTheEdge
    <2>1. ASSUME SiteInvariant, NEW t \in Tabs
          PROVE  /\ InItsPlace(Situation, tab[t])
                 /\ tab[t].pc \in {"origin", "login"} /\ ~tab[t].known => Decent(tab[t].wanted)
      <3>1. TabSound(Situation, clock, shut, passkeys, Sessionless(Situation, jar, t, tab[t]), t, tab[t])
        BY <2>1 DEF SiteInvariant
      <3>2. tab[t].pc \in {"origin", "login"} => Inside(Situation, tab[t])
        BY <3>1 DEF TabSound
      <3> QED
        BY <3>1, <3>2 DEF TabSound, Inside
    <2> QED
      BY <2>1 DEF RoutedByTheEdge, ServedFromItsPlace, ScannersMeetA404
  <1> QED
    BY <1>1, SiteInvariantHolds, PTL

-----------------------------------------------------------------------------
(* Redirects come to an end.                                               *)

\* At most four redirects are to come.
LEMMA AheadIs ==
  ASSUME NEW s, NEW now, NEW c, NEW b
  PROVE  /\ \A host, q : Coming(s, c, host, q) \in 0..4
         /\ Ahead(s, now, c, b) \in 0..4
  <1>1. ForPage(c) \in 0..3 /\ \A uri : ForForm(c, uri) \in 0..4
    BY DEF ForPage, ForForm
  <1>2. \A host, q : Coming(s, c, host, q) \in 0..4
    BY <1>1 DEF Coming
  <1>3. Due(now, c, b) \in 0..4
    BY <1>1 DEF Due
  <1> QED
    BY <1>2, <1>3 DEF Ahead

\* A tab that waits for the same, of a browser with a session if there was one, or
\* whose redirects count from here.
Waits(b, x) ==
    /\ x.pc = b.pc /\ x.host = b.host /\ x.ask = b.ask /\ x.field = b.field
    /\ x.sent.id = b.sent.id /\ x.sent.good = b.sent.good /\ x.spurned = b.spurned

\* It stays within its bound.
LEMMA WaitsBounded ==
  ASSUME NEW s, NEW now, NEW c, NEW b, Bounded(s, now, c, b), b.hops \in Nat,
         NEW then, NEW d, NEW x, Waits(b, x),
         x.hops = 0 \/ (x.hops = b.hops /\ then = now /\ (Anonymous(d) => Anonymous(c)))
  PROVE  Bounded(s, then, d, x)
  <1>1. /\ x.pc = b.pc /\ x.host = b.host /\ x.ask = b.ask /\ x.field = b.field
        /\ x.sent.id = b.sent.id /\ x.sent.good = b.sent.good /\ x.spurned = b.spurned
    BY DEF Waits
  <1>2. x.hops = 0 \/ x.hops = b.hops
    OBVIOUS
  <1>3. Ahead(s, now, c, b) \in 0..4 /\ Ahead(s, then, d, x) \in 0..4
    BY AheadIs
  <1>4. ASSUME then = now, Anonymous(d) => Anonymous(c)
        PROVE  Ahead(s, then, d, x) <= Ahead(s, now, c, b)
    <2>1. ForPage(c) \in 0..3 /\ ForPage(d) \in 0..3 /\ ForPage(d) <= ForPage(c)
      BY <1>4 DEF ForPage
    <2>2. \A uri : ForForm(d, uri) <= ForForm(c, uri)
      BY <2>1 DEF ForForm
    <2>3. \A uri : ForForm(c, uri) \in Nat /\ ForForm(d, uri) \in Nat
      BY <2>1 DEF ForForm
    <2>4. Coming(s, d, x.host, x.ask) <= Coming(s, c, b.host, b.ask)
      BY <1>1, <2>1, <2>2 DEF Coming
    <2>5. Due(then, d, x) <= Due(now, c, b)
      BY <1>1, <1>4, <2>1, <2>2 DEF Due, Anonymous
    <2> QED
      BY <1>1, <2>4, <2>5 DEF Ahead
  <1>5. ~x.spurned => x.hops + Ahead(s, then, d, x) <= 4
    <2>1. CASE x.hops = 0
      BY <1>3, <2>1
    <2>2. CASE x.hops = b.hops /\ then = now /\ (Anonymous(d) => Anonymous(c))
      BY <1>1, <1>3, <1>4, <2>2 DEF Bounded
    <2> QED
      BY <2>1, <2>2
  <1> QED
    BY <1>1, <1>2, <1>5 DEF Bounded

\* A tab that is redirected has one redirect less to come.
LEMMA RedirectBounded ==
  ASSUME MaxRedirects >= 4, NEW s, NEW now, NEW c, NEW b, Carried(b), NEW q \in Request, Homeward(b.host, q),
         ~b.spurned => b.hops + 1 + Coming(s, c, b.host, q) <= 4, NEW x, x = Redirected(b, q)
  PROVE  Bounded(s, now, c, x) /\ x.host = b.host
  <1>1. /\ x.pc = IF b.hops < MaxRedirects THEN "going" ELSE "gaveUp"
        /\ x.ask = q /\ x.hops = b.hops + 1 /\ x.host = b.host /\ x.spurned = b.spurned
    BY RedirectedIs
  <1>2. b.hops \in Nat /\ MaxRedirects \in Nat /\ Coming(s, c, b.host, q) \in 0..4
    <2>1. Coming(s, c, b.host, q) \in 0..4
      BY AheadIs
    <2>2. MaxRedirects \in Nat
      BY VisitAssumption
    <2> QED
      BY <2>1, <2>2 DEF Carried
  <1>3. x.pc \in {"going", "gaveUp"}
    BY <1>1
  <1>4. ASSUME ~x.spurned
        PROVE  x.pc = "going" /\ x.hops + Ahead(s, now, c, x) <= 4
    <2>1. b.hops + 1 + Coming(s, c, b.host, q) <= 4
      BY <1>1, <1>4
    <2>2. x.pc = "going"
      BY <1>1, <1>2, <2>1
    <2> QED
      BY <1>1, <1>2, <2>1, <2>2 DEF Ahead
  <1> QED
    BY <1>1, <1>3, <1>4 DEF Bounded

\* A page that waits for the person has no redirect to come.
LEMMA PageBounded ==
  ASSUME NEW s, NEW now, NEW c, NEW x, x.hops \in Nat, ~x.spurned => x.hops <= 4,
         x.pc \notin {"going", "origin", "gaveUp"},
         x.pc \in {"login", "code", "assert"} => Asked(Safe(x.host, x.field)),
         x.pc \in {"offer", "create", "later"} => Asked(x.field),
         x.pc \in {"assert", "create"} => x.hops = 0
  PROVE  Bounded(s, now, c, x)
  <1>1. Ahead(s, now, c, x) = 0
    BY DEF Ahead
  <1> QED
    BY <1>1 DEF Bounded

\* A browser holds no session that has ended.
Fresh(now, c) == ~Anonymous(c) => now < c.id

\* A tab with the budget for request q sends it from b0.
Affords(t, b0, q) ==
    /\ SiteInvariant /\ t \in Tabs /\ q \in Request /\ Carried(b0)
    /\ Under(q.uri, AuthTree) => Situation.entry[b0.host].r = None
    /\ Homeward(b0.host, q) /\ Fresh(clock, jar[Box(t, b0.host)])
    /\ ~b0.spurned => b0.hops + Coming(Situation, jar[Box(t, b0.host)], b0.host, q) <= 4

Within(t, x) == Bounded(Situation, clock, jar[Box(t, x.host)], x)

\* Such a tab, as the edge sees it.
LEMMA AffordsIs ==
  ASSUME NEW t, NEW b0, NEW q, Affords(t, b0, q),
         NEW c, c = jar[Box(t, b0.host)], NEW b, b = Asking(b0, q, c), NEW e, e = EntryOf(b0.host)
  PROVE  /\ c \in Jar /\ c.id \in Nat /\ clock \in Nat /\ Carried(b) /\ b \in Tab
         /\ b.ask = q /\ b.sent = c /\ b.host = b0.host /\ b.hops = b0.hops /\ b.hops \in Nat
         /\ b.host \in Hosts /\ Homeward(b.host, q)
         /\ e.r = Situation.entry[b.host].r /\ (e.r # None => e.r \in Hosts /\ Situation.entry[e.r].r = None)
         /\ e.r # None => ~Under(q.uri, AuthTree)
         /\ ~b.spurned => c.good /\ b.hops + Coming(Situation, c, b.host, q) <= 4
         /\ \A d, host, p : Coming(Situation, d, host, p) \in 0..4
         /\ Fresh(clock, c)
  <1>1. /\ SiteInvariant /\ t \in Tabs /\ q \in Request /\ Carried(b0) /\ b0.host \in Hosts /\ b0.hops \in 0..MaxRedirects
        /\ Under(q.uri, AuthTree) => Situation.entry[b0.host].r = None
        /\ Homeward(b0.host, q) /\ Fresh(clock, c)
        /\ ~b0.spurned => b0.hops + Coming(Situation, c, b0.host, q) <= 4
    BY DEF Affords, Carried
  <1>2. c \in Jar /\ clock \in Nat /\ shut \in [edge: BOOLEAN, row: BOOLEAN] /\ Sensible(Situation)
    BY <1>1, StateIs
  <1>3. /\ b \in Tab /\ Carried(b) /\ b.ask = q /\ b.sent = c
        /\ b.spurned = (b0.spurned \/ ~c.good)
        /\ b.host = b0.host /\ b.hops = b0.hops
    BY <1>1, <1>2, AskingIs
  <1>4. e.r = Situation.entry[b0.host].r /\ (e.r # None => e.r \in Hosts)
    BY <1>1, EntryIs
  <1>5. e.r # None => Situation.entry[e.r].r = None
    BY <1>1, <1>2, <1>4 DEF Sensible
  <1>6. c.id \in Nat
    BY <1>2 DEF Jar
  <1>7. ~b.spurned => ~b0.spurned /\ c.good
    BY <1>3
  <1>8. \A d, host, p : Coming(Situation, d, host, p) \in 0..4
    BY AheadIs
  <1> QED
    BY <1>1, <1>2, <1>3, <1>4, <1>5, <1>6, <1>7, <1>8

\* A plain request for the login page, with a page in the fragment or none.
LEMMA ToLoginBounded ==
  ASSUME MaxRedirects >= 4, NEW s, NEW now, NEW c, NEW b, Carried(b), s.entry[b.host].r = None,
         NEW q \in Request, q.uri = Login, q.ret = Nowhere, Asked(Safe(b.host, q.frag)),
         ~b.spurned => b.hops + 2 <= 4, NEW x, x = Redirected(b, q)
  PROVE  Bounded(s, now, c, x)
  <1>1. Coming(s, c, b.host, q) = 1
    BY Names DEF Coming
  <1>2. Asked(Safe(b.host, q.ret))
    BY Names, SafeIs DEF Asked, Path, Carried
  <1>3. Homeward(b.host, q)
    BY <1>2, Names DEF Homeward
  <1>4. ~b.spurned => b.hops + 1 + 1 <= 4
    BY DEF Carried
  <1> QED
    BY <1>1, <1>3, <1>4, RedirectBounded

\* Moved to a host that moves nobody.
LEMMA MovedBounded ==
  ASSUME MaxRedirects >= 4, NEW t, NEW b0, NEW q, Affords(t, b0, q),
         NEW c, c = jar[Box(t, b0.host)], NEW b, b = Asking(b0, q, c), NEW e, e = EntryOf(b0.host),
         e.r # None, NEW x, x = Redirected([b EXCEPT !.host = e.r], q)
  PROVE  Within(t, x)
  <1>1. /\ Carried(b) /\ b \in Tab /\ b.hops \in Nat /\ q \in Request /\ Homeward(b.host, q)
        /\ e.r = Situation.entry[b.host].r /\ e.r \in Hosts /\ Situation.entry[e.r].r = None
        /\ ~Under(q.uri, AuthTree)
        /\ ~b.spurned => b.hops + Coming(Situation, c, b.host, q) <= 4
    BY AffordsIs DEF Affords
  <1> DEFINE m == [b EXCEPT !.host = e.r]
             d == jar[Box(t, e.r)]
  <1>2. Carried(m) /\ m.host = e.r /\ m.hops = b.hops /\ m.spurned = b.spurned
    BY <1>1 DEF Carried, Tab
  <1>3. Coming(Situation, c, b.host, q) = 4
    BY <1>1 DEF Coming
  <1> HIDE DEF m, d
  <1>4. Coming(Situation, d, e.r, q) \in 0..3
    <2>1. Situation.entry[e.r].r = None /\ ~Under(q.uri, AuthTree)
      BY <1>1
    <2>2. Coming(Situation, d, e.r, q) = ForPage(d)
      BY <2>1 DEF Coming
    <2> QED
      BY <2>2 DEF ForPage
  <1>5. Homeward(m.host, q)
    BY <1>1 DEF Homeward
  <1>6. ~m.spurned => m.hops + 1 + Coming(Situation, d, m.host, q) <= 4
    <2>1. b.hops \in Nat /\ (~b.spurned => b.hops + 4 <= 4)
      BY <1>1, <1>3
    <2> DEFINE n == Coming(Situation, d, m.host, q)
    <2>2. n \in 0..3
      BY <1>2, <1>4
    <2> HIDE DEF n
    <2>3. ~m.spurned => m.hops + 1 + n <= 4
      BY <1>2, <2>1, <2>2
    <2> QED
      BY <2>3 DEF n
  <1>7. x = Redirected(m, q)
    BY DEF m
  <1>8. Bounded(Situation, clock, d, x)
    BY <1>1, <1>2, <1>5, <1>6, <1>7, RedirectBounded
  <1>9. x.host = e.r
    <2>1. q \in Request /\ Carried(m) /\ m.host = e.r
      BY <1>1, <1>2
    <2> QED
      BY <1>7, <2>1, RedirectedIs
  <1> QED
    BY <1>8, <1>9 DEF d, Within

\* From the origin on, the cookies the request carries are what counts.
LEMMA OriginBounded ==
  ASSUME NEW t, NEW b0, NEW q, Affords(t, b0, q),
         NEW c, c = jar[Box(t, b0.host)], NEW b, b = Asking(b0, q, c), NEW e, e = EntryOf(b0.host),
         e.r = None, NEW x, x.pc = "origin", x.ask = b.ask, x.sent = b.sent, x.host = b.host,
         x.hops = b.hops, x.spurned = b.spurned
  PROVE  Within(t, x)
  <1>1. /\ c.id \in Nat /\ clock \in Nat
        /\ b.ask = q /\ b.sent = c /\ b.host = b0.host /\ b.hops \in Nat
        /\ Homeward(b.host, q) /\ Situation.entry[b.host].r = None
        /\ ~b.spurned => c.good /\ b.hops + Coming(Situation, c, b.host, q) <= 4
        /\ Fresh(clock, c) /\ Coming(Situation, c, b.host, q) \in 0..4
    BY AffordsIs
  <1>2. x.ask = q /\ x.sent = c
    BY <1>1
  <1>3. (~Anonymous(c) /\ clock <= c.id) <=> ~Anonymous(c)
    BY <1>1 DEF Fresh
  <1>4. Due(clock, c, x) <= Coming(Situation, c, b.host, q) /\ Due(clock, c, x) \in Nat
    <2>1. CASE Anonymous(c)
      BY <1>1, <1>2, <2>1 DEF Due, Coming, ForForm, ForPage
    <2>2. CASE ~Anonymous(c)
      BY <1>1, <1>2, <1>3, <2>2 DEF Due, Coming, ForForm, ForPage
    <2> QED
      BY <2>1, <2>2
  <1>5. Ahead(Situation, clock, c, x) = Due(clock, c, x)
    BY <1>2 DEF Ahead
  <1>6. ~x.spurned => x.sent.good /\ x.hops + Ahead(Situation, clock, c, x) <= 4
    BY <1>1, <1>2, <1>4, <1>5
  <1> QED
    BY <1>1, <1>2, <1>6 DEF Bounded, Within

\* Whatever a tab may send, the edge leaves it within its bound.
LEMMA SentBounded ==
  ASSUME MaxRedirects >= 4, NEW t, NEW b0, NEW q, Affords(t, b0, q), NEW x, x = Sent(t, b0, q)
  PROVE  Within(t, x)
  <1> DEFINE c == jar[Box(t, b0.host)]
             b == Asking(b0, q, c)
             e == EntryOf(b0.host)
             v == Verdict(e, q, Anonymous(b.sent))
             again == Plain(b) /\ rendered[<<b.host, Who(t).lang>>] >= 0
                      /\ clock < rendered[<<b.host, Who(t).lang>>] + CacheLife
  <1>1. t \in Tabs /\ q \in Request /\ SiteInvariant
    BY DEF Affords
  <1>2. Left(t, q, b, e, v, x)
    BY SentCases
  <1>3. c = jar[Box(t, b0.host)] /\ b = Asking(b0, q, c) /\ e = EntryOf(b0.host) /\ v = Verdict(e, q, Anonymous(b.sent))
    OBVIOUS
  <1>4. v = "origin" /\ Hits(t, b, q) = {} => x = [b EXCEPT !.pc = "origin", !.again = again]
    BY <1>2 DEF Left
  <1> HIDE DEF c, b, e, v, again
  <1>5. /\ c \in Jar /\ clock \in Nat /\ Carried(b) /\ b \in Tab
        /\ b.ask = q /\ b.sent = c /\ b.host = b0.host /\ b.hops \in Nat
        /\ b.host \in Hosts /\ Homeward(b.host, q)
        /\ e.r = Situation.entry[b.host].r
        /\ ~b.spurned => b.hops + Coming(Situation, c, b.host, q) <= 4
        /\ Coming(Situation, c, b.host, q) \in 0..4
    BY <1>3, AffordsIs
  <1>6. Anonymous(c) \in BOOLEAN /\ v = Verdict(e, q, Anonymous(c))
    BY <1>3, <1>5 DEF Anonymous
  <1>7. /\ v \in Kinds
        /\ v = "moved" => e.r # None
        /\ v \notin {"unrouted", "stopped", "moved"} => e.r = None
        /\ v = "fold" <=> (v \notin {"unrouted", "stopped", "moved", "stranded", "notFound"} /\ Folds(q, Anonymous(c)))
        /\ v \in {"unauthorized", "login"} => Closed(e, q, Anonymous(c))
    BY <1>6, VerdictIs
  <1>8. q.ret \in Path /\ q.mail \in {None} \cup People /\ q.uri \in Path
    BY <1>1 DEF Request, Path
  <1>9. ~b.spurned => b.hops <= 4
    BY <1>5
  <1>10. CASE v = "moved"
    BY <1>2, <1>3, <1>7, <1>10, MovedBounded DEF Left
  <1>11. CASE v = "fold"
    <2> DEFINE frag == IF Carriable(q.ret) THEN q.ret ELSE Nowhere
               p == [Get(Login) EXCEPT !.mail = q.mail, !.frag = frag]
    <2>1. x = Redirected(b, p)
      BY <1>2, <1>11 DEF Left
    <2>2. frag \in Path /\ Asked(Safe(b.host, frag))
      <3>1. Asked(Safe(b.host, q.ret))
        BY <1>5, <1>7, <1>11, Names DEF Folds, Homeward
      <3>2. Asked(Safe(b.host, Nowhere))
        BY <1>5, Names, SafeIs DEF Asked, Path
      <3> QED
        BY <1>8, <3>1, <3>2, Names
    <2> HIDE DEF frag
    <2>3. p \in Request /\ p.uri = Login /\ p.ret = Nowhere /\ p.frag = frag
      BY <1>8, <2>2, Names DEF Get, Ask, Request, Path
    <2> HIDE DEF p
    <2>4. Coming(Situation, c, b.host, q) = 2
      BY <1>5, <1>7, <1>11, Names DEF Folds, Coming
    <2>5. Bounded(Situation, clock, jar[Box(t, x.host)], x)
      <3>1. ~b.spurned => b.hops + 2 <= 4
        BY <1>5, <2>4
      <3> QED
        BY <1>5, <1>7, <1>11, <2>1, <2>2, <2>3, <3>1, ToLoginBounded
    <2> QED
      BY <2>5 DEF Within
  <1>12. CASE v = "login"
    <2> DEFINE p == [Get(Login) EXCEPT !.frag = q.uri]
    <2>1. x = Redirected(b, p)
      BY <1>2, <1>12 DEF Left
    <2>2. Anonymous(c) /\ ~Under(q.uri, AuthTree)
      BY <1>7, <1>12 DEF Closed, Platform
    <2>3. Asked(Safe(b.host, q.uri))
      <3>1. Asked(q.uri)
        BY <1>5, <2>2 DEF Homeward
      <3> QED
        BY <1>5, <1>8, <3>1, SafeIs DEF Asked
    <2>4. p \in Request /\ p.uri = Login /\ p.ret = Nowhere /\ p.frag = q.uri
      BY <1>8, Names DEF Get, Ask, Request, Path
    <2> HIDE DEF p
    <2>5. Coming(Situation, c, b.host, q) = 3
      BY <1>5, <1>7, <1>12, <2>2 DEF Coming, ForPage
    <2>6. Bounded(Situation, clock, jar[Box(t, x.host)], x)
      <3>1. ~b.spurned => b.hops + 2 <= 4
        BY <1>5, <2>5
      <3> QED
        BY <1>5, <1>7, <1>12, <2>1, <2>3, <2>4, <3>1, ToLoginBounded
    <2> QED
      BY <2>6 DEF Within
  <1>13. CASE v \in {"asset", "section"}
    <2>1. PICK place : x = Landed(b, place)
      BY <1>2, <1>13 DEF Left
    <2>2. x.pc = "page" /\ x.hops = b.hops /\ x.spurned = b.spurned
      BY <1>5, <2>1, LandedForm
    <2> QED
      BY <1>5, <1>9, <2>2, PageBounded DEF Within
  <1>14. CASE v = "origin" /\ Hits(t, b, q) # {}
    <2>1. PICK page \in Hits(t, b, q) : x = Shown(b, page.form)
      BY <1>2, <1>14 DEF Left
    <2>2. PageSound(passkeys, page) /\ page.key = CacheKeyOf(t, b)
      BY <1>1, <2>1 DEF Hits, SiteInvariant
    <2>3. q.uri = Login
      BY <1>5, <2>2, KeyIs DEF PageSound
    <2>4. /\ x.pc = "login" /\ x.host = b.host /\ x.hops = b.hops /\ x.spurned = b.spurned
          /\ x.field = IF q.ret # Nowhere THEN q.ret ELSE q.frag
      BY <1>5, <2>1, ShownForm
    <2>5. Asked(Safe(x.host, x.field))
      BY <1>5, <2>3, <2>4, Names DEF Homeward
    <2> QED
      BY <1>5, <1>9, <2>4, <2>5, PageBounded DEF Within
  <1>15. CASE v = "origin" /\ Hits(t, b, q) = {}
    <2>1. /\ x.pc = "origin" /\ x.ask = b.ask /\ x.sent = b.sent /\ x.host = b.host
          /\ x.hops = b.hops /\ x.spurned = b.spurned
      BY <1>4, <1>5, <1>15 DEF Tab
    <2> QED
      BY <1>3, <1>7, <1>15, <2>1, OriginBounded
  <1>16. CASE v \in {"unrouted", "stopped", "stranded", "notFound", "unauthorized"}
    <2>1. x = [b EXCEPT !.pc = v]
      BY <1>2, <1>16 DEF Left
    <2>2. x.pc = v /\ x.hops = b.hops /\ x.spurned = b.spurned
      BY <1>5, <2>1 DEF Tab
    <2> QED
      BY <1>5, <1>9, <1>16, <2>2, PageBounded DEF Within
  <1> QED
    BY <1>7, <1>10, <1>11, <1>12, <1>13, <1>14, <1>15, <1>16 DEF Kinds

-----------------------------------------------------------------------------
(* The steps, and their redirects.                                         *)

\* What the invariants give a tab's step.
LEMMA CarouselIs ==
  ASSUME SiteInvariant, CarouselInvariant, NEW t \in Tabs, NEW b, b = tab[t]
  PROVE  /\ \A host \in Hosts : Fresh(clock, jar[Box(t, host)])
         /\ Bounded(Situation, clock, jar[Box(t, b.host)], b)
         /\ b.hops \in Nat
  <1>1. \A host \in Hosts : Box(t, host) \in People \X Hosts
    BY StateIs
  <1> QED
    BY <1>1, TabIs DEF CarouselInvariant, Fresh

\* Every tab within its bound, every cookie ahead of its end.
LEMMA CarouselKept ==
  ASSUME SiteInvariant, CarouselInvariant, visit' = visit,
         \A box \in People \X Hosts : Fresh(clock', jar'[box]),
         \A u \in Tabs : Bounded(Situation, clock', jar'[Box(u, tab'[u].host)], tab'[u])
  PROVE  CarouselInvariant'
  <1>1. Situation' = Situation /\ \A u, host : Box(u, host)' = Box(u, host)
    BY DEF Situation, Box, Who
  <1> QED
    BY <1>1 DEF CarouselInvariant, Fresh

\* One tab moves on.
LEMMA OneWithin ==
  ASSUME SiteInvariant, CarouselInvariant, UNCHANGED <<visit, clock, jar>>,
         NEW t \in Tabs, NEW x, Within(t, x), Becomes(t, x)
  PROVE  CarouselInvariant'
  <1>1. tab \in [Tabs -> Tab]
    BY DEF SiteInvariant, TypeOK
  <1>2. tab'[t] = x /\ \A u \in Tabs \ {t} : tab'[u] = tab[u]
    BY <1>1 DEF Becomes
  <1>3. ASSUME NEW u \in Tabs
        PROVE  Bounded(Situation, clock', jar'[Box(u, tab'[u].host)], tab'[u])
    <2>1. CASE u = t
      BY <1>2, <2>1 DEF Within
    <2>2. CASE u # t
      BY <1>2, <2>2 DEF CarouselInvariant
    <2> QED
      BY <2>1, <2>2
  <1> QED
    BY <1>3, CarouselKept DEF CarouselInvariant, Fresh

\* Tabs that move on, and tabs that wait for the same, in browsers with a session if
\* they had one, or with redirects that count from here.
LEMMA TabsWithin ==
  ASSUME SiteInvariant, CarouselInvariant, UNCHANGED visit,
         \A box \in People \X Hosts : Fresh(clock', jar'[box]),
         \A u \in Tabs :
           \/ Bounded(Situation, clock', jar'[Box(u, tab'[u].host)], tab'[u])
           \/ /\ Waits(tab[u], tab'[u])
              /\ \/ tab'[u].hops = 0
                 \/ /\ tab'[u].hops = tab[u].hops /\ clock' = clock
                    /\ Anonymous(jar'[Box(u, tab[u].host)]) => Anonymous(jar[Box(u, tab[u].host)])
  PROVE  CarouselInvariant'
  <1>1. ASSUME NEW u \in Tabs
        PROVE  Bounded(Situation, clock', jar'[Box(u, tab'[u].host)], tab'[u])
    <2> DEFINE c == jar[Box(u, tab[u].host)]
               d == jar'[Box(u, tab[u].host)]
    <2>1. CASE /\ Waits(tab[u], tab'[u])
               /\ \/ tab'[u].hops = 0
                  \/ tab'[u].hops = tab[u].hops /\ clock' = clock /\ (Anonymous(d) => Anonymous(c))
      <3>1. Bounded(Situation, clock, c, tab[u]) /\ tab[u].hops \in Nat
        BY CarouselIs
      <3>2. tab'[u].host = tab[u].host
        BY <2>1 DEF Waits
      <3> HIDE DEF c, d
      <3>3. Bounded(Situation, clock', d, tab'[u])
        BY <2>1, <3>1, WaitsBounded
      <3> QED
        BY <3>2, <3>3 DEF d
    <2> QED
      BY <2>1
  <1> QED
    BY <1>1, CarouselKept

\* The edge sees a redirected request.
LEMMA FollowWithin ==
  ASSUME MaxRedirects >= 4, SiteInvariant, CarouselInvariant, NEW t \in Tabs, Follow(t)
  PROVE  CarouselInvariant'
  <1> DEFINE b == tab[t]
             x == Sent(t, b, b.ask)
  <1>1. b.pc = "going" /\ Becomes(t, x) /\ UNCHANGED <<visit, clock, jar>>
    BY DEF Follow
  <1>2. /\ Carried(b) /\ b.ask \in Request /\ b.host \in Hosts
        /\ Under(b.ask.uri, AuthTree) => Situation.entry[b.host].r = None
    BY <1>1, TabIs DEF Sendable
  <1>3. /\ Homeward(b.host, b.ask) /\ Fresh(clock, jar[Box(t, b.host)])
        /\ ~b.spurned => b.hops + Coming(Situation, jar[Box(t, b.host)], b.host, b.ask) <= 4
    BY <1>1, <1>2, CarouselIs DEF Bounded, Ahead
  <1> HIDE DEF b
  <1>4. Affords(t, b, b.ask)
    BY <1>2, <1>3 DEF Affords
  <1>5. Within(t, x)
    BY <1>4, SentBounded
  <1> QED
    BY <1>1, <1>5, OneWithin

\* Back to a page of the site.
LEMMA HomeBounded ==
  ASSUME MaxRedirects >= 4, NEW s, NEW now, NEW c, NEW b, Carried(b), s.entry[b.host].r = None,
         NEW to, Asked(to), ~b.spurned => b.hops + 1 + ForPage(c) <= 4, NEW x, x = Redirected(b, Get(to))
  PROVE  Bounded(s, now, c, x) /\ x.host = b.host
  <1> DEFINE q == Get(to)
  <1>1. q \in Request /\ q.uri = to /\ ~Under(to, AuthTree) /\ x = Redirected(b, q)
    BY GetIs DEF Asked, Path
  <1> HIDE DEF q
  <1>2. Homeward(b.host, q) /\ Coming(s, c, b.host, q) = ForPage(c)
    BY <1>1 DEF Homeward, Coming
  <1> QED
    BY <1>1, <1>2, RedirectBounded

\* At the origin: a tab that is answered.
LEMMA AnsweredIs ==
  ASSUME SiteInvariant, CarouselInvariant, NEW t \in Tabs, NEW uri, Answering(t, uri),
         NEW b, b = tab[t], NEW c, c = jar[Box(t, b.host)]
  PROVE  /\ Carried(b) /\ b.hops \in Nat /\ b \in Tab /\ b.host \in Hosts /\ b.ask \in Request /\ b.ask.uri = uri
         /\ Situation.entry[b.host].r = None /\ UNCHANGED <<visit, clock>> /\ c \in Jar
         /\ Homeward(b.host, b.ask)
         /\ ~b.spurned => b.sent.good /\ b.hops + Due(clock, c, b) <= 4
         /\ ~b.spurned => b.hops <= 4
         /\ uri \in {Login, SendOtp, Verify, Register, Logout} =>
              Asked(Safe(b.host, b.ask.ret)) /\ Asked(Safe(b.host, b.ask.frag))
         /\ uri \in {SendOtp, Verify, Logout} => Due(clock, c, b) = 2
         /\ uri = Register => Due(clock, c, b) = 1 + ForPage(c)
         /\ uri = Login => Due(clock, c, b) >= 1
         /\ ForPage(c) \in {0, 3}
  <1>1. /\ b.pc = "origin" /\ Carried(b) /\ b \in Tab /\ b.host \in Hosts /\ b.ask \in Request /\ b.ask.uri = uri
        /\ Situation.entry[b.host].r = None /\ UNCHANGED <<visit, clock>>
    BY AtOriginIsSound
  <1>2. /\ Bounded(Situation, clock, c, b) /\ b.hops \in Nat
    BY CarouselIs
  <1>3. Homeward(b.host, b.ask) /\ (~b.spurned => b.sent.good /\ b.hops + Due(clock, c, b) <= 4)
    BY <1>1, <1>2 DEF Bounded, Ahead
  <1>4. Ahead(Situation, clock, c, b) \in 0..4 /\ Ahead(Situation, clock, c, b) = Due(clock, c, b)
    BY <1>1, AheadIs DEF Ahead
  <1>5. ~b.spurned => b.hops <= 4
    BY <1>2, <1>3, <1>4
  <1>6. uri \in {Login, SendOtp, Verify, Register, Logout} =>
           /\ Asked(Safe(b.host, b.ask.ret)) /\ Asked(Safe(b.host, b.ask.frag))
           /\ Under(uri, AuthTree)
    BY <1>1, <1>3, Names DEF Homeward
  <1>7. ForPage(c) \in {0, 3}
    BY DEF ForPage
  <1>8. /\ uri \in {SendOtp, Verify, Logout} => Due(clock, c, b) = 2
        /\ uri = Register => Due(clock, c, b) = 1 + ForPage(c)
    BY <1>1, <1>6, Names DEF Due, ForForm
  <1>9. uri = Login => Due(clock, c, b) >= 1
    BY <1>1, <1>6, <1>7 DEF Due
  <1>10. c \in Jar
    BY <1>1, StateIs
  <1> QED
    BY <1>1, <1>2, <1>3, <1>5, <1>6, <1>7, <1>8, <1>9, <1>10

\* Who has a session goes back to the page.
LEMMA LoginBackWithin ==
  ASSUME MaxRedirects >= 4, SiteInvariant, CarouselInvariant, NEW t \in Tabs, LoginBack(t)
  PROVE  CarouselInvariant'
  <1> DEFINE b == tab[t]
             c == jar[Box(t, b.host)]
             to == Safe(b.host, b.ask.ret)
             x == Redirected(b, Get(to))
  <1>1. Answering(t, Login) /\ Back(b) /\ Becomes(t, x) /\ UNCHANGED jar
    BY DEF LoginBack
  <1>2. /\ Carried(b) /\ b.hops \in Nat /\ b.ask.uri = Login
        /\ Situation.entry[b.host].r = None /\ UNCHANGED <<visit, clock>>
        /\ ~b.spurned => b.hops + Due(clock, c, b) <= 4
        /\ Asked(to) /\ ForPage(c) \in {0, 3}
    BY <1>1, AnsweredIs
  <1>3. Due(clock, c, b) = 1 + ForPage(c)
    BY <1>1, <1>2, Names DEF Due, Back, Unexpired, Anonymous
  <1> HIDE DEF b, c, to
  <1>4. ~b.spurned => b.hops + 1 + ForPage(c) <= 4
    BY <1>2, <1>3
  <1>5. Bounded(Situation, clock, c, x) /\ x.host = b.host
    BY <1>2, <1>4, HomeBounded
  <1>6. Within(t, x)
    BY <1>5 DEF Within, c
  <1> QED
    BY <1>1, <1>2, <1>6, OneWithin

\* A login page that the origin draws leads back.
LEMMA DrawnBounded ==
  ASSUME SiteInvariant, CarouselInvariant, NEW t \in Tabs, NEW uri \in {Login, SendOtp, Verify}, Answering(t, uri),
         NEW f, f = tab[t] \/ f = [tab[t] EXCEPT !.failed = TRUE], NEW form, NEW x, x = Shown(f, form)
  PROVE  \A c : Bounded(Situation, clock, c, x)
  <1> DEFINE b == tab[t]
  <1>1. /\ Carried(b) /\ b.hops \in Nat /\ b \in Tab
        /\ ~b.spurned => b.hops <= 4
        /\ Asked(Safe(b.host, b.ask.ret)) /\ Asked(Safe(b.host, b.ask.frag))
    BY AnsweredIs
  <1>2. /\ f.ask = b.ask /\ f.host = b.host /\ f.hops = b.hops /\ f.spurned = b.spurned /\ f.beaten = b.beaten
        /\ f.known = b.known /\ f.wanted = b.wanted
    <2>1. CASE f = tab[t]
      BY <2>1
    <2>2. CASE f = [tab[t] EXCEPT !.failed = TRUE]
      <3>1. Failed(b, f)
        BY <1>1, <2>2, FailedIs
      <3> QED
        BY <3>1 DEF Failed
    <2> QED
      BY <2>1, <2>2
  <1> HIDE DEF b
  <1>3. Carried(f)
    BY <1>1, <1>2 DEF Carried
  <1>4. /\ x.pc = "login" /\ x.host = b.host /\ x.hops = b.hops /\ x.spurned = b.spurned
        /\ x.field = IF b.ask.ret # Nowhere THEN b.ask.ret ELSE b.ask.frag
    BY <1>2, <1>3, ShownForm
  <1>5. Asked(Safe(x.host, x.field))
    BY <1>1, <1>4
  <1> QED
    BY <1>1, <1>4, <1>5, PageBounded

\* A tab that differs in what no redirect depends on waits for the same.
LEMMA WaitsIs ==
  ASSUME NEW b \in Tab, NEW p, NEW x, x = [b EXCEPT !.beaten = p] \/ x = [b EXCEPT !.lagged = p]
  PROVE  Waits(b, x) /\ x.hops = b.hops
  BY DEF Tab, Waits

\* Somebody signs in: a session spares their other tabs redirects.
LEMMA SignsInWithin ==
  ASSUME SiteInvariant, CarouselInvariant, UNCHANGED <<visit, clock>>,
         NEW t \in Tabs, NEW c \in Jar, NEW x, x.host = tab[t].host,
         \A d : ~Anonymous(d) => Bounded(Situation, clock, d, x), SignsIn(t, x, c)
  PROVE  CarouselInvariant'
  <1> DEFINE box == Box(t, tab[t].host)
             d == [c EXCEPT !.id = clock + IdLife, !.good = TRUE, !.rt = "live"]
  <1>1. clock \in Nat /\ IdLife \in Nat \ {0} /\ jar \in [People \X Hosts -> Jar] /\ \A u \in Tabs : tab[u] \in Tab
    BY StateIs, VisitAssumption DEF SiteInvariant, TypeOK
  <1>2. box \in People \X Hosts
    BY StateIs, TabIs
  <1>3. d.id = clock + IdLife
    BY DEF Jar
  <1>4. jar' = [jar EXCEPT ![box] = d]
    BY DEF SignsIn
  <1>5. tab' = [u \in Tabs |-> IF u = t THEN x
                               ELSE [tab[u] EXCEPT !.beaten = @ \/ Box(u, tab[u].host) = box]]
    BY DEF SignsIn
  <1> HIDE DEF box, d
  <1>6. ~Anonymous(d) /\ Fresh(clock, d)
    BY <1>1, <1>3 DEF Anonymous, Fresh
  <1>7. jar'[box] = d /\ \A p \in People \X Hosts : p # box => jar'[p] = jar[p]
    BY <1>1, <1>2, <1>4
  <1>8. \A p \in People \X Hosts : Fresh(clock', jar'[p])
    BY <1>6, <1>7 DEF CarouselInvariant, Fresh
  <1>9. ASSUME NEW u \in Tabs, u # t
        PROVE  /\ Waits(tab[u], tab'[u]) /\ tab'[u].hops = tab[u].hops
               /\ Anonymous(jar'[Box(u, tab[u].host)]) => Anonymous(jar[Box(u, tab[u].host)])
    <2>1. PICK p : tab'[u] = [tab[u] EXCEPT !.beaten = p]
      BY <1>5, <1>9
    <2>2. Waits(tab[u], tab'[u]) /\ tab'[u].hops = tab[u].hops
      <3>1. tab[u] \in Tab
        BY <1>1
      <3> QED
        BY <2>1, <3>1, WaitsIs
    <2>3. Box(u, tab[u].host) \in People \X Hosts
      BY StateIs, TabIs
    <2> QED
      BY <1>6, <1>7, <2>2, <2>3
  <1>10. Bounded(Situation, clock', jar'[Box(t, tab'[t].host)], tab'[t])
    <2>1. tab'[t] = x
      BY <1>5
    <2> QED
      BY <1>6, <1>7, <2>1 DEF box
  <1> QED
    BY <1>8, <1>9, <1>10, TabsWithin

\* Home, with the session just begun.
LEMMA HomeWithSession ==
  ASSUME MaxRedirects >= 4, NEW s, NEW now, NEW b, Carried(b), s.entry[b.host].r = None,
         NEW to, Asked(to), ~b.spurned => b.hops + 1 <= 4, NEW x, x = Redirected(b, Get(to))
  PROVE  x.host = b.host /\ \A d : ~Anonymous(d) => Bounded(s, now, d, x)
  <1>1. ASSUME NEW d, ~Anonymous(d)
        PROVE  Bounded(s, now, d, x)
    <2>1. ForPage(d) = 0 /\ b.hops \in Nat
      BY <1>1 DEF ForPage, Carried
    <2>2. ~b.spurned => b.hops + 1 + ForPage(d) <= 4
      BY <2>1
    <2> QED
      BY <2>2, HomeBounded
  <1>2. x.host = b.host
    <2>1. Get(to) \in Request
      BY GetIs DEF Asked, Path
    <2> QED
      BY <2>1, RedirectedIs
  <1> QED
    BY <1>1, <1>2

\* A renewal.
LEMMA RenewWithin ==
  ASSUME MaxRedirects >= 4, SiteInvariant, CarouselInvariant, NEW t \in Tabs, Renew(t)
  PROVE  CarouselInvariant'
  <1> DEFINE b == tab[t]
             to == ResumeAt(b)
             x == Redirected(b, Get(to))
             c == jar[Box(t, b.host)]
  <1>1. Answering(t, Login) /\ SignsIn(t, x, c)
    BY DEF Renew
  <1>2. /\ Carried(b) /\ b.hops \in Nat /\ b.host \in Hosts /\ b.ask \in Request
        /\ Situation.entry[b.host].r = None /\ UNCHANGED <<visit, clock>> /\ c \in Jar
        /\ ~b.spurned => b.hops + Due(clock, c, b) <= 4
        /\ Asked(Safe(b.host, b.ask.ret)) /\ Asked(Safe(b.host, b.ask.frag))
        /\ Due(clock, c, b) >= 1
    BY <1>1, AnsweredIs
  <1>3. Asked(to)
    <2>1. b.ask.frag \in Path
      BY <1>2 DEF Request, Path
    <2>2. Asked(Root)
      BY Names DEF Asked, Path
    <2> QED
      BY <1>2, <2>1, <2>2, SafeIs DEF ResumeAt, Carriable
  <1>4. Due(clock, c, b) \in Nat
    BY DEF Due, ForPage, ForForm
  <1> HIDE DEF b, to, c
  <1>5. ~b.spurned => b.hops + 1 <= 4
    BY <1>2, <1>4
  <1>6. x.host = b.host /\ \A d : ~Anonymous(d) => Bounded(Situation, clock, d, x)
    BY <1>2, <1>3, <1>5, HomeWithSession
  <1> HIDE DEF x
  <1> QED
    BY <1>1, <1>2, <1>6, SignsInWithin DEF b

\* The right code: home, or the offer of a passkey and home.
LEMMA RightCodeWithin ==
  ASSUME MaxRedirects >= 4, SiteInvariant, CarouselInvariant, NEW t \in Tabs, RightCode(t)
  PROVE  CarouselInvariant'
  <1> DEFINE b == tab[t]
             to == Safe(b.host, b.ask.ret)
             c == jar[Box(t, b.host)]
  <1>1. Answering(t, Verify)
    BY DEF RightCode
  <1>2. PICK x, d :
           /\ x = Redirected(b, Ask(TRUE, Register, to)) \/ x = Redirected(b, Get(to))
           /\ d = [c EXCEPT !.mail = TRUE, !.at = clock + AccessLife] \/ d = [c EXCEPT !.mail = TRUE, !.at = @]
           /\ SignsIn(t, x, d)
    <2>1. PICK on \in Offers(b.host) :
             SignsIn(t, Redirected(b, IF on /\ ~b.sent.pk THEN Ask(TRUE, Register, to) ELSE Get(to)),
                     [c EXCEPT !.mail = TRUE, !.at = IF on /\ ~b.sent.pk THEN clock + AccessLife ELSE @])
      BY DEF RightCode
    <2>2. CASE on /\ ~b.sent.pk
      BY <2>1, <2>2
    <2>3. CASE ~(on /\ ~b.sent.pk)
      BY <2>1, <2>3
    <2> QED
      BY <2>2, <2>3
  <1>3. /\ Carried(b) /\ b.hops \in Nat /\ b.host \in Hosts /\ b.ask \in Request
        /\ Situation.entry[b.host].r = None /\ UNCHANGED <<visit, clock>> /\ c \in Jar
        /\ ~b.spurned => b.hops + Due(clock, c, b) <= 4
        /\ Asked(to) /\ Due(clock, c, b) = 2
    BY <1>1, AnsweredIs
  <1>4. clock \in Nat /\ to \in Path
    BY <1>3, StateIs DEF Asked, Path
  <1> HIDE DEF b, to, c
  <1>5. d \in Jar
    <2>1. clock + AccessLife \in Nat
      BY <1>4, VisitAssumption
    <2> QED
      BY <1>2, <1>3, <2>1 DEF Jar
  <1>6. ~b.spurned => b.hops + 2 <= 4
    BY <1>3
  <1>7. x.host = b.host /\ \A e : ~Anonymous(e) => Bounded(Situation, clock, e, x)
    <2>1. CASE x = Redirected(b, Get(to))
      <3>1. ~b.spurned => b.hops + 1 <= 4
        BY <1>3, <1>6
      <3> QED
        BY <1>3, <2>1, <3>1, HomeWithSession
    <2>2. CASE x = Redirected(b, Ask(TRUE, Register, to))
      <3> DEFINE q == Ask(TRUE, Register, to)
      <3>1. q \in Request /\ q.uri = Register /\ q.ret = to /\ q.frag = Nowhere
        BY <1>4, Names DEF Ask, Request, Path
      <3>2. x = Redirected(b, q)
        BY <2>2
      <3> HIDE DEF q
      <3>3. Homeward(b.host, q)
        <4>1. Safe(b.host, to) = to /\ Asked(Safe(b.host, Nowhere))
          BY <1>3, <1>4, Names, SafeIs DEF Asked, Path
        <4> QED
          BY <1>3, <3>1, <4>1, Names DEF Homeward
      <3>4. ASSUME NEW e, ~Anonymous(e)
            PROVE  Bounded(Situation, clock, e, x)
        <4>1. Coming(Situation, e, b.host, q) = 1
          BY <1>3, <3>1, <3>4, Names DEF Coming, ForForm, ForPage
        <4>2. ~b.spurned => b.hops + 1 + 1 <= 4
          BY <1>3, <1>6
        <4> QED
          BY <1>3, <3>1, <3>2, <3>3, <4>1, <4>2, RedirectBounded
      <3>5. x.host = b.host
        BY <1>3, <3>1, <3>2, RedirectedIs
      <3> QED
        BY <3>4, <3>5
    <2> QED
      BY <1>2, <2>1, <2>2
  <1> QED
    BY <1>2, <1>3, <1>5, <1>7, SignsInWithin DEF b

\* What the origin says to a form: the page for the code, or the login page again.
LEMMA FormAnsweredWithin ==
  ASSUME SiteInvariant, CarouselInvariant, NEW t \in Tabs, NEW uri \in {SendOtp, Verify}, Answering(t, uri),
         Becomes(t, At(tab[t], "code", tab[t].ask.ret)) \/ LoginAgain(t), UNCHANGED jar
  PROVE  CarouselInvariant'
  <1> DEFINE b == tab[t]
  <1>1. /\ Carried(b) /\ b.hops \in Nat /\ b.ask \in Request /\ UNCHANGED <<visit, clock>>
        /\ ~b.spurned => b.hops <= 4
        /\ Asked(Safe(b.host, b.ask.ret))
    BY AnsweredIs
  <1>2. CASE Becomes(t, At(b, "code", b.ask.ret))
    <2> DEFINE x == At(b, "code", b.ask.ret)
    <2>1. "code" \in Stages /\ b.ask.ret \in Path
      BY <1>1 DEF Stages, Request, Path
    <2> HIDE DEF b
    <2>2. x.pc = "code" /\ x.field = b.ask.ret /\ x.host = b.host /\ x.hops = b.hops /\ x.spurned = b.spurned
      BY <1>1, <2>1, AtIs
    <2>3. Within(t, x)
      BY <1>1, <2>2, PageBounded DEF Within
    <2> QED
      BY <1>1, <1>2, <2>3, OneWithin
  <1>3. CASE LoginAgain(t)
    <2> DEFINE f == [tab[t] EXCEPT !.failed = TRUE]
               x == Shown(f, Form(Who(t).lang, FALSE, Who(t).name))
    <2>1. Becomes(t, x)
      BY <1>3 DEF LoginAgain
    <2>2. \A c : Bounded(Situation, clock, c, x)
      BY DrawnBounded
    <2>3. Within(t, x)
      BY <2>2 DEF Within
    <2> QED
      BY <1>1, <2>1, <2>3, OneWithin
  <1> QED
    BY <1>2, <1>3

\* A login page is drawn.
LEMMA RenderWithin ==
  ASSUME SiteInvariant, CarouselInvariant, NEW t \in Tabs, Answering(t, Login),
         NEW f, f = tab[t] \/ f = [tab[t] EXCEPT !.failed = TRUE], Render(t, f, Kept(tab[t].sent)),
         \A p \in People \X Hosts : jar'[p].id = jar[p].id
  PROVE  CarouselInvariant'
  <1>1. UNCHANGED <<visit, clock>>
    BY DEF Answering
  <1>2. PICK form : Becomes(t, Shown(f, form))
    BY DEF Render
  <1>3. \A c : Bounded(Situation, clock, c, Shown(f, form))
    BY DrawnBounded
  <1>4. tab \in [Tabs -> Tab]
    BY DEF SiteInvariant, TypeOK
  <1>5. tab'[t] = Shown(f, form) /\ \A u \in Tabs \ {t} : tab'[u] = tab[u]
    BY <1>2, <1>4 DEF Becomes
  <1>6. \A p \in People \X Hosts : Fresh(clock', jar'[p])
    BY <1>1 DEF CarouselInvariant, Fresh, Anonymous
  <1>7. ASSUME NEW u \in Tabs
        PROVE  \/ Bounded(Situation, clock', jar'[Box(u, tab'[u].host)], tab'[u])
               \/ /\ Waits(tab[u], tab'[u]) /\ tab'[u].hops = tab[u].hops /\ clock' = clock
                  /\ Anonymous(jar'[Box(u, tab[u].host)]) => Anonymous(jar[Box(u, tab[u].host)])
    <2>1. CASE u = t
      BY <1>1, <1>3, <1>5, <2>1
    <2>2. CASE u # t
      <3>1. Box(u, tab[u].host) \in People \X Hosts
        BY StateIs, TabIs
      <3> QED
        BY <1>1, <1>5, <2>2, <3>1 DEF Waits, Anonymous
    <2> QED
      BY <2>1, <2>2
  <1> QED
    BY <1>1, <1>6, <1>7, TabsWithin

\* A login page for somebody whose renewal failed, or who has nothing to renew.
LEMMA LoginPageWithin ==
  ASSUME SiteInvariant, CarouselInvariant, NEW t \in Tabs, LoginPage(t) \/ LoginPageRefused(t)
  PROVE  CarouselInvariant'
  <1>1. CASE LoginPage(t)
    BY <1>1, RenderWithin DEF LoginPage
  <1>2. CASE LoginPageRefused(t)
    <2> DEFINE box == Box(t, tab[t].host)
               d == [jar[box] EXCEPT !.rt = "none"]
    <2>1. /\ Answering(t, Login) /\ Render(t, [tab[t] EXCEPT !.failed = TRUE], Kept(tab[t].sent))
          /\ jar' = jar \/ jar' = [jar EXCEPT ![box] = d]
      BY <1>2 DEF LoginPageRefused
    <2>2. jar \in [People \X Hosts -> Jar] /\ box \in People \X Hosts
      BY StateIs, TabIs DEF SiteInvariant, TypeOK
    <2>3. d.id = jar[box].id
      BY <2>2 DEF Jar
    <2> HIDE DEF box, d
    <2>4. \A p \in People \X Hosts : jar'[p].id = jar[p].id
      BY <2>1, <2>2, <2>3
    <2> QED
      BY <2>1, <2>4, RenderWithin
  <1> QED
    BY <1>1, <1>2

\* The page that offers a passkey, or home.
LEMMA AnswerRegisterWithin ==
  ASSUME MaxRedirects >= 4, SiteInvariant, CarouselInvariant, NEW t \in Tabs, AnswerRegister(t)
  PROVE  CarouselInvariant'
  <1> DEFINE b == tab[t]
             to == Safe(b.host, b.ask.ret)
             c == jar[Box(t, b.host)]
  <1>1. Answering(t, Register) /\ UNCHANGED jar
    BY DEF AnswerRegister
  <1>2. PICK x : Becomes(t, x) /\ (x = At(b, "offer", to) \/ x = Redirected(b, Get(to)))
    BY DEF AnswerRegister
  <1>3. /\ Carried(b) /\ b.hops \in Nat
        /\ Situation.entry[b.host].r = None /\ UNCHANGED <<visit, clock>>
        /\ ~b.spurned => b.hops + Due(clock, c, b) <= 4
        /\ ~b.spurned => b.hops <= 4
        /\ Asked(to) /\ Due(clock, c, b) = 1 + ForPage(c) /\ ForPage(c) \in {0, 3}
    BY <1>1, AnsweredIs
  <1> HIDE DEF b, to, c
  <1>4. Within(t, x)
    <2>1. CASE x = At(b, "offer", to)
      <3>1. "offer" \in Stages /\ to \in Path
        BY <1>3 DEF Stages, Asked, Path
      <3>2. x.pc = "offer" /\ x.field = to /\ x.hops = b.hops /\ x.spurned = b.spurned
        BY <1>3, <2>1, <3>1, AtIs
      <3> QED
        BY <1>3, <3>2, PageBounded DEF Within
    <2>2. CASE x = Redirected(b, Get(to))
      <3>1. ~b.spurned => b.hops + 1 + ForPage(c) <= 4
        BY <1>3
      <3>2. Bounded(Situation, clock, c, x) /\ x.host = b.host
        BY <1>3, <2>2, <3>1, HomeBounded
      <3> QED
        BY <3>2 DEF Within, c
    <2> QED
      BY <1>2, <2>1, <2>2
  <1> QED
    BY <1>1, <1>2, <1>3, <1>4, OneWithin

\* A logout leads to the login page, and the other tabs of the browser count anew.
LEMMA AnswerLogoutWithin ==
  ASSUME MaxRedirects >= 4, SiteInvariant, CarouselInvariant, NEW t \in Tabs, AnswerLogout(t)
  PROVE  CarouselInvariant'
  <1> DEFINE b == tab[t]
             q == Get(Login)
             x == Redirected(b, q)
             box == Box(t, b.host)
             c == jar[box]
             d == [c EXCEPT !.id = 0, !.good = TRUE, !.rt = "none"]
  <1>0. Answering(t, Logout) /\ jar' = [jar EXCEPT ![box] = d]
    BY DEF AnswerLogout
  <1>1. PICK revoked \in BOOLEAN :
          tab' = [u \in Tabs |-> IF u = t THEN x
                                 ELSE IF Box(u, tab[u].host) = box
                                 THEN [tab[u] EXCEPT !.hops = 0, !.sent = IF revoked THEN Dead(@) ELSE @]
                                 ELSE tab[u]]
    BY DEF AnswerLogout
  <1>2. /\ Carried(b) /\ b.hops \in Nat /\ b.host \in Hosts /\ c \in Jar
        /\ Situation.entry[b.host].r = None /\ UNCHANGED <<visit, clock>>
        /\ ~b.spurned => b.hops + Due(clock, c, b) <= 4
        /\ Due(clock, c, b) = 2
    BY <1>0, AnsweredIs
  <1>3. box \in People \X Hosts /\ jar \in [People \X Hosts -> Jar]
    BY <1>2, StateIs DEF SiteInvariant, TypeOK
  <1> HIDE DEF b, c
  <1>4. Anonymous(d)
    BY <1>2 DEF Jar, Anonymous
  <1> HIDE DEF box, d
  <1>5. jar'[box] = d /\ \A p \in People \X Hosts : p # box => jar'[p] = jar[p]
    BY <1>0, <1>3
  <1>6. \A p \in People \X Hosts : Fresh(clock', jar'[p])
    BY <1>2, <1>4, <1>5 DEF CarouselInvariant, Fresh
  <1>7. q \in Request /\ q.uri = Login /\ q.ret = Nowhere /\ q.frag = Nowhere
    BY LoginIs
  <1> HIDE DEF q
  <1>8. \A e : Bounded(Situation, clock, e, x)
    <2>1. Asked(Safe(b.host, q.frag))
      BY <1>2, <1>7, Names, SafeIs DEF Asked, Path
    <2>2. ~b.spurned => b.hops + 2 <= 4
      BY <1>2
    <2> QED
      BY <1>2, <1>7, <2>1, <2>2, ToLoginBounded
  <1>9. ASSUME NEW u \in Tabs
        PROVE  \/ Bounded(Situation, clock', jar'[Box(u, tab'[u].host)], tab'[u])
               \/ /\ Waits(tab[u], tab'[u])
                  /\ \/ tab'[u].hops = 0
                     \/ /\ tab'[u].hops = tab[u].hops /\ clock' = clock
                        /\ Anonymous(jar'[Box(u, tab[u].host)]) => Anonymous(jar[Box(u, tab[u].host)])
    <2>1. CASE u = t
      BY <1>1, <1>2, <1>8, <2>1
    <2>2. CASE u # t /\ Box(u, tab[u].host) = box
      <3>1. /\ tab'[u] = [tab[u] EXCEPT !.hops = 0, !.sent = IF revoked THEN Dead(@) ELSE @]
            /\ tab[u] \in Tab /\ tab[u].sent \in Jar
        BY <1>1, <2>2, StateIs DEF Tab
      <3>2. Dead(tab[u].sent).id = tab[u].sent.id /\ Dead(tab[u].sent).good = tab[u].sent.good
        BY <3>1, DeadIs
      <3> QED
        BY <3>1, <3>2 DEF Tab, Waits
    <2>3. CASE u # t /\ Box(u, tab[u].host) # box
      <3>1. tab'[u] = tab[u]
        BY <1>1, <2>3
      <3>2. Box(u, tab[u].host) \in People \X Hosts
        BY StateIs, TabIs
      <3> QED
        BY <1>2, <1>5, <2>3, <3>1, <3>2 DEF Waits
    <2> QED
      BY <2>1, <2>2, <2>3
  <1> QED
    BY <1>2, <1>6, <1>9, TabsWithin

\* A tab that is redirected on its own host stays within its bound.
LEMMA RedirectWithin ==
  ASSUME MaxRedirects >= 4, NEW t, NEW b, Carried(b), NEW q \in Request, Homeward(b.host, q),
         ~b.spurned => b.hops + 1 + Coming(Situation, jar[Box(t, b.host)], b.host, q) <= 4,
         NEW x, x = Redirected(b, q)
  PROVE  Within(t, x)
  <1>1. Bounded(Situation, clock, jar[Box(t, b.host)], x) /\ x.host = b.host
    BY RedirectBounded
  <1> QED
    BY <1>1 DEF Within

\* The application's own redirect: whoever it is for has no session, or one that ended.
LEMMA OwnRedirectWithin ==
  ASSUME MaxRedirects >= 4, SiteInvariant, CarouselInvariant, NEW t \in Tabs,
         NEW uri, ~Under(uri, AuthTree), Answering(t, uri), NEW b, b = tab[t], ~Honoured(b.sent),
         NEW to, to = (IF Situation.own = "address" THEN <<b.host>> ELSE <<>>) \o uri,
         NEW x, x = Redirected(b, Ask(TRUE, Login, to))
  PROVE  Within(t, x)
  <1> DEFINE c == jar[Box(t, b.host)]
             q == Ask(TRUE, Login, to)
  <1>1. /\ Carried(b) /\ b.hops \in Nat /\ b.host \in Hosts /\ b.ask \in Request /\ b.ask.uri = uri
        /\ Situation.entry[b.host].r = None
        /\ Homeward(b.host, b.ask)
        /\ ~b.spurned => b.sent.good /\ b.hops + Due(clock, c, b) <= 4
    BY AnsweredIs
  <1>2. Asked(uri) /\ uri \in Path /\ Relative(uri)
    BY <1>1 DEF Homeward, Asked, Path
  <1>3. to \in Path /\ Safe(b.host, to) = uri
    <2>1. CASE Situation.own = "address"
      BY <1>1, <1>2, <2>1, OwnAddress
    <2>2. CASE Situation.own # "address"
      BY <1>1, <1>2, <2>2, OwnAddress, SafeIs
    <2> QED
      BY <2>1, <2>2
  <1>4. q \in Request /\ q.uri = Login /\ q.ret = to /\ q.frag = Nowhere
    BY <1>3, Names DEF Ask, Request, Path
  <1>5. x = Redirected(b, q)
    OBVIOUS
  <1> HIDE DEF q, c
  <1>6. Homeward(b.host, q)
    <2>1. Asked(Safe(b.host, Nowhere))
      BY <1>1, Names, SafeIs DEF Asked, Path
    <2> QED
      BY <1>2, <1>3, <1>4, <2>1, Names DEF Homeward
  <1>7. ~b.spurned => Due(clock, c, b) = 3
    BY <1>1 DEF Due, Honoured, Unexpired, Anonymous
  <1>8. Coming(Situation, c, b.host, q) \in 1..2
    BY <1>1, <1>4, Names DEF Coming
  <1>9. ~b.spurned => b.hops + 1 + Coming(Situation, c, b.host, q) <= 4
    BY <1>1, <1>7, <1>8
  <1> QED
    BY <1>1, <1>4, <1>5, <1>6, <1>9, RedirectWithin DEF c

\* A page that is refused, asked to log in for, or shown.
LEMMA AnswerPageWithin ==
  ASSUME MaxRedirects >= 4, SiteInvariant, CarouselInvariant, NEW t \in Tabs, AnswerPage(t)
  PROVE  CarouselInvariant'
  <1> DEFINE b == tab[t]
             uri == b.ask.uri
             place == Place(EntryOf(b.host), "origin", uri)
             to == (IF Situation.own = "address" THEN <<b.host>> ELSE <<>>) \o uri
  <1>1. ~Under(uri, AuthTree) /\ Answering(t, uri) /\ UNCHANGED jar
    BY DEF AnswerPage
  <1>2. /\ Carried(b) /\ b.hops \in Nat /\ b \in Tab /\ UNCHANGED <<visit, clock>>
        /\ ~b.spurned => b.hops <= 4
    BY <1>1, AnsweredIs
  <1>3. \/ Becomes(t, [b EXCEPT !.pc = "refused"])
        \/ ~Honoured(b.sent) /\ Becomes(t, Redirected(b, Ask(TRUE, Login, to)))
        \/ Becomes(t, Landed(b, place))
    BY DEF AnswerPage
  <1>4. CASE Becomes(t, [b EXCEPT !.pc = "refused"])
    <2> DEFINE x == [b EXCEPT !.pc = "refused"]
    <2>1. x.pc = "refused" /\ x.hops = b.hops /\ x.spurned = b.spurned
      BY <1>2 DEF Tab
    <2>2. Within(t, x)
      BY <1>2, <2>1, PageBounded DEF Within
    <2> QED
      BY <1>1, <1>2, <1>4, <2>2, OneWithin
  <1>5. CASE ~Honoured(b.sent) /\ Becomes(t, Redirected(b, Ask(TRUE, Login, to)))
    <2> DEFINE x == Redirected(b, Ask(TRUE, Login, to))
    <2>1. Within(t, x)
      BY <1>1, <1>5, OwnRedirectWithin
    <2> QED
      BY <1>1, <1>2, <1>5, <2>1, OneWithin
  <1>6. CASE Becomes(t, Landed(b, place))
    <2> DEFINE x == Landed(b, place)
    <2> HIDE DEF b, place
    <2>1. x.pc = "page" /\ x.hops = b.hops /\ x.spurned = b.spurned
      BY <1>2, LandedForm
    <2>2. Within(t, x)
      BY <1>2, <2>1, PageBounded DEF Within
    <2> QED
      BY <1>1, <1>2, <1>6, <2>2, OneWithin
  <1> QED
    BY <1>3, <1>4, <1>5, <1>6

-----------------------------------------------------------------------------
(* The person's steps, and the world's.                                    *)

\* Who sends a request themselves has all the redirects before them.
LEMMA SentWithin ==
  ASSUME MaxRedirects >= 4, SiteInvariant, CarouselInvariant, UNCHANGED <<visit, clock, jar>>,
         NEW t \in Tabs, NEW b, Carried(b), b.hops = 0, NEW q \in Request, Homeward(b.host, q),
         Under(q.uri, AuthTree) => Situation.entry[b.host].r = None,
         Becomes(t, Sent(t, b, q))
  PROVE  CarouselInvariant'
  <1> DEFINE c == jar[Box(t, b.host)]
             x == Sent(t, b, q)
  <1>1. Fresh(clock, c)
    BY CarouselIs DEF Carried
  <1>2. Coming(Situation, c, b.host, q) \in 0..4
    BY AheadIs
  <1>3. b.hops + Coming(Situation, c, b.host, q) <= 4
    <2> HIDE DEF c
    <2> QED
      BY <1>2
  <1>4. Affords(t, b, q)
    BY <1>1, <1>3 DEF Affords
  <1>5. Within(t, x)
    BY <1>4, SentBounded
  <1> QED
    BY <1>5, OneWithin

\* A form of the sign-in, with the page it leads back to.
LEMMA FormWithin ==
  ASSUME MaxRedirects >= 4, SiteInvariant, CarouselInvariant, UNCHANGED <<visit, clock, jar>>,
         NEW t \in Tabs, tab[t].pc \in {"login", "code", "assert"},
         NEW uri \in {Login, SendOtp, Verify}, NEW q \in Request, q.uri = uri, q.ret = tab[t].field, q.frag = Nowhere,
         Becomes(t, Sent(t, Still(t), q))
  PROVE  CarouselInvariant'
  <1> DEFINE o == tab[t]
             b == Still(t)
  <1>1. /\ Carried(b) /\ b.hops = 0 /\ b.host = o.host /\ b.host \in Hosts
        /\ Situation.entry[b.host].r = None
    BY StillIs
  <1>2. Asked(Safe(o.host, o.field))
    BY CarouselIs DEF Bounded
  <1> HIDE DEF o, b
  <1>3. Asked(Safe(b.host, Nowhere))
    BY <1>1, Names, SafeIs DEF Asked, Path
  <1>4. Homeward(b.host, q)
    BY <1>1, <1>2, <1>3, Names DEF Homeward, o
  <1> QED
    BY <1>1, <1>4, SentWithin DEF b

\* A request of the sign-in, by its parts.
LEMMA FormRequest ==
  ASSUME SiteInvariant, NEW t \in Tabs, NEW uri \in {SendOtp, Verify}, NEW q, q = Ask(FALSE, uri, tab[t].field)
  PROVE  q \in Request /\ q.uri = uri /\ q.ret = tab[t].field /\ q.frag = Nowhere
  BY TabIs, Names DEF Ask, Request, Path

\* The address, the code, or another address.
LEMMA CodeWithin ==
  ASSUME MaxRedirects >= 4, SiteInvariant, CarouselInvariant, NEW t \in Tabs,
         AskForCode(t) \/ EnterCode(t) \/ BackToEmail(t)
  PROVE  CarouselInvariant'
  <1>1. CASE AskForCode(t)
    BY <1>1, FormRequest, FormWithin DEF AskForCode, Acts
  <1>2. CASE EnterCode(t)
    BY <1>2, FormRequest, FormWithin DEF EnterCode, Acts
  <1>3. CASE BackToEmail(t)
    <2> DEFINE q == [Ask(TRUE, Login, tab[t].field) EXCEPT !.mail = Who(t).name]
    <2>1. Becomes(t, Sent(t, Still(t), q)) /\ tab[t].pc = "code" /\ UNCHANGED <<visit, clock, jar>>
      BY <1>3 DEF BackToEmail, Acts
    <2>2. q \in Request /\ q.uri = Login /\ q.ret = tab[t].field /\ q.frag = Nowhere
      BY StateIs, TabIs, Names DEF Ask, Request, Path
    <2> HIDE DEF q
    <2> QED
      BY <2>1, <2>2, FormWithin
  <1> QED
    BY <1>1, <1>2, <1>3

\* A visit, a logout.
LEMMA VisitWithin ==
  ASSUME MaxRedirects >= 4, SiteInvariant, CarouselInvariant, NEW t \in Tabs, Visit(t) \/ LogOut(t)
  PROVE  CarouselInvariant'
  <1>1. CASE Visit(t)
    <2>1. PICK uri \in Situation.wants[t] :
            Becomes(t, Sent(t, [NewTab(Who(t).host) EXCEPT !.wanted = uri], Get(uri)))
      BY <1>1 DEF Visit
    <2>2. UNCHANGED <<visit, clock, jar>>
      BY <1>1 DEF Visit, Acts
    <2> DEFINE host == Who(t).host
               n == NewTab(host)
               b == [n EXCEPT !.wanted = uri]
               q == Get(uri)
    <2>3. Asked(uri) /\ uri \in Path /\ ~Under(uri, AuthTree) /\ host \in Hosts
      BY StateIs DEF Sensible, Asked, Path
    <2>4. n \in Tab /\ n.host = host /\ n.hops = 0
      BY <2>3, NewTabTyped DEF NewTab
    <2>5. q \in Request /\ q.uri = uri
      BY <2>3, GetIs
    <2>6. Becomes(t, Sent(t, b, q))
      BY <2>1
    <2> HIDE DEF n, q, host
    <2>7. /\ b.host = host /\ b.hops = 0 /\ b.wanted = uri
          /\ b.beaten \in BOOLEAN /\ b.spurned \in BOOLEAN /\ b.known \in BOOLEAN
      BY <2>4 DEF Tab
    <2> HIDE DEF b
    <2>8. MaxRedirects \in Nat
      BY VisitAssumption
    <2>9. Carried(b)
      BY <2>3, <2>7, <2>8 DEF Carried
    <2>10. Homeward(b.host, q)
      BY <2>3, <2>5 DEF Homeward
    <2> QED
      BY <2>2, <2>3, <2>5, <2>6, <2>7, <2>9, <2>10, SentWithin
  <1>2. CASE LogOut(t)
    <2> DEFINE a == Still(t)
               b == [Still(t) EXCEPT !.wanted = Root]
               q == Get(Logout)
    <2>1. tab[t].pc = "page" /\ Becomes(t, Sent(t, b, q)) /\ UNCHANGED <<visit, clock, jar>>
      BY <1>2 DEF LogOut, Acts
    <2>2. Carried(a) /\ a.hops = 0 /\ a.host \in Hosts /\ Situation.entry[a.host].r = None
      BY <2>1, StillIs
    <2>3. b.host = a.host /\ b.hops = a.hops /\ b.beaten = a.beaten /\ b.spurned = a.spurned /\ b.known = a.known
      BY DEF Still
    <2>4. b.wanted = Root
      BY StateIs DEF Still, Tab
    <2>5. q \in Request /\ q.uri = Logout /\ q.ret = Nowhere /\ q.frag = Nowhere
      BY Names, GetIs
    <2> HIDE DEF a, b, q
    <2>6. Carried(b) /\ b.hops = 0 /\ Situation.entry[b.host].r = None /\ b.host \in Hosts
      BY <2>2, <2>3, <2>4, Names DEF Carried
    <2>7. Homeward(b.host, q)
      BY <2>5, <2>6, Names, SafeIs DEF Homeward, Asked, Path
    <2> QED
      BY <2>1, <2>5, <2>6, <2>7, SentWithin
  <1> QED
    BY <1>1, <1>2

\* The person goes from one page of the sign-in to the next without a request.
LEMMA TurnsWithin ==
  ASSUME SiteInvariant, CarouselInvariant, UNCHANGED <<visit, clock, jar>>,
         NEW t \in Tabs, NEW b, b = Still(t) \/ b = tab[t], tab[t].pc # "gaveUp", b.hops = 0,
         NEW pc \in {"assert", "create", "later"},
         pc = "assert" => tab[t].pc = "login", pc # "assert" => tab[t].pc \in {"offer", "create"},
         Becomes(t, At(b, pc, tab[t].field))
  PROVE  CarouselInvariant'
  <1> DEFINE o == tab[t]
             x == At(b, pc, o.field)
  <1>1. Carried(b) /\ b.host = o.host /\ o.field \in Path
    BY StillIs, TabIs
  <1>2. /\ o.pc = "login" => Asked(Safe(o.host, o.field))
        /\ o.pc \in {"offer", "create"} => Asked(o.field)
    BY CarouselIs DEF Bounded
  <1>3. pc \in Stages
    BY DEF Stages
  <1> HIDE DEF o
  <1>4. x.pc = pc /\ x.field = o.field /\ x.host = b.host /\ x.hops = 0 /\ x.spurned = b.spurned
    BY <1>1, <1>3, AtIs
  <1>5. Within(t, x)
    BY <1>1, <1>2, <1>4, PageBounded DEF Within, o
  <1> QED
    BY <1>5, OneWithin DEF o

\* The passkey dialog, or a code after all.
LEMMA StartPasskeyWithin ==
  ASSUME MaxRedirects >= 4, SiteInvariant, CarouselInvariant, NEW t \in Tabs, StartPasskey(t)
  PROVE  CarouselInvariant'
  <1>1. /\ tab[t].pc = "login" /\ UNCHANGED <<visit, clock, jar>>
        /\ Becomes(t, At(Still(t), "assert", tab[t].field))
             \/ Becomes(t, Sent(t, Still(t), Ask(FALSE, SendOtp, tab[t].field)))
    BY DEF StartPasskey, Acts
  <1>2. CASE Becomes(t, At(Still(t), "assert", tab[t].field))
    <2>1. Still(t).hops = 0
      BY StillIs
    <2> QED
      BY <1>1, <1>2, <2>1, TurnsWithin
  <1>3. CASE Becomes(t, Sent(t, Still(t), Ask(FALSE, SendOtp, tab[t].field)))
    BY <1>1, <1>3, FormRequest, FormWithin
  <1> QED
    BY <1>1, <1>2, <1>3

\* The passkey was right, or a code after all.
LEMMA FinishPasskeyWithin ==
  ASSUME MaxRedirects >= 4, SiteInvariant, CarouselInvariant, NEW t \in Tabs, FinishPasskey(t)
  PROVE  CarouselInvariant'
  <1> DEFINE o == tab[t]
             to == Safe(o.host, o.field)
             x == Redirected(o, Get(to))
             c == jar[Box(t, o.host)]
             d == [c EXCEPT !.mail = TRUE, !.pk = TRUE]
  <1>1. /\ o.pc = "assert" /\ UNCHANGED <<visit, clock>>
        /\ \/ SignsIn(t, x, d)
           \/ Becomes(t, Sent(t, Still(t), Ask(FALSE, SendOtp, tab[t].field))) /\ UNCHANGED jar
    BY DEF FinishPasskey, Acts
  <1>2. CASE SignsIn(t, x, d)
    <2>1. Carried(o) /\ o.host \in Hosts /\ Situation.entry[o.host].r = None
      BY <1>1, TabIs DEF Inside
    <2>2. c \in Jar
      BY <2>1, StateIs
    <2>3. Asked(to) /\ o.hops = 0
      BY <1>1, CarouselIs DEF Bounded
    <2> HIDE DEF o, c, to
    <2>4. d \in Jar
      BY <2>2 DEF Jar
    <2>5. x.host = o.host /\ \A e : ~Anonymous(e) => Bounded(Situation, clock, e, x)
      BY <2>1, <2>3, HomeWithSession
    <2> HIDE DEF x, d
    <2> QED
      BY <1>1, <1>2, <2>4, <2>5, SignsInWithin DEF o
  <1>3. CASE Becomes(t, Sent(t, Still(t), Ask(FALSE, SendOtp, tab[t].field))) /\ UNCHANGED jar
    BY <1>1, <1>3, FormRequest, FormWithin
  <1> QED
    BY <1>1, <1>2, <1>3

\* The dialog for a new passkey, or "later" alone.
LEMMA StartRegisterWithin ==
  ASSUME SiteInvariant, CarouselInvariant, NEW t \in Tabs, StartRegister(t)
  PROVE  CarouselInvariant'
  <1>1. /\ tab[t].pc = "offer" /\ UNCHANGED <<visit, clock, jar>>
        /\ Becomes(t, At(Still(t), "create", tab[t].field)) \/ Becomes(t, At(Still(t), "later", tab[t].field))
    BY DEF StartRegister, Acts
  <1>2. Still(t).hops = 0
    BY StillIs
  <1> QED
    BY <1>1, <1>2, TurnsWithin

\* The new passkey, and home; or "later" alone.
LEMMA FinishRegisterWithin ==
  ASSUME MaxRedirects >= 4, SiteInvariant, CarouselInvariant, NEW t \in Tabs, FinishRegister(t)
  PROVE  CarouselInvariant'
  <1> DEFINE o == tab[t]
             box == Box(t, o.host)
             d == [jar[box] EXCEPT !.at = 0, !.pk = TRUE]
             x == Redirected(o, Get(o.field))
  <1>1. /\ o.pc = "create" /\ UNCHANGED <<visit, clock>>
        /\ \/ jar' = [jar EXCEPT ![box] = d] /\ Becomes(t, x)
           \/ Becomes(t, At(o, "later", o.field)) /\ UNCHANGED jar
    BY DEF FinishRegister, Acts
  <1>2. o.hops = 0 /\ Asked(o.field)
    BY <1>1, CarouselIs DEF Bounded
  <1>3. CASE jar' = [jar EXCEPT ![box] = d] /\ Becomes(t, x)
    <2>1. Carried(o) /\ Situation.entry[o.host].r = None
      BY <1>1, TabIs DEF Inside
    <2>2. jar \in [People \X Hosts -> Jar] /\ tab \in [Tabs -> Tab]
      BY DEF SiteInvariant, TypeOK
    <2>3. box \in People \X Hosts
      BY StateIs, TabIs
    <2> HIDE DEF o, box
    <2>4. d.id = jar[box].id
      BY <2>2, <2>3 DEF Jar
    <2> HIDE DEF d
    <2>5. \A p \in People \X Hosts : jar'[p].id = jar[p].id
      BY <1>3, <2>2, <2>3, <2>4
    <2>6. ASSUME NEW c
          PROVE  Bounded(Situation, clock, c, x)
      <3>1. ForPage(c) \in 0..3
        BY DEF ForPage
      <3>2. o.hops + 1 + ForPage(c) <= 4
        BY <1>2, <3>1
      <3> QED
        BY <1>2, <2>1, <3>2, HomeBounded
    <2> HIDE DEF x
    <2>7. tab'[t] = x /\ \A u \in Tabs \ {t} : tab'[u] = tab[u]
      BY <1>3, <2>2 DEF Becomes
    <2>8. \A p \in People \X Hosts : Fresh(clock', jar'[p])
      BY <1>1, <2>5 DEF CarouselInvariant, Fresh, Anonymous
    <2>9. ASSUME NEW u \in Tabs
          PROVE  \/ Bounded(Situation, clock', jar'[Box(u, tab'[u].host)], tab'[u])
                 \/ /\ Waits(tab[u], tab'[u]) /\ tab'[u].hops = tab[u].hops /\ clock' = clock
                    /\ Anonymous(jar'[Box(u, tab[u].host)]) => Anonymous(jar[Box(u, tab[u].host)])
      <3>1. CASE u = t
        BY <1>1, <2>6, <2>7, <3>1
      <3>2. CASE u # t
        <4>1. Box(u, tab[u].host) \in People \X Hosts
          BY StateIs, TabIs
        <4> QED
          BY <1>1, <2>5, <2>7, <3>2, <4>1 DEF Waits, Anonymous
      <3> QED
        BY <3>1, <3>2
    <2> QED
      BY <1>1, <2>8, <2>9, TabsWithin
  <1>4. CASE Becomes(t, At(o, "later", o.field)) /\ UNCHANGED jar
    BY <1>1, <1>2, <1>4, TurnsWithin
  <1> QED
    BY <1>1, <1>3, <1>4

\* On to the page.
LEMMA LaterWithin ==
  ASSUME MaxRedirects >= 4, SiteInvariant, CarouselInvariant, NEW t \in Tabs, Later(t)
  PROVE  CarouselInvariant'
  <1> DEFINE o == tab[t]
             b == Still(t)
             q == Get(o.field)
  <1>1. o.pc \in {"offer", "later"} /\ Becomes(t, Sent(t, b, q)) /\ UNCHANGED <<visit, clock, jar>>
    BY DEF Later, Acts
  <1>2. Carried(b) /\ b.hops = 0
    BY StillIs
  <1>3. Asked(o.field)
    BY <1>1, CarouselIs DEF Bounded
  <1>4. q \in Request /\ q.uri = o.field
    BY <1>3, GetIs DEF Asked, Path
  <1> HIDE DEF o, b, q
  <1>5. Homeward(b.host, q) /\ ~Under(q.uri, AuthTree)
    BY <1>3, <1>4 DEF Homeward, Asked
  <1> QED
    BY <1>1, <1>2, <1>4, <1>5, SentWithin

\* No redirect depends on a refresh token.
LEMMA RevokeWithin ==
  ASSUME SiteInvariant, CarouselInvariant, NEW p \in People, Revoke(p)
  PROVE  CarouselInvariant'
  <1>1. /\ jar' = [b \in DOMAIN jar |-> IF b[1] = p THEN Dead(jar[b]) ELSE jar[b]]
        /\ tab' = [t \in Tabs |-> IF Who(t).name = p THEN [tab[t] EXCEPT !.sent = Dead(@)] ELSE tab[t]]
        /\ UNCHANGED <<visit, clock>>
    BY DEF Revoke
  <1>2. jar \in [People \X Hosts -> Jar] /\ tab \in [Tabs -> Tab]
    BY DEF SiteInvariant, TypeOK
  <1>3. \A c \in Jar : Dead(c).id = c.id /\ Dead(c).good = c.good
    BY DeadIs
  <1>4. \A b \in People \X Hosts : jar'[b].id = jar[b].id
    BY <1>1, <1>2, <1>3
  <1>5. \A b \in People \X Hosts : Fresh(clock', jar'[b])
    BY <1>1, <1>4 DEF CarouselInvariant, Fresh, Anonymous
  <1>6. ASSUME NEW u \in Tabs
        PROVE  /\ Waits(tab[u], tab'[u]) /\ tab'[u].hops = tab[u].hops /\ clock' = clock
               /\ Anonymous(jar'[Box(u, tab[u].host)]) => Anonymous(jar[Box(u, tab[u].host)])
    <2>1. Box(u, tab[u].host) \in People \X Hosts
      BY StateIs, TabIs
    <2>2. Waits(tab[u], tab'[u]) /\ tab'[u].hops = tab[u].hops
      <3>1. CASE Who(u).name = p
        <4> DEFINE d == Dead(tab[u].sent)
        <4>1. tab'[u] = [tab[u] EXCEPT !.sent = d] /\ tab[u] \in Tab
          BY <1>1, <1>2, <3>1
        <4>2. d.id = tab[u].sent.id /\ d.good = tab[u].sent.good
          BY <1>3, <4>1 DEF Tab
        <4> HIDE DEF d
        <4> QED
          BY <4>1, <4>2 DEF Waits, Tab
      <3>2. CASE Who(u).name # p
        BY <1>1, <1>2, <3>2 DEF Waits
      <3> QED
        BY <3>1, <3>2
    <2> QED
      BY <1>1, <1>4, <2>1, <2>2 DEF Anonymous
  <1> QED
    BY <1>1, <1>5, <1>6, TabsWithin

\* Nor on what the edge and the row say: at worst, the person answers in between.
LEMMA CloseOrOpenWithin ==
  ASSUME SiteInvariant, CarouselInvariant, NEW where \in {"edge", "row"}, CloseOrOpen(where)
  PROVE  CarouselInvariant'
  <1>1. /\ tab' = [t \in Tabs |-> [tab[t] EXCEPT !.lagged = @ \/ ~InStep']]
        /\ UNCHANGED <<visit, clock, jar>>
    BY DEF CloseOrOpen
  <1>2. ASSUME NEW u \in Tabs
        PROVE  Waits(tab[u], tab'[u]) /\ tab'[u].hops = tab[u].hops
    <2>1. PICK p : tab'[u] = [tab[u] EXCEPT !.lagged = p]
      BY <1>1
    <2>2. tab[u] \in Tab
      BY StateIs
    <2> QED
      BY <2>1, <2>2, WaitsIs
  <1>3. \A p \in People \X Hosts : Fresh(clock', jar'[p])
    BY <1>1 DEF CarouselInvariant, Fresh
  <1> QED
    BY <1>1, <1>2, <1>3, TabsWithin

\* Time passes: browsers drop the sessions that end, and redirects count anew.
LEMMA TickWithin ==
  ASSUME SiteInvariant, CarouselInvariant, Tick
  PROVE  CarouselInvariant'
  <1> DEFINE Kept0(c) == [c EXCEPT !.at = IF @ > clock' THEN @ ELSE 0,
                                   !.id = IF @ > clock' THEN @ ELSE 0,
                                   !.good = @ \/ c.id <= clock']
  <1>1. /\ jar' = [b \in DOMAIN jar |-> Kept0(jar[b])]
        /\ tab' = [t \in Tabs |-> [tab[t] EXCEPT !.hops = 0]]
        /\ UNCHANGED visit
    BY DEF Tick
  <1>2. jar \in [People \X Hosts -> Jar] /\ tab \in [Tabs -> Tab]
    BY DEF SiteInvariant, TypeOK
  <1>3. clock' \in Nat
    <2>1. clock' = clock + 1 /\ clock \in Nat
      BY StateIs DEF Tick
    <2> QED
      BY <2>1
  <1>4. ASSUME NEW c \in Jar
        PROVE  Kept0(c).id # 0 => clock' < Kept0(c).id
    <2>1. Kept0(c).id = IF c.id > clock' THEN c.id ELSE 0
      BY DEF Jar
    <2>2. c.id \in Nat
      BY DEF Jar
    <2> HIDE DEF Kept0
    <2> QED
      BY <1>3, <2>1, <2>2
  <1> HIDE DEF Kept0
  <1>5. \A p \in People \X Hosts : Fresh(clock', jar'[p])
    BY <1>1, <1>2, <1>4 DEF Fresh, Anonymous
  <1>6. ASSUME NEW u \in Tabs
        PROVE  Waits(tab[u], tab'[u]) /\ tab'[u].hops = 0
    BY <1>1, <1>2 DEF Waits, Tab
  <1> QED
    BY <1>1, <1>5, <1>6, TabsWithin

\* Nothing has happened yet.
LEMMA CarouselInit ==
  ASSUME Init
  PROVE  CarouselInvariant
  <1>1. SiteInvariant
    BY SiteInit
  <1>2. clock = 0 /\ tab = [t \in Tabs |-> NewTab(Who(t).host)]
    BY DEF Init
  <1>3. ASSUME NEW p \in People \X Hosts, ~Anonymous(jar[p])
        PROVE  clock < jar[p].id
    <2>1. jar[p].id \in Nat
      BY <1>1 DEF SiteInvariant, TypeOK, Jar
    <2> QED
      BY <1>2, <1>3, <2>1 DEF Anonymous
  <1>4. ASSUME NEW t \in Tabs
        PROVE  Bounded(Situation, clock, jar[Box(t, tab[t].host)], tab[t])
    <2>1. tab[t].pc = "away" /\ tab[t].hops = 0
      BY <1>2 DEF NewTab
    <2> QED
      BY <2>1, PageBounded
  <1> QED
    BY <1>3, <1>4 DEF CarouselInvariant

\* Every step keeps the bound.
LEMMA CarouselStep ==
  ASSUME MaxRedirects >= 4, SiteInvariant, CarouselInvariant, [Next]_vars
  PROVE  CarouselInvariant'
  <1>1. ASSUME NEW t \in Tabs, Follow(t) \/ LoginBack(t) \/ Renew(t) \/ LoginPage(t) \/ LoginPageRefused(t)
        PROVE  CarouselInvariant'
    BY <1>1, FollowWithin, LoginBackWithin, RenewWithin, LoginPageWithin
  <1>2. ASSUME NEW t \in Tabs,
               \/ AnswerSend(t) \/ WrongCode(t) \/ RightCode(t) \/ AnswerRegister(t)
               \/ AnswerLogout(t) \/ AnswerPage(t)
        PROVE  CarouselInvariant'
    <2>1. CASE AnswerSend(t)
      BY <2>1, FormAnsweredWithin DEF AnswerSend
    <2>2. CASE WrongCode(t)
      BY <2>2, FormAnsweredWithin DEF WrongCode
    <2> QED
      BY <1>2, <2>1, <2>2, RightCodeWithin, AnswerRegisterWithin, AnswerLogoutWithin, AnswerPageWithin
  <1>3. ASSUME NEW t \in Tabs,
               Visit(t) \/ LogOut(t) \/ AskForCode(t) \/ EnterCode(t) \/ BackToEmail(t)
        PROVE  CarouselInvariant'
    BY <1>3, VisitWithin, CodeWithin
  <1>4. ASSUME NEW t \in Tabs,
               StartPasskey(t) \/ FinishPasskey(t) \/ StartRegister(t) \/ FinishRegister(t) \/ Later(t)
        PROVE  CarouselInvariant'
    BY <1>4, StartPasskeyWithin, FinishPasskeyWithin, StartRegisterWithin, FinishRegisterWithin, LaterWithin
  <1>5. ASSUME NEW p \in People, Revoke(p)
        PROVE  CarouselInvariant'
    BY <1>5, RevokeWithin
  <1>6. ASSUME NEW where \in {"edge", "row"}, CloseOrOpen(where)
        PROVE  CarouselInvariant'
    BY <1>6, CloseOrOpenWithin
  <1>7. CASE TogglePasskeys \/ UNCHANGED vars
    <2>1. UNCHANGED <<visit, clock, jar, tab>>
      BY <1>7 DEF TogglePasskeys, vars
    <2> QED
      BY <2>1, CarouselKept DEF CarouselInvariant, Fresh
  <1>8. CASE Tick
    BY <1>8, TickWithin
  <1> QED
    BY <1>1, <1>2, <1>3, <1>4, <1>5, <1>6, <1>7, <1>8 DEF Next

\* Nobody is sent in circles between the page and the login page: with a browser that
\* follows four redirects in a row, no tab gives up, unless it holds a token that has
\* not ended and that the application does not accept.
THEOREM NobodyEverSentInCircles ==
  ASSUME MaxRedirects >= 4
  PROVE  Spec => []NoCarousel
  <1>1. Init => CarouselInvariant
    BY CarouselInit
  <1>2. SiteInvariant /\ CarouselInvariant /\ [Next]_vars => CarouselInvariant'
    BY CarouselStep
  <1>3. CarouselInvariant => NoCarousel
    BY DEF CarouselInvariant, Bounded, NoCarousel
  <1> QED
    BY <1>1, <1>2, <1>3, SiteInvariantHolds, PTL DEF Spec
=============================================================================
