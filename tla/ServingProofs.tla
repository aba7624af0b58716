---------------------------- MODULE ServingProofs ----------------------------
(***************************************************************************)
(* Proofs about UpstreamWalk and Serving, for every set of requests,       *)
(* servers, lists and queries, every blob and every directory:             *)
(*                                                                         *)
(*   WalksAreExact      a walk asks every server it should, once and in    *)
(*                      order, and none that it may not                    *)
(*   CachesStayHonest   misses and server lists in the caches are those    *)
(*                      that walks found, and no older than they may be    *)
(*   HeldBlobsAreServed a blob held here is found and served exactly       *)
(*                                                                         *)
(* The first rests on what the plan's lists are (FlattenIs, FirstIs), which *)
(* is shown by induction over their length, and on an invariant of each    *)
(* walk: every named server has been asked or is pending, in the order of  *)
(* the tiers (WalkOK).  The second compares the age of a cached list with  *)
(* the time since lists last changed (ListOK).  The third follows what a   *)
(* scan has found so far (ScanOK) and what a download has put together     *)
(* (DownloadOK).                                                           *)
(***************************************************************************)
EXTENDS Serving, FiniteSetsExt, SequenceTheorems, WellFoundedInduction, TLAPS

-----------------------------------------------------------------------------
(* Facts about numbers.                                                     *)

\* Every set of numbers that has an element has a least one.
LEMMA LeastNumber ==
    ASSUME NEW S \in SUBSET Nat, S # {}
    PROVE  \E m \in S : \A k \in S : m <= k
<1> DEFINE Less == {ss \in Nat \X Nat : ss[1] < ss[2]}
<1>1. IsWellFoundedOn(Less, Nat)
  <2>1. OpToRel(<, Nat) = Less
    BY Zenon DEF OpToRel
  <2> QED BY <2>1, NatLessThanWellFounded
<1>2. PICK m \in S : \A k \in S : <<k, m>> \notin Less
  <2> HIDE DEF Less
  <2> QED BY <1>1, WFMin
<1>3. \A k \in S : ~(k < m) /\ k \in Nat /\ m \in Nat
  BY <1>2
<1> QED BY <1>2, <1>3

\* A set of numbers that has 0 and with each number the next has them all.
LEMMA NumbersByInduction ==
    ASSUME NEW T \in SUBSET Nat, 0 \in T, \A n \in T : n + 1 \in T
    PROVE  T = Nat
<1> SUFFICES ASSUME Nat \ T # {} PROVE FALSE
  OBVIOUS
<1>1. PICK m \in Nat \ T : \A k \in Nat \ T : m <= k
  <2>1. Nat \ T \subseteq Nat
    OBVIOUS
  <2> QED BY <2>1, LeastNumber
<1>2. m \in Nat /\ m # 0 /\ m - 1 \in Nat
  BY <1>1
<1>3. m - 1 \in T
  BY <1>1, <1>2
<1>4. (m - 1) + 1 \in T /\ (m - 1) + 1 = m
  BY <1>2, <1>3
<1> QED BY <1>1, <1>4

\* The last of the first n numbers.
LEMMA MaxIsLast ==
    ASSUME NEW n \in Nat, NEW s \in SUBSET (1..n + 1), n + 1 \in s PROVE Max(s) = n + 1
<1>1. \A x \in s : x \in Nat /\ n + 1 >= x
  OBVIOUS
<1>2. \E x \in s : \A y \in s : x >= y
  BY <1>1
<1>3. Max(s) \in s /\ \A y \in s : Max(s) >= y
  BY <1>2 DEF Max
<1>4. Max(s) >= n + 1 /\ n + 1 >= Max(s) /\ Max(s) \in Nat
  BY <1>1, <1>3
<1> QED BY <1>4

-----------------------------------------------------------------------------
(* Walks.                                                                   *)

Plans == [origin : Seq(Hint), xs : Seq(Hint), author : Authors \cup {Nothing}]
WalkType == [pc : Steps, plan : Plans, pending : Seq(Entry), tried : SUBSET Hint,
             user : BOOLEAN, asked : Seq(Entry), whole : BOOLEAN, reply : Replies]

\* The tiers do not fall along a list of candidates.
Rising(s) == \A i, j \in DOMAIN s : i < j => s[i].tier <= s[j].tier

\* The URLs a plan names and a walk should ask.
Wanted(p) ==
    LET named == Range(p.origin) \cup Range(p.xs) \cup Range(Configured)
    IN  {u \in Hint : /\ u.scheme # "none" /\ Allowed(u)
                      /\ \E h \in named : /\ h.scheme \in {u.scheme, "none"}
                                          /\ u = [h EXCEPT !.scheme = u.scheme]}

Awaited(w, u) == w.pc \in {"next", "ask"} /\ \E j \in DOMAIN w.pending : w.pending[j].url = u

WalkOK(w) ==
    /\ w \in WalkType
    /\ w.tried = {w.asked[i].url : i \in DOMAIN w.asked}
    /\ \A i, j \in DOMAIN w.asked : w.asked[i].url = w.asked[j].url => i = j
    /\ \A i \in DOMAIN w.asked : Allowed(w.asked[i].url)
    /\ Rising(w.asked) /\ Rising(w.pending)
    /\ \A i \in DOMAIN w.asked : \A j \in DOMAIN w.pending : w.asked[i].tier <= w.pending[j].tier
    /\ w.pc = "ask" => w.asked # << >>
    /\ w.user \/ w.pc = "list" => w.plan.author \in Authors
    /\ w.pc \in {"next", "ask", "list", "failed"} /\ w.whole =>
         \A u \in Wanted(w.plan) : u \in w.tried \/ Awaited(w, u)
    /\ ~NamesServers(w.plan) =>
         /\ \A i \in DOMAIN w.asked : w.asked[i].tier \in {3, 4}
         /\ \A j \in DOMAIN w.pending : w.pending[j].tier \in {3, 4}

\* A cached list that was fetched after the last change or failure is current.
ListOK(a) ==
    cached[a] # Nothing /\ cached[a].age < doubt => cached[a].servers = HttpServers(lists[a])

OutsideOK ==
    /\ up \in BOOLEAN /\ settled \in BOOLEAN /\ holds \subseteq PublicHosts
    /\ lists \in [Authors -> UNION {Lists[a] : a \in Authors}]
    /\ \A a \in Authors : lists[a] \in Lists[a]
    /\ doubt \in 0..ListTTL /\ (~up => doubt = 0)
    /\ missed \in 0..MissTTL \cup {Nothing}
    /\ cached \in [Authors -> CachedLists \cup {Nothing}]
    /\ \A a \in Authors : cached[a] # Nothing => cached[a].servers \in DOMAIN UserServers


-----------------------------------------------------------------------------
(* The lists of a plan.                                                     *)

\* The recursion by which FlattenSeq joins the first n lists.
Joins(ss, n, g) == g = [i \in 1..n |-> IF i = 1 THEN ss[i] ELSE g[i - 1] \o ss[i]]

LEMMA JoinsExist == ASSUME NEW ss, NEW n \in Nat PROVE \E g : Joins(ss, n, g)
<1> DEFINE T == {m \in Nat : \E g : Joins(ss, m, g)}
<1>1. 0 \in T
  <2> DEFINE g == [i \in 1..0 |-> ss]
  <2>1. Joins(ss, 0, g)
    BY DEF Joins
  <2> QED BY <2>1
<1>2. ASSUME NEW m \in T PROVE m + 1 \in T
  <2>1. PICK f : Joins(ss, m, f)
    OBVIOUS
  <2>2. m \in Nat
    OBVIOUS
  <2> DEFINE last == IF m + 1 = 1 THEN ss[m + 1] ELSE f[m] \o ss[m + 1]
             g == [i \in 1..m + 1 |-> IF i = m + 1 THEN last ELSE f[i]]
             again == [i \in 1..m + 1 |-> IF i = 1 THEN ss[i] ELSE g[i - 1] \o ss[i]]
  <2>3. ASSUME NEW i \in 1..m + 1 PROVE g[i] = again[i]
    <3>1. CASE i = m + 1 /\ m = 0
      BY <3>1
    <3>2. CASE i = m + 1 /\ m # 0
      <4>1. m \in 1..m + 1 /\ m # m + 1 /\ i - 1 = m /\ i # 1
        BY <2>2, <3>2
      <4>2. g[m] = f[m]
        BY <4>1
      <4>3. g[i] = f[m] \o ss[m + 1]
        BY <3>2, <4>1
      <4>4. again[i] = g[i - 1] \o ss[i]
        BY <4>1
      <4> QED BY <3>2, <4>1, <4>2, <4>3, <4>4
    <3>3. CASE i # m + 1
      <4>1. i \in 1..m
        BY <2>2, <3>3
      <4>2. f[i] = IF i = 1 THEN ss[i] ELSE f[i - 1] \o ss[i]
        BY <2>1, <4>1 DEF Joins
      <4>3. i # 1 => i - 1 \in 1..m + 1 /\ i - 1 # m + 1
        BY <2>2, <4>1
      <4>4. i # 1 => g[i - 1] = f[i - 1]
        BY <4>3
      <4>5. g[i] = f[i]
        BY <3>3
      <4>6. again[i] = IF i = 1 THEN ss[i] ELSE g[i - 1] \o ss[i]
        OBVIOUS
      <4> QED BY <4>2, <4>4, <4>5, <4>6
    <3> QED BY <3>1, <3>2, <3>3
  <2>4. g = again
    <3>1. g = [i \in 1..m + 1 |-> g[i]] /\ again = [i \in 1..m + 1 |-> again[i]]
      OBVIOUS
    <3> HIDE DEF g, again
    <3> QED BY <2>3, <3>1
  <2>5. Joins(ss, m + 1, g)
    BY <2>4 DEF Joins
  <2>6. m + 1 \in Nat
    BY <2>2
  <2> QED BY <2>5, <2>6
<1>3. T = Nat
  <2>1. T \in SUBSET Nat
    OBVIOUS
  <2> HIDE DEF T
  <2> QED BY <1>1, <1>2, <2>1, NumbersByInduction
<1> QED BY <1>3

\* One list after another: it holds what either holds, where they hold it.
LEMMA Joined ==
    ASSUME NEW T, NEW s \in Seq(T), NEW t \in Seq(T)
    PROVE  /\ s \o t \in Seq(T) /\ DOMAIN (s \o t) = 1..Len(s) + Len(t)
           /\ \A k \in DOMAIN s : k \in DOMAIN (s \o t) /\ (s \o t)[k] = s[k]
           /\ \A k \in DOMAIN t : Len(s) + k \in DOMAIN (s \o t) /\ (s \o t)[Len(s) + k] = t[k]
<1>1. Len(s) \in Nat /\ Len(t) \in Nat /\ DOMAIN s = 1..Len(s) /\ DOMAIN t = 1..Len(t)
  OBVIOUS
<1> DEFINE st == s \o t
<1>2. /\ st \in Seq(T) /\ Len(st) = Len(s) + Len(t)
      /\ \A i \in 1..Len(s) + Len(t) : st[i] = IF i <= Len(s) THEN s[i] ELSE t[i - Len(s)]
  BY ConcatProperties
<1>3. DOMAIN st = 1..Len(s) + Len(t)
  BY <1>2
<1> HIDE DEF st
<1>4. ASSUME NEW k \in DOMAIN s PROVE k \in DOMAIN st /\ st[k] = s[k]
  BY <1>1, <1>2, <1>3
<1>5. ASSUME NEW k \in DOMAIN t PROVE Len(s) + k \in DOMAIN st /\ st[Len(s) + k] = t[k]
  <2>1. k \in Nat /\ 1 <= k /\ k <= Len(t)
    BY <1>1
  <2>2. Len(s) + k \in 1..Len(s) + Len(t) /\ ~(Len(s) + k <= Len(s)) /\ (Len(s) + k) - Len(s) = k
    BY <1>1, <2>1
  <2> QED BY <1>2, <1>3, <2>2
<1> QED BY <1>2, <1>3, <1>4, <1>5 DEF st

\* What a list of lists is flattened to: a list of what the lists hold.
LEMMA FlattenIs ==
    ASSUME NEW T, NEW ss \in Seq(Seq(T))
    PROVE  /\ FlattenSeq(ss) \in Seq(T)
           /\ \A i \in DOMAIN ss : \A j \in DOMAIN ss[i] :
                \E k \in DOMAIN FlattenSeq(ss) : FlattenSeq(ss)[k] = ss[i][j]
<1>1. Len(ss) \in Nat /\ DOMAIN ss = 1..Len(ss) /\ \A i \in DOMAIN ss : ss[i] \in Seq(T)
  OBVIOUS
<1>2. CASE Len(ss) = 0
  <2>1. FlattenSeq(ss) = ss
    BY <1>2 DEF FlattenSeq
  <2>2. ss = << >> /\ << >> \in Seq(T)
    BY <1>2
  <2>3. DOMAIN ss = {}
    BY <1>1, <1>2
  <2> QED BY <2>1, <2>2, <2>3
<1>3. CASE Len(ss) # 0
  <2> DEFINE g == CHOOSE f : Joins(ss, Len(ss), f)
             Good(n) == /\ g[n] \in Seq(T)
                        /\ \A i \in 1..n : \A j \in DOMAIN ss[i] :
                             \E k \in DOMAIN g[n] : g[n][k] = ss[i][j]
  <2>1. FlattenSeq(ss) = g[Len(ss)]
    BY <1>3 DEF FlattenSeq, Joins
  <2>2. Joins(ss, Len(ss), g)
    BY <1>1, JoinsExist
  <2> HIDE DEF g
  <2> DEFINE N == {n \in Nat : n + 1 <= Len(ss) => Good(n + 1)}
  <2>3. 0 \in N
    <3>1. 1 \in 1..Len(ss)
      BY <1>1, <1>3
    <3>2. g[1] = ss[1] /\ ss[1] \in Seq(T)
      BY <1>1, <2>2, <3>1 DEF Joins
    <3>3. \A i \in 1..1 : i = 1
      OBVIOUS
    <3>4. Good(1)
      BY <3>2, <3>3
    <3> QED BY <3>4
  <2>4. ASSUME NEW n \in N PROVE n + 1 \in N
    <3>1. n \in Nat
      OBVIOUS
    <3>2. ASSUME (n + 1) + 1 <= Len(ss) PROVE Good((n + 1) + 1)
      <4> DEFINE m == n + 1
      <4>1. m \in Nat /\ m >= 1 /\ m <= Len(ss) /\ m + 1 \in 1..Len(ss) /\ m + 1 # 1 /\ (m + 1) - 1 = m
        BY <1>1, <3>1, <3>2
      <4>2. Good(m)
        BY <4>1
      <4> HIDE DEF m
      <4>3. g[m + 1] = g[m] \o ss[m + 1] /\ ss[m + 1] \in Seq(T)
        BY <1>1, <2>2, <4>1 DEF Joins
      <4>4. /\ g[m + 1] \in Seq(T)
            /\ \A k \in DOMAIN g[m] : k \in DOMAIN g[m + 1] /\ g[m + 1][k] = g[m][k]
            /\ \A k \in DOMAIN ss[m + 1] :
                 Len(g[m]) + k \in DOMAIN g[m + 1] /\ g[m + 1][Len(g[m]) + k] = ss[m + 1][k]
        <5>1. g[m] \in Seq(T) /\ ss[m + 1] \in Seq(T)
          BY <4>2, <4>3
        <5> DEFINE s == g[m]
                   t == ss[m + 1]
                   st == g[m + 1]
        <5>2. st = s \o t
          BY <4>3
        <5>3. s \in Seq(T) /\ t \in Seq(T)
          BY <5>1
        <5> HIDE DEF s, t, st
        <5>4. /\ st \in Seq(T)
              /\ \A k \in DOMAIN s : k \in DOMAIN st /\ st[k] = s[k]
              /\ \A k \in DOMAIN t : Len(s) + k \in DOMAIN st /\ st[Len(s) + k] = t[k]
          BY <5>2, <5>3, Joined
        <5> QED BY <5>4 DEF s, t, st
      <4>5. ASSUME NEW i \in 1..m + 1, NEW j \in DOMAIN ss[i]
            PROVE  \E k \in DOMAIN g[m + 1] : g[m + 1][k] = ss[i][j]
        <5>1. CASE i = m + 1
          BY <4>4, <5>1
        <5>2. CASE i # m + 1
          <6>1. i \in 1..m
            BY <4>1, <5>2
          <6>2. PICK k \in DOMAIN g[m] : g[m][k] = ss[i][j]
            BY <4>2, <4>5, <6>1
          <6> QED BY <4>4, <6>2
        <5> QED BY <5>1, <5>2
      <4> QED BY <4>4, <4>5 DEF m
    <3> QED BY <3>1, <3>2
  <2>5. N = Nat
    <3>1. N \in SUBSET Nat
      OBVIOUS
    <3> HIDE DEF N
    <3> QED BY <2>3, <2>4, <3>1, NumbersByInduction
  <2>6. Len(ss) - 1 \in Nat /\ (Len(ss) - 1) + 1 = Len(ss)
    BY <1>1, <1>3
  <2>7. Len(ss) - 1 \in N
    <3> HIDE DEF N
    <3> QED BY <2>5, <2>6
  <2>8. Good(Len(ss))
    <3>1. (Len(ss) - 1) + 1 <= Len(ss) => Good((Len(ss) - 1) + 1)
      BY <2>7
    <3>2. Len(ss) <= Len(ss)
      BY <1>1
    <3> HIDE DEF N, Good
    <3> QED BY <2>6, <3>1, <3>2
  <2> QED BY <1>1, <2>1, <2>8
<1> QED BY <1>2, <1>3

\* The recursion by which FirstOfEachUrl goes through a list.
KeepStep(s, i, kept) ==
    IF \E j \in DOMAIN kept : kept[j].url = s[i].url THEN kept ELSE Append(kept, s[i])

Keeps(s, D, g) ==
    g = [u \in SUBSET D |-> IF u = {} THEN << >> ELSE KeepStep(s, Max(u), g[u \ {Max(u)}])]

LEMMA KeepsExist == ASSUME NEW s, NEW n \in Nat PROVE \E g : Keeps(s, 1..n, g)
<1> DEFINE T == {m \in Nat : \E g : Keeps(s, 1..m, g)}
<1>1. 0 \in T
  <2> DEFINE g == [u \in SUBSET (1..0) |-> << >>]
  <2>1. \A u \in SUBSET (1..0) : u = {}
    OBVIOUS
  <2>2. Keeps(s, 1..0, g)
    BY <2>1 DEF Keeps
  <2> QED BY <2>2
<1>2. ASSUME NEW m \in T PROVE m + 1 \in T
  <2>1. PICK f : Keeps(s, 1..m, f)
    OBVIOUS
  <2> DEFINE g == [u \in SUBSET (1..m + 1) |->
                     IF m + 1 \in u THEN KeepStep(s, m + 1, f[u \ {m + 1}]) ELSE f[u]]
             again == [u \in SUBSET (1..m + 1) |->
                         IF u = {} THEN << >> ELSE KeepStep(s, Max(u), g[u \ {Max(u)}])]
  <2>2. ASSUME NEW u \in SUBSET (1..m + 1) PROVE g[u] = again[u]
    <3>1. m \in Nat
      OBVIOUS
    <3>2. CASE m + 1 \in u
      <4>1. Max(u) = m + 1 /\ u # {}
        BY <3>1, <3>2, MaxIsLast
      <4>2. u \ {m + 1} \in SUBSET (1..m + 1) /\ m + 1 \notin u \ {m + 1}
        OBVIOUS
      <4>3. g[u \ {m + 1}] = f[u \ {m + 1}]
        BY <4>2
      <4>4. g[u] = KeepStep(s, m + 1, f[u \ {m + 1}])
        BY <3>2
      <4>5. again[u] = KeepStep(s, m + 1, g[u \ {m + 1}])
        BY <4>1
      <4> QED BY <4>3, <4>4, <4>5
    <3>3. CASE m + 1 \notin u
      <4>1. u \in SUBSET (1..m)
        BY <3>1, <3>3
      <4>2. g[u] = f[u]
        BY <3>3
      <4>3. f[u] = IF u = {} THEN << >> ELSE KeepStep(s, Max(u), f[u \ {Max(u)}])
        BY <2>1, <4>1 DEF Keeps
      <4>4. u \ {Max(u)} \in SUBSET (1..m + 1) /\ m + 1 \notin u \ {Max(u)}
        BY <3>3
      <4>5. g[u \ {Max(u)}] = f[u \ {Max(u)}]
        BY <4>4
      <4>6. again[u] = IF u = {} THEN << >> ELSE KeepStep(s, Max(u), g[u \ {Max(u)}])
        OBVIOUS
      <4> QED BY <4>2, <4>3, <4>5, <4>6
    <3> QED BY <3>2, <3>3
  <2>3. g = again
    <3>1. g = [u \in SUBSET (1..m + 1) |-> g[u]] /\ again = [u \in SUBSET (1..m + 1) |-> again[u]]
      OBVIOUS
    <3> HIDE DEF g, again
    <3> QED BY <2>2, <3>1
  <2>4. Keeps(s, 1..m + 1, g)
    BY <2>3 DEF Keeps
  <2>5. m + 1 \in Nat
    OBVIOUS
  <2> QED BY <2>4, <2>5
<1>3. T = Nat
  <2>1. T \in SUBSET Nat
    OBVIOUS
  <2> HIDE DEF T
  <2> QED BY <1>1, <1>2, <2>1, NumbersByInduction
<1> QED BY <1>3

\* What FirstOfEachUrl keeps: each URL of the list, in the order of the tiers.
LEMMA FirstIs ==
    ASSUME NEW s \in Seq(Entry), Rising(s)
    PROVE  LET f == FirstOfEachUrl(s) IN
           /\ f \in Seq(Entry) /\ Rising(f)
           /\ \A i \in DOMAIN s : \E k \in DOMAIN f : f[k].url = s[i].url
           /\ \A k \in DOMAIN f : \E i \in DOMAIN s : f[k] = s[i]
<1> DEFINE fold == CHOOSE g : Keeps(s, DOMAIN s, g)
           Good(n, f) == /\ f \in Seq(Entry) /\ Rising(f)
                         /\ \A i \in 1..n : \E k \in DOMAIN f : f[k].url = s[i].url
                         /\ \A k \in DOMAIN f : \E i \in 1..n : f[k] = s[i]
<1>1. FirstOfEachUrl(s) = fold[DOMAIN s]
  BY DEF FirstOfEachUrl, FoldLeft, MapThenFoldSet, Keeps, KeepStep
<1>2. Len(s) \in Nat /\ DOMAIN s = 1..Len(s)
  OBVIOUS
<1>3. Keeps(s, DOMAIN s, fold)
  BY <1>2, KeepsExist
<1> HIDE DEF fold
<1>4. Good(0, << >>)
  BY DEF Rising
<1>5. ASSUME NEW n \in Nat, n + 1 <= Len(s), NEW f, Good(n, f)
      PROVE  Good(n + 1, KeepStep(s, n + 1, f))
  <2> DEFINE e == s[n + 1]
             more == Append(f, e)
  <2>1. n + 1 \in DOMAIN s /\ e \in Entry /\ \A i \in 1..n : i \in DOMAIN s /\ i < n + 1
    BY <1>2, <1>5
  <2>2. \A i \in 1..n + 1 : i \in 1..n \/ i = n + 1
    BY <1>5
  <2>3. \A i \in 1..n : i \in 1..n + 1
    BY <1>5
  <2>4. n + 1 \in 1..n + 1
    BY <1>5
  <2>5. CASE \E j \in DOMAIN f : f[j].url = e.url
    <3>1. KeepStep(s, n + 1, f) = f
      BY <2>5 DEF KeepStep
    <3>2. \A i \in 1..n + 1 : \E k \in DOMAIN f : f[k].url = s[i].url
      BY <1>5, <2>2, <2>5
    <3>3. \A k \in DOMAIN f : \E i \in 1..n + 1 : f[k] = s[i]
      BY <1>5, <2>3
    <3> QED BY <1>5, <3>1, <3>2, <3>3
  <2>6. CASE ~ \E j \in DOMAIN f : f[j].url = e.url
    <3>1. KeepStep(s, n + 1, f) = more
      BY <2>6 DEF KeepStep
    <3>2. f \in Seq(Entry) /\ Len(f) \in Nat /\ DOMAIN f = 1..Len(f)
      BY <1>5
    <3>3. /\ more \in Seq(Entry) /\ DOMAIN more = 1..Len(f) + 1
          /\ more[Len(f) + 1] = e /\ \A k \in 1..Len(f) : more[k] = f[k]
      BY <2>1, <3>2
    <3> HIDE DEF more
    <3>4. /\ \A k \in DOMAIN more : k \in DOMAIN f \/ k = Len(f) + 1
          /\ Len(f) + 1 \in DOMAIN more
          /\ \A k \in DOMAIN f : k \in DOMAIN more /\ more[k] = f[k] /\ k # Len(f) + 1
      BY <3>2, <3>3
    <3>5. ASSUME NEW i \in DOMAIN more, NEW j \in DOMAIN more, i < j
          PROVE  more[i].tier <= more[j].tier
      <4>1. CASE j \in DOMAIN f
        <5>1. i \in DOMAIN f
          BY <3>2, <3>4, <3>5, <4>1
        <5> QED BY <1>5, <3>4, <3>5, <4>1, <5>1 DEF Rising
      <4>2. CASE j = Len(f) + 1
        <5>1. i \in DOMAIN f
          BY <3>2, <3>4, <3>5, <4>2
        <5>2. PICK k \in 1..n : f[i] = s[k]
          BY <1>5, <5>1
        <5>3. s[k].tier <= s[n + 1].tier
          BY <2>1, <5>2 DEF Rising
        <5> QED BY <3>3, <3>4, <4>2, <5>1, <5>2, <5>3
      <4> QED BY <3>4, <4>1, <4>2
    <3>6. \A i \in 1..n + 1 : \E k \in DOMAIN more : more[k].url = s[i].url
      <4>1. ASSUME NEW i \in 1..n PROVE \E k \in DOMAIN more : more[k].url = s[i].url
        <5>1. PICK k \in DOMAIN f : f[k].url = s[i].url
          BY <1>5
        <5> QED BY <3>4, <5>1
      <4> QED BY <2>2, <3>3, <3>4, <4>1
    <3>7. \A k \in DOMAIN more : \E i \in 1..n + 1 : more[k] = s[i]
      <4>1. ASSUME NEW k \in DOMAIN f PROVE \E i \in 1..n + 1 : more[k] = s[i]
        <5>1. PICK i \in 1..n : f[k] = s[i]
          BY <1>5
        <5> QED BY <2>3, <3>4, <5>1
      <4> QED BY <2>4, <3>3, <3>4, <4>1
    <3>8. Rising(more)
      BY <3>5 DEF Rising
    <3> QED BY <3>1, <3>3, <3>6, <3>7, <3>8
  <2> QED BY <2>5, <2>6
<1> HIDE DEF Good
<1> DEFINE T == {n \in Nat : n <= Len(s) => Good(n, fold[1..n])}
<1>6. \A u \in SUBSET (DOMAIN s) :
        fold[u] = IF u = {} THEN << >> ELSE KeepStep(s, Max(u), fold[u \ {Max(u)}])
  BY <1>3 DEF Keeps
<1>7. 0 \in T
  <2>1. 1..0 = {} /\ {} \in SUBSET (DOMAIN s)
    OBVIOUS
  <2>2. fold[1..0] = << >>
    BY <1>6, <2>1
  <2> QED BY <1>4, <2>2
<1>8. ASSUME NEW n \in T PROVE n + 1 \in T
  <2>1. n \in Nat
    OBVIOUS
  <2>2. ASSUME n + 1 <= Len(s) PROVE Good(n + 1, fold[1..n + 1])
    <3>1. n <= Len(s)
      BY <1>2, <2>1, <2>2
    <3>2. Good(n, fold[1..n])
      BY <3>1
    <3>3. 1..n + 1 \in SUBSET (DOMAIN s) /\ 1..n + 1 # {}
      <4>1. n + 1 \in 1..n + 1
        BY <2>1
      <4>2. ASSUME NEW i \in 1..n + 1 PROVE i \in 1..Len(s)
        BY <1>2, <2>1, <2>2
      <4> QED BY <1>2, <4>1, <4>2
    <3>4. Max(1..n + 1) = n + 1
      <4>1. 1..n + 1 \in SUBSET (1..n + 1) /\ n + 1 \in 1..n + 1
        BY <2>1
      <4> QED BY <2>1, <4>1, MaxIsLast
    <3>5. (1..n + 1) \ {n + 1} = 1..n
      BY <2>1
    <3>6. fold[1..n + 1] = KeepStep(s, n + 1, fold[1..n])
      BY <1>6, <3>3, <3>4, <3>5
    <3> QED BY <1>5, <2>1, <2>2, <3>2, <3>6
  <2>3. n + 1 \in Nat
    BY <2>1
  <2> QED BY <2>2, <2>3
<1>9. T = Nat
  <2>1. T \in SUBSET Nat
    OBVIOUS
  <2> HIDE DEF T
  <2> QED BY <1>7, <1>8, <2>1, NumbersByInduction
<1>10. Good(Len(s), fold[1..Len(s)])
  <2>1. Len(s) \in T
    BY <1>2, <1>9
  <2>2. Len(s) <= Len(s)
    BY <1>2
  <2> QED BY <2>1, <2>2
<1> QED BY <1>1, <1>2, <1>10 DEF Good

LEMMA CandidatesAre ==
    ASSUME NEW h \in Hint
    PROVE  /\ Candidates(h) \in Seq(Hint)
           /\ \A u \in Hint : (u.scheme # "none" /\ h.scheme \in {u.scheme, "none"}
                                 /\ u = [h EXCEPT !.scheme = u.scheme])
                => \E j \in DOMAIN Candidates(h) : Candidates(h)[j] = u
<1>1. h = [scheme |-> h.scheme, host |-> h.host, slash |-> h.slash]
  BY DEF Hint
<1>2. CASE h.scheme = "none"
  <2> DEFINE first == [h EXCEPT !.scheme = "https"]
             second == [h EXCEPT !.scheme = "http"]
  <2>1. first \in Hint /\ second \in Hint
    BY DEF Hint
  <2>2. Candidates(h) = << first, second >>
    BY <1>2 DEF Candidates
  <2> HIDE DEF first, second
  <2>3. ASSUME NEW u \in Hint, u.scheme # "none", u = [h EXCEPT !.scheme = u.scheme]
        PROVE  u = first \/ u = second
    <3>1. u.scheme = "http" \/ u.scheme = "https"
      BY <2>3 DEF Hint
    <3> QED BY <2>3, <3>1 DEF first, second
  <2>4. Candidates(h) \in Seq(Hint)
    BY <2>1, <2>2
  <2>5. /\ 1 \in DOMAIN Candidates(h) /\ 2 \in DOMAIN Candidates(h)
        /\ Candidates(h)[1] = first /\ Candidates(h)[2] = second
    BY <2>2
  <2> QED BY <2>3, <2>4, <2>5
<1>3. CASE h.scheme # "none"
  <2>1. Candidates(h) = << h >>
    BY <1>3 DEF Candidates
  <2>2. Candidates(h) \in Seq(Hint) /\ 1 \in DOMAIN Candidates(h) /\ Candidates(h)[1] = h
    BY <2>1
  <2>3. ASSUME NEW u \in Hint, h.scheme \in {u.scheme, "none"},
               u = [h EXCEPT !.scheme = u.scheme]
        PROVE  u = h
    <3>1. u.scheme = h.scheme
      BY <1>3, <2>3
    <3>2. [h EXCEPT !.scheme = h.scheme] = h
      BY <1>1
    <3> QED BY <2>3, <3>1, <3>2
  <2> QED BY <2>2, <2>3
<1> QED BY <1>2, <1>3

\* The candidates of one tier: every spelling of every hint.
LEMMA TierIs ==
    ASSUME NEW tier \in 1..4, NEW hints \in Seq(Hint)
    PROVE  /\ Tier(tier, hints) \in Seq(Entry)
           /\ \A k \in DOMAIN Tier(tier, hints) : Tier(tier, hints)[k].tier = tier
           /\ \A i \in DOMAIN hints : \A j \in DOMAIN Candidates(hints[i]) :
                \E k \in DOMAIN Tier(tier, hints) :
                   Tier(tier, hints)[k].url = Candidates(hints[i])[j]
           /\ hints = << >> => Tier(tier, hints) = << >>
<1> DEFINE ss == [i \in DOMAIN hints |-> Candidates(hints[i])]
           urls == FlattenSeq(ss)
           t == [k \in DOMAIN urls |-> [tier |-> tier, url |-> urls[k]]]
<1>1. Tier(tier, hints) = t
  BY DEF Tier
<1>2. Len(hints) \in Nat /\ DOMAIN hints = 1..Len(hints) /\ \A i \in DOMAIN hints : hints[i] \in Hint
  OBVIOUS
<1>3. ss \in Seq(Seq(Hint)) /\ DOMAIN ss = DOMAIN hints
      /\ \A i \in DOMAIN hints : ss[i] = Candidates(hints[i])
  BY <1>2, CandidatesAre
<1>4. hints = << >> => urls = << >>
  <2> SUFFICES ASSUME hints = << >> PROVE urls = << >>
    OBVIOUS
  <2>1. DOMAIN ss = {} /\ ss = << >> /\ Len(ss) = 0
    BY <1>3
  <2> HIDE DEF ss
  <2> QED BY <2>1 DEF FlattenSeq
<1> HIDE DEF ss
<1>5. /\ urls \in Seq(Hint)
      /\ \A i \in DOMAIN ss : \A j \in DOMAIN ss[i] : \E k \in DOMAIN urls : urls[k] = ss[i][j]
  BY <1>3, FlattenIs
<1> HIDE DEF urls
<1>6. t \in Seq(Entry) /\ DOMAIN t = DOMAIN urls
      /\ \A k \in DOMAIN urls : t[k].tier = tier /\ t[k].url = urls[k]
  <2>1. Len(urls) \in Nat /\ DOMAIN urls = 1..Len(urls) /\ \A k \in DOMAIN urls : urls[k] \in Hint
    BY <1>5
  <2>2. \A k \in 1..Len(urls) : t[k] \in Entry
    BY <2>1 DEF Entry
  <2>3. t \in [1..Len(urls) -> Entry]
    BY <2>1, <2>2
  <2>4. t \in Seq(Entry)
    BY <2>1, <2>3
  <2> QED BY <2>4
<1>7. hints = << >> => t = << >>
  BY <1>4
<1> HIDE DEF t
<1>8. ASSUME NEW i \in DOMAIN hints, NEW j \in DOMAIN Candidates(hints[i])
      PROVE  \E k \in DOMAIN t : t[k].url = Candidates(hints[i])[j]
  BY <1>3, <1>5, <1>6, <1>8
<1> QED BY <1>1, <1>6, <1>7, <1>8

\* The plan of a walk: what it names, tier by tier.
LEMMA PlanIs ==
    ASSUME NEW p \in Plans
    PROVE  /\ WalkPlan(p) \in Seq(Entry) /\ Rising(WalkPlan(p))
           /\ \A u \in Wanted(p) : \E k \in DOMAIN WalkPlan(p) : WalkPlan(p)[k].url = u
           /\ ~NamesServers(p) => \A k \in DOMAIN WalkPlan(p) : WalkPlan(p)[k].tier = 3
<1> DEFINE t1 == Tier(1, p.origin)
           t2 == Tier(2, p.xs)
           t3 == Tier(3, Configured)
           t12 == t1 \o t2
           all == t12 \o t3
<1>1. p.origin \in Seq(Hint) /\ p.xs \in Seq(Hint) /\ Configured \in Seq(Hint)
  BY WalkAssumption DEF Plans, WalkAssumption
<1>2. /\ t1 \in Seq(Entry) /\ \A k \in DOMAIN t1 : t1[k].tier = 1
      /\ \A i \in DOMAIN p.origin : \A j \in DOMAIN Candidates(p.origin[i]) :
           \E k \in DOMAIN t1 : t1[k].url = Candidates(p.origin[i])[j]
      /\ p.origin = << >> => t1 = << >>
  <2>1. 1 \in 1..4
    OBVIOUS
  <2>2. /\ t1 \in Seq(Entry) /\ \A k \in DOMAIN t1 : t1[k].tier = 1
        /\ \A i \in DOMAIN p.origin : \A j \in DOMAIN Candidates(p.origin[i]) :
             \E k \in DOMAIN t1 : t1[k].url = Candidates(p.origin[i])[j]
    BY <1>1, <2>1, TierIs
  <2>3. p.origin = << >> => t1 = << >>
    BY <1>1, <2>1, TierIs
  <2> QED BY <2>2, <2>3
<1>3. /\ t2 \in Seq(Entry) /\ \A k \in DOMAIN t2 : t2[k].tier = 2
      /\ \A i \in DOMAIN p.xs : \A j \in DOMAIN Candidates(p.xs[i]) :
           \E k \in DOMAIN t2 : t2[k].url = Candidates(p.xs[i])[j]
      /\ p.xs = << >> => t2 = << >>
  <2>1. 2 \in 1..4
    OBVIOUS
  <2>2. /\ t2 \in Seq(Entry) /\ \A k \in DOMAIN t2 : t2[k].tier = 2
        /\ \A i \in DOMAIN p.xs : \A j \in DOMAIN Candidates(p.xs[i]) :
             \E k \in DOMAIN t2 : t2[k].url = Candidates(p.xs[i])[j]
    BY <1>1, <2>1, TierIs
  <2>3. p.xs = << >> => t2 = << >>
    BY <1>1, <2>1, TierIs
  <2> QED BY <2>2, <2>3
<1>4. /\ t3 \in Seq(Entry) /\ \A k \in DOMAIN t3 : t3[k].tier = 3
      /\ \A i \in DOMAIN Configured : \A j \in DOMAIN Candidates(Configured[i]) :
           \E k \in DOMAIN t3 : t3[k].url = Candidates(Configured[i])[j]
  BY <1>1, TierIs
<1>5. WalkPlan(p) = FirstOfEachUrl(all)
  <2>1. WalkPlan(p) = FirstOfEachUrl(Tier(1, p.origin) \o Tier(2, p.xs) \o Tier(3, Configured))
    BY DEF WalkPlan
  <2> QED BY <2>1
<1> HIDE DEF t1, t2, t3
<1>6. /\ t12 \in Seq(Entry) /\ DOMAIN t12 = 1..Len(t1) + Len(t2)
      /\ \A k \in DOMAIN t1 : k \in DOMAIN t12 /\ t12[k] = t1[k]
      /\ \A k \in DOMAIN t2 : Len(t1) + k \in DOMAIN t12 /\ t12[Len(t1) + k] = t2[k]
  BY <1>2, <1>3, Joined
<1> HIDE DEF t12
<1>7. \A k \in DOMAIN t12 : \/ k <= Len(t1) /\ t12[k].tier = 1
                            \/ Len(t1) < k /\ t12[k].tier = 2
  <2> SUFFICES ASSUME NEW k \in DOMAIN t12
               PROVE  \/ k <= Len(t1) /\ t12[k].tier = 1
                      \/ Len(t1) < k /\ t12[k].tier = 2
    OBVIOUS
  <2>1. Len(t1) \in Nat /\ Len(t2) \in Nat /\ DOMAIN t1 = 1..Len(t1) /\ DOMAIN t2 = 1..Len(t2)
    BY <1>2, <1>3
  <2>2. k \in Nat /\ 1 <= k /\ k <= Len(t1) + Len(t2)
    BY <1>6, <2>1
  <2>3. CASE k <= Len(t1)
    <3>1. k \in DOMAIN t1
      BY <2>1, <2>2, <2>3
    <3>2. t12[k] = t1[k] /\ t1[k].tier = 1
      BY <1>2, <1>6, <3>1
    <3> QED BY <2>3, <3>2
  <2>4. CASE Len(t1) < k
    <3>1. k - Len(t1) \in DOMAIN t2 /\ Len(t1) + (k - Len(t1)) = k
      BY <2>1, <2>2, <2>4
    <3> QED BY <1>3, <1>6, <2>4, <3>1
  <2> QED BY <2>1, <2>2, <2>3, <2>4
<1>8. /\ all \in Seq(Entry) /\ DOMAIN all = 1..Len(t12) + Len(t3)
      /\ \A k \in DOMAIN t12 : k \in DOMAIN all /\ all[k] = t12[k]
      /\ \A k \in DOMAIN t3 : Len(t12) + k \in DOMAIN all /\ all[Len(t12) + k] = t3[k]
  BY <1>4, <1>6, Joined
<1>9. \A k \in DOMAIN all : \/ k \in DOMAIN t12 /\ all[k] = t12[k]
                            \/ k \notin DOMAIN t12 /\ Len(t12) < k /\ all[k].tier = 3
  <2> SUFFICES ASSUME NEW k \in DOMAIN all, k \notin DOMAIN t12
               PROVE  Len(t12) < k /\ all[k].tier = 3
    BY <1>8
  <2>1. Len(t12) \in Nat /\ Len(t3) \in Nat /\ DOMAIN t12 = 1..Len(t12) /\ DOMAIN t3 = 1..Len(t3)
    BY <1>4, <1>6
  <2>2. k \in Nat /\ 1 <= k /\ k <= Len(t12) + Len(t3) /\ Len(t12) < k
    BY <1>8, <2>1
  <2>3. k - Len(t12) \in DOMAIN t3 /\ Len(t12) + (k - Len(t12)) = k
    BY <2>1, <2>2
  <2> QED BY <1>4, <1>8, <2>2, <2>3
<1> HIDE DEF all
<1>10. Rising(all)
  <2> SUFFICES ASSUME NEW i \in DOMAIN all, NEW j \in DOMAIN all, i < j
               PROVE  all[i].tier <= all[j].tier
    BY DEF Rising
  <2>1. Len(t1) \in Nat /\ Len(t12) \in Nat /\ DOMAIN t12 = 1..Len(t12) /\ i \in Nat /\ j \in Nat
    BY <1>2, <1>6, <1>8
  <2>2. CASE j \notin DOMAIN t12
    <3>1. all[j].tier = 3
      BY <1>9, <2>2
    <3>2. all[i].tier = 1 \/ all[i].tier = 2 \/ all[i].tier = 3
      BY <1>7, <1>9
    <3> QED BY <3>1, <3>2
  <2>3. CASE j \in DOMAIN t12
    <3>1. i \in DOMAIN t12
      <4>1. ~ (Len(t12) < i)
        BY <2>1, <2>3
      <4> QED BY <1>9, <4>1
    <3>2. all[i] = t12[i] /\ all[j] = t12[j]
      BY <1>8, <2>3, <3>1
    <3>3. t12[i].tier = 1 \/ (t12[i].tier = 2 /\ t12[j].tier = 2)
      <4>1. CASE Len(t1) < i
        <5>1. Len(t1) < j /\ ~(i <= Len(t1)) /\ ~(j <= Len(t1))
          BY <2>1, <4>1
        <5> QED BY <1>7, <2>3, <3>1, <5>1
      <4>2. CASE ~(Len(t1) < i)
        BY <1>7, <3>1, <4>2
      <4> QED BY <4>1, <4>2
    <3>4. t12[j].tier = 1 \/ t12[j].tier = 2
      BY <1>7, <2>3
    <3> QED BY <3>2, <3>3, <3>4
  <2> QED BY <2>2, <2>3
<1>11. /\ FirstOfEachUrl(all) \in Seq(Entry) /\ Rising(FirstOfEachUrl(all))
       /\ \A i \in DOMAIN all : \E k \in DOMAIN FirstOfEachUrl(all) :
            FirstOfEachUrl(all)[k].url = all[i].url
       /\ \A k \in DOMAIN FirstOfEachUrl(all) : \E i \in DOMAIN all :
            FirstOfEachUrl(all)[k] = all[i]
  BY <1>8, <1>10, FirstIs
<1>12. ASSUME NEW u \in Wanted(p) PROVE \E i \in DOMAIN all : all[i].url = u
  <2>1. PICK h \in Range(p.origin) \cup Range(p.xs) \cup Range(Configured) :
          h.scheme \in {u.scheme, "none"} /\ u = [h EXCEPT !.scheme = u.scheme]
    BY DEF Wanted
  <2>2. u \in Hint /\ u.scheme # "none"
    BY DEF Wanted
  <2>3. h \in Hint
    BY <1>1, <2>1 DEF Range
  <2>4. PICK j \in DOMAIN Candidates(h) : Candidates(h)[j] = u
    BY <2>1, <2>2, <2>3, CandidatesAre
  <2>5. CASE h \in Range(p.origin)
    <3>1. PICK i \in DOMAIN p.origin : p.origin[i] = h
      BY <2>5 DEF Range
    <3>2. PICK k \in DOMAIN t1 : t1[k].url = u
      BY <1>2, <2>4, <3>1
    <3> QED BY <1>6, <1>8, <3>2
  <2>6. CASE h \in Range(p.xs)
    <3>1. PICK i \in DOMAIN p.xs : p.xs[i] = h
      BY <2>6 DEF Range
    <3>2. PICK k \in DOMAIN t2 : t2[k].url = u
      BY <1>3, <2>4, <3>1
    <3> QED BY <1>6, <1>8, <3>2
  <2>7. CASE h \in Range(Configured)
    <3>1. PICK i \in DOMAIN Configured : Configured[i] = h
      BY <2>7 DEF Range
    <3>2. PICK k \in DOMAIN t3 : t3[k].url = u
      BY <1>4, <2>4, <3>1
    <3> QED BY <1>8, <3>2
  <2> QED BY <2>1, <2>5, <2>6, <2>7
<1>13. ASSUME ~NamesServers(p), NEW i \in DOMAIN all PROVE all[i].tier = 3
  <2>1. p.origin = << >> /\ p.xs = << >>
    BY <1>13 DEF NamesServers
  <2>2. t1 = << >> /\ t2 = << >>
    BY <1>2, <1>3, <2>1
  <2>3. DOMAIN t12 = {}
    BY <1>6, <2>2
  <2> QED BY <1>9, <2>3
<1> QED BY <1>5, <1>11, <1>12, <1>13

\* The plans and lists that a step looks up are those of the tables.
LEMMA PlansAreTabulated ==
    ASSUME NEW r \in Requests, NEW q \in Queries[r]
    PROVE  /\ UpstreamPlan(q) \in Plans
           /\ Walks[UpstreamPlan(q)] = WalkPlan(UpstreamPlan(q))
<1>1. /\ q.origin \in Seq(Hint) /\ q.xs \in Seq(Hint) /\ q.servers \in Seq(Hint)
      /\ q.author \in Authors \cup {Nothing}
  BY WalkAssumption DEF WalkAssumption
<1>2. UpstreamPlan(q) \in Plans
  <2>1. << >> \in Seq(Hint)
    OBVIOUS
  <2>2. CASE OriginMode = "off"
    BY <2>1, <2>2 DEF UpstreamPlan, Plans
  <2>3. CASE OriginMode # "off"
    BY <1>1, <2>3 DEF UpstreamPlan, Plans
  <2> QED BY <2>2, <2>3
<1>3. UpstreamPlan(q) \in {UpstreamPlan(k) : k \in UNION {Queries[s] : s \in Requests}}
  OBVIOUS
<1>4. Walks[UpstreamPlan(q)] = WalkPlan(UpstreamPlan(q))
  BY <1>3 DEF Walks
<1> QED BY <1>2, <1>4

LEMMA ServersAre ==
    ASSUME NEW l \in Seq(Hint) PROVE HttpServers(l) \in Seq(Hint)
<1> DEFINE ss == [i \in DOMAIN l |-> IF l[i].scheme = "none" THEN << >> ELSE << l[i] >>]
<1>1. Len(l) \in Nat /\ DOMAIN l = 1..Len(l) /\ \A i \in DOMAIN l : l[i] \in Hint
  OBVIOUS
<1>2. \A i \in 1..Len(l) : ss[i] \in Seq(Hint)
  BY <1>1
<1>3. ss \in [1..Len(l) -> Seq(Hint)]
  BY <1>1, <1>2
<1>4. ss \in Seq(Seq(Hint))
  BY <1>1, <1>3
<1>5. HttpServers(l) = FlattenSeq(ss)
  BY DEF HttpServers
<1> HIDE DEF ss
<1> QED BY <1>4, <1>5, FlattenIs

LEMMA ListsAreTabulated ==
    /\ \A a \in Authors : \A l \in Lists[a] : HttpServers(l) \in DOMAIN UserServers
    /\ \A l \in DOMAIN UserServers : /\ l \in Seq(Hint) /\ UserServers[l] \in Seq(Entry)
                                     /\ \A k \in DOMAIN UserServers[l] : UserServers[l][k].tier = 4
<1> DEFINE all == {HttpServers(l) : l \in UNION {Lists[a] : a \in Authors}}
<1>1. DOMAIN UserServers = all /\ \A l \in all : UserServers[l] = Tier(4, l)
  BY DEF UserServers
<1>2. \A a \in Authors : \A l \in Lists[a] : HttpServers(l) \in all
  OBVIOUS
<1>3. ASSUME NEW l \in all
      PROVE  /\ l \in Seq(Hint) /\ UserServers[l] \in Seq(Entry)
             /\ \A k \in DOMAIN UserServers[l] : UserServers[l][k].tier = 4
  <2>1. PICK m \in UNION {Lists[a] : a \in Authors} : l = HttpServers(m)
    OBVIOUS
  <2>2. m \in Seq(Hint)
    BY WalkAssumption DEF WalkAssumption
  <2>3. l \in Seq(Hint)
    BY <2>1, <2>2, ServersAre
  <2>4. 4 \in 1..4
    OBVIOUS
  <2>5. UserServers[l] = Tier(4, l)
    BY <1>1
  <2>6. Tier(4, l) \in Seq(Entry) /\ \A k \in DOMAIN Tier(4, l) : Tier(4, l)[k].tier = 4
    BY <2>3, <2>4, TierIs
  <2> QED BY <2>3, <2>5, <2>6
<1> HIDE DEF all
<1> QED BY <1>1, <1>2, <1>3

-----------------------------------------------------------------------------
(* The steps of a walk.                                                     *)

\* The walk of a request that has none.
LEMMA NoWalk ==
    ASSUME NEW w \in WalkType, w.pending = << >>, w.asked = << >>, w.tried = {}, w.user = FALSE,
           w.pc \in {"idle", "resolve", "served", "open", "plan"}
    PROVE  WalkOK(w)
BY DEF WalkOK, Rising

LEMMA IdleIs ==
    ASSUME NEW reply \in Replies
    PROVE  /\ [Idle EXCEPT !.reply = reply] =
                [pc |-> "idle", plan |-> NoPlan, pending |-> << >>, tried |-> {},
                 user |-> FALSE, asked |-> << >>, whole |-> TRUE, reply |-> reply]
           /\ WalkOK([Idle EXCEPT !.reply = reply])
           /\ WalkOK([Idle EXCEPT !.pc = "resolve"]) /\ WalkOK(Idle)
<1> DEFINE I(pc, re) == [pc |-> pc, plan |-> NoPlan, pending |-> << >>, tried |-> {},
                         user |-> FALSE, asked |-> << >>, whole |-> TRUE, reply |-> re]
<1>1. NoPlan \in Plans
  BY DEF NoPlan, Plans
<1>2. ASSUME NEW pc \in {"idle", "resolve"}, NEW re \in Replies PROVE WalkOK(I(pc, re))
  <2>1. I(pc, re) \in WalkType
    BY <1>1 DEF WalkType, Steps
  <2> QED BY <2>1, NoWalk
<1>3. /\ [Idle EXCEPT !.reply = reply] = I("idle", reply)
      /\ [Idle EXCEPT !.pc = "resolve"] = I("resolve", "none") /\ Idle = I("idle", "none")
  <2>1. Idle = I("idle", "none")
    BY DEF Idle
  <2>2. Idle \in WalkType
    BY <1>1, <2>1 DEF WalkType, Steps, Replies
  <2>3. /\ Idle.pc = "idle" /\ Idle.plan = NoPlan /\ Idle.pending = << >> /\ Idle.tried = {}
        /\ Idle.user = FALSE /\ Idle.asked = << >> /\ Idle.whole = TRUE /\ Idle.reply = "none"
    BY <2>1
  <2>4. ASSUME NEW pc \in Steps, NEW re \in Replies
        PROVE  [Idle EXCEPT !.pc = pc, !.reply = re] = I(pc, re)
    <3> DEFINE v == [Idle EXCEPT !.pc = pc, !.reply = re]
               w == I(pc, re)
    <3>0. << >> \in Seq(Entry) /\ NoPlan \in Plans
      BY <1>1
    <3>1. v \in WalkType /\ w \in WalkType
      <4>1. w \in WalkType
        BY <3>0 DEF WalkType
      <4>2. v \in WalkType
        BY <2>2 DEF WalkType
      <4> QED BY <4>1, <4>2
    <3>2. /\ v.pc = w.pc /\ v.plan = w.plan /\ v.pending = w.pending /\ v.tried = w.tried
          /\ v.asked = w.asked /\ v.reply = w.reply
      BY <2>2, <2>3 DEF WalkType
    <3>3. v.user = w.user /\ v.whole = w.whole
      BY <2>2, <2>3 DEF WalkType
    <3> HIDE DEF v, w
    <3>4. v = w
      BY <3>1, <3>2, <3>3 DEF WalkType
    <3> QED BY <3>4 DEF v, w
  <2>5. /\ [Idle EXCEPT !.reply = reply] = [Idle EXCEPT !.pc = "idle", !.reply = reply]
        /\ [Idle EXCEPT !.pc = "resolve"] = [Idle EXCEPT !.pc = "resolve", !.reply = "none"]
    BY <2>2, <2>3 DEF WalkType
  <2>6. "idle" \in Steps /\ "resolve" \in Steps /\ "none" \in Replies
    BY DEF Steps, Replies
  <2> QED BY <2>1, <2>4, <2>5, <2>6
<1>4. "none" \in Replies
  BY DEF Replies
<1> QED BY <1>2, <1>3, <1>4

\* A walk that has just begun, as an update of an idle one and field by field.
Begun(plan, pending, user) ==
    [Idle EXCEPT !.pc = "next", !.plan = plan, !.pending = pending, !.user = user]
Beginning(plan, pending, user) ==
    [pc |-> "next", plan |-> plan, pending |-> pending, tried |-> {}, user |-> user,
     asked |-> << >>, whole |-> TRUE, reply |-> "none"]

LEMMA BegunIs ==
    ASSUME NEW plan, NEW pending, NEW user
    PROVE  Begun(plan, pending, user) = Beginning(plan, pending, user)
<1> DEFINE v == [Idle EXCEPT !.pc = "next", !.plan = plan, !.pending = pending, !.user = user]
           w == [pc |-> "next", plan |-> plan, pending |-> pending, tried |-> {}, user |-> user,
                 asked |-> << >>, whole |-> TRUE, reply |-> "none"]
           Fields == {"pc", "plan", "pending", "tried", "user", "asked", "whole", "reply"}
<1>1. DOMAIN v = Fields /\ v = [f \in Fields |-> v[f]]
  BY DEF Idle
<1>2. DOMAIN w = Fields /\ w = [f \in Fields |-> w[f]]
  OBVIOUS
<1>3. /\ v["pc"] = w["pc"] /\ v["plan"] = w["plan"] /\ v["pending"] = w["pending"]
      /\ v["tried"] = w["tried"] /\ v["asked"] = w["asked"] /\ v["reply"] = w["reply"]
  BY DEF Idle
<1>4. v["user"] = w["user"]
  BY DEF Idle
<1>5. v["whole"] = w["whole"]
  BY DEF Idle
<1> HIDE DEF v, w
<1>6. \A f \in Fields : v[f] = w[f]
  BY Zenon, <1>3, <1>4, <1>5
<1>7. v = w
  BY <1>1, <1>2, <1>6
<1> QED BY Zenon, <1>7 DEF v, w, Begun, Beginning

\* A walk begins with its plan.
LEMMA WalkStarts ==
    ASSUME NEW r \in Requests, NEW q \in Queries[r]
    PROVE  LET p == UpstreamPlan(q) IN
           WalkOK([Idle EXCEPT !.pc = "next", !.plan = p, !.pending = Walks[p],
                               !.user = p.author # Nothing])
<1> DEFINE p == UpstreamPlan(q)
           w == [pc |-> "next", plan |-> p, pending |-> Walks[p], tried |-> {},
                 user |-> p.author # Nothing, asked |-> << >>, whole |-> TRUE, reply |-> "none"]
<1>1. [Idle EXCEPT !.pc = "next", !.plan = p, !.pending = Walks[p],
                   !.user = p.author # Nothing] = w
  <2>1. Begun(p, Walks[p], p.author # Nothing) = Beginning(p, Walks[p], p.author # Nothing)
    BY Zenon, BegunIs
  <2> QED BY Zenon, <2>1 DEF Begun, Beginning
<1>2. p \in Plans /\ Walks[p] = WalkPlan(p)
  BY PlansAreTabulated
<1> HIDE DEF p
<1>3. /\ Walks[p] \in Seq(Entry) /\ Rising(Walks[p])
      /\ \A u \in Wanted(p) : \E k \in DOMAIN Walks[p] : Walks[p][k].url = u
      /\ ~NamesServers(p) => \A k \in DOMAIN Walks[p] : Walks[p][k].tier = 3
  BY <1>2, PlanIs
<1>4. w \in WalkType
  BY <1>2, <1>3 DEF WalkType, Steps, Replies
<1>5. p.author # Nothing => p.author \in Authors
  BY <1>2 DEF Plans
<1>6. WalkOK(w)
  <2>1. /\ w.pc = "next" /\ w.plan = p /\ w.pending = Walks[p] /\ w.tried = {} /\ w.asked = << >>
        /\ (w.user <=> p.author # Nothing)
    OBVIOUS
  <2> HIDE DEF w
  <2>2. Rising(w.asked) /\ Rising(w.pending)
    BY <1>3, <2>1 DEF Rising
  <2>3. \A u \in Wanted(w.plan) : Awaited(w, u)
    BY <1>3, <2>1 DEF Awaited
  <2>4. w.user => w.plan.author \in Authors
    BY <1>5, <2>1
  <2>5. ~NamesServers(w.plan) => \A j \in DOMAIN w.pending : w.pending[j].tier \in {3, 4}
    BY <1>3, <2>1
  <2> QED BY <1>4, <2>1, <2>2, <2>3, <2>4, <2>5 DEF WalkOK
<1> QED BY <1>1, <1>6 DEF p

\* A step that only goes on to the next one, or gives up.
LEMMA WalkGoes ==
    ASSUME NEW w, WalkOK(w), NEW pc \in Steps, NEW whole \in BOOLEAN,
           \/ pc \in {"idle", "resolve", "served", "open", "plan"}
           \/ pc = "next" /\ w.pc = "ask"
           \/ pc = "failed" /\ ~whole
           \/ pc = "failed" /\ w.pc = "list",
           whole => w.whole
    PROVE  WalkOK([w EXCEPT !.pc = pc, !.whole = whole])
<1> DEFINE v == [w EXCEPT !.pc = pc, !.whole = whole]
<1>1. w \in WalkType
  BY DEF WalkOK
<1>2. /\ v \in WalkType /\ v.pc = pc /\ v.whole = whole /\ v.plan = w.plan
      /\ v.pending = w.pending /\ v.tried = w.tried /\ v.user = w.user /\ v.asked = w.asked
  BY <1>1 DEF WalkType
<1> HIDE DEF v
<1>3. ASSUME pc = "ask" PROVE FALSE
  BY <1>3
<1>4. ASSUME pc = "list" PROVE FALSE
  BY <1>4
<1>5. ASSUME v.pc \in {"next", "ask", "list", "failed"}, v.whole, NEW u \in Wanted(v.plan)
      PROVE  u \in v.tried \/ Awaited(v, u)
  <2>1. w.whole /\ u \in Wanted(w.plan) /\ w.pc \in {"ask", "list"}
    BY <1>2, <1>5
  <2>2. u \in w.tried \/ Awaited(w, u)
    BY <2>1 DEF WalkOK
  <2>3. CASE pc = "next"
    BY <1>2, <2>2, <2>3 DEF Awaited
  <2>4. CASE pc = "failed"
    BY <1>2, <1>5, <2>2, <2>4 DEF Awaited
  <2> QED BY <1>2, <1>5, <2>3, <2>4
<1>6. v.pc # "ask" /\ v.pc # "list"
  BY <1>2, <1>3, <1>4
<1>7. WalkOK(v)
  BY <1>2, <1>5, <1>6 DEF WalkOK
<1> QED BY <1>7 DEF v

\* What one more candidate does to the list of those asked.
LEMMA OneMoreAsked ==
    ASSUME NEW s \in Seq(Entry), NEW c \in Entry, Rising(s),
           \A i \in DOMAIN s : s[i].tier <= c.tier,
           \A i, j \in DOMAIN s : s[i].url = s[j].url => i = j,
           c.url \notin {s[i].url : i \in DOMAIN s}
    PROVE  LET t == Append(s, c) IN
           /\ t \in Seq(Entry) /\ t # << >> /\ Rising(t)
           /\ \A i, j \in DOMAIN t : t[i].url = t[j].url => i = j
           /\ {t[i].url : i \in DOMAIN t} = {s[i].url : i \in DOMAIN s} \cup {c.url}
           /\ \A i \in DOMAIN t : t[i] = c \/ \E k \in DOMAIN s : t[i] = s[k]
<1> DEFINE t == Append(s, c)
           n == Len(s) + 1
<1>1. Len(s) \in Nat /\ DOMAIN s = 1..Len(s)
  OBVIOUS
<1>2. /\ t \in Seq(Entry) /\ t # << >> /\ DOMAIN t = 1..Len(s) + 1
      /\ t[Len(s) + 1] = c /\ \A k \in 1..Len(s) : t[k] = s[k]
  BY <1>1
<1> HIDE DEF t
<1>3. /\ \A k \in DOMAIN t : k \in DOMAIN s \/ k = n
      /\ n \in DOMAIN t /\ t[n] = c
      /\ \A k \in DOMAIN s : k \in DOMAIN t /\ t[k] = s[k] /\ k < n /\ k # n
  BY <1>1, <1>2
<1>4. ASSUME NEW i \in DOMAIN t, NEW j \in DOMAIN t, i < j PROVE t[i].tier <= t[j].tier
  <2>1. i \in DOMAIN s
    BY <1>1, <1>2, <1>3, <1>4
  <2>2. CASE j \in DOMAIN s
    BY <1>3, <1>4, <2>1, <2>2 DEF Rising
  <2>3. CASE j = n
    BY <1>3, <2>1, <2>3
  <2> QED BY <1>3, <2>2, <2>3
<1>5. ASSUME NEW i \in DOMAIN t, NEW j \in DOMAIN t, t[i].url = t[j].url PROVE i = j
  <2> HIDE DEF n
  <2>1. CASE i = n /\ j = n
    BY <2>1
  <2>2. CASE i \in DOMAIN s /\ j \in DOMAIN s
    BY <1>3, <1>5, <2>2
  <2>3. CASE i \in DOMAIN s /\ j = n
    BY <1>3, <1>5, <2>3
  <2>4. CASE i = n /\ j \in DOMAIN s
    BY <1>3, <1>5, <2>4
  <2> QED BY <1>3, <2>1, <2>2, <2>3, <2>4
<1>6. {t[i].url : i \in DOMAIN t} = {s[i].url : i \in DOMAIN s} \cup {c.url}
  <2> HIDE DEF n
  <2> QED BY <1>3
<1>7. \A i \in DOMAIN t : t[i] = c \/ \E k \in DOMAIN s : t[i] = s[k]
  BY <1>3
<1>8. Rising(t)
  BY <1>4 DEF Rising
<1> QED BY <1>2, <1>5, <1>6, <1>7, <1>8 DEF t

\* What is left of a list behind its i-th element.
LEMMA TheRest ==
    ASSUME NEW s \in Seq(Entry), Rising(s), NEW i \in DOMAIN s
    PROVE  LET t == SubSeq(s, i + 1, Len(s)) IN
           /\ t \in Seq(Entry) /\ Rising(t)
           /\ \A k \in DOMAIN t : i + k \in DOMAIN s /\ i < i + k /\ t[k] = s[i + k]
           /\ \A k \in DOMAIN s : i < k => k - i \in DOMAIN t /\ t[k - i] = s[k]
<1> DEFINE t == SubSeq(s, i + 1, Len(s))
<1>1. Len(s) \in Nat /\ DOMAIN s = 1..Len(s) /\ i \in Nat /\ 1 <= i /\ i <= Len(s)
  OBVIOUS
<1>2. t \in Seq(Entry) /\ DOMAIN t = 1..Len(s) - i /\ \A k \in 1..Len(s) - i : t[k] = s[i + k]
  <2>1. i + 1 \in 1..Len(s) + 1 /\ Len(s) \in 0..Len(s)
    BY <1>1
  <2>2. /\ t = [k \in 1..Len(s) - i |-> s[i + k]]
    <3>1. Len(s) - (i + 1) + 1 = Len(s) - i
      BY <1>1
    <3>2. \A k \in 1..Len(s) - i : (i + 1) + k - 1 = i + k
      BY <1>1
    <3>3. t = [k \in 1..(Len(s) - (i + 1) + 1) |-> s[(i + 1) + k - 1]]
      BY <1>1
    <3>4. Len(s) - i \in Nat
      BY <1>1
    <3> HIDE DEF t
    <3> QED BY <3>1, <3>2, <3>3, <3>4
  <2>3. \A k \in 1..Len(s) - i : s[i + k] \in Entry
    <3>1. ASSUME NEW k \in 1..Len(s) - i PROVE i + k \in 1..Len(s)
      BY <1>1
    <3> QED BY <1>1, <3>1
  <2>4. Len(s) - i \in Nat
    BY <1>1
  <2> HIDE DEF t
  <2>5. t \in [1..Len(s) - i -> Entry]
    BY <2>2, <2>3
  <2>6. ASSUME NEW m \in Nat, t \in [1..m -> Entry] PROVE t \in Seq(Entry)
    BY <2>6
  <2>7. t \in Seq(Entry)
    BY <2>4, <2>5, <2>6
  <2>8. DOMAIN t = 1..Len(s) - i
    BY <2>2
  <2>9. \A k \in 1..Len(s) - i : t[k] = s[i + k]
    BY <2>2
  <2> QED BY <2>7, <2>8, <2>9
<1> HIDE DEF t
<1>3. ASSUME NEW k \in DOMAIN t PROVE i + k \in DOMAIN s /\ i < i + k /\ t[k] = s[i + k]
  BY <1>1, <1>2
<1>4. ASSUME NEW k \in DOMAIN s, i < k PROVE k - i \in DOMAIN t /\ t[k - i] = s[k]
  <2>1. k - i \in 1..Len(s) - i /\ i + (k - i) = k
    BY <1>1, <1>4
  <2> QED BY <1>2, <2>1
<1>5. Rising(t)
  <2> SUFFICES ASSUME NEW k \in DOMAIN t, NEW m \in DOMAIN t, k < m PROVE t[k].tier <= t[m].tier
    BY DEF Rising
  <2>1. k \in Nat /\ m \in Nat /\ i + k < i + m
    BY <1>1, <1>2
  <2> QED BY <1>3, <2>1 DEF Rising
<1> QED BY <1>2, <1>3, <1>4, <1>5 DEF t

\* The walk goes on to the first candidate that is usable.
LEMMA WalkAsks ==
    ASSUME NEW w, WalkOK(w), w.pc = "next",
           NEW i \in DOMAIN w.pending, w.pending[i].url \notin w.tried,
           Allowed(w.pending[i].url),
           \A j \in DOMAIN w.pending : j < i =>
              ~Allowed(w.pending[j].url) \/ w.pending[j].url \in w.tried,
           NEW v \in WalkType, v.pc = "ask", v.tried = w.tried \cup {w.pending[i].url},
           v.pending = SubSeq(w.pending, i + 1, Len(w.pending)),
           v.asked = Append(w.asked, w.pending[i]),
           v.plan = w.plan, v.user = w.user, v.whole = w.whole
    PROVE  WalkOK(v)
<1> DEFINE s == w.asked
           p == w.pending
           c == w.pending[i]
           t == Append(s, c)
           rest == SubSeq(p, i + 1, Len(p))
<1>1. /\ s \in Seq(Entry) /\ p \in Seq(Entry) /\ c \in Entry /\ Rising(s) /\ Rising(p)
      /\ i \in DOMAIN p /\ w.tried = {s[k].url : k \in DOMAIN s} /\ c.url \notin w.tried
      /\ \A j, k \in DOMAIN s : s[j].url = s[k].url => j = k
      /\ \A j \in DOMAIN s : \A k \in DOMAIN p : s[j].tier <= p[k].tier
      /\ Allowed(c.url) /\ \A j \in DOMAIN s : Allowed(s[j].url)
  BY DEF WalkOK, WalkType
<1>2. v.asked = t /\ v.pending = rest /\ v.tried = w.tried \cup {c.url} /\ c = p[i]
  OBVIOUS
<1>3. \A k \in DOMAIN s : s[k].tier <= c.tier
  BY <1>1
<1>4. \A k \in DOMAIN p : i < k => p[i].tier <= p[k].tier
  BY <1>1 DEF Rising
<1> HIDE DEF s, p, c
<1>5. /\ t \in Seq(Entry) /\ t # << >> /\ Rising(t)
      /\ \A j, k \in DOMAIN t : t[j].url = t[k].url => j = k
      /\ {t[k].url : k \in DOMAIN t} = {s[k].url : k \in DOMAIN s} \cup {c.url}
      /\ \A k \in DOMAIN t : t[k] = c \/ \E j \in DOMAIN s : t[k] = s[j]
  BY <1>1, <1>3, OneMoreAsked
<1>6. /\ rest \in Seq(Entry) /\ Rising(rest)
      /\ \A k \in DOMAIN rest : i + k \in DOMAIN p /\ i < i + k /\ rest[k] = p[i + k]
      /\ \A k \in DOMAIN p : i < k => k - i \in DOMAIN rest /\ rest[k - i] = p[k]
  BY <1>1, TheRest
<1> HIDE DEF t, rest
<1>7. ASSUME NEW j \in DOMAIN t, NEW k \in DOMAIN rest PROVE t[j].tier <= rest[k].tier
  <2>1. rest[k] = p[i + k] /\ i + k \in DOMAIN p /\ i < i + k
    BY <1>6
  <2>2. CASE t[j] = c
    BY <1>2, <1>4, <2>1, <2>2
  <2>3. CASE \E m \in DOMAIN s : t[j] = s[m]
    BY <1>1, <2>1, <2>3
  <2> QED BY <1>5, <2>2, <2>3
<1>8. ASSUME w.whole, NEW u \in Wanted(w.plan) PROVE u \in v.tried \/ Awaited(v, u)
  <2>1. Allowed(u)
    BY DEF Wanted
  <2>2. CASE u \in w.tried
    BY <1>2, <2>2
  <2>3. CASE \E j \in DOMAIN p : p[j].url = u
    <3>1. PICK j \in DOMAIN p : p[j].url = u
      BY <2>3
    <3>2. CASE j < i
      BY <1>2, <2>1, <3>1, <3>2 DEF p
    <3>3. CASE j = i
      BY <1>2, <3>1, <3>3
    <3>4. CASE i < j
      <4>1. j - i \in DOMAIN rest /\ rest[j - i].url = u
        BY <1>6, <3>1, <3>4
      <4> QED BY <1>2, <4>1 DEF Awaited
    <3>5. i \in Int /\ j \in Int
      BY <1>1
    <3> QED BY <3>2, <3>3, <3>4, <3>5
  <2> QED BY <1>8, <2>2, <2>3 DEF WalkOK, Awaited, p
<1>9. ASSUME ~NamesServers(w.plan)
      PROVE  /\ \A k \in DOMAIN t : t[k].tier \in {3, 4}
             /\ \A k \in DOMAIN rest : rest[k].tier \in {3, 4}
  <2>1. /\ \A k \in DOMAIN s : s[k].tier \in {3, 4}
        /\ \A k \in DOMAIN p : p[k].tier \in {3, 4}
    BY <1>9 DEF WalkOK, s, p
  <2> QED BY <1>1, <1>2, <1>5, <1>6, <2>1
<1>10. v.user => w.user /\ w.plan.author \in Authors
  BY DEF WalkOK
<1>11. v.tried = {t[k].url : k \in DOMAIN t} /\ \A k \in DOMAIN t : Allowed(t[k].url)
  BY <1>1, <1>2, <1>5
<1>12. /\ v.tried = {v.asked[k].url : k \in DOMAIN v.asked}
       /\ \A j, k \in DOMAIN v.asked : v.asked[j].url = v.asked[k].url => j = k
       /\ \A j \in DOMAIN v.asked : Allowed(v.asked[j].url)
       /\ Rising(v.asked) /\ Rising(v.pending) /\ v.asked # << >>
       /\ \A j \in DOMAIN v.asked : \A k \in DOMAIN v.pending :
            v.asked[j].tier <= v.pending[k].tier
  <2>1. v.asked = t /\ v.pending = rest
    BY <1>2
  <2>2. /\ v.tried = {v.asked[k].url : k \in DOMAIN v.asked}
        /\ \A j \in DOMAIN v.asked : Allowed(v.asked[j].url)
    BY <1>11, <2>1
  <2>3. \A j, k \in DOMAIN v.asked : v.asked[j].url = v.asked[k].url => j = k
    BY <1>5, <2>1
  <2>4. Rising(v.asked) /\ Rising(v.pending) /\ v.asked # << >>
    BY <1>5, <1>6, <2>1
  <2>5. \A j \in DOMAIN v.asked : \A k \in DOMAIN v.pending :
          v.asked[j].tier <= v.pending[k].tier
    BY <1>7, <2>1
  <2> QED BY <2>2, <2>3, <2>4, <2>5
<1>13. ~NamesServers(v.plan) =>
         /\ \A k \in DOMAIN v.asked : v.asked[k].tier \in {3, 4}
         /\ \A k \in DOMAIN v.pending : v.pending[k].tier \in {3, 4}
  BY <1>2, <1>9
<1>14. v.whole => \A u \in Wanted(v.plan) : u \in v.tried \/ Awaited(v, u)
  BY <1>8
<1>15. v.user \/ v.pc = "list" => v.plan.author \in Authors
  BY <1>10
<1> HIDE DEF s, p, c
<1> QED BY <1>12, <1>13, <1>14, <1>15 DEF WalkOK

\* The walk has no candidate left.
LEMMA WalkRunsOut ==
    ASSUME NEW w, WalkOK(w), w.pc = "next",
           \A j \in DOMAIN w.pending :
              ~Allowed(w.pending[j].url) \/ w.pending[j].url \in w.tried,
           NEW v \in WalkType, v.pc = IF w.user THEN "list" ELSE "failed", v.user = FALSE,
           v.pending = << >>, v.tried = w.tried, v.asked = w.asked, v.plan = w.plan,
           v.whole = w.whole
    PROVE  WalkOK(v)
<1>1. ASSUME w.whole, NEW u \in Wanted(w.plan) PROVE u \in w.tried
  <2>1. Allowed(u)
    BY DEF Wanted
  <2>2. u \in w.tried \/ Awaited(w, u)
    BY <1>1 DEF WalkOK
  <2> QED BY <2>1, <2>2 DEF Awaited
<1>2. v.pc = "list" => w.plan.author \in Authors
  BY DEF WalkOK
<1>3. DOMAIN v.pending = {} /\ Rising(v.pending)
  BY DEF Rising
<1>4. v.pc # "ask" /\ ~v.user
  OBVIOUS
<1> QED BY <1>1, <1>2, <1>3, <1>4 DEF WalkOK

\* The walk goes on with the servers of a list.
LEMMA WalkTakes ==
    ASSUME NEW w, WalkOK(w), w.pc = "list", NEW l \in Seq(Entry),
           \A k \in DOMAIN l : l[k].tier = 4,
           NEW v \in WalkType, v.pc \in {"next", "failed"}, v.pending = l,
           v.tried = w.tried, v.asked = w.asked, v.plan = w.plan, v.user = w.user,
           v.whole = w.whole
    PROVE  WalkOK(v)
<1>1. ASSUME w.whole, NEW u \in Wanted(w.plan) PROVE u \in w.tried
  BY <1>1 DEF WalkOK, Awaited
<1>2. Rising(l)
  BY DEF Rising
<1>3. w.asked \in Seq(Entry)
  BY DEF WalkOK, WalkType
<1>4. ASSUME NEW i \in DOMAIN w.asked PROVE w.asked[i].tier \in 1..4
  <2>1. w.asked[i] \in Entry
    BY <1>3
  <2> QED BY <2>1 DEF Entry
<1>5. \A i \in DOMAIN w.asked : \A j \in DOMAIN l : w.asked[i].tier <= l[j].tier
  BY <1>4
<1>6. v.pc # "ask" /\ v.pc # "list" /\ (v.user => w.plan.author \in Authors)
  BY DEF WalkOK
<1> QED BY <1>1, <1>2, <1>5, <1>6 DEF WalkOK

WalksOK == rq \in [Requests -> WalkType] /\ \A r \in Requests : WalkOK(rq[r])

WalkInv == OutsideOK /\ WalksOK /\ \A a \in Authors : ListOK(a)

LEMMA OneWalk ==
    ASSUME WalksOK, NEW r \in Requests, NEW v, WalkOK(v), rq' = [rq EXCEPT ![r] = v]
    PROVE  WalksOK'
<1>1. v \in WalkType
  BY DEF WalkOK
<1>2. /\ rq' \in [Requests -> WalkType] /\ rq'[r] = v
      /\ \A s \in Requests \ {r} : rq'[s] = rq[s]
  BY <1>1 DEF WalksOK
<1>3. \A s \in Requests : WalkOK(rq'[s])
  BY <1>2 DEF WalksOK
<1> QED BY <1>2, <1>3 DEF WalksOK

LEMMA ReplyKeeps ==
    ASSUME WalksOK, NEW r \in Requests, NEW reply \in Replies, Reply(r, reply)
    PROVE  WalksOK' /\ rq'[r].pc = "idle"
<1>1. WalkOK([Idle EXCEPT !.reply = reply]) /\ [Idle EXCEPT !.reply = reply].pc = "idle"
  BY IdleIs
<1>2. rq' = [rq EXCEPT ![r] = [Idle EXCEPT !.reply = reply]]
  BY DEF Reply
<1>3. rq'[r] = [Idle EXCEPT !.reply = reply]
  BY <1>2 DEF WalksOK
<1> QED BY <1>1, <1>2, <1>3, OneWalk

\* A request goes on to another step, its walk left alone or given up.
LEMMA GotoKeeps ==
    ASSUME WalksOK, NEW r \in Requests, NEW pc \in Steps, Goto(r, pc),
           \/ pc \in {"idle", "resolve", "served", "open", "plan"}
           \/ pc = "next" /\ rq[r].pc = "ask"
    PROVE  WalksOK'
<1> DEFINE w == rq[r]
           v == [w EXCEPT !.pc = pc, !.whole = w.whole]
<1>1. w \in WalkType /\ WalkOK(w)
  BY DEF WalksOK
<1>2. v = [w EXCEPT !.pc = pc]
  BY <1>1 DEF WalkType
<1>3. rq' = [rq EXCEPT ![r] = v]
  BY <1>2 DEF Goto, WalksOK
<1>4. w.whole \in BOOLEAN /\ (w.whole => w.whole)
  BY <1>1 DEF WalkType
<1>5. WalkOK(v)
  <2> DEFINE whole == w.whole
  <2>1. whole \in BOOLEAN /\ (whole => w.whole)
    BY <1>4
  <2> HIDE DEF whole
  <2>2. WalkOK([w EXCEPT !.pc = pc, !.whole = whole])
    BY <1>1, <2>1, WalkGoes
  <2> QED BY <2>2 DEF whole
<1> QED BY <1>3, <1>5, OneWalk

LEMMA FailKeeps ==
    ASSUME WalksOK, NEW r \in Requests,
           rq' = [rq EXCEPT ![r].pc = "failed", ![r].whole = FALSE]
    PROVE  WalksOK' /\ rq'[r].whole = FALSE
<1> DEFINE v == [rq[r] EXCEPT !.pc = "failed", !.whole = FALSE]
<1>1. WalkOK(rq[r]) /\ rq[r] \in WalkType
  BY DEF WalksOK
<1>2. rq' = [rq EXCEPT ![r] = v]
  BY DEF WalksOK
<1>3. WalkOK(v)
  <2>1. "failed" \in Steps /\ FALSE \in BOOLEAN
    BY DEF Steps
  <2> QED BY <1>1, <2>1, WalkGoes
<1>4. rq'[r].whole = FALSE
  BY <1>1, <1>2 DEF WalksOK, WalkType
<1> QED BY <1>2, <1>3, <1>4, OneWalk

\* The first usable candidate of a walk.
LEMMA FirstIsUsable ==
    ASSUME WalksOK, NEW r \in Requests, Usable(r) # {}
    PROVE  /\ First(r) \in DOMAIN rq[r].pending
           /\ Allowed(rq[r].pending[First(r)].url)
           /\ rq[r].pending[First(r)].url \notin rq[r].tried
           /\ \A j \in DOMAIN rq[r].pending : j < First(r) =>
                ~Allowed(rq[r].pending[j].url) \/ rq[r].pending[j].url \in rq[r].tried
<1>1. rq[r].pending \in Seq(Entry)
  BY DEF WalksOK, WalkType
<1>2. DOMAIN rq[r].pending \subseteq Nat
  BY <1>1
<1>3. Usable(r) \in SUBSET Nat
  BY <1>2 DEF Usable
<1>4. First(r) \in Usable(r) /\ \A j \in Usable(r) : First(r) <= j
  <2>1. \E i \in Usable(r) : \A j \in Usable(r) : i <= j
    BY <1>3, LeastNumber
  <2> QED BY <2>1 DEF First
<1>5. ASSUME NEW j \in DOMAIN rq[r].pending, j < First(r)
      PROVE  ~Allowed(rq[r].pending[j].url) \/ rq[r].pending[j].url \in rq[r].tried
  <2>1. j \in Nat /\ First(r) \in Nat
    BY <1>2, <1>3, <1>4
  <2>2. j \notin Usable(r)
    BY <1>4, <1>5, <2>1
  <2> QED BY <2>2 DEF Usable
<1> QED BY <1>4, <1>5 DEF Usable

LEMMA NextKeeps ==
    ASSUME WalksOK, NEW r \in Requests, NextCandidate(r) PROVE WalksOK'
<1> DEFINE w == rq[r]
           i == First(r)
           c == w.pending[i]
           v == [w EXCEPT !.pc = "ask", !.tried = @ \cup {c.url},
                          !.pending = SubSeq(@, i + 1, Len(@)), !.asked = Append(@, c)]
<1>1. /\ WalkOK(w) /\ w \in WalkType /\ w.pc = "next" /\ Usable(r) # {}
      /\ w.pending \in Seq(Entry) /\ Len(w.pending) \in Nat /\ DOMAIN w.pending = 1..Len(w.pending)
  <2>1. WalkOK(w) /\ w \in WalkType /\ w.pc = "next" /\ Usable(r) # {}
    BY DEF WalksOK, NextCandidate
  <2>2. w.pending \in Seq(Entry)
    BY <2>1 DEF WalkType
  <2> QED BY <2>1, <2>2
<1>2. /\ i \in DOMAIN w.pending /\ Allowed(c.url) /\ c.url \notin w.tried
      /\ \A j \in DOMAIN w.pending : j < i =>
           ~Allowed(w.pending[j].url) \/ w.pending[j].url \in w.tried
  BY <1>1, FirstIsUsable
<1>3. rq' = [rq EXCEPT ![r] = v]
  <2>1. rq' = [rq EXCEPT ![r].pc = "ask", ![r].tried = @ \cup {c.url},
                         ![r].pending = SubSeq(w.pending, i + 1, Len(w.pending)),
                         ![r].asked = Append(@, c)]
    BY DEF NextCandidate, Behind
  <2> HIDE DEF i
  <2> QED BY <2>1 DEF WalksOK
<1> HIDE DEF i
<1>4. i \in Nat /\ c \in Entry
  BY <1>1, <1>2
<1>5. /\ v.pc = "ask" /\ v.tried = w.tried \cup {c.url}
      /\ v.pending = SubSeq(w.pending, i + 1, Len(w.pending)) /\ v.asked = Append(w.asked, c)
      /\ v.plan = w.plan /\ v.user = w.user /\ v.whole = w.whole /\ v.reply = w.reply
  BY <1>1 DEF WalkType
<1>6. v \in WalkType
  <2>1. Rising(w.pending) /\ c.url \in Hint /\ w.asked \in Seq(Entry) /\ w.tried \subseteq Hint
    BY <1>1, <1>4 DEF WalkOK, WalkType, Entry
  <2>2. SubSeq(w.pending, i + 1, Len(w.pending)) \in Seq(Entry)
    BY <1>1, <1>2, <2>1, TheRest
  <2>3. Append(w.asked, c) \in Seq(Entry)
    BY <1>4, <2>1
  <2>4. w.tried \cup {c.url} \in SUBSET Hint /\ "ask" \in Steps
    BY <2>1 DEF Steps
  <2> QED BY <1>1, <2>2, <2>3, <2>4 DEF WalkType
<1> HIDE DEF v
<1>7. WalkOK(v)
  BY <1>1, <1>2, <1>5, <1>6, WalkAsks
<1> QED BY <1>3, <1>7, OneWalk

\* A candidate that is skipped leaves a walk that claims nothing.
LEMMA SkipKeeps ==
    ASSUME WalksOK, NEW r \in Requests, Unresolved(r) PROVE WalksOK'
<1> DEFINE w == rq[r]
           i == First(r)
           rest == SubSeq(w.pending, i + 1, Len(w.pending))
           v == [w EXCEPT !.pending = rest, !.whole = FALSE]
<1>1. /\ WalkOK(w) /\ w \in WalkType /\ Usable(r) # {} /\ w.pending \in Seq(Entry)
      /\ Rising(w.pending) /\ w.pc = "next"
  BY DEF WalksOK, WalkOK, WalkType, Unresolved
<1>2. i \in DOMAIN w.pending
  BY <1>1, FirstIsUsable
<1>3. rq' = [rq EXCEPT ![r] = v]
  BY DEF Unresolved, Behind, WalksOK
<1> HIDE DEF i
<1>4. /\ rest \in Seq(Entry) /\ Rising(rest)
      /\ \A k \in DOMAIN rest : i + k \in DOMAIN w.pending /\ rest[k] = w.pending[i + k]
  BY <1>1, <1>2, TheRest
<1> HIDE DEF rest
<1>5. /\ v \in WalkType /\ v.pc = "next" /\ v.whole = FALSE /\ v.pending = rest
      /\ v.plan = w.plan /\ v.tried = w.tried /\ v.user = w.user /\ v.asked = w.asked
  BY <1>1, <1>4 DEF WalkType
<1> HIDE DEF v
<1>6. WalkOK(v)
  <2>1. \A j \in DOMAIN v.asked : \A k \in DOMAIN v.pending : v.asked[j].tier <= v.pending[k].tier
    BY <1>1, <1>4, <1>5 DEF WalkOK
  <2>2. ~NamesServers(v.plan) =>
          /\ \A j \in DOMAIN v.asked : v.asked[j].tier \in {3, 4}
          /\ \A k \in DOMAIN v.pending : v.pending[k].tier \in {3, 4}
    BY <1>1, <1>4, <1>5 DEF WalkOK
  <2>3. v.pc # "ask" /\ v.pc # "list" /\ ~v.whole /\ Rising(v.pending)
    BY <1>4, <1>5
  <2> QED BY <1>1, <1>5, <2>1, <2>2, <2>3 DEF WalkOK
<1> QED BY <1>3, <1>6, OneWalk

LEMMA ExhaustedKeeps ==
    ASSUME WalksOK, NEW r \in Requests, Exhausted(r) PROVE WalksOK'
<1> DEFINE w == rq[r]
           pc == IF w.user THEN "list" ELSE "failed"
           v == [w EXCEPT !.pc = pc, !.user = FALSE, !.pending = << >>]
<1>1. WalkOK(w) /\ w \in WalkType /\ w.pc = "next" /\ Usable(r) = {}
  BY DEF WalksOK, Exhausted
<1>2. rq' = [rq EXCEPT ![r] = v]
  BY DEF Exhausted, WalksOK
<1>3. /\ v.pc = pc /\ v.user = FALSE /\ v.pending = << >> /\ v.tried = w.tried
      /\ v.asked = w.asked /\ v.plan = w.plan /\ v.whole = w.whole
  BY <1>1 DEF WalkType
<1>4. v \in WalkType
  <2>1. pc \in Steps /\ << >> \in Seq(Entry)
    BY DEF Steps
  <2> HIDE DEF pc
  <2> QED BY <1>1, <2>1 DEF WalkType
<1>5. \A j \in DOMAIN w.pending :
         ~Allowed(w.pending[j].url) \/ w.pending[j].url \in w.tried
  BY <1>1 DEF Usable
<1> HIDE DEF v
<1>6. WalkOK(v)
  BY <1>1, <1>3, <1>4, <1>5, WalkRunsOut
<1> QED BY <1>2, <1>6, OneWalk

LEMMA GoOnKeeps ==
    ASSUME WalksOK, NEW r \in Requests, rq[r].pc = "list", NEW servers \in DOMAIN UserServers,
           GoOn(r, servers)
    PROVE  WalksOK' /\ rq'[r].pending = UserServers[servers]
<1> DEFINE w == rq[r]
           pc == IF servers = << >> THEN "failed" ELSE "next"
           l == UserServers[servers]
           v == [w EXCEPT !.pc = pc, !.pending = l]
<1>1. WalkOK(w) /\ w \in WalkType /\ w.pc = "list"
  BY DEF WalksOK
<1>2. rq' = [rq EXCEPT ![r] = v]
  BY DEF GoOn, WalksOK
<1>3. l \in Seq(Entry) /\ \A k \in DOMAIN l : l[k].tier = 4
  BY ListsAreTabulated
<1> HIDE DEF l
<1>4. /\ v.pc = pc /\ v.user = w.user /\ v.pending = l /\ v.tried = w.tried
      /\ v.asked = w.asked /\ v.plan = w.plan /\ v.whole = w.whole
  BY <1>1 DEF WalkType
<1>5. pc \in {"next", "failed"} /\ pc \in Steps
  BY DEF Steps
<1> HIDE DEF pc
<1>6. v \in WalkType
  BY <1>1, <1>3, <1>5 DEF WalkType
<1>7. rq'[r] = v
  BY <1>2 DEF WalksOK
<1> HIDE DEF v
<1>8. WalkOK(v)
  BY <1>1, <1>3, <1>4, <1>5, <1>6, WalkTakes
<1> QED BY <1>2, <1>4, <1>7, <1>8, OneWalk DEF l

\* What an author's list becomes when it is taken: the request goes on with it,
\* and what is cached is no older than it says.
LEMMA TakeKeeps ==
    ASSUME WalkInv, NEW r \in Requests, TakeUserServers(r)
    PROVE  /\ WalkInv'
           /\ rq'[r].whole => \/ doubt < ListTTL
                              \/ rq'[r].pending = UserServers[HttpServers(lists[rq[r].plan.author])]
<1> DEFINE a == rq[r].plan.author
<1>1. /\ WalksOK /\ OutsideOK /\ rq[r].pc = "list" /\ \A b \in Authors : ListOK(b)
      /\ UNCHANGED <<up, settled, holds, lists, doubt, missed>>
  BY DEF WalkInv, TakeUserServers, env
<1>2. a \in Authors
  BY <1>1 DEF WalksOK, WalkOK
<1>3. ListTTL \in Nat \ {0} /\ Nothing \notin CachedLists /\ << >> \in Lists[a]
      /\ \A l \in Lists[a] : l \in Seq(Hint)
  BY <1>2, WalkAssumption DEF WalkAssumption
<1> HIDE DEF a
<1>4. CASE Fresh(a) /\ GoOn(r, cached[a].servers) /\ UNCHANGED cached
  <2>1. cached[a].servers \in DOMAIN UserServers
    BY <1>1, <1>2, <1>4 DEF OutsideOK, Fresh
  <2>2. WalksOK' /\ rq'[r].pending = UserServers[cached[a].servers]
    BY <1>1, <1>4, <2>1, GoOnKeeps
  <2>3. OutsideOK' /\ \A b \in Authors : ListOK(b)'
    BY <1>1, <1>4 DEF OutsideOK, ListOK
  <2>4. doubt < ListTTL \/ cached[a].servers = HttpServers(lists[a])
    <3>1. cached[a].age < ListTTL /\ cached[a] # Nothing /\ cached[a].age \in Nat /\ doubt \in Nat
      BY <1>1, <1>2, <1>4 DEF Fresh, OutsideOK, CachedLists
    <3>2. doubt < ListTTL \/ cached[a].age < doubt
      BY <1>3, <3>1
    <3> QED BY <1>1, <1>2, <3>1, <3>2 DEF ListOK
  <2> QED BY <2>2, <2>3, <2>4 DEF WalkInv, a
<1>5. ASSUME ~Fresh(a), NEW list \in {lists[a]} \cup (IF up THEN {} ELSE {<< >>}),
             cached' = [cached EXCEPT ![a] = [servers |-> HttpServers(list), age |-> 0]],
             GoOn(r, HttpServers(list))
      PROVE  /\ WalkInv'
             /\ rq'[r].whole => \/ doubt < ListTTL
                                \/ rq'[r].pending = UserServers[HttpServers(lists[a])]
  <2>1. list \in Lists[a] /\ (list # lists[a] => ~up)
    BY <1>1, <1>2, <1>3, <1>5 DEF OutsideOK
  <2>2. HttpServers(list) \in DOMAIN UserServers /\ HttpServers(list) \in Seq(Hint)
    BY <1>2, <1>3, <2>1, ListsAreTabulated, ServersAre
  <2> DEFINE new == HttpServers(list)
             entry == [servers |-> new, age |-> 0]
  <2>3. WalksOK' /\ rq'[r].pending = UserServers[new]
    BY <1>1, <1>5, <2>2, GoOnKeeps
  <2> HIDE DEF new
  <2>4. entry \in CachedLists /\ entry.servers = new /\ entry.age = 0 /\ entry # Nothing
    <3>1. 0 \in 0..ListTTL /\ new \in Seq(Hint)
      BY <1>3, <2>2 DEF new
    <3> QED BY <1>3, <3>1 DEF CachedLists
  <2>5. cached' = [cached EXCEPT ![a] = entry] /\ cached \in [Authors -> CachedLists \cup {Nothing}]
    BY <1>1, <1>5 DEF OutsideOK, new
  <2> HIDE DEF entry
  <2>6. /\ cached' \in [Authors -> CachedLists \cup {Nothing}] /\ cached'[a] = entry
        /\ \A b \in Authors \ {a} : cached'[b] = cached[b]
    BY <1>2, <2>4, <2>5
  <2>7. \A b \in Authors : cached'[b] # Nothing => cached'[b].servers \in DOMAIN UserServers
    BY <1>1, <2>2, <2>4, <2>6 DEF OutsideOK, new
  <2>8. OutsideOK'
    BY <1>1, <2>6, <2>7 DEF OutsideOK
  <2>9. up \/ doubt = 0
    BY <1>1 DEF OutsideOK
  <2>10. ASSUME NEW b \in Authors PROVE ListOK(b)'
    <3>1. CASE b # a
      BY <1>1, <2>6, <3>1 DEF ListOK
    <3>2. CASE b = a /\ list = lists[a]
      BY <1>1, <2>4, <2>6, <3>2 DEF ListOK, new
    <3>3. CASE b = a /\ list # lists[a]
      <4>1. doubt' = 0 /\ ~(0 < 0)
        BY <1>1, <2>1, <2>9, <3>3
      <4> QED BY <2>4, <2>6, <3>3, <4>1 DEF ListOK
    <3> QED BY <3>1, <3>2, <3>3
  <2>11. doubt < ListTTL \/ new = HttpServers(lists[a])
    BY <1>3, <2>1, <2>9 DEF new
  <2> QED BY <2>3, <2>8, <2>10, <2>11 DEF WalkInv
<1>6. CASE /\ rq' = [rq EXCEPT ![r].pc = "failed", ![r].whole = FALSE]
           /\ UNCHANGED cached
  <2>1. WalksOK' /\ rq'[r].whole = FALSE
    BY <1>1, <1>6, FailKeeps
  <2>2. OutsideOK' /\ \A b \in Authors : ListOK(b)'
    BY <1>1, <1>6 DEF OutsideOK, ListOK
  <2> QED BY <2>1, <2>2 DEF WalkInv
<1> QED BY <1>4, <1>5, <1>6 DEF TakeUserServers, a

\* Steps that leave the caches and the world alone, but for a miss they record.
LEMMA MissKept ==
    ASSUME WalkInv, WalksOK', UNCHANGED <<env, cached>>, missed' \in {missed, 0} PROVE WalkInv'
<1>1. MissTTL \in Nat
  BY WalkAssumption DEF WalkAssumption
<1>2. missed' \in 0..MissTTL \cup {Nothing}
  BY <1>1 DEF WalkInv, OutsideOK
<1>3. OutsideOK'
  BY <1>2 DEF WalkInv, OutsideOK, env
<1>4. \A a \in Authors : ListOK(a)'
  BY DEF WalkInv, ListOK, env
<1> QED BY <1>3, <1>4 DEF WalkInv

LEMMA WalkStepKeeps ==
    ASSUME WalkInv, NEW r \in Requests, WalkStep(r) PROVE WalkInv'
<1>1. WalksOK
  BY DEF WalkInv
<1>2. CASE ResolveUpstream(r)
  <2>1. UNCHANGED <<env, missed, cached>>
    BY <1>2 DEF ResolveUpstream
  <2>2. PICK q \in Queries[r] : \/ Reply(r, "forbidden") \/ Reply(r, "notFound")
                                \/ Starts(r, UpstreamPlan(q))
    BY <1>2 DEF ResolveUpstream
  <2>3. "forbidden" \in Replies /\ "notFound" \in Replies
    BY DEF Replies
  <2>4. ASSUME Starts(r, UpstreamPlan(q)) PROVE WalksOK'
    <3> DEFINE p == UpstreamPlan(q)
               v == [Idle EXCEPT !.pc = "next", !.plan = p, !.pending = Walks[p],
                                 !.user = p.author # Nothing]
    <3>1. rq' = [rq EXCEPT ![r] = v]
      BY <2>4 DEF Starts
    <3>2. WalkOK(v)
      BY WalkStarts
    <3> HIDE DEF v
    <3> QED BY <1>1, <3>1, <3>2, OneWalk
  <2>5. WalksOK'
    BY <1>1, <2>2, <2>3, <2>4, ReplyKeeps
  <2> QED BY <2>1, <2>5, MissKept
<1>3. CASE NextCandidate(r)
  BY <1>1, <1>3, NextKeeps, MissKept DEF NextCandidate
<1>4. CASE Exhausted(r)
  BY <1>1, <1>4, ExhaustedKeeps, MissKept DEF Exhausted
<1>5. CASE TakeUserServers(r)
  BY <1>5, TakeKeeps
<1>6. CASE Ask(r)
  <2>1. "upstream" \in Replies /\ "next" \in Steps
    BY DEF Replies, Steps
  <2>2. \/ Reply(r, "upstream") \/ Goto(r, "next")
        \/ rq' = [rq EXCEPT ![r].pc = "failed", ![r].whole = FALSE]
    BY <1>6 DEF Ask
  <2>3. rq[r].pc = "ask" /\ UNCHANGED <<env, missed, cached>>
    BY <1>6 DEF Ask
  <2>4. WalksOK'
    BY <1>1, <2>1, <2>2, <2>3, ReplyKeeps, GotoKeeps, FailKeeps
  <2> QED BY <2>3, <2>4, MissKept
<1>7. CASE Unresolved(r)
  BY <1>1, <1>7, SkipKeeps, MissKept DEF Unresolved
<1>8. CASE RecordMiss(r)
  <2>1. "notFound" \in Replies
    BY DEF Replies
  <2>2. WalksOK'
    BY <1>1, <1>8, <2>1, ReplyKeeps DEF RecordMiss
  <2>3. missed' \in {missed, 0} /\ UNCHANGED <<env, cached>>
    BY <1>8 DEF RecordMiss
  <2> QED BY <2>2, <2>3, MissKept
<1> QED BY <1>2, <1>3, <1>4, <1>5, <1>6, <1>7, <1>8 DEF WalkStep

-----------------------------------------------------------------------------
(* The clock, the cleanup and the world outside.                            *)

\* An age counts up to its bound.
LEMMA OlderIs ==
    ASSUME NEW ttl \in Nat \ {0}, NEW age \in 0..ttl
    PROVE  /\ Older(age, ttl) \in 0..ttl /\ Older(age, ttl) # 0
           /\ Older(age, ttl) = ttl \/ Older(age, ttl) = age + 1
           /\ Older(age, ttl) <= age + 1
BY DEF Older

LEMMA ClockKeeps == ASSUME WalkInv, Clock PROVE WalkInv' /\ ~(missed' = 0 /\ missed # 0)
<1>1. /\ MissTTL \in Nat \ {0} /\ ListTTL \in Nat \ {0} /\ Nothing \notin CachedLists
      /\ Nothing \notin Nat
  BY WalkAssumption DEF WalkAssumption
<1>2. OutsideOK /\ WalksOK /\ UNCHANGED <<up, settled, holds, lists, rq>>
  BY DEF WalkInv, Clock
<1>3. missed' \in 0..MissTTL \cup {Nothing} /\ missed' # 0
  <2>1. CASE missed = Nothing
    BY <1>1, <2>1 DEF Clock
  <2>2. CASE missed # Nothing
    <3>1. missed \in 0..MissTTL /\ missed' = Older(missed, MissTTL)
      BY <1>2, <2>2 DEF OutsideOK, Clock
    <3> QED BY <1>1, <3>1, OlderIs
  <2> QED BY <2>1, <2>2
<1>4. doubt \in 0..ListTTL /\ doubt' \in 0..ListTTL /\ (~up' => doubt' = 0)
      /\ (doubt' # 0 => doubt' <= doubt + 1)
  <2>1. doubt \in 0..ListTTL /\ up' = up /\ doubt' = IF up THEN Older(doubt, ListTTL) ELSE 0
    BY <1>2 DEF OutsideOK, Clock
  <2>2. Older(doubt, ListTTL) \in 0..ListTTL /\ Older(doubt, ListTTL) <= doubt + 1
    BY <1>1, <2>1, OlderIs
  <2>3. 0 \in 0..ListTTL
    BY <1>1
  <2> QED BY <2>1, <2>2, <2>3
<1>5. ASSUME NEW a \in Authors
      PROVE  /\ cached'[a] \in CachedLists \cup {Nothing}
             /\ cached'[a] # Nothing =>
                  /\ cached[a] # Nothing /\ cached'[a].servers = cached[a].servers
                  /\ \/ cached'[a].age = ListTTL
                     \/ cached'[a].age = cached[a].age + 1
                  /\ cached[a].age \in 0..ListTTL
  <2>1. cached[a] \in CachedLists \cup {Nothing}
    BY <1>2 DEF OutsideOK
  <2>2. cached'[a] = IF cached[a] = Nothing THEN Nothing
                     ELSE [cached[a] EXCEPT !.age = Older(@, ListTTL)]
    BY DEF Clock
  <2>3. CASE cached[a] = Nothing
    BY <2>2, <2>3
  <2>4. CASE cached[a] # Nothing
    <3> DEFINE c == cached[a]
               d == cached'[a]
    <3>1. c \in CachedLists /\ c.age \in 0..ListTTL /\ c.servers \in Seq(Hint)
      BY <2>1, <2>4 DEF CachedLists
    <3>2. d = [c EXCEPT !.age = Older(c.age, ListTTL)]
      BY <2>2, <2>4
    <3>3. Older(c.age, ListTTL) \in 0..ListTTL
          /\ (Older(c.age, ListTTL) = ListTTL \/ Older(c.age, ListTTL) = c.age + 1)
      BY <1>1, <3>1, OlderIs
    <3> HIDE DEF c, d
    <3>4. d \in CachedLists /\ d.servers = c.servers /\ d.age = Older(c.age, ListTTL)
      BY <3>1, <3>2, <3>3 DEF CachedLists
    <3>5. c # Nothing
      BY <1>1, <3>1
    <3> QED BY <3>1, <3>3, <3>4, <3>5 DEF c, d
  <2> QED BY <2>3, <2>4
<1>6. cached' \in [Authors -> CachedLists \cup {Nothing}]
  <2> DEFINE new(a) == IF cached[a] = Nothing THEN Nothing
                       ELSE [cached[a] EXCEPT !.age = Older(@, ListTTL)]
  <2>1. cached' = [a \in Authors |-> new(a)]
    BY DEF Clock
  <2> HIDE DEF new
  <2> QED BY <1>5, <2>1
<1>7. OutsideOK'
  <2>1. \A a \in Authors : cached'[a] # Nothing => cached'[a].servers \in DOMAIN UserServers
    BY <1>2, <1>5 DEF OutsideOK
  <2> QED BY <1>2, <1>3, <1>4, <1>6, <2>1 DEF OutsideOK
<1>8. ASSUME NEW a \in Authors PROVE ListOK(a)'
  <2> SUFFICES ASSUME cached'[a] # Nothing, cached'[a].age < doubt'
               PROVE  cached'[a].servers = HttpServers(lists[a])
    BY <1>2 DEF ListOK
  <2>1. cached'[a].age = cached[a].age + 1 /\ cached[a].age \in Nat /\ doubt \in Nat
    BY <1>1, <1>4, <1>5
  <2>2. doubt' # 0 /\ doubt' <= doubt + 1
    BY <1>4, <2>1
  <2>3. cached[a].age < doubt
    BY <1>4, <2>1, <2>2
  <2> QED BY <1>5, <2>3 DEF WalkInv, ListOK
<1>9. WalksOK'
  BY <1>2 DEF WalksOK
<1> QED BY <1>3, <1>7, <1>8, <1>9 DEF WalkInv

LEMMA CleanupKeeps ==
    ASSUME WalkInv, CleanupCaches PROVE WalkInv' /\ ~(missed' = 0 /\ missed # 0)
<1>1. OutsideOK /\ WalksOK /\ UNCHANGED <<up, settled, holds, lists, doubt, rq>>
  BY DEF WalkInv, CleanupCaches, env
<1>2. missed' \in {missed, Nothing} /\ Nothing # 0
  BY WalkAssumption DEF CleanupCaches, WalkAssumption
<1>3. /\ cached' \in [Authors -> CachedLists \cup {Nothing}]
      /\ \A a \in Authors : cached'[a] \in {cached[a], Nothing}
  BY <1>1 DEF CleanupCaches, OutsideOK
<1>4. OutsideOK'
  BY <1>1, <1>2, <1>3 DEF OutsideOK
<1>5. \A a \in Authors : ListOK(a)'
  BY <1>1, <1>3 DEF WalkInv, ListOK
<1>6. WalksOK'
  BY <1>1 DEF WalksOK
<1> QED BY <1>2, <1>4, <1>5, <1>6 DEF WalkInv

LEMMA OutsideKeeps == ASSUME WalkInv, Outside PROVE WalkInv'
<1>1. OutsideOK /\ WalksOK /\ UNCHANGED <<missed, cached, rq>>
  BY DEF WalkInv, Outside
<1>2. /\ up' \in BOOLEAN /\ settled' \in BOOLEAN /\ holds' \subseteq PublicHosts
      /\ lists' \in [Authors -> UNION {Lists[a] : a \in Authors}]
      /\ \A a \in Authors : lists'[a] \in Lists[a]
  <2>1. CASE up' = ~up /\ UNCHANGED <<settled, holds, lists>>
    BY <1>1, <2>1 DEF OutsideOK
  <2>2. CASE settled' = TRUE /\ up' = TRUE /\ UNCHANGED <<holds, lists>>
    BY <1>1, <2>2 DEF OutsideOK
  <2>3. CASE \E s \in PublicHosts \ holds :
               holds' = holds \cup {s} /\ UNCHANGED <<up, settled, lists>>
    BY <1>1, <2>3 DEF OutsideOK
  <2>4. CASE \E a \in Authors : \E l \in Lists[a] :
               lists' = [lists EXCEPT ![a] = l] /\ UNCHANGED <<up, settled, holds>>
    BY <1>1, <2>4 DEF OutsideOK
  <2> QED BY <2>1, <2>2, <2>3, <2>4 DEF Outside
<1>3. 0 \in 0..ListTTL /\ doubt \in 0..ListTTL
  BY <1>1, WalkAssumption DEF WalkAssumption, OutsideOK
<1>4. doubt' \in 0..ListTTL /\ (~up' => doubt' = 0) /\ (doubt' # 0 => doubt' = doubt /\ lists' = lists)
  BY <1>3 DEF Outside
<1>5. OutsideOK'
  BY <1>1, <1>2, <1>4 DEF OutsideOK
<1>6. ASSUME NEW a \in Authors PROVE ListOK(a)'
  <2>1. CASE doubt' # 0
    BY <1>1, <1>4, <2>1 DEF WalkInv, ListOK
  <2>2. CASE doubt' = 0
    <3>1. cached[a] # Nothing => cached[a].age \in Nat
      BY <1>1 DEF OutsideOK, CachedLists
    <3>2. cached[a] # Nothing => ~(cached[a].age < 0)
      BY <3>1
    <3> QED BY <1>1, <2>2, <3>2 DEF ListOK
  <2> QED BY <2>1, <2>2
<1>7. WalksOK'
  BY <1>1 DEF WalksOK
<1> QED BY <1>5, <1>6, <1>7 DEF WalkInv

LEMMA WalkBegins == ASSUME WalkInit PROVE WalkInv
<1>1. ListTTL \in Nat /\ \A a \in Authors : << >> \in Lists[a]
  BY WalkAssumption DEF WalkAssumption
<1>2. lists \in [Authors -> UNION {Lists[a] : a \in Authors}] /\ \A a \in Authors : lists[a] \in Lists[a]
  <2>1. lists = [a \in Authors |-> << >>]
    BY DEF WalkInit
  <2>2. \A a \in Authors : << >> \in UNION {Lists[b] : b \in Authors}
    BY <1>1
  <2> QED BY <1>1, <2>1, <2>2
<1>3. cached = [a \in Authors |-> Nothing]
  BY DEF WalkInit
<1>4. OutsideOK
  <2>1. /\ up = TRUE /\ settled = FALSE /\ holds = {} /\ missed = Nothing
        /\ doubt \in 0..ListTTL
    BY <1>1 DEF WalkInit
  <2>2. \A a \in Authors : cached[a] = Nothing
    BY <1>3
  <2>3. cached \in [Authors -> CachedLists \cup {Nothing}]
    BY <1>3
  <2> QED BY <1>2, <2>1, <2>2, <2>3 DEF OutsideOK
<1>5. \A a \in Authors : ListOK(a)
  BY <1>3 DEF ListOK
<1>6. WalkOK(Idle) /\ Idle \in WalkType
  <2>1. "none" \in Replies
    BY DEF Replies
  <2>2. WalkOK(Idle)
    BY <2>1, IdleIs
  <2> QED BY <2>2 DEF WalkOK
<1>7. WalksOK
  BY <1>6 DEF WalkInit, WalksOK
<1> QED BY <1>4, <1>5, <1>7 DEF WalkInv

\* The walk of a request at every step of the whole.
LEMMA WalksKeep == ASSUME WalkInv, [Next]_servingVars PROVE WalkInv'
<1>1. WalksOK
  BY DEF WalkInv
<1>2. ASSUME NEW r \in Requests, Arrive(r) PROVE WalkInv'
  <2>1. rq' = [rq EXCEPT ![r] = [Idle EXCEPT !.pc = "resolve"]] /\ UNCHANGED <<env, missed, cached>>
    BY <1>2 DEF Arrive
  <2>2. WalkOK([Idle EXCEPT !.pc = "resolve"])
    <3>1. "none" \in Replies
      BY DEF Replies
    <3> QED BY <3>1, IdleIs
  <2>3. WalksOK'
    BY <1>1, <2>1, <2>2, OneWalk
  <2> QED BY <2>1, <2>3, MissKept
<1>3. ASSUME NEW r \in Requests, ResolveIndex(r) PROVE WalkInv'
  <2>1. (\E pc \in {"served", "open"} : Goto(r, pc)) \/ Reply(r, "unavailable")
    BY <1>3 DEF ResolveIndex, BucketFails
  <2>2. UNCHANGED <<env, missed, cached>>
    BY <1>3 DEF ResolveIndex
  <2>3. {"served", "open"} \subseteq Steps /\ "unavailable" \in Replies
    BY DEF Steps, Replies
  <2>4. WalksOK'
    BY <1>1, <2>1, <2>3, GotoKeeps, ReplyKeeps
  <2> QED BY <2>2, <2>4, MissKept
<1>4. ASSUME NEW r \in Requests, ResolveServed(r) PROVE WalkInv'
  <2>1. PICK pc \in {"plan", "open"} : Goto(r, pc)
    BY <1>4 DEF ResolveServed
  <2>2. UNCHANGED <<env, missed, cached>>
    BY <1>4 DEF ResolveServed
  <2>3. WalksOK'
    BY <1>1, <2>1, GotoKeeps DEF Steps
  <2> QED BY <2>2, <2>3, MissKept
<1>5. ASSUME NEW r \in Requests, Open(r) PROVE WalkInv'
  <2>1. /\ Reply(r, "local") \/ Reply(r, "unavailable")
        /\ UNCHANGED <<env, missed, cached>> /\ {"local", "unavailable"} \subseteq Replies
    BY <1>5 DEF Open, Deliver, BucketFails, Replies
  <2>2. WalksOK'
    BY <1>1, <2>1, ReplyKeeps
  <2> QED BY <2>1, <2>2, MissKept
<1>6. ASSUME NEW r \in Requests, WalkStep(r) PROVE WalkInv'
  BY <1>6, WalkStepKeeps
<1>7. CASE UNCHANGED walkVars
  <2>1. UNCHANGED <<env, missed, cached, rq>>
    BY <1>7 DEF walkVars, env
  <2>2. WalksOK'
    BY <1>1, <2>1 DEF WalksOK
  <2> QED BY <2>1, <2>2, MissKept
<1>8. Refresh \/ DirChanges \/ StoreChanges => UNCHANGED walkVars
  BY DEF Refresh, DirChanges, StoreChanges, Collect, HashFile, StatFile, IoFailure, Swap, GiveUp,
         requests
<1>9. UNCHANGED servingVars => UNCHANGED walkVars
  BY DEF servingVars
<1> QED BY <1>2, <1>3, <1>4, <1>5, <1>6, <1>7, <1>8, <1>9, ClockKeeps, CleanupKeeps, OutsideKeeps
        DEF Next, ServeStep, TimePasses, CachesCleaned, OutsideHere

LEMMA WalksAreOK == Spec => []WalkInv
<1>1. ServingInit => WalkInv
  BY WalkBegins DEF ServingInit
<1>2. WalkInv /\ [Next]_servingVars => WalkInv'
  BY WalksKeep
<1> QED BY <1>1, <1>2, PTL DEF Spec

\* Every walk asks the servers of its plan once and in order, none in a way that the
\* check of its URL forbids, and when it has failed for no fault of the network, all of
\* them that it may (Walk::next, plan, resolve_public_target).
THEOREM WalksAreExact == Spec => []WalkIsExact
<1>1. ASSUME WalkInv PROVE WalkIsExact
  <2>1. \A r \in Requests : WalkOK(rq[r]) /\ rq[r] \in WalkType
    BY <1>1 DEF WalkInv, WalksOK
  <2>2. AskedOnceInOrder
    <3> SUFFICES ASSUME NEW r \in Requests, NEW i \in DOMAIN rq[r].asked,
                        NEW j \in DOMAIN rq[r].asked, i < j
                 PROVE  /\ rq[r].asked[i].url # rq[r].asked[j].url
                        /\ rq[r].asked[i].tier <= rq[r].asked[j].tier
      BY DEF AskedOnceInOrder
    <3>1. rq[r].asked \in Seq(Entry)
      BY <2>1 DEF WalkType
    <3>2. i \in Nat /\ j \in Nat /\ i # j
      BY <3>1
    <3> QED BY <2>1, <3>2 DEF WalkOK, Rising
  <2>3. WalkIsComplete
    <3> DEFINE Named(r) == Range(rq[r].plan.origin) \cup Range(rq[r].plan.xs) \cup Range(Configured)
               Asked(r, h, s) == \E i \in DOMAIN rq[r].asked :
                                    rq[r].asked[i].url = [h EXCEPT !.scheme = s]
    <3> SUFFICES \A r \in Requests : rq[r].pc = "failed" /\ rq[r].whole =>
                   \A h \in Named(r) : \A s \in {"http", "https"} :
                      h.scheme \in {s, "none"} /\ Allowed([h EXCEPT !.scheme = s])
                        => Asked(r, h, s)
      BY DEF WalkIsComplete
    <3> HIDE DEF Asked, Named
    <3> SUFFICES ASSUME NEW r \in Requests, rq[r].pc = "failed", rq[r].whole,
                        NEW h \in Named(r), NEW s \in {"http", "https"},
                        h.scheme \in {s, "none"}, Allowed([h EXCEPT !.scheme = s])
                 PROVE  Asked(r, h, s)
      OBVIOUS
    <3> USE DEF Asked, Named
    <3> DEFINE u == [h EXCEPT !.scheme = s]
    <3>1. h \in Hint
      <4>1. /\ rq[r].plan.origin \in Seq(Hint) /\ rq[r].plan.xs \in Seq(Hint)
            /\ Configured \in Seq(Hint)
        BY <2>1, WalkAssumption DEF WalkType, Plans, WalkAssumption
      <4> QED BY <4>1 DEF Range
    <3>2. u \in Hint /\ u.scheme = s /\ u.scheme # "none" /\ Allowed(u)
      BY <3>1 DEF Hint
    <3>3. u = [h EXCEPT !.scheme = u.scheme]
      BY <3>2
    <3> HIDE DEF u
    <3>4. u \in Wanted(rq[r].plan)
      BY <3>2, <3>3 DEF Wanted
    <3>5. u \in rq[r].tried
      BY <2>1, <3>4 DEF WalkOK, Awaited
    <3> QED BY <2>1, <3>5 DEF WalkOK, u
  <2>4. AskedAsAllowed
    BY <2>1 DEF WalkOK, AskedAsAllowed
  <2> QED BY <2>2, <2>3, <2>4 DEF WalkIsExact
<1> QED BY <1>1, WalksAreOK, PTL

\* What a request's step leaves to the others, and which step takes a list.
LEMMA OthersWait ==
    ASSUME WalksOK, NEW r \in Requests, Arrive(r) \/ ServeStep(r)
    PROVE  /\ \A s \in Requests \ {r} : rq'[s] = rq[s]
           /\ rq[r].pc = "list" => TakeUserServers(r)
<1>1. rq \in [Requests -> WalkType]
  BY DEF WalksOK
<1>2. CASE Arrive(r)
  BY <1>1, <1>2 DEF Arrive
<1>3. CASE ResolveIndex(r) \/ ResolveServed(r) \/ Open(r)
  BY <1>1, <1>3 DEF ResolveIndex, ResolveServed, Open, Deliver, BucketFails, Goto, Reply
<1>4. CASE ResolveUpstream(r)
  <2>1. rq[r].pc # "list" /\ \E v : rq' = [rq EXCEPT ![r] = v]
    BY <1>4 DEF ResolveUpstream, Reply, Starts
  <2> QED BY <1>1, <2>1
<1>5. CASE NextCandidate(r)
  BY <1>1, <1>5 DEF NextCandidate
<1>6. CASE Exhausted(r)
  BY <1>1, <1>6 DEF Exhausted
<1>7. CASE TakeUserServers(r)
  <2>1. \/ \E servers : GoOn(r, servers)
        \/ rq' = [rq EXCEPT ![r].pc = "failed", ![r].whole = FALSE]
    BY <1>7 DEF TakeUserServers
  <2> QED BY <1>1, <1>7, <2>1 DEF GoOn
<1>8. CASE Ask(r)
  BY <1>1, <1>8 DEF Ask, Reply, Goto
<1>9. CASE RecordMiss(r)
  BY <1>1, <1>9 DEF RecordMiss, Reply
<1>10. CASE Unresolved(r)
  BY <1>1, <1>10 DEF Unresolved
<1> QED BY <1>2, <1>3, <1>4, <1>5, <1>6, <1>7, <1>8, <1>9, <1>10 DEF ServeStep, WalkStep

LEMMA OnlyWalksMiss ==
    ASSUME WalkInv, [Next]_servingVars, missed' = 0, missed # 0
    PROVE  \E r \in Requests : RecordMiss(r)
<1>1. ASSUME NEW r \in Requests, Arrive(r) \/ ServeStep(r) PROVE RecordMiss(r)
  <2>1. missed' = missed \/ RecordMiss(r)
    BY <1>1 DEF Arrive, ServeStep, WalkStep, ResolveIndex, ResolveServed, Open, ResolveUpstream,
               NextCandidate, Unresolved, Exhausted, TakeUserServers, Ask
  <2> QED BY <2>1
<1>2. ~(Refresh \/ DirChanges \/ StoreChanges)
  BY DEF Refresh, DirChanges, StoreChanges, Collect, HashFile, StatFile, IoFailure, Swap, GiveUp,
         requests, walkVars
<1>3. ~TimePasses /\ ~CachesCleaned
  BY ClockKeeps, CleanupKeeps DEF TimePasses, CachesCleaned
<1>4. ~OutsideHere /\ ~UNCHANGED servingVars
  BY DEF OutsideHere, Outside, servingVars, walkVars
<1> QED BY <1>1, <1>2, <1>3, <1>4 DEF Next

\* A list is taken by the request itself, and the others' steps leave it alone.
LEMMA OnlyTakersTake ==
    ASSUME WalkInv, [Next]_servingVars, NEW r \in Requests, rq[r].pc = "list",
           rq'[r].pc # "list"
    PROVE  TakeUserServers(r)
<1>1. ASSUME NEW s \in Requests, Arrive(s) \/ ServeStep(s) PROVE TakeUserServers(r)
  <2>1. WalksOK
    BY DEF WalkInv
  <2>2. s = r
    BY <1>1, <2>1, OthersWait
  <2> QED BY <1>1, <2>1, <2>2, OthersWait
<1>2. ~(Refresh \/ DirChanges \/ StoreChanges)
  BY DEF Refresh, DirChanges, StoreChanges, Collect, HashFile, StatFile, IoFailure, Swap, GiveUp,
         requests, walkVars
<1>3. ~TimePasses /\ ~CachesCleaned /\ ~OutsideHere /\ ~UNCHANGED servingVars
  BY DEF TimePasses, CachesCleaned, OutsideHere, Clock, CleanupCaches, Outside, servingVars,
         walkVars
<1> QED BY <1>1, <1>2, <1>3 DEF Next

\* A miss is put down only by a walk of servers the client did not choose, and no
\* request goes on with a list that was replaced longer ago than a list may be kept
\* (names_specific_servers, fetch_user_server_list).
THEOREM CachesStayHonest == Spec => CachesAreHonest
<1> DEFINE Proven == \E r \in Requests :
                        /\ rq[r].pc = "failed" /\ rq'[r].pc = "idle"
                        /\ \A i \in DOMAIN rq[r].asked : rq[r].asked[i].tier \in {3, 4}
           Current(r) == rq[r].pc = "list" /\ rq'[r].pc # "list" /\ rq'[r].whole =>
                           \/ doubt < ListTTL
                           \/ rq'[r].pending = UserServers[HttpServers(lists[rq[r].plan.author])]
<1>1. ASSUME WalkInv, [Next]_servingVars PROVE [missed' = 0 /\ missed # 0 => Proven]_missed
  <2> SUFFICES ASSUME missed' = 0, missed # 0 PROVE Proven
    OBVIOUS
  <2>1. PICK r \in Requests : RecordMiss(r)
    BY <1>1, OnlyWalksMiss
  <2>2. WalksOK /\ WalkOK(rq[r])
    BY <1>1 DEF WalkInv, WalksOK
  <2>3. "notFound" \in Replies
    BY DEF Replies
  <2>4. rq'[r].pc = "idle" /\ rq[r].pc = "failed"
    BY <2>1, <2>2, <2>3, ReplyKeeps DEF RecordMiss
  <2>5. ~NamesServers(rq[r].plan)
    BY <2>1 DEF RecordMiss
  <2> QED BY <2>2, <2>4, <2>5 DEF WalkOK
<1>2. ASSUME WalkInv, [Next]_servingVars PROVE [\A r \in Requests : Current(r)]_rq
  <2>1. ASSUME NEW r \in Requests PROVE Current(r)
    <3> SUFFICES ASSUME rq[r].pc = "list", rq'[r].pc # "list", rq'[r].whole
                 PROVE  \/ doubt < ListTTL
                        \/ rq'[r].pending = UserServers[HttpServers(lists[rq[r].plan.author])]
      OBVIOUS
    <3>1. TakeUserServers(r)
      BY <1>2, OnlyTakersTake
    <3> QED BY <1>2, <3>1, TakeKeeps
  <2> QED BY <2>1
<1>3. WalkInv /\ [Next]_servingVars => [missed' = 0 /\ missed # 0 => Proven]_missed
  BY <1>1
<1>4. WalkInv /\ [Next]_servingVars => [\A r \in Requests : Current(r)]_rq
  BY <1>2
<1>5. Spec => [][missed' = 0 /\ missed # 0 => Proven]_missed
  BY <1>3, WalksAreOK, PTL DEF Spec
<1>6. Spec => [][\A r \in Requests : Current(r)]_rq
  BY <1>4, WalksAreOK, PTL DEF Spec
<1> QED BY <1>5, <1>6 DEF CachesAreHonest, MissIsNotChosen, ListsAreCurrent

-----------------------------------------------------------------------------
(* A response.                                                              *)

\* What a Range header selects is what the parser says.
LEMMA ParseIs ==
    ASSUME NEW range \in RangeHeader, NEW size \in Nat
    PROVE  LET p == ParseRange(range, size) IN
           \/ p = Ignore /\ Selected(range, size) = 0..size - 1
           \/ p = Unsatisfiable /\ Selected(range, size) = {}
           \/ \E start, end \in Nat :
                /\ p = Satisfiable(start, end) /\ start <= end /\ end < size
                /\ Selected(range, size) = start..end
<1> DEFINE p == ParseRange(range, size)
           chosen == Selected(range, size)
           Fits(start, end) == /\ p = Satisfiable(start, end) /\ start <= end /\ end < size
                               /\ start \in Nat /\ end \in Nat
                               /\ chosen = start..end
<1>1. /\ range.form \in {"suffix", "from"} => range.n \in Nat
      /\ range.form = "range" => range.n \in Nat /\ range.last \in Nat
  <2>1. Numbers \subseteq Nat
    BY ServingAssumption DEF ServingAssumption
  <2>2. CASE range \in {[form |-> "none"], [form |-> "bad"]}
    BY <2>2
  <2>3. CASE range \in [form : {"suffix", "from"}, n : Numbers]
    BY <2>1, <2>3
  <2>4. CASE range \in [form : {"range"}, n : Numbers, last : Numbers]
    BY <2>1, <2>4
  <2> QED BY <2>2, <2>3, <2>4 DEF RangeHeader, NoRange
<1>2. CASE range.form \in {"none", "bad"}
  <2>1. p = Ignore
    BY <1>2 DEF ParseRange
  <2>2. chosen = 0..size - 1
    BY <1>2 DEF Selected
  <2> QED BY <2>1, <2>2
<1>3. CASE range.form \notin {"none", "bad"} /\ size = 0
  <2>1. p = Unsatisfiable
    BY <1>3 DEF ParseRange
  <2>2. chosen = {}
    BY <1>3 DEF Selected
  <2> QED BY <2>1, <2>2
<1>4. CASE range.form = "suffix" /\ size > 0
  <2>1. range.n \in Nat
    BY <1>1, <1>4
  <2> DEFINE start == IF range.n < size THEN size - range.n ELSE 0
  <2>2. p = IF range.n = 0 THEN Unsatisfiable ELSE Satisfiable(start, size - 1)
    BY <1>4 DEF ParseRange
  <2>3. chosen = {k \in 0..size - 1 : k >= size - range.n}
    BY <1>4 DEF Selected
  <2>4. CASE range.n = 0
    <3>1. chosen = {}
      BY <2>3, <2>4
    <3> QED BY <2>2, <2>4, <3>1
  <2>5. CASE range.n # 0
    <3>1. start \in Nat /\ start <= size - 1 /\ size - 1 \in Nat /\ size - 1 < size
      BY <1>4, <2>1, <2>5
    <3>2. chosen = start..(size - 1)
      BY <1>4, <2>1, <2>3, <2>5
    <3> QED BY <2>2, <2>5, <3>1, <3>2
  <2> QED BY <2>4, <2>5
<1>5. CASE range.form = "from" /\ size > 0
  <2>1. range.n \in Nat
    BY <1>1, <1>5
  <2>2. p = IF range.n >= size THEN Unsatisfiable ELSE Satisfiable(range.n, size - 1)
    BY <1>5 DEF ParseRange
  <2>3. chosen = {k \in 0..size - 1 : k >= range.n}
    BY <1>5 DEF Selected
  <2>4. CASE range.n >= size
    <3>1. chosen = {}
      BY <2>1, <2>3, <2>4
    <3> QED BY <2>2, <2>4, <3>1
  <2>5. CASE ~(range.n >= size)
    <3>1. range.n <= size - 1 /\ size - 1 \in Nat /\ size - 1 < size
      BY <1>5, <2>1, <2>5
    <3>2. chosen = range.n..(size - 1)
      BY <2>1, <2>3, <2>5
    <3> QED BY <2>1, <2>2, <2>5, <3>1, <3>2
  <2> QED BY <2>4, <2>5
<1>6. CASE range.form = "range" /\ size > 0
  <2>1. range.n \in Nat /\ range.last \in Nat
    BY <1>1, <1>6
  <2> DEFINE end == Min2(range.last, size - 1)
  <2>2. p = IF range.n >= size \/ range.n > range.last THEN Unsatisfiable
            ELSE Satisfiable(range.n, end)
    BY <1>6 DEF ParseRange
  <2>3. chosen = {k \in 0..size - 1 : range.n <= k /\ k <= range.last}
    BY <1>6 DEF Selected
  <2>4. CASE range.n >= size \/ range.n > range.last
    <3>1. chosen = {}
      BY <2>1, <2>3, <2>4
    <3> QED BY <2>2, <2>4, <3>1
  <2>5. CASE ~(range.n >= size \/ range.n > range.last)
    <3>1. end \in Nat /\ range.n <= end /\ end < size
      BY <1>6, <2>1, <2>5 DEF Min2
    <3>2. chosen = range.n..end
      BY <1>6, <2>1, <2>3, <2>5 DEF Min2
    <3> QED BY <2>1, <2>2, <2>5, <3>1, <3>2
  <2> QED BY <2>4, <2>5
<1>7. range.form \in {"none", "bad", "suffix", "from", "range"} /\ (size = 0 \/ size > 0)
  BY DEF RangeHeader, NoRange
<1> QED BY <1>2, <1>3, <1>4, <1>5, <1>6, <1>7

LEMMA SizeIs == Size \in Nat /\ Blob \in Seq(Nat) /\ DOMAIN Blob = 1..Size
BY ServingAssumption DEF ServingAssumption, Size

LEMMA SomeBytes ==
    ASSUME NEW start \in Nat, NEW end \in Nat, start <= end, end < Size
    PROVE  SubSeq(Blob, start + 1, end + 1)
             = [i \in 1..end - start + 1 |-> Blob[start + i]]
<1>1. SubSeq(Blob, start + 1, end + 1)
        = [i \in 1..(end + 1) - (start + 1) + 1 |-> Blob[(start + 1) + i - 1]]
  BY SizeIs
<1>2. (end + 1) - (start + 1) + 1 = end - start + 1
  OBVIOUS
<1>3. \A i \in 1..end - start + 1 : (start + 1) + i - 1 = start + i
  OBVIOUS
<1> QED BY <1>1, <1>2, <1>3

\* The response to a request whose range selects the bytes from start to end, all of
\* the blob, or none of it.
LEMMA RangeResponseIs ==
    ASSUME NEW h \in Headers
    PROVE  LET a == RangeResponse(h, Blob)
               range == IF h.ifRange = "other" THEN NoRange ELSE h.range
               wanted == Selected(range, Size)
           IN  \/ a.status = 200 /\ a.start = 0 /\ a.total = Size /\ a.body = Blob
                  /\ wanted = 0..Size - 1
               \/ a.status = 416 /\ a.total = Size /\ wanted = {}
               \/ \E start, end \in Nat :
                    /\ a.status = 206 /\ a.total = Size /\ a.start = start
                    /\ a.length = end - start + 1
                    /\ a.body = [i \in 1..end - start + 1 |-> Blob[start + i]]
                    /\ start <= end /\ end < Size /\ wanted = start..end
<1> DEFINE a == RangeResponse(h, Blob)
           range == IF h.ifRange = "other" THEN NoRange ELSE h.range
           wanted == Selected(range, Size)
           p == IF h.ifRange = "other" THEN Ignore ELSE ParseRange(h.range, Size)
<1>1. Size \in Nat /\ Len(Blob) = Size /\ h.range \in RangeHeader
  BY SizeIs DEF Headers, Size
<1>2. \/ p = Ignore /\ wanted = 0..Size - 1
      \/ p = Unsatisfiable /\ wanted = {}
      \/ \E start, end \in Nat :
           /\ p = Satisfiable(start, end) /\ start <= end /\ end < Size
           /\ wanted = start..end
  <2>1. CASE h.ifRange = "other"
    <3>1. Selected(NoRange, Size) = 0..Size - 1
      BY <1>1 DEF Selected, NoRange
    <3> QED BY <2>1, <3>1
  <2>2. CASE h.ifRange # "other"
    <3>1. p = ParseRange(h.range, Size) /\ wanted = Selected(h.range, Size)
      BY <2>2
    <3> HIDE DEF p, wanted
    <3> QED BY <1>1, <3>1, ParseIs
  <2> QED BY <2>1, <2>2
<1>3. a = CASE p.spec = "satisfiable" ->
                 [status |-> 206, start |-> p.start, total |-> Size,
                  length |-> p.end - p.start + 1,
                  body |-> SubSeq(Blob, p.start + 1, p.end + 1)]
            [] p.spec = "unsatisfiable" -> [status |-> 416, total |-> Size]
            [] p.spec = "ignore" ->
                 [status |-> 200, start |-> 0, total |-> Size, length |-> Size,
                  body |-> Blob]
  BY DEF RangeResponse, Size
<1> HIDE DEF a, p, wanted
<1>4. CASE p = Ignore /\ wanted = 0..Size - 1
  <2>1. p.spec = "ignore"
    BY <1>4 DEF Ignore
  <2>2. a = [status |-> 200, start |-> 0, total |-> Size, length |-> Size, body |-> Blob]
    BY <1>3, <2>1
  <2> QED BY <1>4, <2>2 DEF a, wanted
<1>5. CASE p = Unsatisfiable /\ wanted = {}
  <2>1. p.spec = "unsatisfiable"
    BY <1>5 DEF Unsatisfiable
  <2>2. a = [status |-> 416, total |-> Size]
    BY <1>3, <2>1
  <2> QED BY <1>5, <2>2 DEF a, wanted
<1>6. ASSUME NEW start \in Nat, NEW end \in Nat, p = Satisfiable(start, end), start <= end,
             end < Size, wanted = start..end
      PROVE  /\ a.status = 206 /\ a.total = Size /\ a.start = start
             /\ a.length = end - start + 1
             /\ a.body = [i \in 1..end - start + 1 |-> Blob[start + i]]
  <2>1. p.spec = "satisfiable" /\ p.start = start /\ p.end = end
    BY <1>6 DEF Satisfiable
  <2>2. a = [status |-> 206, start |-> start, total |-> Size, length |-> end - start + 1,
             body |-> SubSeq(Blob, start + 1, end + 1)]
    BY <1>3, <2>1
  <2>3. SubSeq(Blob, start + 1, end + 1) = [i \in 1..end - start + 1 |-> Blob[start + i]]
    BY <1>6, SomeBytes
  <2> QED BY <2>2, <2>3
<1>7. \/ a.status = 200 /\ a.start = 0 /\ a.total = Size /\ a.body = Blob /\ wanted = 0..Size - 1
      \/ a.status = 416 /\ a.total = Size /\ wanted = {}
      \/ \E start, end \in Nat :
           /\ a.status = 206 /\ a.total = Size /\ a.start = start
           /\ a.length = end - start + 1
           /\ a.body = [i \in 1..end - start + 1 |-> Blob[start + i]]
           /\ start <= end /\ end < Size /\ wanted = start..end
  <2>1. CASE \E start, end \in Nat :
               /\ p = Satisfiable(start, end) /\ start <= end /\ end < Size
               /\ wanted = start..end
    <3>1. PICK start \in Nat, end \in Nat : /\ p = Satisfiable(start, end) /\ start <= end
                                            /\ end < Size /\ wanted = start..end
      BY <2>1
    <3>2. /\ a.status = 206 /\ a.total = Size /\ a.start = start
          /\ a.length = end - start + 1
          /\ a.body = [i \in 1..end - start + 1 |-> Blob[start + i]]
      BY <1>6, <3>1
    <3> QED BY <3>1, <3>2
  <2>2. CASE p = Ignore /\ wanted = 0..Size - 1
    BY <1>4, <2>2 DEF a, wanted
  <2>3. CASE p = Unsatisfiable /\ wanted = {}
    BY <1>5, <2>3 DEF a, wanted
  <2> QED BY <1>2, <2>1, <2>2, <2>3
<1> QED BY <1>7 DEF a, wanted

LEMMA AnswerIs == ASSUME NEW h \in Headers PROVE Exact(Respond(h, Blob), h)
<1> DEFINE a == RangeResponse(h, Blob)
           wanted == Selected(IF h.ifRange = "other" THEN NoRange ELSE h.range, Size)
<1>1. CASE h.ifNoneMatch = "match"
  <2>1. Respond(h, Blob) = [status |-> 304]
    BY <1>1 DEF Respond
  <2> QED BY <2>1 DEF Exact
<1>2. CASE h.ifNoneMatch # "match" /\ h.method = "HEAD"
  <2>1. Respond(h, Blob) = [status |-> 200, total |-> Size]
    BY <1>2 DEF Respond
  <2> QED BY <1>2, <2>1 DEF Exact
<1>3. CASE h.ifNoneMatch # "match" /\ h.method # "HEAD"
  <2>1. Respond(h, Blob) = a
    BY <1>3 DEF Respond
  <2>2. \/ a.status = 200 /\ a.start = 0 /\ a.total = Size /\ a.body = Blob
           /\ wanted = 0..Size - 1
        \/ a.status = 416 /\ a.total = Size /\ wanted = {}
        \/ \E start, end \in Nat :
             /\ a.status = 206 /\ a.total = Size /\ a.start = start
             /\ a.length = end - start + 1
             /\ a.body = [i \in 1..end - start + 1 |-> Blob[start + i]]
             /\ start <= end /\ end < Size /\ wanted = start..end
    BY RangeResponseIs, Zenon
  <2> HIDE DEF a, wanted
  <2>3. CASE a.status = 200 /\ a.total = Size /\ a.body = Blob /\ wanted = 0..Size - 1
    BY <2>1, <2>3 DEF Exact, wanted
  <2>4. CASE a.status = 416 /\ a.total = Size /\ wanted = {}
    BY <2>1, <2>4 DEF Exact, wanted
  <2>5. ASSUME NEW start \in Nat, NEW end \in Nat,
               a.status = 206, a.total = Size, a.start = start, a.length = end - start + 1,
               a.body = [i \in 1..end - start + 1 |-> Blob[start + i]],
               start <= end, end < Size, wanted = start..end
        PROVE  Exact(a, h)
    <3>1. wanted = a.start..(a.start + a.length - 1) /\ wanted # {}
      <4>1. start + (end - start + 1) - 1 = end /\ start \in start..end
        BY <2>5
      <4> QED BY <2>5, <4>1
    <3>2. a.body = [i \in 1..a.length |-> Blob[a.start + i]]
      BY <2>5
    <3> QED BY <2>5, <3>1, <3>2 DEF Exact, wanted
  <2> QED BY <2>1, <2>2, <2>3, <2>4, <2>5
<1> QED BY <1>1, <1>2, <1>3

-----------------------------------------------------------------------------
(* What is served, and what the clients have.                               *)

\* A path that may hold the blob is never rewritten with other content.
Immutable == \A f \in Files : Blob \in MayHold[f] => MayHold[f] = {Blob}

Names(f) == f # Nothing => f \in Files /\ Blob \in MayHold[f]

ScanType == [pc : {"idle", "hash", "stat", "error"}, todo : SUBSET Files,
             file : Files \cup {Nothing}, next : Files \cup {Nothing}, steady : SUBSET Files]

\* A file that has held the blob since the scan began is still to be looked at, is
\* being looked at, or another was found.
ScanOK ==
    /\ scan \in ScanType
    /\ Names(served) /\ Names(scan.file) /\ Names(scan.next)
    /\ served \in Files \cup {Nothing} /\ known \subseteq Files
    /\ \A f \in scan.steady \cup known : dir[f] = Blob
    /\ scan.pc = "hash" => scan.file = Nothing
    /\ scan.pc = "stat" => scan.file # Nothing
    /\ scan.pc \in {"hash", "stat"} =>
         \A f \in scan.steady : f \in scan.todo \/ scan.file = f \/ scan.next # Nothing
    /\ SteadyIsIndexed

DirOK ==
    /\ people \in Populations /\ stored \in {"none", "disk", "bucket"}
    /\ dir \in [Files -> {Nothing} \cup UNION {MayHold[f] : f \in Files}]
    /\ \A f \in Files : dir[f] \in MayHold[f] \cup {Nothing}

Sources == Files \cup {"disk", "bucket", Nothing}

\* What a client has put together is the beginning of the blob, and what it asks for
\* is the rest; who waits for an answer has none.
DownloadOK(r) ==
    /\ asked[r].source \in Files => Blob \in MayHold[asked[r].source]
    /\ rq[r].pc = "open" => asked[r].source # Nothing
    /\ Is(r, "resumer") /\ rq[r].pc \in {"resolve", "served", "open"} =>
         asked[r].header = Resuming(r)
    /\ Is(r, "prober") \/ answer[r] = NoAnswer
    /\ rq[r].pc \in {"resolve", "served", "open"} => answer[r] = NoAnswer
    /\ Exact(answer[r], asked[r].header)
    /\ \E n \in 0..Size : got[r] = SubSeq(Blob, 1, n)
    /\ total[r] \in {Nothing, Size}

DownloadTypes ==
    /\ asked \in [Requests -> [header : Headers, source : Sources]]
    /\ DOMAIN answer = Requests /\ answer = [r \in Requests |-> answer[r]]
    /\ got \in [Requests -> Seq(Nat)] /\ total \in [Requests -> Nat \cup {Nothing}]

ServeInv ==
    /\ WalkInv /\ DirOK /\ ScanOK
    /\ DownloadTypes /\ \A r \in Requests : DownloadOK(r)

LEMMA ScanKeeps == ASSUME DirOK, ScanOK, Refresh PROVE ScanOK'
<1>1. /\ UNCHANGED dir /\ scan \in ScanType
      /\ \A f \in Files : dir[f] \in MayHold[f] \cup {Nothing}
      /\ Nothing \notin Files /\ Nothing # Blob
  BY ServingAssumption DEF ServingAssumption, DirOK, ScanOK, Refresh, Collect, HashFile, StatFile,
     IoFailure, Swap, GiveUp
<1>2. /\ scan.pc \in {"idle", "hash", "stat", "error"} /\ scan.todo \subseteq Files
      /\ scan.file \in Files \cup {Nothing} /\ scan.next \in Files \cup {Nothing}
      /\ scan.steady \subseteq Files
  BY <1>1 DEF ScanType
<1>3. ASSUME NEW f \in Files, dir[f] = Blob PROVE Names(f)
  BY <1>1, <1>3 DEF Names
<1>4. CASE Collect
  <2> DEFINE found == {f \in Files : dir[f] # Nothing}
             steady == {f \in Files : dir[f] = Blob}
             new == [pc |-> "hash", todo |-> found, file |-> Nothing, next |-> Nothing,
                     steady |-> steady]
  <2>1. scan' = new /\ UNCHANGED <<served, known>>
    BY <1>4 DEF Collect, NoScan
  <2>2. found \subseteq Files /\ steady \subseteq Files /\ steady \subseteq found
    BY <1>1
  <2>3. \A f \in steady : dir[f] = Blob
    OBVIOUS
  <2> HIDE DEF found, steady
  <2>4. new \in ScanType
    BY <2>2 DEF ScanType
  <2> QED BY <1>1, <2>1, <2>2, <2>3, <2>4 DEF ScanOK, Names, SteadyIsIndexed
<1>5. CASE HashFile
  <2>1. scan.pc = "hash" /\ UNCHANGED <<served, known>>
    BY <1>5 DEF HashFile
  <2>2. PICK f \in scan.todo :
          scan' = CASE dir[f] = Nothing -> [scan EXCEPT !.pc = "error"]
                    [] dir[f] = Blob -> [scan EXCEPT !.pc = "stat", !.file = f, !.todo = @ \ {f}]
                    [] OTHER -> [scan EXCEPT !.todo = @ \ {f}]
    BY <1>5 DEF HashFile
  <2>3. CASE dir[f] = Nothing
    <3>1. scan' = [scan EXCEPT !.pc = "error"]
      BY <1>1, <2>2, <2>3
    <3>2. /\ scan' \in ScanType /\ scan'.pc = "error" /\ scan'.file = scan.file
          /\ scan'.next = scan.next /\ scan'.steady = scan.steady
      BY <1>1, <3>1 DEF ScanType
    <3> QED BY <1>1, <2>1, <3>2 DEF ScanOK, SteadyIsIndexed
  <2>4. CASE dir[f] = Blob
    <3>1. scan' = [scan EXCEPT !.pc = "stat", !.file = f, !.todo = @ \ {f}]
      BY <1>1, <2>2, <2>4
    <3>2. /\ scan' \in ScanType /\ scan'.pc = "stat" /\ scan'.file = f /\ f \in Files
          /\ scan'.next = scan.next /\ scan'.steady = scan.steady
          /\ scan'.todo = scan.todo \ {f}
      BY <1>1, <1>2, <3>1 DEF ScanType
    <3>3. Names(f) /\ f # Nothing
      BY <1>1, <1>3, <2>4, <3>2
    <3>4. \A g \in scan.steady : g \in scan.todo \/ scan.next # Nothing
      BY <1>1, <1>2, <2>1 DEF ScanOK
    <3>5. \A g \in scan'.steady : g \in scan'.todo \/ scan'.file = g \/ scan'.next # Nothing
      BY <3>2, <3>4
    <3> QED BY <1>1, <2>1, <3>2, <3>3, <3>5 DEF ScanOK, SteadyIsIndexed
  <2>5. CASE dir[f] # Nothing /\ dir[f] # Blob
    <3>1. scan' = [scan EXCEPT !.todo = @ \ {f}]
      BY <2>2, <2>5
    <3>2. /\ scan' \in ScanType /\ scan'.pc = "hash" /\ scan'.file = scan.file
          /\ scan'.next = scan.next /\ scan'.steady = scan.steady
          /\ scan'.todo = scan.todo \ {f}
      BY <1>1, <1>2, <2>1, <3>1 DEF ScanType
    <3>3. f \notin scan.steady
      BY <2>5 DEF ScanOK
    <3>4. \A g \in scan'.steady : g \in scan'.todo \/ scan'.file = g \/ scan'.next # Nothing
      BY <2>1, <3>2, <3>3 DEF ScanOK
    <3> QED BY <1>1, <2>1, <3>2, <3>4 DEF ScanOK, SteadyIsIndexed
  <2> QED BY <2>3, <2>4, <2>5
<1>6. CASE StatFile
  <2>1. scan.pc = "stat" /\ UNCHANGED <<served, known>> /\ scan.file # Nothing
    BY <1>6 DEF StatFile, ScanOK
  <2>2. CASE scan' = [scan EXCEPT !.pc = "error"]
    <3>1. /\ scan' \in ScanType /\ scan'.pc = "error" /\ scan'.file = scan.file
          /\ scan'.next = scan.next /\ scan'.steady = scan.steady
      BY <1>1, <2>2 DEF ScanType
    <3> QED BY <1>1, <2>1, <3>1 DEF ScanOK, SteadyIsIndexed
  <2>3. CASE scan' = [scan EXCEPT !.pc = "hash", !.next = scan.file, !.file = Nothing]
    <3>1. /\ scan' \in ScanType /\ scan'.pc = "hash" /\ scan'.file = Nothing
          /\ scan'.next = scan.file /\ scan'.steady = scan.steady
      BY <1>1, <1>2, <2>3 DEF ScanType
    <3> QED BY <1>1, <2>1, <3>1 DEF ScanOK, Names, SteadyIsIndexed
  <2> QED BY <1>6, <2>2, <2>3 DEF StatFile
<1>7. CASE IoFailure
  <2>1. /\ scan' \in ScanType /\ scan'.pc = "error" /\ scan'.file = scan.file
        /\ scan'.next = scan.next /\ scan'.steady = scan.steady
    BY <1>1, <1>7 DEF IoFailure, ScanType
  <2> QED BY <1>1, <1>7, <2>1 DEF IoFailure, ScanOK, SteadyIsIndexed
<1>8. NoScan \in ScanType /\ NoScan.pc = "idle" /\ NoScan.file = Nothing
      /\ NoScan.next = Nothing /\ NoScan.steady = {}
  BY DEF NoScan, ScanType
<1>9. CASE Swap
  <2>1. /\ scan.pc = "hash" /\ scan.todo = {} /\ served' = scan.next /\ known' = scan.steady
        /\ scan' = NoScan
    BY <1>9 DEF Swap
  <2>2. known' # {} => served' # Nothing
    <3>1. \A f \in scan.steady : scan.next # Nothing
      BY <1>1, <1>2, <2>1 DEF ScanOK
    <3> QED BY <2>1, <3>1
  <2> QED BY <1>1, <1>2, <1>8, <2>1, <2>2 DEF ScanOK, Names, SteadyIsIndexed
<1>10. CASE GiveUp
  BY <1>1, <1>8, <1>10 DEF GiveUp, ScanOK, Names, SteadyIsIndexed
<1> QED BY <1>4, <1>5, <1>6, <1>7, <1>9, <1>10 DEF Refresh

LEMMA DirKeeps == ASSUME DirOK, ScanOK, DirChanges PROVE DirOK' /\ ScanOK'
<1>1. PICK f \in people.files : \E c \in (MayHold[f] \cup {Nothing}) \ {dir[f]} :
        /\ dir' = [dir EXCEPT ![f] = c]
        /\ scan' = [scan EXCEPT !.steady = @ \ {f}]
        /\ known' = known \ {f}
  BY DEF DirChanges
<1>2. PICK c \in MayHold[f] \cup {Nothing} : dir' = [dir EXCEPT ![f] = c]
  BY <1>1
<1>3. f \in Files /\ UNCHANGED <<people, stored, served>>
  BY ServingAssumption DEF ServingAssumption, DirOK, DirChanges, requests
<1>4. /\ dir' \in [Files -> {Nothing} \cup UNION {MayHold[g] : g \in Files}] /\ dir'[f] = c
      /\ \A g \in Files \ {f} : dir'[g] = dir[g]
  BY <1>2, <1>3 DEF DirOK
<1>5. DirOK'
  BY <1>2, <1>3, <1>4 DEF DirOK
<1>6. /\ scan' \in ScanType /\ scan'.pc = scan.pc /\ scan'.todo = scan.todo
      /\ scan'.file = scan.file /\ scan'.next = scan.next /\ scan'.steady = scan.steady \ {f}
      /\ scan.steady \subseteq Files
  BY <1>1 DEF ScanOK, ScanType
<1>7. known' = known \ {f} /\ known \subseteq Files
  BY <1>1 DEF ScanOK
<1>8. \A g \in scan'.steady \cup known' : dir'[g] = Blob
  BY <1>4, <1>6, <1>7 DEF ScanOK
<1>9. ScanOK'
  BY <1>3, <1>6, <1>7, <1>8 DEF ScanOK, SteadyIsIndexed
<1> QED BY <1>5, <1>9

-----------------------------------------------------------------------------
(* The steps of a request.                                                  *)

\* What a client is to send next is a request of its kind.
LEMMA SentIs ==
    ASSUME NEW r \in Requests, DownloadTypes, DownloadOK(r), NEW h \in MaySend(r)
    PROVE  /\ h \in Headers
           /\ Is(r, "resumer") => h = Resuming(r)
           /\ answer[r] = NoAnswer
<1>1. Plain \in Headers
  BY DEF Plain, Headers, RangeHeader
<1>2. Resuming(r) \in Headers
  <2>1. CASE got[r] = << >>
    BY <1>1, <2>1 DEF Resuming
  <2>2. CASE got[r] # << >>
    <3>1. PICK n \in 0..Size : got[r] = SubSeq(Blob, 1, n)
      BY DEF DownloadOK
    <3>2. Len(got[r]) = n
      BY <3>1, SizeIs
    <3>3. n \in 1..Len(Blob)
      BY <2>2, <3>1, <3>2, SizeIs DEF Size
    <3>4. Len(got[r]) \in Numbers
      BY <3>2, <3>3, ServingAssumption DEF ServingAssumption
    <3>5. [form |-> "from", n |-> Len(got[r])] \in RangeHeader
      BY <3>4 DEF RangeHeader
    <3>6. Resuming(r) = [method |-> "GET", range |-> [form |-> "from", n |-> Len(got[r])],
                         ifRange |-> "match", ifNoneMatch |-> "none"]
      BY <2>2 DEF Resuming, Plain
    <3> QED BY <3>5, <3>6 DEF Headers
  <2> QED BY <2>1, <2>2
<1>3. CASE Is(r, "resumer")
  <2>1. h = Resuming(r) /\ ~Is(r, "prober")
    BY <1>3 DEF MaySend, Is
  <2> QED BY <1>2, <2>1 DEF DownloadOK
<1>4. CASE Is(r, "prober")
  <2>1. h \in Headers /\ answer[r] = NoAnswer /\ ~Is(r, "resumer")
    BY <1>4 DEF MaySend, Is
  <2> QED BY <2>1
<1>5. CASE ~Is(r, "resumer") /\ ~Is(r, "prober")
  <2>1. h = Plain
    BY <1>5 DEF MaySend
  <2> QED BY <1>1, <1>5, <2>1 DEF DownloadOK
<1> QED BY <1>3, <1>4, <1>5

\* The step of one request leaves the others' downloads alone.
LEMMA OneDownload ==
    ASSUME DownloadTypes, \A s \in Requests : DownloadOK(s), UNCHANGED people,
           NEW r \in Requests, DownloadTypes', DownloadOK(r)',
           \A s \in Requests \ {r} : /\ rq'[s] = rq[s] /\ asked'[s] = asked[s]
                                     /\ answer'[s] = answer[s] /\ got'[s] = got[s]
                                     /\ total'[s] = total[s]
    PROVE  \A s \in Requests : DownloadOK(s)'
<1>1. ASSUME NEW s \in Requests \ {r} PROVE DownloadOK(s)'
  <2>1. /\ rq'[s] = rq[s] /\ asked'[s] = asked[s] /\ answer'[s] = answer[s] /\ got'[s] = got[s]
        /\ total'[s] = total[s] /\ people' = people
    OBVIOUS
  <2>2. Resuming(s)' = Resuming(s) /\ \A role : Is(s, role)' <=> Is(s, role)
    BY <2>1 DEF Resuming, Is
  <2>3. DownloadOK(s)
    OBVIOUS
  <2> QED BY <2>1, <2>2, <2>3 DEF DownloadOK
<1> QED BY <1>1

LEMMA ArriveKeeps ==
    ASSUME ServeInv, NEW r \in Requests, Arrive(r)
    PROVE  DownloadTypes' /\ \A s \in Requests : DownloadOK(s)'
<1>1. /\ DownloadTypes /\ (\A s \in Requests : DownloadOK(s)) /\ WalksOK
      /\ UNCHANGED <<people, answer, got, total>>
  BY DEF ServeInv, WalkInv, Arrive
<1>2. PICK h \in MaySend(r) : asked' = [asked EXCEPT ![r] = [header |-> h, source |-> Nothing]]
  BY DEF Arrive
<1>3. h \in Headers /\ (Is(r, "resumer") => h = Resuming(r)) /\ answer[r] = NoAnswer
  BY <1>1, SentIs
<1> DEFINE new == [header |-> h, source |-> Nothing]
<1>4. new \in [header : Headers, source : Sources] /\ new.header = h /\ new.source = Nothing
  BY <1>3 DEF Sources
<1>5. asked' = [asked EXCEPT ![r] = new]
  BY <1>2
<1> HIDE DEF new
<1>6. DownloadTypes'
  BY <1>1, <1>4, <1>5 DEF DownloadTypes
<1>7. asked'[r] = new /\ \A s \in Requests \ {r} : asked'[s] = asked[s]
  BY <1>1, <1>5 DEF DownloadTypes
<1>8. rq'[r].pc # "open" /\ \A s \in Requests \ {r} : rq'[s] = rq[s]
  BY <1>1 DEF Arrive, WalksOK, Idle
<1>9. Resuming(r)' = Resuming(r) /\ (Is(r, "resumer")' <=> Is(r, "resumer"))
  BY <1>1 DEF Resuming, Is
<1>10. Exact(NoAnswer, h)
  BY DEF Exact, NoAnswer
<1>11. Nothing \notin Files
  BY ServingAssumption DEF ServingAssumption
<1>12. DownloadOK(r)'
  <2>1. /\ (\E n \in 0..Size : got[r] = SubSeq(Blob, 1, n)) /\ total[r] \in {Nothing, Size}
    BY <1>1 DEF DownloadOK
  <2> QED BY <1>1, <1>3, <1>4, <1>7, <1>8, <1>9, <1>10, <1>11, <2>1 DEF DownloadOK
<1> QED BY <1>1, <1>6, <1>7, <1>8, <1>12, OneDownload

\* A request finds where its blob is, if anywhere.
LEMMA SourceKeeps ==
    ASSUME ServeInv, NEW r \in Requests, NEW pc \in {"served", "open", "plan"}, Goto(r, pc),
           NEW source \in Sources, asked' = [asked EXCEPT ![r].source = source],
           source \in Files => Blob \in MayHold[source], pc = "open" => source # Nothing,
           rq[r].pc \in {"resolve", "served"}, UNCHANGED <<people, answer, got, total>>
    PROVE  DownloadTypes' /\ \A s \in Requests : DownloadOK(s)'
<1>1. DownloadTypes /\ (\A s \in Requests : DownloadOK(s)) /\ WalksOK
  BY DEF ServeInv, WalkInv
<1> DEFINE new == [asked[r] EXCEPT !.source = source]
<1>2. asked[r] \in [header : Headers, source : Sources]
  BY <1>1 DEF DownloadTypes
<1>3. /\ new \in [header : Headers, source : Sources] /\ new.header = asked[r].header
      /\ new.source = source
  BY <1>2
<1>4. asked' = [asked EXCEPT ![r] = new]
  BY <1>1 DEF DownloadTypes
<1> HIDE DEF new
<1>5. DownloadTypes'
  <2>1. asked' \in [Requests -> [header : Headers, source : Sources]]
    BY <1>1, <1>3, <1>4 DEF DownloadTypes
  <2> QED BY <1>1, <2>1 DEF DownloadTypes
<1>6. asked'[r] = new /\ \A s \in Requests \ {r} : asked'[s] = asked[s]
  BY <1>1, <1>4 DEF DownloadTypes
<1>7. rq'[r].pc = pc /\ \A s \in Requests \ {r} : rq'[s] = rq[s]
  BY <1>1 DEF Goto, WalksOK, WalkType
<1>8. Resuming(r)' = Resuming(r) /\ (Is(r, "resumer")' <=> Is(r, "resumer"))
      /\ (Is(r, "prober")' <=> Is(r, "prober"))
  BY DEF Resuming, Is
<1>9. DownloadOK(r)'
  <2>1. DownloadOK(r)
    BY <1>1
  <2> QED BY <1>3, <1>6, <1>7, <1>8, <2>1 DEF DownloadOK
<1> QED BY <1>1, <1>5, <1>6, <1>7, <1>9, OneDownload

\* A request the bucket fails leaves its client with what it had.
LEMMA BucketFailsKeeps ==
    ASSUME ServeInv, NEW r \in Requests, BucketFails(r), rq[r].pc \in {"resolve", "open"},
           UNCHANGED <<people, answer, got, total>>
    PROVE  DownloadTypes' /\ \A s \in Requests : DownloadOK(s)'
<1>1. DownloadTypes /\ (\A s \in Requests : DownloadOK(s)) /\ WalksOK
  BY DEF ServeInv, WalkInv
<1>2. asked' = [asked EXCEPT ![r] = NoRequest] /\ Reply(r, "unavailable")
  BY DEF BucketFails
<1>3. rq'[r].pc = "idle" /\ \A s \in Requests \ {r} : rq'[s] = rq[s]
  <2>1. "unavailable" \in Replies
    BY DEF Replies
  <2>2. \A s \in Requests \ {r} : rq'[s] = rq[s]
    BY <1>1, <1>2 DEF Reply, WalksOK
  <2> QED BY <1>1, <1>2, <2>1, <2>2, ReplyKeeps
<1>4. NoRequest \in [header : Headers, source : Sources] /\ NoRequest.source = Nothing
  <2>1. Plain \in Headers
    BY DEF Plain, Headers, RangeHeader
  <2> QED BY <2>1 DEF NoRequest, Sources
<1>5. asked'[r] = NoRequest /\ \A s \in Requests \ {r} : asked'[s] = asked[s]
  BY <1>1, <1>2 DEF DownloadTypes
<1>6. DownloadTypes'
  <2>1. asked' \in [Requests -> [header : Headers, source : Sources]]
    BY <1>1, <1>2, <1>4 DEF DownloadTypes
  <2> QED BY <1>1, <2>1 DEF DownloadTypes
<1>7. answer[r] = NoAnswer /\ Exact(NoAnswer, NoRequest.header)
  <2>1. answer[r] = NoAnswer
    BY <1>1 DEF DownloadOK
  <2>2. Exact(NoAnswer, NoRequest.header)
    BY DEF Exact, NoAnswer
  <2> QED BY <2>1, <2>2
<1>8. Nothing \notin Files
  BY ServingAssumption DEF ServingAssumption
<1>9. DownloadOK(r)'
  <2>1. DownloadOK(r)
    BY <1>1
  <2> QED BY <1>3, <1>4, <1>5, <1>7, <1>8, <2>1 DEF DownloadOK
<1> QED BY <1>1, <1>3, <1>5, <1>6, <1>9, OneDownload

LEMMA ResolveKeeps ==
    ASSUME ServeInv, NEW r \in Requests, ResolveIndex(r) \/ ResolveServed(r)
    PROVE  DownloadTypes' /\ \A s \in Requests : DownloadOK(s)'
<1>1. /\ stored \in {"none", "disk", "bucket"} /\ served \in Files \cup {Nothing} /\ Names(served)
  BY DEF ServeInv, DirOK, ScanOK
<1>2. /\ Nothing \notin Files \cup {"disk", "bucket"} /\ {"disk", "bucket"} \cap Files = {}
  BY ServingAssumption DEF ServingAssumption
<1>3. CASE ResolveIndex(r)
  <2> DEFINE pc == IF stored = "none" THEN "served" ELSE "open"
             source == IF stored = "none" THEN Nothing ELSE stored
  <2>1. CASE BucketFails(r)
    <3>1. rq[r].pc \in {"resolve", "open"} /\ UNCHANGED <<people, answer, got, total>>
      BY <1>3 DEF ResolveIndex
    <3> QED BY <2>1, <3>1, BucketFailsKeeps
  <2>2. CASE Goto(r, pc) /\ asked' = [asked EXCEPT ![r].source = source]
    <3>1. rq[r].pc \in {"resolve", "served"} /\ UNCHANGED <<people, answer, got, total>>
      BY <1>3 DEF ResolveIndex
    <3>2. /\ pc \in {"served", "open", "plan"} /\ source \in Sources /\ source \notin Files
          /\ (pc = "open" => source # Nothing)
      BY <1>1, <1>2 DEF Sources
    <3> HIDE DEF pc, source
    <3> QED BY <2>2, <3>1, <3>2, SourceKeeps
  <2> QED BY <1>3, <2>1, <2>2 DEF ResolveIndex
<1>4. CASE ResolveServed(r)
  <2> DEFINE pc == IF served = Nothing THEN "plan" ELSE "open"
  <2>1. /\ Goto(r, pc) /\ asked' = [asked EXCEPT ![r].source = served]
        /\ rq[r].pc \in {"resolve", "served"} /\ UNCHANGED <<people, answer, got, total>>
    BY <1>4 DEF ResolveServed
  <2>2. /\ pc \in {"served", "open", "plan"} /\ served \in Sources
        /\ (served \in Files => Blob \in MayHold[served])
        /\ (pc = "open" => served # Nothing)
    BY <1>1, <1>2 DEF Sources, Names
  <2> HIDE DEF pc
  <2> QED BY <2>1, <2>2, SourceKeeps
<1> QED BY <1>3, <1>4

\* A request that is not about to be answered from here keeps its download.
LEMMA IdleKeeps ==
    ASSUME ServeInv, NEW r \in Requests, rq'[r].pc \notin {"resolve", "served", "open"},
           \A s \in Requests \ {r} : rq'[s] = rq[s],
           UNCHANGED <<people, asked, answer, got, total>>
    PROVE  DownloadTypes' /\ \A s \in Requests : DownloadOK(s)'
<1>1. DownloadTypes /\ (\A s \in Requests : DownloadOK(s))
  BY DEF ServeInv
<1>2. DownloadTypes'
  BY <1>1 DEF DownloadTypes
<1>3. DownloadOK(r)'
  <2>1. DownloadOK(r)
    BY <1>1
  <2>2. Is(r, "prober")' <=> Is(r, "prober")
    BY DEF Is
  <2> QED BY <2>1, <2>2 DEF DownloadOK
<1> QED BY <1>1, <1>2, <1>3, OneDownload

LEMMA WalkersAreAway ==
    ASSUME WalksOK, NEW r \in Requests, WalkStep(r)
    PROVE  rq'[r].pc \notin {"resolve", "served", "open"}
<1>1. rq \in [Requests -> WalkType]
  BY DEF WalksOK
<1>2. CASE ResolveUpstream(r)
  <2>1. PICK q \in Queries[r] : \/ Reply(r, "forbidden") \/ Reply(r, "notFound")
                                \/ Starts(r, UpstreamPlan(q))
    BY <1>2 DEF ResolveUpstream
  <2>2. "forbidden" \in Replies /\ "notFound" \in Replies
    BY DEF Replies
  <2>3. CASE Starts(r, UpstreamPlan(q))
    <3> DEFINE p == UpstreamPlan(q)
    <3>1. rq' = [rq EXCEPT ![r] = [Idle EXCEPT !.pc = "next", !.plan = p, !.pending = Walks[p],
                                               !.user = p.author # Nothing]]
      BY <2>3 DEF Starts
    <3> HIDE DEF p
    <3>2. rq'[r].pc = "next"
      BY <1>1, <3>1 DEF Idle
    <3> QED BY <3>2
  <2> QED BY <2>1, <2>2, <2>3, ReplyKeeps
<1>3. CASE NextCandidate(r)
  <2>1. \E s, t, u : rq' = [rq EXCEPT ![r].pc = "ask", ![r].tried = s, ![r].pending = t,
                                      ![r].asked = u]
    BY <1>3 DEF NextCandidate
  <2> QED BY <1>1, <2>1 DEF WalkType
<1>4. CASE Exhausted(r)
  BY <1>1, <1>4 DEF Exhausted, WalkType
<1>5. CASE TakeUserServers(r)
  <2>1. \/ \E servers : GoOn(r, servers)
        \/ rq' = [rq EXCEPT ![r].pc = "failed", ![r].whole = FALSE]
    BY <1>5 DEF TakeUserServers
  <2> QED BY <1>1, <2>1 DEF GoOn, WalkType
<1>6. CASE Ask(r)
  <2>1. "upstream" \in Replies
    BY DEF Replies
  <2>2. \/ Reply(r, "upstream") \/ Goto(r, "next")
        \/ rq' = [rq EXCEPT ![r].pc = "failed", ![r].whole = FALSE]
    BY <1>6 DEF Ask
  <2> QED BY <1>1, <2>1, <2>2, ReplyKeeps DEF Goto, WalkType
<1>7. CASE RecordMiss(r)
  <2>1. "notFound" \in Replies
    BY DEF Replies
  <2> QED BY <1>7, <2>1, ReplyKeeps DEF RecordMiss
<1>8. CASE Unresolved(r)
  <2>1. \E t : rq' = [rq EXCEPT ![r].pending = t, ![r].whole = FALSE]
    BY <1>8 DEF Unresolved
  <2> QED BY <1>1, <1>8, <2>1 DEF Unresolved, WalkType
<1> QED BY <1>2, <1>3, <1>4, <1>5, <1>6, <1>7, <1>8 DEF WalkStep

-----------------------------------------------------------------------------
(* An interrupted response, and the download it goes into.                  *)

LEMMA BeginningIs ==
    ASSUME NEW s \in Seq(Nat), NEW k \in 0..Len(s)
    PROVE  LET t == SubSeq(s, 1, k) IN
           t \in Seq(Nat) /\ Len(t) = k /\ \A i \in 1..k : t[i] = s[i]
<1> DEFINE t == SubSeq(s, 1, k)
<1>1. k \in Nat /\ Len(s) \in Nat /\ k <= Len(s) /\ DOMAIN s = 1..Len(s)
  OBVIOUS
<1>2. t = [i \in 1..k |-> s[i]]
  <2>1. t = [i \in 1..(k - 1 + 1) |-> s[1 + i - 1]]
    BY <1>1
  <2>2. k - 1 + 1 = k /\ \A i \in 1..k : 1 + i - 1 = i
    BY <1>1
  <2> HIDE DEF t
  <2> QED BY <2>1, <2>2
<1> HIDE DEF t
<1>3. \A i \in 1..k : s[i] \in Nat
  BY <1>1
<1>4. t \in [1..k -> Nat]
  BY <1>2, <1>3
<1>5. t \in Seq(Nat) /\ Len(t) = k
  BY <1>1, <1>4
<1> QED BY <1>2, <1>5 DEF t

\* The beginning of the blob, and what comes behind it, is the beginning of the blob.
LEMMA Glued ==
    ASSUME NEW m \in Nat, NEW n \in Nat, m + n <= Size, NEW body \in Seq(Nat),
           n <= Len(body), \A i \in 1..n : body[i] = Blob[m + i],
           NEW s \in Seq(Nat), Len(s) = m, \A i \in 1..m : s[i] = Blob[i]
    PROVE  s \o SubSeq(body, 1, n) = SubSeq(Blob, 1, m + n)
<1> DEFINE t == SubSeq(body, 1, n)
           st == s \o t
           whole == SubSeq(Blob, 1, m + n)
<1>1. t \in Seq(Nat) /\ Len(t) = n /\ \A i \in 1..n : t[i] = Blob[m + i]
  <2>1. n \in 0..Len(body)
    OBVIOUS
  <2> QED BY <2>1, BeginningIs
<1>2. whole \in Seq(Nat) /\ Len(whole) = m + n /\ \A i \in 1..m + n : whole[i] = Blob[i]
  <2>1. m + n \in 0..Len(Blob) /\ Blob \in Seq(Nat)
    BY SizeIs DEF Size
  <2> QED BY <2>1, BeginningIs
<1> HIDE DEF t, whole
<1>3. /\ st \in Seq(Nat) /\ Len(st) = m + n
      /\ \A i \in 1..m + n : st[i] = IF i <= m THEN s[i] ELSE t[i - m]
  <2>1. /\ st \in Seq(Nat) /\ Len(st) = Len(s) + Len(t)
        /\ \A i \in 1..Len(s) + Len(t) : st[i] = IF i <= Len(s) THEN s[i] ELSE t[i - Len(s)]
    BY <1>1, ConcatProperties
  <2> HIDE DEF st
  <2> QED BY <1>1, <2>1
<1> HIDE DEF st
<1>4. ASSUME NEW i \in 1..m + n PROVE st[i] = whole[i]
  <2>1. CASE i <= m
    <3>1. i \in 1..m
      BY <2>1
    <3> QED BY <1>2, <1>3, <2>1, <3>1
  <2>2. CASE ~(i <= m)
    <3>1. i - m \in 1..n /\ m + (i - m) = i
      BY <2>2
    <3> QED BY <1>1, <1>2, <1>3, <2>2, <3>1
  <2> QED BY <2>1, <2>2
<1>5. st = whole
  BY <1>2, <1>3, <1>4, SeqEqual
<1> QED BY <1>5 DEF st, t, whole

Begins(s) == \E k \in 0..Size : s = SubSeq(Blob, 1, k)

Received(r, a, n) == SubSeq(got[r], 1, a.start) \o SubSeq(a.body, 1, n)

\* What a client that asks for the rest of the blob has, however much of the
\* response reaches it.
LEMMA RestIs ==
    ASSUME NEW r \in Requests, DownloadOK(r), NEW h \in Headers, h = Resuming(r),
           NEW a, a = RangeResponse(h, Blob), a.status \in {200, 206},
           NEW n \in 0..Len(a.body)
    PROVE  Begins(Received(r, a, n)) /\ a.total = Size
<1> DEFINE wanted == Selected(IF h.ifRange = "other" THEN NoRange ELSE h.range, Size)
           g == got[r]
<1>1. PICK m \in 0..Size : g = SubSeq(Blob, 1, m)
  BY DEF DownloadOK
<1>2. Size \in Nat /\ Blob \in Seq(Nat) /\ Len(Blob) = Size
  BY SizeIs DEF Size
<1>3. g \in Seq(Nat) /\ Len(g) = m /\ \A i \in 1..m : g[i] = Blob[i]
  BY <1>1, <1>2, BeginningIs
<1>4. wanted = {k \in 0..Size - 1 : k >= m}
  <2>1. CASE g = << >>
    <3>1. h.range = NoRange /\ h.ifRange # "other" /\ m = 0
      BY <1>3, <2>1 DEF Resuming, Plain
    <3>2. wanted = 0..Size - 1
      BY <3>1 DEF Selected, NoRange
    <3> QED BY <1>2, <3>1, <3>2
  <2>2. CASE g # << >>
    <3>1. h.range = [form |-> "from", n |-> m] /\ h.ifRange = "match"
      BY <1>3, <2>2 DEF Resuming, Plain
    <3>2. wanted = {k \in 0..Size - 1 : k >= m}
      BY <3>1 DEF Selected
    <3> QED BY <3>2
  <2> QED BY <2>1, <2>2
<1>5. \/ a.status = 200 /\ a.start = 0 /\ a.total = Size /\ a.body = Blob
      \/ \E start, end \in Nat :
           /\ a.total = Size /\ a.start = start
           /\ a.body = [i \in 1..end - start + 1 |-> Blob[start + i]]
           /\ start <= end /\ end < Size /\ wanted = start..end
  <2> DEFINE b == RangeResponse(h, Blob)
  <2> DEFINE Part(start, end) ==
               /\ b.status = 206 /\ b.total = Size /\ b.start = start
               /\ b.length = end - start + 1
               /\ b.body = [i \in 1..end - start + 1 |-> Blob[start + i]]
               /\ start <= end /\ end < Size /\ wanted = start..end
  <2>1. \/ b.status = 200 /\ b.start = 0 /\ b.total = Size /\ b.body = Blob
           /\ wanted = 0..Size - 1
        \/ b.status = 416 /\ b.total = Size /\ wanted = {}
        \/ \E start, end \in Nat : Part(start, end)
    BY RangeResponseIs
  <2>2. a = b
    OBVIOUS
  <2> HIDE DEF b, wanted, Part
  <2>3. a.status # 416
    OBVIOUS
  <2>4. CASE b.status = 200 /\ b.start = 0 /\ b.total = Size /\ b.body = Blob
    BY <2>2, <2>4
  <2>5. CASE \E start, end \in Nat : Part(start, end)
    <3>1. PICK start \in Nat, end \in Nat : Part(start, end)
      BY <2>5
    <3> QED BY <2>2, <3>1 DEF Part
  <2>6. b.status # 416
    BY <2>2, <2>3
  <2> QED BY Zenon, <2>1, <2>4, <2>5, <2>6
<1> HIDE DEF wanted
<1>6. CASE a.status = 200 /\ a.start = 0 /\ a.total = Size /\ a.body = Blob
  <2> DEFINE s == SubSeq(g, 1, 0)
  <2>1. s \in Seq(Nat) /\ Len(s) = 0
    <3>1. 0 \in 0..Len(g)
      BY <1>3
    <3> QED BY <1>3, <3>1, BeginningIs
  <2>2. \A i \in 1..0 : s[i] = Blob[i]
    OBVIOUS
  <2>3. n \in Nat /\ 0 + n <= Size /\ n <= Len(Blob) /\ \A i \in 1..n : Blob[i] = Blob[0 + i]
    BY <1>2, <1>6
  <2> HIDE DEF s
  <2>4. s \o SubSeq(Blob, 1, n) = SubSeq(Blob, 1, 0 + n)
    BY <1>2, <2>1, <2>2, <2>3, Glued
  <2>5. 0 + n \in 0..Size
    BY <1>2, <2>3
  <2> QED BY <1>6, <2>4, <2>5 DEF s, Begins, Received
<1>7. ASSUME NEW start \in Nat, NEW end \in Nat, a.total = Size, a.start = start,
             a.body = [i \in 1..end - start + 1 |-> Blob[start + i]],
             start <= end, end < Size, wanted = start..end
      PROVE  \E k \in 0..Size : SubSeq(g, 1, a.start) \o SubSeq(a.body, 1, n)
                                  = SubSeq(Blob, 1, k)
  <2>1. start = m /\ end = Size - 1
    <3>1. m \in Nat
      OBVIOUS
    <3>2. start \in wanted /\ end \in wanted
      BY <1>7
    <3>3. start >= m
      BY <1>4, <3>2
    <3>4. m \in wanted /\ Size - 1 \in wanted
      BY <1>2, <1>4, <1>7, <3>1, <3>3
    <3>5. m >= start /\ Size - 1 <= end
      BY <1>2, <1>7, <3>1, <3>4
    <3> QED BY <1>2, <1>7, <3>1, <3>3, <3>5
  <2> DEFINE body == a.body
  <2>2. body = [i \in 1..Size - m |-> Blob[m + i]]
    <3>1. end - start + 1 = Size - m
      BY <1>2, <2>1
    <3> QED BY <1>7, <2>1, <3>1
  <2> HIDE DEF body
  <2>3. body \in Seq(Nat) /\ Len(body) = Size - m
    <3>1. ASSUME NEW i \in 1..Size - m PROVE Blob[m + i] \in Nat
      <4>1. m + i \in 1..Size
        BY <1>2
      <4> QED BY <1>2, <4>1
    <3>2. body \in [1..Size - m -> Nat] /\ Size - m \in Nat
      BY <1>2, <2>2, <3>1
    <3> QED BY <3>2
  <2>4. n \in Nat /\ n <= Len(body) /\ m \in Nat /\ m + n <= Size
    BY <1>2, <2>3 DEF body
  <2>5. \A i \in 1..n : body[i] = Blob[m + i]
    BY <1>2, <2>2, <2>3, <2>4
  <2>6. SubSeq(g, 1, m) \in Seq(Nat) /\ Len(SubSeq(g, 1, m)) = m
        /\ \A i \in 1..m : SubSeq(g, 1, m)[i] = Blob[i]
    <3>1. m \in 0..Len(g)
      BY <1>3
    <3> QED BY <1>3, <3>1, BeginningIs
  <2>7. SubSeq(g, 1, m) \o SubSeq(body, 1, n) = SubSeq(Blob, 1, m + n)
    BY <2>3, <2>4, <2>5, <2>6, Glued
  <2>8. m + n \in 0..Size
    BY <1>2, <2>4
  <2> QED BY <1>7, <2>1, <2>7, <2>8 DEF body
<1> QED BY <1>5, <1>6, <1>7 DEF Begins, Received

\* The client gets its response, or what of it reaches it.
LEMMA DeliverKeeps ==
    ASSUME ServeInv, NEW r \in Requests, NEW a, Deliver(r, a), rq[r].pc = "open",
           a = Respond(asked[r].header, Blob) \/ a = [status |-> 404], UNCHANGED people
    PROVE  DownloadTypes' /\ \A s \in Requests : DownloadOK(s)'
<1> DEFINE h == asked[r].header
<1>1. /\ DownloadTypes /\ (\A s \in Requests : DownloadOK(s)) /\ WalksOK /\ DownloadOK(r)
      /\ Reply(r, "local")
  BY DEF ServeInv, WalkInv, Deliver
<1>2. rq'[r].pc = "idle" /\ \A s \in Requests \ {r} : rq'[s] = rq[s]
  <2>1. "local" \in Replies
    BY DEF Replies
  <2>2. rq'[r].pc = "idle"
    BY <1>1, <2>1, ReplyKeeps
  <2>3. \A s \in Requests \ {r} : rq'[s] = rq[s]
    BY <1>1 DEF Reply, WalksOK
  <2> QED BY <2>2, <2>3
<1>3. h \in Headers
  BY <1>1 DEF DownloadTypes
<1>4. a = Respond(h, Blob) \/ a = [status |-> 404]
  OBVIOUS
<1>5. \/ /\ Is(r, "prober") /\ answer' = [answer EXCEPT ![r] = a]
         /\ UNCHANGED <<asked, got, total>>
      \/ /\ ~Is(r, "prober") /\ asked' = [asked EXCEPT ![r] = NoRequest]
         /\ IF a.status \in {200, 206} /\ Is(r, "resumer")
            THEN Receive(r, a) ELSE UNCHANGED <<got, total>>
         /\ UNCHANGED answer
  BY DEF Deliver
<1> HIDE DEF h
<1>6. Exact(a, h)
  <2>1. CASE a = [status |-> 404]
    BY <2>1 DEF Exact
  <2> QED BY <1>3, <1>4, <2>1, AnswerIs
<1>7. \A role : Is(r, role)' <=> Is(r, role)
  BY <1>1 DEF Is
<1>8. CASE /\ Is(r, "prober") /\ answer' = [answer EXCEPT ![r] = a]
           /\ UNCHANGED <<asked, got, total>>
  <2>1. answer'[r] = a /\ \A s \in Requests \ {r} : answer'[s] = answer[s]
    BY <1>1, <1>8 DEF DownloadTypes
  <2>2. DownloadTypes'
    <3>1. answer = [s \in Requests |-> answer[s]]
      BY <1>1 DEF DownloadTypes
    <3>2. answer' = [s \in Requests |-> answer'[s]] /\ DOMAIN answer' = Requests
      BY <1>8, <3>1
    <3> QED BY <1>1, <1>8, <3>2 DEF DownloadTypes
  <2>3. DownloadOK(r)'
    BY <1>1, <1>2, <1>6, <1>7, <1>8, <2>1 DEF DownloadOK, h
  <2> QED BY <1>1, <1>2, <1>8, <2>1, <2>2, <2>3, OneDownload
<1>9. CASE /\ ~Is(r, "prober") /\ asked' = [asked EXCEPT ![r] = NoRequest]
           /\ IF a.status \in {200, 206} /\ Is(r, "resumer")
              THEN Receive(r, a) ELSE UNCHANGED <<got, total>>
           /\ UNCHANGED answer
  <2>1. /\ got' \in [Requests -> Seq(Nat)] /\ total' \in [Requests -> Nat \cup {Nothing}]
        /\ (\E n \in 0..Size : got'[r] = SubSeq(Blob, 1, n)) /\ total'[r] \in {Nothing, Size}
        /\ \A s \in Requests \ {r} : got'[s] = got[s] /\ total'[s] = total[s]
    <3>1. CASE UNCHANGED <<got, total>>
      BY <1>1, <3>1 DEF DownloadTypes, DownloadOK
    <3>2. CASE a.status \in {200, 206} /\ Is(r, "resumer") /\ Receive(r, a)
      <4>1. h = Resuming(r)
        BY <1>1, <3>2 DEF DownloadOK, h
      <4>2. h.method = "GET" /\ h.ifNoneMatch = "none"
        BY <4>1 DEF Resuming, Plain
      <4>3. a = RangeResponse(h, Blob)
        <5>1. a # [status |-> 404]
          BY <3>2
        <5> QED BY <1>4, <4>2, <5>1 DEF Respond
      <4>4. PICK n \in 0..Len(a.body) :
              /\ got' = [got EXCEPT ![r] = SubSeq(@, 1, a.start) \o SubSeq(a.body, 1, n)]
              /\ total' = [total EXCEPT ![r] = a.total]
        BY <3>2 DEF Receive
      <4> DEFINE new == SubSeq(got[r], 1, a.start) \o SubSeq(a.body, 1, n)
      <4>5. (\E k \in 0..Size : new = SubSeq(Blob, 1, k)) /\ a.total = Size
        <5>1. /\ DownloadOK(r) /\ h \in Headers /\ h = Resuming(r) /\ a = RangeResponse(h, Blob)
              /\ a.status \in {200, 206} /\ n \in 0..Len(a.body)
          BY <1>1, <1>3, <3>2, <4>1, <4>3
        <5>2. Begins(Received(r, a, n)) /\ a.total = Size
          BY <5>1, RestIs
        <5> QED BY <5>2 DEF Begins, Received
      <4>6. got' = [got EXCEPT ![r] = new]
        BY <1>1, <4>4 DEF DownloadTypes
      <4> HIDE DEF new
      <4>7. new \in Seq(Nat) /\ Size \in Nat
        <5>1. PICK k \in 0..Size : new = SubSeq(Blob, 1, k)
          BY <4>5
        <5>2. k \in 0..Len(Blob) /\ Blob \in Seq(Nat)
          BY SizeIs DEF Size
        <5> QED BY <5>1, <5>2, BeginningIs, SizeIs
      <4> QED BY <1>1, <4>4, <4>5, <4>6, <4>7 DEF DownloadTypes
    <3> QED BY <1>9, <3>1, <3>2
  <2>2. NoRequest \in [header : Headers, source : Sources] /\ NoRequest.source = Nothing
    <3>1. Plain \in Headers
      BY DEF Plain, Headers, RangeHeader
    <3> QED BY <3>1 DEF NoRequest, Sources
  <2>3. asked'[r] = NoRequest /\ \A s \in Requests \ {r} : asked'[s] = asked[s]
    BY <1>1, <1>9 DEF DownloadTypes
  <2>4. asked' \in [Requests -> [header : Headers, source : Sources]]
    BY <1>1, <1>9, <2>2 DEF DownloadTypes
  <2>5. DownloadTypes'
    BY <1>1, <1>9, <2>1, <2>4 DEF DownloadTypes
  <2>6. answer[r] = NoAnswer /\ Exact(NoAnswer, NoRequest.header)
    BY <1>1, <1>9 DEF DownloadOK, Exact, NoAnswer
  <2>7. Nothing \notin Files
    BY ServingAssumption DEF ServingAssumption
  <2>8. DownloadOK(r)'
    BY <1>2, <1>9, <2>1, <2>2, <2>3, <2>6, <2>7 DEF DownloadOK
  <2> QED BY <1>1, <1>2, <1>9, <2>1, <2>3, <2>5, <2>8, OneDownload
<1> QED BY <1>5, <1>8, <1>9

LEMMA OpenKeeps ==
    ASSUME Immutable, ServeInv, NEW r \in Requests, Open(r)
    PROVE  DownloadTypes' /\ \A s \in Requests : DownloadOK(s)'
<1> DEFINE h == asked[r].header
           c == Content(asked[r].source)
           a == IF h.ifNoneMatch = "match" \/ h.method = "HEAD" THEN Respond(h, Blob)
                ELSE IF c = Nothing THEN [status |-> 404]
                ELSE Respond(h, c)
<1>1. DownloadTypes /\ DirOK /\ DownloadOK(r) /\ UNCHANGED people /\ rq[r].pc = "open"
  BY DEF ServeInv, Open
<1>2. asked[r].source \in Sources /\ asked[r].source # Nothing
  BY <1>1 DEF DownloadTypes, DownloadOK
<1>3. c \in {Blob, Nothing}
  <2>1. CASE asked[r].source \in {"disk", "bucket"}
    BY <2>1 DEF Content
  <2>2. CASE asked[r].source \notin {"disk", "bucket"}
    <3>1. asked[r].source \in Files /\ c = dir[asked[r].source]
      BY <1>2, <2>2 DEF Sources, Content
    <3>2. MayHold[asked[r].source] = {Blob}
      BY <1>1, <3>1 DEF DownloadOK, Immutable
    <3> QED BY <1>1, <3>1, <3>2 DEF DirOK
  <2> QED BY <2>1, <2>2
<1>4. a = Respond(h, Blob) \/ a = [status |-> 404]
  <2> HIDE DEF c, h
  <2> QED BY <1>3
<1>5. Deliver(r, a) \/ (BucketFails(r) /\ UNCHANGED <<answer, got, total>>)
  BY DEF Open
<1> HIDE DEF a, c
<1>6. CASE Deliver(r, a)
  BY <1>1, <1>4, <1>6, DeliverKeeps
<1>7. CASE BucketFails(r) /\ UNCHANGED <<answer, got, total>>
  <2>1. rq[r].pc \in {"resolve", "open"}
    BY <1>1
  <2> QED BY <1>1, <1>7, <2>1, BucketFailsKeeps
<1> QED BY <1>5, <1>6, <1>7

-----------------------------------------------------------------------------
(* The whole.                                                               *)

\* Steps that are none of the requests' leave the downloads alone.
LEMMA DownloadsRest ==
    ASSUME ServeInv, UNCHANGED <<people, rq, asked, answer, got, total>>
    PROVE  DownloadTypes' /\ \A s \in Requests : DownloadOK(s)'
<1>1. DownloadTypes'
  BY DEF ServeInv, DownloadTypes
<1>2. ASSUME NEW s \in Requests PROVE DownloadOK(s)'
  <2>1. DownloadOK(s)
    BY DEF ServeInv
  <2>2. Resuming(s)' = Resuming(s) /\ \A role : Is(s, role)' <=> Is(s, role)
    BY DEF Resuming, Is
  <2> QED BY <2>1, <2>2 DEF DownloadOK
<1> QED BY <1>1, <1>2

LEMMA DirRests ==
    ASSUME DirOK, ScanOK, UNCHANGED <<people, dir, served, scan, known>>,
           stored' \in {"none", "disk", "bucket"}
    PROVE  DirOK' /\ ScanOK'
BY DEF DirOK, ScanOK, SteadyIsIndexed

LEMMA ServeBegins == ASSUME ServingInit PROVE ServeInv
<1>1. WalkInv
  BY WalkBegins DEF ServingInit
<1>2. DirOK
  BY DEF ServingInit, DirOK
<1>3. ScanOK
  <2>1. NoScan \in ScanType /\ NoScan.pc = "idle" /\ NoScan.file = Nothing
        /\ NoScan.next = Nothing /\ NoScan.steady = {}
    BY DEF NoScan, ScanType
  <2> QED BY <2>1 DEF ServingInit, ScanOK, Names, SteadyIsIndexed
<1>4. NoRequest \in [header : Headers, source : Sources] /\ NoRequest.source = Nothing
  <2>1. Plain \in Headers
    BY DEF Plain, Headers, RangeHeader
  <2> QED BY <2>1 DEF NoRequest, Sources
<1>5. DownloadTypes
  BY <1>4 DEF ServingInit, DownloadTypes
<1>6. ASSUME NEW r \in Requests PROVE DownloadOK(r)
  <2>1. /\ asked[r] = NoRequest /\ answer[r] = NoAnswer /\ got[r] = << >> /\ total[r] = Nothing
        /\ rq[r].pc = "idle"
    BY DEF ServingInit, WalkInit, Idle
  <2>2. Exact(NoAnswer, NoRequest.header)
    BY DEF Exact, NoAnswer
  <2>3. << >> = SubSeq(Blob, 1, 0) /\ 0 \in 0..Size
    <3>1. 0 \in 0..Len(Blob)
      BY SizeIs DEF Size
    <3> DEFINE none == SubSeq(Blob, 1, 0)
    <3>2. none \in Seq(Nat) /\ Len(none) = 0
      BY <3>1, SizeIs, BeginningIs
    <3> HIDE DEF none
    <3>3. none = << >>
      BY <3>2
    <3> QED BY <3>1, <3>3, SizeIs DEF none
  <2>4. Nothing \notin Files
    BY ServingAssumption DEF ServingAssumption
  <2> QED BY <1>4, <2>1, <2>2, <2>3, <2>4 DEF DownloadOK
<1> QED BY <1>1, <1>2, <1>3, <1>5, <1>6 DEF ServeInv

LEMMA ServeKeeps == ASSUME Immutable, ServeInv, [Next]_servingVars PROVE ServeInv'
<1>1. WalkInv /\ WalksOK /\ DirOK /\ ScanOK /\ DownloadTypes /\ WalkInv'
  BY WalksKeep DEF ServeInv, WalkInv
<1>2. stored \in {"none", "disk", "bucket"}
  BY <1>1 DEF DirOK
<1>3. ASSUME NEW r \in Requests, Arrive(r) \/ ServeStep(r) PROVE ServeInv'
  <2>1. UNCHANGED <<people, stored, dir, served, scan, known>>
    BY <1>3 DEF Arrive, ServeStep, ResolveIndex, ResolveServed, Open, serveVars
  <2>2. DirOK' /\ ScanOK'
    BY <1>1, <1>2, <2>1, DirRests
  <2>3. CASE Arrive(r)
    BY <1>1, <2>2, <2>3, ArriveKeeps DEF ServeInv
  <2>4. CASE ResolveIndex(r) \/ ResolveServed(r)
    BY <1>1, <2>2, <2>4, ResolveKeeps DEF ServeInv
  <2>5. CASE Open(r)
    BY <1>1, <2>2, <2>5, OpenKeeps DEF ServeInv
  <2>6. CASE WalkStep(r) /\ UNCHANGED serveVars
    <3>1. rq'[r].pc \notin {"resolve", "served", "open"}
      BY <1>1, <2>6, WalkersAreAway
    <3>2. \A s \in Requests \ {r} : rq'[s] = rq[s]
      BY <1>1, <1>3, OthersWait
    <3>3. UNCHANGED <<people, asked, answer, got, total>>
      BY <2>6 DEF serveVars
    <3> QED BY <1>1, <2>2, <3>1, <3>2, <3>3, IdleKeeps DEF ServeInv
  <2> QED BY <1>3, <2>3, <2>4, <2>5, <2>6 DEF ServeStep
<1>4. CASE Refresh
  <2>1. UNCHANGED <<people, stored, dir, rq, asked, answer, got, total>>
    BY <1>4 DEF Refresh, Collect, HashFile, StatFile, IoFailure, Swap, GiveUp, requests, walkVars
  <2>2. DirOK'
    BY <1>1, <2>1 DEF DirOK
  <2> QED BY <1>1, <1>4, <2>1, <2>2, ScanKeeps, DownloadsRest DEF ServeInv
<1>5. CASE DirChanges
  <2>1. UNCHANGED <<people, rq, asked, answer, got, total>>
    BY <1>5 DEF DirChanges, requests, walkVars
  <2> QED BY <1>1, <1>5, <2>1, DirKeeps, DownloadsRest DEF ServeInv
<1>6. CASE StoreChanges
  <2>1. /\ UNCHANGED <<people, rq, asked, answer, got, total, dir, served, scan, known>>
        /\ stored' \in {"none", "disk", "bucket"}
    BY <1>6 DEF StoreChanges, walkVars
  <2> QED BY <1>1, <2>1, DirRests, DownloadsRest DEF ServeInv
<1>7. CASE UNCHANGED <<rq, serveVars>>
  <2>1. UNCHANGED <<people, stored, rq, asked, answer, got, total, dir, served, scan, known>>
    BY <1>7 DEF serveVars
  <2> QED BY <1>1, <1>2, <2>1, DirRests, DownloadsRest DEF ServeInv
<1>8. TimePasses \/ CachesCleaned \/ OutsideHere \/ UNCHANGED servingVars
        => UNCHANGED <<rq, serveVars>>
  BY DEF TimePasses, CachesCleaned, OutsideHere, Clock, CleanupCaches, Outside, servingVars,
         walkVars
<1> QED BY <1>3, <1>4, <1>5, <1>6, <1>7, <1>8 DEF Next

\* A blob held here is found while one place holds it, every response carries exactly
\* the bytes its headers ask for, and a download put together from any number of
\* interrupted ones is the blob, where files that may hold it are not rewritten with
\* other content (resolve_blob, serve_blob, refresh_serve_file_index).
THEOREM HeldBlobsAreServed == Immutable => (Spec => []HeldIsServed)
<1> SUFFICES ASSUME Immutable PROVE Spec => []HeldIsServed
  OBVIOUS
<1>1. ASSUME ServeInv PROVE HeldIsServed
  <2>1. /\ OutsideOK /\ WalksOK /\ DirOK /\ ScanOK /\ DownloadTypes
        /\ \A r \in Requests : DownloadOK(r)
    BY <1>1 DEF ServeInv, WalkInv
  <2>2. WalkTypeOK
    <3>1. \A r \in Requests : rq[r] \in WalkType
      BY <2>1 DEF WalksOK
    <3>2. \A r \in Requests :
            /\ rq[r].pc \in Steps /\ rq[r].reply \in Replies
            /\ rq[r].pending \in Seq(Entry) /\ rq[r].asked \in Seq(Entry)
            /\ rq[r].tried \subseteq Hint /\ {rq[r].user, rq[r].whole} \subseteq BOOLEAN
      BY <3>1 DEF WalkType
    <3>3. \A a \in Authors : cached[a] \in CachedLists \cup {Nothing}
      BY <2>1 DEF OutsideOK
    <3> QED BY <2>1, <3>2, <3>3 DEF OutsideOK, WalkTypeOK
  <2>3. ServingTypeOK
    <3>1. ASSUME NEW r \in Requests
          PROVE  /\ asked[r].header \in Headers
                 /\ asked[r].source \in Files \cup {"disk", "bucket", Nothing}
                 /\ (rq[r].pc = "open" => asked[r].source # Nothing)
                 /\ total[r] \in Nat \cup {Nothing}
      <4>1. asked[r] \in [header : Headers, source : Sources] /\ total[r] \in Nat \cup {Nothing}
        BY <2>1 DEF DownloadTypes
      <4>2. DownloadOK(r)
        BY <2>1
      <4> QED BY <4>1, <4>2 DEF Sources, DownloadOK
    <3>2. /\ served \in Files \cup {Nothing} /\ known \subseteq Files
          /\ scan.pc \in {"idle", "hash", "stat", "error"} /\ scan.todo \subseteq Files
          /\ {scan.file, scan.next} \subseteq Files \cup {Nothing} /\ scan.steady \subseteq Files
      BY <2>1 DEF ScanOK, ScanType
    <3> QED BY <2>1, <2>2, <3>1, <3>2 DEF DirOK, ServingTypeOK
  <2>4. AssembledIsBlob
    <3> SUFFICES ASSUME NEW r \in Requests, Complete(r) PROVE got[r] = Blob
      BY DEF AssembledIsBlob
    <3>1. PICK n \in 0..Size : got[r] = SubSeq(Blob, 1, n)
      BY <2>1 DEF DownloadOK
    <3>2. total[r] = Size /\ Len(got[r]) = Size
      BY <2>1 DEF DownloadOK, Complete
    <3>3. Blob \in Seq(Nat) /\ Len(Blob) = Size /\ n \in 0..Len(Blob)
      BY SizeIs DEF Size
    <3>4. Len(got[r]) = n
      BY <3>1, <3>3, BeginningIs
    <3>5. got[r] = SubSeq(Blob, 1, Len(Blob))
      BY <3>1, <3>2, <3>3, <3>4
    <3> QED BY <3>3, <3>5, SubSeqFull
  <2>5. RangeExact
    BY <2>1 DEF DownloadOK, RangeExact
  <2>6. SteadyIsIndexed
    BY <2>1 DEF ScanOK
  <2> QED BY <2>3, <2>4, <2>5, <2>6 DEF HeldIsServed
<1>2. ServingInit => ServeInv
  BY ServeBegins
<1>3. ServeInv /\ [Next]_servingVars => ServeInv'
  BY ServeKeeps
<1>4. ServeInv => HeldIsServed
  BY <1>1
<1> QED BY <1>2, <1>3, <1>4, PTL DEF Spec
==============================================================================
