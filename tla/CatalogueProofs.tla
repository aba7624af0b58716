--------------------------- MODULE CatalogueProofs --------------------------
(***************************************************************************)
(* Proofs about Catalogue, for every set of blobs, windows, walkers and    *)
(* requests:                                                               *)
(*                                                                         *)
(*   ListsAreFaithful   sums and order are exact, and walks of a changing  *)
(*                      catalogue leave out and repeat nothing that stayed *)
(*                      in it                                              *)
(*   FiltersAreCurrent  a filter that is answered is one of the time while *)
(*                      its request ran, with the rate asked for           *)
(*   FiltersAreFaithful and Bloom filters are rendered no more often than  *)
(*                      needed                                             *)
(*                                                                         *)
(* The first rests on what a page is (PageIs): the ranks of entries are    *)
(* numbers, so a set of entries has a first and a last.  WalkOK says where *)
(* the blobs are that a walk has not listed yet.                           *)
(***************************************************************************)
EXTENDS Catalogue, FiniteSetTheorems, TLAPS

-----------------------------------------------------------------------------
(* The order of entries.                                                    *)

\* Every set of numbers that has an element has a least one.
LEMMA LeastNumber ==
    ASSUME NEW S \in SUBSET Nat, S # {}
    PROVE  \E m \in S : \A k \in S : m <= k
<1> DEFINE Less == {ss \in Nat \X Nat : ss[1] < ss[2]}
<1>1. IsWellFoundedOn(Less, Nat)
  <2>1. OpToRel(<, Nat) = Less
    BY Zenon DEF OpToRel
  <2> QED BY <2>1, NatLessThanWellFounded
<1>2. PICK m \in S : \A k \in S : <<k, m>> \notin Less
  <2> HIDE DEF Less
  <2> QED BY <1>1, WFMin
<1>3. \A k \in S : ~(k < m) /\ k \in Nat /\ m \in Nat
  BY <1>2
<1> QED BY <1>2, <1>3

\* Newest first is a total order of the entries.
LEMMA BeforeIsOrder ==
    /\ \A a \in Nat \X Nat : ~Before(a, a)
    /\ \A a, b \in Nat \X Nat : a = b \/ Before(a, b) \/ Before(b, a)
    /\ \A a, b, c \in Nat \X Nat : Before(a, b) /\ Before(b, c) => Before(a, c)
<1>1. ASSUME NEW a \in Nat \X Nat PROVE ~Before(a, a)
  BY DEF Before
<1>2. ASSUME NEW a \in Nat \X Nat, NEW b \in Nat \X Nat
      PROVE  a = b \/ Before(a, b) \/ Before(b, a)
  <2>1. PICK i, j \in Nat : a = <<i, j>>
    OBVIOUS
  <2>2. PICK k, l \in Nat : b = <<k, l>>
    OBVIOUS
  <2> QED BY <2>1, <2>2 DEF Before
<1>3. ASSUME NEW a \in Nat \X Nat, NEW b \in Nat \X Nat, NEW c \in Nat \X Nat,
             Before(a, b), Before(b, c)
      PROVE  Before(a, c)
  BY <1>3 DEF Before
<1> QED BY <1>1, <1>2, <1>3

\* The earlier of two entries has fewer entries before it.
LEMMA RanksRise ==
    ASSUME NEW S, S \subseteq Nat \X Nat, IsFiniteSet(S),
           NEW a \in S, NEW b \in S, Before(b, a)
    PROVE  Cardinality({c \in S : Before(c, b)}) < Cardinality({c \in S : Before(c, a)})
<1> DEFINE before(x) == {c \in S : Before(c, x)}
<1>1. before(b) \subseteq before(a) /\ b \in before(a) \ before(b)
  BY BeforeIsOrder
<1>2. IsFiniteSet(before(a)) /\ IsFiniteSet(before(b))
  BY FS_Subset
<1>3. /\ Cardinality(before(b)) <= Cardinality(before(a))
      /\ Cardinality(before(b)) # Cardinality(before(a))
  <2> HIDE DEF before
  <2>1. before(b) \in SUBSET before(a) /\ before(a) # before(b)
    BY <1>1
  <2> QED BY <1>2, <2>1, FS_Subset
<1>4. Cardinality(before(a)) \in Nat /\ Cardinality(before(b)) \in Nat
  BY <1>2, FS_CardinalityType
<1> HIDE DEF before
<1>5. Cardinality(before(b)) < Cardinality(before(a))
  BY <1>3, <1>4
<1> QED BY <1>5 DEF before

\* A set of entries has a first one.
LEMMA FirstExists ==
    ASSUME NEW S, S \subseteq Nat \X Nat, IsFiniteSet(S), S # {}
    PROVE  \E a \in S : {c \in S : Before(c, a)} = {}
<1> DEFINE rank(x) == Cardinality({c \in S : Before(c, x)})
           ranks == {rank(x) : x \in S}
<1>1. \A x \in S : rank(x) \in Nat
  <2>1. \A x \in S : IsFiniteSet({c \in S : Before(c, x)})
    BY FS_Subset
  <2> QED BY <2>1, FS_CardinalityType
<1>2. PICK m \in ranks : \A k \in ranks : m <= k
  <2>1. ranks \in SUBSET Nat /\ ranks # {}
    BY <1>1
  <2> HIDE DEF ranks
  <2> QED BY <2>1, LeastNumber
<1>3. PICK a \in S : m = rank(a)
  BY <1>2
<1>4. ASSUME NEW b \in S, Before(b, a) PROVE FALSE
  <2>1. rank(b) < rank(a)
    BY <1>4, RanksRise
  <2>2. rank(a) <= rank(b)
    BY <1>2, <1>3
  <2> HIDE DEF rank
  <2> QED BY <1>1, <2>1, <2>2
<1> QED BY <1>4

\* The last one, by the same argument from the other end.
LEMMA LastExists ==
    ASSUME NEW S, S \subseteq Nat \X Nat, IsFiniteSet(S), S # {}
    PROVE  /\ LastOf(S) \in S
           /\ \A b \in S \ {LastOf(S)} : Before(b, LastOf(S))
<1> DEFINE after(x) == {c \in S : Before(x, c)}
           rank(x) == Cardinality(after(x))
           ranks == {rank(x) : x \in S}
<1>1. \A x \in S : IsFiniteSet(after(x)) /\ rank(x) \in Nat
  <2>1. \A x \in S : IsFiniteSet(after(x))
    BY FS_Subset
  <2> HIDE DEF after
  <2> QED BY <2>1, FS_CardinalityType
<1>2. PICK m \in ranks : \A k \in ranks : m <= k
  <2>1. ranks \in SUBSET Nat /\ ranks # {}
    BY <1>1
  <2> HIDE DEF ranks
  <2> QED BY <2>1, LeastNumber
<1>3. PICK a \in S : m = rank(a)
  BY <1>2
<1>4. ASSUME NEW b \in S, Before(a, b) PROVE FALSE
  <2>1. after(b) \subseteq after(a) /\ b \in after(a) \ after(b)
    BY <1>4, BeforeIsOrder
  <2>2. rank(b) <= rank(a) /\ rank(b) # rank(a)
    <3> HIDE DEF after
    <3>1. after(b) \in SUBSET after(a) /\ after(a) # after(b)
      BY <2>1
    <3> QED BY <1>1, <3>1, FS_Subset
  <2>3. rank(a) <= rank(b)
    BY <1>2, <1>3
  <2>4. rank(a) \in Nat /\ rank(b) \in Nat
    BY <1>1
  <2> HIDE DEF rank
  <2> QED BY <2>2, <2>3, <2>4
<1>5. \A b \in S \ {a} : Before(b, a)
  BY <1>4, BeforeIsOrder
<1> QED BY <1>5 DEF LastOf

\* The first n entries: there are some if there is any, and no other comes before one
\* of them.
LEMMA FirstOfIs ==
    ASSUME NEW S, S \subseteq Nat \X Nat, IsFiniteSet(S), NEW n \in Nat \ {0}
    PROVE  /\ FirstOf(S, n) \subseteq S /\ IsFiniteSet(FirstOf(S, n))
           /\ S # {} => FirstOf(S, n) # {}
           /\ \A a \in S \ FirstOf(S, n), b \in FirstOf(S, n) : Before(b, a)
<1>1. FirstOf(S, n) \subseteq S /\ IsFiniteSet(FirstOf(S, n))
  <2>1. FirstOf(S, n) \in SUBSET S
    BY DEF FirstOf
  <2> QED BY <2>1, FS_Subset
<1>2. ASSUME S # {} PROVE FirstOf(S, n) # {}
  <2>1. PICK a \in S : {c \in S : Before(c, a)} = {}
    BY <1>2, FirstExists
  <2>2. Cardinality({c \in S : Before(c, a)}) = 0
    BY <2>1, FS_EmptySet
  <2>3. a \in FirstOf(S, n)
    BY <2>2 DEF FirstOf
  <2> QED BY <2>3
<1>3. ASSUME NEW a \in S \ FirstOf(S, n), NEW b \in FirstOf(S, n) PROVE Before(b, a)
  <2> DEFINE rank(x) == Cardinality({c \in S : Before(c, x)})
  <2>1. rank(b) < n /\ ~(rank(a) < n) /\ b \in S /\ a # b
    BY DEF FirstOf
  <2>2. rank(a) \in Nat /\ rank(b) \in Nat
    <3>1. \A x \in S : IsFiniteSet({c \in S : Before(c, x)})
      BY FS_Subset
    <3> QED BY <2>1, <3>1, FS_CardinalityType
  <2>3. ASSUME Before(a, b) PROVE FALSE
    <3>1. rank(a) < rank(b)
      BY <2>1, <2>3, RanksRise
    <3> HIDE DEF rank
    <3> QED BY <2>1, <2>2, <3>1
  <2> QED BY <2>1, <2>3, BeforeIsOrder
<1> QED BY <1>1, <1>2, <1>3

-----------------------------------------------------------------------------
(* The sums of sizes.                                                       *)

LEMMA BytesOfOne ==
    ASSUME NEW h \in Hashes
    PROVE  /\ IsFiniteSet({h} \X (1..Size[h])) /\ Cardinality({h} \X (1..Size[h])) = Size[h]
           /\ Size[h] \in Nat
<1> DEFINE one == {h}
           bytes == 1..Size[h]
<1>1. Size[h] \in Nat
  BY CatalogueAssumption DEF CatalogueAssumption
<1>2. IsFiniteSet(one) /\ Cardinality(one) = 1
  BY FS_Singleton
<1>3. IsFiniteSet(bytes) /\ Cardinality(bytes) = Size[h]
  <2>1. IsFiniteSet(bytes) /\ Cardinality(bytes) = IF 1 > Size[h] THEN 0 ELSE Size[h] - 1 + 1
    BY <1>1, FS_Interval
  <2> QED BY <1>1, <2>1
<1> HIDE DEF one, bytes
<1>4. IsFiniteSet(one \X bytes) /\ Cardinality(one \X bytes) = Cardinality(one) * Cardinality(bytes)
  BY <1>2, <1>3, FS_Product
<1>5. Cardinality(one \X bytes) = Size[h]
  BY <1>1, <1>2, <1>3, <1>4
<1> QED BY <1>1, <1>4, <1>5 DEF one, bytes

LEMMA BytesFinite ==
    ASSUME NEW S \in SUBSET Hashes
    PROVE  IsFiniteSet(Bytes(S)) /\ SumSizes(S) \in Nat
<1> DEFINE All == {{h} \X (1..Size[h]) : h \in S}
           f == [h \in S |-> {h} \X (1..Size[h])]
<1>1. IsFiniteSet(All)
  <2>1. f \in Surjection(S, All)
    BY DEF Surjection
  <2>2. IsFiniteSet(S)
    BY CatalogueAssumption, FS_Subset DEF CatalogueAssumption
  <2> QED BY <2>1, <2>2, FS_Surjection
<1>2. \A T \in All : IsFiniteSet(T)
  BY BytesOfOne
<1>3. IsFiniteSet(UNION All)
  BY <1>1, <1>2, FS_UNION
<1> QED BY <1>3, FS_CardinalityType DEF Bytes, SumSizes

\* One more blob adds its size to the sum.
LEMMA OneMoreAdds ==
    ASSUME NEW S \in SUBSET Hashes, NEW h \in Hashes \ S
    PROVE  SumSizes(S \cup {h}) = SumSizes(S) + Size[h]
<1> DEFINE new == {h} \X (1..Size[h])
<1>1. IsFiniteSet(new) /\ Cardinality(new) = Size[h] /\ Size[h] \in Nat
  BY BytesOfOne
<1>2. IsFiniteSet(Bytes(S)) /\ Cardinality(Bytes(S)) \in Nat
  BY BytesFinite DEF SumSizes
<1>3. Bytes(S \cup {h}) = Bytes(S) \cup new /\ Bytes(S) \cap new = {}
  BY DEF Bytes
<1>4. Cardinality(Bytes(S) \cap new) = 0
  BY <1>3, FS_EmptySet
<1> HIDE DEF new
<1>5. Cardinality(Bytes(S) \cup new) =
        Cardinality(Bytes(S)) + Cardinality(new) - Cardinality(Bytes(S) \cap new)
  BY <1>1, <1>2, FS_Union
<1>6. Cardinality(Bytes(S) \cup new) = Cardinality(Bytes(S)) + Size[h]
  BY <1>1, <1>2, <1>4, <1>5
<1> QED BY <1>3, <1>6 DEF SumSizes

\* What the index holds of types.
IndexOK ==
    /\ map \in [Hashes -> 0..MaxClock \cup {Nothing}]
    /\ clock \in 0..MaxClock /\ generation \in 1..MaxChanges
    /\ AggregatesExact

\* Insert keeps the aggregates exact, whether it replaces an entry or not.
LEMMA InsertKeepsAggregates ==
    ASSUME IndexOK, generation < MaxChanges, NEW h \in Hashes, NEW at \in 0..MaxClock,
           Insert(h, at), clock' = clock
    PROVE  IndexOK' /\ Indexed' = Indexed \cup {h}
<1>1. /\ map' = [map EXCEPT ![h] = at] /\ map' \in [Hashes -> 0..MaxClock \cup {Nothing}]
      /\ map'[h] = at /\ \A g \in Hashes \ {h} : map'[g] = map[g]
  BY DEF IndexOK, Insert
<1>2. Nothing \notin 0..MaxClock /\ Size[h] \in Nat
  BY CatalogueAssumption DEF CatalogueAssumption
<1>3. Indexed' = Indexed \cup {h} /\ Indexed \in SUBSET Hashes
  BY <1>1, <1>2 DEF Indexed
<1>4. total' = SumSizes(Indexed')
  <2>1. total = SumSizes(Indexed) /\ total \in Nat
    BY <1>3, BytesFinite DEF IndexOK, AggregatesExact
  <2>2. CASE map[h] = Nothing
    <3>1. total' = total + Size[h]
      BY <1>2, <2>1, <2>2 DEF Insert
    <3>2. h \in Hashes \ Indexed
      BY <2>2 DEF Indexed
    <3> QED BY <1>3, <2>1, <3>1, <3>2, OneMoreAdds
  <2>3. CASE map[h] # Nothing
    <3>1. total' = total
      BY <1>2, <2>1, <2>3 DEF Insert
    <3>2. Indexed' = Indexed
      BY <1>3, <2>3 DEF Indexed
    <3> QED BY <2>1, <3>1, <3>2
  <2> QED BY <2>2, <2>3
<1>5. order' = OrderOf(map')
  <2>1. order' = (OrderOf(map) \ {<<map[h], h>>}) \cup {<<at, h>>}
    BY DEF Insert, IndexOK, AggregatesExact
  <2>2. \A x : x \in OrderOf(map') <=>
          \E g \in Hashes : map'[g] # Nothing /\ x = <<map'[g], g>>
    BY DEF OrderOf
  <2>3. \A x : x \in OrderOf(map) <=> \E g \in Hashes : map[g] # Nothing /\ x = <<map[g], g>>
    BY DEF OrderOf
  <2>4. ASSUME NEW x \in order' PROVE x \in OrderOf(map')
    BY <1>1, <1>2, <2>1, <2>2, <2>3, <2>4
  <2>5. ASSUME NEW x \in OrderOf(map') PROVE x \in order'
    BY <1>1, <1>2, <2>1, <2>2, <2>3, <2>5
  <2> QED BY <2>4, <2>5
<1>6. generation' \in 1..MaxChanges
  BY CatalogueAssumption DEF CatalogueAssumption, Insert, IndexOK
<1> QED BY <1>1, <1>3, <1>4, <1>5, <1>6 DEF IndexOK, AggregatesExact

LEMMA RemoveKeepsAggregates ==
    ASSUME IndexOK, NEW h \in Hashes, Remove(h)
    PROVE  IndexOK' /\ Indexed' = Indexed \ {h}
<1>1. /\ map' \in [Hashes -> 0..MaxClock \cup {Nothing}]
      /\ map'[h] = Nothing /\ \A g \in Hashes \ {h} : map'[g] = map[g]
  BY DEF IndexOK, Remove
<1>2. h \in Indexed /\ Indexed \in SUBSET Hashes /\ Size[h] \in Nat
  BY CatalogueAssumption DEF CatalogueAssumption, Indexed, Remove
<1>3. Indexed' = Indexed \ {h}
  BY <1>1 DEF Indexed
<1>4. total' = SumSizes(Indexed')
  <2>1. SumSizes((Indexed \ {h}) \cup {h}) = SumSizes(Indexed \ {h}) + Size[h]
    BY <1>2, OneMoreAdds
  <2>2. (Indexed \ {h}) \cup {h} = Indexed
    BY <1>2
  <2>3. SumSizes(Indexed \ {h}) \in Nat
    BY <1>2, BytesFinite
  <2>4. total' = SumSizes(Indexed) - Size[h]
    BY DEF Remove, IndexOK, AggregatesExact
  <2>5. SumSizes(Indexed) = SumSizes(Indexed \ {h}) + Size[h]
    BY <2>1, <2>2
  <2>6. total' = SumSizes(Indexed \ {h})
    BY <1>2, <2>3, <2>4, <2>5
  <2> QED BY <1>3, <2>6
<1>5. order' = OrderOf(map')
  <2>1. order' = OrderOf(map) \ {<<map[h], h>>}
    BY DEF Remove, IndexOK, AggregatesExact
  <2>2. \A x : x \in OrderOf(map') <=>
          \E g \in Hashes : map'[g] # Nothing /\ x = <<map'[g], g>>
    BY DEF OrderOf
  <2>3. \A x : x \in OrderOf(map) <=> \E g \in Hashes : map[g] # Nothing /\ x = <<map[g], g>>
    BY DEF OrderOf
  <2>4. ASSUME NEW x \in order' PROVE x \in OrderOf(map')
    BY <1>1, <2>1, <2>2, <2>3, <2>4
  <2>5. ASSUME NEW x \in OrderOf(map') PROVE x \in order'
    BY <1>1, <2>1, <2>2, <2>3, <2>5
  <2> QED BY <2>4, <2>5
<1>6. clock' = clock /\ generation' \in 1..MaxChanges
  BY CatalogueAssumption DEF CatalogueAssumption, Remove, MayChange, Note, IndexOK
<1> QED BY <1>1, <1>3, <1>4, <1>5, <1>6 DEF IndexOK, AggregatesExact

-----------------------------------------------------------------------------
(* Pages.                                                                   *)

Place(h) == <<map[h], h>>
Resumes(cur, win) == cur # Nothing /\ InWindow(map[cur], win)

\* What a walk that goes on from cur has still to be shown.
Ahead(cur, win) ==
    {Place(h) : h \in {g \in Indexed : /\ InWindow(map[g], win)
                                       /\ Resumes(cur, win) => Before(Place(cur), Place(g))}}

LEMMA PlacesAreEntries ==
    ASSUME IndexOK
    PROVE  /\ order = {Place(h) : h \in Indexed} /\ order \subseteq (0..MaxClock) \X Hashes
           /\ order \subseteq Nat \X Nat /\ IsFiniteSet(order)
           /\ \A h \in Indexed : map[h] \in 0..MaxClock /\ Place(h) \in order
<1>1. order = {Place(h) : h \in Indexed}
  BY DEF IndexOK, AggregatesExact, OrderOf, Indexed, Place
<1>2. \A h \in Indexed : map[h] \in 0..MaxClock /\ h \in Hashes
  BY DEF IndexOK, Indexed
<1>3. order \subseteq (0..MaxClock) \X Hashes
  BY <1>1, <1>2 DEF Place
<1>4. Hashes \subseteq Nat /\ IsFiniteSet(Hashes) /\ MaxClock \in Nat
  BY CatalogueAssumption DEF CatalogueAssumption
<1>5. IsFiniteSet(order)
  <2>1. IsFiniteSet(0..MaxClock)
    BY <1>4, FS_Interval
  <2>2. IsFiniteSet((0..MaxClock) \X Hashes)
    BY <1>4, <2>1, FS_Product
  <2> QED BY <1>3, <2>2, FS_Subset
<1>6. order \subseteq Nat \X Nat
  <2>1. 0..MaxClock \subseteq Nat
    BY <1>4
  <2>2. (0..MaxClock) \X Hashes \subseteq Nat \X Nat
    BY <1>4, <2>1
  <2> QED BY <1>3, <2>2
<1> QED BY <1>1, <1>2, <1>3, <1>5, <1>6

\* A page shows the first of what lies ahead.
LEMMA PageIs ==
    ASSUME IndexOK, NEW win, NEW cur \in Hashes \cup {Nothing}
    PROVE  LET page == Page(win, cur, Limit) IN
           /\ page \subseteq Ahead(cur, win)
           /\ \A a \in page : a[2] \in Indexed /\ a = Place(a[2])
           /\ page = {} => Ahead(cur, win) = {}
           /\ \A a \in Ahead(cur, win) \ page : \A b \in page : Before(b, a)
           /\ page # {} => /\ LastOf(page) \in page
                           /\ \A b \in page \ {LastOf(page)} : Before(b, LastOf(page))
<1> DEFINE page == Page(win, cur, Limit)
           ahead == Ahead(cur, win)
<1>1. \A a \in order : a[2] \in Indexed /\ a = Place(a[2])
  BY PlacesAreEntries DEF Place
<1>2. page = FirstOf(ahead, Limit)
  <2> DEFINE after == IF Resumes(cur, win) THEN {a \in order : Before(Place(cur), a)} ELSE order
             shown == {a \in after : InWindow(map[a[2]], win)}
  <2>1. page = FirstOf(shown, Limit)
    BY Zenon DEF Page, Resumes, Place
  <2>2. ASSUME NEW a \in shown PROVE a \in ahead
    <3>1. a \in order /\ InWindow(map[a[2]], win) /\ (Resumes(cur, win) => Before(Place(cur), a))
      OBVIOUS
    <3>2. a[2] \in Indexed /\ a = Place(a[2])
      BY <1>1, <3>1
    <3> QED BY <3>1, <3>2 DEF Ahead
  <2>3. ASSUME NEW a \in ahead PROVE a \in shown
    <3>1. PICK h \in Indexed : /\ a = Place(h) /\ InWindow(map[h], win)
                               /\ Resumes(cur, win) => Before(Place(cur), Place(h))
      BY DEF Ahead
    <3>2. Place(h) \in order /\ Place(h)[2] = h
      BY PlacesAreEntries DEF Place
    <3> QED BY <3>1, <3>2
  <2>4. shown = ahead
    BY <2>2, <2>3
  <2> HIDE DEF shown, ahead
  <2> QED BY <2>1, <2>4
<1>3. ahead \subseteq order
  BY PlacesAreEntries DEF Ahead
<1>4. ahead \subseteq Nat \X Nat /\ IsFiniteSet(ahead) /\ Limit \in Nat \ {0}
  BY <1>3, PlacesAreEntries, FS_Subset, CatalogueAssumption DEF CatalogueAssumption
<1> HIDE DEF page, ahead
<1>5. /\ page \subseteq ahead /\ IsFiniteSet(page) /\ (ahead # {} => page # {})
      /\ \A a \in ahead \ page : \A b \in page : Before(b, a)
  BY <1>2, <1>4, FirstOfIs
<1>6. page # {} => LastOf(page) \in page /\ \A b \in page \ {LastOf(page)} : Before(b, LastOf(page))
  BY <1>4, <1>5, LastExists
<1>7. \A a \in page : a[2] \in Indexed /\ a = Place(a[2])
  BY <1>1, <1>3, <1>5
<1> QED BY <1>5, <1>6, <1>7 DEF page, ahead

-----------------------------------------------------------------------------
(* The inductive invariant.                                                 *)

WalkTypes ==
    /\ active \in Populations
    /\ wpc \in [Walkers -> {"idle", "walking", "done"}]
    /\ window \in [Walkers -> Windows \cup {Nothing}]
    /\ cursor \in [Walkers -> Hashes \cup {Nothing}]
    /\ listed \in [Walkers -> SUBSET Hashes] /\ repeated \in [Walkers -> SUBSET Hashes]
    /\ stable \in [Walkers -> SUBSET Hashes]
    /\ mark \in [Walkers -> 0..MaxClock \cup {Nothing}]
    /\ lost \subseteq Walkers /\ sunk \subseteq Walkers

\* Where the cursor was when the walk received it.
Mark(w) == <<mark[w], cursor[w]>>

\* A blob that stays and is not listed comes after the place where the walk's cursor
\* was received; one that is listed is not ahead of the cursor, unless the cursor was
\* moved or removed.
WalkOK(w) ==
    /\ wpc[w] = "idle" => listed[w] = {} /\ repeated[w] = {} /\ cursor[w] = Nothing
    /\ wpc[w] # "idle" => stable[w] \subseteq Indexed
    /\ cursor[w] # Nothing => mark[w] # Nothing
    /\ wpc[w] = "walking" /\ w \notin sunk =>
         \A h \in stable[w] \ listed[w] :
             InWindow(map[h], window[w]) /\ cursor[w] # Nothing => Before(Mark(w), Place(h))
    /\ wpc[w] = "walking" /\ w \notin lost =>
         IF cursor[w] = Nothing THEN listed[w] = {}
         ELSE /\ Resumes(cursor[w], window[w])
              /\ \A h \in listed[w] \cap stable[w] : ~Before(Place(cursor[w]), Place(h))
    /\ wpc[w] = "done" /\ w \notin sunk =>
         \A h \in stable[w] : InWindow(map[h], window[w]) => h \in listed[w]
    /\ w \notin lost => repeated[w] \cap stable[w] = {}

FilterTypes ==
    /\ cache \in Filters \cup {Nothing}
    /\ writer \in Requests \cup {Nothing}
    /\ fpc \in [Requests -> {"idle", "read", "wait", "render", "answered"}]
    /\ rate \in [Requests -> Rates \cup {Nothing}] /\ seenGen \in [Requests -> Nat]
    /\ answer \in [Requests -> Filters \cup {Nothing}]
    /\ always \in [Requests -> SUBSET Hashes] /\ ever \in [Requests -> SUBSET Hashes]

\* The cached filter is that of its generation.
CacheOK ==
    /\ writer # Nothing => fpc[writer] = "render"
    /\ cache # Nothing =>
         /\ cache.generation <= generation
         /\ cache.generation = generation => cache.keys = Indexed

\* A request may be answered with the filter of the generation it has read.
FilterOK(r) ==
    /\ always[r] \subseteq Indexed
    /\ fpc[r] # "idle" =>
         /\ rate[r] \in Rates /\ seenGen[r] <= generation /\ Indexed \subseteq ever[r]
         /\ cache # Nothing /\ cache.generation = seenGen[r] =>
              always[r] \subseteq cache.keys /\ cache.keys \subseteq ever[r]
    /\ fpc[r] = "render" => writer = r /\ ~Hit(r)
    /\ fpc[r] = "answered" =>
         /\ answer[r] # Nothing
         /\ always[r] \subseteq answer[r].keys /\ answer[r].keys \subseteq ever[r]
         /\ Algorithm = "bloom" => answer[r].rate = rate[r]

WalkInv == IndexOK /\ WalkTypes /\ \A w \in Walkers : WalkOK(w)
FilterInv == FilterTypes /\ CacheOK /\ \A r \in Requests : FilterOK(r)

\* Whatever happens to one entry, walks know where the others are.
LEMMA NoteKeepsWalk ==
    ASSUME WalkInv, IndexOK', NEW h \in Hashes, NEW at \in 0..MaxClock \cup {Nothing},
           map' = [map EXCEPT ![h] = at], Note(h, at), NEW w \in Walkers
    PROVE  WalkOK(w)'
<1>1. /\ map'[h] = at /\ \A g \in Hashes \ {h} : map'[g] = map[g]
      /\ UNCHANGED <<wpc, window, cursor, listed, repeated, mark, sunk>>
      /\ stable'[w] = stable[w] \ {h} /\ stable[w] \subseteq Hashes
      /\ w \notin lost' => w \notin lost /\ (wpc[w] = "walking" => cursor[w] # h)
      /\ cursor[w] \in Hashes \cup {Nothing} /\ WalkOK(w)
  BY DEF WalkInv, IndexOK, WalkTypes, Note
<1>2. \A g \in stable'[w] : g \in stable[w] /\ g \in Hashes \ {h} /\ map'[g] = map[g]
  BY <1>1
<1>3. wpc[w] # "idle" => stable'[w] \subseteq Indexed'
  <2>1. wpc[w] # "idle" => \A g \in stable'[w] : g \in Hashes /\ map'[g] # Nothing
    BY <1>1, <1>2 DEF WalkOK, Indexed
  <2> QED BY <2>1 DEF Indexed
<1>4. Mark(w)' = Mark(w) /\ \A g \in stable'[w] : Place(g)' = Place(g)
  BY <1>1, <1>2 DEF Mark, Place
<1>5. ASSUME wpc[w] = "walking", w \notin sunk, NEW g \in stable'[w] \ listed[w],
             InWindow(map'[g], window[w]), cursor[w] # Nothing
      PROVE  Before(Mark(w), Place(g))'
  <2>1. g \in stable[w] \ listed[w] /\ InWindow(map[g], window[w])
    BY <1>2, <1>5
  <2>2. Before(Mark(w), Place(g))
    BY <1>1, <1>5, <2>1 DEF WalkOK
  <2> QED BY <1>4, <1>5, <2>2 DEF Before
<1>6. ASSUME wpc[w] = "walking", w \notin lost', cursor[w] # Nothing
      PROVE  /\ Resumes(cursor[w], window[w])'
             /\ \A g \in listed[w] \cap stable'[w] : ~Before(Place(cursor[w]), Place(g))'
  <2>1. map'[cursor[w]] = map[cursor[w]]
    BY <1>1, <1>6
  <2>2. /\ Resumes(cursor[w], window[w])
        /\ \A g \in listed[w] \cap stable[w] : ~Before(Place(cursor[w]), Place(g))
    BY <1>1, <1>6 DEF WalkOK
  <2> QED BY <1>1, <1>2, <2>1, <2>2 DEF Resumes, Place
<1>7. ASSUME wpc[w] = "done", w \notin sunk, NEW g \in stable'[w], InWindow(map'[g], window[w])
      PROVE  g \in listed[w]
  BY <1>1, <1>2, <1>7 DEF WalkOK
<1>8. /\ wpc[w] = "idle" => listed[w] = {} /\ repeated[w] = {} /\ cursor[w] = Nothing
      /\ cursor[w] # Nothing => mark[w] # Nothing
  BY <1>1 DEF WalkOK
<1>9. wpc[w] = "walking" /\ w \notin lost' /\ cursor[w] = Nothing => listed[w] = {}
  BY <1>1 DEF WalkOK
<1>10. w \notin lost' => repeated[w] \cap stable'[w] = {}
  BY <1>1 DEF WalkOK
<1> QED BY <1>1, <1>3, <1>5, <1>6, <1>7, <1>8, <1>9, <1>10 DEF WalkOK

LEMMA NoteKeepsWalks ==
    ASSUME WalkInv, IndexOK', NEW h \in Hashes, NEW at \in 0..MaxClock \cup {Nothing},
           map' = [map EXCEPT ![h] = at], Note(h, at)
    PROVE  WalkInv'
<1>1. WalkTypes'
  BY DEF WalkInv, WalkTypes, Note
<1>2. \A w \in Walkers : WalkOK(w)'
  BY NoteKeepsWalk
<1> QED BY <1>1, <1>2 DEF WalkInv

\* A walk that goes on from a cursor no older than it was when received has what it
\* has not listed ahead of it.
LEMMA UnlistedIsAhead ==
    ASSUME WalkInv, NEW w \in Walkers, wpc[w] = "walking", w \notin sunk, ~SinksNow(w),
           NEW h \in stable[w] \ listed[w], InWindow(map[h], window[w])
    PROVE  Place(h) \in Ahead(cursor[w], window[w])
<1>1. /\ WalkOK(w) /\ IndexOK /\ cursor[w] \in Hashes \cup {Nothing}
      /\ mark[w] \in 0..MaxClock \cup {Nothing} /\ stable[w] \subseteq Indexed
  BY DEF WalkInv, WalkTypes, WalkOK
<1>2. ASSUME Resumes(cursor[w], window[w]) PROVE Before(Place(cursor[w]), Place(h))
  <2>1. cursor[w] # Nothing /\ InWindow(map[cursor[w]], window[w]) /\ mark[w] # Nothing
    BY <1>1, <1>2 DEF Resumes, WalkOK
  <2>2. Before(Mark(w), Place(h))
    BY <1>1, <2>1 DEF WalkOK
  <2>3. cursor[w] \in Indexed
    BY <1>1, <2>1 DEF InWindow, Indexed
  <2>4. /\ Place(cursor[w]) \in Nat \X Nat /\ Place(h) \in Nat \X Nat
        /\ map[cursor[w]] \in Nat
    BY <1>1, <2>3, PlacesAreEntries, CatalogueAssumption DEF CatalogueAssumption
  <2>5. mark[w] \in Nat /\ cursor[w] \in Nat
    <3>1. mark[w] \in 0..MaxClock /\ cursor[w] \in Hashes
      BY <1>1, <2>1
    <3>2. MaxClock \in Nat /\ Hashes \subseteq Nat
      BY CatalogueAssumption DEF CatalogueAssumption
    <3>3. 0..MaxClock \subseteq Nat
      BY <3>2
    <3> QED BY <3>1, <3>2, <3>3
  <2>6. ~(map[cursor[w]] < mark[w])
    BY <2>1 DEF SinksNow
  <2>7. Place(cursor[w]) = Mark(w) \/ Before(Place(cursor[w]), Mark(w))
    BY <2>4, <2>5, <2>6 DEF Place, Mark, Before
  <2>8. Mark(w) \in Nat \X Nat
    BY <2>5 DEF Mark
  <2> QED BY <2>2, <2>4, <2>7, <2>8, BeforeIsOrder
<1> QED BY <1>1, <1>2 DEF Ahead

\* A page moves what it shows from ahead to the list.
LEMMA NextPageKeepsWalks == ASSUME WalkInv, NEW w \in Walkers, NextPage(w) PROVE WalkInv'
<1> DEFINE win == window[w]
           cur == cursor[w]
           page == Page(win, cur, Limit)
           got == {a[2] : a \in page}
<1>1. /\ UNCHANGED <<map, order, total, generation, clock, active, window, stable, lost>>
      /\ sunk' = IF SinksNow(w) THEN sunk \cup {w} ELSE sunk
      /\ wpc[w] = "walking" /\ WalkOK(w) /\ IndexOK /\ WalkTypes
      /\ cur \in Hashes \cup {Nothing} /\ listed[w] \in SUBSET Hashes
  BY DEF WalkInv, WalkTypes, NextPage, entries, filters
<1>2. IndexOK' /\ Indexed' = Indexed
  BY <1>1 DEF IndexOK, AggregatesExact, Indexed, SumSizes, Bytes, OrderOf
<1>3. \A c, x : Ahead(c, x)' = Ahead(c, x) /\ Resumes(c, x)' = Resumes(c, x)
  BY <1>1, <1>2 DEF Ahead, Resumes, Place
<1>4. \A h : Place(h)' = Place(h)
  BY <1>1 DEF Place
<1>5. /\ page \subseteq Ahead(cur, win)
      /\ \A a \in page : a[2] \in Indexed /\ a = Place(a[2])
      /\ page = {} => Ahead(cur, win) = {}
      /\ \A a \in Ahead(cur, win) \ page : \A b \in page : Before(b, a)
      /\ page # {} => /\ LastOf(page) \in page
                      /\ \A b \in page \ {LastOf(page)} : Before(b, LastOf(page))
  BY <1>1, PageIs
<1>6. stable[w] \subseteq Indexed
  BY <1>1 DEF WalkOK
<1>7. /\ \A v \in Walkers \ {w} : v \in sunk' <=> v \in sunk
      /\ sunk \subseteq sunk' /\ sunk' \subseteq Walkers
      /\ w \notin sunk' => w \notin sunk /\ ~SinksNow(w)
  BY <1>1 DEF WalkTypes
<1>8. ASSUME w \notin sunk', NEW h \in stable[w] \ listed[w], InWindow(map[h], win)
       PROVE  Place(h) \in Ahead(cur, win)
  BY <1>1, <1>7, <1>8, UnlistedIsAhead
<1>9. CASE page = {}
  <2>1. wpc' = [wpc EXCEPT ![w] = "done"] /\ UNCHANGED <<cursor, listed, repeated, mark>>
    BY <1>9 DEF NextPage
  <2>2. WalkTypes'
    BY <1>1, <1>7, <2>1 DEF WalkTypes
  <2>3. ASSUME NEW v \in Walkers \ {w} PROVE WalkOK(v)'
    <3>1. WalkOK(v) /\ wpc'[v] = wpc[v] /\ Mark(v)' = Mark(v)
      BY <1>1, <2>1 DEF WalkInv, WalkTypes, Mark
    <3> QED BY <1>1, <1>2, <1>3, <1>4, <1>7, <2>1, <3>1 DEF WalkOK, Before
  <2>4. WalkOK(w)'
    <3>1. wpc'[w] = "done"
      BY <1>1, <2>1 DEF WalkTypes
    <3>2. w \notin sunk' => \A h \in stable[w] : InWindow(map[h], window[w]) => h \in listed[w]
      BY <1>5, <1>9, <1>8
    <3>3. /\ w \notin lost => repeated[w] \cap stable[w] = {}
          /\ cursor[w] # Nothing => mark[w] # Nothing
      BY <1>1 DEF WalkOK
    <3> QED BY <1>1, <1>2, <1>6, <2>1, <3>1, <3>2, <3>3 DEF WalkOK
  <2> QED BY <1>2, <2>2, <2>3, <2>4 DEF WalkInv
<1>10. CASE page # {}
  <2> DEFINE last == LastOf(page)[2]
             time == LastOf(page)[1]
  <2>1. /\ cursor' = [cursor EXCEPT ![w] = last]
        /\ listed' = [listed EXCEPT ![w] = @ \cup got]
        /\ repeated' = [repeated EXCEPT ![w] = @ \cup (got \cap listed[w])]
        /\ mark' = [mark EXCEPT ![w] = time]
        /\ UNCHANGED wpc
    BY <1>10 DEF NextPage
  <2>2. /\ last \in Indexed /\ LastOf(page) = Place(last)
        /\ Place(last) \in Ahead(cur, win) /\ Indexed \subseteq Hashes
        /\ Place(last) = <<time, last>>
    BY <1>5, <1>10 DEF Indexed, Place
  <2>3. \A h \in got : h \in Indexed /\ Place(h) \in page
    BY <1>5
  <2>4. \A h \in Indexed : Place(h) \in page => h \in got
    BY DEF Place
  <2>5. \A g, h : Place(g) = Place(h) => g = h
    BY DEF Place
  <2>6. got \in SUBSET Hashes /\ last \in Hashes /\ time \in 0..MaxClock
    <3>1. time = map[last] /\ map[last] \in 0..MaxClock
      BY <1>1, <2>2, PlacesAreEntries DEF Place
    <3> QED BY <2>2, <2>3, <3>1
  <2> HIDE DEF got, last, page, time
  <2>7. WalkTypes'
    BY <1>1, <1>7, <2>1, <2>6 DEF WalkTypes
  <2>8. ASSUME NEW v \in Walkers \ {w} PROVE WalkOK(v)'
    <3>1. /\ WalkOK(v) /\ cursor'[v] = cursor[v]
          /\ listed'[v] = listed[v] /\ repeated'[v] = repeated[v]
          /\ mark'[v] = mark[v] /\ Mark(v)' = Mark(v)
      BY <1>1, <2>1 DEF WalkInv, WalkTypes, Mark
    <3> QED BY <1>1, <1>2, <1>3, <1>4, <1>7, <2>1, <3>1 DEF WalkOK, Before
  <2>9. /\ cursor'[w] = last /\ listed'[w] = listed[w] \cup got
        /\ repeated'[w] = repeated[w] \cup (got \cap listed[w])
        /\ mark'[w] = time /\ Mark(w)' = Place(last)
    BY <1>1, <2>1, <2>2 DEF WalkTypes, Mark
  <2>11. InWindow(map[last], win) /\ Resumes(last, win)
    <3>1. PICK k \in Indexed : Place(k) = Place(last) /\ InWindow(map[k], win)
      BY <2>2 DEF Ahead
    <3>2. last # Nothing
      BY <2>6, CatalogueAssumption DEF CatalogueAssumption
    <3> QED BY <2>5, <3>1, <3>2 DEF Resumes
  <2>12. ASSUME w \notin sunk', NEW h \in stable[w] \ (listed[w] \cup got), InWindow(map[h], win)
         PROVE  Before(Place(last), Place(h))
    <3>1. h \in Indexed /\ Place(h) \in Ahead(cur, win) \ page
      BY <1>6, <1>8, <2>4, <2>12
    <3> QED BY <1>5, <1>10, <2>2, <3>1
  <2>13. ASSUME w \notin lost, NEW h \in (listed[w] \cup got) \cap stable[w]
         PROVE  ~Before(Place(last), Place(h))
    <3>1. h \in Indexed /\ last \in Indexed /\ Place(h) \in Nat \X Nat /\ Place(last) \in Nat \X Nat
      BY <1>1, <1>6, <2>2, PlacesAreEntries
    <3>2. CASE h \in got
      <4>1. Place(h) = Place(last) \/ Before(Place(h), Place(last))
        BY <1>5, <1>10, <2>2, <2>3, <3>2
      <4> QED BY <3>1, <4>1, BeforeIsOrder
    <3>3. CASE h \in listed[w]
      <4>1. cur # Nothing /\ Resumes(cur, win) /\ ~Before(Place(cur), Place(h))
        BY <1>1, <2>13, <3>3 DEF WalkOK
      <4>2. Before(Place(cur), Place(last))
        <5>1. PICK k \in Indexed : Place(k) = Place(last) /\ Before(Place(cur), Place(k))
          BY <2>2, <4>1 DEF Ahead
        <5> QED BY <5>1
      <4>3. Place(cur) \in Nat \X Nat
        <5>1. cur \in Indexed
          BY <1>1, <4>1, CatalogueAssumption DEF Resumes, InWindow, Indexed, CatalogueAssumption
        <5> QED BY <1>1, <5>1, PlacesAreEntries
      <4> QED BY <3>1, <4>1, <4>2, <4>3, BeforeIsOrder
    <3> QED BY <3>2, <3>3
  <2>14. ASSUME w \notin lost, NEW h \in got \cap listed[w] \cap stable[w] PROVE FALSE
    <3>1. Place(h) \in Ahead(cur, win)
      BY <1>5, <2>3, <2>14
    <3>2. cur # Nothing /\ Resumes(cur, win) /\ ~Before(Place(cur), Place(h))
      BY <1>1, <2>14 DEF WalkOK
    <3>3. PICK k \in Indexed : Place(k) = Place(h) /\ Before(Place(cur), Place(k))
      BY <3>1, <3>2 DEF Ahead
    <3> QED BY <3>2, <3>3
  <2>15. w \notin lost => repeated[w] \cap stable[w] = {}
    BY <1>1 DEF WalkOK
  <2>16. w \notin lost => (repeated[w] \cup (got \cap listed[w])) \cap stable[w] = {}
    BY <2>14, <2>15
  <2>17. wpc'[w] = "walking" /\ last # Nothing /\ time # Nothing
    BY <1>1, <2>1, <2>6, CatalogueAssumption DEF CatalogueAssumption
  <2>18. WalkOK(w)'
    BY <1>1, <1>2, <1>3, <1>4, <1>6, <2>9, <2>11, <2>12, <2>13, <2>16, <2>17 DEF WalkOK
  <2> QED BY <1>2, <2>7, <2>8, <2>18 DEF WalkInv
<1> QED BY <1>9, <1>10

\* A walk begins with everything in its window ahead of it.
LEMMA StartWalkKeepsWalks == ASSUME WalkInv, NEW w \in Walkers, StartWalk(w) PROVE WalkInv'
<1>1. /\ UNCHANGED <<map, order, total, generation, clock, active, cursor, listed, repeated,
                     lost, mark, sunk>>
      /\ wpc[w] = "idle" /\ IndexOK /\ WalkTypes
      /\ \A v \in Walkers : WalkOK(v)
  BY DEF WalkInv, StartWalk, entries, filters
<1>2. PICK win \in Windows : window' = [window EXCEPT ![w] = win]
  BY DEF StartWalk
<1>3. wpc' = [wpc EXCEPT ![w] = "walking"] /\ stable' = [stable EXCEPT ![w] = Indexed]
  BY DEF StartWalk
<1>4. IndexOK' /\ Indexed' = Indexed /\ Indexed \in SUBSET Hashes
  BY <1>1 DEF IndexOK, AggregatesExact, Indexed, SumSizes, Bytes, OrderOf
<1>5. WalkTypes'
  BY <1>1, <1>2, <1>3, <1>4 DEF WalkTypes
<1>6. \A c, x : Ahead(c, x)' = Ahead(c, x) /\ Resumes(c, x)' = Resumes(c, x)
  BY <1>1, <1>4 DEF Ahead, Resumes, Place
<1>7. \A h : Place(h)' = Place(h)
  BY <1>1 DEF Place
<1>8. ASSUME NEW v \in Walkers \ {w} PROVE WalkOK(v)'
  <2>1. WalkOK(v) /\ wpc'[v] = wpc[v] /\ window'[v] = window[v] /\ stable'[v] = stable[v]
    BY <1>1, <1>2, <1>3 DEF WalkTypes
  <2> QED BY <1>1, <1>4, <1>6, <1>7, <2>1 DEF WalkOK, Mark, Before
<1>9. WalkOK(w)'
  <2>1. wpc'[w] = "walking" /\ stable'[w] = Indexed /\ window'[w] = win
    BY <1>1, <1>2, <1>3 DEF WalkTypes
  <2>2. cursor[w] = Nothing /\ listed[w] = {} /\ repeated[w] = {}
    BY <1>1 DEF WalkOK
  <2>3. ~Resumes(Nothing, win)
    BY DEF Resumes
  <2> QED BY <1>1, <1>4, <1>6, <1>7, <2>1, <2>2, <2>3 DEF WalkOK
<1> QED BY <1>4, <1>5, <1>8, <1>9 DEF WalkInv

\* What leaves the entries and the walks alone keeps the invariant.
LEMMA OthersKeepWalks ==
    ASSUME WalkInv, UNCHANGED <<entries, active, walks>>, clock' \in 0..MaxClock
    PROVE  WalkInv'
<1>1. /\ UNCHANGED <<map, order, total, generation, active, wpc, window, cursor, listed, repeated,
                     stable, lost, mark, sunk>>
      /\ IndexOK /\ WalkTypes /\ \A w \in Walkers : WalkOK(w)
  BY DEF WalkInv, entries, walks
<1>2. IndexOK' /\ Indexed' = Indexed
  BY <1>1 DEF IndexOK, AggregatesExact, Indexed, SumSizes, Bytes, OrderOf
<1>3. WalkTypes'
  BY <1>1 DEF WalkTypes
<1>4. \A c, x : Ahead(c, x)' = Ahead(c, x) /\ Resumes(c, x)' = Resumes(c, x)
  BY <1>1, <1>2 DEF Ahead, Resumes, Place
<1>5. \A h : Place(h)' = Place(h)
  BY <1>1 DEF Place
<1>6. \A w \in Walkers : WalkOK(w)'
  BY <1>1, <1>2, <1>4, <1>5 DEF WalkOK, Mark, Before
<1> QED BY <1>2, <1>3, <1>6 DEF WalkInv

LEMMA WalkInvInit == Init => WalkInv
<1> SUFFICES ASSUME Init PROVE WalkInv
  OBVIOUS
<1>1. 0 \in 0..MaxClock /\ 1 \in 1..MaxChanges
  BY CatalogueAssumption DEF CatalogueAssumption
<1>2. IndexOK
  <2>1. map \in [Hashes -> {0, Nothing}]
    BY DEF Init
  <2>2. map \in [Hashes -> 0..MaxClock \cup {Nothing}]
    BY <1>1, <2>1
  <2> QED BY <1>1, <2>2 DEF IndexOK, AggregatesExact, Init
<1>3. WalkTypes
  BY DEF WalkTypes, Init
<1>4. \A w \in Walkers : WalkOK(w)
  BY DEF WalkOK, Init
<1> QED BY <1>2, <1>3, <1>4 DEF WalkInv

LEMMA WalkInvStep == WalkInv /\ [Next]_vars => WalkInv'
<1> SUFFICES ASSUME WalkInv, [Next]_vars PROVE WalkInv'
  OBVIOUS
<1>1. IndexOK /\ clock \in 0..MaxClock /\ generation \in 1..MaxChanges
  BY DEF WalkInv, IndexOK
<1>2. ASSUME NEW h \in Hashes, Publish(h) PROVE WalkInv'
  <2>1. Insert(h, clock) /\ Note(h, clock) /\ generation < MaxChanges /\ clock' = clock
    BY <1>2 DEF Publish, MayChange, Note
  <2>2. IndexOK' /\ map' = [map EXCEPT ![h] = clock]
    BY <1>1, <2>1, InsertKeepsAggregates DEF Insert
  <2> QED BY <1>1, <2>1, <2>2, NoteKeepsWalks
<1>3. ASSUME NEW h \in Hashes, Discover(h) PROVE WalkInv'
  <2>1. PICK at \in 0..clock : Insert(h, at) /\ Note(h, at)
    BY <1>3 DEF Discover
  <2>2. at \in 0..MaxClock /\ generation < MaxChanges /\ clock' = clock
    BY <1>1, <1>3, <2>1, CatalogueAssumption DEF CatalogueAssumption, Discover, MayChange, Note
  <2>3. IndexOK' /\ map' = [map EXCEPT ![h] = at]
    BY <1>1, <2>1, <2>2, InsertKeepsAggregates DEF Insert
  <2> QED BY <2>1, <2>2, <2>3, NoteKeepsWalks
<1>4. ASSUME NEW h \in Hashes, Remove(h) PROVE WalkInv'
  <2>1. IndexOK'
    BY <1>1, <1>4, RemoveKeepsAggregates
  <2> QED BY <1>4, <2>1, NoteKeepsWalks DEF Remove
<1>5. ASSUME Tick PROVE WalkInv'
  <2>1. clock' \in 0..MaxClock
    BY <1>1, <1>5, CatalogueAssumption DEF CatalogueAssumption, Tick
  <2> QED BY <1>5, <2>1, OthersKeepWalks DEF Tick, filters
<1>6. ASSUME Settle PROVE WalkInv'
  BY <1>1, <1>6, OthersKeepWalks DEF Settle, filters
<1>7. ASSUME NEW w \in Walkers, StartWalk(w) \/ NextPage(w) \/ Rest(w) PROVE WalkInv'
  <2>1. CASE Rest(w)
    BY <1>1, <2>1, OthersKeepWalks DEF Rest, vars, filters
  <2> QED BY <1>7, <2>1, StartWalkKeepsWalks, NextPageKeepsWalks
<1>8. ASSUME NEW r \in Requests,
             AskFilter(r) \/ ReadCache(r) \/ LockCache(r) \/ Render(r) \/ EndFilter(r)
      PROVE  WalkInv'
  BY <1>1, <1>8, OthersKeepWalks DEF AskFilter, ReadCache, LockCache, Render, EndFilter
<1>9. CASE UNCHANGED vars
  BY <1>1, <1>9, OthersKeepWalks DEF vars, filters
<1> QED BY <1>2, <1>3, <1>4, <1>5, <1>6, <1>7, <1>8, <1>9 DEF Next

\* The index moves on to a generation that nothing is cached under yet.
LEMMA NoteKeepsFilters ==
    ASSUME FilterInv, IndexOK, NEW h \in Hashes, NEW at \in 0..MaxClock \cup {Nothing},
           Note(h, at), generation' = generation + 1,
           Indexed' = IF at = Nothing THEN Indexed \ {h} ELSE Indexed \cup {h}
    PROVE  FilterInv'
<1>1. /\ UNCHANGED <<cache, writer, fpc, rate, seenGen, answer>>
      /\ generation \in Nat /\ FilterTypes /\ CacheOK
  BY DEF FilterInv, IndexOK, Note
<1>2. always' = [r \in Requests |-> IF at = Nothing THEN always[r] \ {h} ELSE always[r]]
  BY DEF Note
<1>3. ever' = [r \in Requests |-> IF fpc[r] = "idle" \/ at = Nothing THEN ever[r]
                                  ELSE ever[r] \cup {h}]
  BY DEF Note
<1>4. FilterTypes'
  <2>1. always' \in [Requests -> SUBSET Hashes] /\ ever' \in [Requests -> SUBSET Hashes]
    BY <1>1, <1>2, <1>3 DEF FilterTypes
  <2> QED BY <1>1, <2>1 DEF FilterTypes
<1>5. cache # Nothing => cache.generation \in Nat /\ cache.generation <= generation
  BY <1>1 DEF FilterTypes, CacheOK, Filters
<1>6. CacheOK'
  <2>1. cache # Nothing => cache.generation <= generation + 1 /\ cache.generation # generation + 1
    BY <1>1, <1>5
  <2> QED BY <1>1, <2>1 DEF CacheOK
<1>7. ASSUME NEW r \in Requests PROVE FilterOK(r)'
  <2>1. FilterOK(r) /\ seenGen[r] \in Nat
    BY <1>1 DEF FilterInv, FilterTypes
  <2>2. /\ always'[r] \subseteq always[r] /\ ever[r] \subseteq ever'[r]
        /\ always[r] \subseteq Indexed => always'[r] \subseteq Indexed'
        /\ fpc[r] # "idle" /\ Indexed \subseteq ever[r] => Indexed' \subseteq ever'[r]
    BY <1>2, <1>3
  <2>3. seenGen[r] <= generation => seenGen[r] <= generation + 1
    BY <1>1, <2>1
  <2>4. Hit(r)' <=> Hit(r)
    BY <1>1 DEF Hit, KeyRate
  <2> QED BY <1>1, <2>1, <2>2, <2>3, <2>4 DEF FilterOK
<1> QED BY <1>4, <1>6, <1>7 DEF FilterInv

\* What leaves the entries and the filter requests alone keeps the invariant.
LEMMA OthersKeepFilters ==
    ASSUME FilterInv, UNCHANGED <<map, generation, cache, writer, fpc, rate, seenGen, answer, always, ever>>
    PROVE  FilterInv'
<1>1. FilterTypes' /\ CacheOK' /\ Indexed' = Indexed
  BY DEF FilterInv, FilterTypes, CacheOK, Indexed
<1>2. ASSUME NEW r \in Requests PROVE FilterOK(r)'
  <2>1. Hit(r)' <=> Hit(r)
    BY DEF Hit, KeyRate
  <2> QED BY <1>1, <2>1 DEF FilterInv, FilterOK
<1> QED BY <1>1, <1>2 DEF FilterInv

\* A request does not disturb another that leaves the cache as it is.
LEMMA OtherRequest ==
    ASSUME FilterInv, NEW r \in Requests, UNCHANGED <<map, generation, cache>>,
           UNCHANGED <<fpc[r], rate[r], seenGen[r], answer[r], always[r], ever[r]>>,
           writer = r => writer' = r
    PROVE  FilterOK(r)'
<1>1. FilterOK(r) /\ Indexed' = Indexed
  BY DEF FilterInv, Indexed
<1>2. Hit(r)' <=> Hit(r)
  BY DEF Hit, KeyRate
<1> QED BY <1>1, <1>2 DEF FilterOK

\* A filter under the generation a request has read is one for that request.
LEMMA HitIsCurrent ==
    ASSUME FilterInv, NEW r \in Requests, fpc[r] # "idle", Hit(r)
    PROVE  /\ cache \in Filters /\ cache # Nothing
           /\ always[r] \subseteq cache.keys /\ cache.keys \subseteq ever[r]
           /\ Algorithm = "bloom" => cache.rate = rate[r]
<1>1. FilterOK(r) /\ FilterTypes
  BY DEF FilterInv
<1> QED BY <1>1 DEF FilterOK, FilterTypes, Hit, KeyRate

LEMMA AskFilterKeeps == ASSUME FilterInv, IndexOK, NEW r \in Requests, AskFilter(r) PROVE FilterInv'
<1>1. /\ UNCHANGED <<map, generation, cache, writer, answer>> /\ fpc[r] = "idle"
      /\ FilterTypes /\ CacheOK /\ FilterOK(r) /\ generation \in Nat
  BY DEF FilterInv, IndexOK, AskFilter, entries
<1>2. PICK asked \in Rates : rate' = [rate EXCEPT ![r] = asked]
  BY DEF AskFilter
<1>3. /\ fpc' = [fpc EXCEPT ![r] = "read"] /\ seenGen' = [seenGen EXCEPT ![r] = generation]
      /\ always' = [always EXCEPT ![r] = Indexed] /\ ever' = [ever EXCEPT ![r] = Indexed]
  BY DEF AskFilter
<1>4. Indexed' = Indexed /\ Indexed \in SUBSET Hashes
  BY <1>1 DEF Indexed
<1>5. FilterTypes'
  BY <1>1, <1>2, <1>3, <1>4 DEF FilterTypes
<1>6. CacheOK'
  BY <1>1, <1>3, <1>4 DEF CacheOK, FilterTypes
<1>7. ASSUME NEW q \in Requests \ {r} PROVE FilterOK(q)'
  <2>1. UNCHANGED <<fpc[q], rate[q], seenGen[q], answer[q], always[q], ever[q]>>
    BY <1>1, <1>2, <1>3 DEF FilterTypes
  <2> QED BY <1>1, <2>1, OtherRequest
<1>8. FilterOK(r)'
  <2>1. /\ fpc'[r] = "read" /\ rate'[r] = asked /\ seenGen'[r] = generation
        /\ always'[r] = Indexed /\ ever'[r] = Indexed
    BY <1>1, <1>2, <1>3 DEF FilterTypes
  <2> QED BY <1>1, <1>4, <2>1 DEF FilterOK, CacheOK
<1> QED BY <1>5, <1>6, <1>7, <1>8 DEF FilterInv

\* A request that finds its filter is answered with it.
LEMMA HitAnswers ==
    ASSUME FilterInv, NEW r \in Requests, fpc[r] \in {"read", "wait"}, Hit(r), Answer(r, cache),
           UNCHANGED <<map, generation, cache, writer, rate, seenGen, always, ever>>
    PROVE  FilterInv'
<1>1. /\ FilterTypes /\ CacheOK /\ FilterOK(r) /\ Indexed' = Indexed
      /\ cache \in Filters /\ cache # Nothing
      /\ always[r] \subseteq cache.keys /\ cache.keys \subseteq ever[r]
      /\ Algorithm = "bloom" => cache.rate = rate[r]
  BY HitIsCurrent DEF FilterInv, Indexed
<1>2. fpc' = [fpc EXCEPT ![r] = "answered"] /\ answer' = [answer EXCEPT ![r] = cache]
  BY DEF Answer
<1>3. FilterTypes'
  BY <1>1, <1>2 DEF FilterTypes
<1>4. CacheOK'
  BY <1>1, <1>2 DEF CacheOK, FilterTypes
<1>5. ASSUME NEW q \in Requests \ {r} PROVE FilterOK(q)'
  <2>1. UNCHANGED <<fpc[q], answer[q]>>
    BY <1>1, <1>2 DEF FilterTypes
  <2> QED BY <1>1, <2>1, OtherRequest
<1>6. FilterOK(r)'
  <2>1. fpc'[r] = "answered" /\ answer'[r] = cache
    BY <1>1, <1>2 DEF FilterTypes
  <2> QED BY <1>1, <2>1 DEF FilterOK
<1> QED BY <1>3, <1>4, <1>5, <1>6 DEF FilterInv

LEMMA ReadCacheKeeps == ASSUME FilterInv, NEW r \in Requests, ReadCache(r) PROVE FilterInv'
<1>1. /\ UNCHANGED <<map, generation, cache, writer, rate, seenGen, always, ever>> /\ fpc[r] = "read"
      /\ FilterTypes /\ CacheOK /\ FilterOK(r) /\ writer = Nothing /\ Indexed' = Indexed
  BY DEF FilterInv, ReadCache, entries, Indexed
<1>2. CASE Hit(r)
  <2>1. Answer(r, cache)
    BY <1>2 DEF ReadCache
  <2> QED BY <1>1, <1>2, <2>1, HitAnswers
<1>3. CASE ~Hit(r)
  <2>1. fpc' = [fpc EXCEPT ![r] = "wait"] /\ UNCHANGED answer
    BY <1>3 DEF ReadCache
  <2>2. FilterTypes' /\ CacheOK'
    BY <1>1, <2>1 DEF FilterTypes, CacheOK
  <2>3. ASSUME NEW q \in Requests \ {r} PROVE FilterOK(q)'
    <3>1. UNCHANGED fpc[q]
      BY <1>1, <2>1 DEF FilterTypes
    <3> QED BY <1>1, <2>1, <3>1, OtherRequest
  <2>4. FilterOK(r)'
    <3>1. fpc'[r] = "wait"
      BY <1>1, <2>1 DEF FilterTypes
    <3> QED BY <1>1, <2>1, <3>1 DEF FilterOK
  <2> QED BY <2>2, <2>3, <2>4 DEF FilterInv
<1> QED BY <1>2, <1>3

LEMMA LockCacheKeeps == ASSUME FilterInv, NEW r \in Requests, LockCache(r) PROVE FilterInv'
<1>1. /\ UNCHANGED <<map, generation, cache, rate, seenGen, always, ever>> /\ fpc[r] = "wait"
      /\ FilterTypes /\ CacheOK /\ FilterOK(r) /\ writer = Nothing /\ Indexed' = Indexed
  BY DEF FilterInv, LockCache, entries, Indexed
<1>2. CASE Hit(r)
  <2>1. Answer(r, cache) /\ UNCHANGED writer
    BY <1>2 DEF LockCache
  <2> QED BY <1>1, <1>2, <2>1, HitAnswers
<1>3. CASE ~Hit(r)
  <2>1. fpc' = [fpc EXCEPT ![r] = "render"] /\ writer' = r /\ UNCHANGED answer
    BY <1>3 DEF LockCache
  <2>2. fpc'[r] = "render" /\ r # Nothing
    BY <1>1, <2>1, CatalogueAssumption DEF FilterTypes, CatalogueAssumption
  <2>3. FilterTypes' /\ CacheOK'
    BY <1>1, <2>1, <2>2 DEF FilterTypes, CacheOK
  <2>4. ASSUME NEW q \in Requests \ {r} PROVE FilterOK(q)'
    <3>1. UNCHANGED fpc[q] /\ writer # q
      BY <1>1, <2>1, CatalogueAssumption DEF FilterTypes, CatalogueAssumption
    <3> QED BY <1>1, <2>1, <3>1, OtherRequest
  <2>5. FilterOK(r)'
    <3>1. ~Hit(r)'
      BY <1>1, <1>3 DEF Hit, KeyRate
    <3> QED BY <1>1, <2>1, <2>2, <3>1 DEF FilterOK
  <2> QED BY <2>3, <2>4, <2>5 DEF FilterInv
<1> QED BY <1>2, <1>3

\* Only the holder of the write lock renders, so whatever the cache was, it is now the
\* filter of this generation.
LEMMA RenderKeeps == ASSUME FilterInv, IndexOK, NEW r \in Requests, Render(r) PROVE FilterInv'
<1> DEFINE rendered == [generation |-> generation, rate |-> rate[r], keys |-> Indexed]
<1>1. /\ UNCHANGED <<map, generation, rate, seenGen, always, ever>> /\ fpc[r] = "render"
      /\ FilterTypes /\ CacheOK /\ FilterOK(r) /\ Indexed' = Indexed /\ generation \in Nat
      /\ Indexed \in SUBSET Hashes /\ rate[r] \in Rates /\ writer = r
      /\ \A q \in Requests : FilterOK(q)
  BY DEF FilterInv, FilterOK, IndexOK, Render, entries, Indexed
<1>2. /\ cache' = rendered /\ writer' = Nothing
      /\ fpc' = [fpc EXCEPT ![r] = "answered"] /\ answer' = [answer EXCEPT ![r] = rendered]
  BY DEF Render, Answer
<1>3. rendered \in Filters /\ rendered # Nothing
  BY <1>1, CatalogueAssumption DEF Filters, CatalogueAssumption
<1>4. rendered.generation = generation /\ rendered.keys = Indexed /\ rendered.rate = rate[r]
  OBVIOUS
<1> HIDE DEF rendered
<1>5. FilterTypes'
  BY <1>1, <1>2, <1>3 DEF FilterTypes
<1>6. CacheOK'
  BY <1>1, <1>2, <1>3, <1>4 DEF CacheOK
<1>7. ASSUME NEW q \in Requests PROVE FilterOK(q)'
  <2>1. always[q] \subseteq Indexed /\ (fpc[q] # "idle" => Indexed \subseteq ever[q])
    BY <1>1 DEF FilterOK
  <2>2. CASE q = r
    <3>1. fpc'[r] = "answered" /\ answer'[r] = rendered
      BY <1>1, <1>2 DEF FilterTypes
    <3> QED BY <1>1, <1>2, <1>3, <1>4, <2>1, <2>2, <3>1 DEF FilterOK
  <2>3. CASE q # r
    <3>1. fpc'[q] = fpc[q] /\ answer'[q] = answer[q] /\ FilterOK(q) /\ fpc[q] # "render"
      BY <1>1, <1>2, <2>3 DEF FilterTypes, FilterOK
    <3> QED BY <1>1, <1>2, <1>3, <1>4, <2>1, <2>3, <3>1 DEF FilterOK
  <2> QED BY <2>2, <2>3
<1> QED BY <1>5, <1>6, <1>7 DEF FilterInv

LEMMA EndFilterKeeps == ASSUME FilterInv, NEW r \in Requests, EndFilter(r) PROVE FilterInv'
<1>1. /\ UNCHANGED <<map, generation, cache>> /\ Indexed' = Indexed
      /\ FilterTypes /\ CacheOK
  BY DEF FilterInv, EndFilter, entries, Indexed
<1>2. /\ fpc' = [fpc EXCEPT ![r] = "idle"] /\ rate' = [rate EXCEPT ![r] = Nothing]
      /\ seenGen' = [seenGen EXCEPT ![r] = 0] /\ answer' = [answer EXCEPT ![r] = Nothing]
      /\ always' = [always EXCEPT ![r] = {}] /\ ever' = [ever EXCEPT ![r] = {}]
      /\ writer' = IF writer = r THEN Nothing ELSE writer
  BY DEF EndFilter
<1>3. FilterTypes'
  BY <1>1, <1>2 DEF FilterTypes
<1>4. CacheOK'
  BY <1>1, <1>2 DEF FilterTypes, CacheOK
<1>5. ASSUME NEW q \in Requests \ {r} PROVE FilterOK(q)'
  <2>1. UNCHANGED <<fpc[q], rate[q], seenGen[q], answer[q], always[q], ever[q]>>
    BY <1>1, <1>2 DEF FilterTypes
  <2> QED BY <1>1, <1>2, <2>1, OtherRequest
<1>6. FilterOK(r)'
  <2>1. fpc'[r] = "idle" /\ always'[r] = {}
    BY <1>1, <1>2 DEF FilterTypes
  <2> QED BY <1>1, <2>1 DEF FilterOK
<1> QED BY <1>3, <1>4, <1>5, <1>6 DEF FilterInv

LEMMA FilterInvInit == Init => FilterInv
<1> SUFFICES ASSUME Init PROVE FilterInv
  OBVIOUS
<1>1. FilterTypes /\ CacheOK
  BY DEF FilterTypes, CacheOK, Init
<1>2. \A r \in Requests : FilterOK(r)
  BY DEF FilterOK, Init
<1> QED BY <1>1, <1>2 DEF FilterInv

LEMMA FilterInvStep == FilterInv /\ IndexOK /\ [Next]_vars => FilterInv'
<1> SUFFICES ASSUME FilterInv, IndexOK, [Next]_vars PROVE FilterInv'
  OBVIOUS
<1>1. clock \in 0..MaxClock /\ Nothing \notin 0..MaxClock
  BY CatalogueAssumption DEF CatalogueAssumption, IndexOK
<1>2. ASSUME NEW h \in Hashes, Publish(h) PROVE FilterInv'
  <2>1. Insert(h, clock) /\ Note(h, clock) /\ generation < MaxChanges /\ clock' = clock
    BY <1>2 DEF Publish, MayChange, Note
  <2>2. Indexed' = Indexed \cup {h} /\ generation' = generation + 1
    BY <1>1, <2>1, InsertKeepsAggregates DEF Insert
  <2> QED BY <1>1, <2>1, <2>2, NoteKeepsFilters
<1>3. ASSUME NEW h \in Hashes, Discover(h) PROVE FilterInv'
  <2>1. PICK at \in 0..clock : Insert(h, at) /\ Note(h, at)
    BY <1>3 DEF Discover
  <2>2. at \in 0..MaxClock /\ generation < MaxChanges /\ clock' = clock
    BY <1>1, <1>3, <2>1, CatalogueAssumption DEF CatalogueAssumption, Discover, MayChange, Note
  <2>3. Indexed' = Indexed \cup {h} /\ generation' = generation + 1
    BY <2>1, <2>2, InsertKeepsAggregates DEF Insert
  <2> QED BY <1>1, <2>1, <2>2, <2>3, NoteKeepsFilters
<1>4. ASSUME NEW h \in Hashes, Remove(h) PROVE FilterInv'
  <2>1. Indexed' = Indexed \ {h}
    BY <1>4, RemoveKeepsAggregates
  <2> QED BY <1>4, <2>1, NoteKeepsFilters DEF Remove
<1>5. ASSUME \/ Tick \/ Settle \/ UNCHANGED vars
             \/ \E w \in Walkers : StartWalk(w) \/ NextPage(w) \/ Rest(w)
      PROVE  FilterInv'
  <2>1. UNCHANGED <<map, generation, cache, writer, fpc, rate, seenGen, answer, always, ever>>
    BY <1>5 DEF Tick, Settle, StartWalk, NextPage, Rest, entries, filters, vars
  <2> QED BY <2>1, OthersKeepFilters
<1>6. ASSUME NEW r \in Requests,
             AskFilter(r) \/ ReadCache(r) \/ LockCache(r) \/ Render(r) \/ EndFilter(r)
      PROVE  FilterInv'
  BY <1>6, AskFilterKeeps, ReadCacheKeeps, LockCacheKeeps, RenderKeeps, EndFilterKeeps
<1> QED BY <1>2, <1>3, <1>4, <1>5, <1>6 DEF Next

-----------------------------------------------------------------------------
(* Theorems.                                                                *)

\* What the two invariants say of walks and answers.
LEMMA WalksShowIt == WalkInv => AggregatesExact /\ WalkComplete /\ NoRepeats
  BY DEF WalkInv, IndexOK, WalkComplete, NoRepeats, WalkOK

LEMMA AnswersAreIt == FilterInv => FilterIsCurrent /\ RateAsAsked
  BY DEF FilterInv, FilterOK, FilterIsCurrent, RateAsAsked

LEMMA TypesAreThose == WalkInv /\ FilterInv => TypeOK
<1> SUFFICES ASSUME WalkInv, FilterInv PROVE TypeOK
  OBVIOUS
<1>1. IndexOK /\ WalkTypes /\ FilterTypes
  BY DEF WalkInv, FilterInv
<1>2. order \subseteq (0..MaxClock) \X Hashes
  BY <1>1, PlacesAreEntries
<1>3. total \in Nat
  BY <1>1, BytesFinite DEF IndexOK, AggregatesExact, Indexed
<1> QED BY <1>1, <1>2, <1>3 DEF TypeOK, IndexOK, WalkTypes, FilterTypes

LEMMA BothHold == Spec => [](WalkInv /\ FilterInv)
<1>1. Init => WalkInv /\ FilterInv
  BY WalkInvInit, FilterInvInit
<1>2. WalkInv /\ FilterInv /\ [Next]_vars => (WalkInv /\ FilterInv)'
  BY WalkInvStep, FilterInvStep DEF WalkInv
<1> QED BY <1>1, <1>2, PTL DEF Spec

\* The sum of sizes and the order kept beside the map are exact after any sequence of
\* inserts, replacements and removals (Entries::insert, remove), and a client that
\* walks the catalogue by cursor (BlobIndex::page, list_blobs) is shown every blob of
\* its window that stayed, and none of them twice, unless its cursor was moved or
\* removed under it.
THEOREM ListsAreFaithful == Spec => []ListIsFaithful
<1>1. WalkInv /\ FilterInv => ListIsFaithful
  BY WalksShowIt, TypesAreThose DEF ListIsFaithful
<1> QED BY <1>1, BothHold, PTL

\* Whoever asks for a filter (get_filter, render_filter) is answered with one that
\* holds every blob that was indexed while the request ran and none that was not,
\* although the generation is read before the locks are taken and the index changes
\* meanwhile; a Bloom filter has the rate that was asked for.
THEOREM FiltersAreCurrent == Spec => [](FilterIsCurrent /\ RateAsAsked)
<1>1. WalkInv /\ FilterInv => FilterIsCurrent /\ RateAsAsked
  BY AnswersAreIt
<1> QED BY <1>1, BothHold, PTL

\* The cache is looked at again under the write lock, so that requests for the same
\* filter that miss together render it once (get_filter).  Not so for Binary Fuse
\* filters of several rates: the cache is looked up under DefaultRate, but filled with
\* the rate that was asked for.
THEOREM FiltersAreFaithful ==
    (Algorithm = "bloom" \/ Rates = {DefaultRate}) => (Spec => FilterIsFaithful)
<1> SUFFICES ASSUME Algorithm = "bloom" \/ Rates = {DefaultRate}
             PROVE  Spec => FilterIsFaithful
  OBVIOUS
<1> DEFINE NotSpared(r) == \/ cache.generation # generation \/ seenGen[r] # generation
                           \/ KeyRate(cache.rate) # KeyRate(rate[r])
           Shared == \A r \in Requests :
                       fpc[r] = "render" /\ fpc'[r] = "answered" /\ cache # Nothing => NotSpared(r)
<1>1. FilterInv => Shared
  <2>1. ASSUME FilterInv, NEW r \in Requests, fpc[r] = "render", cache # Nothing
        PROVE  NotSpared(r)
    <3>1. ~Hit(r) /\ cache.rate \in Rates /\ rate[r] \in Rates
      BY <2>1 DEF FilterInv, FilterOK, FilterTypes, Filters
    <3> QED BY <2>1, <3>1 DEF Hit, KeyRate
  <2> QED BY <2>1
<1>2. Spec => [](FilterIsCurrent /\ RateAsAsked)
  BY FiltersAreCurrent
<1>3. Spec => [][Shared]_vars
  BY <1>1, BothHold, PTL
<1> QED BY <1>2, <1>3 DEF FilterIsFaithful, IdenticalMissesShare
==============================================================================
