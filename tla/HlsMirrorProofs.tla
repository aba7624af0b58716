---------------------------- MODULE HlsMirrorProofs ----------------------------
(***************************************************************************)
(* Proofs about Intake and HlsMirror, for every set of blobs, sizes, slots *)
(* and offers, every limit, quota and price, and under every fault:        *)
(*                                                                         *)
(*   LimitsAreKept, PaymentsAreSound, DeadlinesAreBound  safety of intake  *)
(*   JobsAreBounded       a job stays within its limits on every playlist  *)
(*   RemovalsComeInTurn   the cleanup job removes what is due and goes     *)
(*                        over uploads last                                *)
(*                                                                         *)
(* The specification is that of HlsMirror: intake together with the job    *)
(* that mirrors playlists through it.  The inductive invariant has a part  *)
(* for the index, the money, each request, the sweep (IntakeInv) and the   *)
(* job (JobInv).  Sums of sizes are related to the index by counting units *)
(* (BytesAreUnits), by induction over numbers (NumbersByInduction).        *)
(***************************************************************************)
EXTENDS HlsMirror, FiniteSetTheorems, SequenceTheorems, WellFoundedInduction, TLAPS

-----------------------------------------------------------------------------
(* Facts about numbers.                                                     *)

\* Every set of numbers that has an element has a least one.
LEMMA LeastNumber ==
    ASSUME NEW S \in SUBSET Nat, S # {}
    PROVE  \E m \in S : \A k \in S : m <= k
<1> DEFINE Less == {ss \in Nat \X Nat : ss[1] < ss[2]}
<1>1. IsWellFoundedOn(Less, Nat)
  <2>1. OpToRel(<, Nat) = Less
    BY Zenon DEF OpToRel
  <2> QED BY <2>1, NatLessThanWellFounded
<1>2. PICK m \in S : \A k \in S : <<k, m>> \notin Less
  <2> HIDE DEF Less
  <2> QED BY <1>1, WFMin
<1>3. \A k \in S : ~(k < m) /\ k \in Nat /\ m \in Nat
  BY <1>2
<1> QED BY <1>2, <1>3

\* A set of numbers that has 0 and with each number the next has them all.
LEMMA NumbersByInduction ==
    ASSUME NEW T \in SUBSET Nat, 0 \in T, \A n \in T : n + 1 \in T
    PROVE  T = Nat
<1> SUFFICES ASSUME Nat \ T # {} PROVE FALSE
  OBVIOUS
<1>1. PICK m \in Nat \ T : \A k \in Nat \ T : m <= k
  <2>1. Nat \ T \subseteq Nat
    OBVIOUS
  <2> QED BY <2>1, LeastNumber
<1>2. m \in Nat /\ m # 0 /\ m - 1 \in Nat
  BY <1>1
<1>3. m - 1 \in T
  BY <1>1, <1>2
<1>4. (m - 1) + 1 \in T /\ (m - 1) + 1 = m
  BY <1>2, <1>3
<1> QED BY <1>1, <1>4

\* The last of the first n numbers.
LEMMA MaxIsLast ==
    ASSUME NEW n \in Nat, NEW s \in SUBSET (1..n + 1), n + 1 \in s PROVE Max(s) = n + 1
<1>1. \A x \in s : x \in Nat /\ n + 1 >= x
  OBVIOUS
<1>2. \E x \in s : \A y \in s : x >= y
  BY <1>1
<1>3. Max(s) \in s /\ \A y \in s : Max(s) >= y
  BY <1>2 DEF Max
<1>4. Max(s) >= n + 1 /\ n + 1 >= Max(s) /\ Max(s) \in Nat
  BY <1>1, <1>3
<1> QED BY <1>4

-----------------------------------------------------------------------------
(* Sums of sizes.                                                           *)

\* One unit for each byte of each blob.
Units(S) == UNION {{h} \X (1..Size[h]) : h \in S}

\* The bytes of one blob, and how many they are.
LEMMA UnitsOfOne ==
    ASSUME NEW h \in Blobs
    PROVE  /\ IsFiniteSet({h} \X (1..Size[h])) /\ Cardinality({h} \X (1..Size[h])) = Size[h]
           /\ Size[h] \in Nat
<1> DEFINE one == {h}
           bytes == 1..Size[h]
<1>1. Size[h] \in Nat
  BY IntakeAssumption DEF IntakeAssumption
<1>2. /\ IsFiniteSet(one) /\ Cardinality(one) = 1
      /\ IsFiniteSet(bytes) /\ Cardinality(bytes) = Size[h]
  <2>1. IsFiniteSet(one) /\ Cardinality(one) = 1
    BY FS_Singleton
  <2>2. IsFiniteSet(bytes) /\ Cardinality(bytes) = IF 1 > Size[h] THEN 0 ELSE Size[h] - 1 + 1
    BY <1>1, FS_Interval
  <2> QED BY <1>1, <2>1, <2>2
<1> HIDE DEF one, bytes
<1>3. IsFiniteSet(one \X bytes) /\ Cardinality(one \X bytes) = Cardinality(one) * Cardinality(bytes)
  BY <1>2, FS_Product
<1>4. Cardinality(one \X bytes) = Size[h]
  BY <1>1, <1>2, <1>3
<1> QED BY <1>1, <1>3, <1>4 DEF one, bytes

LEMMA UnitsFinite ==
    ASSUME NEW S, IsFiniteSet(S), S \subseteq Blobs
    PROVE  IsFiniteSet(Units(S)) /\ Cardinality(Units(S)) \in Nat
<1> DEFINE All == {{h} \X (1..Size[h]) : h \in S}
           f == [h \in S |-> {h} \X (1..Size[h])]
<1>1. IsFiniteSet(All)
  <2>1. f \in Surjection(S, All)
    BY DEF Surjection
  <2> QED BY <2>1, FS_Surjection
<1>2. \A h \in S : IsFiniteSet({h} \X (1..Size[h]))
  BY UnitsOfOne
<1>3. \A T \in All : IsFiniteSet(T)
  BY <1>2
<1>4. IsFiniteSet(UNION All)
  BY <1>1, <1>3, FS_UNION
<1> QED BY <1>4, FS_CardinalityType DEF Units

LEMMA UnitsOfOneMore ==
    ASSUME NEW S, IsFiniteSet(S), S \subseteq Blobs, NEW h \in Blobs \ S
    PROVE  Cardinality(Units(S \cup {h})) = Cardinality(Units(S)) + Size[h]
<1> DEFINE New == {h} \X (1..Size[h])
<1>2. IsFiniteSet(New) /\ Cardinality(New) = Size[h] /\ Size[h] \in Nat
  BY UnitsOfOne
<1>3. IsFiniteSet(Units(S)) /\ Cardinality(Units(S)) \in Nat
  BY UnitsFinite
<1>4. Units(S \cup {h}) = Units(S) \cup New /\ Units(S) \cap New = {}
  BY DEF Units
<1>5. Cardinality(Units(S) \cap New) = 0
  BY <1>4, FS_EmptySet
<1> HIDE DEF New
<1>6. Cardinality(Units(S) \cup New) = Cardinality(Units(S)) + Cardinality(New)
                                         - Cardinality(Units(S) \cap New)
  BY <1>2, <1>3, FS_Union
<1>7. Cardinality(Units(S) \cup New) = Cardinality(Units(S)) + Size[h]
  BY <1>2, <1>3, <1>5, <1>6
<1> QED BY <1>4, <1>7

\* The sum of sizes is the number of their bytes.
LEMMA BytesAreUnits ==
    ASSUME NEW S \in SUBSET Blobs, IsFiniteSet(S)
    PROVE  Bytes(S) = Cardinality(Units(S))
<1> DEFINE Eq(g) == g = [s \in SUBSET S |->
                           IF s = {} THEN 0
                           ELSE Size[CHOOSE x \in s : TRUE] + g[s \ {CHOOSE x \in s : TRUE}]]
           units == [s \in SUBSET S |-> Cardinality(Units(s))]
           sum == CHOOSE g : Eq(g)
<1>1. Bytes(S) = sum[S]
  BY DEF Bytes, MapThenSumSet, MapThenFoldSet
<1>2. ASSUME NEW s \in SUBSET S, s # {}, NEW x \in s
      PROVE  Cardinality(Units(s)) = Size[x] + Cardinality(Units(s \ {x}))
  <2>1. IsFiniteSet(s \ {x}) /\ s \ {x} \subseteq Blobs /\ x \in Blobs \ (s \ {x})
    BY FS_Subset
  <2>2. Cardinality(Units((s \ {x}) \cup {x})) = Cardinality(Units(s \ {x})) + Size[x]
    BY <2>1, UnitsOfOneMore
  <2>3. (s \ {x}) \cup {x} = s
    OBVIOUS
  <2>4. Size[x] \in Nat /\ Cardinality(Units(s \ {x})) \in Nat
    BY <2>1, UnitsFinite, IntakeAssumption DEF IntakeAssumption
  <2>5. Cardinality(Units(s)) = Cardinality(Units(s \ {x})) + Size[x]
    BY <2>2, <2>3
  <2> QED BY <2>4, <2>5
<1>3. Cardinality(Units({})) = 0
  BY FS_EmptySet DEF Units
<1>4. Eq(units)
  <2>1. ASSUME NEW s \in SUBSET S
        PROVE  units[s] = IF s = {} THEN 0
                          ELSE Size[CHOOSE x \in s : TRUE] + units[s \ {CHOOSE x \in s : TRUE}]
    BY <1>2, <1>3
  <2> QED BY <2>1
<1>5. Eq(sum)
  <2> HIDE DEF units, Eq
  <2> QED BY <1>4
<1>6. \A s \in SUBSET S : sum[s] = units[s]
  <2> DEFINE T == {n \in Nat : \A s \in SUBSET S : Cardinality(s) = n => sum[s] = units[s]}
  <2> HIDE DEF sum
  <2>0. \A s \in SUBSET S : IsFiniteSet(s) /\ Cardinality(s) \in Nat
    BY FS_Subset, FS_CardinalityType
  <2>1. 0 \in T
    <3>1. ASSUME NEW s \in SUBSET S, Cardinality(s) = 0 PROVE sum[s] = units[s]
      <4>1. s = {}
        BY <2>0, <3>1, FS_EmptySet
      <4> QED BY <1>3, <1>5, <4>1
    <3> QED BY <3>1
  <2>2. ASSUME NEW n \in T PROVE n + 1 \in T
    <3>1. ASSUME NEW s \in SUBSET S, Cardinality(s) = n + 1 PROVE sum[s] = units[s]
      <4> DEFINE x == CHOOSE x \in s : TRUE
      <4>1. s # {}
        BY <3>1, FS_EmptySet
      <4>2. x \in s
        BY <4>1
      <4>3. sum[s] = Size[x] + sum[s \ {x}] /\ units[s] = Size[x] + units[s \ {x}]
        BY <1>4, <1>5, <4>1
      <4> HIDE DEF x
      <4>4. Cardinality(s \ {x}) = Cardinality(s) - 1
        BY <2>0, <4>2, FS_RemoveElement
      <4>5. s \ {x} \in SUBSET S /\ Cardinality(s \ {x}) = n
        BY <3>1, <4>4
      <4>6. sum[s \ {x}] = units[s \ {x}]
        BY <2>2, <4>5
      <4> QED BY <4>3, <4>6
    <3>2. n + 1 \in Nat
      BY <2>2
    <3> QED BY <3>1, <3>2
  <2>3. T = Nat
    <3> HIDE DEF T
    <3>1. T \in SUBSET Nat
      BY DEF T
    <3> QED BY <2>1, <2>2, <3>1, NumbersByInduction
  <2> QED BY <2>0, <2>3
<1> QED BY <1>1, <1>6

\* A larger set has no fewer bytes.
LEMMA BytesGrow ==
    ASSUME NEW S \in SUBSET Blobs, NEW h \in Blobs
    PROVE  /\ Bytes(S) \in Nat /\ Size[h] \in Nat
           /\ h \notin S => Bytes(S \cup {h}) = Bytes(S) + Size[h]
           /\ h \in S => Bytes(S \ {h}) + Size[h] = Bytes(S)
<1>1. IsFiniteSet(S) /\ IsFiniteSet(S \cup {h}) /\ IsFiniteSet(S \ {h}) /\ Size[h] \in Nat
  BY FS_Subset, IntakeAssumption DEF IntakeAssumption
<1>2. /\ Bytes(S) = Cardinality(Units(S)) /\ Bytes(S \cup {h}) = Cardinality(Units(S \cup {h}))
      /\ Bytes(S \ {h}) = Cardinality(Units(S \ {h}))
  BY <1>1, BytesAreUnits
<1>3. Cardinality(Units(S)) \in Nat /\ Cardinality(Units(S \ {h})) \in Nat
  BY <1>1, UnitsFinite
<1>4. CASE h \notin S
  <2>1. Cardinality(Units(S \cup {h})) = Cardinality(Units(S)) + Size[h]
    BY <1>1, <1>4, UnitsOfOneMore
  <2> QED BY <1>1, <1>2, <1>3, <1>4, <2>1
<1>5. CASE h \in S
  <2>1. Cardinality(Units((S \ {h}) \cup {h})) = Cardinality(Units(S \ {h})) + Size[h]
    BY <1>1, UnitsOfOneMore
  <2>2. (S \ {h}) \cup {h} = S
    BY <1>5
  <2> QED BY <1>1, <1>2, <1>3, <1>5, <2>1, <2>2
<1> QED BY <1>4, <1>5

\* The least of deadlines.
LEMMA DeadlineOf ==
    ASSUME NEW e \in Copies
    PROVE  \/ Deadlines(e) = {} /\ CleanupDeadline(e) = Nothing
           \/ /\ CleanupDeadline(e) \in Nat /\ CleanupDeadline(e) \in Deadlines(e)
              /\ \A x \in Deadlines(e) : CleanupDeadline(e) <= x
<1> DEFINE D == Deadlines(e)
<1>1. \E a, b \in Nat : D \subseteq {a, b}
  <2>1. /\ e.created + MaxAge \in Nat /\ e.created + CacheTtl \in Nat
        /\ e.expires \in Nat \cup {Nothing} /\ Nothing \notin Nat
    <3>1. e.created \in Nat /\ e.expires \in Nat \cup {Nothing}
      BY DEF Copies
    <3>2. MaxAge \in Nat /\ CacheTtl \in Nat /\ Nothing \notin Nat
      BY IntakeAssumption DEF IntakeAssumption
    <3> QED BY <3>1, <3>2
  <2>2. CASE e.origin = "upload" /\ e.expires = Nothing
    <3>1. D \subseteq {e.created + MaxAge}
      BY <2>2 DEF Deadlines
    <3> QED BY <2>1, <3>1
  <2>3. CASE e.origin = "upload" /\ e.expires # Nothing
    <3>1. D \subseteq {e.expires, e.created + MaxAge}
      BY <2>3 DEF Deadlines
    <3> QED BY <2>1, <2>3, <3>1
  <2>4. CASE e.origin # "upload"
    <3>1. D \subseteq {e.created + CacheTtl}
      BY <2>4 DEF Deadlines
    <3> QED BY <2>1, <3>1
  <2> QED BY <2>2, <2>3, <2>4
<1>2. D = {} \/ \E m \in D : m \in Nat /\ \A x \in D : m <= x
  BY <1>1
<1> HIDE DEF D
<1>3. CASE D = {}
  BY <1>3 DEF CleanupDeadline, Earliest, D
<1>4. CASE D # {}
  <2>1. CleanupDeadline(e) = CHOOSE m \in D : \A x \in D : m =< x
    BY <1>4 DEF CleanupDeadline, Earliest, Min, D
  <2>2. D \subseteq Nat
    BY <1>1
  <2> QED BY <1>2, <1>4, <2>1, <2>2 DEF D
<1> QED BY <1>3, <1>4

\* The greater and the smaller of two numbers.
LEMMA MaxOfTwo ==
    ASSUME NEW a \in Int, NEW b \in Int
    PROVE  /\ Max({a, b}) = IF a >= b THEN a ELSE b
           /\ Min({a, b}) = IF a <= b THEN a ELSE b
<1>1. \E x \in {a, b} : \A y \in {a, b} : x >= y
  OBVIOUS
<1>2. \E x \in {a, b} : \A y \in {a, b} : x =< y
  OBVIOUS
<1>3. Max({a, b}) \in {a, b} /\ Max({a, b}) >= a /\ Max({a, b}) >= b
  BY <1>1 DEF Max
<1>4. Min({a, b}) \in {a, b} /\ Min({a, b}) <= a /\ Min({a, b}) <= b
  BY <1>2 DEF Min
<1> QED BY <1>3, <1>4

-----------------------------------------------------------------------------
(* The invariant.                                                           *)

ClientType ==
    [pc : {"idle", "stream", "verify", "pay", "publish", "answer"},
     req : Request \cup {Nothing}, token : Nat \cup {Nothing}, expires : Nat \cup {Nothing},
     temp : BOOLEAN, wrote : Nat, answer : Answers \cup {Nothing}, since : Nat]

Candidates == [hash : Blobs, copy : Copies]
SweepType == [step : {"sleep", "expire", "evict"}, snapshot : SUBSET Candidates,
              left : SUBSET Candidates, size : Int, files : Int]

Types ==
    /\ index \in [Blobs -> Copies \cup {Nothing}] /\ quarantined \subseteq Blobs
    /\ active \in Populations
    /\ client \in [Clients -> ClientType]
    /\ quoted \in [Clients -> Quotes \cup {Nothing}]
    /\ left \in [Clients -> 0..Rounds] /\ taken \in [Clients -> Nat]
    /\ clock \in 0..MaxClock /\ due \in 0..MaxClock + 1
    /\ sweep \in SweepType /\ sweep.left \subseteq sweep.snapshot
    /\ promised \in [Blobs -> Nat \cup {Nothing}]
    /\ failed \subseteq Blobs /\ interfered \in BOOLEAN

\* What each step of a handler, with the locals c, has behind it.
Sound(c) ==
    /\ IF c.pc = "idle" THEN c.req = Nothing ELSE c.req \in Request
    /\ c.pc # "answer" => c.answer = Nothing
    /\ c.temp => c.pc \in {"verify", "pay", "publish"}
    /\ c.pc \in {"verify", "pay", "publish"} => Size[c.req.body] <= Limit(c.req.door)
    /\ c.pc \in {"pay", "publish"} => c.req.body = c.req.hash
    /\ c.wrote <= clock

\* What the wallet took, m, and what was quoted, q.
Money(c, m, q) ==
    /\ q = Nothing \/ q.sats = CalculatePrice(Size[q.blob])
    /\ c.pc \in {"idle", "stream", "verify", "pay"} => m = 0
    /\ c.pc # "idle" /\ c.req.door \notin Paid => c.token = Nothing /\ m = 0
    /\ c.pc = "publish" /\ c.req.door \in Paid => m >= CalculatePrice(Size[c.req.body])
    /\ m > 0 => /\ c.req.body = c.req.hash /\ Size[c.req.body] <= Limit(c.req.door)
                /\ c.answer \notin {"mismatch", "too large", "no room"}
    /\ c.answer = "created" /\ c.req.door \in Paid => m >= CalculatePrice(Size[c.req.body])
    /\ c.answer = "insufficient" => q = Nothing \/ q.blob # c.req.body \/ c.token < q.sats

\* How far the bytes that are stored may be beyond the quota.
Room(c, bytes) ==
    (MaxTotalSize # 0 /\ c.pc # "idle" /\ c.req.door \in {"put", "segment"}) =>
      /\ c.pc = "stream" => bytes + Declared(c.req) <= MaxTotalSize + c.since
      /\ c.pc \in {"verify", "pay", "publish"} =>
           bytes + Size[c.req.body] <= MaxTotalSize + c.since
      /\ c.answer = "created" => bytes <= MaxTotalSize + c.since

\* Whose request it is, and that it is counted.
Turn(t, c, n) ==
    c.pc # "idle" => IF c.req.door = "segment" THEN t \in Slots ELSE c.req \in Offers[t] /\ n > 0

ClientOK(t) ==
    /\ Sound(client[t]) /\ Money(client[t], taken[t], quoted[t])
    /\ Room(client[t], Bytes(Stored)) /\ Turn(t, client[t], left[t])

\* The copies that are stored, and what clients were told of them.
CopyOK(h) ==
    /\ promised[h] = IF index[h] = Nothing THEN Nothing ELSE Sunset(index[h])
    /\ index[h] # Nothing =>
         Size[h] <= MaxBlob /\ index[h].written <= index[h].created /\ index[h].created <= clock

\* Past the deadline by more than an interval when the job wakes next.
Overdue(h) ==
    /\ index[h] # Nothing /\ CleanupDeadline(index[h]) # Nothing
    /\ CleanupDeadline(index[h]) + Interval < due /\ index[h].created + Interval < due

\* Whoever is overdue, the job is about to look at or to wake up.
SweepOK ==
    /\ due <= clock + Interval
    /\ \A h \in Blobs \ failed : Overdue(h) =>
         \/ sweep.step = "sleep" /\ due <= clock
         \/ sweep.step = "expire" /\ Entry(h) \in sweep.left
    /\ sweep.step = "expire" => \A c \in sweep.left : Expired(c.copy)
    /\ sweep.step = "evict" =>
         /\ ~interfered => sweep.size <= Bytes(Stored) /\ sweep.files <= Cardinality(Stored)
         /\ \A c, d \in sweep.snapshot : c.hash = d.hash => c = d
         /\ \A c \in sweep.snapshot \ sweep.left :
              c.hash \in failed \/ ~StillExpected(c) \/ c.copy.created = clock

IntakeInv ==
    /\ Types /\ (\A t \in Clients : ClientOK(t)) /\ (\A h \in Blobs : CopyOK(h)) /\ SweepOK

-----------------------------------------------------------------------------
(* Steps of one client.                                                     *)

\* The constants as the proofs use them.
LEMMA Constants ==
    /\ IsFiniteSet(Blobs) /\ Size \in [Blobs -> Nat] /\ Offers \in [Clients -> SUBSET Request]
    /\ \A t \in Clients : \A r \in Offers[t] : r.door # "segment"
    /\ Tokens \in [Clients -> SUBSET (Nat \cup {Nothing})] /\ Fees \subseteq Nat
    /\ Populations \subseteq SUBSET Clients /\ Paid \subseteq {"put", "mirror"}
    /\ Interval \in Nat /\ Interval > 0
    /\ MaxBlob \in Nat /\ MaxUpstream \in Nat /\ MaxTotalSize \in Nat /\ MaxTotalFiles \in Nat
    /\ MaxAge \in Nat /\ CacheTtl \in Nat /\ MaxClock \in Nat /\ Rounds \in Nat
    /\ Nothing \notin Nat /\ Nothing \notin Request /\ Nothing \notin Copies
    /\ Nothing \notin Quotes /\ Nothing \notin Answers
<1>1. /\ MaxBlob \in Nat /\ MaxUpstream \in Nat /\ MaxTotalSize \in Nat /\ MaxTotalFiles \in Nat
      /\ MaxAge \in Nat /\ CacheTtl \in Nat /\ MaxClock \in Nat /\ Rounds \in Nat
  BY IntakeAssumption DEF IntakeAssumption
<1>2. Interval \in Nat /\ Interval > 0
  BY IntakeAssumption DEF IntakeAssumption
<1> QED BY <1>1, <1>2, IntakeAssumption DEF IntakeAssumption

LEMMA Limits ==
    ASSUME NEW door \in Doors
    PROVE  Limit(door) \in Nat /\ Limit(door) <= MaxBlob
<1>1. MaxBlob \in Nat /\ MaxUpstream \in Nat
  BY Constants
<1>2. Min({MaxBlob, MaxUpstream}) \in Nat /\ Min({MaxBlob, MaxUpstream}) <= MaxBlob
  <2>1. MaxBlob \in Int /\ MaxUpstream \in Int
    BY <1>1
  <2>2. Min({MaxBlob, MaxUpstream}) = IF MaxBlob <= MaxUpstream THEN MaxBlob ELSE MaxUpstream
    BY <2>1, MaxOfTwo
  <2> QED BY <1>1, <2>2
<1> QED BY <1>1, <1>2 DEF Limit

LEMMA Prices ==
    ASSUME NEW b \in Blobs
    PROVE  CalculatePrice(Size[b]) \in Int /\ CalculatePrice(Size[b]) >= 1
<1> DEFINE p == ((Size[b] + PriceUnit - 1) \div PriceUnit) * Price
<1>1. p \in Int
  BY IntakeAssumption DEF IntakeAssumption
<1> HIDE DEF p
<1>2. Max({1, p}) \in Int /\ Max({1, p}) >= 1
  BY <1>1, MaxOfTwo
<1> QED BY <1>2 DEF CalculatePrice, p

LEMMA StoredBlobs == Types => Stored \in SUBSET Blobs /\ IsFiniteSet(Stored) /\ Bytes(Stored) \in Nat
<1> SUFFICES ASSUME Types PROVE Stored \in SUBSET Blobs /\ IsFiniteSet(Stored) /\ Bytes(Stored) \in Nat
  OBVIOUS
<1>1. Stored \in SUBSET Blobs
  BY DEF Stored
<1>2. IsFiniteSet(Stored)
  BY <1>1, Constants, FS_Subset
<1> QED BY <1>1, <1>2, BytesAreUnits, UnitsFinite

\* A step that gives one client new locals, c, and leaves the store alone.
LEMMA OneClient ==
    ASSUME IntakeInv, NEW t \in Clients, NEW c \in ClientType,
           client' = [client EXCEPT ![t] = c],
           StoreStays,
           quoted' \in [Clients -> Quotes \cup {Nothing}], left' \in [Clients -> 0..Rounds],
           taken' \in [Clients -> Nat],
           \A u \in Clients \ {t} :
             quoted'[u] = quoted[u] /\ left'[u] = left[u] /\ taken'[u] = taken[u],
           Sound(c), Money(c, taken'[t], quoted'[t]), Room(c, Bytes(Stored)), Turn(t, c, left'[t])
    PROVE  IntakeInv'
<1>0. UNCHANGED <<index, quarantined, promised, active, clock, due, sweep, failed, interfered>>
  BY DEF StoreStays, NoSweepStep
<1>1. client' \in [Clients -> ClientType] /\ client'[t] = c
      /\ \A u \in Clients \ {t} : client'[u] = client[u]
  BY DEF IntakeInv, Types
<1>2. Types'
  BY <1>0, <1>1 DEF IntakeInv, Types
<1>3. Bytes(Stored)' = Bytes(Stored) /\ Stored' = Stored
  BY <1>0 DEF Stored
<1>4. ASSUME NEW u \in Clients PROVE ClientOK(u)'
  <2>1. CASE u = t
    <3>1. client'[u] = c /\ UNCHANGED clock
      BY <1>0, <1>1, <2>1
    <3>2. Sound(client[u])'
      BY <3>1 DEF Sound
    <3>3. Money(client[u], taken[u], quoted[u])'
      BY <2>1, <3>1 DEF Money
    <3>4. Room(client[u], Bytes(Stored))'
      BY <1>3, <3>1 DEF Room
    <3>5. Turn(u, client[u], left[u])'
      BY <2>1, <3>1 DEF Turn
    <3> QED BY <3>2, <3>3, <3>4, <3>5 DEF ClientOK
  <2>2. CASE u # t
    <3>1. ClientOK(u)
      BY DEF IntakeInv
    <3>2. /\ client'[u] = client[u] /\ taken'[u] = taken[u] /\ quoted'[u] = quoted[u]
          /\ left'[u] = left[u]
      BY <1>1, <2>2
    <3>3. Sound(client[u])' /\ Room(client[u], Bytes(Stored))'
      BY <1>0, <1>3, <3>1, <3>2 DEF ClientOK, Sound, Room
    <3> QED BY <3>1, <3>2, <3>3 DEF ClientOK, Money, Turn
  <2> QED BY <2>1, <2>2
<1>5. \A h \in Blobs : CopyOK(h)'
  BY <1>0 DEF IntakeInv, CopyOK
<1>6. SweepOK'
  BY <1>0, <1>3 DEF IntakeInv, SweepOK, Overdue, Entry, Expired, StillExpected
<1> QED BY <1>2, <1>4, <1>5, <1>6 DEF IntakeInv

\* A handler ends, and its temporary file with it.
LEMMA EndsAre ==
    ASSUME Types, NEW t \in Clients, NEW answer \in Answers, Ends(t, answer)
    PROVE  \E c \in ClientType :
             /\ client' = [client EXCEPT ![t] = c]
             /\ c.pc = "answer" /\ c.answer = answer /\ c.temp = FALSE /\ c.req = client[t].req
             /\ c.token = client[t].token /\ c.wrote = client[t].wrote /\ c.since = client[t].since
<1> DEFINE c == [client[t] EXCEPT !.pc = "answer", !.answer = answer, !.temp = FALSE]
<1>1. client[t] \in ClientType
  BY DEF Types
<1>2. /\ c \in ClientType
      /\ c.pc = "answer" /\ c.answer = answer /\ c.temp = FALSE /\ c.req = client[t].req
      /\ c.token = client[t].token /\ c.wrote = client[t].wrote /\ c.since = client[t].since
  BY <1>1 DEF ClientType
<1>3. client' = [client EXCEPT ![t] = c]
  BY <1>1 DEF Ends, Types
<1> QED BY <1>2, <1>3

\* A handler goes on to its next step.
LEMMA MovesAre ==
    ASSUME Types, NEW t \in Clients, NEW pc \in {"pay", "publish"}, Moves(t, pc)
    PROVE  \E c \in ClientType :
             /\ client' = [client EXCEPT ![t] = c]
             /\ c.pc = pc /\ c.answer = client[t].answer /\ c.temp = client[t].temp
             /\ c.req = client[t].req /\ c.token = client[t].token
             /\ c.wrote = client[t].wrote /\ c.since = client[t].since
<1> DEFINE c == [client[t] EXCEPT !.pc = pc]
<1>1. client[t] \in ClientType
  BY DEF Types
<1>2. /\ c \in ClientType
      /\ c.pc = pc /\ c.answer = client[t].answer /\ c.temp = client[t].temp
      /\ c.req = client[t].req /\ c.token = client[t].token
      /\ c.wrote = client[t].wrote /\ c.since = client[t].since
  BY <1>1 DEF ClientType
<1>3. client' = [client EXCEPT ![t] = c]
  BY <1>1 DEF Moves, Types
<1> QED BY <1>2, <1>3

\* A client that is forgotten is idle and owes nothing.
LEMMA IdleIsFine ==
    ASSUME IntakeInv, NEW t \in Clients
    PROVE  /\ Idle \in ClientType /\ Sound(Idle) /\ Room(Idle, Bytes(Stored))
           /\ \A n : Turn(t, Idle, n)
           /\ Money(Idle, 0, quoted[t])
<1>1. Idle \in ClientType
  BY Constants DEF Idle, ClientType
<1>2. Sound(Idle)
  BY DEF Idle, Sound, IntakeInv, Types
<1>3. quoted[t] = Nothing \/ quoted[t].sats = CalculatePrice(Size[quoted[t].blob])
  BY DEF IntakeInv, ClientOK, Money
<1>4. Money(Idle, 0, quoted[t])
  <2>1. Idle.pc = "idle" /\ Idle.answer = Nothing
    BY DEF Idle
  <2>2. Nothing # "created" /\ Nothing # "insufficient"
    BY Constants DEF Answers
  <2> QED BY <1>3, <2>1, <2>2 DEF Money
<1> QED BY <1>1, <1>2, <1>4 DEF Idle, Room, Turn

LEMMA NotMore == ~(0 > 0)
  OBVIOUS

\* A handler that has begun ends without storing anything.
LEMMA Stopped ==
    ASSUME IntakeInv, NEW t \in Clients, NEW answer \in Answers \ {"created"}, Ends(t, answer),
           client[t].pc # "idle", UNCHANGED left, StoreStays,
           quoted' \in [Clients -> Quotes \cup {Nothing}], taken' \in [Clients -> Nat],
           \A u \in Clients \ {t} : quoted'[u] = quoted[u] /\ taken'[u] = taken[u],
           quoted'[t] = Nothing \/ quoted'[t].sats = CalculatePrice(Size[quoted'[t].blob]),
           client[t].req.door \notin Paid => taken'[t] = 0,
           \/ taken'[t] = 0
           \/ /\ client[t].pc \in {"pay", "publish"}
              /\ answer \notin {"mismatch", "too large", "no room"},
           answer = "insufficient" =>
             \/ quoted'[t] = Nothing \/ quoted'[t].blob # client[t].req.body
             \/ client[t].token < quoted'[t].sats
    PROVE  IntakeInv'
<1>1. Types /\ ClientOK(t)
  BY DEF IntakeInv
<1>2. PICK c \in ClientType :
             /\ client' = [client EXCEPT ![t] = c]
             /\ c.pc = "answer" /\ c.answer = answer /\ c.temp = FALSE /\ c.req = client[t].req
             /\ c.token = client[t].token /\ c.wrote = client[t].wrote /\ c.since = client[t].since
  BY <1>1, EndsAre
<1>3. Sound(c)
  BY <1>1, <1>2 DEF ClientOK, Sound
<1>4. Money(c, taken'[t], quoted'[t])
  <2>1. taken'[t] # 0 => c.req.body = c.req.hash /\ Size[c.req.body] <= Limit(c.req.door)
    BY <1>1, <1>2 DEF ClientOK, Sound
  <2>2. c.req.door \notin Paid => c.token = Nothing
    BY <1>1, <1>2 DEF ClientOK, Money
  <2>3. taken'[t] > 0 => taken'[t] # 0
    BY NotMore
  <2> QED BY <1>2, <2>1, <2>2, <2>3 DEF Money
<1>5. Room(c, Bytes(Stored))
  BY <1>2 DEF Room
<1>6. Turn(t, c, left'[t])
  BY <1>1, <1>2 DEF ClientOK, Turn
<1>7. left' \in [Clients -> 0..Rounds] /\ \A u \in Clients \ {t} : left'[u] = left[u]
  BY <1>1 DEF Types
<1> QED BY <1>2, <1>3, <1>4, <1>5, <1>6, <1>7, OneClient

LEMMA PreflightStep ==
    ASSUME IntakeInv, NEW t \in Clients, Preflight(t) PROVE IntakeInv'
<1>1. Types /\ ClientOK(t)
  BY DEF IntakeInv
<1>2. PICK r \in Offers[t] : quoted' = [quoted EXCEPT ![t] = Quote(r.body)]
  BY DEF Preflight
<1>3. r.body \in Blobs
  BY Constants DEF Request
<1>4. Quote(r.body) \in Quotes /\ Quote(r.body).sats = CalculatePrice(Size[Quote(r.body).blob])
  BY <1>3, Prices DEF Quote, Quotes
<1>5. /\ quoted' \in [Clients -> Quotes \cup {Nothing}] /\ quoted'[t] = Quote(r.body)
      /\ \A u \in Clients \ {t} : quoted'[u] = quoted[u]
  BY <1>1, <1>2, <1>4 DEF Types
<1>6. /\ client[t] \in ClientType /\ client[t].pc = "idle"
      /\ client' = [client EXCEPT ![t] = client[t]]
  BY <1>1 DEF Preflight, Types
<1>7. /\ Sound(client[t]) /\ Room(client[t], Bytes(Stored)) /\ Turn(t, client[t], left'[t])
      /\ client[t].answer = Nothing
  BY <1>1, <1>6 DEF Preflight, ClientOK, Sound
<1>8. Money(client[t], taken'[t], quoted'[t])
  <2>1. taken'[t] = 0
    BY <1>1, <1>6 DEF Preflight, ClientOK, Money
  <2>2. client[t].answer # "created" /\ client[t].answer # "insufficient"
    BY <1>7, Constants DEF Answers
  <2> QED BY <1>4, <1>5, <1>6, <2>1, <2>2 DEF Money
<1>9. /\ left' \in [Clients -> 0..Rounds] /\ taken' \in [Clients -> Nat] /\ StoreStays
      /\ \A u \in Clients : left'[u] = left[u] /\ taken'[u] = taken[u]
  BY <1>1 DEF Preflight, Types
<1> QED BY <1>5, <1>6, <1>7, <1>8, <1>9, OneClient

\* A request is admitted or turned away.
LEMMA StartsStep ==
    ASSUME IntakeInv, NEW t \in Clients, NEW r \in Request, NEW token \in Nat \cup {Nothing},
           client[t].pc = "idle", Starts(t, r, token), UNCHANGED <<quoted, left, taken>>, StoreStays,
           r.door \notin Paid => token = Nothing, Turn(t, [pc |-> "stream", req |-> r], left[t])
    PROVE  IntakeInv'
<1> DEFINE c == [Idle EXCEPT !.pc = IF Admits(r) THEN "stream" ELSE "answer",
                             !.answer = IF Admits(r) THEN Nothing ELSE "no room",
                             !.req = r, !.token = token,
                             !.expires = IF r.keep = 0 THEN Nothing ELSE clock + r.keep]
<1>1. Types /\ ClientOK(t)
  BY DEF IntakeInv
<1>2. c \in ClientType
  <2>1. clock \in Nat /\ r.keep \in Nat
    BY <1>1, Constants DEF Types, Request
  <2>2. (IF r.keep = 0 THEN Nothing ELSE clock + r.keep) \in Nat \cup {Nothing}
    BY <2>1
  <2> QED BY <2>2 DEF Idle, ClientType, Answers
<1>3. /\ client' = [client EXCEPT ![t] = c]
      /\ c.req = r /\ c.token = token /\ c.temp = FALSE /\ c.wrote = 0 /\ c.since = 0
      /\ IF Admits(r) THEN c.pc = "stream" /\ c.answer = Nothing
         ELSE c.pc = "answer" /\ c.answer = "no room"
  BY DEF Starts, Idle
<1> HIDE DEF c
<1>4. Sound(c)
  <2>1. c.pc \in {"stream", "answer"} /\ (c.pc # "answer" => c.answer = Nothing)
    BY <1>3
  <2>2. c.wrote <= clock
    <3>1. MaxClock \in Nat /\ clock \in 0..MaxClock
      BY <1>1, Constants DEF Types
    <3>2. c.wrote = 0
      BY <1>3
    <3>3. 0 <= clock
      BY <3>1
    <3> QED BY <3>2, <3>3
  <2> QED BY <1>3, <2>1, <2>2 DEF Sound
<1>5. Money(c, taken'[t], quoted'[t])
  <2>1. taken'[t] = 0 /\ quoted'[t] = quoted[t]
    BY <1>1 DEF ClientOK, Money
  <2>2. quoted[t] = Nothing \/ quoted[t].sats = CalculatePrice(Size[quoted[t].blob])
    BY <1>1 DEF ClientOK, Money
  <2>3. c.answer # "created" /\ c.answer # "insufficient" /\ c.pc # "publish"
    BY <1>3, Constants DEF Answers
  <2>4. taken'[t] = 0 /\ ~(taken'[t] > 0)
    BY <2>1
  <2>5. c.req.door \notin Paid => c.token = Nothing
    BY <1>3
  <2> QED BY <2>1, <2>2, <2>3, <2>4, <2>5 DEF Money
<1>6. Room(c, Bytes(Stored))
  <2>1. (c.pc = "stream" /\ r.door \in {"put", "segment"} /\ MaxTotalSize # 0)
          => Bytes(Stored) + Declared(r) <= MaxTotalSize
    BY <1>3 DEF Admits, Fits
  <2>2. c.answer # "created" /\ c.pc \in {"stream", "answer"}
    BY <1>3, Constants DEF Answers
  <2>3. MaxTotalSize + c.since = MaxTotalSize
    <3>1. MaxTotalSize \in Nat
      BY Constants
    <3>2. c.since = 0
      BY <1>3
    <3>3. MaxTotalSize + 0 = MaxTotalSize
      BY <3>1
    <3> QED BY <3>2, <3>3
  <2> QED BY <1>3, <2>1, <2>2, <2>3 DEF Room
<1>7. Turn(t, c, left'[t])
  BY <1>3 DEF Turn
<1>8. /\ quoted' \in [Clients -> Quotes \cup {Nothing}]
      /\ left' \in [Clients -> 0..Rounds] /\ taken' \in [Clients -> Nat]
      /\ \A u \in Clients : quoted'[u] = quoted[u] /\ left'[u] = left[u] /\ taken'[u] = taken[u]
  BY <1>1 DEF Types
<1> QED BY <1>2, <1>3, <1>4, <1>5, <1>6, <1>7, <1>8, OneClient

LEMMA AdmitStep ==
    ASSUME IntakeInv, NEW t \in Clients, Admit(t) PROVE IntakeInv'
<1>1. Types /\ ClientOK(t)
  BY DEF IntakeInv
<1>2. PICK r \in Offers[t] : \E token \in Payments(t, r) : Starts(t, r, token)
  BY DEF Admit
<1>3. PICK token \in Payments(t, r) : Starts(t, r, token)
  BY <1>2
<1>4. r \in Request /\ r.door # "segment"
  BY Constants
<1>5. token \in Nat \cup {Nothing}
  <2>1. quoted[t] # Nothing => quoted[t].sats \in Nat
    <3>1. quoted[t] # Nothing => quoted[t] \in Quotes
                                 /\ quoted[t].sats = CalculatePrice(Size[quoted[t].blob])
      BY <1>1 DEF Types, ClientOK, Money
    <3>2. quoted[t] # Nothing => quoted[t].blob \in Blobs
      BY <3>1 DEF Quotes
    <3> QED BY <3>1, <3>2, Prices
  <2>2. Tokens[t] \subseteq Nat \cup {Nothing}
    BY Constants
  <2> QED BY <1>3, <2>1, <2>2 DEF Payments
<1>6. r.door \notin Paid => token = Nothing
  BY <1>3 DEF Payments
<1>7. Turn(t, [pc |-> "stream", req |-> r], left[t])
  BY <1>4 DEF Turn, Admit
<1> QED BY <1>3, <1>4, <1>5, <1>6, <1>7, StartsStep DEF Admit

\* A declared size is no less than the size.
LEMMA DeclaredCovers ==
    ASSUME NEW r \in Request
    PROVE  Declared(r) \in Nat /\ (Size[r.body] <= Limit(r.door) => Size[r.body] <= Declared(r))
<1>1. r.body \in Blobs /\ r.door \in Doors
  BY DEF Request
<1>2. Size[r.body] \in Nat /\ Limit(r.door) \in Nat
  BY <1>1, Limits, Constants
<1> QED BY <1>2 DEF Declared

\* A handler goes on to its next step with what that step needs.
LEMMA Proceeds ==
    ASSUME IntakeInv, NEW t \in Clients, NEW pc \in {"pay", "publish"}, Moves(t, pc),
           client[t].pc \in {"verify", "pay"}, client[t].req.body = client[t].req.hash,
           UNCHANGED <<quoted, left>>, StoreStays, taken' \in [Clients -> Nat],
           \A u \in Clients \ {t} : taken'[u] = taken[u],
           pc = "pay" => taken'[t] = 0,
           client[t].req.door \notin Paid => taken'[t] = 0,
           (pc = "publish" /\ client[t].req.door \in Paid)
             => taken'[t] >= CalculatePrice(Size[client[t].req.body])
    PROVE  IntakeInv'
<1>1. Types /\ ClientOK(t)
  BY DEF IntakeInv
<1>2. PICK c \in ClientType :
             /\ client' = [client EXCEPT ![t] = c]
             /\ c.pc = pc /\ c.answer = client[t].answer /\ c.temp = client[t].temp
             /\ c.req = client[t].req /\ c.token = client[t].token
             /\ c.wrote = client[t].wrote /\ c.since = client[t].since
  BY <1>1, MovesAre
<1>3. Sound(c)
  BY <1>1, <1>2 DEF ClientOK, Sound
<1>4. Money(c, taken'[t], quoted'[t])
  <2>1. c.req.body = c.req.hash /\ Size[c.req.body] <= Limit(c.req.door)
    BY <1>1, <1>2 DEF ClientOK, Sound
  <2>2. c.req.door \notin Paid => c.token = Nothing
    BY <1>1, <1>2 DEF ClientOK, Money
  <2>3. quoted'[t] = Nothing \/ quoted'[t].sats = CalculatePrice(Size[quoted'[t].blob])
    BY <1>1 DEF ClientOK, Money
  <2>4. c.answer = Nothing /\ c.answer \notin Answers
    BY <1>1, <1>2, Constants DEF ClientOK, Sound
  <2>5. c.answer \notin {"created", "insufficient", "mismatch", "too large", "no room"}
    BY <2>4 DEF Answers
  <2> QED BY <1>2, <2>1, <2>2, <2>3, <2>5 DEF Money
<1>5. Room(c, Bytes(Stored))
  <2>1. c.answer = Nothing /\ c.answer # "created"
    BY <1>1, <1>2, Constants DEF ClientOK, Sound, Answers
  <2> QED BY <1>1, <1>2, <2>1 DEF ClientOK, Room
<1>6. Turn(t, c, left'[t])
  BY <1>1, <1>2 DEF ClientOK, Turn
<1>7. /\ left' \in [Clients -> 0..Rounds] /\ quoted' \in [Clients -> Quotes \cup {Nothing}]
      /\ \A u \in Clients \ {t} : left'[u] = left[u] /\ quoted'[u] = quoted[u]
  BY <1>1 DEF Types
<1> QED BY <1>2, <1>3, <1>4, <1>5, <1>6, <1>7, OneClient

LEMMA ReceiveStep ==
    ASSUME IntakeInv, NEW t \in Clients, Receive(t) PROVE IntakeInv'
<1> DEFINE r == client[t].req
<1>1. /\ Types /\ ClientOK(t) /\ client[t].pc = "stream" /\ r \in Request /\ taken[t] = 0
      /\ client[t].answer = Nothing
  BY DEF IntakeInv, Receive, ClientOK, Sound, Money
<1>2. /\ quoted' \in [Clients -> Quotes \cup {Nothing}] /\ left' \in [Clients -> 0..Rounds]
      /\ taken' \in [Clients -> Nat] /\ StoreStays /\ UNCHANGED <<quoted, left, taken>>
      /\ quoted'[t] = Nothing \/ quoted'[t].sats = CalculatePrice(Size[quoted'[t].blob])
  BY <1>1 DEF Receive, Types, ClientOK, Money
<1>3. CASE \E answer \in {"too large", "failed"} : Ends(t, answer)
  <2>1. PICK answer \in {"too large", "failed"} : Ends(t, answer)
    BY <1>3
  <2>2. answer \in Answers \ {"created"} /\ answer # "insufficient"
    BY DEF Answers
  <2>3. taken'[t] = 0 /\ client[t].pc # "idle"
    BY <1>1, <1>2
  <2>4. \A u \in Clients \ {t} : quoted'[u] = quoted[u] /\ taken'[u] = taken[u]
    BY <1>2
  <2>5. UNCHANGED left
    BY <1>2
  <2> QED BY <1>2, <2>1, <2>2, <2>3, <2>4, <2>5, Stopped
<1>4. CASE /\ Size[r.body] <= Limit(r.door)
           /\ client' = [client EXCEPT ![t].pc = "verify", ![t].temp = TRUE, ![t].wrote = clock]
  <2> DEFINE c == [client[t] EXCEPT !.pc = "verify", !.temp = TRUE, !.wrote = clock]
  <2>0. client[t] \in ClientType /\ clock \in Nat /\ clock <= clock
    BY <1>1, Constants DEF Types
  <2>1. c \in ClientType /\ client' = [client EXCEPT ![t] = c]
    BY <1>1, <1>4, <2>0 DEF ClientType, Types
  <2>2. /\ c.pc = "verify" /\ c.temp = TRUE /\ c.wrote = clock /\ c.answer = Nothing /\ c.req = r
        /\ c.token = client[t].token /\ c.since = client[t].since
    BY <1>1, <2>0 DEF ClientType
  <2> HIDE DEF c
  <2>3. Sound(c)
    BY <1>1, <1>4, <2>0, <2>2 DEF Sound
  <2>4. c.answer \notin Answers
    BY <2>2, Constants
  <2>5. Money(c, taken'[t], quoted'[t])
    <3>1. c.answer # "created" /\ c.answer # "insufficient"
      BY <2>4 DEF Answers
    <3>2. taken'[t] = 0 /\ ~(taken'[t] > 0)
      BY <1>1, <1>2
    <3>3. c.req.door \notin Paid => c.token = Nothing
      BY <1>1, <2>2 DEF ClientOK, Money
    <3> QED BY <1>2, <2>2, <3>1, <3>2, <3>3 DEF Money
  <2>6. Room(c, Bytes(Stored))
    <3>1. c.answer # "created"
      BY <2>4 DEF Answers
    <3>2. ASSUME MaxTotalSize # 0, r.door \in {"put", "segment"}
          PROVE  Bytes(Stored) + Size[r.body] <= MaxTotalSize + c.since
      <4>1. Bytes(Stored) + Declared(r) <= MaxTotalSize + client[t].since
        BY <1>1, <3>2 DEF ClientOK, Room
      <4>2. Bytes(Stored) \in Nat /\ Size[r.body] \in Nat /\ MaxTotalSize \in Nat
            /\ client[t].since \in Nat
        BY <1>1, <2>0, StoredBlobs, Constants DEF Request, ClientType
      <4>3. Declared(r) \in Nat /\ Size[r.body] <= Declared(r)
        BY <1>1, <1>4, DeclaredCovers
      <4> QED BY <2>2, <4>1, <4>2, <4>3
    <3> QED BY <2>2, <3>1, <3>2 DEF Room
  <2>7. Turn(t, c, left'[t])
    BY <1>1, <1>2, <2>2 DEF ClientOK, Turn
  <2>8. \A u \in Clients \ {t} : quoted'[u] = quoted[u] /\ left'[u] = left[u] /\ taken'[u] = taken[u]
    BY <1>2
  <2> QED BY <1>2, <2>1, <2>3, <2>5, <2>6, <2>7, <2>8, OneClient
<1> QED BY <1>3, <1>4 DEF Receive

LEMMA VerifyStep ==
    ASSUME IntakeInv, NEW t \in Clients, Verify(t) PROVE IntakeInv'
<1> DEFINE r == client[t].req
<1>1. /\ Types /\ ClientOK(t) /\ client[t].pc = "verify" /\ r \in Request /\ taken[t] = 0
      /\ client[t].answer = Nothing
  BY DEF IntakeInv, Verify, ClientOK, Sound, Money
<1>2. /\ quoted' \in [Clients -> Quotes \cup {Nothing}] /\ left' \in [Clients -> 0..Rounds]
      /\ taken' \in [Clients -> Nat] /\ StoreStays /\ UNCHANGED <<quoted, left, taken>>
      /\ quoted'[t] = Nothing \/ quoted'[t].sats = CalculatePrice(Size[quoted'[t].blob])
  BY <1>1 DEF Verify, Types, ClientOK, Money
<1>3. taken'[t] = 0 /\ \A u \in Clients \ {t} : quoted'[u] = quoted[u] /\ taken'[u] = taken[u]
  BY <1>1, <1>2
<1>4. CASE \E answer \in {"mismatch", "forbidden"} : Ends(t, answer)
  <2>1. PICK answer \in {"mismatch", "forbidden"} : Ends(t, answer)
    BY <1>4
  <2>2. answer \in Answers \ {"created"} /\ answer # "insufficient" /\ client[t].pc # "idle"
    BY <1>1 DEF Answers
  <2>3. UNCHANGED left
    BY <1>2
  <2> QED BY <1>2, <1>3, <2>1, <2>2, <2>3, Stopped
<1>5. CASE r.body = r.hash /\ r.door \in {"fill", "segment"} /\ Moves(t, "publish")
  <2>1. r.door \notin Paid
    BY <1>5, Constants
  <2> QED BY <1>1, <1>2, <1>3, <1>5, <2>1, Proceeds
<1>6. CASE r.body = r.hash /\ Moves(t, "pay")
  BY <1>1, <1>2, <1>3, <1>6, Proceeds
<1> QED BY <1>4, <1>5, <1>6 DEF Verify

LEMMA ChargeStep ==
    ASSUME IntakeInv, NEW t \in Clients, Charge(t) PROVE IntakeInv'
<1> DEFINE r == client[t].req
           q == Quote(r.body)
           token == client[t].token
<1>1. /\ Types /\ ClientOK(t) /\ client[t].pc = "pay" /\ r \in Request /\ taken[t] = 0
      /\ r.body = r.hash /\ token \in Nat \cup {Nothing}
      /\ r.door \notin Paid => token = Nothing
      /\ quoted[t] = Nothing \/ quoted[t].sats = CalculatePrice(Size[quoted[t].blob])
  BY DEF IntakeInv, Charge, ClientOK, Sound, Money, Types, ClientType
<1>2. UNCHANGED left /\ StoreStays /\ client[t].pc # "idle" /\ client[t].pc \in {"verify", "pay"}
  BY <1>1 DEF Charge
<1>3. /\ q \in Quotes /\ q.sats = CalculatePrice(Size[r.body]) /\ q.blob = r.body
      /\ q.sats \in Nat /\ q.sats >= 1
  <2>1. r.body \in Blobs
    BY <1>1 DEF Request
  <2> QED BY <2>1, Prices DEF Quote, Quotes
<1>4. quoted \in [Clients -> Quotes \cup {Nothing}] /\ taken \in [Clients -> Nat]
  BY <1>1 DEF Types
<1>5. ASSUME quoted' = [quoted EXCEPT ![t] = q]
      PROVE  /\ quoted' \in [Clients -> Quotes \cup {Nothing}] /\ quoted'[t] = q
             /\ \A u \in Clients \ {t} : quoted'[u] = quoted[u]
  <2> HIDE DEF q
  <2> QED BY <1>3, <1>4, <1>5
<1> HIDE DEF q
<1>6. CASE r.door \notin Paid /\ Moves(t, "publish") /\ UNCHANGED <<quoted, taken>>
  <2>1. taken' \in [Clients -> Nat] /\ taken'[t] = 0 /\ \A u \in Clients \ {t} : taken'[u] = taken[u]
    BY <1>1, <1>4, <1>6
  <2> QED BY <1>1, <1>2, <1>6, <2>1, Proceeds
<1>7. CASE /\ r.door \in Paid /\ token = Nothing
           /\ Ends(t, "pay") /\ quoted' = [quoted EXCEPT ![t] = q] /\ UNCHANGED taken
  <2>1. taken' \in [Clients -> Nat] /\ taken'[t] = 0 /\ \A u \in Clients \ {t} : taken'[u] = taken[u]
    BY <1>1, <1>4, <1>7
  <2>2. "pay" \in Answers \ {"created"} /\ "pay" # "insufficient"
    BY DEF Answers
  <2>3. quoted'[t].sats = CalculatePrice(Size[quoted'[t].blob])
    BY <1>3, <1>5, <1>7
  <2> QED BY <1>2, <1>5, <1>7, <2>1, <2>2, <2>3, Stopped
<1>8. CASE /\ token # Nothing /\ token < q.sats
           /\ Ends(t, "insufficient") /\ UNCHANGED <<quoted, taken>>
  <2>1. /\ taken' \in [Clients -> Nat] /\ taken'[t] = 0 /\ quoted'[t] = quoted[t]
        /\ \A u \in Clients \ {t} : quoted'[u] = quoted[u] /\ taken'[u] = taken[u]
        /\ quoted' \in [Clients -> Quotes \cup {Nothing}]
    BY <1>1, <1>4, <1>8
  <2>2. "insufficient" \in Answers \ {"created"}
    BY DEF Answers
  <2>3. (quoted[t] # Nothing /\ quoted[t].blob = r.body) => token < quoted[t].sats
    BY <1>1, <1>3, <1>8
  <2> QED BY <1>1, <1>2, <1>8, <2>1, <2>2, <2>3, Stopped
<1>9. CASE token # Nothing /\ Ends(t, "failed") /\ UNCHANGED <<quoted, taken>>
  <2>1. /\ taken' \in [Clients -> Nat] /\ taken'[t] = 0 /\ quoted'[t] = quoted[t]
        /\ \A u \in Clients \ {t} : quoted'[u] = quoted[u] /\ taken'[u] = taken[u]
        /\ quoted' \in [Clients -> Quotes \cup {Nothing}]
    BY <1>1, <1>4, <1>9
  <2>2. "failed" \in Answers \ {"created"} /\ "failed" # "insufficient"
    BY DEF Answers
  <2> QED BY <1>1, <1>2, <1>9, <2>1, <2>2, Stopped
<1>10. CASE /\ token # Nothing
            /\ \E fee \in Fees :
                 LET got == Max({0, token - fee}) IN
                 /\ taken' = [taken EXCEPT ![t] = @ + got]
                 /\ IF got < q.sats
                    THEN Ends(t, "short") /\ quoted' = [quoted EXCEPT ![t] = q]
                    ELSE Moves(t, "publish") /\ UNCHANGED quoted
  <2>1. PICK fee \in Fees :
                 LET got == Max({0, token - fee}) IN
                 /\ taken' = [taken EXCEPT ![t] = @ + got]
                 /\ IF got < q.sats
                    THEN Ends(t, "short") /\ quoted' = [quoted EXCEPT ![t] = q]
                    ELSE Moves(t, "publish") /\ UNCHANGED quoted
    BY <1>10
  <2> DEFINE got == Max({0, token - fee})
  <2>2. got \in Nat
    <3>1. token - fee \in Int
      BY <1>1, <1>10, Constants
    <3> QED BY <3>1, MaxOfTwo
  <2> HIDE DEF got
  <2>3. taken' = [taken EXCEPT ![t] = @ + got]
    BY <2>1 DEF got
  <2>4. taken[t] + got = got
    BY <1>1, <2>2
  <2>5. /\ taken' \in [Clients -> Nat] /\ taken'[t] = got
        /\ \A u \in Clients \ {t} : taken'[u] = taken[u]
    BY <1>4, <2>2, <2>3, <2>4
  <2>6. r.door \in Paid
    BY <1>1, <1>10
  <2>7. CASE got < q.sats
    <3>1. Ends(t, "short") /\ quoted' = [quoted EXCEPT ![t] = q]
      BY <2>1, <2>7 DEF got
    <3>2. "short" \in Answers \ {"created"} /\ "short" # "insufficient"
      BY DEF Answers
    <3>3. quoted'[t].sats = CalculatePrice(Size[quoted'[t].blob])
      BY <1>3, <1>5, <3>1
    <3> QED BY <1>1, <1>2, <1>5, <2>5, <2>6, <3>1, <3>2, <3>3, Stopped
  <2>8. CASE ~(got < q.sats)
    <3>1. Moves(t, "publish") /\ UNCHANGED quoted
      BY <2>1, <2>8 DEF got
    <3>2. taken'[t] >= CalculatePrice(Size[r.body])
      BY <1>3, <2>2, <2>5, <2>8
    <3> QED BY <1>1, <1>2, <2>5, <2>6, <3>1, <3>2, Proceeds
  <2> QED BY <2>7, <2>8
<1>11. \/ r.door \notin Paid /\ Moves(t, "publish") /\ UNCHANGED <<quoted, taken>>
       \/ /\ r.door \in Paid /\ token = Nothing
          /\ Ends(t, "pay") /\ quoted' = [quoted EXCEPT ![t] = q] /\ UNCHANGED taken
       \/ /\ token # Nothing /\ token < q.sats
          /\ Ends(t, "insufficient") /\ UNCHANGED <<quoted, taken>>
       \/ token # Nothing /\ Ends(t, "failed") /\ UNCHANGED <<quoted, taken>>
       \/ /\ token # Nothing
          /\ \E fee \in Fees :
                 LET got == Max({0, token - fee}) IN
                 /\ taken' = [taken EXCEPT ![t] = @ + got]
                 /\ IF got < q.sats
                    THEN Ends(t, "short") /\ quoted' = [quoted EXCEPT ![t] = q]
                    ELSE Moves(t, "publish") /\ UNCHANGED quoted
  BY DEF Charge, q
<1> QED BY <1>6, <1>7, <1>8, <1>9, <1>10, <1>11

\* What one more copy changes about all of them.
LEMMA StoredGrows ==
    ASSUME Types, NEW h \in Blobs, NEW new \in Copies, index' = [index EXCEPT ![h] = new]
    PROVE  /\ Stored' = Stored \cup {h}
           /\ Bytes(Stored) \in Nat /\ Bytes(Stored)' \in Nat /\ Size[h] \in Nat
           /\ Bytes(Stored) <= Bytes(Stored)' /\ Bytes(Stored)' <= Bytes(Stored) + Size[h]
           /\ Cardinality(Stored) \in Nat /\ Cardinality(Stored)' \in Nat
           /\ Cardinality(Stored) <= Cardinality(Stored)'
<1>1. new # Nothing
  BY Constants
<1>2. Stored' = Stored \cup {h}
  BY <1>1 DEF Stored, Types
<1>3. Stored \in SUBSET Blobs /\ IsFiniteSet(Stored)
  BY StoredBlobs
<1>4. Bytes(Stored)' = Bytes(Stored \cup {h})
  <2>1. Bytes(Stored)' = Bytes(Stored')
    OBVIOUS
  <2> QED BY <1>2, <2>1
<1>5. /\ Bytes(Stored) \in Nat /\ Size[h] \in Nat
      /\ h \notin Stored => Bytes(Stored \cup {h}) = Bytes(Stored) + Size[h]
      /\ h \in Stored => Stored \cup {h} = Stored
  BY <1>3, BytesGrow
<1>6. /\ Bytes(Stored \cup {h}) \in Nat
      /\ Bytes(Stored) <= Bytes(Stored \cup {h}) /\ Bytes(Stored \cup {h}) <= Bytes(Stored) + Size[h]
  BY <1>5
<1>7. IsFiniteSet(Stored \cup {h})
  BY <1>3, FS_AddElement
<1>8. /\ Cardinality(Stored) \in Nat /\ Cardinality(Stored \cup {h}) \in Nat
      /\ Cardinality(Stored) <= Cardinality(Stored \cup {h})
  BY <1>3, <1>7, FS_CardinalityType, FS_Subset
<1> QED BY <1>2, <1>4, <1>5, <1>6, <1>8

\* The sunset of a copy is a time or none.
LEMMA SunsetOf ==
    ASSUME NEW e \in Copies PROVE Sunset(e) \in Nat \cup {Nothing}
BY DeadlineOf DEF Sunset

\* Others have stored n more bytes.
LEMMA RoomForOthers ==
    ASSUME NEW c \in ClientType, NEW d \in ClientType, NEW bytes \in Nat, NEW more \in Nat,
           NEW n \in Nat, more <= bytes + n, c.pc # "idle" => c.req \in Request,
           d = [c EXCEPT !.since = @ + n], Room(c, bytes)
    PROVE  Room(d, more)
<1>1. /\ d.pc = c.pc /\ d.req = c.req /\ d.answer = c.answer /\ d.since = c.since + n
      /\ c.since \in Nat
  BY DEF ClientType
<1>2. MaxTotalSize \in Nat
  BY Constants
<1>3. ASSUME NEW x \in Nat, bytes + x <= MaxTotalSize + c.since
      PROVE  more + x <= MaxTotalSize + d.since
  BY <1>1, <1>2, <1>3
<1>4. bytes <= MaxTotalSize + c.since => more <= MaxTotalSize + d.since
  BY <1>1, <1>2
<1>5. c.pc # "idle" => Declared(c.req) \in Nat /\ Size[c.req.body] \in Nat
  <2>1. c.pc # "idle" => c.req.body \in Blobs
    BY DEF Request
  <2> QED BY <2>1, DeclaredCovers, Constants
<1> QED BY <1>1, <1>3, <1>4, <1>5 DEF Room

\* A handler stores its copy.
LEMMA StoresStep ==
    ASSUME IntakeInv, NEW t \in Clients, client[t].pc = "publish",
           client[t].req.hash \notin quarantined,
           index' = [index EXCEPT ![client[t].req.hash] = Copy(t)],
           promised' = [promised EXCEPT ![client[t].req.hash] = Sunset(Copy(t))],
           Stores(t, client[t].req.hash),
           UNCHANGED <<quoted, left, taken, quarantined>>, NoSweepStep
    PROVE  IntakeInv'
<1> DEFINE h == client[t].req.hash
           new == Copy(t)
<1>1. Types /\ ClientOK(t) /\ SweepOK
  BY DEF IntakeInv
<1>2. /\ client[t] \in ClientType /\ client[t].req \in Request /\ h \in Blobs
      /\ client[t].req.body = h /\ Size[h] <= Limit(client[t].req.door)
      /\ client[t].req.door \in Doors /\ client[t].wrote <= clock
  BY <1>1 DEF Types, ClientOK, Sound, Request
<1>3. /\ clock \in Nat /\ MaxClock \in Nat /\ due \in Nat /\ Interval \in Nat /\ Interval > 0
      /\ due <= clock + Interval
  <2>1. MaxClock \in Nat /\ Interval \in Nat /\ Interval > 0
    BY Constants
  <2> QED BY <1>1, <2>1 DEF Types, SweepOK
<1>4. /\ new \in Copies /\ new.created = clock /\ new.written <= clock
  BY <1>2, <1>3 DEF Copy, Copies, ClientType
<1>5. Sunset(new) \in Nat \cup {Nothing}
  BY <1>4, SunsetOf
<1>6. /\ UNCHANGED <<quoted, left, taken, quarantined, active, clock, due, sweep, failed, interfered>>
      /\ index' = [index EXCEPT ![h] = new] /\ promised' = [promised EXCEPT ![h] = Sunset(new)]
  BY DEF NoSweepStep
<1>7. /\ Stored' = Stored \cup {h}
      /\ Bytes(Stored) \in Nat /\ Bytes(Stored)' \in Nat /\ Size[h] \in Nat
      /\ Bytes(Stored) <= Bytes(Stored)' /\ Bytes(Stored)' <= Bytes(Stored) + Size[h]
      /\ Cardinality(Stored) \in Nat /\ Cardinality(Stored)' \in Nat
      /\ Cardinality(Stored) <= Cardinality(Stored)'
  BY <1>1, <1>2, <1>4, <1>6, StoredGrows
<1>8. /\ \A u \in Clients : client'[u] =
                 IF u = t THEN [client[t] EXCEPT !.pc = "answer", !.answer = "created",
                                                 !.temp = FALSE]
                 ELSE IF client[u].pc = "idle" THEN client[u]
                 ELSE [client[u] EXCEPT !.since = @ + Size[h]]
      /\ client' = [u \in Clients |-> client'[u]]
  BY DEF Stores
<1> HIDE DEF h, new
<1>9. ASSUME NEW u \in Clients PROVE client'[u] \in ClientType /\ ClientOK(u)'
  <2>1. client[u] \in ClientType /\ ClientOK(u)
    BY <1>1 DEF Types, IntakeInv
  <2>2. CASE u = t
    <3> DEFINE c == client'[t]
    <3>1. /\ c \in ClientType /\ c.pc = "answer" /\ c.answer = "created" /\ c.temp = FALSE
          /\ c.req = client[t].req /\ c.token = client[t].token /\ c.wrote = client[t].wrote
          /\ c.since = client[t].since
      BY <1>2, <1>8 DEF ClientType, Answers
    <3>2. taken'[t] = taken[t] /\ quoted'[t] = quoted[t] /\ left'[t] = left[t] /\ clock' = clock
      BY <1>6
    <3> HIDE DEF c
    <3>3. Sound(c)
      BY <1>1, <3>1, <3>2 DEF ClientOK, Sound
    <3>4. Money(c, taken[t], quoted[t])
      BY <1>1, <3>1 DEF ClientOK, Money
    <3>5. Room(c, Bytes(Stored)')
      <4>1. ASSUME MaxTotalSize # 0, c.req.door \in {"put", "segment"}
            PROVE  Bytes(Stored)' <= MaxTotalSize + c.since
        <5>1. Bytes(Stored) + Size[h] <= MaxTotalSize + client[t].since
          BY <1>1, <1>2, <3>1, <4>1 DEF ClientOK, Room
        <5>2. MaxTotalSize \in Nat /\ client[t].since \in Nat
          BY <1>2, Constants DEF ClientType
        <5> QED BY <1>7, <3>1, <5>1, <5>2
      <4> QED BY <3>1, <4>1 DEF Room
    <3>6. Turn(t, c, left[t])
      BY <1>1, <3>1 DEF ClientOK, Turn
    <3>7. Sound(client[t])'
      BY <3>2, <3>3 DEF c, Sound
    <3>8. Room(client[t], Bytes(Stored))'
      BY <3>5 DEF c, Room
    <3> QED BY <2>2, <3>1, <3>2, <3>4, <3>6, <3>7, <3>8 DEF c, ClientOK, Money, Turn
  <2>3. CASE u # t
    <3> DEFINE d == IF client[u].pc = "idle" THEN client[u]
                    ELSE [client[u] EXCEPT !.since = @ + Size[h]]
    <3>0. client'[u] = d
      BY <1>8, <2>3
    <3>1. /\ d \in ClientType /\ d.pc = client[u].pc /\ d.req = client[u].req
          /\ d.token = client[u].token /\ d.temp = client[u].temp /\ d.wrote = client[u].wrote
          /\ d.answer = client[u].answer
      BY <1>7, <2>1 DEF ClientType
    <3>2. Room(d, Bytes(Stored)')
      <4>1. CASE client[u].pc = "idle"
        BY <4>1 DEF Room
      <4>2. CASE client[u].pc # "idle"
        <5> DEFINE more == Bytes(Stored)'
        <5>0. more \in Nat /\ more <= Bytes(Stored) + Size[h]
          BY <1>7
        <5> HIDE DEF more
        <5>1. Room(client[u], Bytes(Stored)) /\ client[u].req \in Request
          BY <2>1, <4>2 DEF ClientOK, Sound
        <5>2. d = [client[u] EXCEPT !.since = @ + Size[h]]
          BY <4>2
        <5> HIDE DEF d
        <5>3. Room(d, more)
          BY <1>7, <2>1, <3>1, <5>0, <5>1, <5>2, RoomForOthers
        <5> QED BY <5>3 DEF more
      <4> QED BY <4>1, <4>2
    <3> HIDE DEF d
    <3>3. taken'[u] = taken[u] /\ quoted'[u] = quoted[u] /\ left'[u] = left[u] /\ clock' = clock
      BY <1>6
    <3>4. Sound(client'[u]) /\ Money(client'[u], taken[u], quoted[u]) /\ Turn(u, client'[u], left[u])
      BY <2>1, <3>0, <3>1 DEF ClientOK, Sound, Money, Turn
    <3>5. Sound(client[u])'
      BY <3>3, <3>4 DEF Sound
    <3>6. Room(client[u], Bytes(Stored))'
      BY <3>0, <3>2 DEF Room
    <3> QED BY <3>0, <3>1, <3>3, <3>4, <3>5, <3>6 DEF ClientOK, Money, Turn
  <2> QED BY <2>2, <2>3
<1>10. Types'
  <2>1. client' \in [Clients -> ClientType]
    BY <1>8, <1>9
  <2>2. index' \in [Blobs -> Copies \cup {Nothing}]
    BY <1>1, <1>2, <1>4, <1>6 DEF Types
  <2>3. promised' \in [Blobs -> Nat \cup {Nothing}]
    BY <1>1, <1>2, <1>5, <1>6 DEF Types
  <2> QED BY <1>1, <1>6, <2>1, <2>2, <2>3 DEF Types
<1>11. ASSUME NEW g \in Blobs PROVE CopyOK(g)'
  <2>1. CASE g = h
    <3>1. index'[g] = new /\ promised'[g] = Sunset(new) /\ new # Nothing
      BY <1>1, <1>2, <1>4, <1>6, <2>1, Constants DEF Types
    <3>2. Size[h] <= MaxBlob
      <4>1. Limit(client[t].req.door) \in Nat /\ Limit(client[t].req.door) <= MaxBlob
        BY <1>2, Limits
      <4>2. MaxBlob \in Nat
        BY Constants
      <4> QED BY <1>2, <1>7, <4>1, <4>2
    <3>3. Sunset(index[g])' = Sunset(new)
      BY <3>1
    <3>4. new.written <= new.created /\ new.created <= clock'
      BY <1>3, <1>4, <1>6
    <3> QED BY <2>1, <3>1, <3>2, <3>3, <3>4 DEF CopyOK
  <2>2. CASE g # h
    <3>1. index'[g] = index[g] /\ promised'[g] = promised[g] /\ clock' = clock
      BY <1>1, <1>6, <2>2 DEF Types
    <3>2. CopyOK(g)
      BY DEF IntakeInv
    <3> QED BY <3>1, <3>2 DEF CopyOK
  <2> QED BY <2>1, <2>2
<1>12. SweepOK'
  <2>1. due' <= clock' + Interval
    BY <1>3, <1>6
  <2>2. ASSUME NEW g \in Blobs \ failed', Overdue(g)'
        PROVE  \/ sweep'.step = "sleep" /\ due' <= clock'
               \/ sweep'.step = "expire" /\ Entry(g)' \in sweep'.left
    <3>1. CASE g = h
      <4>1. index'[g] = new
        BY <1>1, <1>2, <1>6, <3>1 DEF Types
      <4>2. clock + Interval < due
        BY <1>4, <1>6, <2>2, <4>1 DEF Overdue
      <4> QED BY <1>3, <4>2
    <3>2. CASE g # h
      <4>1. index'[g] = index[g]
        BY <1>1, <1>6, <3>2 DEF Types
      <4>2. Overdue(g) /\ Entry(g)' = Entry(g)
        BY <1>6, <2>2, <4>1 DEF Overdue, Entry
      <4> QED BY <1>1, <1>6, <2>2, <4>2 DEF SweepOK
    <3> QED BY <3>1, <3>2
  <2>3. sweep'.step = "expire" => \A c \in sweep'.left : Expired(c.copy)'
    BY <1>1, <1>6 DEF SweepOK, Expired
  <2>4. ASSUME sweep'.step = "evict"
        PROVE  /\ ~interfered' => sweep'.size <= Bytes(Stored)' /\ sweep'.files <= Cardinality(Stored)'
               /\ \A c, d \in sweep'.snapshot : c.hash = d.hash => c = d
    <3>1. sweep.size \in Int /\ sweep.files \in Int
      BY <1>1 DEF Types, SweepType
    <3>2. ~interfered => sweep.size <= Bytes(Stored) /\ sweep.files <= Cardinality(Stored)
      BY <1>1, <1>6, <2>4 DEF SweepOK
    <3>3. \A c, d \in sweep.snapshot : c.hash = d.hash => c = d
      BY <1>1, <1>6, <2>4 DEF SweepOK
    <3>4. ~interfered => sweep.size <= Bytes(Stored)' /\ sweep.files <= Cardinality(Stored)'
      BY <1>7, <3>1, <3>2
    <3> QED BY <1>6, <3>3, <3>4
  <2>5. ASSUME sweep'.step = "evict", NEW c \in sweep'.snapshot \ sweep'.left
        PROVE  c.hash \in failed' \/ ~StillExpected(c)' \/ c.copy.created = clock'
    <3>1. c.hash \in failed \/ ~StillExpected(c) \/ c.copy.created = clock
      BY <1>1, <1>6, <2>5 DEF SweepOK
    <3>2. c.hash \in Blobs
      BY <1>1, <1>6 DEF Types, SweepType, Candidates
    <3>3. CASE c.hash = h
      <4>1. index'[c.hash] = new
        BY <1>1, <1>2, <1>6, <3>3 DEF Types
      <4> QED BY <1>4, <1>6, <4>1 DEF StillExpected
    <3>4. CASE c.hash # h
      <4>1. index'[c.hash] = index[c.hash]
        BY <1>1, <1>6, <3>2, <3>4 DEF Types
      <4> QED BY <1>6, <3>1, <4>1 DEF StillExpected
    <3> QED BY <3>3, <3>4
  <2> QED BY <2>1, <2>2, <2>3, <2>4, <2>5 DEF SweepOK
<1> QED BY <1>9, <1>10, <1>11, <1>12 DEF IntakeInv

LEMMA PublishStep ==
    ASSUME IntakeInv, NEW t \in Clients, Publish(t) PROVE IntakeInv'
<1> DEFINE h == client[t].req.hash
           new == Copy(t)
<1>1. /\ Types /\ ClientOK(t) /\ client[t].pc = "publish" /\ h \in Blobs
      /\ client[t].req.door \notin Paid => taken[t] = 0
      /\ quoted[t] = Nothing \/ quoted[t].sats = CalculatePrice(Size[quoted[t].blob])
  BY DEF IntakeInv, Publish, ClientOK, Sound, Money, Request
<1>2. UNCHANGED <<quoted, left, taken, quarantined>> /\ NoSweepStep
  BY DEF Publish
<1>3. /\ quoted' \in [Clients -> Quotes \cup {Nothing}] /\ taken' \in [Clients -> Nat]
      /\ \A u \in Clients : quoted'[u] = quoted[u] /\ taken'[u] = taken[u]
      /\ UNCHANGED left /\ client[t].pc # "idle" /\ client[t].pc \in {"pay", "publish"}
  BY <1>1, <1>2 DEF Types
<1>4. ASSUME NEW answer \in {"forbidden", "kept", "failed"}, Ends(t, answer),
             UNCHANGED <<index, promised>>
      PROVE  IntakeInv'
  <2>1. /\ answer \in Answers \ {"created"}
        /\ answer \notin {"mismatch", "too large", "no room", "insufficient"}
    BY <1>4 DEF Answers
  <2>2. StoreStays
    BY <1>2, <1>4 DEF StoreStays
  <2>3. /\ \A u \in Clients \ {t} : quoted'[u] = quoted[u] /\ taken'[u] = taken[u]
        /\ quoted'[t] = Nothing \/ quoted'[t].sats = CalculatePrice(Size[quoted'[t].blob])
        /\ client[t].req.door \notin Paid => taken'[t] = 0
    BY <1>1, <1>3
  <2> QED BY <1>3, <1>4, <2>1, <2>2, <2>3, Stopped
<1>5. CASE h \in quarantined /\ Ends(t, "forbidden") /\ UNCHANGED <<index, promised>>
  BY <1>4, <1>5
<1>6. CASE /\ Keeps(index[h], new)
           /\ promised' = [promised EXCEPT ![h] =
                             IF new.origin = "upload" THEN Sunset(index[h]) ELSE @]
           /\ Ends(t, "kept") /\ UNCHANGED index
  <2>1. promised[h] = Sunset(index[h])
    BY <1>1, <1>6 DEF IntakeInv, CopyOK, Keeps
  <2>2. promised' = [promised EXCEPT ![h] = promised[h]]
    BY <1>6, <2>1
  <2>3. promised' = promised
    BY <1>1, <2>2 DEF Types
  <2> QED BY <1>4, <1>6, <2>3
<1>7. CASE /\ h \notin quarantined
           /\ index' = [index EXCEPT ![h] = new] /\ promised' = [promised EXCEPT ![h] = Sunset(new)]
           /\ Stores(t, h)
  BY <1>1, <1>2, <1>7, StoresStep
<1>8. CASE Ends(t, "failed") /\ UNCHANGED <<index, promised>>
  BY <1>4, <1>8
<1> QED BY <1>5, <1>6, <1>7, <1>8 DEF Publish

LEMMA ForgetStep ==
    ASSUME IntakeInv, NEW t \in Clients, Forget(t), StoreStays,
           client[t].pc # "idle", client[t].req.door # "segment"
    PROVE  IntakeInv'
<1>1. Types /\ ClientOK(t)
  BY DEF IntakeInv
<1>2. /\ client' = [client EXCEPT ![t] = Idle] /\ left' = [left EXCEPT ![t] = @ - 1]
      /\ taken' = [taken EXCEPT ![t] = 0] /\ quoted' = quoted
  BY DEF Forget
<1>3. left[t] - 1 \in 0..Rounds
  <2>1. left[t] \in 0..Rounds /\ left[t] > 0 /\ Rounds \in Nat
    BY <1>1, Constants DEF Types, ClientOK, Turn
  <2> QED BY <2>1
<1>4. /\ left' \in [Clients -> 0..Rounds] /\ taken' \in [Clients -> Nat] /\ taken'[t] = 0
      /\ quoted' \in [Clients -> Quotes \cup {Nothing}] /\ quoted'[t] = quoted[t]
      /\ \A u \in Clients \ {t} :
           quoted'[u] = quoted[u] /\ left'[u] = left[u] /\ taken'[u] = taken[u]
  BY <1>1, <1>2, <1>3 DEF Types
<1>5. /\ Idle \in ClientType /\ Sound(Idle) /\ Room(Idle, Bytes(Stored))
      /\ Turn(t, Idle, left'[t]) /\ Money(Idle, taken'[t], quoted'[t])
  BY <1>4, IdleIsFine
<1> QED BY <1>2, <1>4, <1>5, OneClient

\* A segment is taken note of.
LEMMA CollectStep ==
    ASSUME IntakeInv, NEW t \in Clients, client' = [client EXCEPT ![t] = Idle],
           UNCHANGED <<quoted, left, taken>>, StoreStays,
           client[t].pc # "idle", client[t].req.door = "segment"
    PROVE  IntakeInv'
<1>1. Types /\ ClientOK(t)
  BY DEF IntakeInv
<1>2. taken'[t] = 0 /\ quoted'[t] = quoted[t]
  <2>1. client[t].req.door \notin Paid
    BY Constants
  <2> QED BY <1>1, <2>1 DEF ClientOK, Money
<1>3. /\ left' \in [Clients -> 0..Rounds] /\ taken' \in [Clients -> Nat]
      /\ quoted' \in [Clients -> Quotes \cup {Nothing}]
      /\ \A u \in Clients \ {t} :
           quoted'[u] = quoted[u] /\ left'[u] = left[u] /\ taken'[u] = taken[u]
  BY <1>1 DEF Types
<1>4. /\ Idle \in ClientType /\ Sound(Idle) /\ Room(Idle, Bytes(Stored))
      /\ Turn(t, Idle, left'[t]) /\ Money(Idle, taken'[t], quoted'[t])
  BY <1>2, IdleIsFine
<1> QED BY <1>3, <1>4, OneClient

-----------------------------------------------------------------------------
(* Steps of the cleanup job and of the rest of the world.                   *)

\* What the clients and the copies need of a step that leaves both alone.
LEMMA ClientsKept ==
    ASSUME IntakeInv, UNCHANGED <<index, quarantined, active, intake, promised>>,
           clock' \in Nat, clock <= clock'
    PROVE  /\ \A t \in Clients : ClientOK(t)'
           /\ \A h \in Blobs : CopyOK(h)'
<1>0. clock \in Nat /\ Types
  <2>1. MaxClock \in Nat
    BY Constants
  <2> QED BY <2>1 DEF IntakeInv, Types
<1>1. UNCHANGED <<client, quoted, left, taken>> /\ Bytes(Stored)' = Bytes(Stored)
  BY DEF intake, Stored
<1>2. ASSUME NEW t \in Clients PROVE ClientOK(t)'
  <2>1. ClientOK(t) /\ client[t].wrote \in Nat
    BY <1>0 DEF IntakeInv, Types, ClientType
  <2>2. client[t].wrote <= clock'
    BY <1>0, <2>1 DEF ClientOK, Sound
  <2>3. Sound(client[t])'
    BY <1>1, <2>1, <2>2 DEF ClientOK, Sound
  <2> QED BY <1>1, <2>1, <2>3 DEF ClientOK, Money, Room, Turn
<1>3. ASSUME NEW h \in Blobs PROVE CopyOK(h)'
  <2>1. CopyOK(h)
    BY DEF IntakeInv
  <2>2. index[h] # Nothing => index[h].created \in Nat
    BY <1>0 DEF Types, Copies
  <2>3. index[h] # Nothing => index[h].created <= clock'
    BY <1>0, <2>1, <2>2 DEF CopyOK
  <2> QED BY <2>1, <2>3 DEF CopyOK
<1> QED BY <1>2, <1>3

\* What is left when one copy goes.
LEMMA StoredShrinks ==
    ASSUME IntakeInv, NEW h \in Blobs, index[h] # Nothing, UNCHANGED <<intake, clock>>,
           index' = [index EXCEPT ![h] = Nothing], promised' = [promised EXCEPT ![h] = Nothing]
    PROVE  /\ index' \in [Blobs -> Copies \cup {Nothing}]
           /\ promised' \in [Blobs -> Nat \cup {Nothing}]
           /\ Bytes(Stored)' \in Nat /\ Cardinality(Stored)' \in Nat /\ Size[h] \in Nat
           /\ Bytes(Stored) \in Nat /\ Cardinality(Stored) \in Nat
           /\ Bytes(Stored)' + Size[h] = Bytes(Stored)
           /\ Cardinality(Stored)' = Cardinality(Stored) - 1
           /\ \A t \in Clients : ClientOK(t)'
           /\ \A g \in Blobs : CopyOK(g)'
<1>1. Types
  BY DEF IntakeInv
<1>2. index' \in [Blobs -> Copies \cup {Nothing}] /\ promised' \in [Blobs -> Nat \cup {Nothing}]
  BY <1>1 DEF Types
<1>3. Stored' = Stored \ {h} /\ h \in Stored /\ Stored \in SUBSET Blobs /\ IsFiniteSet(Stored)
  <2>1. Stored' = Stored \ {h} /\ h \in Stored
    BY <1>1 DEF Stored, Types
  <2> QED BY <1>1, <2>1, StoredBlobs
<1>4. /\ Bytes(Stored) \in Nat /\ Size[h] \in Nat
      /\ Bytes(Stored \ {h}) + Size[h] = Bytes(Stored)
      /\ Bytes(Stored \ {h}) \in Nat
  <2>1. Stored \ {h} \in SUBSET Blobs
    BY <1>3
  <2> QED BY <1>3, <2>1, BytesGrow
<1>5. Cardinality(Stored) \in Nat /\ Cardinality(Stored \ {h}) \in Nat
      /\ Cardinality(Stored \ {h}) = Cardinality(Stored) - 1
  <2>1. IsFiniteSet(Stored \ {h})
    BY <1>3, FS_Subset
  <2> QED BY <1>3, <2>1, FS_CardinalityType, FS_RemoveElement
<1>6. Bytes(Stored)' = Bytes(Stored')
  OBVIOUS
<1>7. /\ Bytes(Stored)' \in Nat /\ Bytes(Stored)' + Size[h] = Bytes(Stored)
      /\ Bytes(Stored)' <= Bytes(Stored)
  <2>1. Bytes(Stored)' \in Nat /\ Bytes(Stored)' + Size[h] = Bytes(Stored)
    BY <1>3, <1>4, <1>6
  <2> QED BY <1>4, <2>1
<1>8. ASSUME NEW t \in Clients PROVE ClientOK(t)'
  <2> DEFINE less == Bytes(Stored)'
             bytes == Bytes(Stored)
             c == client[t]
  <2>1. /\ less \in Nat /\ bytes \in Nat /\ less <= bytes
        /\ ClientOK(t) /\ c \in ClientType /\ c.since \in Nat /\ MaxTotalSize \in Nat
    BY <1>1, <1>4, <1>7, Constants DEF IntakeInv, Types, ClientType
  <2>2. c.pc # "idle" => Declared(c.req) \in Nat /\ Size[c.req.body] \in Nat
    <3>1. c.pc # "idle" => c.req \in Request /\ c.req.body \in Blobs
      BY <2>1 DEF ClientOK, Sound, Request
    <3> QED BY <3>1, DeclaredCovers, Constants
  <2>3. Room(c, bytes)
    BY <2>1 DEF ClientOK
  <2>4. UNCHANGED <<client, quoted, left, taken, clock>>
    BY DEF intake
  <2> HIDE DEF less, bytes, c
  <2>5. ASSUME NEW x \in Nat, bytes + x <= MaxTotalSize + c.since
        PROVE  less + x <= MaxTotalSize + c.since
    BY <2>1, <2>5
  <2>6. bytes <= MaxTotalSize + c.since => less <= MaxTotalSize + c.since
    BY <2>1
  <2>7. Room(c, less)
    BY <2>2, <2>3, <2>5, <2>6 DEF Room
  <2>8. Room(client[t], Bytes(Stored))'
    BY <2>4, <2>7 DEF Room, less, c
  <2> QED BY <2>1, <2>4, <2>8 DEF ClientOK, Sound, Money, Turn
<1>9. ASSUME NEW g \in Blobs PROVE CopyOK(g)'
  <2>1. CopyOK(g)
    BY DEF IntakeInv
  <2>2. CASE g = h
    BY <1>1, <2>2 DEF CopyOK, Types
  <2>3. CASE g # h
    <3>1. index'[g] = index[g] /\ promised'[g] = promised[g] /\ clock' = clock
      BY <1>1, <2>3 DEF Types
    <3> QED BY <2>1, <3>1 DEF CopyOK
  <2> QED BY <2>2, <2>3
<1> QED BY <1>2, <1>3, <1>4, <1>5, <1>7, <1>8, <1>9

LEMMA WakesStep == ASSUME IntakeInv, Wakes PROVE IntakeInv'
<1>1. /\ Types /\ SweepOK /\ MaxClock \in Nat /\ Interval \in Nat /\ Interval > 0
      /\ due \in Nat /\ clock \in Nat /\ clock <= MaxClock
  <2>1. MaxClock \in Nat /\ Interval \in Nat /\ Interval > 0
    BY Constants
  <2> QED BY <2>1 DEF IntakeInv, Types
<1>2. /\ UNCHANGED <<index, quarantined, active, intake, promised, clock, failed>>
      /\ interfered' = FALSE /\ due' = Min({due + Interval, MaxClock + 1})
      /\ sweep' = [step |-> "expire", snapshot |-> Entries,
                   left |-> {c \in Entries : Expired(c.copy)}, size |-> 0, files |-> 0]
      /\ due <= clock \/ clock = MaxClock
  BY DEF Wakes, KeepIntake
<1>3. due' \in 0..MaxClock + 1 /\ due' <= clock + Interval
  <2>1. due + Interval \in Int /\ MaxClock + 1 \in Int
    BY <1>1
  <2>2. due' = IF due + Interval <= MaxClock + 1 THEN due + Interval ELSE MaxClock + 1
    BY <1>2, <2>1, MaxOfTwo
  <2> QED BY <1>1, <1>2, <2>2
<1>4. Entries \subseteq Candidates
  BY <1>1 DEF Entries, Entry, Stored, Candidates, Types
<1>5. /\ sweep' \in SweepType /\ sweep'.left \subseteq sweep'.snapshot /\ sweep'.step = "expire"
      /\ sweep'.left = {c \in Entries : Expired(c.copy)}
  <2> DEFINE late == {c \in Entries : Expired(c.copy)}
  <2>1. sweep' = [step |-> "expire", snapshot |-> Entries, left |-> late, size |-> 0, files |-> 0]
    BY <1>2
  <2>2. late \subseteq Entries
    OBVIOUS
  <2> HIDE DEF late
  <2>3. Entries \in SUBSET Candidates /\ late \in SUBSET Candidates
    BY <1>4, <2>2
  <2>4. /\ sweep' \in SweepType /\ sweep'.left \subseteq sweep'.snapshot
        /\ sweep'.step = "expire" /\ sweep'.left = late
    BY <2>1, <2>2, <2>3 DEF SweepType
  <2> QED BY <2>4 DEF late
<1>6. Types'
  BY <1>1, <1>2, <1>3, <1>5 DEF Types, intake
<1>7. (\A t \in Clients : ClientOK(t)') /\ \A h \in Blobs : CopyOK(h)'
  <2>1. clock' \in Nat /\ clock <= clock'
    BY <1>1, <1>2
  <2> QED BY <1>2, <2>1, ClientsKept
<1>8. ASSUME NEW h \in Blobs, Overdue(h)' PROVE Entry(h)' \in sweep'.left
  <2>1. index[h] # Nothing /\ index[h] \in Copies /\ Entry(h)' = Entry(h) /\ Entry(h).copy = index[h]
    BY <1>1, <1>2, <1>8 DEF Overdue, Types, Entry
  <2>2. CleanupDeadline(index[h]) # Nothing /\ CleanupDeadline(index[h]) + Interval < due'
    BY <1>2, <1>8 DEF Overdue
  <2>3. CleanupDeadline(index[h]) \in Nat
    BY <2>1, <2>2, DeadlineOf
  <2>4. clock >= CleanupDeadline(index[h])
    BY <1>1, <1>3, <2>2, <2>3
  <2> QED BY <1>5, <2>1, <2>2, <2>4 DEF Expired, Entries, Stored
<1>9. \A c \in sweep'.left : Expired(c.copy)'
  BY <1>2, <1>5 DEF Expired
<1>10. SweepOK'
  BY <1>2, <1>3, <1>5, <1>8, <1>9 DEF SweepOK
<1> QED BY <1>6, <1>7, <1>10 DEF IntakeInv

LEMMA CountStep == ASSUME IntakeInv, Count PROVE IntakeInv'
<1>1. Types /\ SweepOK
  BY DEF IntakeInv
<1>2. /\ UNCHANGED <<index, quarantined, active, intake, promised, clock, failed, due>>
      /\ sweep.step = "expire" /\ sweep.left = {} /\ interfered' = FALSE
      /\ sweep' = [step |-> "evict", snapshot |-> Entries, left |-> Entries,
                   size |-> Bytes(Stored), files |-> Cardinality(Stored)]
  BY DEF Count, KeepIntake
<1>3. Entries \subseteq Candidates
  BY <1>1 DEF Entries, Entry, Stored, Candidates, Types
<1>4. Bytes(Stored) \in Nat /\ Cardinality(Stored) \in Nat
  BY <1>1, StoredBlobs, FS_CardinalityType
<1>5. /\ sweep' \in SweepType /\ sweep'.left = Entries /\ sweep'.snapshot = Entries
      /\ sweep'.step = "evict" /\ sweep'.size = Bytes(Stored) /\ sweep'.files = Cardinality(Stored)
  BY <1>2, <1>3, <1>4 DEF SweepType
<1>6. Types'
  BY <1>1, <1>2, <1>5 DEF Types, intake
<1>7. (\A t \in Clients : ClientOK(t)') /\ \A h \in Blobs : CopyOK(h)'
  <2>1. clock' \in Nat /\ clock <= clock'
    <3>1. MaxClock \in Nat
      BY Constants
    <3> QED BY <1>1, <1>2, <3>1 DEF Types
  <2> QED BY <1>2, <2>1, ClientsKept
<1>8. \A h \in Blobs \ failed' : ~Overdue(h)'
  BY <1>1, <1>2 DEF SweepOK, Overdue
<1>9. sweep'.size <= Bytes(Stored)' /\ sweep'.files <= Cardinality(Stored)'
  <2>1. Stored' = Stored
    BY <1>2 DEF Stored
  <2>2. Bytes(Stored)' = Bytes(Stored) /\ Cardinality(Stored)' = Cardinality(Stored)
    BY <2>1
  <2> QED BY <1>4, <1>5, <2>2
<1>10. \A c, d \in sweep'.snapshot : c.hash = d.hash => c = d
  BY <1>5 DEF Entries, Entry
<1>11. due' <= clock' + Interval
  BY <1>1, <1>2 DEF SweepOK
<1>12. SweepOK'
  BY <1>5, <1>8, <1>9, <1>10, <1>11 DEF SweepOK
<1> QED BY <1>6, <1>7, <1>12 DEF IntakeInv

LEMMA SleepsStep == ASSUME IntakeInv, Sleeps PROVE IntakeInv'
<1>1. Types /\ SweepOK
  BY DEF IntakeInv
<1>2. /\ UNCHANGED <<index, quarantined, active, intake, promised, clock, failed, due, interfered>>
      /\ sweep.step = "evict" /\ sweep' = Asleep
  BY DEF Sleeps, KeepIntake
<1>3. sweep' \in SweepType /\ sweep'.left \subseteq sweep'.snapshot /\ sweep'.step = "sleep"
  BY <1>2 DEF Asleep, SweepType
<1>4. Types'
  BY <1>1, <1>2, <1>3 DEF Types, intake
<1>5. (\A t \in Clients : ClientOK(t)') /\ \A h \in Blobs : CopyOK(h)'
  <2>1. clock' \in Nat /\ clock <= clock'
    <3>1. MaxClock \in Nat
      BY Constants
    <3> QED BY <1>1, <1>2, <3>1 DEF Types
  <2> QED BY <1>2, <2>1, ClientsKept
<1>6. \A h \in Blobs \ failed' : ~Overdue(h)'
  BY <1>1, <1>2 DEF SweepOK, Overdue
<1>7. due' <= clock' + Interval
  BY <1>1, <1>2 DEF SweepOK
<1>8. SweepOK'
  BY <1>3, <1>6, <1>7 DEF SweepOK
<1> QED BY <1>4, <1>5, <1>8 DEF IntakeInv

LEMMA TickStep == ASSUME IntakeInv, Tick PROVE IntakeInv'
<1>1. /\ Types /\ SweepOK /\ MaxClock \in Nat /\ Interval \in Nat
      /\ due \in Nat /\ clock \in Nat
  <2>1. MaxClock \in Nat /\ Interval \in Nat
    BY Constants
  <2> QED BY <2>1 DEF IntakeInv, Types
<1>2. /\ UNCHANGED <<index, quarantined, active, intake, due, sweep, promised, failed, interfered>>
      /\ sweep.step = "sleep" /\ due > clock /\ clock < MaxClock /\ clock' = clock + 1
  BY DEF Tick
<1>3. clock' \in 0..MaxClock /\ clock' \in Nat /\ clock <= clock'
  BY <1>1, <1>2
<1>4. Types'
  BY <1>1, <1>2, <1>3 DEF Types, intake
<1>5. (\A t \in Clients : ClientOK(t)') /\ \A h \in Blobs : CopyOK(h)'
  BY <1>2, <1>3, ClientsKept
<1>6. \A h \in Blobs \ failed' : ~Overdue(h)'
  <2>1. ~(due <= clock)
    BY <1>1, <1>2
  <2> QED BY <1>1, <1>2, <2>1 DEF SweepOK, Overdue
<1>7. due' <= clock' + Interval
  BY <1>1, <1>2 DEF SweepOK
<1>8. SweepOK'
  BY <1>2, <1>6, <1>7 DEF SweepOK
<1> QED BY <1>4, <1>5, <1>8 DEF IntakeInv

\* What taking out a candidate, c, leaves behind.
LEMMA TakesOutLeaves ==
    ASSUME IntakeInv, NEW c \in Candidates, TakesOut(c), UNCHANGED <<intake, clock, due>>
    PROVE  /\ index' \in [Blobs -> Copies \cup {Nothing}]
           /\ promised' \in [Blobs -> Nat \cup {Nothing}] /\ failed' \subseteq Blobs
           /\ \A t \in Clients : ClientOK(t)'
           /\ \A h \in Blobs : CopyOK(h)'
           /\ \A h \in Blobs \ failed' : Overdue(h)' =>
                h \notin failed /\ Overdue(h) /\ Entry(h)' = Entry(h) /\ Entry(h) # c
           /\ c.hash \in failed' \/ ~StillExpected(c)'
           /\ \A d \in Candidates :
                /\ StillExpected(d)' => StillExpected(d)
                /\ d.hash \in failed => d.hash \in failed' \/ ~StillExpected(d)'
           /\ Bytes(Stored)' \in Nat /\ Cardinality(Stored)' \in Nat /\ Size[c.hash] \in Nat
           /\ IF index'[c.hash] # index[c.hash]
              THEN /\ Bytes(Stored)' + Size[c.hash] = Bytes(Stored)
                   /\ Cardinality(Stored)' = Cardinality(Stored) - 1
              ELSE Bytes(Stored)' = Bytes(Stored) /\ Cardinality(Stored)' = Cardinality(Stored)
<1> DEFINE g == c.hash
<1>1. Types /\ g \in Blobs /\ clock \in Nat /\ clock' = clock /\ due' = due
  <2>1. MaxClock \in Nat
    BY Constants
  <2> QED BY <2>1 DEF IntakeInv, Types, Candidates
<1>2. CASE /\ StillExpected(c) /\ index' = [index EXCEPT ![g] = Nothing]
           /\ promised' = [promised EXCEPT ![g] = Nothing] /\ failed' = failed \ {g}
  <2>1. index[g] # Nothing
    BY <1>2 DEF StillExpected
  <2>2. /\ index' \in [Blobs -> Copies \cup {Nothing}]
        /\ promised' \in [Blobs -> Nat \cup {Nothing}]
        /\ Bytes(Stored)' \in Nat /\ Cardinality(Stored)' \in Nat /\ Size[g] \in Nat
        /\ Bytes(Stored)' + Size[g] = Bytes(Stored)
        /\ Cardinality(Stored)' = Cardinality(Stored) - 1
        /\ \A t \in Clients : ClientOK(t)'
        /\ \A h \in Blobs : CopyOK(h)'
    BY <1>1, <1>2, <2>1, StoredShrinks
  <2>3. index'[g] = Nothing /\ \A h \in Blobs \ {g} : index'[h] = index[h]
    BY <1>1, <1>2 DEF Types
  <2>4. ASSUME NEW h \in Blobs \ failed', Overdue(h)'
        PROVE  h \notin failed /\ Overdue(h) /\ Entry(h)' = Entry(h) /\ Entry(h) # c
    <3>1. h # g
      BY <2>3, <2>4 DEF Overdue
    <3>2. index'[h] = index[h]
      BY <2>3, <3>1
    <3> QED BY <1>1, <1>2, <2>4, <3>1, <3>2 DEF Overdue, Entry
  <2>5. ~StillExpected(c)'
    BY <2>3 DEF StillExpected
  <2>6. ASSUME NEW d \in Candidates
        PROVE  /\ StillExpected(d)' => StillExpected(d)
               /\ d.hash \in failed => d.hash \in failed' \/ ~StillExpected(d)'
    <3>1. d.hash \in Blobs
      BY DEF Candidates
    <3>2. CASE d.hash = g
      BY <2>3, <3>2 DEF StillExpected
    <3>3. CASE d.hash # g
      <4>1. index'[d.hash] = index[d.hash]
        BY <2>3, <3>1, <3>3
      <4> QED BY <1>2, <3>3, <4>1 DEF StillExpected
    <3> QED BY <3>2, <3>3
  <2>7. failed' \subseteq Blobs /\ index'[g] # index[g]
    BY <1>1, <1>2, <2>1, <2>3 DEF Types
  <2> QED BY <2>2, <2>4, <2>5, <2>6, <2>7
<1>3. CASE /\ UNCHANGED <<index, promised>>
           /\ failed' = failed \/ failed' = failed \cup {g}
           /\ g \in failed' \/ ~StillExpected(c)
  <2>1. (\A t \in Clients : ClientOK(t)') /\ \A h \in Blobs : CopyOK(h)'
    <3>1. clock' \in Nat /\ clock <= clock'
      BY <1>1
    <3>2. ASSUME NEW t \in Clients PROVE ClientOK(t)'
      <4>1. ClientOK(t) /\ UNCHANGED <<client, quoted, left, taken, clock>>
        BY DEF IntakeInv, intake
      <4>2. Bytes(Stored)' = Bytes(Stored)
        BY <1>3 DEF Stored
      <4> QED BY <4>1, <4>2 DEF ClientOK, Sound, Money, Room, Turn
    <3>3. ASSUME NEW h \in Blobs PROVE CopyOK(h)'
      <4>1. CopyOK(h)
        BY DEF IntakeInv
      <4> QED BY <1>1, <1>3, <4>1 DEF CopyOK
    <3> QED BY <3>2, <3>3
  <2>2. Stored' = Stored
    BY <1>3 DEF Stored
  <2>3. /\ Bytes(Stored)' = Bytes(Stored) /\ Cardinality(Stored)' = Cardinality(Stored)
        /\ Bytes(Stored)' \in Nat /\ Cardinality(Stored)' \in Nat /\ Size[g] \in Nat
    <3>1. Bytes(Stored) \in Nat /\ Cardinality(Stored) \in Nat
      BY <1>1, StoredBlobs, FS_CardinalityType
    <3> QED BY <1>1, <2>2, <3>1, Constants
  <2>4. ASSUME NEW h \in Blobs \ failed', Overdue(h)'
        PROVE  h \notin failed /\ Overdue(h) /\ Entry(h)' = Entry(h) /\ Entry(h) # c
    <3>1. h \notin failed /\ Overdue(h) /\ Entry(h)' = Entry(h)
      BY <1>1, <1>3, <2>4 DEF Overdue, Entry
    <3>2. index[h] # Nothing
      BY <3>1 DEF Overdue
    <3>3. StillExpected(Entry(h)) /\ Entry(h).hash = h
      BY <3>2 DEF StillExpected, Entry
    <3> QED BY <1>3, <2>4, <3>1, <3>3
  <2>5. \A d \in Candidates : StillExpected(d)' <=> StillExpected(d)
    BY <1>3 DEF StillExpected
  <2>6. StillExpected(c)' <=> StillExpected(c)
    BY <2>5
  <2>7. failed' \subseteq Blobs /\ failed \subseteq failed' /\ index'[g] = index[g]
    BY <1>1, <1>3 DEF Types
  <2>8. index' \in [Blobs -> Copies \cup {Nothing}] /\ promised' \in [Blobs -> Nat \cup {Nothing}]
    BY <1>1, <1>3 DEF Types
  <2> QED BY <1>3, <2>1, <2>3, <2>4, <2>5, <2>6, <2>7, <2>8
<1> QED BY <1>2, <1>3 DEF TakesOut

LEMMA ExpireStep == ASSUME IntakeInv, Expire PROVE IntakeInv'
<1>1. Types /\ SweepOK /\ sweep.step = "expire" /\ sweep \in SweepType
  BY DEF IntakeInv, Expire, Types
<1>2. PICK c \in sweep.left : TakesOut(c) /\ sweep' = [sweep EXCEPT !.left = @ \ {c}]
  BY DEF Expire
<1>3. UNCHANGED <<quarantined, active, intake, clock, due, interfered>>
  BY DEF Expire, KeepIntake
<1>4. c \in Candidates
  BY <1>1 DEF SweepType
<1>5. /\ index' \in [Blobs -> Copies \cup {Nothing}]
      /\ promised' \in [Blobs -> Nat \cup {Nothing}] /\ failed' \subseteq Blobs
      /\ \A t \in Clients : ClientOK(t)'
      /\ \A h \in Blobs : CopyOK(h)'
      /\ \A h \in Blobs \ failed' : Overdue(h)' =>
           h \notin failed /\ Overdue(h) /\ Entry(h)' = Entry(h) /\ Entry(h) # c
  BY <1>2, <1>3, <1>4, TakesOutLeaves
<1>6. /\ sweep' \in SweepType /\ sweep'.step = "expire" /\ sweep'.left = sweep.left \ {c}
      /\ sweep'.snapshot = sweep.snapshot
  BY <1>1, <1>2 DEF SweepType
<1>7. Types'
  <2>1. sweep'.left \subseteq sweep'.snapshot
    BY <1>1, <1>6 DEF Types
  <2> QED BY <1>1, <1>3, <1>5, <1>6, <2>1 DEF Types, intake
<1>8. SweepOK'
  <2>1. ASSUME NEW h \in Blobs \ failed', Overdue(h)' PROVE Entry(h)' \in sweep'.left
    <3>1. h \notin failed /\ Overdue(h) /\ Entry(h)' = Entry(h) /\ Entry(h) # c
      BY <1>5, <2>1
    <3>2. Entry(h) \in sweep.left
      BY <1>1, <3>1 DEF SweepOK
    <3> QED BY <1>6, <3>1, <3>2
  <2>2. \A d \in sweep'.left : Expired(d.copy)'
    BY <1>1, <1>3, <1>6 DEF SweepOK, Expired
  <2>3. due' <= clock' + Interval
    BY <1>1, <1>3 DEF SweepOK
  <2> QED BY <1>6, <2>1, <2>2, <2>3 DEF SweepOK
<1> QED BY <1>5, <1>7, <1>8 DEF IntakeInv

LEMMA EvictStep == ASSUME IntakeInv, Evict PROVE IntakeInv'
<1>1. Types /\ SweepOK /\ sweep.step = "evict" /\ sweep \in SweepType
  BY DEF IntakeInv, Evict, Types
<1>2. PICK c \in sweep.left :
        /\ TakesOut(c)
        /\ sweep' = IF index'[c.hash] # index[c.hash]
                    THEN [sweep EXCEPT !.left = @ \ {c}, !.size = @ - Size[c.hash], !.files = @ - 1]
                    ELSE [sweep EXCEPT !.left = @ \ {c}]
  BY DEF Evict
<1>3. UNCHANGED <<quarantined, active, intake, clock, due, interfered>>
  BY DEF Evict, KeepIntake
<1>4. c \in Candidates
  BY <1>1 DEF SweepType
<1>5. /\ index' \in [Blobs -> Copies \cup {Nothing}]
      /\ promised' \in [Blobs -> Nat \cup {Nothing}] /\ failed' \subseteq Blobs
      /\ \A t \in Clients : ClientOK(t)'
      /\ \A h \in Blobs : CopyOK(h)'
      /\ \A h \in Blobs \ failed' : Overdue(h)' =>
           h \notin failed /\ Overdue(h) /\ Entry(h)' = Entry(h) /\ Entry(h) # c
      /\ c.hash \in failed' \/ ~StillExpected(c)'
      /\ \A d \in Candidates :
           /\ StillExpected(d)' => StillExpected(d)
           /\ d.hash \in failed => d.hash \in failed' \/ ~StillExpected(d)'
      /\ Bytes(Stored)' \in Nat /\ Cardinality(Stored)' \in Nat /\ Size[c.hash] \in Nat
      /\ IF index'[c.hash] # index[c.hash]
         THEN /\ Bytes(Stored)' + Size[c.hash] = Bytes(Stored)
              /\ Cardinality(Stored)' = Cardinality(Stored) - 1
         ELSE Bytes(Stored)' = Bytes(Stored) /\ Cardinality(Stored)' = Cardinality(Stored)
  BY <1>2, <1>3, <1>4, TakesOutLeaves
<1>6. /\ sweep.size \in Int /\ sweep.files \in Int
      /\ Bytes(Stored) \in Nat /\ Cardinality(Stored) \in Nat
  BY <1>1, StoredBlobs, FS_CardinalityType DEF SweepType
<1>7. /\ sweep' \in SweepType /\ sweep'.step = "evict" /\ sweep'.left = sweep.left \ {c}
      /\ sweep'.snapshot = sweep.snapshot
      /\ IF index'[c.hash] # index[c.hash]
         THEN sweep'.size = sweep.size - Size[c.hash] /\ sweep'.files = sweep.files - 1
         ELSE sweep'.size = sweep.size /\ sweep'.files = sweep.files
  <2>1. Size[c.hash] \in Nat
    BY <1>5
  <2>2. CASE index'[c.hash] # index[c.hash]
    <3> DEFINE n == Size[c.hash]
               size == sweep.size - n
               files == sweep.files - 1
    <3>1. sweep' = [sweep EXCEPT !.left = sweep.left \ {c}, !.size = size, !.files = files]
      BY <1>2, <2>2
    <3>2. size \in Int /\ files \in Int
      BY <1>6, <2>1
    <3> HIDE DEF size, files
    <3>3. /\ sweep' \in SweepType /\ sweep'.step = "evict" /\ sweep'.left = sweep.left \ {c}
          /\ sweep'.snapshot = sweep.snapshot /\ sweep'.size = size /\ sweep'.files = files
      BY <1>1, <3>1, <3>2 DEF SweepType
    <3> QED BY <2>2, <3>3 DEF size, files
  <2>3. CASE index'[c.hash] = index[c.hash]
    BY <1>1, <1>2, <2>3 DEF SweepType
  <2> QED BY <2>2, <2>3
<1>8. Types'
  <2>1. sweep'.left \subseteq sweep'.snapshot
    BY <1>1, <1>7 DEF Types
  <2> QED BY <1>1, <1>3, <1>5, <1>7, <2>1 DEF Types, intake
<1>9. SweepOK'
  <2>1. \A h \in Blobs \ failed' : ~Overdue(h)'
    BY <1>1, <1>5 DEF SweepOK
  <2>2. due' <= clock' + Interval
    BY <1>1, <1>3 DEF SweepOK
  <2>3. ~interfered' => sweep'.size <= Bytes(Stored)' /\ sweep'.files <= Cardinality(Stored)'
    <3>1. ~interfered => sweep.size <= Bytes(Stored) /\ sweep.files <= Cardinality(Stored)
      BY <1>1 DEF SweepOK
    <3>2. CASE index'[c.hash] # index[c.hash]
      <4>1. /\ Bytes(Stored)' + Size[c.hash] = Bytes(Stored)
            /\ Cardinality(Stored)' = Cardinality(Stored) - 1
            /\ sweep'.size = sweep.size - Size[c.hash] /\ sweep'.files = sweep.files - 1
            /\ Bytes(Stored)' \in Nat /\ Cardinality(Stored)' \in Nat /\ Size[c.hash] \in Nat
        BY <1>5, <1>7, <3>2
      <4> QED BY <1>3, <1>6, <3>1, <4>1
    <3>3. CASE index'[c.hash] = index[c.hash]
      BY <1>3, <1>5, <1>7, <3>1, <3>3
    <3> QED BY <3>2, <3>3
  <2>4. \A d, e \in sweep'.snapshot : d.hash = e.hash => d = e
    BY <1>1, <1>7 DEF SweepOK
  <2>5. ASSUME NEW d \in sweep'.snapshot \ sweep'.left
        PROVE  d.hash \in failed' \/ ~StillExpected(d)' \/ d.copy.created = clock'
    <3>1. d \in Candidates
      BY <1>1, <1>7 DEF SweepType
    <3>2. CASE d = c
      BY <1>5, <3>2
    <3>3. CASE d # c
      <4>1. d \in sweep.snapshot \ sweep.left
        BY <1>7, <3>3
      <4>2. d.hash \in failed \/ ~StillExpected(d) \/ d.copy.created = clock
        BY <1>1, <4>1 DEF SweepOK
      <4> QED BY <1>3, <1>5, <3>1, <4>2
    <3> QED BY <3>2, <3>3
  <2> QED BY <1>7, <2>1, <2>2, <2>3, <2>4, <2>5 DEF SweepOK
<1> QED BY <1>5, <1>8, <1>9 DEF IntakeInv

LEMMA QuarantineStep == ASSUME IntakeInv, NEW h \in Blobs, Quarantine(h) PROVE IntakeInv'
<1>1. Types /\ SweepOK /\ sweep \in SweepType
  BY DEF IntakeInv, Types
<1>2. /\ index[h] # Nothing /\ index' = [index EXCEPT ![h] = Nothing]
      /\ promised' = [promised EXCEPT ![h] = Nothing] /\ quarantined' = quarantined \cup {h}
      /\ failed' = failed \ {h} /\ interfered' = TRUE
      /\ UNCHANGED <<active, intake, clock, due, sweep>>
  BY DEF Quarantine
<1>3. /\ index' \in [Blobs -> Copies \cup {Nothing}]
      /\ promised' \in [Blobs -> Nat \cup {Nothing}]
      /\ \A t \in Clients : ClientOK(t)'
      /\ \A g \in Blobs : CopyOK(g)'
  BY <1>2, StoredShrinks
<1>4. Types'
  <2>1. UNCHANGED <<client, quoted, left, taken>>
    BY <1>2 DEF intake
  <2>2. quarantined' \subseteq Blobs /\ failed' \subseteq Blobs /\ interfered' \in BOOLEAN
    BY <1>1, <1>2 DEF Types
  <2> QED BY <1>1, <1>2, <1>3, <2>1, <2>2 DEF Types
<1>5. index'[h] = Nothing /\ \A g \in Blobs \ {h} : index'[g] = index[g]
  BY <1>1, <1>2 DEF Types
<1>6. SweepOK'
  <2>1. ASSUME NEW g \in Blobs \ failed', Overdue(g)'
        PROVE  \/ sweep'.step = "sleep" /\ due' <= clock'
               \/ sweep'.step = "expire" /\ Entry(g)' \in sweep'.left
    <3>1. g # h
      BY <1>5, <2>1 DEF Overdue
    <3>2. g \notin failed /\ Overdue(g) /\ Entry(g)' = Entry(g)
      BY <1>2, <1>5, <2>1, <3>1 DEF Overdue, Entry
    <3> QED BY <1>1, <1>2, <3>2 DEF SweepOK
  <2>2. ASSUME NEW d \in sweep.snapshot \ sweep.left, sweep.step = "evict"
        PROVE  d.hash \in failed' \/ ~StillExpected(d)' \/ d.copy.created = clock'
    <3>1. d.hash \in Blobs
      BY <1>1 DEF SweepType, Candidates
    <3>2. d.hash \in failed \/ ~StillExpected(d) \/ d.copy.created = clock
      BY <1>1, <2>2 DEF SweepOK
    <3>3. CASE d.hash = h
      BY <1>5, <3>3 DEF StillExpected
    <3>4. CASE d.hash # h
      <4>1. index'[d.hash] = index[d.hash]
        BY <1>5, <3>1, <3>4
      <4> QED BY <1>2, <3>2, <3>4, <4>1 DEF StillExpected
    <3> QED BY <3>3, <3>4
  <2>3. sweep'.step = "expire" => \A c \in sweep'.left : Expired(c.copy)'
    BY <1>1, <1>2 DEF SweepOK, Expired
  <2>4. due' <= clock' + Interval
    BY <1>1, <1>2 DEF SweepOK
  <2>5. sweep'.step = "evict" => \A c, d \in sweep'.snapshot : c.hash = d.hash => c = d
    BY <1>1, <1>2 DEF SweepOK
  <2> QED BY <1>2, <2>1, <2>2, <2>3, <2>4, <2>5 DEF SweepOK
<1> QED BY <1>3, <1>4, <1>6 DEF IntakeInv

\* A restart may bring the deadline of a copy, e, forward.
LEMMA DeadlineAfterRestart ==
    ASSUME NEW e \in Copies, e.written <= e.created
    PROVE  LET restored == [e EXCEPT !.created = e.written] IN
           /\ restored \in Copies /\ restored.written <= restored.created
           /\ restored.created <= e.created
           /\ Sunset(restored) =
                IF Sunset(e) = Nothing THEN Nothing
                ELSE Min({Sunset(e)} \cup (IF MaxAge > 0 THEN {e.written + MaxAge} ELSE {}))
<1> DEFINE d == [e EXCEPT !.created = e.written]
<1>1. /\ d \in Copies /\ d.origin = e.origin /\ d.expires = e.expires /\ d.created = e.written
      /\ d.written = e.written /\ e.created \in Nat /\ e.written \in Nat
      /\ e.expires \in Nat \cup {Nothing}
  BY DEF Copies
<1>2. MaxAge \in Nat /\ Nothing \notin Nat
  BY Constants
<1> HIDE DEF d
<1>3. d.written <= d.created /\ d.created <= e.created
  BY <1>1
<1>4. CASE e.origin # "upload"
  <2>1. Sunset(d) = Nothing /\ Sunset(e) = Nothing
    BY <1>1, <1>4 DEF Sunset
  <2> QED BY <1>1, <1>3, <2>1 DEF d
<1>5. CASE e.origin = "upload" /\ MaxAge = 0
  <2>1. Deadlines(d) = Deadlines(e)
    BY <1>1, <1>2, <1>5 DEF Deadlines
  <2>2. Sunset(d) = Sunset(e)
    BY <1>1, <1>5, <2>1 DEF Sunset, CleanupDeadline
  <2>3. Sunset(e) # Nothing => Min({Sunset(e)}) = Sunset(e)
    <3>1. Sunset(e) # Nothing => Sunset(e) \in Int
      BY SunsetOf
    <3>2. Sunset(e) # Nothing => Min({Sunset(e), Sunset(e)}) = Sunset(e)
      BY <3>1, MaxOfTwo
    <3>3. {Sunset(e), Sunset(e)} = {Sunset(e)}
      OBVIOUS
    <3> QED BY <3>2, <3>3
  <2>4. {Sunset(e)} \cup (IF MaxAge > 0 THEN {e.written + MaxAge} ELSE {}) = {Sunset(e)}
    BY <1>2, <1>5
  <2> QED BY <1>1, <1>3, <2>2, <2>3, <2>4 DEF d
<1>6. CASE e.origin = "upload" /\ MaxAge > 0
  <2> DEFINE x == e.created + MaxAge
             y == e.written + MaxAge
  <2>0. x \in Nat /\ y \in Nat /\ y <= x
    BY <1>1, <1>2
  <2>1. /\ Deadlines(e) = ({e.expires} \ {Nothing}) \cup {x}
        /\ Deadlines(d) = ({e.expires} \ {Nothing}) \cup {y}
    BY <1>1, <1>6 DEF Deadlines
  <2>2. Sunset(e) = CleanupDeadline(e) /\ Sunset(d) = CleanupDeadline(d)
    BY <1>1, <1>6 DEF Sunset
  <2> HIDE DEF x, y
  <2>3. /\ Sunset(e) \in Nat /\ Sunset(e) \in Deadlines(e)
        /\ \A z \in Deadlines(e) : Sunset(e) <= z
        /\ Sunset(d) \in Nat /\ Sunset(d) \in Deadlines(d)
        /\ \A z \in Deadlines(d) : Sunset(d) <= z
    BY <1>1, <2>1, <2>2, DeadlineOf
  <2>4. Sunset(d) = IF Sunset(e) <= y THEN Sunset(e) ELSE y
    <3>1. CASE e.expires = Nothing
      BY <2>0, <2>1, <2>3, <3>1
    <3>2. CASE e.expires \in Nat
      <4>1. e.expires # Nothing
        BY <1>2, <3>2
      <4>2. Deadlines(e) = {e.expires, x} /\ Deadlines(d) = {e.expires, y}
        BY <2>1, <4>1
      <4> QED BY <2>0, <2>3, <3>2, <4>2
    <3> QED BY <1>1, <3>1, <3>2
  <2>5. Min({Sunset(e), y}) = IF Sunset(e) <= y THEN Sunset(e) ELSE y
    BY <2>0, <2>3, MaxOfTwo
  <2>6. {Sunset(e)} \cup (IF MaxAge > 0 THEN {e.written + MaxAge} ELSE {}) = {Sunset(e), y}
    BY <1>6 DEF y
  <2>7. Sunset(e) # Nothing
    BY <1>2, <2>3
  <2>8. Sunset(d) = Min({Sunset(e)} \cup (IF MaxAge > 0 THEN {e.written + MaxAge} ELSE {}))
    BY <2>4, <2>5, <2>6
  <2> QED BY <1>1, <1>3, <2>7, <2>8 DEF d
<1> QED BY <1>2, <1>4, <1>5, <1>6, <1>1, <1>3 DEF d

LEMMA RestartStep == ASSUME IntakeInv, Restart PROVE IntakeInv'
<1>1. /\ Types /\ SweepOK /\ clock \in 0..MaxClock /\ clock \in Nat /\ Interval \in Nat
      /\ MaxClock \in Nat /\ Rounds \in Nat
  <2>1. MaxClock \in Nat /\ Interval \in Nat /\ Rounds \in Nat
    BY Constants
  <2> QED BY <2>1 DEF IntakeInv, Types
<1>2. /\ index' = [h \in Blobs |-> IF index[h] = Nothing THEN Nothing
                                   ELSE [index[h] EXCEPT !.created = index[h].written]]
      /\ client' = [t \in Clients |-> Idle]
      /\ taken' = [t \in Clients |-> 0]
      /\ left' = [t \in Clients |-> IF t \in Interrupted THEN left[t] - 1 ELSE left[t]]
      /\ due' = clock /\ sweep' = Asleep /\ interfered' = FALSE
      /\ promised' = [h \in Blobs |->
                        IF promised[h] = Nothing THEN Nothing
                        ELSE Min({promised[h]}
                                 \cup (IF MaxAge > 0 THEN {index[h].written + MaxAge} ELSE {}))]
      /\ UNCHANGED <<quarantined, active, quoted, clock, failed>>
  BY DEF Restart
<1>3. ASSUME NEW h \in Blobs
      PROVE  /\ index'[h] \in Copies \cup {Nothing} /\ promised'[h] \in Nat \cup {Nothing}
             /\ index'[h] = Nothing <=> index[h] = Nothing
             /\ CopyOK(h)'
  <2>1. CopyOK(h) /\ index[h] \in Copies \cup {Nothing}
    BY <1>1 DEF IntakeInv, Types
  <2>2. CASE index[h] = Nothing
    <3>1. index'[h] = Nothing /\ promised'[h] = Nothing
      BY <1>2, <2>1, <2>2 DEF CopyOK
    <3> QED BY <2>2, <3>1 DEF CopyOK
  <2>3. CASE index[h] # Nothing
    <3> DEFINE e == index[h]
               restored == [e EXCEPT !.created = e.written]
               soon == IF MaxAge > 0 THEN {e.written + MaxAge} ELSE {}
    <3>1. e \in Copies /\ e.written <= e.created /\ e.created <= clock /\ promised[h] = Sunset(e)
      BY <2>1, <2>3 DEF CopyOK
    <3>2. /\ index'[h] = restored
          /\ promised'[h] = IF Sunset(e) = Nothing THEN Nothing ELSE Min({Sunset(e)} \cup soon)
      BY <1>2, <2>3, <3>1
    <3>3. /\ restored \in Copies /\ restored.written <= restored.created
          /\ restored.created <= e.created
          /\ Sunset(restored) =
               IF Sunset(e) = Nothing THEN Nothing ELSE Min({Sunset(e)} \cup soon)
      BY <3>1, DeadlineAfterRestart
    <3>4. restored # Nothing /\ restored.created \in Nat /\ e.created \in Nat
      BY <3>1, <3>3, Constants DEF Copies
    <3> HIDE DEF restored, soon
    <3>5. promised'[h] = Sunset(restored)
      BY <3>2, <3>3
    <3>6. Sunset(restored) \in Nat \cup {Nothing}
      BY <3>3, SunsetOf
    <3>7. restored.created <= clock'
      <4> HIDE DEF e
      <4> QED BY <1>1, <1>2, <3>1, <3>3, <3>4
    <3>8. Sunset(index[h])' = Sunset(restored)
      BY <3>2
    <3>9. Size[h] <= MaxBlob
      BY <2>1, <2>3 DEF CopyOK
    <3>10. CopyOK(h)'
      BY <3>2, <3>3, <3>4, <3>5, <3>7, <3>8, <3>9 DEF CopyOK
    <3> QED BY <2>3, <3>2, <3>3, <3>4, <3>5, <3>6, <3>10
  <2> QED BY <2>2, <2>3
<1>4. Types'
  <2>1. index' \in [Blobs -> Copies \cup {Nothing}] /\ promised' \in [Blobs -> Nat \cup {Nothing}]
    <3>1. /\ index' = [h \in Blobs |-> index'[h]] /\ promised' = [h \in Blobs |-> promised'[h]]
      BY <1>2
    <3> QED BY <1>3, <3>1
  <2>2. client' \in [Clients -> ClientType] /\ taken' \in [Clients -> Nat]
    <3>1. Idle \in ClientType
      BY Constants DEF Idle, ClientType
    <3> QED BY <1>2, <3>1
  <2>3. left' \in [Clients -> 0..Rounds]
    <3>1. ASSUME NEW t \in Clients
          PROVE  (IF t \in Interrupted THEN left[t] - 1 ELSE left[t]) \in 0..Rounds
      <4>1. left[t] \in 0..Rounds /\ (t \in Interrupted => left[t] > 0)
        BY <1>1 DEF Types, Interrupted
      <4> QED BY <1>1, <4>1
    <3> QED BY <1>2, <3>1
  <2>4. sweep' \in SweepType /\ sweep'.left \subseteq sweep'.snapshot
    BY <1>2 DEF Asleep, SweepType
  <2>5. due' \in 0..MaxClock + 1 /\ clock' \in 0..MaxClock
    BY <1>1, <1>2
  <2> QED BY <1>1, <1>2, <2>1, <2>2, <2>3, <2>4, <2>5 DEF Types
<1>5. ASSUME NEW t \in Clients PROVE ClientOK(t)'
  <2>1. /\ Idle \in ClientType /\ Sound(Idle) /\ Room(Idle, Bytes(Stored))
        /\ Turn(t, Idle, left'[t]) /\ Money(Idle, 0, quoted[t])
    BY IdleIsFine
  <2>2. client'[t] = Idle /\ taken'[t] = 0 /\ quoted'[t] = quoted[t] /\ clock' = clock
    BY <1>2
  <2>3. Room(client[t], Bytes(Stored))'
    BY <2>2 DEF Room, Idle
  <2>4. Sound(client[t])'
    BY <2>1, <2>2 DEF Sound
  <2> QED BY <2>1, <2>2, <2>3, <2>4 DEF ClientOK, Money, Turn
<1>6. SweepOK'
  <2>1. sweep'.step = "sleep"
    BY <1>2 DEF Asleep
  <2>2. due' <= clock' /\ due' <= clock' + Interval
    BY <1>1, <1>2
  <2> QED BY <2>1, <2>2 DEF SweepOK
<1> QED BY <1>3, <1>4, <1>5, <1>6 DEF IntakeInv

LEMMA InitHolds == Init => IntakeInv
<1> SUFFICES ASSUME Init PROVE IntakeInv
  OBVIOUS
<1>1. MaxClock \in Nat /\ Rounds \in Nat /\ Interval \in Nat
  BY Constants
<1>2. Idle \in ClientType
  BY Constants DEF Idle, ClientType
<1>3. Types
  <2>1. left \in [Clients -> 0..Rounds]
    BY <1>1 DEF Init
  <2>2. sweep \in SweepType /\ sweep.left \subseteq sweep.snapshot
    BY DEF Init, Asleep, SweepType
  <2>3. clock \in 0..MaxClock /\ due \in 0..MaxClock + 1
    BY <1>1 DEF Init
  <2> QED BY <1>2, <2>1, <2>2, <2>3 DEF Init, Types
<1>4. ASSUME NEW t \in Clients PROVE ClientOK(t)
  <2>1. client[t] = Idle /\ taken[t] = 0 /\ quoted[t] = Nothing /\ clock = 0
    BY DEF Init
  <2>2. Sound(Idle) /\ Room(Idle, Bytes(Stored)) /\ Turn(t, Idle, left[t])
    BY <2>1 DEF Idle, Sound, Room, Turn
  <2>3. Nothing # "created" /\ Nothing # "insufficient"
    BY Constants DEF Answers
  <2>4. Money(Idle, 0, Nothing)
    BY <2>3, NotMore DEF Idle, Money
  <2> QED BY <2>1, <2>2, <2>4 DEF ClientOK
<1>5. ASSUME NEW h \in Blobs PROVE CopyOK(h)
  BY DEF Init, CopyOK
<1>6. SweepOK
  BY <1>1 DEF Init, SweepOK, Overdue, Asleep
<1> QED BY <1>3, <1>4, <1>5, <1>6 DEF IntakeInv

-----------------------------------------------------------------------------
(* References.                                                              *)

Distinct(s) == \A i, j \in DOMAIN s : s[i] = s[j] => i = j

\* A fold over the first n numbers in their order: one more reference is looked at
\* for each.
AddStep(refs, limit, i, acc) ==
    IF Cardinality(acc.seen) >= limit \/ refs[i] \in acc.seen THEN acc
    ELSE [seen |-> acc.seen \cup {refs[i]}, next |-> Append(acc.next, refs[i])]

AddsUp(refs, limit, base, D, g) ==
    g = [s \in SUBSET D |-> IF s = {} THEN base
                            ELSE AddStep(refs, limit, Max(s), g[s \ {Max(s)}])]

\* The recursion by which Add goes through a list has a result.
LEMMA FoldExists ==
    ASSUME NEW refs, NEW limit, NEW base, NEW n \in Nat
    PROVE  \E g : AddsUp(refs, limit, base, 1..n, g)
<1> DEFINE T == {m \in Nat : \E g : AddsUp(refs, limit, base, 1..m, g)}
<1>1. 0 \in T
  <2> DEFINE g == [s \in SUBSET (1..0) |-> base]
  <2>1. \A s \in SUBSET (1..0) : s = {}
    OBVIOUS
  <2>2. AddsUp(refs, limit, base, 1..0, g)
    BY <2>1 DEF AddsUp
  <2> QED BY <2>2
<1>2. ASSUME NEW m \in T PROVE m + 1 \in T
  <2>1. PICK f : AddsUp(refs, limit, base, 1..m, f)
    OBVIOUS
  <2> DEFINE g == [s \in SUBSET (1..m + 1) |->
                     IF m + 1 \in s THEN AddStep(refs, limit, m + 1, f[s \ {m + 1}]) ELSE f[s]]
             again == [s \in SUBSET (1..m + 1) |->
                         IF s = {} THEN base ELSE AddStep(refs, limit, Max(s), g[s \ {Max(s)}])]
  <2>2. ASSUME NEW s \in SUBSET (1..m + 1) PROVE g[s] = again[s]
    <3>1. m \in Nat
      OBVIOUS
    <3>2. CASE m + 1 \in s
      <4>1. Max(s) = m + 1 /\ s # {}
        BY <3>1, <3>2, MaxIsLast
      <4>2. s \ {m + 1} \in SUBSET (1..m + 1) /\ m + 1 \notin s \ {m + 1}
        OBVIOUS
      <4>3. g[s \ {m + 1}] = f[s \ {m + 1}]
        BY <4>2
      <4>4. g[s] = AddStep(refs, limit, m + 1, f[s \ {m + 1}])
        BY <3>2
      <4>5. again[s] = AddStep(refs, limit, m + 1, g[s \ {m + 1}])
        BY <4>1
      <4> QED BY <4>3, <4>4, <4>5
    <3>3. CASE m + 1 \notin s
      <4>1. s \in SUBSET (1..m)
        BY <3>1, <3>3
      <4>2. g[s] = f[s]
        BY <3>3
      <4>3. f[s] = IF s = {} THEN base ELSE AddStep(refs, limit, Max(s), f[s \ {Max(s)}])
        BY <2>1, <4>1 DEF AddsUp
      <4>4. s \ {Max(s)} \in SUBSET (1..m + 1) /\ m + 1 \notin s \ {Max(s)}
        BY <3>3
      <4>5. g[s \ {Max(s)}] = f[s \ {Max(s)}]
        BY <4>4
      <4>6. again[s] = IF s = {} THEN base ELSE AddStep(refs, limit, Max(s), g[s \ {Max(s)}])
        OBVIOUS
      <4> QED BY <4>2, <4>3, <4>5, <4>6
    <3> QED BY <3>2, <3>3
  <2>3. g = again
    <3>1. g = [s \in SUBSET (1..m + 1) |-> g[s]] /\ again = [s \in SUBSET (1..m + 1) |-> again[s]]
      OBVIOUS
    <3> HIDE DEF g, again
    <3> QED BY <2>2, <3>1
  <2>4. AddsUp(refs, limit, base, 1..m + 1, g)
    BY <2>3 DEF AddsUp
  <2>5. m + 1 \in Nat
    OBVIOUS
  <2> QED BY <2>4, <2>5
<1>3. T = Nat
  <2>1. T \in SUBSET Nat
    OBVIOUS
  <2> HIDE DEF T
  <2> QED BY <1>1, <1>2, <2>1, NumbersByInduction
<1> QED BY <1>3

\* What Add returns: no reference twice, none that was seen, no more than the limit.
LEMMA AddIs ==
    ASSUME NEW seen \in SUBSET Blobs, NEW next \in Seq(Blobs), NEW refs \in Seq(Blobs),
           NEW limit \in Nat, NEW U,
           Cardinality(seen) <= limit, Distinct(next), \A i \in DOMAIN next : next[i] \in seen \cap U,
           Blobs \ seen \subseteq U
    PROVE  LET r == Add(seen, next, refs, limit) IN
           /\ r.seen \in SUBSET Blobs /\ seen \subseteq r.seen /\ Cardinality(r.seen) <= limit
           /\ r.next \in Seq(Blobs) /\ Distinct(r.next)
           /\ \A i \in DOMAIN r.next : r.next[i] \in r.seen \cap U
<1> DEFINE base == [seen |-> seen, next |-> next]
           Good(r) == /\ r.seen \in SUBSET Blobs /\ seen \subseteq r.seen
                      /\ Cardinality(r.seen) <= limit
                      /\ r.next \in Seq(Blobs) /\ Distinct(r.next)
                      /\ \A i \in DOMAIN r.next : r.next[i] \in r.seen \cap U
           fold == CHOOSE g : AddsUp(refs, limit, base, DOMAIN refs, g)
<1>1. Add(seen, next, refs, limit) = fold[DOMAIN refs]
  BY DEF Add, FoldLeft, MapThenFoldSet, AddsUp, AddStep
<1>2. Len(refs) \in Nat /\ DOMAIN refs = 1..Len(refs)
  OBVIOUS
<1> HIDE DEF base, Good
<1>3. AddsUp(refs, limit, base, DOMAIN refs, fold)
  BY <1>2, FoldExists
<1> HIDE DEF fold
<1>4. Good(base)
  BY DEF Good, base
<1>5. ASSUME NEW r, Good(r), NEW i \in DOMAIN refs PROVE Good(AddStep(refs, limit, i, r))
  <2>1. refs[i] \in Blobs
    OBVIOUS
  <2>2. CASE Cardinality(r.seen) >= limit \/ refs[i] \in r.seen
    BY <1>5, <2>2 DEF AddStep
  <2>3. CASE ~(Cardinality(r.seen) >= limit \/ refs[i] \in r.seen)
    <3> DEFINE more == r.seen \cup {refs[i]}
               longer == Append(r.next, refs[i])
    <3>1. AddStep(refs, limit, i, r) = [seen |-> more, next |-> longer]
      BY <2>3 DEF AddStep
    <3>2. r.seen \in SUBSET Blobs /\ seen \subseteq r.seen /\ r.next \in Seq(Blobs)
      BY <1>5 DEF Good
    <3>3. IsFiniteSet(r.seen) /\ Cardinality(r.seen) \in Nat
      BY <3>2, Constants, FS_Subset, FS_CardinalityType
    <3>4. Cardinality(more) = Cardinality(r.seen) + 1
      BY <2>3, <3>3, FS_AddElement
    <3>5. Cardinality(more) <= limit
      BY <2>3, <3>3, <3>4
    <3>6. /\ longer \in Seq(Blobs) /\ Len(longer) = Len(r.next) + 1 /\ Len(r.next) \in Nat
          /\ DOMAIN longer = 1..Len(r.next) + 1 /\ DOMAIN r.next = 1..Len(r.next)
          /\ \A j \in 1..Len(r.next) : longer[j] = r.next[j]
          /\ longer[Len(r.next) + 1] = refs[i]
      BY <2>1, <3>2
    <3> HIDE DEF longer
    <3>7. ASSUME NEW j \in DOMAIN longer PROVE longer[j] \in more \cap U
      <4>1. CASE j \in DOMAIN r.next
        BY <1>5, <3>6, <4>1 DEF Good
      <4>2. CASE j = Len(r.next) + 1
        <5>1. refs[i] \in U
          BY <2>1, <2>3, <3>2
        <5> QED BY <3>6, <4>2, <5>1
      <4> QED BY <3>6, <4>1, <4>2
    <3>8. Distinct(longer)
      <4>1. ASSUME NEW j \in DOMAIN longer, NEW k \in DOMAIN longer, longer[j] = longer[k]
            PROVE  j = k
        <5>1. \A l \in DOMAIN r.next : longer[l] = r.next[l] /\ r.next[l] \in r.seen
          BY <1>5, <3>6 DEF Good
        <5>2. CASE j \in DOMAIN r.next /\ k \in DOMAIN r.next
          BY <1>5, <4>1, <5>1, <5>2 DEF Good, Distinct
        <5>3. CASE j \in DOMAIN r.next /\ k = Len(r.next) + 1
          BY <2>3, <3>6, <4>1, <5>1, <5>3
        <5>4. CASE j = Len(r.next) + 1 /\ k \in DOMAIN r.next
          BY <2>3, <3>6, <4>1, <5>1, <5>4
        <5>5. CASE j = Len(r.next) + 1 /\ k = Len(r.next) + 1
          BY <5>5
        <5> QED BY <3>6, <5>2, <5>3, <5>4, <5>5
      <4> QED BY <4>1 DEF Distinct
    <3>9. more \in SUBSET Blobs /\ seen \subseteq more
      BY <2>1, <3>2
    <3> HIDE DEF more
    <3> QED BY <3>1, <3>5, <3>6, <3>7, <3>8, <3>9 DEF Good
  <2> QED BY <2>2, <2>3
<1>6. \A n \in 0..Len(refs) : Good(fold[1..n])
  <2> DEFINE T == {n \in Nat : n <= Len(refs) => Good(fold[1..n])}
  <2>0. \A s \in SUBSET (DOMAIN refs) :
          fold[s] = IF s = {} THEN base ELSE AddStep(refs, limit, Max(s), fold[s \ {Max(s)}])
    BY <1>3 DEF AddsUp
  <2>1. 0 \in T
    <3>1. 1..0 = {} /\ {} \in SUBSET (DOMAIN refs)
      OBVIOUS
    <3>2. fold[1..0] = base
      BY <2>0, <3>1
    <3> QED BY <1>4, <3>2
  <2>2. ASSUME NEW n \in T PROVE n + 1 \in T
    <3>1. n \in Nat
      OBVIOUS
    <3>2. ASSUME n + 1 <= Len(refs) PROVE Good(fold[1..n + 1])
      <4>1. Good(fold[1..n]) /\ n + 1 \in DOMAIN refs
        BY <1>2, <3>1, <3>2
      <4>2. 1..n + 1 \in SUBSET (DOMAIN refs) /\ 1..n + 1 # {}
        <5>1. n + 1 \in 1..n + 1
          BY <3>1
        <5>2. ASSUME NEW i \in 1..n + 1 PROVE i \in 1..Len(refs)
          BY <1>2, <3>1, <3>2
        <5> QED BY <1>2, <5>1, <5>2
      <4>3. Max(1..n + 1) = n + 1
        <5>1. 1..n + 1 \in SUBSET (1..n + 1) /\ n + 1 \in 1..n + 1
          BY <3>1
        <5> QED BY <3>1, <5>1, MaxIsLast
      <4>4. (1..n + 1) \ {n + 1} = 1..n
        BY <3>1
      <4>5. fold[1..n + 1] = AddStep(refs, limit, n + 1, fold[1..n])
        BY <2>0, <4>2, <4>3, <4>4
      <4> QED BY <1>5, <4>1, <4>5
    <3> QED BY <3>1, <3>2
  <2>3. T = Nat
    <3>1. T \in SUBSET Nat
      OBVIOUS
    <3> HIDE DEF T
    <3> QED BY <2>1, <2>2, <3>1, NumbersByInduction
  <2>4. ASSUME NEW n \in 0..Len(refs) PROVE Good(fold[1..n])
    <3>1. n \in Nat /\ n <= Len(refs)
      BY <1>2
    <3> QED BY <2>3, <3>1
  <2> QED BY <2>4
<1>7. Good(fold[DOMAIN refs])
  <2>1. Len(refs) \in 0..Len(refs)
    BY <1>2
  <2> QED BY <1>2, <1>6, <2>1
<1> QED BY <1>1, <1>7 DEF Good

-----------------------------------------------------------------------------
(* The invariant of the job.                                                *)

Fetching(c) == c.pc # "idle" /\ c.req.door = "segment"
Fetchers == {t \in Clients : Fetching(client[t])}
Tried == {h \in Blobs : attempts[h] > 0}
Untried == {h \in Blobs : attempts[h] = 0}

\* References that wait for their turn.
Waiting(s, seen) == Distinct(s) /\ \A i \in DOMAIN s : s[i] \in seen \cap Untried

JobOK ==
    /\ job \in Jobs /\ job.round \in 1..MaxDepth /\ Len(job.all) <= RoundSize
    /\ Cardinality(job.seen) <= MaxReferences /\ Tried \subseteq job.seen
    /\ Waiting(job.all, job.seen) /\ Waiting(job.next, job.seen)
    /\ \A i \in DOMAIN job.all : \A j \in DOMAIN job.next : job.all[i] # job.next[j]
    /\ job.running = {client[t].req.hash : t \in Fetchers}

JobInv ==
    /\ attempts \in [Blobs -> 0..1] /\ Cardinality(Tried) <= MaxReferences
    /\ \A t, u \in Fetchers : client[t].req.hash = client[u].req.hash => t = u
    /\ \A t \in Fetchers : attempts[client[t].req.hash] = 1
    /\ IF job = Nothing THEN Fetchers = {} ELSE JobOK

\* The constants of the job.
LEMMA HlsConstants ==
    /\ Playlist \in [Blobs -> Seq(Blobs)] /\ Slots \subseteq Clients /\ IsFiniteSet(Slots)
    /\ MaxDepth \in Nat /\ MaxDepth > 0 /\ RoundSize \in Nat /\ MaxReferences \in Nat
    /\ Nothing \notin Jobs
<1>1. MaxDepth \in Nat \ {0} /\ RoundSize \in Nat \ {0} /\ MaxReferences \in Nat \ {0}
  BY HlsAssumption DEF HlsAssumption
<1> QED BY <1>1, HlsAssumption DEF HlsAssumption

\* A client that neither begins nor ends to fetch a segment.
Fetches(c, d) == (Fetching(d) <=> Fetching(c)) /\ (Fetching(c) => d.req = c.req)

LEMMA JobKept ==
    ASSUME JobInv, KeepHls, \A t \in Clients : Fetches(client[t], client'[t])
    PROVE  JobInv'
<1>1. UNCHANGED <<job, attempts>>
  BY DEF KeepHls
<1>2. Fetchers' = Fetchers /\ \A t \in Fetchers : client'[t].req.hash = client[t].req.hash
  <2>1. \A t \in Clients : Fetching(client'[t]) <=> Fetching(client[t])
    BY DEF Fetches
  <2>2. Fetchers' = {t \in Clients : Fetching(client'[t])}
    BY DEF Fetchers, Fetching
  <2> QED BY <2>1, <2>2 DEF Fetches, Fetchers
<1>3. {client[t].req.hash : t \in Fetchers}' = {client[t].req.hash : t \in Fetchers}
  BY <1>2
<1>4. JobOK => JobOK'
  BY <1>1, <1>3 DEF JobOK, Waiting, Tried, Untried
<1> QED BY <1>1, <1>2, <1>4 DEF JobInv, Tried

\* The handlers fetch on.
LEMMA HandlersFetch ==
    ASSUME Types, NEW t \in Clients, HandlerStep(t)
    PROVE  \A u \in Clients : Fetches(client[u], client'[u])
<1>1. client \in [Clients -> ClientType] /\ client[t].pc # "idle"
  BY DEF Types, HandlerStep, Receive, Verify, Charge, Publish
<1>2. ASSUME NEW c \in ClientType, client' = [client EXCEPT ![t] = c], c.pc # "idle",
             c.req = client[t].req
      PROVE  \A u \in Clients : Fetches(client[u], client'[u])
  BY <1>1, <1>2 DEF Fetches, Fetching
<1>3. ASSUME NEW answer \in Answers, Ends(t, answer)
      PROVE  \A u \in Clients : Fetches(client[u], client'[u])
  BY <1>2, <1>3, EndsAre
<1>4. ASSUME NEW pc \in {"pay", "publish"}, Moves(t, pc)
      PROVE  \A u \in Clients : Fetches(client[u], client'[u])
  BY <1>2, <1>4, MovesAre
<1>5. CASE Receive(t)
  <2>1. CASE \E answer \in {"too large", "failed"} : Ends(t, answer)
    BY <1>3, <2>1 DEF Answers
  <2>2. CASE client' = [client EXCEPT ![t].pc = "verify", ![t].temp = TRUE, ![t].wrote = clock]
    BY <1>1, <2>2 DEF Fetches, Fetching, ClientType
  <2> QED BY <1>5, <2>1, <2>2 DEF Receive
<1>6. CASE Verify(t)
  <2>1. \/ \E answer \in Answers : Ends(t, answer)
        \/ \E pc \in {"pay", "publish"} : Moves(t, pc)
    BY <1>6 DEF Verify, Answers
  <2> QED BY <1>3, <1>4, <2>1
<1>7. CASE Charge(t)
  <2>1. \/ \E answer \in Answers : Ends(t, answer)
        \/ \E pc \in {"pay", "publish"} : Moves(t, pc)
    BY <1>7 DEF Charge, Answers
  <2> QED BY <1>3, <1>4, <2>1
<1>8. CASE Publish(t)
  <2>1. CASE \E answer \in Answers : Ends(t, answer)
    BY <1>3, <2>1
  <2>2. CASE Stores(t, client[t].req.hash)
    BY <1>1, <2>2 DEF Stores, Fetches, Fetching, ClientType
  <2> QED BY <1>8, <2>1, <2>2 DEF Publish, Answers
<1> QED BY <1>5, <1>6, <1>7, <1>8 DEF HandlerStep

LEMMA ForgetFetches ==
    ASSUME Types, NEW t \in Clients, Forget(t), client[t].req.door # "segment"
    PROVE  \A u \in Clients : Fetches(client[u], client'[u])
<1>1. client' = [client EXCEPT ![t] = Idle] /\ client \in [Clients -> ClientType]
  BY DEF Forget, Types
<1> QED BY <1>1 DEF Fetches, Fetching, Idle

\* No client moves.
LEMMA StillFetch ==
    ASSUME UNCHANGED client PROVE \A u \in Clients : Fetches(client[u], client'[u])
BY DEF Fetches

\* Nothing of the intake changes.
LEMMA IntakeKept ==
    ASSUME IntakeInv, UNCHANGED intake, StoreStays PROVE IntakeInv'
<1>1. UNCHANGED <<index, quarantined, promised, active, clock, due, sweep, failed, interfered,
                  client, quoted, left, taken>>
  BY DEF intake, StoreStays, NoSweepStep
<1>2. Bytes(Stored)' = Bytes(Stored) /\ Stored' = Stored
  BY <1>1 DEF Stored
<1>3. Types'
  BY <1>1 DEF IntakeInv, Types
<1>4. ASSUME NEW t \in Clients PROVE ClientOK(t)'
  <2>1. ClientOK(t)
    BY DEF IntakeInv
  <2> QED BY <1>1, <1>2, <2>1 DEF ClientOK, Sound, Money, Room, Turn
<1>5. \A h \in Blobs : CopyOK(h)'
  BY <1>1 DEF IntakeInv, CopyOK
<1>6. SweepOK'
  BY <1>1, <1>2 DEF IntakeInv, SweepOK, Overdue, Entry, Expired, StillExpected
<1> QED BY <1>3, <1>4, <1>5, <1>6 DEF IntakeInv

-----------------------------------------------------------------------------
(* Steps of the job.                                                        *)

\* The first reference of a round is taken up.
LEMMA TakenUp ==
    ASSUME JobInv, job # Nothing, job.all # << >>,
           attempts' = [attempts EXCEPT ![job.all[1]] = @ + 1]
    PROVE  LET h == job.all[1] IN
           /\ h \in Blobs /\ h \in Untried /\ job \in Jobs
           /\ attempts' \in [Blobs -> 0..1] /\ attempts'[h] = 1
           /\ \A g \in Blobs \ {h} : attempts'[g] = attempts[g]
           /\ Cardinality(Tried') <= MaxReferences /\ Tried' \subseteq job.seen
           /\ Tail(job.all) \in Seq(Blobs) /\ Len(Tail(job.all)) <= RoundSize
           /\ Distinct(Tail(job.all))
           /\ \A i \in DOMAIN Tail(job.all) :
                /\ Tail(job.all)[i] \in job.seen \cap Untried'
                /\ \A j \in DOMAIN job.next : Tail(job.all)[i] # job.next[j]
           /\ \A j \in DOMAIN job.next : job.next[j] \in job.seen \cap Untried'
<1> DEFINE h == job.all[1]
           rest == Tail(job.all)
<1>1. JobOK /\ job \in Jobs /\ attempts \in [Blobs -> 0..1]
  BY DEF JobInv, JobOK
<1>2. /\ job.all \in Seq(Blobs) /\ job.next \in Seq(Blobs) /\ job.seen \in SUBSET Blobs
      /\ Len(job.all) \in Nat /\ Len(job.all) > 0
  <2>1. job.all \in Seq(Blobs) /\ job.next \in Seq(Blobs) /\ job.seen \in SUBSET Blobs
    BY <1>1 DEF Jobs
  <2>2. Len(job.all) \in Nat /\ Len(job.all) # 0
    BY <2>1, EmptySeq
  <2> QED BY <2>1, <2>2
<1>3. 1 \in DOMAIN job.all /\ h \in Blobs /\ h \in job.seen \cap Untried
  <2>1. 1 \in DOMAIN job.all
    BY <1>2
  <2> QED BY <1>1, <1>2, <2>1 DEF JobOK, Waiting
<1>4. attempts[h] = 0
  BY <1>3 DEF Untried
<1> HIDE DEF h
<1>5. attempts' = [attempts EXCEPT ![h] = @ + 1]
  BY DEF h
<1>6. /\ attempts' \in [Blobs -> 0..1] /\ attempts'[h] = 1
      /\ \A g \in Blobs \ {h} : attempts'[g] = attempts[g]
  BY <1>1, <1>3, <1>4, <1>5
<1>7. Tried' \subseteq job.seen /\ Cardinality(Tried') <= MaxReferences
  <2>1. Tried' \subseteq Tried \cup {h}
    BY <1>6 DEF Tried
  <2>2. Tried \subseteq job.seen /\ Cardinality(job.seen) <= MaxReferences
    BY <1>1 DEF JobOK
  <2>3. Tried' \subseteq job.seen
    BY <1>3, <2>1, <2>2
  <2>4. IsFiniteSet(job.seen)
    BY <1>2, Constants, FS_Subset
  <2>5. /\ IsFiniteSet(Tried') /\ Cardinality(Tried') <= Cardinality(job.seen)
        /\ Cardinality(Tried') \in Nat /\ Cardinality(job.seen) \in Nat
    BY <2>3, <2>4, FS_Subset, FS_CardinalityType
  <2>6. MaxReferences \in Nat
    BY HlsConstants
  <2> QED BY <2>2, <2>3, <2>5, <2>6
<1>8. /\ rest \in Seq(Blobs) /\ Len(rest) = Len(job.all) - 1
      /\ \A i \in 1..Len(rest) : i + 1 \in DOMAIN job.all /\ rest[i] = job.all[i + 1]
      /\ DOMAIN rest = 1..Len(rest)
  BY <1>2
<1>9. Len(rest) <= RoundSize
  <2>1. RoundSize \in Nat /\ Len(job.all) <= RoundSize
    BY <1>1, HlsConstants DEF JobOK
  <2> QED BY <1>2, <1>8, <2>1
<1> HIDE DEF rest
<1>10. Distinct(rest)
  <2>1. ASSUME NEW i \in DOMAIN rest, NEW j \in DOMAIN rest, rest[i] = rest[j] PROVE i = j
    <3>1. i + 1 = j + 1
      BY <1>1, <1>8, <2>1 DEF JobOK, Waiting, Distinct
    <3> QED BY <1>2, <1>8, <3>1
  <2> QED BY <2>1 DEF Distinct
<1>11. ASSUME NEW g \in Blobs, g # h, g \in Untried PROVE g \in Untried'
  BY <1>6, <1>11 DEF Untried
<1>12. ASSUME NEW i \in DOMAIN rest
       PROVE  /\ rest[i] \in job.seen \cap Untried'
              /\ \A j \in DOMAIN job.next : rest[i] # job.next[j]
  <2>1. i \in Nat /\ i > 0 /\ i + 1 # 1
    BY <1>2, <1>8
  <2>2. rest[i] \in job.seen \cap Untried /\ rest[i] # h
    BY <1>1, <1>3, <1>8, <2>1 DEF JobOK, Waiting, Distinct, h
  <2>3. rest[i] \in Untried'
    BY <1>2, <1>11, <2>2
  <2> QED BY <1>1, <1>8, <2>2, <2>3 DEF JobOK
<1>13. ASSUME NEW j \in DOMAIN job.next PROVE job.next[j] \in job.seen \cap Untried'
  <2>1. job.next[j] \in job.seen \cap Untried /\ job.next[j] # h
    BY <1>1, <1>3 DEF JobOK, Waiting, h
  <2> QED BY <1>2, <1>11, <2>1
<1> QED BY <1>1, <1>3, <1>6, <1>7, <1>8, <1>9, <1>10, <1>12, <1>13 DEF h, rest

LEMMA StartSegmentStep ==
    ASSUME IntakeInv, JobInv, NEW t \in Slots, StartSegment(t) PROVE IntakeInv' /\ JobInv'
<1> DEFINE h == job.all[1]
<1>1. /\ job # Nothing /\ job.all # << >> /\ client[t].pc = "idle" /\ t \in Clients
      /\ attempts' = [attempts EXCEPT ![h] = @ + 1]
      /\ UNCHANGED <<quoted, left, taken>> /\ StoreStays
  BY HlsConstants DEF StartSegment
<1>2. Types /\ JobOK
  BY <1>1 DEF IntakeInv, JobInv
<1>3. /\ h \in Blobs /\ h \in Untried /\ job \in Jobs
      /\ attempts' \in [Blobs -> 0..1] /\ attempts'[h] = 1
      /\ \A g \in Blobs \ {h} : attempts'[g] = attempts[g]
      /\ Cardinality(Tried') <= MaxReferences /\ Tried' \subseteq job.seen
      /\ Tail(job.all) \in Seq(Blobs) /\ Len(Tail(job.all)) <= RoundSize
      /\ Distinct(Tail(job.all))
      /\ \A i \in DOMAIN Tail(job.all) :
           /\ Tail(job.all)[i] \in job.seen \cap Untried'
           /\ \A j \in DOMAIN job.next : Tail(job.all)[i] # job.next[j]
      /\ \A j \in DOMAIN job.next : job.next[j] \in job.seen \cap Untried'
  BY <1>1, TakenUp
<1> HIDE DEF h
<1>4. \A u \in Fetchers : client[u].req.hash \in Blobs \ {h} /\ attempts'[client[u].req.hash] = 1
  <2>1. ASSUME NEW u \in Fetchers
        PROVE  client[u].req.hash \in Blobs /\ attempts[client[u].req.hash] = 1
    <3>1. u \in Clients /\ client[u].pc # "idle"
      BY DEF Fetchers, Fetching
    <3>2. client[u].req \in Request
      BY <3>1 DEF IntakeInv, ClientOK, Sound
    <3> QED BY <3>2 DEF JobInv, Request
  <2> QED BY <1>3, <2>1 DEF Untried
<1>5. ASSUME NEW new, new \in Jobs, job' = new, new.all = Tail(job.all), new.next = job.next,
             new.seen = job.seen, new.round = job.round,
             new.running = {client'[u].req.hash : u \in Fetchers'}
      PROVE  JobOK'
  <2>1. Waiting(job.all, job.seen)'
    BY <1>3, <1>5 DEF Waiting
  <2>2. Waiting(job.next, job.seen)'
    <3>1. Distinct(job.next)
      BY <1>2 DEF JobOK, Waiting
    <3> QED BY <1>3, <1>5, <3>1 DEF Waiting
  <2>3. (\A i \in DOMAIN job.all : \A j \in DOMAIN job.next : job.all[i] # job.next[j])'
    BY <1>3, <1>5
  <2>4. /\ new.round \in 1..MaxDepth /\ Len(new.all) <= RoundSize
        /\ Cardinality(new.seen) <= MaxReferences /\ Tried' \subseteq new.seen
    BY <1>2, <1>3, <1>5 DEF JobOK
  <2> QED BY <1>5, <2>1, <2>2, <2>3, <2>4 DEF JobOK
<1>6. CASE /\ UNCHANGED client
           /\ job' = [job EXCEPT !.all = Tail(@),
                                 !.results = Append(@, [ref |-> h, ok |-> TRUE])]
  <2> DEFINE new == [job EXCEPT !.all = Tail(job.all),
                                !.results = Append(job.results, [ref |-> h, ok |-> TRUE])]
  <2>1. /\ new \in Jobs /\ new.all = Tail(job.all) /\ new.next = job.next /\ new.seen = job.seen
        /\ new.round = job.round /\ new.running = job.running
    <3>1. Append(job.results, [ref |-> h, ok |-> TRUE]) \in Seq([ref : Blobs, ok : BOOLEAN])
      BY <1>3 DEF Jobs
    <3> QED BY <1>3, <3>1 DEF Jobs
  <2>2. job' = new
    BY <1>6
  <2> HIDE DEF new
  <2>3. Fetchers' = Fetchers
    BY <1>6 DEF Fetchers, Fetching
  <2>4. new.running = {client'[u].req.hash : u \in Fetchers'}
    BY <1>2, <1>6, <2>1, <2>3 DEF JobOK
  <2>5. JobOK'
    BY <1>5, <2>1, <2>2, <2>4
  <2>6. job' # Nothing
    BY <2>1, <2>2, HlsConstants
  <2>7. JobInv'
    BY <1>3, <1>4, <1>6, <2>3, <2>5, <2>6 DEF JobInv
  <2>8. IntakeInv'
    BY <1>1, <1>6, IntakeKept DEF intake
  <2> QED BY <2>7, <2>8
<1>7. CASE /\ job' = [job EXCEPT !.all = Tail(@), !.running = @ \cup {h}]
           /\ \E sent \in Origin[h] :
                Starts(t, [door |-> "segment", hash |-> h, body |-> sent.body,
                           length |-> sent.length, keep |-> 0], Nothing)
  <2>1. PICK sent \in Origin[h] :
                Starts(t, [door |-> "segment", hash |-> h, body |-> sent.body,
                           length |-> sent.length, keep |-> 0], Nothing)
    BY <1>7
  <2> DEFINE r == [door |-> "segment", hash |-> h, body |-> sent.body, length |-> sent.length,
                   keep |-> 0]
             new == [job EXCEPT !.all = Tail(job.all), !.running = job.running \cup {h}]
  <2>2. r \in Request
    <3>1. sent \in [body : Blobs, length : BOOLEAN]
      BY <1>3, HlsAssumption DEF HlsAssumption
    <3> QED BY <1>3, <3>1 DEF Request, Doors
  <2>3. IntakeInv'
    <3>1. Turn(t, [pc |-> "stream", req |-> r], left[t])
      BY DEF Turn
    <3>2. Starts(t, r, Nothing)
      BY <2>1
    <3> HIDE DEF r
    <3> QED BY <1>1, <2>2, <3>1, <3>2, StartsStep
  <2>4. /\ new \in Jobs /\ new.all = Tail(job.all) /\ new.next = job.next /\ new.seen = job.seen
        /\ new.round = job.round /\ new.running = job.running \cup {h}
    BY <1>3 DEF Jobs
  <2>5. job' = new
    BY <1>7
  <2> HIDE DEF new
  <2>6. /\ client'[t].req.hash = h /\ Fetching(client'[t]) /\ ~Fetching(client[t])
        /\ \A u \in Clients \ {t} : client'[u] = client[u]
    BY <1>1, <1>2, <2>1 DEF Starts, Idle, Fetching, Types
  <2>7. Fetchers' = Fetchers \cup {t} /\ t \notin Fetchers
    <3>1. Fetchers' = {u \in Clients : Fetching(client'[u])}
      BY DEF Fetchers, Fetching
    <3> QED BY <1>1, <2>6, <3>1 DEF Fetchers
  <2>8. {client'[u].req.hash : u \in Fetchers'} = {client[u].req.hash : u \in Fetchers} \cup {h}
    <3>1. \A u \in Fetchers : client'[u] = client[u]
      BY <2>6, <2>7 DEF Fetchers
    <3> QED BY <2>6, <2>7, <3>1
  <2>9. JobOK'
    <3>1. new.running = {client'[u].req.hash : u \in Fetchers'}
      BY <1>2, <2>4, <2>8 DEF JobOK
    <3> QED BY <1>5, <2>4, <2>5, <3>1
  <2>10. job' # Nothing
    BY <2>4, <2>5, HlsConstants
  <2>11. \A u \in Fetchers : client'[u] = client[u]
    BY <2>6, <2>7 DEF Fetchers
  <2>12. \A u, v \in Fetchers' : client'[u].req.hash = client'[v].req.hash => u = v
    BY <1>4, <2>6, <2>7, <2>11 DEF JobInv
  <2>13. \A u \in Fetchers' : attempts'[client'[u].req.hash] = 1
    BY <1>3, <1>4, <2>6, <2>7, <2>11
  <2>14. JobInv'
    BY <1>3, <2>9, <2>10, <2>12, <2>13 DEF JobInv
  <2> QED BY <2>3, <2>14
<1> QED BY <1>6, <1>7 DEF StartSegment, h

LEMMA CollectsStep ==
    ASSUME IntakeInv, JobInv, NEW t \in Clients, Collect(t) PROVE IntakeInv' /\ JobInv'
<1> DEFINE h == client[t].req.hash
           ok == client[t].answer \in {"created", "kept"}
           new == [job EXCEPT !.running = job.running \ {h},
                              !.results = Append(job.results, [ref |-> h, ok |-> ok])]
<1>1. /\ client[t].pc = "answer" /\ client[t].pc # "idle" /\ client[t].req.door = "segment"
      /\ job' = new /\ client' = [client EXCEPT ![t] = Idle]
      /\ UNCHANGED <<quoted, left, taken, attempts>> /\ StoreStays
  BY DEF Collect
<1>2. Types /\ t \in Fetchers /\ JobOK /\ job \in Jobs /\ h \in Blobs
  <2>1. t \in Fetchers
    BY <1>1 DEF Fetchers, Fetching
  <2>2. client[t].req \in Request
    BY <1>1 DEF IntakeInv, ClientOK, Sound
  <2> QED BY <2>1, <2>2 DEF IntakeInv, JobInv, JobOK, Request
<1>3. IntakeInv'
  BY <1>1, CollectStep
<1>4. /\ new \in Jobs /\ new.all = job.all /\ new.next = job.next /\ new.seen = job.seen
      /\ new.round = job.round /\ new.running = job.running \ {h}
  <2>1. Append(job.results, [ref |-> h, ok |-> ok]) \in Seq([ref : Blobs, ok : BOOLEAN])
    <3>1. [ref |-> h, ok |-> ok] \in [ref : Blobs, ok : BOOLEAN]
      BY <1>2
    <3>2. job.results \in Seq([ref : Blobs, ok : BOOLEAN])
      BY <1>2 DEF Jobs
    <3> HIDE DEF h, ok
    <3> QED BY <3>1, <3>2
  <2> HIDE DEF h, ok
  <2> QED BY <1>2, <2>1 DEF Jobs
<1> HIDE DEF new, h
<1>5. Fetchers' = Fetchers \ {t} /\ \A u \in Fetchers' : client'[u] = client[u]
  <2>1. /\ ~Fetching(client'[t]) /\ \A u \in Clients \ {t} : client'[u] = client[u]
    BY <1>1, <1>2 DEF Idle, Fetching, Types
  <2>2. Fetchers' = {u \in Clients : Fetching(client'[u])}
    BY DEF Fetchers, Fetching
  <2> QED BY <2>1, <2>2 DEF Fetchers
<1>6. {client'[u].req.hash : u \in Fetchers'} = {client[u].req.hash : u \in Fetchers} \ {h}
  BY <1>2, <1>5 DEF JobInv, h
<1>7. JobOK'
  <2>1. new.running = {client'[u].req.hash : u \in Fetchers'}
    BY <1>2, <1>4, <1>6 DEF JobOK
  <2>2. Untried' = Untried /\ Tried' = Tried
    BY <1>1 DEF Untried, Tried
  <2>3. Waiting(job.all, job.seen)' /\ Waiting(job.next, job.seen)'
    BY <1>1, <1>2, <1>4, <2>2 DEF JobOK, Waiting
  <2>4. /\ new.round \in 1..MaxDepth /\ Len(new.all) <= RoundSize
        /\ Cardinality(new.seen) <= MaxReferences /\ Tried \subseteq new.seen
        /\ \A i \in DOMAIN new.all : \A j \in DOMAIN new.next : new.all[i] # new.next[j]
    BY <1>2, <1>4 DEF JobOK
  <2>5. Fetchers' = {u \in Clients : Fetching(client'[u])} /\ job' = new
    BY <1>1 DEF Fetchers
  <2> QED BY <1>4, <2>1, <2>2, <2>3, <2>4, <2>5 DEF JobOK
<1>8. job' # Nothing
  BY <1>1, <1>4, HlsConstants
<1>9. Tried' = Tried /\ attempts' = attempts
  BY <1>1 DEF Tried
<1>10. JobInv'
  BY <1>5, <1>7, <1>8, <1>9 DEF JobInv
<1> QED BY <1>3, <1>10

LEMMA ExpandStep == ASSUME IntakeInv, JobInv, Expand PROVE IntakeInv' /\ JobInv'
<1>1. /\ job # Nothing /\ job.all = << >> /\ job.running = {} /\ job.results # << >>
      /\ UNCHANGED <<intake, attempts>> /\ StoreStays
  BY DEF Expand, RoundIsIn
<1>2. JobOK /\ job \in Jobs
  BY <1>1 DEF JobInv, JobOK
<1>3. IntakeInv'
  BY <1>1, IntakeKept
<1>4. /\ job.seen \in SUBSET Blobs /\ job.next \in Seq(Blobs)
      /\ job.results \in Seq([ref : Blobs, ok : BOOLEAN])
  BY <1>2 DEF Jobs
<1>5. /\ job.results[1] \in [ref : Blobs, ok : BOOLEAN]
      /\ Tail(job.results) \in Seq([ref : Blobs, ok : BOOLEAN])
  <2> DEFINE Results == [ref : Blobs, ok : BOOLEAN]
             results == job.results
  <2>1. results \in Seq(Results) /\ results # << >>
    BY <1>1, <1>4
  <2> HIDE DEF Results, results
  <2>2. Len(results) \in Nat /\ Len(results) # 0
    BY <2>1, EmptySeq
  <2>3. results[1] \in Results /\ Tail(results) \in Seq(Results)
    BY <2>1, <2>2
  <2> QED BY <2>3 DEF Results, results
<1> DEFINE result == job.results[1]
           more == IF result.ok
                   THEN Add(job.seen, job.next, References(result.ref), MaxReferences)
                   ELSE [seen |-> job.seen, next |-> job.next]
           new == [job EXCEPT !.results = Tail(job.results), !.seen = more.seen,
                              !.next = more.next]
<1>6. job' = new
  BY DEF Expand
<1>7. /\ more.seen \in SUBSET Blobs /\ job.seen \subseteq more.seen
      /\ Cardinality(more.seen) <= MaxReferences
      /\ more.next \in Seq(Blobs) /\ Distinct(more.next)
      /\ \A i \in DOMAIN more.next : more.next[i] \in more.seen \cap Untried
  <2>1. /\ Cardinality(job.seen) <= MaxReferences /\ Distinct(job.next)
        /\ \A i \in DOMAIN job.next : job.next[i] \in job.seen \cap Untried
    BY <1>2 DEF JobOK, Waiting
  <2>2. CASE result.ok
    <3> DEFINE refs == References(result.ref)
    <3>1. refs \in Seq(Blobs)
      <4>1. Playlist[result.ref] \in Seq(Blobs)
        BY <1>5, HlsConstants
      <4> QED BY <4>1 DEF References
    <3>2. Blobs \ job.seen \subseteq Untried
      <4>1. \A g \in Blobs : attempts[g] \in 0..1
        BY DEF JobInv
      <4> QED BY <1>2, <4>1 DEF JobOK, Tried, Untried
    <3>3. MaxReferences \in Nat
      BY HlsConstants
    <3> HIDE DEF refs
    <3> DEFINE r == Add(job.seen, job.next, refs, MaxReferences)
    <3>4. /\ r.seen \in SUBSET Blobs /\ job.seen \subseteq r.seen
          /\ Cardinality(r.seen) <= MaxReferences
          /\ r.next \in Seq(Blobs) /\ Distinct(r.next)
          /\ \A i \in DOMAIN r.next : r.next[i] \in r.seen \cap Untried
      BY <1>4, <2>1, <3>1, <3>2, <3>3, AddIs
    <3>5. more = r
      BY <2>2 DEF refs
    <3> HIDE DEF r, more
    <3> QED BY <3>4, <3>5
  <2>3. CASE ~result.ok
    <3>1. more = [seen |-> job.seen, next |-> job.next]
      BY <2>3
    <3> HIDE DEF more
    <3> QED BY <1>4, <2>1, <3>1
  <2> QED BY <2>2, <2>3
<1> HIDE DEF more
<1>8. /\ new \in Jobs /\ new.all = job.all /\ new.next = more.next /\ new.seen = more.seen
      /\ new.round = job.round /\ new.running = job.running
  BY <1>2, <1>5, <1>7 DEF Jobs
<1> HIDE DEF new
<1>9. Fetchers' = Fetchers /\ client' = client /\ attempts' = attempts
  BY <1>1 DEF intake, Fetchers, Fetching
<1>10. Tried' = Tried /\ Untried' = Untried
  BY <1>1 DEF Tried, Untried
<1>11. JobOK'
  <2>1. Waiting(job.next, job.seen)'
    BY <1>6, <1>7, <1>8, <1>10 DEF Waiting
  <2>2. DOMAIN job.all = {} /\ Len(job.all) = 0
    BY <1>1
  <2>3. Waiting(job.all, job.seen)'
    BY <1>6, <1>8, <2>2 DEF Waiting, Distinct
  <2>4. new.running = {client'[u].req.hash : u \in Fetchers'}
    BY <1>2, <1>8, <1>9 DEF JobOK
  <2>5. /\ new.round \in 1..MaxDepth /\ Len(new.all) <= RoundSize
        /\ Cardinality(new.seen) <= MaxReferences /\ Tried' \subseteq new.seen
    BY <1>2, <1>7, <1>8, <1>10 DEF JobOK
  <2> QED BY <1>6, <1>8, <2>1, <2>2, <2>3, <2>4, <2>5 DEF JobOK
<1>12. job' # Nothing
  BY <1>6, <1>8, HlsConstants
<1>13. JobInv'
  BY <1>9, <1>10, <1>11, <1>12 DEF JobInv
<1> QED BY <1>3, <1>13

\* A first part of a sequence of references.
LEMMA FirstOfIs ==
    ASSUME NEW s \in Seq(Blobs), NEW n \in Nat
    PROVE  /\ FirstOf(s, n) \in Seq(Blobs) /\ Len(FirstOf(s, n)) <= n
           /\ DOMAIN FirstOf(s, n) \subseteq DOMAIN s
           /\ \A i \in DOMAIN FirstOf(s, n) : FirstOf(s, n)[i] = s[i]
<1> DEFINE m == Min({n, Len(s)})
<1>1. Len(s) \in Nat
  OBVIOUS
<1>2. m = IF n <= Len(s) THEN n ELSE Len(s)
  <2>1. n \in Int /\ Len(s) \in Int
    BY <1>1
  <2> QED BY <2>1, MaxOfTwo
<1>3. m \in Nat /\ m <= n /\ m <= Len(s)
  BY <1>1, <1>2
<1> HIDE DEF m
<1>4. /\ SubSeq(s, 1, m) \in Seq(Blobs) /\ Len(SubSeq(s, 1, m)) = m
      /\ \A i \in 1..m : SubSeq(s, 1, m)[i] = s[i]
  BY <1>1, <1>3
<1>5. DOMAIN SubSeq(s, 1, m) = 1..m /\ DOMAIN s = 1..Len(s) /\ 1..m \subseteq 1..Len(s)
  BY <1>1, <1>3, <1>4
<1> QED BY <1>3, <1>4, <1>5 DEF FirstOf, m

LEMMA NextRoundStep == ASSUME IntakeInv, JobInv, NextRound PROVE IntakeInv' /\ JobInv'
<1>1. /\ job # Nothing /\ job.all = << >> /\ job.running = {}
      /\ UNCHANGED <<intake, attempts>> /\ StoreStays
  BY DEF NextRound, RoundIsIn
<1>2. JobOK /\ job \in Jobs
  BY <1>1 DEF JobInv, JobOK
<1>3. IntakeInv'
  BY <1>1, IntakeKept
<1>4. Fetchers' = Fetchers /\ client' = client /\ attempts' = attempts
      /\ Tried' = Tried /\ Untried' = Untried /\ Fetchers = {}
  BY <1>1, <1>2 DEF intake, Fetchers, Fetching, Tried, Untried, JobOK
<1>5. CASE job' = Nothing
  <2>1. JobInv'
    BY <1>4, <1>5 DEF JobInv
  <2> QED BY <1>3, <2>1
<1>6. CASE /\ job.round # MaxDepth
           /\ job' = [job EXCEPT !.round = @ + 1, !.all = FirstOf(job.next, RoundSize),
                                 !.next = << >>]
  <2> DEFINE first == FirstOf(job.next, RoundSize)
             new == [job EXCEPT !.round = job.round + 1, !.all = first, !.next = << >>]
  <2>1. /\ first \in Seq(Blobs) /\ Len(first) <= RoundSize /\ DOMAIN first \subseteq DOMAIN job.next
        /\ \A i \in DOMAIN first : first[i] = job.next[i]
    <3>1. job.next \in Seq(Blobs) /\ RoundSize \in Nat
      BY <1>2, HlsConstants DEF Jobs
    <3> QED BY <3>1, FirstOfIs
  <2>2. job' = new
    BY <1>6
  <2>3. job.round + 1 \in 1..MaxDepth /\ job.round + 1 \in Nat
    <3>1. job.round \in 1..MaxDepth /\ MaxDepth \in Nat
      BY <1>2, HlsConstants DEF JobOK
    <3> QED BY <1>6, <3>1
  <2> HIDE DEF first
  <2>4. /\ new \in Jobs /\ new.all = first /\ new.next = << >> /\ new.seen = job.seen
        /\ new.round = job.round + 1 /\ new.running = job.running
    <3> DEFINE later == job.round + 1
               none == << >>
    <3>1. later \in Nat /\ none \in Seq(Blobs)
      BY <2>3
    <3> HIDE DEF later, none
    <3>2. new = [job EXCEPT !.round = later, !.all = first, !.next = none]
      BY DEF later, none
    <3> HIDE DEF new
    <3>3. /\ new \in Jobs /\ new.all = first /\ new.next = none /\ new.seen = job.seen
          /\ new.round = later /\ new.running = job.running
      BY <1>2, <2>1, <3>1, <3>2 DEF Jobs
    <3> QED BY <3>3 DEF later, none
  <2> HIDE DEF new
  <2>5. Distinct(first) /\ \A i \in DOMAIN first : first[i] \in job.seen \cap Untried
    BY <1>2, <2>1 DEF JobOK, Waiting, Distinct
  <2>6. Waiting(job.all, job.seen)'
    BY <1>4, <2>2, <2>4, <2>5 DEF Waiting
  <2>7. DOMAIN new.next = {}
    BY <2>4
  <2>8. Waiting(job.next, job.seen)'
    BY <2>2, <2>7 DEF Waiting, Distinct
  <2>9. new.running = {client'[u].req.hash : u \in Fetchers'}
    BY <1>1, <1>4, <2>4
  <2>10. Cardinality(new.seen) <= MaxReferences /\ Tried' \subseteq new.seen
    BY <1>2, <1>4, <2>4 DEF JobOK
  <2>11. JobOK'
    BY <2>1, <2>2, <2>3, <2>4, <2>6, <2>7, <2>8, <2>9, <2>10 DEF JobOK
  <2>12. job' # Nothing
    BY <2>2, <2>4, HlsConstants
  <2>13. JobInv'
    BY <1>4, <2>11, <2>12 DEF JobInv
  <2> QED BY <1>3, <2>13
<1> QED BY <1>5, <1>6 DEF NextRound

LEMMA SpawnStep ==
    ASSUME IntakeInv, JobInv, NEW t \in Clients, Spawn(t) PROVE IntakeInv' /\ JobInv'
<1>1. /\ client[t].pc = "answer" /\ client[t].pc # "idle" /\ client[t].req.door = "mirror"
      /\ client[t].req.door # "segment" /\ job = Nothing /\ Forget(t) /\ StoreStays
      /\ attempts' = [h \in Blobs |-> 0]
  BY DEF Spawn, Mirrored
<1>2. IntakeInv'
  BY <1>1, ForgetStep
<1>3. Fetchers = {} /\ Fetchers' = {}
  <2>1. Fetchers = {}
    BY <1>1 DEF JobInv
  <2>2. \A u \in Clients : Fetches(client[u], client'[u])
    BY <1>1, ForgetFetches DEF IntakeInv
  <2>3. Fetchers' = {u \in Clients : Fetching(client'[u])}
    BY DEF Fetchers, Fetching
  <2> QED BY <2>1, <2>2, <2>3 DEF Fetches, Fetchers
<1>4. /\ Tried' = {} /\ Untried' = Blobs /\ attempts' \in [Blobs -> 0..1]
      /\ Cardinality(Tried') <= MaxReferences
  <2>1. Tried' = {} /\ Untried' = Blobs /\ attempts' \in [Blobs -> 0..1]
    BY <1>1 DEF Tried, Untried
  <2>2. Cardinality(Tried') = 0
    BY <2>1, FS_EmptySet
  <2>3. MaxReferences \in Nat
    BY HlsConstants
  <2> QED BY <2>1, <2>2, <2>3
<1> DEFINE refs == Playlist[client[t].req.hash]
           top == Add({}, << >>, refs, Cardinality(Blobs))
           first == FirstOf(top.next, RoundSize)
<1>5. /\ top.seen \in SUBSET Blobs /\ top.next \in Seq(Blobs) /\ Distinct(top.next)
      /\ \A i \in DOMAIN top.next : top.next[i] \in top.seen \cap Blobs
  <2>1. refs \in Seq(Blobs)
    <3>1. client[t].req \in Request
      BY <1>1 DEF IntakeInv, ClientOK, Sound
    <3> QED BY <3>1, HlsConstants DEF Request
  <2> DEFINE limit == Cardinality(Blobs)
             none == {}
             empty == << >>
  <2>2. limit \in Nat /\ Cardinality(none) <= limit /\ none \in SUBSET Blobs
    <3>1. limit \in Nat
      BY Constants, FS_CardinalityType
    <3>2. Cardinality(none) = 0
      BY FS_EmptySet
    <3> HIDE DEF limit
    <3> QED BY <3>1, <3>2
  <2>3. /\ empty \in Seq(Blobs) /\ Distinct(empty)
        /\ \A i \in DOMAIN empty : empty[i] \in none \cap Blobs
    BY DEF Distinct
  <2> HIDE DEF refs, limit, none, empty
  <2> DEFINE r == Add(none, empty, refs, limit)
  <2>4. /\ r.seen \in SUBSET Blobs /\ r.next \in Seq(Blobs) /\ Distinct(r.next)
        /\ \A i \in DOMAIN r.next : r.next[i] \in r.seen \cap Blobs
    BY <2>1, <2>2, <2>3, AddIs
  <2>5. r = top
    BY DEF limit, none, empty
  <2> HIDE DEF r, top
  <2> QED BY <2>4, <2>5
<1>6. job' = IF Cardinality(top.seen) > MaxReferences THEN Nothing ELSE NewJob(first, top.seen)
  BY DEF Spawn
<1> HIDE DEF top
<1>7. /\ first \in Seq(Blobs) /\ Len(first) <= RoundSize /\ DOMAIN first \subseteq DOMAIN top.next
      /\ \A i \in DOMAIN first : first[i] = top.next[i]
  BY <1>5, HlsConstants, FirstOfIs
<1> HIDE DEF first
<1>8. CASE Cardinality(top.seen) > MaxReferences
  BY <1>2, <1>3, <1>4, <1>6, <1>8 DEF JobInv
<1>9. CASE ~(Cardinality(top.seen) > MaxReferences)
  <2> DEFINE new == NewJob(first, top.seen)
  <2>1. job' = new
    BY <1>6, <1>9
  <2>2. /\ new \in Jobs /\ new.all = first /\ new.next = << >> /\ new.seen = top.seen
        /\ new.round = 1 /\ new.running = {}
    BY <1>5, <1>7 DEF NewJob, Jobs
  <2> HIDE DEF new
  <2>3. Cardinality(top.seen) <= MaxReferences
    <3>1. IsFiniteSet(top.seen)
      BY <1>5, Constants, FS_Subset
    <3>2. Cardinality(top.seen) \in Nat /\ MaxReferences \in Nat
      BY <3>1, HlsConstants, FS_CardinalityType
    <3> QED BY <1>9, <3>2
  <2>4. Distinct(first) /\ \A i \in DOMAIN first : first[i] \in top.seen \cap Blobs
    BY <1>5, <1>7 DEF Distinct
  <2>5. Waiting(job.all, job.seen)'
    BY <1>4, <2>1, <2>2, <2>4 DEF Waiting
  <2>6. DOMAIN new.next = {}
    BY <2>2
  <2>7. Waiting(job.next, job.seen)'
    BY <2>1, <2>6 DEF Waiting, Distinct
  <2>8. 1 \in 1..MaxDepth
    BY HlsConstants
  <2>9. new.running = {client'[u].req.hash : u \in Fetchers'}
    BY <1>3, <2>2
  <2>10. JobOK'
    BY <1>4, <1>7, <2>1, <2>2, <2>3, <2>5, <2>6, <2>7, <2>8, <2>9 DEF JobOK
  <2>11. job' # Nothing
    BY <2>1, <2>2, HlsConstants
  <2>12. JobInv'
    BY <1>3, <1>4, <2>10, <2>11 DEF JobInv
  <2> QED BY <1>2, <2>12
<1> QED BY <1>8, <1>9

-----------------------------------------------------------------------------
(* The specification.                                                       *)

HlsInv == IntakeInv /\ JobInv

LEMMA HlsInitHolds == HlsInit => HlsInv
<1> SUFFICES ASSUME HlsInit PROVE HlsInv
  OBVIOUS
<1>1. Init /\ job = Nothing /\ attempts = [h \in Blobs |-> 0] /\ client = [t \in Clients |-> Idle]
  BY DEF HlsInit, Init
<1>2. Fetchers = {}
  BY <1>1 DEF Fetchers, Fetching, Idle
<1>3. Tried = {}
  BY <1>1 DEF Tried
<1>4. Cardinality(Tried) = 0 /\ 0 <= MaxReferences
  BY <1>3, FS_EmptySet, HlsConstants
<1>5. attempts \in [Blobs -> 0..1]
  BY <1>1
<1> QED BY <1>1, <1>2, <1>4, <1>5, InitHolds DEF HlsInv, JobInv

LEMMA ActiveClients == Types => active \subseteq Clients
BY Constants DEF Types

LEMMA IntakeNextStep == ASSUME IntakeInv, JobInv, IntakeNext, KeepHls PROVE IntakeInv' /\ JobInv'
<1>1. Types /\ active \subseteq Clients
  BY ActiveClients DEF IntakeInv
<1>2. ASSUME UNCHANGED client PROVE JobInv'
  BY <1>2, StillFetch, JobKept
<1>3. ASSUME NEW t \in active, Preflight(t) PROVE IntakeInv' /\ JobInv'
  <2>1. UNCHANGED client
    BY <1>3 DEF Preflight
  <2> QED BY <1>1, <1>2, <1>3, <2>1, PreflightStep
<1>4. ASSUME NEW t \in active, Admit(t) PROVE IntakeInv' /\ JobInv'
  <2>1. client[t].pc = "idle" /\ client \in [Clients -> ClientType] /\ t \in Clients
    BY <1>1, <1>4 DEF Admit, Types
  <2>2. PICK r \in Offers[t] : \E token \in Payments(t, r) : Starts(t, r, token)
    BY <1>4 DEF Admit
  <2>3. r.door # "segment"
    BY <2>1, Constants
  <2>4. client'[t].req = r /\ \A u \in Clients \ {t} : client'[u] = client[u]
    BY <2>1, <2>2 DEF Starts, Idle
  <2>5. \A u \in Clients : Fetches(client[u], client'[u])
    BY <2>1, <2>3, <2>4 DEF Fetches, Fetching
  <2> QED BY <1>4, <2>1, <2>5, AdmitStep, JobKept
<1>5. ASSUME NEW t \in active, Cancel(t) PROVE IntakeInv' /\ JobInv'
  <2>1. Forget(t) /\ StoreStays /\ client[t].pc # "idle" /\ client[t].req.door # "segment"
    BY <1>5 DEF Cancel
  <2>2. \A u \in Clients : Fetches(client[u], client'[u])
    BY <1>1, <2>1, ForgetFetches
  <2> QED BY <1>1, <2>1, <2>2, ForgetStep, JobKept
<1>6. CASE SweepStep
  <2>1. UNCHANGED client
    BY <1>6 DEF SweepStep, Wakes, Expire, Count, Evict, Sleeps, KeepIntake, intake
  <2> QED BY <1>2, <1>6, <2>1, WakesStep, ExpireStep, CountStep, EvictStep, SleepsStep DEF SweepStep
<1>7. CASE Tick
  BY <1>2, <1>7, TickStep DEF Tick, intake
<1>8. ASSUME NEW h \in Blobs, Quarantine(h) PROVE IntakeInv' /\ JobInv'
  BY <1>2, <1>8, QuarantineStep DEF Quarantine, intake
<1> QED BY <1>3, <1>4, <1>5, <1>6, <1>7, <1>8 DEF IntakeNext

LEMMA HlsNextStep == ASSUME HlsInv, [Next]_hlsVars PROVE HlsInv'
<1>1. IntakeInv /\ JobInv /\ Types /\ active \subseteq Clients
  BY ActiveClients DEF HlsInv, IntakeInv
<1>2. CASE IntakeNext /\ KeepHls
  BY <1>1, <1>2, IntakeNextStep DEF HlsInv
<1>3. ASSUME NEW t \in active, HandlerStep(t), KeepHls PROVE HlsInv'
  <2>1. JobInv'
    BY <1>1, <1>3, HandlersFetch, JobKept
  <2>2. IntakeInv'
    BY <1>1, <1>3, ReceiveStep, VerifyStep, ChargeStep, PublishStep DEF HandlerStep
  <2> QED BY <2>1, <2>2 DEF HlsInv
<1>4. ASSUME NEW t \in active, Respond(t), KeepHls PROVE HlsInv'
  <2>1. Forget(t) /\ StoreStays /\ client[t].pc # "idle" /\ client[t].req.door # "segment"
    BY <1>4 DEF Respond
  <2>2. \A u \in Clients : Fetches(client[u], client'[u])
    BY <1>1, <2>1, ForgetFetches
  <2> QED BY <1>1, <1>4, <2>1, <2>2, ForgetStep, JobKept DEF HlsInv
<1>5. ASSUME NEW t \in active, Spawn(t) PROVE HlsInv'
  BY <1>1, <1>5, SpawnStep DEF HlsInv
<1>6. CASE JobStep
  BY <1>1, <1>6, StartSegmentStep, CollectsStep, ExpandStep, NextRoundStep DEF JobStep, HlsInv
<1>7. CASE Restart /\ job' = Nothing /\ attempts' = [h \in Blobs |-> 0]
  <2>1. IntakeInv'
    BY <1>1, <1>7, RestartStep
  <2>2. client' = [t \in Clients |-> Idle]
    BY <1>7 DEF Restart
  <2>3. Fetchers' = {}
    BY <2>2 DEF Fetchers, Fetching, Idle
  <2>4. Tried' = {} /\ attempts' \in [Blobs -> 0..1]
    BY <1>7 DEF Tried
  <2>5. Cardinality(Tried') = 0 /\ 0 <= MaxReferences
    BY <2>4, FS_EmptySet, HlsConstants
  <2>6. JobInv'
    BY <1>7, <2>3, <2>4, <2>5 DEF JobInv
  <2> QED BY <2>1, <2>6 DEF HlsInv
<1>8. CASE UNCHANGED hlsVars
  <2>1. /\ UNCHANGED <<index, quarantined, promised, active, clock, due, sweep, failed, interfered,
                       intake, client>> /\ KeepHls
    BY <1>8 DEF hlsVars, vars, intake, KeepHls
  <2>2. IntakeInv'
    BY <1>1, <2>1, IntakeKept DEF StoreStays, NoSweepStep
  <2>3. JobInv'
    BY <1>1, <2>1, StillFetch, JobKept
  <2> QED BY <2>2, <2>3 DEF HlsInv
<1> QED BY <1>2, <1>3, <1>4, <1>5, <1>6, <1>7, <1>8 DEF Next, ClientStep

\* The invariant of the intakes and the job (Intake, HlsMirror: the whole of Next).
THEOREM HlsInvariant == Spec => []HlsInv
<1>1. HlsInit => HlsInv
  BY HlsInitHolds
<1>2. HlsInv /\ [Next]_hlsVars => HlsInv'
  BY HlsNextStep
<1> QED BY <1>1, <1>2, PTL DEF Spec

\* Nobody has an answer who is not at the end of a request.
LEMMA AnswersAreLast ==
    ASSUME IntakeInv, NEW t \in Clients, client[t].answer \in Answers
    PROVE  client[t].pc = "answer"
BY Constants DEF IntakeInv, ClientOK, Sound

\* The limits of the store (intake.rs check_storage_limits) hold whatever door a
\* blob comes through, for any number of clients and blobs.
THEOREM LimitsAreKept == Spec => []LimitsHold
<1>1. HlsInv => LimitsHold
  <2> SUFFICES ASSUME HlsInv PROVE LimitsHold
    OBVIOUS
  <2>1. SizeCeiling
    BY DEF HlsInv, IntakeInv, CopyOK, SizeCeiling, Stored
  <2>2. ASSUME NEW t \in active, client[t].answer = "created",
               client[t].req.door \in {"put", "segment"}, MaxTotalSize # 0
        PROVE  Bytes(Stored) <= MaxTotalSize + client[t].since
    <3>1. IntakeInv /\ t \in Clients
      BY ActiveClients DEF HlsInv, IntakeInv
    <3>2. client[t].pc = "answer"
      BY <2>2, <3>1, AnswersAreLast DEF Answers
    <3> QED BY <2>2, <3>1, <3>2 DEF IntakeInv, ClientOK, Room
  <2> QED BY <2>1, <2>2 DEF LimitsHold, QuotaOvershoot
<1> QED BY <1>1, HlsInvariant, PTL

\* Money is taken for verified bodies only, what a paid door stores is paid for, and
\* a quote is enough (cashu.rs settle, handlers/upload.rs).
THEOREM PaymentsAreSound == Spec => []PaymentsAreDue
<1>1. HlsInv => PaymentsAreDue
  <2> SUFFICES ASSUME HlsInv PROVE PaymentsAreDue
    OBVIOUS
  <2>1. \A t \in active : Money(client[t], taken[t], quoted[t])
    BY ActiveClients DEF HlsInv, IntakeInv, ClientOK
  <2>2. ChargedForVerified
    BY <2>1 DEF ChargedForVerified, Money
  <2>3. PaidBeforeStored
    BY <2>1 DEF PaidBeforeStored, Money
  <2>4. QuoteIsEnough
    BY <2>1 DEF QuoteIsEnough, Money
  <2> QED BY <2>2, <2>3, <2>4 DEF PaymentsAreDue
<1> QED BY <1>1, HlsInvariant, PTL

\* No blob outlives its deadline by an interval of the cleanup job, unless its
\* removal failed (utils.rs enforce_storage_limits, cleanup_deadline).
THEOREM DeadlinesAreBound == Spec => []DeadlinesBound
<1>1. HlsInv => DeadlinesBound
  <2> SUFFICES ASSUME HlsInv, sweep.step = "sleep", due > clock, NEW h \in Stored \ failed
               PROVE  LET e == index[h]
                          told == ({promised[h]} \ {Nothing})
                                  \cup (IF e.origin = "cache" /\ CacheTtl > 0
                                        THEN {e.created + CacheTtl} ELSE {})
                      IN \A at \in told : clock < Max({at, e.created}) + Interval
    BY DEF DeadlinesBound
  <2> DEFINE e == index[h]
             told == ({promised[h]} \ {Nothing})
                     \cup (IF e.origin = "cache" /\ CacheTtl > 0
                           THEN {e.created + CacheTtl} ELSE {})
  <2>1. /\ h \in Blobs /\ e # Nothing /\ e \in Copies /\ CopyOK(h) /\ SweepOK
        /\ clock \in Nat /\ due \in Nat /\ Interval \in Nat /\ e.created \in Nat
    <3>1. MaxClock \in Nat /\ Interval \in Nat
      BY Constants
    <3>2. h \in Blobs /\ e # Nothing
      BY DEF Stored
    <3>3. e \in Copies /\ CopyOK(h) /\ SweepOK /\ clock \in Nat /\ due \in Nat
      BY <3>1, <3>2 DEF HlsInv, IntakeInv, Types
    <3> QED BY <3>1, <3>2, <3>3 DEF Copies
  <2>2. ~Overdue(h)
    <3>1. ~(due <= clock)
      BY <2>1
    <3> QED BY <2>1, <3>1 DEF SweepOK
  <2>3. ASSUME NEW at \in told PROVE at = CleanupDeadline(e) /\ at \in Nat
    <3>1. CASE at = promised[h] /\ at # Nothing
      <4>1. at = Sunset(e)
        BY <2>1, <3>1 DEF CopyOK
      <4>2. at = CleanupDeadline(e)
        BY <3>1, <4>1 DEF Sunset
      <4> QED BY <2>1, <3>1, <4>2, DeadlineOf
    <3>2. CASE e.origin = "cache" /\ CacheTtl > 0 /\ at = e.created + CacheTtl
      <4>1. Deadlines(e) = {at}
        BY <3>2 DEF Deadlines
      <4>2. CleanupDeadline(e) \in Deadlines(e) /\ CleanupDeadline(e) \in Nat
        BY <2>1, <4>1, DeadlineOf
      <4> QED BY <4>1, <4>2
    <3> QED BY <3>1, <3>2
  <2>4. ASSUME NEW at \in told PROVE clock < Max({at, e.created}) + Interval
    <3>1. at = CleanupDeadline(e) /\ at \in Nat /\ at # Nothing
      BY <2>3, Constants
    <3>2. ~(at + Interval < due /\ e.created + Interval < due)
      BY <2>1, <2>2, <3>1 DEF Overdue
    <3> DEFINE m == Max({at, e.created})
    <3>3. m = IF at >= e.created THEN at ELSE e.created
      <4>1. at \in Int /\ e.created \in Int
        BY <2>1, <3>1
      <4> QED BY <4>1, MaxOfTwo
    <3>4. m \in Nat /\ m >= at /\ m >= e.created
      BY <2>1, <3>1, <3>3
    <3> HIDE DEF m
    <3> QED BY <2>1, <3>1, <3>2, <3>4 DEF m
  <2> QED BY <2>4
<1> QED BY <1>1, HlsInvariant, PTL

\* The types of the module Intake follow.
LEMMA IntakeIsTyped == HlsInv => TypeOK
<1> SUFFICES ASSUME HlsInv PROVE TypeOK
  OBVIOUS
<1>1. Types /\ MaxClock \in Nat
  BY Constants DEF HlsInv, IntakeInv
<1>2. index \in [Blobs -> [origin : {"upload", "cache"}, created : 0..MaxClock,
                           written : 0..MaxClock, expires : Nat \cup {Nothing}]
                 \cup {Nothing}]
  <2>1. ASSUME NEW h \in Blobs, index[h] # Nothing
        PROVE  index[h] \in [origin : {"upload", "cache"}, created : 0..MaxClock,
                             written : 0..MaxClock, expires : Nat \cup {Nothing}]
    <3>1. index[h] \in Copies /\ CopyOK(h) /\ clock \in Nat /\ clock <= MaxClock
      BY <1>1, <2>1 DEF Types, HlsInv, IntakeInv
    <3>2. /\ index[h].written \in Nat /\ index[h].created \in Nat
          /\ index[h].written <= index[h].created /\ index[h].created <= clock
      BY <2>1, <3>1 DEF CopyOK, Copies
    <3>3. index[h].written \in 0..MaxClock /\ index[h].created \in 0..MaxClock
      BY <1>1, <3>1, <3>2
    <3> QED BY <3>1, <3>3 DEF Copies
  <2> QED BY <1>1, <2>1 DEF Types
<1>3. ASSUME NEW t \in Clients
      PROVE  /\ client[t].pc \in {"idle", "stream", "verify", "pay", "publish", "answer"}
             /\ client[t].req \in Offers[t] \cup {Nothing} \/ client[t].req.door = "segment"
             /\ client[t].temp => client[t].pc \in {"verify", "pay", "publish"}
             /\ taken[t] \in Nat /\ left[t] \in 0..Rounds
  <2>1. ClientOK(t) /\ client[t] \in ClientType
    BY <1>1 DEF HlsInv, IntakeInv, Types
  <2>2. client[t].req \in Offers[t] \cup {Nothing} \/ client[t].req.door = "segment"
    BY <2>1 DEF ClientOK, Sound, Turn
  <2> QED BY <1>1, <2>1, <2>2 DEF ClientOK, Sound, ClientType, Types
<1>4. sweep.step \in {"sleep", "expire", "evict"} /\ sweep.left \subseteq sweep.snapshot
  BY <1>1 DEF Types, SweepType
<1> QED BY <1>1, <1>2, <1>3, <1>4 DEF Types, TypeOK

\* A job tries each blob once and no more blobs than its limit, and never more at a
\* time than its concurrency (hls.rs mirror_hls_references), for every playlist.
THEOREM JobsAreBounded == Spec => []JobIsBounded
<1>1. HlsInv => JobIsBounded
  <2> SUFFICES ASSUME HlsInv PROVE JobIsBounded
    OBVIOUS
  <2>1. /\ job # Nothing => JobOK
        /\ attempts \in [Blobs -> 0..1] /\ Cardinality(Tried) <= MaxReferences
    BY DEF HlsInv, JobInv
  <2>2. ASSUME job # Nothing
        PROVE  /\ job.round \in 1..MaxDepth
               /\ job.all \in Seq(job.seen) /\ Len(job.all) <= RoundSize
               /\ job.next \in Seq(job.seen)
               /\ job.running \subseteq job.seen
               /\ Cardinality(job.running) <= Cardinality(Slots)
    <3>1. JobOK /\ job \in Jobs
      BY <2>1, <2>2 DEF JobOK
    <3>2. job.all \in Seq(job.seen) /\ job.next \in Seq(job.seen)
      <4>1. ASSUME NEW s \in Seq(Blobs), \A i \in DOMAIN s : s[i] \in job.seen
            PROVE  s \in Seq(job.seen)
        BY <4>1
      <4> QED BY <3>1, <4>1 DEF JobOK, Waiting, Jobs
    <3>3. Fetchers \subseteq Slots
      <4>1. ASSUME NEW t \in Fetchers PROVE t \in Slots
        <5>1. t \in Clients /\ client[t].pc # "idle" /\ client[t].req.door = "segment"
          BY DEF Fetchers, Fetching
        <5>2. Turn(t, client[t], left[t])
          BY <5>1 DEF HlsInv, IntakeInv, ClientOK
        <5> QED BY <5>1, <5>2 DEF Turn
      <4> QED BY <4>1
    <3>4. job.running \subseteq job.seen
      <4>1. ASSUME NEW t \in Fetchers PROVE client[t].req.hash \in job.seen
        <5>1. attempts[client[t].req.hash] = 1
          BY DEF HlsInv, JobInv
        <5>2. client[t].req \in Request
          BY DEF HlsInv, IntakeInv, ClientOK, Sound, Fetchers, Fetching
        <5>3. client[t].req.hash \in Tried
          BY <5>1, <5>2 DEF Tried, Request
        <5> QED BY <3>1, <5>3 DEF JobOK
      <4> QED BY <3>1, <4>1 DEF JobOK
    <3>5. Cardinality(job.running) <= Cardinality(Slots)
      <4> DEFINE f == [t \in Fetchers |-> client[t].req.hash]
                 hashes == {client[t].req.hash : t \in Fetchers}
      <4>1. IsFiniteSet(Fetchers) /\ Cardinality(Fetchers) <= Cardinality(Slots)
        BY <3>3, HlsConstants, FS_Subset
      <4>2. f \in Surjection(Fetchers, hashes)
        BY DEF Surjection
      <4>3. IsFiniteSet(hashes) /\ Cardinality(hashes) <= Cardinality(Fetchers)
        <5> HIDE DEF f, hashes
        <5> QED BY <4>1, <4>2, FS_Surjection
      <4>4. job.running = hashes
        BY <3>1 DEF JobOK
      <4>5. /\ Cardinality(hashes) \in Nat /\ Cardinality(Fetchers) \in Nat
            /\ Cardinality(Slots) \in Nat
        BY <4>1, <4>3, HlsConstants, FS_CardinalityType
      <4> HIDE DEF hashes
      <4> QED BY <4>1, <4>3, <4>4, <4>5
    <3> QED BY <3>1, <3>2, <3>4, <3>5 DEF JobOK
  <2>3. HlsTypeOK
    BY <2>2, IntakeIsTyped DEF HlsTypeOK
  <2>4. EachReferenceOnce
    BY <2>1 DEF EachReferenceOnce
  <2>5. ReferencesAreBounded
    BY <2>1 DEF ReferencesAreBounded, Tried
  <2> QED BY <2>3, <2>4, <2>5 DEF JobIsBounded
<1> QED BY <1>1, HlsInvariant, PTL

\* Only the cleanup job and a restart move the cleanup job.
LEMMA SweepMoves == ASSUME [Next]_hlsVars, sweep' # sweep PROVE SweepStep \/ Restart
<1>1. ASSUME StoreStays PROVE FALSE
  BY <1>1 DEF StoreStays, NoSweepStep
<1>2. ASSUME NoSweepStep PROVE FALSE
  BY <1>2 DEF NoSweepStep
<1>3. CASE IntakeNext
  BY <1>1, <1>3 DEF IntakeNext, Preflight, Admit, Cancel, Tick, Quarantine
<1>4. CASE ClientStep
  BY <1>1, <1>2, <1>4 DEF ClientStep, HandlerStep, Receive, Verify, Charge, Publish, Respond, Spawn
<1>5. CASE JobStep
  BY <1>1, <1>5 DEF JobStep, StartSegment, Collect, Expand, NextRound
<1>6. CASE UNCHANGED hlsVars
  BY <1>6 DEF hlsVars, vars
<1> QED BY <1>3, <1>4, <1>5, <1>6 DEF Next

\* What the cleanup job removes is due: no upload before the deadline its clients were
\* told, nothing for want of room while there is room, no upload before a cache copy
\* (utils.rs enforce_storage_limits_at, capacity_eviction_order).
THEOREM RemovalsComeInTurn == Spec => RemovalsAreDue
<1> DEFINE Early == \A h \in Blobs :
             (sweep.step = "expire" /\ index[h] # Nothing /\ index'[h] = Nothing /\ sweep' # sweep
                /\ index[h].origin = "upload")
             => promised[h] # Nothing /\ clock >= promised[h]
           Needless == (sweep.step = "evict" /\ sweep'.step = "evict" /\ index' # index
                          /\ ~interfered /\ sweep' # sweep) => ~QuotaKept
           OutOfTurn == \A h \in Blobs :
             (sweep.step = "evict" /\ sweep' # sweep /\ index[h] # Nothing /\ index'[h] = Nothing
                /\ index[h].origin = "upload")
             => \A c \in sweep.snapshot :
                  (c.copy.origin = "cache" /\ StillExpected(c)
                     /\ (c \in sweep.left \/ c.copy.created < clock))
                  => c.hash \in failed
<1>1. ASSUME HlsInv, [Next]_hlsVars, sweep' # sweep PROVE Early /\ Needless /\ OutOfTurn
  <2>1. SweepStep \/ Restart
    BY <1>1, SweepMoves
  <2>2. /\ Types /\ SweepOK /\ sweep \in SweepType /\ index \in [Blobs -> Copies \cup {Nothing}]
        /\ \A h \in Blobs : CopyOK(h)
    BY <1>1 DEF HlsInv, IntakeInv, Types
  <2>3. CASE Restart
    <3>1. ASSUME NEW h \in Blobs, index[h] # Nothing PROVE index'[h] # Nothing
      <4>1. index[h] \in Copies /\ index[h].written <= index[h].created
        BY <2>2, <3>1 DEF CopyOK
      <4>2. index'[h] = [index[h] EXCEPT !.created = index[h].written]
        BY <2>3, <3>1 DEF Restart
      <4>3. index'[h] \in Copies
        BY <4>1, <4>2, DeadlineAfterRestart
      <4> QED BY <4>3, Constants
    <3>2. sweep'.step = "sleep"
      BY <2>3 DEF Restart, Asleep
    <3> QED BY <3>1, <3>2
  <2>4. CASE Wakes \/ Count \/ Sleeps
    BY <2>4 DEF Wakes, Count, Sleeps
  <2>5. CASE Expire
    <3>1. sweep.step = "expire"
      BY <2>5 DEF Expire
    <3>2. PICK c \in sweep.left : TakesOut(c)
      BY <2>5 DEF Expire
    <3>3. ASSUME NEW h \in Blobs, index[h] # Nothing, index'[h] = Nothing, index[h].origin = "upload"
          PROVE  promised[h] # Nothing /\ clock >= promised[h]
      <4>1. StillExpected(c) /\ h = c.hash
        BY <2>2, <3>2, <3>3 DEF TakesOut
      <4>2. Deadlines(c.copy) = Deadlines(index[h])
        BY <4>1 DEF StillExpected, Deadlines
      <4>3. CleanupDeadline(c.copy) = CleanupDeadline(index[h])
        BY <4>2 DEF CleanupDeadline
      <4>4. Expired(c.copy)
        BY <2>2, <3>1, <3>2 DEF SweepOK
      <4>5. promised[h] = CleanupDeadline(index[h])
        BY <2>2, <3>3 DEF CopyOK, Sunset
      <4> QED BY <4>3, <4>4, <4>5 DEF Expired
    <3> QED BY <3>1, <3>3
  <2>6. CASE Evict
    <3>1. sweep.step = "evict" /\ ~Within(sweep.size, sweep.files)
      BY <2>6 DEF Evict
    <3>2. PICK c \in sweep.left : TakesOut(c) /\ \A d \in sweep.left : Before(c, d)
      BY <2>6 DEF Evict
    <3>3. Needless
      <4> SUFFICES ASSUME ~interfered, QuotaKept PROVE Within(sweep.size, sweep.files)
        BY <3>1
      <4>1. sweep.size <= Bytes(Stored) /\ sweep.files <= Cardinality(Stored)
        BY <2>2, <3>1 DEF SweepOK
      <4>2. /\ sweep.size \in Int /\ sweep.files \in Int /\ Bytes(Stored) \in Nat
            /\ Cardinality(Stored) \in Nat /\ MaxTotalSize \in Nat /\ MaxTotalFiles \in Nat
        BY <2>2, StoredBlobs, FS_CardinalityType, Constants DEF SweepType
      <4>3. MaxTotalSize # 0 => sweep.size <= MaxTotalSize
        <5>1. MaxTotalSize # 0 => Bytes(Stored) <= MaxTotalSize
          BY DEF QuotaKept
        <5> QED BY <4>1, <4>2, <5>1
      <4>4. MaxTotalFiles # 0 => sweep.files <= MaxTotalFiles
        <5>1. MaxTotalFiles # 0 => Cardinality(Stored) <= MaxTotalFiles
          BY DEF QuotaKept
        <5> QED BY <4>1, <4>2, <5>1
      <4> QED BY <4>3, <4>4 DEF Within
    <3>4. ASSUME NEW h \in Blobs, index[h] # Nothing, index'[h] = Nothing, index[h].origin = "upload",
                 NEW d \in sweep.snapshot, d.copy.origin = "cache", StillExpected(d),
                 d \in sweep.left \/ d.copy.created < clock
          PROVE  d.hash \in failed
      <4>1. StillExpected(c) /\ h = c.hash
        BY <2>2, <3>2, <3>4 DEF TakesOut
      <4>2. c.copy.origin = "upload"
        BY <3>4, <4>1 DEF StillExpected
      <4>3. d \notin sweep.left
        BY <3>2, <3>4, <4>2 DEF Before
      <4>4. d.copy.created # clock
        <5>1. d.copy.created < clock /\ d.copy.created \in Nat
          BY <2>2, <3>4, <4>3 DEF SweepType, Candidates, Copies
        <5> QED BY <5>1
      <4> QED BY <2>2, <3>1, <3>4, <4>3, <4>4 DEF SweepOK
    <3> QED BY <3>1, <3>3, <3>4
  <2> QED BY <2>1, <2>3, <2>4, <2>5, <2>6 DEF SweepStep
<1>2. ASSUME HlsInv, [Next]_hlsVars PROVE [Early]_vars /\ [Needless]_vars /\ [OutOfTurn]_vars
  <2>1. CASE sweep' = sweep
    BY <2>1
  <2>2. CASE sweep' # sweep
    BY <1>1, <1>2, <2>2
  <2> QED BY <2>1, <2>2
<1>3. Spec => [][Early]_vars /\ [][Needless]_vars /\ [][OutOfTurn]_vars
  <2> HIDE DEF Early, Needless, OutOfTurn
  <2>1. HlsInv /\ [Next]_hlsVars => [Early]_vars
    BY <1>2
  <2>2. HlsInv /\ [Next]_hlsVars => [Needless]_vars
    BY <1>2
  <2>3. HlsInv /\ [Next]_hlsVars => [OutOfTurn]_vars
    BY <1>2
  <2> QED BY <2>1, <2>2, <2>3, HlsInvariant, PTL DEF Spec
<1> QED BY <1>3 DEF RemovalsAreDue, NothingExpiresEarly, EvictsOnlyOverQuota, UploadsGoLast
================================================================================
