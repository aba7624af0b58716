---------------------------- MODULE TrustProofs -----------------------------
(***************************************************************************)
(* Proofs about Trust, for every set of keys, contacts, events and         *)
(* requests, every batch size and threshold and whatever the relays        *)
(* answer: nobody is trusted whom too few contacts ever followed, and a    *)
(* DVM that the relays announce is not refused (TrustIsJust).              *)
(*                                                                         *)
(* A refresh counts followers batch by batch while the lists change, so    *)
(* the invariant bounds each count by the contacts that are done and ever  *)
(* followed the key (Counted); a batch leaves the contacts still to query, *)
(* which is why nobody is counted twice.                                   *)
(***************************************************************************)
EXTENDS Trust, FiniteSetTheorems, TLAPS

WotType == [step : {"sleep", "batches"}, left : SUBSET Contacts, count : [Pubkeys -> Nat]]

\* What the relays may hold, and the history of it.
RelaysOK ==
    /\ follows \in [Lists -> SUBSET Pubkeys] /\ \A a \in Lists : follows[a] \subseteq MayFollow[a]
    /\ announced \subseteq MayAnnounce /\ relaysUp \in BOOLEAN /\ settled \in BOOLEAN
    /\ \A c \in Contacts : \A k \in follows[c] : <<c, k>> \in followed

\* The contacts in S that ever followed k.
EverBy(S, k) == {c \in S : <<c, k>> \in followed}

\* A refresh has counted a key at most once for each contact it is done with.
Counted ==
    /\ wot \in WotType
    /\ \A k \in Pubkeys : wot.count[k] <= Cardinality(EverBy(Contacts \ wot.left, k))

\* The requests whose announcement was there throughout are on the way to be
\* recognized.
OnTheWay(r) ==
    r \in steady => /\ pc[r] \in {"DvmOnly", "ask", "insert", "cleared"}
                    /\ relaysUp /\ ev[r].pubkey \in announced

RequestsOK ==
    /\ pc \in [Requests -> {"idle", "WotOnly", "DvmOnly", "ask", "insert", "cleared", "refused"}]
    /\ ev \in [Requests -> Events \cup {Nothing}]
    /\ steady \subseteq Requests
    /\ \A r \in Requests : OnTheWay(r) /\ (pc[r] = "insert" => ev[r].pubkey \in Pubkeys)

CachesOK ==
    /\ trusted \subseteq Pubkeys /\ dvms \subseteq Pubkeys
    /\ answer = Nothing \/ answer.keys \subseteq Pubkeys
    /\ TrustIsEarned

TrustInv == RelaysOK /\ Counted /\ RequestsOK /\ CachesOK

-----------------------------------------------------------------------------
(* Counting contacts.                                                       *)

\* The sets of contacts that are counted are finite.
LEMMA EverFinite ==
    ASSUME NEW S \in SUBSET Contacts, NEW k
    PROVE  /\ IsFiniteSet(EverBy(S, k)) /\ Cardinality(EverBy(S, k)) \in Nat
           /\ Cardinality(EverBy(S, k)) <= Cardinality(Contacts)
           /\ Cardinality(Contacts) \in Nat
<1>1. IsFiniteSet(Contacts)
  BY TrustAssumption DEF TrustAssumption
<1>2. EverBy(S, k) \in SUBSET Contacts
  BY DEF EverBy
<1> QED BY <1>1, <1>2, FS_Subset, FS_CardinalityType

\* A longer history and more contacts make no count smaller.
LEMMA EverGrows ==
    ASSUME NEW S \in SUBSET Contacts, NEW k, followed \subseteq followed'
    PROVE  Cardinality(EverBy(S, k)) <= Cardinality(EverBy(S, k)')
<1>1. EverBy(S, k) \in SUBSET (EverBy(S, k)')
  BY DEF EverBy
<1>2. EverBy(S, k)' \in SUBSET Contacts /\ IsFiniteSet(Contacts)
  BY TrustAssumption DEF EverBy, TrustAssumption
<1>3. IsFiniteSet(EverBy(S, k)')
  BY <1>2, FS_Subset
<1> QED BY <1>1, <1>3, FS_Subset

\* The followers found in a batch come on top of those counted before.
LEMMA BatchCounts ==
    ASSUME RelaysOK, NEW left \in SUBSET Contacts, NEW batch \in SUBSET left,
           NEW asked \in SUBSET batch, NEW k \in Pubkeys
    PROVE  /\ Cardinality({c \in asked : k \in follows[c]}) \in Nat
           /\ Cardinality(EverBy(Contacts \ left, k)) + Cardinality({c \in asked : k \in follows[c]})
                <= Cardinality(EverBy(Contacts \ (left \ batch), k))
<1> DEFINE Old == EverBy(Contacts \ left, k)
           Found == {c \in asked : k \in follows[c]}
           New == EverBy(Contacts \ (left \ batch), k)
<1>1. Found \in SUBSET New /\ Old \in SUBSET New /\ Old \cap Found = {}
  BY DEF EverBy, RelaysOK
<1>2. IsFiniteSet(New)
  BY EverFinite
<1>3. IsFiniteSet(Old) /\ IsFiniteSet(Found) /\ Cardinality(Found) \in Nat /\ Cardinality(Old) \in Nat
  BY <1>1, <1>2, FS_Subset, FS_CardinalityType
<1>4. Cardinality(Old \cup Found) = Cardinality(Old) + Cardinality(Found)
  <2> HIDE DEF Old, Found
  <2>1. Cardinality(Old \cap Found) = 0
    BY <1>1, FS_EmptySet
  <2>2. Cardinality(Old \cup Found) = Cardinality(Old) + Cardinality(Found) - Cardinality(Old \cap Found)
    BY <1>3, FS_Union
  <2> QED BY <1>3, <2>1, <2>2
<1>5. Old \cup Found \in SUBSET New
  BY <1>1
<1>6. Cardinality(Old \cup Found) <= Cardinality(New)
  BY <1>2, <1>5, FS_Subset
<1> QED BY <1>3, <1>4, <1>6

-----------------------------------------------------------------------------
(* The steps.                                                               *)

LEMMA InitTrustInv == Init => TrustInv
<1> SUFFICES ASSUME Init PROVE TrustInv
  OBVIOUS
<1>1. RelaysOK
  <2>1. ASSUME NEW c \in Contacts, NEW k \in follows[c] PROVE <<c, k>> \in followed
    <3>1. <<c, k>> \in {c} \X follows[c]
      OBVIOUS
    <3> QED BY <3>1 DEF Init
  <2> QED BY <2>1 DEF Init, RelaysOK
<1>2. Counted
  <2>1. wot \in WotType
    BY DEF Init, WotType
  <2>2. ASSUME NEW k \in Pubkeys PROVE wot.count[k] <= Cardinality(EverBy(Contacts \ wot.left, k))
    BY <2>1, EverFinite DEF Init, WotType
  <2> QED BY <2>1, <2>2 DEF Counted
<1>3. RequestsOK
  BY DEF Init, RequestsOK, OnTheWay
<1>4. CachesOK
  BY DEF Init, CachesOK, TrustIsEarned
<1> QED BY <1>1, <1>2, <1>3, <1>4 DEF TrustInv

\* What the relays do takes nobody's trust back and recognizes nobody less.
LEMMA RelaysKeepTrustInv ==
    ASSUME TrustInv,
           (\E a \in Lists : ChangeContacts(a)) \/ (\E k \in MayAnnounce : Announce(k))
             \/ RelaysChange \/ Settle
    PROVE  TrustInv'
<1>1. RelaysOK' /\ followed \subseteq followed'
  <2>1. ASSUME NEW a \in Lists, ChangeContacts(a) PROVE RelaysOK' /\ followed \subseteq followed'
    <3>0. MayFollow[a] \subseteq Pubkeys
      BY TrustAssumption DEF TrustAssumption, Lists
    <3>1. PICK list \in SUBSET MayFollow[a] :
            /\ follows' = [follows EXCEPT ![a] = list]
            /\ followed' = followed \cup (IF a \in Contacts THEN {a} \X list ELSE {})
      BY <2>1 DEF ChangeContacts
    <3>2. \A b \in Lists : follows'[b] = IF b = a THEN list ELSE follows[b]
      BY <3>1 DEF TrustInv, RelaysOK
    <3>3. follows' \in [Lists -> SUBSET Pubkeys] /\ \A b \in Lists : follows'[b] \subseteq MayFollow[b]
      BY <3>0, <3>1, <3>2 DEF TrustInv, RelaysOK
    <3>4. \A c \in Contacts : \A k \in follows'[c] : <<c, k>> \in followed'
      BY <3>1, <3>2 DEF TrustInv, RelaysOK, Lists
    <3> QED BY <2>1, <3>1, <3>3, <3>4 DEF ChangeContacts, TrustInv, RelaysOK
  <2>2. CASE \E k \in MayAnnounce : Announce(k)
    BY <2>2 DEF Announce, TrustInv, RelaysOK
  <2>3. CASE RelaysChange \/ Settle
    BY <2>3 DEF RelaysChange, Settle, TrustInv, RelaysOK
  <2> QED BY <2>1, <2>2, <2>3
<1>2. UNCHANGED <<trusted, wot, dvms, answer, pc, ev>>
  BY DEF ChangeContacts, Announce, RelaysChange, Settle
<1>3. Counted'
  <2>1. ASSUME NEW k \in Pubkeys PROVE (wot.count[k] <= Cardinality(EverBy(Contacts \ wot.left, k)))'
    <3> DEFINE done == Contacts \ wot.left
    <3>1. wot.count[k] \in Nat /\ wot.count[k] <= Cardinality(EverBy(done, k))
      BY DEF TrustInv, Counted, WotType
    <3>2. Cardinality(EverBy(done, k)) <= Cardinality(EverBy(done, k)')
      BY <1>1, <1>2, EverGrows
    <3>3. Cardinality(EverBy(done, k)) \in Nat /\ Cardinality(EverBy(done, k)') \in Nat
      BY <1>2, EverFinite, FS_CardinalityType, FS_Subset, TrustAssumption DEF EverBy, TrustAssumption
    <3> QED BY <1>2, <3>1, <3>2, <3>3
  <2> QED BY <1>2, <2>1 DEF TrustInv, Counted
<1>4. RequestsOK'
  BY <1>2 DEF ChangeContacts, Announce, RelaysChange, Settle, StillSteady, TrustInv, RequestsOK, OnTheWay
<1>5. CachesOK'
  <2>1. ASSUME NEW k \in trusted
        PROVE  Cardinality({c \in Contacts : <<c, k>> \in followed'}) > Threshold
    <3>1. Cardinality(EverBy(Contacts, k)) > Threshold
      BY DEF TrustInv, CachesOK, TrustIsEarned, EverBy
    <3>2. Cardinality(EverBy(Contacts, k)) <= Cardinality(EverBy(Contacts, k)')
      BY <1>1, EverGrows
    <3>3. Cardinality(EverBy(Contacts, k)) \in Nat /\ Cardinality(EverBy(Contacts, k)') \in Nat
      BY EverFinite, FS_CardinalityType, FS_Subset, TrustAssumption DEF EverBy, TrustAssumption
    <3>4. Threshold \in Nat
      BY TrustAssumption DEF TrustAssumption
    <3> QED BY <3>1, <3>2, <3>3, <3>4 DEF EverBy
  <2> QED BY <1>2, <2>1 DEF TrustInv, CachesOK, TrustIsEarned
<1> QED BY <1>1, <1>3, <1>4, <1>5 DEF TrustInv

\* A refresh trusts whom it has counted often enough.
LEMMA TrustJobKeepsTrustInv ==
    ASSUME TrustInv, TrustJob
    PROVE  TrustInv'
<1>0. UNCHANGED <<follows, announced, relaysUp, settled, dvms, answer, pc, ev, followed, steady>>
  BY DEF TrustJob, FetchContacts, FetchBatch, StoreTrusted, KeepAsIs, relays
<1>1. RelaysOK' /\ RequestsOK'
  BY <1>0 DEF TrustInv, RelaysOK, RequestsOK, OnTheWay
<1>2. ASSUME NEW left \in SUBSET Contacts, NEW step \in {"sleep", "batches"},
             wot' = [step |-> step, left |-> left, count |-> [k \in Pubkeys |-> 0]]
      PROVE  Counted'
  <2>1. wot' \in WotType
    BY <1>2 DEF WotType
  <2>2. ASSUME NEW k \in Pubkeys PROVE (wot.count[k] <= Cardinality(EverBy(Contacts \ wot.left, k)))'
    <3>1. wot'.count[k] = 0 /\ wot'.left = left
      BY <1>2
    <3>2. Cardinality(EverBy(Contacts \ left, k)) \in Nat
      BY EverFinite
    <3>3. EverBy(Contacts \ wot.left, k)' = EverBy(Contacts \ left, k)
      BY <1>0, <3>1 DEF EverBy
    <3> QED BY <3>1, <3>2, <3>3
  <2> QED BY <2>1, <2>2 DEF Counted
<1>3. CASE FetchContacts
  <2>1. MayFollow[Owner] \subseteq Contacts /\ Owner \in Lists
    BY TrustAssumption DEF TrustAssumption, Lists
  <2>2. follows[Owner] \subseteq Contacts
    BY <2>1 DEF TrustInv, RelaysOK
  <2>3. Counted'
    <3>1. CASE UNCHANGED wot
      BY <1>0, <3>1 DEF TrustInv, Counted, EverBy
    <3>2. CASE ~UNCHANGED wot
      BY <1>2, <1>3, <2>2, <3>2 DEF FetchContacts
    <3> QED BY <3>1, <3>2
  <2> QED BY <1>0, <1>1, <1>3, <2>3 DEF FetchContacts, TrustInv, CachesOK, TrustIsEarned
<1>4. CASE FetchBatch
  <2>1. wot \in WotType
    BY DEF TrustInv, Counted
  <2> PICK batch \in Batches(wot.left) : \E asked \in Returned(batch) :
          wot' = [wot EXCEPT !.left = @ \ batch,
                             !.count = [k \in Pubkeys |->
                                @[k] + Cardinality({c \in asked : k \in follows[c]})]]
    BY <1>4 DEF FetchBatch
  <2>2. PICK asked \in Returned(batch) :
          wot' = [wot EXCEPT !.left = @ \ batch,
                             !.count = [k \in Pubkeys |->
                                @[k] + Cardinality({c \in asked : k \in follows[c]})]]
    OBVIOUS
  <2>3. batch \in SUBSET wot.left /\ asked \in SUBSET batch /\ wot.left \in SUBSET Contacts
    BY <2>1 DEF Batches, Returned, WotType
  <2> DEFINE new == [k \in Pubkeys |-> wot.count[k] + Cardinality({c \in asked : k \in follows[c]})]
  <2>4. \A k \in Pubkeys :
          /\ Cardinality({c \in asked : k \in follows[c]}) \in Nat
          /\ Cardinality(EverBy(Contacts \ wot.left, k)) + Cardinality({c \in asked : k \in follows[c]})
               <= Cardinality(EverBy(Contacts \ (wot.left \ batch), k))
    BY <2>3, BatchCounts DEF TrustInv
  <2>5. new \in [Pubkeys -> Nat]
    BY <2>1, <2>4 DEF WotType
  <2>6. wot'.left = wot.left \ batch /\ wot'.count = new /\ wot' \in WotType
    BY <2>1, <2>2, <2>3, <2>5 DEF WotType
  <2>7. ASSUME NEW k \in Pubkeys PROVE (wot.count[k] <= Cardinality(EverBy(Contacts \ wot.left, k)))'
    <3>1. wot'.count[k] = wot.count[k] + Cardinality({c \in asked : k \in follows[c]})
      BY <2>6
    <3>2. wot.count[k] \in Nat /\ wot.count[k] <= Cardinality(EverBy(Contacts \ wot.left, k))
      BY DEF TrustInv, Counted, WotType
    <3>3. EverBy(Contacts \ wot.left, k)' = EverBy(Contacts \ (wot.left \ batch), k)
      BY <1>0, <2>6 DEF EverBy
    <3>4. /\ Cardinality(EverBy(Contacts \ wot.left, k)) \in Nat
          /\ Cardinality(EverBy(Contacts \ (wot.left \ batch), k)) \in Nat
      BY EverFinite
    <3>5. /\ Cardinality({c \in asked : k \in follows[c]}) \in Nat
          /\ Cardinality(EverBy(Contacts \ wot.left, k)) + Cardinality({c \in asked : k \in follows[c]})
               <= Cardinality(EverBy(Contacts \ (wot.left \ batch), k))
      BY <2>4
    <3> QED BY <3>1, <3>2, <3>3, <3>4, <3>5
  <2> QED BY <1>0, <1>1, <1>4, <2>6, <2>7 DEF FetchBatch, TrustInv, Counted, CachesOK, TrustIsEarned
<1>5. CASE StoreTrusted
  <2>1. Counted'
    BY <1>2, <1>5 DEF StoreTrusted
  <2>2. ASSUME NEW k \in trusted'
        PROVE  Cardinality({c \in Contacts : <<c, k>> \in followed'}) > Threshold
    <3>1. k \in Pubkeys /\ wot.count[k] > Threshold
      BY <1>5, <2>2 DEF StoreTrusted
    <3>2. wot.count[k] \in Nat /\ wot.count[k] <= Cardinality(EverBy(Contacts, k))
      <4>1. Contacts \ wot.left = Contacts
        BY <1>5 DEF StoreTrusted
      <4> QED BY <3>1, <4>1 DEF TrustInv, Counted, WotType
    <3>3. Cardinality(EverBy(Contacts, k)) \in Nat /\ Threshold \in Nat
      BY EverFinite, TrustAssumption DEF TrustAssumption
    <3>4. Cardinality(EverBy(Contacts, k)) > Threshold
      BY <3>1, <3>2, <3>3
    <3> QED BY <1>0, <3>4 DEF EverBy
  <2>3. trusted' \subseteq Pubkeys
    BY <1>5 DEF StoreTrusted
  <2> QED BY <1>0, <1>1, <2>1, <2>2, <2>3 DEF TrustInv, CachesOK, TrustIsEarned
<1> QED BY <1>3, <1>4, <1>5 DEF TrustJob

\* The DVM cache holds announced keys.
LEMMA DvmJobKeepsTrustInv ==
    ASSUME TrustInv, DvmJob
    PROVE  TrustInv'
<1>0. UNCHANGED <<follows, announced, relaysUp, settled, trusted, wot, pc, ev, followed, steady>>
  BY DEF DvmJob, FetchDvms, StoreDvms, relays
<1>1. RelaysOK' /\ RequestsOK' /\ Counted'
  BY <1>0 DEF TrustInv, RelaysOK, RequestsOK, OnTheWay, Counted, EverBy
<1>2. announced \subseteq Pubkeys
  BY TrustAssumption DEF TrustInv, RelaysOK, TrustAssumption
<1>3. CachesOK'
  BY <1>0, <1>2 DEF DvmJob, FetchDvms, StoreDvms, TrustInv, CachesOK, TrustIsEarned
<1> QED BY <1>1, <1>3 DEF TrustInv

\* A request is refused only when its signer is not announced or not reachable.
LEMMA RequestsKeepTrustInv ==
    ASSUME TrustInv, NEW r \in Requests, Request(r)
    PROVE  TrustInv'
<1>0. UNCHANGED <<follows, announced, relaysUp, settled, trusted, wot, answer, followed>>
  BY DEF Request, Authorize, CheckWot, CheckDvm, AskRelays, Insert, Return, relays
<1>1. RelaysOK' /\ Counted'
  BY <1>0 DEF TrustInv, RelaysOK, Counted, EverBy
<1>2. announced \subseteq Pubkeys
  BY TrustAssumption DEF TrustInv, RelaysOK, TrustAssumption
<1>3. RequestsOK'
  <2>1. CASE Authorize(r)
    <3> PICK op \in Operations, e \in Events :
         /\ Mode(op) # "refuse"
         /\ ev' = [ev EXCEPT ![r] = e]
         /\ pc' = [pc EXCEPT ![r] =
              IF Mode(op) = "Unrestricted" \/ e.pubkey \in AllowedPubkeys THEN "cleared"
              ELSE IF Mode(op) = "Strict" THEN "refused"
              ELSE Mode(op)]
         /\ steady' = IF Mode(op) = "DvmOnly" /\ relaysUp /\ e.pubkey \in announced
                        THEN steady \cup {r} ELSE steady
      BY <2>1 DEF Authorize
    <3>1. Mode(op) \in {"refuse", "WotOnly", "DvmOnly", "Unrestricted", "Strict"}
      BY TrustAssumption DEF TrustAssumption, Mode, ModeFor
    <3>2. pc[r] = "idle" /\ r \notin steady
      BY <2>1 DEF Authorize, TrustInv, RequestsOK, OnTheWay
    <3> HIDE DEF Mode
    <3> QED BY <1>0, <3>1, <3>2 DEF TrustInv, RequestsOK, OnTheWay
  <2>2. CASE CheckWot(r) \/ CheckDvm(r)
    BY <1>0, <2>2 DEF CheckWot, CheckDvm, TrustInv, RequestsOK, OnTheWay
  <2>3. CASE AskRelays(r)
    BY <1>0, <1>2, <2>3 DEF AskRelays, TrustInv, RequestsOK, OnTheWay
  <2>4. CASE Insert(r) \/ Return(r)
    BY <1>0, <2>4 DEF Insert, Return, Finish, TrustInv, RequestsOK, OnTheWay
  <2> QED BY <2>1, <2>2, <2>3, <2>4 DEF Request
<1>4. dvms' \subseteq Pubkeys
  BY DEF Request, Authorize, CheckWot, CheckDvm, AskRelays, Insert, Return, TrustInv, RequestsOK, CachesOK
<1>5. CachesOK'
  BY <1>0, <1>4 DEF TrustInv, CachesOK, TrustIsEarned
<1> QED BY <1>1, <1>3, <1>5 DEF TrustInv

LEMMA NextTrustInv == TrustInv /\ [Next]_vars => TrustInv'
<1> SUFFICES ASSUME TrustInv, [Next]_vars PROVE TrustInv'
  OBVIOUS
<1>1. CASE UNCHANGED vars
  BY <1>1 DEF vars, relays, TrustInv, RelaysOK, Counted, EverBy, RequestsOK, OnTheWay, CachesOK,
         TrustIsEarned
<1> QED BY <1>1, RelaysKeepTrustInv, TrustJobKeepsTrustInv, DvmJobKeepsTrustInv,
           RequestsKeepTrustInv DEF Next

\* However the lists change during a refresh and whichever queries fail, nobody
\* is trusted whom too few of the owner's contacts ever followed, and a DVM whose
\* announcement the relays held throughout is not refused (refresh_trust_network,
\* check_pubkey_authorization).
THEOREM NobodyIsTrustedUnearned == Spec => []TrustIsJust
<1>1. TrustInv => TrustIsJust
  <2> SUFFICES ASSUME TrustInv PROVE TrustIsJust
    OBVIOUS
  <2>1. wot.count \in [Pubkeys -> 0..Cardinality(Contacts)]
    <3>1. ASSUME NEW k \in Pubkeys PROVE wot.count[k] \in 0..Cardinality(Contacts)
      <4>1. wot.count[k] \in Nat /\ wot.count[k] <= Cardinality(EverBy(Contacts \ wot.left, k))
        BY DEF TrustInv, Counted, WotType
      <4>2. /\ Cardinality(EverBy(Contacts \ wot.left, k)) \in Nat /\ Cardinality(Contacts) \in Nat
            /\ Cardinality(EverBy(Contacts \ wot.left, k)) <= Cardinality(Contacts)
        BY EverFinite
      <4> QED BY <4>1, <4>2
    <3>2. wot.count \in [Pubkeys -> Nat]
      BY DEF TrustInv, Counted, WotType
    <3> QED BY <3>1, <3>2
  <2>2. TypeOK
    BY <2>1, TrustAssumption
    DEF TrustInv, RelaysOK, Counted, WotType, RequestsOK, CachesOK, TypeOK, TrustAssumption
  <2>3. AnnouncedDvmAccepted
    BY DEF TrustInv, RequestsOK, OnTheWay, AnnouncedDvmAccepted
  <2> QED BY <2>2, <2>3 DEF TrustIsJust, TrustInv, CachesOK
<1>2. Init => TrustInv
  BY InitTrustInv
<1>3. TrustInv /\ [Next]_vars => TrustInv'
  BY NextTrustInv
<1> QED BY <1>1, <1>2, <1>3, PTL DEF Spec
=============================================================================
