------------------------------- MODULE Trust --------------------------------
(***************************************************************************)
(* Who may upload: the web of trust and the cache of announced DVMs        *)
(* (trust_network.rs), the jobs that refresh them (lib.rs) and the         *)
(* authorization of an upload, mirror or chunk upload against them         *)
(* (services/authorization.rs, services/auth.rs).                          *)
(*                                                                         *)
(* The relays are the environment: contact lists and announcements change  *)
(* at any time, and while relaysUp is FALSE a query may fail or return     *)
(* less than there is.  Every query is answered from one moment, but the   *)
(* queries of one refresh are answered at different moments.               *)
(***************************************************************************)
EXTENDS AuthEvents, FiniteSets

CONSTANTS
    Pubkeys,
    Owner,          \* the first of ALLOWED_NPUBS, whose contacts are followed
    Contacts,       \* the keys that publish contact lists
    MayFollow,      \* bound: the keys that may be in each list
    MayAnnounce,    \* bound: the keys that may announce a DVM
    Events,         \* the events that clients may present
    Requests,
    Nothing,
    UploadMode,     \* feature_upload_enabled
    MirrorMode,     \* feature_mirror_enabled
    BatchSize,      \* contacts queried at once (50)
    Threshold       \* contacts that must follow a key, less one (3)

ASSUME TrustAssumption ==
    /\ Contacts \subseteq Pubkeys /\ IsFiniteSet(Contacts)
    /\ Owner \in AllowedPubkeys
    /\ MayFollow \in [Contacts \cup {Owner} -> SUBSET Pubkeys]
    /\ MayFollow[Owner] \subseteq Contacts
    /\ MayAnnounce \subseteq Pubkeys
    /\ Nothing \notin Events
    /\ {UploadMode, MirrorMode} \subseteq {"off", "wot", "dvm", "public"}
    /\ BatchSize \in Nat \ {0} /\ Threshold \in Nat

VARIABLES
    follows,     \* the contact list of each key, as the relays hold it
    announced,   \* the keys with a DVM announcement for an allowed kind
    relaysUp,
    settled,     \* from when on the relays answer and hold the same events
    trusted,     \* trusted_pubkeys
    wot,         \* the trust refresh: step, contacts still to query, followers
    dvms,        \* dvm_pubkeys
    answer,      \* the DVM refresh's answer before it is stored, or Nothing
    pc, ev,      \* each request's step and event
    \* History, read by the properties only.
    followed,    \* the pairs of contact and key that were ever in a list
    steady       \* requests whose signer was announced and reachable throughout

relays == <<follows, announced, relaysUp, settled>>
vars == <<relays, trusted, wot, dvms, answer, pc, ev, followed, steady>>

Lists == {Owner} \cup Contacts
RequiresWot == "wot" \in {UploadMode, MirrorMode}
RequiresDvm == "dvm" \in {UploadMode, MirrorMode}

-----------------------------------------------------------------------------
Init ==
    /\ follows \in [Lists -> SUBSET Pubkeys]
    /\ \A a \in Lists : follows[a] \subseteq MayFollow[a]
    /\ announced \in SUBSET MayAnnounce
    /\ relaysUp = TRUE
    /\ settled = FALSE
    /\ trusted = {} /\ dvms = {}
    /\ wot = [step |-> "sleep", left |-> {}, count |-> [k \in Pubkeys |-> 0]]
    /\ answer = Nothing
    /\ pc = [r \in Requests |-> "idle"]
    /\ ev = [r \in Requests |-> Nothing]
    /\ followed = UNION {{c} \X follows[c] : c \in Contacts}
    /\ steady = {}

(* The relays. *)

ChangeContacts(a) ==
    /\ ~settled
    /\ \E list \in SUBSET MayFollow[a] :
         /\ list # follows[a]
         /\ follows' = [follows EXCEPT ![a] = list]
         /\ followed' = followed \cup (IF a \in Contacts THEN {a} \X list ELSE {})
    /\ UNCHANGED <<announced, relaysUp, settled, trusted, wot, dvms, answer, pc, ev, steady>>

\* The requests that keep their claim to be recognized when only keys are
\* announced and the relays may be down.
StillSteady(keys, up) == {r \in steady : up /\ ev[r].pubkey \in keys}

Announce(k) ==
    /\ ~settled
    /\ announced' = IF k \in announced THEN announced \ {k} ELSE announced \cup {k}
    /\ steady' = StillSteady(announced', relaysUp)
    /\ UNCHANGED <<follows, relaysUp, settled, trusted, wot, dvms, answer, pc, ev, followed>>

RelaysChange ==
    /\ ~settled
    /\ relaysUp' = ~relaysUp
    /\ steady' = StillSteady(announced, relaysUp')
    /\ UNCHANGED <<follows, announced, settled, trusted, wot, dvms, answer, pc, ev, followed>>

\* The relays recover and nobody changes anything from now on.
Settle ==
    /\ ~settled /\ relaysUp
    /\ settled' = TRUE
    /\ UNCHANGED <<follows, announced, relaysUp, trusted, wot, dvms, answer, pc, ev, followed,
                   steady>>

-----------------------------------------------------------------------------
(* refresh_trust_network, run by start_trust_network_refresh_job.           *)

KeepAsIs == UNCHANGED <<relays, dvms, answer, pc, ev, followed, steady>>

\* The owner's contacts, or nothing when the relays do not hold the list.  An
\* error ends the refresh and the set stays as it was.
FetchContacts ==
    /\ RequiresWot
    /\ wot.step = "sleep"
    /\ \/ /\ \E contacts \in {follows[Owner]} \cup (IF relaysUp THEN {} ELSE {{}}) :
               wot' = [step |-> "batches", left |-> contacts,
                       count |-> [k \in Pubkeys |-> 0]]
       \/ ~relaysUp /\ UNCHANGED wot
    /\ UNCHANGED trusted /\ KeepAsIs

\* The lists of the contacts asked that the relays return.
Returned(batch) ==
    IF relaysUp THEN {batch} ELSE SUBSET batch

\* chunks: full batches, and what is left when that is less.
Batches(left) ==
    IF Cardinality(left) <= BatchSize THEN {left}
    ELSE {batch \in SUBSET left : Cardinality(batch) = BatchSize}

\* Mutant: the batch is left among the contacts still to query.
FetchBatchAgain ==
    /\ wot.step = "batches" /\ wot.left # {}
    /\ \E batch \in Batches(wot.left) :
         \E asked \in Returned(batch) :
            wot' = [wot EXCEPT !.count = [k \in Pubkeys |->
                                  @[k] + Cardinality({c \in asked : k \in follows[c]})]]
    /\ UNCHANGED trusted /\ KeepAsIs

\* One batch of contact lists.  A failed query is skipped, its contacts are
\* counted for nobody.
FetchBatch ==
    /\ wot.step = "batches" /\ wot.left # {}
    /\ \E batch \in Batches(wot.left) :
         \E asked \in Returned(batch) :
            wot' = [wot EXCEPT !.left = @ \ batch,
                               !.count = [k \in Pubkeys |->
                                  @[k] + Cardinality({c \in asked : k \in follows[c]})]]
    /\ UNCHANGED trusted /\ KeepAsIs

\* Mutant: a key needs one contact less.
StoreTrustedAtLeast ==
    /\ wot.step = "batches" /\ wot.left = {}
    /\ trusted' = {k \in Pubkeys : wot.count[k] >= Threshold}
    /\ wot' = [step |-> "sleep", left |-> {}, count |-> [k \in Pubkeys |-> 0]]
    /\ KeepAsIs

\* Mutant: the new keys are added to the old ones.
StoreTrustedAdding ==
    /\ wot.step = "batches" /\ wot.left = {}
    /\ trusted' = trusted \cup {k \in Pubkeys : wot.count[k] > Threshold}
    /\ wot' = [step |-> "sleep", left |-> {}, count |-> [k \in Pubkeys |-> 0]]
    /\ KeepAsIs

\* The result replaces the whole set.
StoreTrusted ==
    /\ wot.step = "batches" /\ wot.left = {}
    /\ trusted' = {k \in Pubkeys : wot.count[k] > Threshold}
    /\ wot' = [step |-> "sleep", left |-> {}, count |-> [k \in Pubkeys |-> 0]]
    /\ KeepAsIs

TrustJob == FetchContacts \/ FetchBatch \/ StoreTrusted

-----------------------------------------------------------------------------
(* refresh_dvm_pubkeys, run by start_dvm_refresh_job.                       *)

\* An error keeps the cache as it was.
FetchDvms ==
    /\ RequiresDvm
    /\ answer = Nothing
    /\ \/ \E keys \in IF relaysUp THEN {announced} ELSE SUBSET announced :
            answer' = [keys |-> keys]
       \/ ~relaysUp /\ UNCHANGED answer
    /\ UNCHANGED <<relays, trusted, wot, dvms, pc, ev, followed, steady>>

\* Mutant: the answer is merged into the cache.
StoreDvmsMerging ==
    /\ answer # Nothing
    /\ dvms' = dvms \cup answer.keys
    /\ answer' = Nothing
    /\ UNCHANGED <<relays, trusted, wot, pc, ev, followed, steady>>

StoreDvms ==
    /\ answer # Nothing
    /\ dvms' = answer.keys
    /\ answer' = Nothing
    /\ UNCHANGED <<relays, trusted, wot, pc, ev, followed, steady>>

DvmJob == FetchDvms \/ StoreDvms

-----------------------------------------------------------------------------
(* authorize for uploads.                                                   *)

Operations == {"Upload", "Mirror", "ChunkUpload"}

\* Operation::feature and mode_for
Mode(op) == ModeFor(IF op = "Mirror" THEN MirrorMode ELSE UploadMode)

Finish(r) ==
    /\ pc' = [pc EXCEPT ![r] = "idle"]
    /\ ev' = [ev EXCEPT ![r] = Nothing]
    /\ steady' = steady \ {r}

\* A request of a feature that is on, with a valid event.  What it does next
\* depends on the mode; the whitelist comes first in every mode.
Authorize(r) ==
    /\ pc[r] = "idle"
    /\ \E op \in Operations, e \in Events :
         /\ Mode(op) # "refuse"
         /\ e.kind = "auth"
         /\ VerifiedWithPolicy(e, e.created)
         /\ ev' = [ev EXCEPT ![r] = e]
         /\ pc' = [pc EXCEPT ![r] =
              IF Mode(op) = "Unrestricted" \/ e.pubkey \in AllowedPubkeys THEN "cleared"
              ELSE IF Mode(op) = "Strict" THEN "refused"
              ELSE Mode(op)]
         /\ steady' = IF Mode(op) = "DvmOnly" /\ relaysUp /\ e.pubkey \in announced
                        THEN steady \cup {r} ELSE steady
    /\ UNCHANGED <<relays, trusted, wot, dvms, answer, followed>>

\* The web of trust is read under its lock.
CheckWot(r) ==
    /\ pc[r] = "WotOnly"
    /\ pc' = [pc EXCEPT ![r] = IF ev[r].pubkey \in trusted THEN "cleared" ELSE "refused"]
    /\ UNCHANGED <<relays, trusted, wot, dvms, answer, ev, followed, steady>>

\* Mutant: only the cache is consulted.
CheckDvmCacheOnly(r) ==
    /\ pc[r] = "DvmOnly"
    /\ pc' = [pc EXCEPT ![r] = IF ev[r].pubkey \in dvms THEN "cleared" ELSE "refused"]
    /\ UNCHANGED <<relays, trusted, wot, dvms, answer, ev, followed, steady>>

\* A key in the cache is cleared, any other one is looked up live.
CheckDvm(r) ==
    /\ pc[r] = "DvmOnly"
    /\ pc' = [pc EXCEPT ![r] = IF ev[r].pubkey \in dvms THEN "cleared" ELSE "ask"]
    /\ UNCHANGED <<relays, trusted, wot, dvms, answer, ev, followed, steady>>

\* check_dvm_announcement; an error refuses the request.
AskRelays(r) ==
    /\ pc[r] = "ask"
    /\ pc' \in {[pc EXCEPT ![r] = IF ev[r].pubkey \in announced THEN "insert" ELSE "refused"]}
               \cup (IF relaysUp THEN {} ELSE {[pc EXCEPT ![r] = "refused"]})
    /\ UNCHANGED <<relays, trusted, wot, dvms, answer, ev, followed, steady>>

\* The positive answer enters the cache, whatever has been refreshed meanwhile.
Insert(r) ==
    /\ pc[r] = "insert"
    /\ dvms' = dvms \cup {ev[r].pubkey}
    /\ pc' = [pc EXCEPT ![r] = "cleared"]
    /\ UNCHANGED <<relays, trusted, wot, answer, ev, followed, steady>>

Return(r) ==
    /\ pc[r] \in {"cleared", "refused"}
    /\ Finish(r)
    /\ UNCHANGED <<relays, trusted, wot, dvms, answer, followed>>

Request(r) ==
    Authorize(r) \/ CheckWot(r) \/ CheckDvm(r) \/ AskRelays(r) \/ Insert(r) \/ Return(r)

Next ==
    \/ \E a \in Lists : ChangeContacts(a)
    \/ \E k \in MayAnnounce : Announce(k)
    \/ RelaysChange \/ Settle
    \/ TrustJob \/ DvmJob
    \/ \E r \in Requests : Request(r)

Spec == Init /\ [][Next]_vars

\* The jobs' intervals keep ticking and every query has a timeout; a request
\* that has begun is answered.
Fairness ==
    /\ WF_vars(TrustJob) /\ WF_vars(DvmJob)
    /\ \A r \in Requests : WF_vars(pc[r] # "idle" /\ Request(r))

FairSpec == Spec /\ Fairness

-----------------------------------------------------------------------------
(* Properties.                                                              *)

\* The keys that more than Threshold of the owner's contacts follow.
Earned == {k \in Pubkeys :
             Cardinality({c \in follows[Owner] : k \in follows[c]}) > Threshold}

\* Every variable holds a value of the kind its Rust type allows.
TypeOK ==
    /\ follows \in [Lists -> SUBSET Pubkeys]
    /\ announced \subseteq Pubkeys /\ relaysUp \in BOOLEAN /\ settled \in BOOLEAN
    /\ trusted \subseteq Pubkeys /\ dvms \subseteq Pubkeys
    /\ wot.step \in {"sleep", "batches"} /\ wot.left \subseteq Contacts
    /\ wot.count \in [Pubkeys -> 0..Cardinality(Contacts)]
    /\ answer = Nothing \/ answer.keys \subseteq Pubkeys
    /\ pc \in [Requests -> {"idle", "WotOnly", "DvmOnly", "ask", "insert", "cleared", "refused"}]
    /\ ev \in [Requests -> Events \cup {Nothing}]
    /\ steady \subseteq Requests

\* However the lists change during a refresh and whichever queries fail, nobody
\* is trusted whom too few of the contacts ever followed.
TrustIsEarned ==
    \A k \in trusted : Cardinality({c \in Contacts : <<c, k>> \in followed}) > Threshold

\* A DVM whose announcement the relays held and served while its request lasted
\* is recognized, however stale the cache is.
AnnouncedDvmAccepted == \A r \in steady : pc[r] # "refused"

\* Neither cache makes the authorization of an upload accept whom it should not
\* or refuse whom it should not (check_pubkey_authorization).
TrustIsJust == TypeOK /\ TrustIsEarned /\ AnnouncedDvmAccepted

\* Once relays, lists and announcements stay as they are, the trusted keys are
\* those the lists make, and no key is kept that no longer belongs to them.
TrustConverges ==
    <>[]settled => <>[](trusted = Earned)

\* Likewise the cached DVMs, although an answer of a live check may be inserted
\* after the refresh that already missed it.
DvmsConverge ==
    <>[]settled => <>[](dvms = announced)

\* Both refresh jobs end in what the relays hold (start_trust_network_refresh_job,
\* start_dvm_refresh_job).
CachesConverge == TrustConverges /\ DvmsConverge
=============================================================================
