------------------------------- MODULE Intake -------------------------------
(***************************************************************************)
(* What enters and what leaves the store.  Four doors admit a blob: PUT    *)
(* /upload and PUT /mirror (handlers/upload.rs), the copy an upstream      *)
(* download leaves in the cache (services/download.rs), and the segments   *)
(* of a mirrored playlist (services/hls.rs).  Each has its own admission   *)
(* checks; all of them stream to a temporary file, compare the hash, may   *)
(* charge (services/cashu.rs) and end in services/intake.rs accept.  The   *)
(* cleanup job (utils.rs enforce_storage_limits) takes blobs out again at  *)
(* their deadline or to get back below the quota.                          *)
(*                                                                         *)
(* Publication and removal are single steps here: BlobStore shows that the *)
(* guard of the hash makes them so.  The clock counts seconds; a sweep is  *)
(* assumed to take less than one.                                          *)
(***************************************************************************)
EXTENDS Integers, FiniteSetsExt

CONSTANTS
    Blobs, Size,      \* contents, named by their hashes, and their sizes
    Clients,          \* handlers and background tasks that admit a blob
    Populations,      \* bound: the sets of clients that may be at work together
    Offers,           \* the requests each client may make
    Rounds,           \* bound: requests a client makes
    Tokens,           \* what each client may send unasked: a token or Nothing
    Fees,             \* what the mint may keep of a token
    Paid,             \* the doors with a feature_paid_* flag
    PriceUnit, Price, \* one MiB and cashu_price_per_mb
    MaxBlob, MaxUpstream,          \* size limits
    MaxTotalSize, MaxTotalFiles,   \* quotas, 0 disables
    Disk, MinFree,    \* the file system and min_free_disk_bytes
    MaxAge, CacheTtl, \* max_file_age_secs, max_upstream_cache_ttl_secs, 0 disables
    Interval,         \* cleanup_interval_secs
    Faults,           \* "cut", "mint", "io", "cancel", "crash", "report"
    MaxClock,         \* bound on the clock
    MaxReports,       \* bound on reports
    Nothing

Doors == {"put", "mirror", "fill", "segment"}

Request == [door : Doors, hash : Blobs, body : Blobs, length : BOOLEAN, keep : Nat]

\* An entry of the index, an offer of a price, and the ways a handler may end.
Copies == [origin : {"upload", "cache"}, created : Nat, written : Nat,
           expires : Nat \cup {Nothing}]
Quotes == [blob : Blobs, sats : Int]
Answers == {"created", "kept", "no room", "too large", "failed", "mismatch", "forbidden",
            "pay", "insufficient", "short"}

\* Only the job of HlsMirror uses the door for segments.
ASSUME IntakeAssumption ==
    /\ IsFiniteSet(Blobs) /\ Size \in [Blobs -> Nat]
    /\ Offers \in [Clients -> SUBSET Request]
    /\ \A t \in Clients : \A r \in Offers[t] : r.door # "segment"
    /\ Tokens \in [Clients -> SUBSET (Nat \cup {Nothing})] /\ Fees \subseteq Nat
    /\ Populations \subseteq SUBSET Clients
    /\ Paid \subseteq {"put", "mirror"} /\ PriceUnit \in Nat \ {0} /\ Price \in Nat
    /\ Interval \in Nat \ {0}
    /\ \A n \in {MaxBlob, MaxUpstream, MaxTotalSize, MaxTotalFiles, Disk, MinFree, MaxAge,
                 CacheTtl, MaxClock, MaxReports, Rounds} : n \in Nat
    /\ Nothing \notin Nat \cup Request \cup Copies \cup Quotes \cup Answers

VARIABLES
    index,        \* the copy stored under each hash, or Nothing
    quarantined,
    active,       \* the clients at work
    client,       \* the handler each client runs; its field "since" is history:
                  \* the bytes others stored since it was admitted
    quoted,       \* the price each client was last told, and for which blob
    left,         \* requests each client may still make
    clock, due,   \* due: when the cleanup job wakes up
    sweep,        \* the cleanup job
    \* History, read by the properties only.
    taken,        \* what the wallet received for the request of each client
    promised,     \* the deadline clients were told for each blob
    failed,       \* blobs whose removal failed
    interfered    \* somebody else removed a blob during the sweep

intake == <<client, quoted, left, taken>>
vars == <<index, quarantined, active, intake, clock, due, sweep, promised, failed, interfered>>

Idle == [pc |-> "idle", req |-> Nothing, token |-> Nothing, expires |-> Nothing,
         temp |-> FALSE, wrote |-> 0, answer |-> Nothing, since |-> 0]
Asleep == [step |-> "sleep", snapshot |-> {}, left |-> {}, size |-> 0, files |-> 0]

TypeOK ==
    /\ index \in [Blobs -> [origin : {"upload", "cache"}, created : 0..MaxClock,
                            written : 0..MaxClock, expires : Nat \cup {Nothing}]
                 \cup {Nothing}]
    /\ quarantined \subseteq Blobs
    /\ active \in Populations
    /\ \A t \in Clients :
         /\ client[t].pc \in {"idle", "stream", "verify", "pay", "publish", "answer"}
         /\ client[t].req \in Offers[t] \cup {Nothing} \/ client[t].req.door = "segment"
         /\ client[t].temp => client[t].pc \in {"verify", "pay", "publish"}
         /\ taken[t] \in Nat /\ left[t] \in 0..Rounds
    /\ clock \in 0..MaxClock /\ due \in 0..MaxClock + 1
    /\ sweep.step \in {"sleep", "expire", "evict"} /\ sweep.left \subseteq sweep.snapshot
    /\ promised \in [Blobs -> Nat \cup {Nothing}]
    /\ failed \subseteq Blobs /\ interfered \in BOOLEAN

Init ==
    /\ index = [h \in Blobs |-> Nothing]
    /\ quarantined = {}
    /\ active \in Populations
    /\ client = [t \in Clients |-> Idle]
    /\ quoted = [t \in Clients |-> Nothing]
    /\ left = [t \in Clients |-> IF t \in active THEN Rounds ELSE 0]
    /\ clock = 0 /\ due = 0 /\ sweep = Asleep
    /\ taken = [t \in Clients |-> 0]
    /\ promised = [h \in Blobs |-> Nothing]
    /\ failed = {} /\ interfered = FALSE

-----------------------------------------------------------------------------
(* Room.                                                                    *)

Stored == {h \in Blobs : index[h] # Nothing}
Bytes(S) == MapThenSumSet(LAMBDA h : Size[h], S)

Received == {t \in Clients : client[t].temp}
Available == Disk - Bytes(Stored) - Bytes(quarantined)
                  - MapThenSumSet(LAMBDA t : Size[client[t].req.body], Received)

\* Mutant: an upstream body is held to the upstream limit alone.
LimitUpstreamOnly(door) == IF door = "put" THEN MaxBlob ELSE MaxUpstream

\* resolve_limit: an upstream body is bounded by both limits.
Limit(door) == IF door = "put" THEN MaxBlob ELSE Min({MaxBlob, MaxUpstream})

\* Mutant: the body is not counted.
FitsAlready(bytes) ==
    /\ bytes <= MaxBlob
    /\ MaxTotalSize # 0 => Bytes(Stored) <= MaxTotalSize
    /\ MaxTotalFiles # 0 => Cardinality(Stored) < MaxTotalFiles
    /\ Available >= MinFree + bytes

\* ensure_storage_capacity.  Nothing is reserved.
Fits(bytes) ==
    /\ bytes <= MaxBlob
    /\ MaxTotalSize # 0 => Bytes(Stored) + bytes <= MaxTotalSize
    /\ MaxTotalFiles # 0 => Cardinality(Stored) < MaxTotalFiles
    /\ Available >= MinFree + bytes

\* The size a request declares before its body: without a Content-Length the
\* largest the door takes.
Declared(r) == IF r.length THEN Size[r.body] ELSE Limit(r.door)

\* A mirror and a cache copy are only held to the size limit.
Admits(r) == IF r.door \in {"put", "segment"} THEN Fits(Declared(r))
             ELSE Declared(r) <= Limit(r.door)

\* Mutant: the price of whole units only.
CalculatePriceDown(bytes) == Max({1, (bytes \div PriceUnit) * Price})

\* calculate_price: rounded up to the next MiB, at least one sat.
CalculatePrice(bytes) == Max({1, ((bytes + PriceUnit - 1) \div PriceUnit) * Price})

Quote(b) == [blob |-> b, sats |-> CalculatePrice(Size[b])]

-----------------------------------------------------------------------------
(* The handlers.                                                            *)

NoSweepStep == UNCHANGED <<active, clock, due, sweep, failed, interfered>>
StoreStays == UNCHANGED <<index, quarantined, promised>> /\ NoSweepStep

Moves(t, pc) == client' = [client EXCEPT ![t].pc = pc]

\* Mutant: the temporary file stays.
EndsKeepingTemp(t, answer) ==
    client' = [client EXCEPT ![t].pc = "answer", ![t].answer = answer]

\* Whatever ends a handler drops its TempBlob, which unlinks the file unless
\* it was published.
Ends(t, answer) ==
    client' = [client EXCEPT ![t].pc = "answer", ![t].answer = answer, ![t].temp = FALSE]

\* Mutant: a preflight quotes whole units only.
PreflightRoundingDown(t) ==
    /\ client[t].pc = "idle" /\ left[t] > 0 /\ "put" \in Paid
    /\ \E r \in Offers[t] :
         /\ r.door = "put" /\ Fits(Size[r.body])
         /\ quoted' = [quoted EXCEPT ![t] = [blob |-> r.body,
                                             sats |-> CalculatePriceDown(Size[r.body])]]
    /\ quoted[t] = Nothing
    /\ UNCHANGED <<client, left, taken>> /\ StoreStays

\* head_upload: the answer to a preflight is the quote, once the request would
\* be admitted.
Preflight(t) ==
    /\ client[t].pc = "idle" /\ left[t] > 0 /\ "put" \in Paid
    /\ \E r \in Offers[t] :
         /\ r.door = "put" /\ Fits(Size[r.body])
         /\ quoted' = [quoted EXCEPT ![t] = Quote(r.body)]
    /\ quoted[t] = Nothing
    /\ UNCHANGED <<client, left, taken>> /\ StoreStays

\* A client pays what it was quoted for the body, or tries its luck.
Payments(t, r) ==
    IF r.door \notin Paid THEN {Nothing}
    ELSE IF quoted[t] # Nothing /\ quoted[t].blob = r.body THEN {quoted[t].sats}
    ELSE Tokens[t]

\* upload_file and mirror_blob up to the body, the start of a cache copy, and
\* mirror_single_reference up to its stream.  Authorization is SingleUse's.
Starts(t, r, token) ==
    client' = [client EXCEPT ![t] =
                 [Idle EXCEPT !.pc = IF Admits(r) THEN "stream" ELSE "answer",
                              !.answer = IF Admits(r) THEN Nothing ELSE "no room",
                              !.req = r, !.token = token,
                              !.expires = IF r.keep = 0 THEN Nothing ELSE clock + r.keep]]

Admit(t) ==
    /\ client[t].pc = "idle" /\ left[t] > 0
    /\ \E r \in Offers[t] : \E token \in Payments(t, r) : Starts(t, r, token)
    /\ UNCHANGED <<quoted, left, taken>> /\ StoreStays

\* stream_to_temp_file and stream_response_to_temp_file: bytes are counted as
\* they come, so a body beyond the limit is refused whatever was declared.
Receive(t) ==
    /\ client[t].pc = "stream"
    /\ LET r == client[t].req IN
       \/ /\ Size[r.body] <= Limit(r.door) /\ Size[r.body] <= Available
          /\ client' = [client EXCEPT ![t].pc = "verify", ![t].temp = TRUE, ![t].wrote = clock]
       \/ /\ Size[r.body] > Limit(r.door)
          /\ Ends(t, "too large")
       \/ /\ Size[r.body] > Available \/ "cut" \in Faults
          /\ Ends(t, "failed")
    /\ UNCHANGED <<quoted, left, taken>> /\ StoreStays

\* Mutant: the hash is left to accept.
VerifyLater(t) ==
    /\ client[t].pc = "verify"
    /\ IF client[t].req.door \in {"fill", "segment"} THEN Moves(t, "publish")
       ELSE Moves(t, "pay")
    /\ UNCHANGED <<quoted, left, taken>> /\ StoreStays

\* The hash, then the quarantine: before anybody pays.
Verify(t) ==
    /\ client[t].pc = "verify"
    /\ LET r == client[t].req IN
       IF r.body # r.hash THEN Ends(t, "mismatch")
       ELSE IF r.door \in {"fill", "segment"} THEN Moves(t, "publish")
       ELSE IF r.hash \in quarantined THEN Ends(t, "forbidden")
       ELSE Moves(t, "pay")
    /\ UNCHANGED <<quoted, left, taken>> /\ StoreStays

\* Mutant: a settlement that trusts the face value of the token.
ChargeFaceValue(t) ==
    /\ client[t].pc = "pay"
    /\ LET r == client[t].req
           q == Quote(r.body)
           token == client[t].token
       IN IF r.door \in Paid /\ token = Nothing
          THEN Ends(t, "pay") /\ quoted' = [quoted EXCEPT ![t] = q] /\ UNCHANGED taken
          ELSE /\ \E fee \in Fees :
                    taken' = [taken EXCEPT ![t] =
                                @ + IF token = Nothing THEN 0 ELSE Max({0, token - fee})]
               /\ Moves(t, "publish") /\ UNCHANGED quoted
    /\ UNCHANGED left /\ StoreStays

\* charge, settle: verify_token_basics compares the face value, then the mint
\* swaps the token and what arrives may be less.
Charge(t) ==
    /\ client[t].pc = "pay"
    /\ LET r == client[t].req
           q == Quote(r.body)
           token == client[t].token
       IN \/ /\ r.door \notin Paid
             /\ Moves(t, "publish") /\ UNCHANGED <<quoted, taken>>
          \/ /\ r.door \in Paid /\ token = Nothing
             /\ Ends(t, "pay") /\ quoted' = [quoted EXCEPT ![t] = q] /\ UNCHANGED taken
          \/ /\ token # Nothing /\ token < q.sats
             /\ Ends(t, "insufficient") /\ UNCHANGED <<quoted, taken>>
          \/ /\ token # Nothing /\ token >= q.sats /\ "mint" \in Faults
             /\ Ends(t, "failed") /\ UNCHANGED <<quoted, taken>>
          \/ /\ token # Nothing /\ token >= q.sats
             /\ \E fee \in Fees :
                  LET got == Max({0, token - fee}) IN
                  /\ taken' = [taken EXCEPT ![t] = @ + got]
                  /\ IF got < q.sats
                     THEN Ends(t, "short") /\ quoted' = [quoted EXCEPT ![t] = q]
                     ELSE Moves(t, "publish") /\ UNCHANGED quoted
    /\ UNCHANGED left /\ StoreStays

-----------------------------------------------------------------------------
(* Deadlines.                                                               *)

\* cleanup_deadline: the earliest claim, Nothing when there is none.
Deadlines(e) ==
    IF e.origin = "upload"
    THEN ({e.expires} \ {Nothing}) \cup (IF MaxAge > 0 THEN {e.created + MaxAge} ELSE {})
    ELSE IF CacheTtl > 0 THEN {e.created + CacheTtl} ELSE {}

Earliest(S) == IF S = {} THEN Nothing ELSE Min(S)
CleanupDeadline(e) == Earliest(Deadlines(e))

Expired(e) == CleanupDeadline(e) # Nothing /\ clock >= CleanupDeadline(e)

\* sunset_expiration: cache copies announce none.
Sunset(e) == IF e.origin = "upload" THEN CleanupDeadline(e) ELSE Nothing

\* accept and publish_blob.  An upload replaces a cache copy; whatever else is
\* there stays, and the answer describes it.
Copy(t) ==
    [origin |-> IF client[t].req.door = "fill" THEN "cache" ELSE "upload",
     created |-> clock, written |-> client[t].wrote, expires |-> client[t].expires]

Keeps(e, new) == e # Nothing /\ (new.origin = "cache" \/ e.origin = "upload")

Stores(t, h) ==
    client' = [u \in Clients |->
                 IF u = t THEN [client[t] EXCEPT !.pc = "answer", !.answer = "created",
                                                 !.temp = FALSE]
                 ELSE IF client[u].pc = "idle" THEN client[u]
                 ELSE [client[u] EXCEPT !.since = @ + Size[h]]]

\* Mutant: a re-upload that answers with the metadata of the request.
PublishEchoing(t) ==
    /\ client[t].pc = "publish"
    /\ LET h == client[t].req.hash
           new == Copy(t)
       IN /\ index' = IF Keeps(index[h], new) THEN index ELSE [index EXCEPT ![h] = new]
          /\ promised' = [promised EXCEPT ![h] =
                            IF new.origin = "upload" THEN Sunset(new) ELSE @]
          /\ Stores(t, h)
    /\ UNCHANGED <<quoted, left, taken, quarantined>> /\ NoSweepStep

Publish(t) ==
    /\ client[t].pc = "publish"
    /\ LET h == client[t].req.hash
           new == Copy(t)
       IN \/ /\ h \in quarantined
             /\ Ends(t, "forbidden") /\ UNCHANGED <<index, promised>>
          \/ /\ h \notin quarantined /\ Keeps(index[h], new)
             /\ promised' = [promised EXCEPT ![h] =
                               IF new.origin = "upload" THEN Sunset(index[h]) ELSE @]
             /\ Ends(t, "kept") /\ UNCHANGED index
          \/ /\ h \notin quarantined /\ ~Keeps(index[h], new)
             /\ index' = [index EXCEPT ![h] = new]
             /\ promised' = [promised EXCEPT ![h] = Sunset(new)]
             /\ Stores(t, h)
          \/ /\ h \notin quarantined /\ ~Keeps(index[h], new) /\ "io" \in Faults
             /\ Ends(t, "failed") /\ UNCHANGED <<index, promised>>
    /\ UNCHANGED <<quoted, left, taken, quarantined>> /\ NoSweepStep

Forget(t) ==
    /\ client' = [client EXCEPT ![t] = Idle]
    /\ left' = [left EXCEPT ![t] = @ - 1]
    /\ taken' = [taken EXCEPT ![t] = 0]
    /\ UNCHANGED quoted

Respond(t) ==
    /\ client[t].pc = "answer" /\ client[t].req.door # "segment"
    /\ Forget(t) /\ StoreStays

\* The connection of a handler goes away; background tasks have none.
Cancel(t) ==
    /\ "cancel" \in Faults
    /\ client[t].pc \notin {"idle", "answer"} /\ client[t].req.door \in {"put", "mirror"}
    /\ Forget(t) /\ StoreStays

-----------------------------------------------------------------------------
(* The cleanup job.                                                         *)

KeepIntake == UNCHANGED <<quarantined, active, intake, clock>>

Entry(h) == [hash |-> h, copy |-> index[h]]
Entries == {Entry(h) : h \in Stored}

\* The removal of a candidate is skipped when the index has moved on.  The
\* location names the origin and the expiration.
StillExpected(c) ==
    LET e == index[c.hash] IN
    e # Nothing /\ e.origin = c.copy.origin /\ e.created = c.copy.created
                /\ e.expires = c.copy.expires

QuotaKept ==
    /\ MaxTotalSize # 0 => Bytes(Stored) <= MaxTotalSize
    /\ MaxTotalFiles # 0 => Cardinality(Stored) <= MaxTotalFiles

\* At the bound of the clock the job still wakes when there is something to do.
Wakes ==
    /\ sweep.step = "sleep" /\ (due <= clock \/ (clock = MaxClock /\ ~QuotaKept))
    /\ sweep' = [step |-> "expire", snapshot |-> Entries,
                 left |-> {c \in Entries : Expired(c.copy)}, size |-> 0, files |-> 0]
    /\ due' = Min({due + Interval, MaxClock + 1})
    /\ interfered' = FALSE
    /\ KeepIntake /\ UNCHANGED <<index, promised, failed>>

\* delete_cleanup_candidate: removed, no longer expected, or failed.
TakesOut(c) ==
    \/ /\ StillExpected(c)
       /\ index' = [index EXCEPT ![c.hash] = Nothing]
       /\ promised' = [promised EXCEPT ![c.hash] = Nothing]
       /\ failed' = failed \ {c.hash}
    \/ /\ ~StillExpected(c)
       /\ UNCHANGED <<index, promised, failed>>
    \/ /\ StillExpected(c) /\ "io" \in Faults /\ clock < MaxClock
       /\ failed' = failed \cup {c.hash}
       /\ UNCHANGED <<index, promised>>

Expire ==
    /\ sweep.step = "expire"
    /\ \E c \in sweep.left :
         /\ TakesOut(c)
         /\ sweep' = [sweep EXCEPT !.left = @ \ {c}]
    /\ KeepIntake /\ UNCHANGED <<due, interfered>>

\* The second snapshot and its totals.
Count ==
    /\ sweep.step = "expire" /\ sweep.left = {}
    /\ sweep' = [step |-> "evict", snapshot |-> Entries, left |-> Entries,
                 size |-> Bytes(Stored), files |-> Cardinality(Stored)]
    /\ interfered' = FALSE
    /\ KeepIntake /\ UNCHANGED <<index, promised, failed, due>>

\* Mutant: one quota kept is enough.
WithinEither(size, files) ==
    \/ MaxTotalSize # 0 /\ size <= MaxTotalSize
    \/ MaxTotalFiles # 0 /\ files <= MaxTotalFiles

Within(size, files) ==
    /\ MaxTotalSize # 0 => size <= MaxTotalSize
    /\ MaxTotalFiles # 0 => files <= MaxTotalFiles

\* Mutant: the oldest goes first, whatever its origin.
BeforeByAge(c, d) == c.copy.created <= d.copy.created

\* capacity_eviction_order: cache copies, then uploads, each oldest first.
Before(c, d) ==
    \/ c.copy.origin = "cache" /\ d.copy.origin = "upload"
    \/ c.copy.origin = d.copy.origin /\ c.copy.created <= d.copy.created

\* Mutant: removals are not counted down.
EvictUncounted ==
    /\ sweep.step = "evict" /\ ~Within(sweep.size, sweep.files)
    /\ \E c \in sweep.left :
         /\ \A d \in sweep.left : Before(c, d)
         /\ TakesOut(c)
         /\ sweep' = [sweep EXCEPT !.left = @ \ {c}]
    /\ KeepIntake /\ UNCHANGED <<due, interfered>>

\* What is counted down is what this sweep removed itself.
Evict ==
    /\ sweep.step = "evict" /\ ~Within(sweep.size, sweep.files)
    /\ \E c \in sweep.left :
         /\ \A d \in sweep.left : Before(c, d)
         /\ TakesOut(c)
         /\ sweep' = IF index'[c.hash] # index[c.hash]
                     THEN [sweep EXCEPT !.left = @ \ {c}, !.size = @ - Size[c.hash],
                                        !.files = @ - 1]
                     ELSE [sweep EXCEPT !.left = @ \ {c}]
    /\ KeepIntake /\ UNCHANGED <<due, interfered>>

Sleeps ==
    /\ sweep.step = "evict" /\ (sweep.left = {} \/ Within(sweep.size, sweep.files))
    /\ sweep' = Asleep
    /\ KeepIntake /\ UNCHANGED <<index, promised, failed, due, interfered>>

-----------------------------------------------------------------------------
(* The rest of the world.                                                   *)

Tick ==
    /\ clock < MaxClock /\ sweep.step = "sleep" /\ due > clock
    /\ clock' = clock + 1
    /\ UNCHANGED <<index, quarantined, active, intake, due, sweep, promised, failed, interfered>>

\* A report quarantines a stored blob (SingleUse, BlobStore).
Quarantine(h) ==
    /\ "report" \in Faults /\ index[h] # Nothing
    /\ Cardinality(quarantined) < MaxReports
    /\ index' = [index EXCEPT ![h] = Nothing]
    /\ quarantined' = quarantined \cup {h}
    /\ promised' = [promised EXCEPT ![h] = Nothing]
    /\ failed' = failed \ {h} /\ interfered' = TRUE
    /\ UNCHANGED <<active, intake, clock, due, sweep>>

\* Bound: a restart interrupts somebody and costs them a request.
Interrupted == {t \in active : client[t].pc # "idle" /\ left[t] > 0}

\* Mutant: a name that does not give its expiration back.
RestartForgetting ==
    /\ "crash" \in Faults /\ Interrupted # {}
    /\ index' = [h \in Blobs |-> IF index[h] = Nothing THEN Nothing
                                 ELSE [index[h] EXCEPT !.created = index[h].written,
                                                       !.expires = Nothing]]
    /\ client' = [t \in Clients |-> Idle]
    /\ taken' = [t \in Clients |-> 0]
    /\ left' = [t \in Clients |-> IF t \in Interrupted THEN left[t] - 1 ELSE left[t]]
    /\ due' = clock /\ sweep' = Asleep /\ interfered' = FALSE
    /\ UNCHANGED <<quarantined, active, quoted, clock, failed, promised>>

\* The process dies and is started again: temporary files are cleared, the
\* index is rebuilt from the files, whose names carry the expiration and whose
\* modification times are those of their last write.  The cleanup job's
\* interval ticks at once.
Restart ==
    /\ "crash" \in Faults /\ Interrupted # {}
    /\ index' = [h \in Blobs |-> IF index[h] = Nothing THEN Nothing
                                 ELSE [index[h] EXCEPT !.created = index[h].written]]
    /\ client' = [t \in Clients |-> Idle]
    /\ taken' = [t \in Clients |-> 0]
    /\ left' = [t \in Clients |-> IF t \in Interrupted THEN left[t] - 1 ELSE left[t]]
    /\ due' = clock /\ sweep' = Asleep /\ interfered' = FALSE
    /\ promised' = [h \in Blobs |->
                      IF promised[h] = Nothing THEN Nothing
                      ELSE Min({promised[h]}
                               \cup (IF MaxAge > 0 THEN {index[h].written + MaxAge} ELSE {}))]
    /\ UNCHANGED <<quarantined, active, quoted, clock, failed>>

-----------------------------------------------------------------------------
HandlerStep(t) == Receive(t) \/ Verify(t) \/ Charge(t) \/ Publish(t)
SweepStep == Wakes \/ Expire \/ Count \/ Evict \/ Sleeps

IntakeNext ==
    \/ \E t \in active : Preflight(t) \/ Admit(t) \/ Cancel(t)
    \/ SweepStep
    \/ Tick
    \/ \E h \in Blobs : Quarantine(h)

-----------------------------------------------------------------------------
(* Properties.                                                              *)

\* The ceiling on one blob holds for every door, whatever the other limit is
\* set to (intake.rs resolve_limit).
SizeCeiling == \A h \in Stored : Size[h] <= MaxBlob

\* The quota is compared with the index when a body is announced and nothing
\* is reserved: what is stored under that check exceeds the quota by no more
\* than what others stored while it was under way.
QuotaOvershoot ==
    \A t \in active :
      (client[t].answer = "created" /\ client[t].req.door \in {"put", "segment"}
         /\ MaxTotalSize # 0)
      => Bytes(Stored) <= MaxTotalSize + client[t].since

\* Whatever door a blob comes through, the limits on one blob and on all of them
\* hold as far as the code checks them (intake.rs, check_storage_limits).
LimitsHold == SizeCeiling /\ QuotaOvershoot

\* Money is taken for a verified body within the limits, and for nothing else:
\* a request refused for its hash, its size or for want of room was free.
ChargedForVerified ==
    \A t \in active : taken[t] > 0 =>
      LET r == client[t].req IN
      /\ r.body = r.hash /\ Size[r.body] <= Limit(r.door)
      /\ client[t].answer \notin {"mismatch", "too large", "no room"}

\* What a paid door stores was paid in full, in what the mint paid out.
PaidBeforeStored ==
    \A t \in active : (client[t].answer = "created" /\ client[t].req.door \in Paid) =>
      taken[t] >= CalculatePrice(Size[client[t].req.body])

\* Price discovery agrees with the price: a token worth what a preflight or a
\* 402 quoted for this body is never called insufficient.
QuoteIsEnough ==
    \A t \in active : client[t].answer = "insufficient" =>
      LET q == quoted[t] IN
      q = Nothing \/ q.blob # client[t].req.body \/ client[t].token < q.sats

\* Money and blobs change hands as announced (cashu.rs, handlers/upload.rs).
PaymentsAreDue == ChargedForVerified /\ PaidBeforeStored /\ QuoteIsEnough

\* When the cleanup job has run, nothing is left whose deadline had passed and
\* that was stored before, through restarts and re-uploads, unless its removal
\* failed: a blob outlives its deadline by less than one interval.
DeadlinesBound ==
    (sweep.step = "sleep" /\ due > clock) =>
      \A h \in Stored \ failed :
        LET e == index[h]
            told == ({promised[h]} \ {Nothing})
                    \cup (IF e.origin = "cache" /\ CacheTtl > 0 THEN {e.created + CacheTtl}
                          ELSE {})
        IN \A at \in told : clock < Max({at, e.created}) + Interval

\* Expiration takes an upload no earlier than every client was told.  (After a
\* restart the age counts from the last write of the file.)
NothingExpiresEarly ==
    [][\A h \in Blobs :
         (sweep.step = "expire" /\ index[h] # Nothing /\ index'[h] = Nothing /\ sweep' # sweep
            /\ index[h].origin = "upload")
         => promised[h] # Nothing /\ clock >= promised[h]]_vars

\* Capacity removes a blob only from a store that is over its quota, unless
\* somebody else removed one since the sweep counted.
EvictsOnlyOverQuota ==
    [][(sweep.step = "evict" /\ sweep'.step = "evict" /\ index' # index /\ ~interfered
          /\ sweep' # sweep)
       => ~QuotaKept]_vars

\* It never takes an upload while a cache copy that was there when it counted
\* still is, unless that copy could not be removed.  (One of the current second may
\* have been taken already and fetched again since.)
UploadsGoLast ==
    [][\A h \in Blobs :
         (sweep.step = "evict" /\ sweep' # sweep /\ index[h] # Nothing /\ index'[h] = Nothing
            /\ index[h].origin = "upload")
         => \A c \in sweep.snapshot :
              (c.copy.origin = "cache" /\ StillExpected(c)
                 /\ (c \in sweep.left \/ c.copy.created < clock))
              => c.hash \in failed]_vars

\* The cleanup job removes nothing before its time or out of turn
\* (enforce_storage_limits_at).
RemovalsAreDue == NothingExpiresEarly /\ EvictsOnlyOverQuota /\ UploadsGoLast

\* Once the intakes and the faults are over, the store is within its quota
\* for good.
QuotaRestored == <>[]QuotaKept

\* how-it-works.md: the reserve of free disk is an admission limit that
\* applies before anything is stored.
ReserveIsKept ==
    \A t \in active :
      (client[t].answer = "created" /\ \A u \in active \ {t} : client[u].pc = "idle")
      => Available >= MinFree \/ client[t].since > 0

\* mirror_blob: a failed mirror cannot redeem a token.
FailedMirrorIsFree ==
    \A t \in active :
      (client[t].req # Nothing /\ client[t].req.door = "mirror"
         /\ client[t].answer \notin {Nothing, "created", "kept"}) => taken[t] = 0

\* how-it-works.md: capacity evicts above the quota.
EvictsOnlyAboveQuota ==
    [][(sweep.step = "evict" /\ sweep'.step = "evict" /\ index' # index /\ sweep' # sweep)
       => ~QuotaKept]_vars
=============================================================================
