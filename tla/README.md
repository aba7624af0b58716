# Almond: a verification project in TLA+

Almond is a Blossom media server. It stores content-addressed blobs on the local
filesystem or in an S3 bucket, has no database, and fetches and caches blobs from
other servers. This directory holds TLA+ modules of the parts of Almond where
several tasks meet, the TLC configurations that check them on small instances, and
theorems about storage, intake, playlists, resumable uploads, upstream fetching,
trust and single use that TLAPS checks for every size. `PROJECT.json` maps
every definition to source lines and lists runs, mutants and hazards.

## Inventory

| Component | State | Operations | Meets | Modules |
|---|---|---|---|---|
| Blob storage and index (`services/file_storage.rs`, `services/blob_index.rs`, `services/intake.rs`) | index, files below `uploads/`, `upstream-cache/`, `quarantine/`, per-hash guards, `superseded_blob_deletions` | publish, discover, delete, quarantine, evict, reconcile, page | every handler and the cleanup job, through the guard of a hash | `BlobStore`, `BlobService`, `Catalogue`, `Intake` |
| Native S3 storage (`services/native_storage.rs`) | bucket, `S3Status` | put, find, delete, delete_matching, list, sync_index | storage; the recovery job writes the index without a guard | `BlobStore`, `Serving` |
| Startup (`lib.rs`, `utils.rs`) | none | migrate, scan the roots, list the bucket | rebuilds the index from what a crash left | `BlobStore`, `Intake` |
| Retention cleanup (`utils.rs`) | snapshots of the index | reconcile, expire, evict over capacity, remove empty directories | races publications and deletions | `Intake`, `BlobStore` |
| Uploads, mirrors (`handlers/upload.rs`, `services/upload.rs`) | temporary files | preflight, admit, receive, verify, charge, publish | quota, Cashu, publication | `Intake` |
| Resumable uploads (`handlers/upload.rs`, `services/chunk_sessions.rs`) | sessions, reservations, chunk files | PATCH: reserve, stream, commit, charge, restore, rebuild | chunk cleanup, Cashu, publication | `ChunkUpload` |
| Chunk cleanup (`utils.rs`) | none | evict sessions, scan chunk files by age | races PATCH requests | `ChunkUpload` |
| HLS mirroring (`services/hls.rs`) | a job per mirrored playlist | rounds of concurrent fetches | admission, cleanup job | `HlsMirror` |
| Cashu (`services/cashu.rs`) | wallet, mint elsewhere | quote, settle | uploads, mirrors, downloads | `Intake` |
| Upstream fetch (`handlers/upstream.rs`, `services/download.rs`, `services/tail.rs`) | `upstream_negotiations`, `ongoing_downloads`, temporary files, progress channels | claim, wait, prepare, stream, tail, publish, drop guards | requests for one hash share one download | `UpstreamFetch` |
| Redirect mode (`handlers/upstream.rs`) | as above | HEAD, redirect, background download | the same maps | `UpstreamFetch` |
| Upstream candidates (`services/upstream_candidates.rs`, `services/blossom_servers.rs`, the URL check of `services/upload.rs`) | cached server lists | plan, walk, fetch an author's list | relays, file serving | `UpstreamWalk` |
| File serving (`handlers/file_serving.rs`) | `failed_upstream_lookups` | resolve a blob, ranges, conditions, record a miss | index, bucket, served directory, upstream | `Serving`, `UpstreamWalk` |
| Served directory (`services/serve_files.rs`) | `serve_file_index` | scan, hash, swap | changes of files, lookups | `Serving` |
| Listing, filter (`handlers/list.rs`, `handlers/filter.rs`) | `filter_cache` | page, render | a changing index | `Catalogue` |
| Authorization (`services/auth.rs`, `services/authorization.rs`) | replay set | validate, bind, consume once | every write | `AuthEvents`, `SingleUse`, `Trust` |
| Delete and report (`handlers/delete.rs`, `handlers/report.rs`) | report records | authorize, record, remove or quarantine | replay set, storage | `SingleUse` |
| Trust network (`trust_network.rs`) | trusted keys, known DVMs | refresh, live check | relays, authorization | `Trust` |
| Configuration, TLS, metrics, middleware, command line tools | none of interest here | set-up and presentation | | |

The hard behaviours: all tasks share one index and one disk; a request's future can
be dropped at any await (60 second `TimeoutLayer`, client gone) while operations
handed to the blocking pool or to S3 still take effect; the process may die between
any two file operations and has to recover from file names alone; clean-up and
filters work on stale snapshots; leaders and followers of a download die
independently; caches outlive what they were filled from; nothing that is checked
before a body arrives is reserved.

What makes each part correct:

- storage: index and bytes agree, one copy per hash, uploads beat cached copies,
  quarantined hashes stay out, removals hit what they selected, guards are exact; to
  its callers every operation is atomic;
- intake and retention: limits and prices hold for every door, what is overdue or
  over quota goes, nothing goes early or out of turn;
- resumable uploads: reservations and files are accounted for, limits hold, a
  completed upload is gapless, abandoned data goes;
- playlists: a job is bounded whatever they reference;
- upstream fetch: nobody waits for a leader or download that is gone, a stream that
  ends cleanly is whole, failed downloads leave nothing;
- candidates and serving: every server is asked once and in order, ranges and resumed
  downloads are exact, no cached miss, list or failed scan hides a blob for ever;
- catalogue: pages and filters show the index as it is;
- authorization: a destructive event is used once, an audit record precedes what it
  audits, nobody is trusted without enough followers.

## Modules

| Module | State and actions |
|---|---|
| `BlobStore` | `index`, `files`, `quarantined`, `lock`; per task `pc`, `req`, `cur`; one action per stretch of code between awaits |
| `BlobService` | what storage promises: `status` of each hash, one pending operation per task; `Call`, `Act`, `Return` |
| `BlobStoreProofs` | theorems about `BlobStore`, and that it implements `BlobService` |
| `ChunkUpload` | `uploads`, `pending` as in `SessionState`, `disk` (age of each chunk file), per request step and locals |
| `ChunkUploadProofs` | theorems about `ChunkUpload` |
| `UpstreamFetch` | `ongoing`, `negotiating` (the maps, for one hash), `redirects` (the mode), `hs` (handle and its download task), `rq` (requests), `reaped` (removals spawned by dropped guards) |
| `UpstreamFetchProofs` | theorems about `UpstreamFetch` |
| `AuthEvents` | the grammar of signed events and the modes of features: pure operators that `SingleUse` and `Trust` extend |
| `SingleUse` | `replays` (the replay set), the queue for its lock, `record` (audit records), per request the step of DELETE or PUT /report |
| `SingleUseProofs` | theorems about `SingleUse` |
| `Trust` | `trusted`, `dvms` (the caches), `wot` (a refresh batch by batch), `follows`, `announced`, `relaysUp` (the relays), per request the step of a check |
| `TrustProofs` | theorems about `Trust` |
| `Catalogue` | `map`, `order`, `total`, `generation` (the index), walks with their cursors, `cache` and `writer` (the filter cache and its lock) |
| `CatalogueProofs` | theorems about `Catalogue` |
| `Intake` | `index` with origins, creation times and deadlines, `client` (a handler's step and request), `sweep` (the cleanup job), `taken` and `quoted` (money) |
| `HlsMirror` | `Intake` with `job`: references of the round, those seen, those running, those of the next round |
| `HlsMirrorProofs` | theorems about `Intake` and `HlsMirror` |
| `UpstreamWalk` | `missed`, `cached` (misses, server lists), `rq` (plan, pending servers, servers asked), `lists`, `holds` (relays and servers) |
| `Serving` | `UpstreamWalk` with `stored`, `dir`, `served`, `scan` (the blob here, the served directory, its index, a scan), and each client's headers, answer and bytes |
| `ServingProofs` | theorems about `UpstreamWalk` and `Serving` |
| `MC...` | instances for TLC: symmetry sets, named fault sets, small worlds |

Composition. `Intake` and `SingleUse` take publication and removal of a blob as one
step; that is what `BlobService` promises and what `BlobStore` is shown to implement.
`HlsMirror` extends `Intake`: its fetches come in through a door of `Intake` beside the
other clients. `Serving` extends `UpstreamWalk`: a request that finds nothing here goes
on as a walk. What a walk does with the server that answers is `UpstreamFetch`.

Conventions. A step ends where the code awaits and something shared may change.
`Faults` is a constant: what the environment does to the code is chosen per run, and
every fault is described in the module header. Operators marked `Mutant:` are not
part of a specification; each is a plausible bug that a property must detect. Where a
property is a conjunction of named parts, `PROJECT.json` lists a mutant of the whole
and the module has one for the parts. History variables are read by properties only.

`BlobStore`. A blob's bytes follow from its hash, so a copy is a location: a tier and
a name variant (the retention suffix and extension; two variants give two paths).
`publish_blob` is `CheckPublication`, `ClearTarget`, `Rename` (or `Put`),
`PublishMetadata`, `RemoveDisplaced`; `remove_indexed_blob` is `ReadCurrent`, `Unlink`
or `Quarantine`, `Sweep`, `Unindex`; the cleanup job is `TakeSuperseded`, `NextItem`,
`NextPass` and runs the same removal steps as a task; `Restart` is a crash followed by
the whole of `build_state`. Which entries are expired or over capacity is left open
here: any subset of the snapshot may be evicted. `Cancel` drops a request and puts what
it had outstanding into `detached`, from where it may run at any later time. A rename
may always fail, since `cleanup_empty_dirs` can remove the still empty directory.

`BlobService`. A hash is absent, cached, uploaded or barred. The refinement mapping
reads `status` off disk, index and quarantine (`Held`, `Under` in `BlobStore`): while
the guard is held, what counts is where the holder is.

`ChunkUpload`. Time is the age of sessions and files in ticks, capped just beyond the
timeout. File names are fresh UUIDs, so a name is reused only when nothing knows it.
An unlink that fails is ignored by the code; the model has no such failures.

`UpstreamFetch`. Bodies are counted in blocks, ranges ask for all blocks from a start
that exists. Arc'd negotiations and handles are identities that are reused once
nothing refers to them. The published path is known to followers exactly when the
phase is `Complete`. Background tasks of redirect mode keep the slot of the request
that started them, which bounds them. Malformed and unsatisfiable ranges, and a
cached blob that was uploaded to S3 meanwhile, are not modelled here.

`SingleUse`. `Verify...` reads the clock, `Consume` sweeps the set and inserts, in the
order of a fair RwLock; a report goes through `pending`, removals one by one and its
last record. A record being written when the process dies is truncated.

`Trust`. A refresh takes the owner's list, then batches of contacts, each answered at
its own moment; a batch that fails is left out, as in the code. A live check inserts
its answer in a step of its own, after which a refresh may have replaced the cache.

`Catalogue`. Hashes are numbers, since entries of one second are ordered by hash. A page
is the set of its entries, which `Before` puts in order; the client's next cursor is the
last of them. `mark` remembers the time the cursor had when the client received it, and
`sunk` the walks that went on from a cursor that had come back with an older time: it is
then further down the list, and what lies between is passed over. A cursor that comes back
newer is no excuse. A filter is the set of its hashes and its rate. `generation` bounds
the run.

`Intake`. Sizes are small numbers, one mebibyte is `PriceUnit` of them. A client's
request is one of `Offers`: door, claimed hash, body, whether its length is announced,
how long to keep it. A body may be cut, the mint may refuse or keep a fee, the move of
the file may fail, the request may be dropped, the process may restart.

`UpstreamWalk` and `Serving`. One hash. A server is scheme, host and trailing slash.
`Allowed` is the check of a URL (`resolve_public_target`): https anywhere, http only to
`OverlayHosts`, the `.fips` names, and in either case only to `PublicHosts`, whose
addresses are public or, for a `.fips` name, in the overlay. A hint without a scheme
stands for both URLs, so that of an ordinary host the second is skipped. A name that
cannot be resolved while the network is down is skipped without being tried
(`Unresolved`), and the walk is then not `whole`. Instants are ages that stop at expiry.
The blob is a sequence of two bytes; clients resume with `Range` and `If-Range`, or probe
with any combination of headers. Where a bucket is configured it may be unavailable, or a
request to it may fail, at the lookup, at the publication of what it found and when the
bytes are to be read (`BucketFails`): the request then fails, the served directory and
the upstream servers are not tried, and a download goes on from what it has.

## Runs

| Run | Question | Bounds | Properties |
|---|---|---|---|
| `store_local` | do index, disk and quarantine agree under concurrency and crashes, filesystem only, and is every operation atomic to its callers? | 1 hash, 2 names, 3 requests and the cleaner, clock 0..1 | `TypeOK`, `IndexedHasBytes`, `NoOrphans`, `QuarantineIsFinal`, `GuardSpansRemoval`, `ImplementsService` |
| `store_io` | what if file operations fail? | 2 names, 2 requests, clock 0..1 | `LeftoversAreQueued` |
| `store_s3` | a bucket whose requests fail, with or without effect | 2 names, 2 requests, clock 0..1 | `DeleteIsComplete`, `PublishedStaysIndexed` |
| `store_outage` | a bucket that is down at startup, dropped requests, fairness | 1 name, 1 request and the cleaner | `GuardExact`, `UploadNotReplacedByCache`, `EveryTaskReturns`, `BucketRecovers` |
| `chunk_patch` | accounting of reservations, chunks and files with failures and unpaid uploads | 1 key, lengths 1 and 2, 2 requests, 3 files | `ReservationsAreHeld`, `ClaimCovers`, `FilesAccounted` |
| `chunk_orphans` | session limit, abandoned sessions and files of dropped requests, fairness | 2 owners, 1 session, 2 files | `CapacityRespected`, `AbandonedDataGoes` |
| `fetch_faults` | coalescing and redirecting under every fault, fairness | 2 requests, 2 blocks, 2 handles, both modes | `NobodyIsStranded`, `CleanEndIsWhole`, `FinishedLeavesNoTemp`, `RunningStaysAttachable`, `RequestsDrain` |
| `single_use` | are destructive events used once, and audited? | 4 events, 2 hashes, 2 requests, clock 0..2, every fault | `UsedOnce`, `ReportsAreTraceable` |
| `trust` | do the caches of trust hold what the relays say, fairness | owner, 2 contacts, 1 key, batches of 1, 1 request | `TrustIsJust`, `CachesConverge` |
| `catalogue` | what do pages and filters show of a changing index, fairness | 3 hashes, pages of 1, 2 filter requests, 2 rates, 4 changes | `ListIsFaithful`, `FilterIsFaithful`, `WalksEnd` |
| `intake` | limits, prices, deadlines, eviction and playlists, fairness | 4 sizes, 2 clients or 1 mirror with 2 slots, 1 request each, clock 0..2, 1 report | `LimitsHold`, `PaymentsAreDue`, `DeadlinesBound`, `RemovalsAreDue`, `JobIsBounded`, `IntakeSettles` |
| `serving` | ranges, resumed downloads, the served directory, walks and caches, fairness | 2 bytes, 2 files, 3 hosts (one private, one in the overlay, one whose name may not resolve), 2 clients, no bucket where clients walk | `HeldIsServed`, `WalkIsExact`, `CachesAreHonest`, `CachesHeal` |

All of them pass. `intake` has no deadlock check: clients make `Rounds` requests and the
clock has a bound, so the system really comes to rest.

Further configurations, kept beside the runs. Each states what a comment or a document
says; TLC finds it violated within seconds, and the matching hazard in
`PROJECT.json` quotes the claim:

| Configuration | Property | Claim | What the code does |
|---|---|---|---|
| `store_discover` | `IndexedHasBytes` | only the superseded copy is removed | two discoveries of one bucket object delete it |
| `store_reconcile` | `IndexedHasBytes` | a clean-up candidate cannot delete a new copy | reconciliation deletes a path that was published again |
| `store_cancelled_delete` | `IndexedHasBytes` | the guard spans disposal and index update | a dropped request frees the guard half way |
| `store_precedence` | `LocalKeepsPrecedence` | local copies keep precedence | the recovery job overwrites an entry made between its check and its insertion |
| `store_s3_quarantine` | `QuarantineBars` | quarantined hashes cannot be uploaded again | quarantining a bucket object leaves no record |
| `chunk_cancelled_patch` | `ReservationsAreHeld` | tickets are released on every error | a dropped request keeps its reservation |
| `chunk_unpaid` | `CapacityRespected` | limits on concurrent sessions | restoring an unpaid upload ignores them |
| `chunk_scan` | `SessionChunksOnDisk` | only orphaned chunks are removed | old chunks of a live session are removed too |
| `chunk_active` | `OnlyIdleEvicted` | idle sessions are evicted | age counts from creation |
| `chunk_charged_twice` | `CompletedOnce` | charged exactly once | two requests with the whole upload both complete |
| `fetch_open` | `FollowersCanOpen` | followers can always open the file | not between rename and `final_path.set` |
| `fetch_miss` | `MissIsProven` | cached misses are proven | every error is cached as a miss |
| `single_use_restart` | `NeverReused` | a destructive event is presented exactly once | the replay set does not survive a restart |
| `filter_fuse` | `IdenticalMissesShare` | identical misses reuse one rendering | stored under the rate as asked, looked up under another |
| `intake_reserve` | `ReserveIsKept` | the disk reserve applies before anything is stored | it is checked before the body and not reserved |
| `mirror_failed` | `FailedMirrorIsFree` | a failed mirror cannot redeem a token | the charge precedes the publication |
| `hls_truncated` | `SeenIsMirrored` | references of mirrored playlists are mirrored | those cut from a round are noted as seen |
| `serve_modified` | `AssembledIsBlob` | blobs are immutable | a file rewritten in place is served under its old hash until the next refresh |

Why the bounds are enough. Interaction in storage, uploads and fetching goes through
one hash (the guard, the maps, the session key), so one hash with two or three tasks has
every pairwise race plus the background job; two name variants tell a copy replaced in
place from one replaced elsewhere; two seconds tell a stale candidate from a current
one; two blocks tell a partial body from none and from the whole; two keys meet a limit
of one session. `MaxReservations` and `Files` only delay a new request, and
`Cardinality(Active) < Cardinality(FreshHandles)` in `Arrive` leaves a handle for every
request under way; free handles and negotiations are interchangeable, so a new one is
any fixed choice among them (`OneOf`). `MaxDetached` bounds the operations that
outlived their request. `MaxClock` covers one event's life and the time after it, one
retention period and the sweep after it. Three hashes with pages of one give a walk
with a cursor in the middle that may vanish, reappear older or newer; `MaxChanges`
bounds the changes to the index. Two contacts make a threshold that one missed batch can miss; batches
of one have a change between any two. Four sizes sit on both sides of every limit
and quota; two files and playlists that lead back to each other exceed a limit on files
and every limit of a job. `Populations` splits a run into groups of clients that share
no state worth the product: a walk and a filter request, uploads and a playlist,
a resuming client with a file and two walking clients.

Fairness. tokio polls every task that can go on (weak fairness of each task's steps),
its Mutex serves waiters in order (strong fairness of `Lock`), the periodic jobs run on
intervals, time passes, and an upstream body ends or fails within the client's
`read_timeout`. `BucketRecovers` assumes that a listing of the recovery job succeeds in
the end. Arrivals and faults are never assumed: `RequestsDrain` is conditional on
arrivals ceasing (a follower may otherwise meet failing leaders for ever, since the
loop in `try_upstream_servers` has no bound), `WalksEnd` on an index that stays as it
is, `CachesConverge` and `CachesHeal` on an environment that stays as it is from some
moment on (`settled`). The disjunction of steps under one fairness condition in
`HlsMirror`, and that of download tasks and spawned removals in `UpstreamFetch`
(`Background`), is enough because none of them can repeat without end.

## Proofs

Every theorem is about the specification a run checks, for all values of the
constants. Where the statement of a property is only true without some fault (the
configurations above show the counterexamples), the theorem names the faults it
excludes; where it says nothing, every fault is included. TLC checked each inductive
invariant on the run of its module before it was proved.

| Theorem | Property | Scope |
|---|---|---|
| `BlobStoreProofs!TypeCorrect`, `GuardsAreExact` | `TypeOK`, `GuardExact` | every fault |
| `GuardSpansEveryRemoval`, `PublishedBlobsStay` | `GuardSpansRemoval`, `PublishedStaysIndexed` | `Listable`: no bucket, or no outage |
| `UploadsKeepTheirPlace`, `UploadsOutlastCrashes` | `UploadNotReplacedByCache` | no crash; or `LocalOnly` |
| `DeletionsAreComplete` | `DeleteIsComplete` | `Uninterrupted`: `Listable`, no crash, no dropped request |
| `FailedRemovalsAreQueued`, `QuarantinesOutlastFailures` | `LeftoversAreQueued`, `QuarantineIsFinal` | `DiskOnly`: `Uninterrupted`, no bucket |
| `LocalCopiesAreIndexed` | what `IndexedHasBytes` and `NoOrphans` say of local copies | `Reliable`: no fault but crashes, with a bucket or without |
| `LocalIndexedHasBytes`, `LocalNoOrphans`, `LocalQuarantineIsFinal` | `IndexedHasBytes`, `NoOrphans`, `QuarantineIsFinal` | `LocalOnly`: no bucket, no fault but crashes |
| `LocalImplementsService` | `ImplementsService` | `LocalOnly` |
| `SingleUseProofs!EventsAreUsedOnce`, `ReportsStayTraceable` | `UsedOnce`, `ReportsAreTraceable` | every fault |
| `ChunkUploadProofs!EveryTicketIsSpent` | `ReservationsAreHeld` | no dropped request |
| `EveryFileIsAccounted` | `FilesAccounted` | no dropped request, the temporary directory stays |
| `LimitsAreKept` | `CapacityRespected` | no upload that is refused for its balance late |
| `PaidUploadsAreWhole`, `ChunksHaveOneOwner`, `InFlightBodiesKeepTheirSession` | `ClaimCovers` (the first) | every fault |
| `UpstreamFetchProofs!NobodyWaitsInVain`, `CleanStreamsAreWhole`, `DownloadsLeaveNothing`, `RunningDownloadsStay` | `NobodyIsStranded`, `CleanEndIsWhole`, `FinishedLeavesNoTemp`, `RunningStaysAttachable` | every fault |
| `TrustProofs!NobodyIsTrustedUnearned` | `TrustIsJust` | whatever the relays answer |
| `HlsMirrorProofs!LimitsAreKept`, `PaymentsAreSound`, `DeadlinesAreBound`, `RemovalsComeInTurn`, `JobsAreBounded` | `LimitsHold`, `PaymentsAreDue`, `DeadlinesBound`, `RemovalsAreDue`, `JobIsBounded` | every fault |
| `ServingProofs!WalksAreExact`, `CachesStayHonest` | `WalkIsExact`, `CachesAreHonest` | every fault |
| `HeldBlobsAreServed` | `HeldIsServed` | `Immutable`: no file that may hold the blob is rewritten with other content |
| `CatalogueProofs!ListsAreFaithful` | `ListIsFaithful` | every client, window and page size |
| `FiltersAreCurrent` | `FilterIsCurrent`, `RateAsAsked` | every algorithm |
| `FiltersAreFaithful` | `FilterIsFaithful` | Bloom filters, or one rate |

Assumptions: those on constants that each module declares (`ConstantsAssumption` and
`ServiceAssumption` of `BlobStore`, `ChunkAssumption`, `FetchAssumption`,
`AuthAssumption` and `SingleUseAssumption`, `TrustAssumption`, `IntakeAssumption` and
`HlsAssumption`, `WalkAssumption` and `ServingAssumption`, `CatalogueAssumption`). They give constants their sorts (a bound is a number, `None` or
`Nothing` is none of the values it stands beside, clients, slots, contacts and blobs
are finite sets, hashes and the ends of a window are numbers); TLC evaluates them on every run. The bounds of the instances are
constants too, and the proofs hold for all of them.

The arguments, in short:

- Storage. A guard is exact only together with what each task may assume of its own
  locals (`Shape`): `GuardInv == TypeOK /\ Shape /\ GuardExact`. Index and disk agree
  only when nobody works on a hash; in between they differ in a way that depends on
  the holder's step. `Busy(h, p)` says how for every step, `Resting(h)` what holds when
  the guard is free, and `LocalInv == GuardInv /\ Quiet /\ \A h : HashOK(h)` is
  inductive. A step on one hash leaves the others alone (`OtherHashes`), and after a
  crash in any such state the scan at startup leaves every hash at rest
  (`RestartKeepsLocalInv`). The refinement adds `Disposal` (how a removal's file and
  its promise hang together): every step of `BlobStore` is a `Call`, `Act` or `Return`
  of `BlobService` or changes nothing there, a crash being a `Return` of every task at
  once or one by one. With a bucket the holder of a guard still knows the entry it read
  (`TrackInv`), and what a sweep of the bucket has done stays done (`SweepInv`);
  `LeftInv` follows each leftover copy from the failed removal into the queue and
  through the batch that retries it. `OriginInv` is enough for the rank of uploads.
  `BarInv` adds to `LeftInv` that no publication of a quarantined hash is past its
  check. `TierInv` compares the local parts of `files` and `index` only: for each step
  of a guard's holder it says what the local disk holds (`Holds`), and two local copies
  of a hash are never of the same tier (`OnLocalDisk`), so the scan drops the right one.
- Single use. The replay set forgets, so an id in the set carries its stamp, and
  whoever waits for the lock has read a clock no earlier than the last sweep.
- Resumable uploads. Tickets counted equal tickets held; each file has one owner among
  sessions, requests and the job's lists; a session's chunks do not overlap, and a
  claim covers its upload without a gap.
- Upstream fetch. A follower's channel refers to a negotiation with a leader; what a
  stream has delivered is a prefix of what the download has written.
- Trust. A refresh counts batch by batch while lists change: a count is bounded by the
  contacts done that ever followed the key, since each contact is queried once.
- Intake and playlists. The number of bytes is the number of units of all stored blobs
  (`BytesAreUnits`), so it grows by one blob's size with each intake; each client's
  `since` carries what others added. Snapshots of the sweep are compared with the index
  entry by entry. A job marks a reference as seen before it schedules it, and counts
  what it marked.
- Walks. `WalkOK`: a URL that a plan names and that may be asked (`Allowed`) has been
  asked or is pending, as long as the network did not fail, and no other was asked; the
  candidates that are skipped are not `Allowed` or were asked before (`FirstIsUsable`).
  Tiers do not fall along what was asked followed by what is pending. It holds at the
  start since the lists of a plan, joined and cut to the first server of each URL, keep
  every URL and the order (`FlattenIs`, `FirstIs`). `ListOK`: a list that was cached after lists last changed is the author's.
- Serving. `ScanOK` says what a scan still has to find of the files that have held the
  blob since it began; `DownloadOK`, that what a client has put together is a beginning
  of the blob and what it asks for is the rest. A body under 206 is the range the
  header selects by cases of the header and of the size, zero included (`AnswerIs`).
  Without `Immutable` the property is false, as `serve_modified` shows; the run keeps to
  `Immutable` with `OneContent`.

- Lists. A page is the set of entries of least rank among those ahead (`PageIs`); ranks
  rise along the order (`RanksRise`), so a set of entries has a first and a last.
  `WalkOK`: in a walk that is not `sunk`, a blob that stays and is not listed yet follows
  the cursor's `mark` in the order; a cursor no older than its mark is no further down, so
  the blob is ahead of it (`UnlistedIsAhead`). One that is listed is not ahead, unless the
  cursor was moved or removed. The sum of sizes is the number of bytes, each a pair of its
  blob and its number (`OneMoreAdds`).
- Filters. `CacheOK`: a filter cached under the present generation holds what is
  indexed. Every change moves on to a generation nothing is cached under, so `FilterOK`:
  a filter under the generation that a request has read is current for that request,
  although it may have been rendered after it. Who renders holds the lock and has not
  been hit. Without Bloom filters and with several rates the last part of
  `FilterIsFaithful` is false, as `filter_fuse` shows.

Induction. The library's rules take an operator as a parameter and cannot be used
here; `NumbersByInduction` derives induction for a set of numbers from the
well-foundedness of `<`. With it `BytesAreUnits` is proved for every set of
blobs, `FoldExists` and `AddIs` for every list of references, and `FlattenIs` and
`FirstIs` for every list of servers.

What the proofs found. The first form of `UploadsGoLast` held on the instance and is
false in general: a cached copy may be evicted and fetched again within the second of
its eviction, and the new copy then looks like the one of the snapshot. The property
now speaks of copies that the sweep has not yet taken, or that are older than the
present second. `IntakeAssumption` and `HlsAssumption` were too weak to give the
handlers' values their sorts, and so were `WalkAssumption`, `ServingAssumption` and
`CatalogueAssumption`. In `ParseRange` two cases overlapped for a blob of size 0,
where TLC took the first that fits and a proof may not; they are disjoint now.

Only model-checked:

- liveness, under the fairness above (`EveryTaskReturns`, `BucketRecovers`,
  `AbandonedDataGoes`, `RequestsDrain`, `CachesConverge`, `WalksEnd`, `IntakeSettles`,
  `CachesHeal`): ENABLED is out of the
  prover's reach;
- storage outside the scopes of the table. The scopes are not there for the proofs' sake:
  on instances of one hash TLC finds each statement false one fault further.
  With failing file operations `NoOrphans` fails, since a superseded copy stays until the
  queue is worked off, and so do `IndexedHasBytes` and `ImplementsService`, since it is
  then removed without a look at the index, which may name it again; `QuarantineIsFinal`
  fails with a crash on top, or with a dropped request. With a bucket `QuarantineIsFinal`,
  `NoOrphans` and `ImplementsService` fail without any fault: objects are there from the
  start, some that no entry names, and a lookup brings a quarantined hash back from one. `UploadNotReplacedByCache` fails when a process with a
  bucket dies between the publication of an upload and the removal of the cached copy it
  displaced: the scan finds the cached copy and the listing does not replace it.

## Not modelled

- Cryptography and signatures (an event's signature is a flag), HTTP and header
  parsing, the relay and mint protocols, TLS, metrics, error texts, configuration
  (its values are constants of the modules) and the command line tools.
- `migrate_legacy_blobs` and the clearing of the temporary directory at startup: they
  run before anything else does.
- The bits of a filter, the text of playlists, reports and names, content types.
- The charge of a paid download, which precedes the opening of the file, and the
  wallet's binding to the first accepted mint.
- Two files of the served directory with one content are two paths of which the index
  names one; which one is left open. The `Sunset` date a client was told may move to an
  earlier one after a restart (the age then counts from the file's last write); the
  properties of `Intake` take the earlier one.

## Plan

Every component above but the last row is modelled, with the runs and the proofs
listed; what the proofs leave out is under "Only model-checked". Left is the hazard at
`upstream.rs:1136`, which no property covers yet (a follower that looks for the file
between the rename of the temporary file and `final_path.set`).
