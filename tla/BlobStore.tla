------------------------------ MODULE BlobStore ------------------------------
(***************************************************************************)
(* Almond's blob storage: the in-memory index (services/blob_index.rs),    *)
(* the physical copies on disk and in the native S3 bucket, the per-hash   *)
(* mutation guard, publication, removal, quarantine and the background     *)
(* jobs that work on the same hashes (services/file_storage.rs, utils.rs,  *)
(* services/native_storage.rs, lib.rs).                                    *)
(*                                                                         *)
(* A blob's bytes are determined by its hash, so a physical copy is just   *)
(* the location that holds it.  A location is a tier (uploads/,            *)
(* upstream-cache/ or the bucket) and a name variant: the retention suffix *)
(* and extension that, with the hash, make up the file name or object key. *)
(*                                                                         *)
(* Every task is a sequence of steps that runs under the guard of one      *)
(* hash; a step ends where the code awaits.  Faults names the things that  *)
(* may go wrong around the code:                                           *)
(*   "crash"  the process dies and is started again;                       *)
(*   "cancel" a request's future is dropped at an await (the 60 second     *)
(*            TimeoutLayer of lib.rs, or a client that disconnects): the   *)
(*            guard is released, but an operation already handed to the    *)
(*            blocking pool or to S3 still takes effect, at some later     *)
(*            time;                                                        *)
(*   "io"     a file operation returns an error other than NotFound;       *)
(*   "s3"     an S3 request returns an error, with or without its effect;  *)
(*   "outage" the bucket cannot be listed while the process starts.        *)
(***************************************************************************)
EXTENDS Naturals, FiniteSets

CONSTANTS
    Hashes,        \* the blobs' SHA-256 hashes
    Names,         \* name variants of one hash (retention suffix, extension)
    Requests,      \* concurrent request handlers and cache-fill tasks
    Cleaner,       \* the periodic cleanup job
    None,          \* no entry, no request, no lock holder
    S3Configured,  \* whether the deployment has a native bucket
    Faults,        \* which faults of the header happen
    MaxDetached,   \* bound on the operations that outlived their request
    MaxClock       \* bound on the clock, in seconds

FaultKinds == {"crash", "cancel", "io", "s3", "outage"}

Tasks == Requests \cup {Cleaner}
Tiers == {"uploads", "cache", "s3"}
Locations == [tier : Tiers, name : Names]
Entries == [loc : Locations, created : 0..MaxClock]
Copies == [hash : Hashes, loc : Locations]

\* What a task was asked to do.  "upload" and "cache" publish a temporary file,
\* "discover" publishes metadata of an object found in the bucket, "reconcile"
\* retries a superseded deletion, the rest are the Removal reasons.
Publications == {"upload", "cache"}
Removals == {"Requested", "Reported", "Quarantined", "Evicted"}
Reqs == [how : Publications \cup Removals \cup {"discover", "reconcile"},
         hash : Hashes, loc : Locations \cup {None}, want : Entries \cup {None}]

\* An operation that outlived the request that issued it.
DetachedOps == [op : {"remove", "place", "quarantine"}, hash : Hashes, loc : Locations]

ASSUME ConstantsAssumption ==
    /\ S3Configured \in BOOLEAN
    /\ Faults \subseteq FaultKinds
    /\ MaxDetached \in Nat /\ MaxClock \in Nat
    /\ Cleaner \notin Requests
    /\ None \notin Tasks \cup Locations \cup Entries \cup Reqs \cup Copies

VARIABLES
    index,        \* BlobIndex: the entry of each hash, or None
    files,        \* the locations that physically hold each hash
    quarantined,  \* the hashes with a file in the quarantine root
    lock,         \* BlobMutationLocks: who holds each hash's guard
    pc, req, cur, \* each task's step, its request, the entry it works on
    superseded,   \* superseded_blob_deletions: displaced copies not yet removed
    phase, todo, retry,  \* the cleanup job's progress
    detached,     \* operations whose request was cancelled
    s3up,         \* S3Status: whether the bucket counts as available
    syncing, listing, merge, \* sync_index: running, listed, about to be inserted
    clock

taskVars == <<pc, req, cur, lock>>
jobVars  == <<phase, todo, retry>>
syncVars == <<s3up, syncing, listing, merge>>
vars == <<index, files, quarantined, taskVars, superseded, jobVars, detached,
          syncVars, clock>>

-----------------------------------------------------------------------------
\* BlobOrigin: every copy outside upstream-cache/ counts as an upload.
Origin(loc) == IF loc.tier = "cache" THEN "UpstreamCache" ELSE "Upload"

S3Copies(h) == {loc \in files[h] : loc.tier = "s3"}

\* Removal::sweeps_backend
SweepsBackend(how) == how \in {"Requested", "Reported"}

\* completed_path and object_key: the location a publication is stored at.
\* Uploads go to the bucket when one is configured, cache fills stay local.
Target(how, n) ==
    [tier |-> IF how = "cache" THEN "cache"
              ELSE IF S3Configured THEN "s3" ELSE "uploads",
     name |-> n]

-----------------------------------------------------------------------------
(* Startup: build_file_index, then sync_index.                              *)

At(copies, tier) == {loc \in copies : loc.tier = tier}

\* Mutant: the roots are scanned in the other order, so cached copies win.
CacheScannedLast(copies) ==
    IF At(copies, "uploads") # {} /\ At(copies, "cache") # {}
      THEN {copies \ {loc} : loc \in At(copies, "uploads")}
      ELSE {copies}

\* The copies of one hash that the startup scan may leave.  Where an upload
\* overwrites the cached entry in the map, that cached copy is removed; only
\* one cached copy per hash reaches the map, so only that one goes.
ScannedCopies(copies) ==
    IF At(copies, "uploads") # {} /\ At(copies, "cache") # {}
      THEN {copies \ {loc} : loc \in At(copies, "cache")}
             \cup (IF "io" \in Faults THEN {copies} ELSE {})
      ELSE {copies}

\* The entries the scan and, if the bucket answers, the listing may build for a
\* hash: uploads overwrite cached copies, listed objects only fill gaps.  The
\* creation time is a file's or object's modification time.
ScannedEntries(copies, up, now) ==
    LET found == IF At(copies, "uploads") # {} THEN At(copies, "uploads")
                 ELSE IF At(copies, "cache") # {} THEN At(copies, "cache")
                 ELSE IF up THEN At(copies, "s3") ELSE {}
    IN  IF found = {} THEN {None} ELSE [loc : found, created : 0..now]

\* Whether the listing at startup succeeds.
Listed == {S3Configured} \cup (IF "outage" \in Faults THEN {FALSE} ELSE {})

\* The bucket may already hold objects when the process first starts.
Init ==
    /\ clock = 0
    /\ s3up \in Listed
    /\ files \in [Hashes -> IF S3Configured THEN SUBSET At(Locations, "s3") ELSE {{}}]
    /\ index \in [Hashes -> Entries \cup {None}]
    /\ \A h \in Hashes : index[h] \in ScannedEntries(files[h], s3up, clock)
    /\ quarantined = {}
    /\ pc = [p \in Tasks |-> "idle"]
    /\ req = [p \in Tasks |-> None]
    /\ cur = [p \in Tasks |-> None]
    /\ lock = [h \in Hashes |-> None]
    /\ superseded = {}
    /\ phase = "sleep" /\ todo = {} /\ retry = {}
    /\ detached = {}
    /\ syncing = FALSE /\ listing = {} /\ merge = None

\* The process dies at any point and build_state runs again.  The quarantine
\* root is not scanned.  What was in flight to the bucket may still arrive.
Restart ==
    /\ "crash" \in Faults
    /\ s3up' \in Listed
    /\ files' \in [Hashes -> SUBSET Locations]
    /\ \A h \in Hashes : files'[h] \in ScannedCopies(files[h])
    /\ index' \in [Hashes -> Entries \cup {None}]
    /\ \A h \in Hashes : index'[h] \in ScannedEntries(files'[h], s3up', clock)
    /\ pc' = [p \in Tasks |-> "idle"]
    /\ req' = [p \in Tasks |-> None]
    /\ cur' = [p \in Tasks |-> None]
    /\ lock' = [h \in Hashes |-> None]
    /\ superseded' = {}
    /\ phase' = "sleep" /\ todo' = {} /\ retry' = {}
    /\ detached' = {d \in detached : d.loc.tier = "s3"}
    /\ syncing' = FALSE /\ listing' = {} /\ merge' = None
    /\ UNCHANGED <<quarantined, clock>>

-----------------------------------------------------------------------------
(* Starting a task, and the guard every task takes first.                   *)

Begin(p, r) ==
    /\ pc[p] = "idle"
    /\ pc' = [pc EXCEPT ![p] = "lock"]
    /\ req' = [req EXCEPT ![p] = r]
    /\ UNCHANGED <<cur, lock>>

\* An upload, mirror or cache fill with its bytes verified in a temporary file.
StartPublish(p, h, how, n) ==
    /\ Begin(p, [how |-> how, hash |-> h, loc |-> Target(how, n), want |-> None])
    /\ UNCHANGED <<index, files, quarantined, superseded, jobVars, detached, syncVars, clock>>

\* resolve_blob: an unindexed hash is looked up in the bucket before anything
\* else.  The index read and the listing are separate steps.
StartLookup(p, h) ==
    /\ S3Configured /\ s3up
    /\ pc[p] = "idle" /\ index[h] = None
    /\ pc' = [pc EXCEPT ![p] = "find"]
    /\ req' = [req EXCEPT ![p] = [how |-> "discover", hash |-> h,
                                  loc |-> None, want |-> None]]
    /\ UNCHANGED <<index, files, quarantined, cur, lock, superseded, jobVars, detached,
                   syncVars, clock>>

\* NativeS3Storage::find: any matching object, or none (the request goes on
\* to the upstream servers).
Find(p) ==
    /\ pc[p] = "find"
    /\ \/ \E loc \in S3Copies(req[p].hash) :
            /\ req' = [req EXCEPT ![p].loc = loc]
            /\ pc' = [pc EXCEPT ![p] = "lock"]
       \/ /\ S3Copies(req[p].hash) = {} \/ "s3" \in Faults
          /\ req' = [req EXCEPT ![p] = None]
          /\ pc' = [pc EXCEPT ![p] = "idle"]
    /\ UNCHANGED <<index, files, quarantined, cur, lock, superseded, jobVars, detached,
                   syncVars, clock>>

\* DELETE removes whatever is there; a report only acts on an indexed hash.
StartRemove(p, h, how) ==
    /\ how # "Requested" => index[h] # None
    /\ Begin(p, [how |-> how, hash |-> h, loc |-> None, want |-> None])
    /\ UNCHANGED <<index, files, quarantined, superseded, jobVars, detached, syncVars, clock>>

FirstStep(how) ==
    CASE how \in Publications -> "check"
      [] how = "discover"     -> "publish"
      [] how = "reconcile"    -> "reconcile"
      [] OTHER                -> "read"

\* Mutant: a guard is granted although another task holds it.
LockWithoutWaiting(p) ==
    /\ pc[p] = "lock"
    /\ lock' = [lock EXCEPT ![req[p].hash] = p]
    /\ pc' = [pc EXCEPT ![p] = FirstStep(req[p].how)]
    /\ UNCHANGED <<index, files, quarantined, req, cur, superseded, jobVars, detached,
                   syncVars, clock>>

\* BlobMutationLocks::lock
Lock(p) ==
    /\ pc[p] = "lock"
    /\ lock[req[p].hash] = None
    /\ lock' = [lock EXCEPT ![req[p].hash] = p]
    /\ pc' = [pc EXCEPT ![p] = FirstStep(req[p].how)]
    /\ UNCHANGED <<index, files, quarantined, req, cur, superseded, jobVars, detached,
                   syncVars, clock>>

\* Mutant: an operation returns without dropping its guard.
FinishWithGuard(p) ==
    /\ pc' = [pc EXCEPT ![p] = "idle"]
    /\ req' = [req EXCEPT ![p] = None]
    /\ cur' = [cur EXCEPT ![p] = None]
    /\ UNCHANGED lock

\* Mutant: an eviction starts over instead of returning.
FinishEvictingAgain(p) ==
    LET again == req[p].how = "Evicted"
    IN  /\ pc' = [pc EXCEPT ![p] = IF again THEN "lock" ELSE "idle"]
        /\ req' = [req EXCEPT ![p] = IF again THEN @ ELSE None]
        /\ cur' = [cur EXCEPT ![p] = None]
        /\ lock' = [lock EXCEPT ![req[p].hash] = None]

\* The operation returns and drops its guard.
Finish(p) ==
    /\ pc' = [pc EXCEPT ![p] = "idle"]
    /\ req' = [req EXCEPT ![p] = None]
    /\ cur' = [cur EXCEPT ![p] = None]
    /\ lock' = [lock EXCEPT ![req[p].hash] = None]

GoTo(p, label) ==
    /\ pc' = [pc EXCEPT ![p] = label]
    /\ UNCHANGED <<req, cur, lock>>


-----------------------------------------------------------------------------
(* publish_blob and publish_existing_metadata.                              *)

\* Mutant: the quarantine check is missing.
CheckWithoutQuarantine(p) ==
    LET h == req[p].hash
        refused == \/ index[h] # None /\ (req[p].how = "cache" \/ Origin(index[h].loc) = "Upload")
                   \/ req[p].loc.tier = "s3" /\ ~s3up
    IN  /\ pc[p] = "check"
        /\ IF refused THEN Finish(p)
           ELSE GoTo(p, IF req[p].loc.tier = "s3" THEN "put" ELSE "clear")
        /\ UNCHANGED <<index, files, quarantined, superseded, jobVars, detached, syncVars, clock>>

\* ensure_not_quarantined, then the collision rule: an existing entry wins over
\* a cache fill, an existing upload over everything, and the temporary file is
\* dropped.  An upload needs the bucket to be available when one is configured.
CheckPublication(p) ==
    LET h == req[p].hash
        refused == \/ h \in quarantined
                   \/ index[h] # None /\ (req[p].how = "cache" \/ Origin(index[h].loc) = "Upload")
                   \/ req[p].loc.tier = "s3" /\ ~s3up
    IN  /\ pc[p] = "check"
        /\ IF refused THEN Finish(p)
           ELSE GoTo(p, IF req[p].loc.tier = "s3" THEN "put" ELSE "clear")
        /\ UNCHANGED <<index, files, quarantined, superseded, jobVars, detached, syncVars, clock>>

\* A file already at the final path is taken for an unindexed leftover.
ClearTarget(p) ==
    /\ pc[p] = "clear"
    /\ \/ /\ files' = [files EXCEPT ![req[p].hash] = @ \ {req[p].loc}]
          /\ GoTo(p, "rename")
       \/ /\ "io" \in Faults
          /\ Finish(p) /\ UNCHANGED files
    /\ UNCHANGED <<index, quarantined, superseded, jobVars, detached, syncVars, clock>>

\* The rename can also fail because the cleanup job removed the still empty
\* directory that create_parent_dirs had just made.
Rename(p) ==
    /\ pc[p] = "rename"
    /\ \/ /\ files' = [files EXCEPT ![req[p].hash] = @ \cup {req[p].loc}]
          /\ GoTo(p, "publish")
       \/ Finish(p) /\ UNCHANGED files
    /\ UNCHANGED <<index, quarantined, superseded, jobVars, detached, syncVars, clock>>

\* NativeS3Storage::put.  An error may mean that only the answer was lost.
Put(p) ==
    LET stored == [files EXCEPT ![req[p].hash] = @ \cup {req[p].loc}]
    IN  /\ pc[p] = "put"
        /\ \/ files' = stored /\ GoTo(p, "publish")
           \/ /\ "s3" \in Faults
              /\ files' \in {files, stored} /\ Finish(p)
        /\ UNCHANGED <<index, quarantined, superseded, jobVars, detached, syncVars, clock>>

\* Mutant: the displaced entry is not handed on for physical cleanup.
PublishForgetsDisplaced(p) ==
    LET h == req[p].hash
    IN  /\ pc[p] = "publish"
        /\ index' = IF req[p].how = "cache" /\ index[h] # None THEN index
                    ELSE [index EXCEPT ![h] = [loc |-> req[p].loc, created |-> clock]]
        /\ Finish(p)
        /\ UNCHANGED <<files, quarantined, superseded, jobVars, detached, syncVars, clock>>

\* Mutant: a cache fill replaces whatever was indexed since its check.
PublishOverwrites(p) ==
    LET h == req[p].hash
    IN  /\ pc[p] = "publish"
        /\ index' = [index EXCEPT ![h] = [loc |-> req[p].loc, created |-> clock]]
        /\ Finish(p)
        /\ UNCHANGED <<files, quarantined, superseded, jobVars, detached, syncVars, clock>>

\* BlobIndex::publish: a cache fill never replaces an entry, an upload replaces
\* anything.  The displaced entry's copy is removed in the next step, whatever
\* its location.
PublishMetadata(p) ==
    LET h == req[p].hash
        retained == req[p].how = "cache" /\ index[h] # None
    IN  /\ pc[p] = "publish"
        /\ IF retained THEN Finish(p) /\ UNCHANGED index
           ELSE /\ \E c \in IF req[p].how = "discover" THEN 0..clock ELSE {clock} :
                     index' = [index EXCEPT ![h] = [loc |-> req[p].loc, created |-> c]]
                /\ IF index[h] = None THEN Finish(p)
                   ELSE /\ pc' = [pc EXCEPT ![p] = "displaced"]
                        /\ cur' = [cur EXCEPT ![p] = index[h]]
                        /\ UNCHANGED <<req, lock>>
        /\ UNCHANGED <<files, quarantined, superseded, jobVars, detached, syncVars, clock>>

\* Whether an operation on a location may return an error.
MayFail(loc) == IF loc.tier = "s3" THEN "s3" \in Faults ELSE "io" \in Faults

\* Mutant: the published copy is removed in place of the displaced one.
RemovePublished(p) ==
    LET h == req[p].hash
    IN  /\ pc[p] = "displaced"
        /\ files' = [files EXCEPT ![h] = @ \ {req[p].loc}]
        /\ Finish(p)
        /\ UNCHANGED <<index, quarantined, superseded, jobVars, detached, syncVars, clock>>

\* Mutant: a failed removal of the displaced copy is only logged.
RemoveDisplacedOnce(p) ==
    LET h == req[p].hash
    IN  /\ pc[p] = "displaced"
        /\ \/ files' = [files EXCEPT ![h] = @ \ {cur[p].loc}]
           \/ MayFail(cur[p].loc) /\ UNCHANGED files
        /\ Finish(p)
        /\ UNCHANGED <<index, quarantined, superseded, jobVars, detached, syncVars, clock>>

\* remove_physical_file on the displaced copy; a failure is queued.
RemoveDisplaced(p) ==
    LET h == req[p].hash
    IN  /\ pc[p] = "displaced"
        /\ \/ /\ files' = [files EXCEPT ![h] = @ \ {cur[p].loc}]
              /\ UNCHANGED superseded
           \/ /\ MayFail(cur[p].loc)
              /\ superseded' = superseded \cup {[hash |-> h, loc |-> cur[p].loc]}
              /\ UNCHANGED files
        /\ Finish(p)
        /\ UNCHANGED <<index, quarantined, jobVars, detached, syncVars, clock>>

-----------------------------------------------------------------------------
(* remove_indexed_blob.                                                     *)

\* Mutant: the entry the caller selected is not compared with the current one.
ReadWithoutExpected(p) ==
    LET entry == index[req[p].hash]
    IN  /\ pc[p] = "read"
        /\ IF entry = None
             THEN IF SweepsBackend(req[p].how) /\ S3Configured
                    THEN GoTo(p, "sweep") ELSE Finish(p)
           ELSE /\ cur' = [cur EXCEPT ![p] = entry]
                /\ pc' = [pc EXCEPT ![p] =
                            IF req[p].how = "Quarantined" THEN "quarantine" ELSE "unlink"]
                /\ UNCHANGED <<req, lock>>
        /\ UNCHANGED <<index, files, quarantined, superseded, jobVars, detached, syncVars, clock>>

\* Nothing indexed: only a sweep is left.  A retention candidate is skipped when
\* the index has moved on from the entry it was selected by.
ReadCurrent(p) ==
    LET entry == index[req[p].hash]
    IN  /\ pc[p] = "read"
        /\ IF entry = None
             THEN IF SweepsBackend(req[p].how) /\ S3Configured
                    THEN GoTo(p, "sweep") ELSE Finish(p)
           ELSE IF req[p].want # None /\ entry # req[p].want
             THEN Finish(p)
           ELSE /\ cur' = [cur EXCEPT ![p] = entry]
                /\ pc' = [pc EXCEPT ![p] =
                            IF req[p].how = "Quarantined" THEN "quarantine" ELSE "unlink"]
                /\ UNCHANGED <<req, lock>>
        /\ UNCHANGED <<index, files, quarantined, superseded, jobVars, detached, syncVars, clock>>

\* Mutant: the backend is not swept once the indexed copy is gone.
UnlinkOnly(p) ==
    /\ pc[p] = "unlink"
    /\ files' = [files EXCEPT ![req[p].hash] = @ \ {cur[p].loc}]
    /\ GoTo(p, "unindex")
    /\ UNCHANGED <<index, quarantined, superseded, jobVars, detached, syncVars, clock>>

\* remove_physical_file on the current copy; a missing file is no error.
Unlink(p) ==
    /\ pc[p] = "unlink"
    /\ \/ /\ files' = [files EXCEPT ![req[p].hash] = @ \ {cur[p].loc}]
          /\ GoTo(p, IF SweepsBackend(req[p].how) /\ S3Configured THEN "sweep" ELSE "unindex")
       \/ /\ MayFail(cur[p].loc)
          /\ Finish(p) /\ UNCHANGED files
    /\ UNCHANGED <<index, quarantined, superseded, jobVars, detached, syncVars, clock>>

\* Mutant: a quarantined copy is deleted instead of moved.
QuarantineByDeleting(p) ==
    /\ pc[p] = "quarantine"
    /\ files' = [files EXCEPT ![req[p].hash] = @ \ {cur[p].loc}]
    /\ GoTo(p, "unindex")
    /\ UNCHANGED <<index, quarantined, superseded, jobVars, detached, syncVars, clock>>

\* quarantine_current: a local copy is moved into the quarantine root, and a
\* missing one is an error; a bucket object is deleted like any other.
Quarantine(p) ==
    LET h == req[p].hash
    IN  /\ pc[p] = "quarantine"
        /\ \/ /\ cur[p].loc.tier = "s3"
              /\ GoTo(p, "sweep")
              /\ UNCHANGED <<files, quarantined>>
           \/ /\ cur[p].loc.tier # "s3" /\ cur[p].loc \in files[h]
              /\ files' = [files EXCEPT ![h] = @ \ {cur[p].loc}]
              /\ quarantined' = quarantined \cup {h}
              /\ GoTo(p, "unindex")
           \/ /\ cur[p].loc.tier # "s3"
              /\ cur[p].loc \notin files[h] \/ "io" \in Faults
              /\ Finish(p)
              /\ UNCHANGED <<files, quarantined>>
        /\ UNCHANGED <<index, superseded, jobVars, detached, syncVars, clock>>

\* NativeS3Storage::delete_matching.  An error leaves the index entry behind,
\* after any part of the objects is gone.
Sweep(p) ==
    LET h == req[p].hash
    IN  /\ pc[p] = "sweep"
        /\ \/ /\ files' = [files EXCEPT ![h] = @ \ S3Copies(h)]
              /\ IF cur[p] = None THEN Finish(p) ELSE GoTo(p, "unindex")
           \/ /\ "s3" \in Faults
              /\ \E gone \in SUBSET S3Copies(h) : files' = [files EXCEPT ![h] = @ \ gone]
              /\ Finish(p)
        /\ UNCHANGED <<index, quarantined, superseded, jobVars, detached, syncVars, clock>>

\* remove_if_location_matches
Unindex(p) ==
    LET h == req[p].hash
    IN  /\ pc[p] = "unindex"
        /\ index' = IF index[h] # None /\ index[h].loc = cur[p].loc
                      THEN [index EXCEPT ![h] = None] ELSE index
        /\ Finish(p)
        /\ UNCHANGED <<files, quarantined, superseded, jobVars, detached, syncVars, clock>>


-----------------------------------------------------------------------------
(* The cleanup job: enforce_storage_limits_at.  It reconciles superseded    *)
(* copies, then evicts expired entries, then entries over capacity, each    *)
(* pass working through a snapshot of the index that ages meanwhile.        *)

\* reconcile_superseded_blobs takes the whole queue.
TakeSuperseded ==
    /\ phase = "sleep"
    /\ phase' = "reconcile"
    /\ todo' = {[how |-> "reconcile", hash |-> c.hash, loc |-> c.loc, want |-> None] :
                   c \in superseded}
    /\ superseded' = {}
    /\ UNCHANGED <<index, files, quarantined, taskVars, retry, detached, syncVars, clock>>

\* The next queued copy or eviction candidate.
NextItem ==
    /\ \E r \in todo : todo' = todo \ {r} /\ Begin(Cleaner, r)
    /\ UNCHANGED <<index, files, quarantined, superseded, phase, retry, detached, syncVars, clock>>

\* The copy is removed without a look at the index.
Reconcile(p) ==
    LET h == req[p].hash
    IN  /\ pc[p] = "reconcile"
        /\ \/ /\ files' = [files EXCEPT ![h] = @ \ {req[p].loc}]
              /\ UNCHANGED retry
           \/ /\ MayFail(req[p].loc)
              /\ retry' = retry \cup {[hash |-> h, loc |-> req[p].loc]}
              /\ UNCHANGED files
        /\ Finish(p)
        /\ UNCHANGED <<index, quarantined, superseded, phase, todo, detached, syncVars, clock>>

\* Mutant: the capacity pass leads to no further state of the job.
PassAfterLost(ph) ==
    CASE ph = "reconcile" -> "expired"
      [] ph = "expired"   -> "capacity"
      [] OTHER            -> "stopped"

PassAfter(ph) ==
    CASE ph = "reconcile" -> "expired"
      [] ph = "expired"   -> "capacity"
      [] OTHER            -> "sleep"

\* A pass ends; failed reconciliations are queued again, and a snapshot of the
\* index supplies the next pass.  Which entries of it are expired or over
\* capacity is left open.
NextPass ==
    LET next == PassAfter(phase)
        snapshot == {[how |-> "Evicted", hash |-> h, loc |-> None, want |-> index[h]] :
                        h \in {g \in Hashes : index[g] # None}}
    IN  /\ phase # "sleep" /\ todo = {} /\ pc[Cleaner] = "idle"
        /\ phase' = next
        /\ todo' \in IF next = "sleep" THEN {{}} ELSE SUBSET snapshot
        /\ superseded' = superseded \cup retry
        /\ retry' = {}
        /\ UNCHANGED <<index, files, quarantined, taskVars, detached, syncVars, clock>>

-----------------------------------------------------------------------------
(* Cancelled requests.                                                      *)

\* The operations a task may have outstanding where it awaits.
InFlight(p) ==
    LET op(o, loc) == [op |-> o, hash |-> req[p].hash, loc |-> loc]
    IN  CASE pc[p] = "clear"                 -> {op("remove", req[p].loc)}
          [] pc[p] = "put"                   -> {op("place", req[p].loc)}
          [] pc[p] \in {"displaced", "unlink"} -> {op("remove", cur[p].loc)}
          [] pc[p] = "quarantine"            -> {op("quarantine", cur[p].loc)}
          [] pc[p] = "sweep"                 -> {op("remove", loc) : loc \in S3Copies(req[p].hash)}
          [] OTHER                           -> {}

\* Mutant: a cancelled request leaves its guard locked.
CancelWithGuard(p) ==
    /\ "cancel" \in Faults
    /\ pc[p] # "idle" /\ req[p].how # "cache"
    /\ FinishWithGuard(p)
    /\ UNCHANGED <<index, files, quarantined, superseded, jobVars, detached, syncVars, clock>>

\* The handler's future is dropped.  Cache fills run in tasks of their own and
\* are not cancelled.  A rename either ran before the dropped temporary file was
\* unlinked or finds nothing to rename.
Cancel(p) ==
    /\ "cancel" \in Faults
    /\ pc[p] # "idle" /\ req[p].how # "cache"
    /\ \E ops \in SUBSET InFlight(p) : detached' = detached \cup ops
    /\ Cardinality(detached') <= MaxDetached
    /\ files' \in IF pc[p] = "rename"
                    THEN {files, [files EXCEPT ![req[p].hash] = @ \cup {req[p].loc}]}
                    ELSE {files}
    /\ pc' = [pc EXCEPT ![p] = "idle"]
    /\ req' = [req EXCEPT ![p] = None]
    /\ cur' = [cur EXCEPT ![p] = None]
    /\ lock' = IF pc[p] \in {"find", "lock"} THEN lock
               ELSE [lock EXCEPT ![req[p].hash] = None]
    /\ UNCHANGED <<index, quarantined, superseded, jobVars, syncVars, clock>>

\* An operation whose request is gone takes effect.
RunDetached ==
    /\ \E d \in detached :
         /\ detached' = detached \ {d}
         /\ files' = [files EXCEPT ![d.hash] =
                        IF d.op = "place" THEN @ \cup {d.loc} ELSE @ \ {d.loc}]
         /\ quarantined' = IF d.op = "quarantine" /\ d.loc \in files[d.hash]
                             THEN quarantined \cup {d.hash} ELSE quarantined
    /\ UNCHANGED <<index, taskVars, superseded, jobVars, syncVars, clock>>

-----------------------------------------------------------------------------
(* sync_index in the S3 recovery job.  It takes no guard.                   *)

SyncList ==
    /\ S3Configured /\ ~s3up /\ ~syncing
    /\ syncing' = TRUE
    /\ listing' = {c \in Copies : c.loc \in S3Copies(c.hash)}
    /\ UNCHANGED <<index, files, quarantined, taskVars, superseded, jobVars, detached,
                   s3up, merge, clock>>

SyncContains ==
    /\ syncing /\ merge = None
    /\ \E c \in listing :
         /\ listing' = listing \ {c}
         /\ merge' = IF index[c.hash] = None THEN c ELSE None
    /\ UNCHANGED <<index, files, quarantined, taskVars, superseded, jobVars, detached,
                   s3up, syncing, clock>>

SyncInsert ==
    /\ merge # None
    /\ \E c \in 0..clock :
         index' = [index EXCEPT ![merge.hash] = [loc |-> merge.loc, created |-> c]]
    /\ merge' = None
    /\ UNCHANGED <<files, quarantined, taskVars, superseded, jobVars, detached,
                   s3up, syncing, listing, clock>>

\* Mutant: a successful listing does not mark the bucket available.
SyncDoneStaysDown ==
    /\ syncing /\ listing = {} /\ merge = None
    /\ syncing' = FALSE
    /\ UNCHANGED <<index, files, quarantined, taskVars, superseded, jobVars, detached,
                   s3up, listing, merge, clock>>

SyncDone ==
    /\ syncing /\ listing = {} /\ merge = None
    /\ s3up' = TRUE /\ syncing' = FALSE
    /\ UNCHANGED <<index, files, quarantined, taskVars, superseded, jobVars, detached,
                   listing, merge, clock>>

Tick ==
    /\ clock < MaxClock
    /\ clock' = clock + 1
    /\ UNCHANGED <<index, files, quarantined, taskVars, superseded, jobVars, detached, syncVars>>

-----------------------------------------------------------------------------
\* One step of a task that has started.
Step(p) ==
    \/ Find(p) \/ Lock(p)
    \/ CheckPublication(p) \/ ClearTarget(p) \/ Rename(p) \/ Put(p)
    \/ PublishMetadata(p) \/ RemoveDisplaced(p)
    \/ ReadCurrent(p) \/ Unlink(p) \/ Quarantine(p) \/ Sweep(p) \/ Unindex(p)
    \/ Reconcile(p)

Request(p) ==
    \E h \in Hashes :
        \/ \E how \in Publications, n \in Names : StartPublish(p, h, how, n)
        \/ \E how \in Removals \ {"Evicted"} : StartRemove(p, h, how)
        \/ StartLookup(p, h)

CleanupJob == TakeSuperseded \/ NextItem \/ NextPass

S3Recovery == SyncList \/ SyncContains \/ SyncInsert \/ SyncDone

Next ==
    \/ \E p \in Requests : Request(p) \/ Cancel(p)
    \/ \E p \in Tasks : Step(p)
    \/ CleanupJob
    \/ S3Recovery
    \/ RunDetached
    \/ Restart
    \/ Tick

Spec == Init /\ [][Next]_vars

\* The runtime keeps polling every task that can make progress, and tokio's
\* Mutex hands a guard to its waiters in the order they arrived, so no waiter
\* is overtaken for ever.  The recovery job's listing eventually succeeds.
Fairness ==
    /\ \A p \in Tasks : WF_vars(Step(p)) /\ SF_vars(Lock(p))
    /\ WF_vars(CleanupJob)
    /\ WF_vars(S3Recovery)

FairSpec == Spec /\ Fairness

-----------------------------------------------------------------------------
(* Properties.                                                              *)

Labels == {"idle", "find", "lock", "check", "clear", "rename", "put", "publish", "displaced",
           "read", "unlink", "quarantine", "sweep", "unindex", "reconcile"}

\* Every variable holds a value of the kind its Rust type allows.
TypeOK ==
    /\ index \in [Hashes -> Entries \cup {None}]
    /\ files \in [Hashes -> SUBSET Locations]
    /\ quarantined \subseteq Hashes
    /\ lock \in [Hashes -> Tasks \cup {None}]
    /\ pc \in [Tasks -> Labels]
    /\ req \in [Tasks -> Reqs \cup {None}]
    /\ cur \in [Tasks -> Entries \cup {None}]
    /\ superseded \subseteq Copies /\ retry \subseteq Copies
    /\ phase \in {"sleep", "reconcile", "expired", "capacity"}
    /\ todo \subseteq Reqs
    /\ detached \subseteq DetachedOps
    /\ s3up \in BOOLEAN /\ syncing \in BOOLEAN
    /\ listing \subseteq Copies /\ merge \in Copies \cup {None}
    /\ clock \in 0..MaxClock

\* The task is past the acquisition of its hash's guard.
Guarded(p) == pc[p] \notin {"idle", "find", "lock"}

\* A guard is held by exactly the task that works on its hash: publication,
\* removal, discovery, reconciliation and cancellation neither share a guard
\* nor leave one behind (BlobMutationLocks, file_storage.rs).
GuardExact ==
    /\ \A p \in Tasks : Guarded(p) => lock[req[p].hash] = p
    /\ \A h \in Hashes : lock[h] # None => Guarded(lock[h]) /\ req[lock[h]].hash = h

\* An indexed hash whose guard is free has bytes at the indexed location, so a
\* GET can serve it and an upload answered with the existing entry is stored.
IndexedHasBytes ==
    \A h \in Hashes : index[h] # None /\ lock[h] = None => index[h].loc \in files[h]

\* A hash whose guard is free has no local copy the index does not point at, so
\* interrupted publications and collisions leak no disk space.
NoOrphans ==
    \A h \in Hashes : lock[h] = None =>
        \A loc \in files[h] : index[h] # None /\ index[h].loc = loc

\* As NoOrphans, where removals may fail: a leftover copy is still queued for
\* reconciliation (superseded_blob_deletions, or the batch being retried).
LeftoversAreQueued ==
    LET queued(h, loc) == \/ [hash |-> h, loc |-> loc] \in superseded \cup retry
                          \/ \E r \in todo : r.how = "reconcile" /\ r.hash = h /\ r.loc = loc
                          \/ /\ req[Cleaner] # None
                             /\ req[Cleaner].how = "reconcile"
                             /\ req[Cleaner].hash = h /\ req[Cleaner].loc = loc
    IN  \A h \in Hashes : lock[h] = None =>
            \A loc \in files[h] : (index[h] # None /\ index[h].loc = loc) \/ queued(h, loc)

\* A hash with a file in the quarantine root is not served and cannot be
\* published again: once its guard is free it has no index entry.
QuarantineIsFinal ==
    \A h \in quarantined : lock[h] = None => index[h] = None

\* A report resolved as a quarantine leaves a record in the quarantine root,
\* which is what keeps the hash from being uploaded again.
QuarantineBars ==
    [][\A p \in Tasks :
         pc[p] = "unindex" /\ pc'[p] = "idle" /\ req[p].how = "Quarantined"
           => req[p].hash \in quarantined']_vars

\* From the metadata read to the index mutation, a removal works on the entry
\* that is indexed, and an eviction on the very entry its snapshot selected: a
\* republished hash is never removed through a stale candidate.
GuardSpansRemoval ==
    \A p \in Tasks :
        pc[p] \in {"unlink", "quarantine", "unindex"} =>
            /\ index[req[p].hash] = cur[p]
            /\ req[p].want # None => req[p].want = cur[p]

\* `expect("published blob must remain indexed")` in publish_metadata: after a
\* publication has displaced an entry, its own entry stays until it returns.
PublishedStaysIndexed ==
    \A p \in Tasks : pc[p] = "displaced" =>
        index[req[p].hash] # None /\ index[req[p].hash].loc = req[p].loc

\* An index entry of upload origin is never replaced by a cached copy; it goes
\* only by being removed.
UploadNotReplacedByCache ==
    [][\A h \in Hashes :
         index[h] # None /\ Origin(index[h].loc) = "Upload" /\ index'[h] # None
           => Origin(index'[h].loc) = "Upload"]_vars

\* sync_index keeps local copies in place: merging the bucket's listing never
\* replaces an entry that points at a local file.
LocalKeepsPrecedence ==
    [][merge # None /\ merge' = None /\ index[merge.hash] # None
         => index[merge.hash].loc.tier = "s3" \/ index' = index]_vars

\* A requested or reported removal that reaches its last step leaves no entry
\* and no bucket object of the hash behind, whichever of them it started from.
DeleteIsComplete ==
    [][\A p \in Tasks :
         pc[p] = "unindex" /\ pc'[p] = "idle" /\ SweepsBackend(req[p].how)
           => index'[req[p].hash] = None /\ At(files'[req[p].hash], "s3") = {}]_vars


\* How a deployment without a bucket keeps the promise of BlobService: a hash
\* with a file in the quarantine root is barred, an indexed one is held at its
\* tier.  An operation has taken effect once its index entry is published or
\* its file is in quarantine, and returns a step later or in the same one.
Held(h) ==
    IF h \in quarantined THEN "barred"
    ELSE IF index[h] = None THEN "absent"
    ELSE IF Origin(index[h].loc) = "Upload" THEN "uploaded" ELSE "cached"

Under(p) ==
    IF pc[p] = "idle" THEN None
    ELSE [how |-> req[p].how, hash |-> req[p].hash,
          done |-> \/ pc[p] = "displaced"
                   \/ pc[p] = "unindex" /\ req[p].how = "Quarantined"]

\* No operation is None.
ASSUME ServiceAssumption ==
    None \notin [how : Publications \cup Removals, hash : Hashes, done : BOOLEAN]

Service == INSTANCE BlobService
             WITH status <- [h \in Hashes |-> Held(h)],
                  pending <- [p \in Tasks |-> Under(p)]

\* Publication, removal, quarantine and eviction behave as atomic operations on
\* a hash, although index and disk change in separate steps and the process may
\* die between any two of them.
ImplementsService == Service!Spec


\* Every operation on a blob returns: no task waits for ever for a guard, and
\* the cleanup job is not stopped by one.
EveryTaskReturns == \A p \in Tasks : pc[p] # "idle" ~> pc[p] = "idle"

\* A bucket that could not be listed at startup becomes available again.
BucketRecovers == S3Configured /\ ~s3up ~> s3up

=============================================================================
