----------------------------- MODULE ChunkUpload -----------------------------
(***************************************************************************)
(* Resumable uploads: the session registry (services/chunk_sessions.rs),   *)
(* the PATCH /upload handler that feeds it (handlers/upload.rs), and the   *)
(* job that collects abandoned chunks (utils.rs).                          *)
(*                                                                         *)
(* Every PATCH carries one chunk.  It reserves capacity, streams the body  *)
(* to a file of its own, and commits the chunk to the session of its key;  *)
(* the request whose commit completes the session owns it from then on,    *)
(* charges for it and rebuilds the blob.  A step ends where the code       *)
(* awaits.  The registry's RwLock makes each of its methods one step.      *)
(*                                                                         *)
(* Time is kept as ages in ticks: of sessions (created_at) and of chunk    *)
(* files (modification time).  A request lasts at most RequestTicks, the   *)
(* 60 seconds of the TimeoutLayer in lib.rs.  Faults:                      *)
(*   "cancel"  a request's future is dropped at an await;                  *)
(*   "io"      creating, writing or rebuilding fails, as does the body;    *)
(*   "unpaid"  a completed upload is not paid for (402 or a failing mint); *)
(*   "tempdir" the temporary directory cannot be made before rebuilding.   *)
(* Unlinking a file succeeds: the code ignores the result where it does    *)
(* not.                                                                    *)
(***************************************************************************)
EXTENDS Naturals, FiniteSets, FiniteSetsExt

CONSTANTS
    Owners, Hashes,     \* authenticated keys and blob hashes
    Types, Lengths,     \* Upload-Type and Upload-Length values
    Requests,           \* concurrent PATCH handlers
    Files,              \* chunk file names, the bound on chunk files at one time
    MaxSessions, MaxSessionsPerPubkey,
    Timeout,            \* chunk_cleanup_timeout, in ticks
    RequestTicks,       \* the life of a request, in ticks
    MaxReservations,    \* bound on the reservations counted for one key
    Faults,
    None

Keys == [pubkey : Owners, sha256 : Hashes]
Params == [type : Types, length : Lengths]
Offsets == UNION {0..n : n \in Lengths}
Chunks == [off : Offsets, len : Offsets, file : Files]
Uploads == [params : Params, chunks : SUBSET Chunks, age : 0..Timeout]
Patches == [key : Keys, params : Params, off : Offsets, len : Offsets]

ASSUME ChunkAssumption ==
    /\ Lengths \subseteq Nat \ {0}
    /\ MaxSessions \in Nat /\ MaxSessionsPerPubkey \in Nat
    /\ Timeout \in Nat \ {0} /\ RequestTicks \in Nat \ {0}
    /\ MaxReservations \in Nat
    /\ Faults \subseteq {"cancel", "io", "unpaid", "tempdir"}
    /\ IsFiniteSet(Requests)
    /\ None \notin Nat \cup Files \cup Uploads \cup Patches

VARIABLES
    uploads,    \* ChunkSessions.uploads
    pending,    \* ChunkSessions.pending: reservations of each key
    disk,       \* the age of each chunk file, or None where there is none
    pc, patch,  \* each request's step and what it asks for
    file,       \* the chunk file it created
    claim,      \* the completed upload it owns
    unread,     \* the chunks its reconstruction still has to read
    drop,       \* the files it still has to unlink
    life,       \* how long it has been running
    phase, victims  \* the cleanup job and the files it is about to unlink

reqVars == <<pc, patch, file, claim, unread, drop, life>>
jobVars == <<phase, victims>>
vars == <<uploads, pending, disk, reqVars, jobVars>>

-----------------------------------------------------------------------------
FilesOf(chunks) == {c.file : c \in chunks}

\* The chunk a request commits.
Chunk(r) == [off |-> patch[r].off, len |-> patch[r].len, file |-> file[r]]

Overlaps(c, d) == c.off < d.off + d.len /\ d.off < c.off + c.len

Received(chunks) == MapThenSumSet(LAMBDA c : c.len, chunks)

\* The coverage check of reconstruct_blob: in offset order every chunk starts
\* where the one before it ended, and the last one ends at the upload's length.
Covers(upload) ==
    /\ \A c \in upload.chunks :
         c.off = Received({d \in upload.chunks : d.off < c.off})
    /\ Received(upload.chunks) = upload.params.length

\* Sessions that count toward the limits: stored, or only reserved.
Live == {k \in Keys : uploads[k] # None \/ pending[k] > 0}

\* The chunk files something still answers for: a session, the request that
\* writes it, or the request that owns the completed upload.
OwnersOf(f) ==
    {k \in Keys : uploads[k] # None /\ f \in FilesOf(uploads[k].chunks)}
      \cup {r \in Requests : f = file[r]}
      \cup {r \in Requests : claim[r] # None /\ f \in FilesOf(claim[r].chunks)}

\* Names are made from fresh UUIDs: one is reused only once nothing knows it.
Fresh == {f \in Files : disk[f] = None /\ OwnersOf(f) = {} /\ f \notin victims}

Init ==
    /\ uploads = [k \in Keys |-> None]
    /\ pending = [k \in Keys |-> 0]
    /\ disk = [f \in Files |-> None]
    /\ pc = [r \in Requests |-> "idle"]
    /\ patch = [r \in Requests |-> None]
    /\ file = [r \in Requests |-> None]
    /\ claim = [r \in Requests |-> None]
    /\ unread = [r \in Requests |-> {}]
    /\ drop = [r \in Requests |-> {}]
    /\ life = [r \in Requests |-> 0]
    /\ phase = "sleep" /\ victims = {}

-----------------------------------------------------------------------------
(* PATCH /upload.                                                           *)

GoTo(r, label) == pc' = [pc EXCEPT ![r] = label]

\* The handler returns: its locals are dropped.
Return(r) ==
    /\ pc' = [pc EXCEPT ![r] = "idle"]
    /\ patch' = [patch EXCEPT ![r] = None]
    /\ file' = [file EXCEPT ![r] = None]
    /\ claim' = [claim EXCEPT ![r] = None]
    /\ unread' = [unread EXCEPT ![r] = {}]
    /\ drop' = [drop EXCEPT ![r] = {}]
    /\ life' = [life EXCEPT ![r] = 0]

\* Mutant: reservations do not count toward the limits.
MayReserveStoredOnly(k) ==
    LET stored == {j \in Keys : uploads[j] # None}
    IN  \/ k \in Live
        \/ /\ Cardinality(stored) < MaxSessions
           /\ Cardinality({j \in stored : j.pubkey = k.pubkey}) < MaxSessionsPerPubkey

\* ChunkSessions::reserve: a key with a session or a reservation is admitted,
\* a new one only below both limits.
MayReserve(k) ==
    \/ k \in Live
    \/ /\ Cardinality(Live) < MaxSessions
       /\ Cardinality({j \in Live : j.pubkey = k.pubkey}) < MaxSessionsPerPubkey

\* The bounds of the model: chunk files and counted reservations.
WithinBounds(k) ==
    /\ Cardinality({r \in Requests : pc[r] = "reserved"}) < Cardinality(Fresh)
    /\ pending[k] < MaxReservations

\* A chunk that passed the header checks reserves its place.
Reserve(r, k, p, off, len) ==
    /\ pc[r] = "idle"
    /\ len > 0 /\ off + len <= p.length
    /\ MayReserve(k)
    /\ WithinBounds(k)
    /\ pending' = [pending EXCEPT ![k] = @ + 1]
    /\ patch' = [patch EXCEPT ![r] = [key |-> k, params |-> p, off |-> off, len |-> len]]
    /\ GoTo(r, "reserved")
    /\ UNCHANGED <<uploads, disk, file, claim, unread, drop, life, jobVars>>

\* The chunk file is created; the capacity check or the directories may fail
\* before that.
CreateFile(r) ==
    /\ pc[r] = "reserved"
    /\ \/ \E f \in Fresh :
            /\ file' = [file EXCEPT ![r] = f]
            /\ disk' = [disk EXCEPT ![f] = 0]
            /\ GoTo(r, "body")
       \/ /\ "io" \in Faults
          /\ GoTo(r, "release")
          /\ UNCHANGED <<file, disk>>
    /\ UNCHANGED <<uploads, pending, patch, claim, unread, drop, life, jobVars>>

\* The body arrives, or breaks off, exceeds or falls short of Content-Length.
StreamBody(r) ==
    /\ pc[r] = "body"
    /\ \/ /\ disk' = [disk EXCEPT ![file[r]] = 0]
          /\ GoTo(r, "commit")
       \/ /\ "io" \in Faults
          /\ GoTo(r, "abort")
          /\ UNCHANGED disk
    /\ UNCHANGED <<uploads, pending, patch, file, claim, unread, drop, life, jobVars>>

\* The partial chunk is removed before the reservation is released.
AbortBody(r) ==
    /\ pc[r] = "abort"
    /\ disk' = [disk EXCEPT ![file[r]] = None]
    /\ file' = [file EXCEPT ![r] = None]
    /\ GoTo(r, "release")
    /\ UNCHANGED <<uploads, pending, patch, claim, unread, drop, life, jobVars>>

\* Mutant: the ticket is spent by the method and once more by its destructor,
\* without a look at the count.
ConsumedTwice(k) == [pending EXCEPT ![k] = @ - 2]

\* consume_reservation
Consumed(k) == [pending EXCEPT ![k] = IF @ = 0 THEN 0 ELSE @ - 1]

\* ChunkSessions::release
Release(r) ==
    /\ pc[r] = "release"
    /\ pending' = Consumed(patch[r].key)
    /\ Return(r)
    /\ UNCHANGED <<uploads, disk, jobVars>>

\* The session as it will be if the chunk of r is accepted.
Extended(r) ==
    LET k == patch[r].key
        old == IF uploads[k] = None
                 THEN [params |-> patch[r].params, chunks |-> {}, age |-> 0]
                 ELSE uploads[k]
    IN  [old EXCEPT !.chunks = @ \cup {Chunk(r)}]

\* Mutant: chunks of one session are not compared with each other.
ConflictsIgnoreOverlap(r) ==
    LET old == uploads[patch[r].key]
    IN  pending[patch[r].key] = 0 \/ (old # None /\ old.params # patch[r].params)

\* Why commit turns a chunk away: no reservation, other parameters, an overlap.
Conflicts(r) ==
    LET old == uploads[patch[r].key]
    IN  \/ pending[patch[r].key] = 0
        \/ /\ old # None
           /\ \/ old.params # patch[r].params
              \/ \E c \in old.chunks : Overlaps(Chunk(r), c)

\* Mutant: a chunk that does not complete its session keeps its reservation.
CommitKeepsReservation(r) ==
    LET k == patch[r].key
        done == ~Conflicts(r) /\ Received(Extended(r).chunks) = patch[r].params.length
    IN  /\ pc[r] = "commit"
        /\ pending' = IF done \/ Conflicts(r) THEN Consumed(k) ELSE pending
        /\ \/ /\ Conflicts(r)
              /\ drop' = [drop EXCEPT ![r] = {file[r]}]
              /\ GoTo(r, "discard")
              /\ UNCHANGED <<uploads, patch, file, claim, unread, life>>
           \/ /\ done
              /\ uploads' = [uploads EXCEPT ![k] = None]
              /\ claim' = [claim EXCEPT ![r] = Extended(r)]
              /\ GoTo(r, "charge")
              /\ UNCHANGED <<patch, file, unread, drop, life>>
           \/ /\ ~Conflicts(r) /\ ~done
              /\ uploads' = [uploads EXCEPT ![k] = Extended(r)]
              /\ Return(r)
        /\ UNCHANGED <<disk, jobVars>>

\* Mutant: the completed session stays in the registry while it is paid for.
CommitLeavesSession(r) ==
    LET k == patch[r].key
        done == ~Conflicts(r) /\ Received(Extended(r).chunks) = patch[r].params.length
    IN  /\ pc[r] = "commit"
        /\ pending' = Consumed(k)
        /\ \/ /\ Conflicts(r)
              /\ drop' = [drop EXCEPT ![r] = {file[r]}]
              /\ GoTo(r, "discard")
              /\ UNCHANGED <<uploads, patch, file, claim, unread, life>>
           \/ /\ done
              /\ uploads' = [uploads EXCEPT ![k] = Extended(r)]
              /\ claim' = [claim EXCEPT ![r] = Extended(r)]
              /\ GoTo(r, "charge")
              /\ UNCHANGED <<patch, file, unread, drop, life>>
           \/ /\ ~Conflicts(r) /\ ~done
              /\ uploads' = [uploads EXCEPT ![k] = Extended(r)]
              /\ Return(r)
        /\ UNCHANGED <<disk, jobVars>>

\* ChunkSessions::commit: the reservation is spent in any case; an accepted
\* chunk either joins its session or completes it, and then the session leaves
\* the registry with the request.
Commit(r) ==
    LET k == patch[r].key
        done == ~Conflicts(r) /\ Received(Extended(r).chunks) = patch[r].params.length
    IN  /\ pc[r] = "commit"
        /\ pending' = Consumed(k)
        /\ \/ /\ Conflicts(r)
              /\ drop' = [drop EXCEPT ![r] = {file[r]}]
              /\ GoTo(r, "discard")
              /\ UNCHANGED <<uploads, patch, file, claim, unread, life>>
           \/ /\ done
              /\ uploads' = [uploads EXCEPT ![k] = None]
              /\ claim' = [claim EXCEPT ![r] = Extended(r)]
              /\ GoTo(r, "charge")
              /\ UNCHANGED <<patch, file, unread, drop, life>>
           \/ /\ ~Conflicts(r) /\ ~done
              /\ uploads' = [uploads EXCEPT ![k] = Extended(r)]
              /\ Return(r)
        /\ UNCHANGED <<disk, jobVars>>

\* cashu::charge, then the coverage check: a rejected payment leads to restore.
Charge(r) ==
    /\ pc[r] = "charge"
    /\ \/ IF Covers(claim[r])
            THEN /\ unread' = [unread EXCEPT ![r] = claim[r].chunks]
                 /\ GoTo(r, "rebuild") /\ UNCHANGED drop
            ELSE /\ drop' = [drop EXCEPT ![r] = FilesOf(claim[r].chunks)]
                 /\ GoTo(r, "discard") /\ UNCHANGED unread
       \/ /\ "unpaid" \in Faults
          /\ GoTo(r, "restore") /\ UNCHANGED <<unread, drop>>
    /\ UNCHANGED <<uploads, pending, disk, patch, file, claim, life, jobVars>>

\* ensure_temp_dir fails at the start of the rebuilding: the handler returns at
\* once and the chunk files stay.
LoseTempDir(r) ==
    /\ "tempdir" \in Faults
    /\ pc[r] = "rebuild" /\ unread[r] = claim[r].chunks
    /\ Return(r)
    /\ UNCHANGED <<uploads, pending, disk, jobVars>>

\* Mutant: a refused restore only removes the last chunk's file.
RestoreDropsLast(r) ==
    LET k == patch[r].key
        kept == [claim[r] EXCEPT !.chunks = @ \ {Chunk(r)}]
    IN  /\ pc[r] = "restore"
        /\ IF k \in Live THEN UNCHANGED uploads ELSE uploads' = [uploads EXCEPT ![k] = kept]
        /\ drop' = [drop EXCEPT ![r] = {file[r]}]
        /\ claim' = [claim EXCEPT ![r] = None]
        /\ GoTo(r, "discard")
        /\ UNCHANGED <<pending, disk, patch, file, unread, life, jobVars>>

\* ChunkSessions::restore: the session comes back without its last chunk, or,
\* where another request has taken its key, all of its files go.
Restore(r) ==
    LET k == patch[r].key
        kept == [claim[r] EXCEPT !.chunks = @ \ {Chunk(r)}]
    IN  /\ pc[r] = "restore"
        /\ IF k \in Live
             THEN /\ drop' = [drop EXCEPT ![r] = FilesOf(claim[r].chunks)]
                  /\ UNCHANGED <<uploads, claim>>
             ELSE /\ uploads' = [uploads EXCEPT ![k] = kept]
                  /\ drop' = [drop EXCEPT ![r] = {file[r]}]
                  /\ claim' = [claim EXCEPT ![r] = None]
        /\ GoTo(r, "discard")
        /\ UNCHANGED <<pending, disk, patch, file, unread, life, jobVars>>

\* reconstruct_blob reads the chunks in offset order; a missing file ends it.
ReadChunk(r) ==
    /\ pc[r] = "rebuild"
    /\ \E c \in unread[r] :
         /\ \A d \in unread[r] : c.off <= d.off
         /\ IF disk[c.file] # None
              THEN unread' = [unread EXCEPT ![r] = @ \ {c}] /\ UNCHANGED <<pc, drop>>
              ELSE /\ drop' = [drop EXCEPT ![r] = FilesOf(claim[r].chunks)]
                   /\ unread' = [unread EXCEPT ![r] = {}]
                   /\ GoTo(r, "discard")
    /\ UNCHANGED <<uploads, pending, disk, patch, file, claim, life, jobVars>>

\* The hash is compared and the blob published (BlobStore); whether or not that
\* succeeds, and after a failed read or write, the chunk files are discarded.
PublishRebuilt(r) ==
    /\ pc[r] = "rebuild" /\ (unread[r] = {} \/ "io" \in Faults)
    /\ drop' = [drop EXCEPT ![r] = FilesOf(claim[r].chunks)]
    /\ unread' = [unread EXCEPT ![r] = {}]
    /\ GoTo(r, "discard")
    /\ UNCHANGED <<uploads, pending, disk, patch, file, claim, life, jobVars>>

\* discard_chunk_files, one file after the other, then the response.
Discard(r) ==
    /\ pc[r] = "discard"
    /\ \/ \E f \in drop[r] :
            /\ disk' = [disk EXCEPT ![f] = None]
            /\ drop' = [drop EXCEPT ![r] = @ \ {f}]
            /\ UNCHANGED <<pc, patch, file, claim, unread, life>>
       \/ drop[r] = {} /\ Return(r) /\ UNCHANGED disk
    /\ UNCHANGED <<uploads, pending, jobVars>>

\* The future is dropped.  A ReservationTicket has no destructor and neither
\* has a chunk file, so both stay behind.
Cancel(r) ==
    /\ "cancel" \in Faults /\ pc[r] # "idle"
    /\ Return(r)
    /\ UNCHANGED <<uploads, pending, disk, jobVars>>

-----------------------------------------------------------------------------
(* cleanup_abandoned_chunks.                                                *)

\* Mutant: only sessions that never got a chunk count as abandoned.
AbandonedEmpty(k) ==
    uploads[k] # None /\ uploads[k].chunks = {} /\ pending[k] = 0 /\ uploads[k].age >= Timeout

Abandoned(k) == uploads[k] # None /\ pending[k] = 0 /\ uploads[k].age >= Timeout

\* Mutant: sessions with a body in flight are evicted like any other.
EvictReserved ==
    LET gone == {k \in Keys : uploads[k] # None /\ uploads[k].age >= Timeout}
    IN  /\ phase = "sleep"
        /\ phase' = "evicted"
        /\ victims' = UNION {FilesOf(uploads[k].chunks) : k \in gone}
        /\ uploads' = [k \in Keys |-> IF k \in gone THEN None ELSE uploads[k]]
        /\ UNCHANGED <<pending, disk, reqVars>>

\* ChunkSessions::evict_older_than
Evict ==
    LET gone == {k \in Keys : Abandoned(k)}
    IN  /\ phase = "sleep"
        /\ phase' = "evicted"
        /\ victims' = UNION {FilesOf(uploads[k].chunks) : k \in gone}
        /\ uploads' = [k \in Keys |-> IF k \in gone THEN None ELSE uploads[k]]
        /\ UNCHANGED <<pending, disk, reqVars>>

RemoveVictim ==
    /\ \E f \in victims :
         /\ victims' = victims \ {f}
         /\ disk' = [disk EXCEPT ![f] = None]
    /\ UNCHANGED <<uploads, pending, reqVars, phase>>

\* Mutant: only files older than any age they can reach are collected.
ScanNothing ==
    /\ phase = "evicted" /\ victims = {}
    /\ phase' = "stale"
    /\ UNCHANGED <<uploads, pending, disk, reqVars, victims>>

\* cleanup_orphaned_chunk_files: every file that is old enough, whoever it
\* belongs to.
ScanChunks ==
    /\ phase = "evicted" /\ victims = {}
    /\ phase' = "stale"
    /\ victims' = {f \in Files : disk[f] # None /\ disk[f] > Timeout}
    /\ UNCHANGED <<uploads, pending, disk, reqVars>>

EndCleanup ==
    /\ phase = "stale" /\ victims = {}
    /\ phase' = "sleep"
    /\ UNCHANGED <<uploads, pending, disk, reqVars, victims>>

\* Time passes; ages beyond the timeout make no further difference.
Tick ==
    LET older(u) == IF u = None THEN None
                    ELSE [u EXCEPT !.age = IF @ < Timeout THEN @ + 1 ELSE @]
    IN  /\ \A r \in Requests : pc[r] # "idle" => life[r] < RequestTicks
        /\ life' = [r \in Requests |-> IF pc[r] = "idle" THEN 0 ELSE life[r] + 1]
        /\ uploads' = [k \in Keys |-> older(uploads[k])]
        /\ claim' = [r \in Requests |-> older(claim[r])]
        /\ disk' = [f \in Files |-> IF disk[f] = None THEN None
                                    ELSE IF disk[f] <= Timeout THEN disk[f] + 1 ELSE disk[f]]
        /\ UNCHANGED <<pending, pc, patch, file, unread, drop, jobVars>>

-----------------------------------------------------------------------------
Patch(r) ==
    \E k \in Keys, p \in Params, off, len \in Offsets : Reserve(r, k, p, off, len)

Step(r) ==
    \/ CreateFile(r) \/ StreamBody(r) \/ AbortBody(r) \/ Release(r)
    \/ Commit(r) \/ Charge(r) \/ Restore(r)
    \/ LoseTempDir(r) \/ ReadChunk(r) \/ PublishRebuilt(r) \/ Discard(r)

Cleanup == Evict \/ RemoveVictim \/ ScanChunks \/ EndCleanup

Next ==
    \/ \E r \in Requests : Patch(r) \/ Step(r) \/ Cancel(r)
    \/ Cleanup
    \/ Tick

Spec == Init /\ [][Next]_vars

\* The runtime polls every request and the cleanup job, which wakes up every
\* five minutes, and time passes.
Fairness ==
    /\ \A r \in Requests : WF_vars(Step(r))
    /\ WF_vars(Cleanup)
    /\ WF_vars(Tick)

FairSpec == Spec /\ Fairness

-----------------------------------------------------------------------------
(* Properties.                                                              *)

Labels == {"idle", "reserved", "body", "abort", "release", "commit", "charge", "restore",
           "rebuild", "discard"}

\* Every variable holds a value of the kind its Rust type allows.
TypeOK ==
    /\ uploads \in [Keys -> Uploads \cup {None}]
    /\ pending \in [Keys -> Nat]
    /\ disk \in [Files -> 0..Timeout + 1 \cup {None}]
    /\ pc \in [Requests -> Labels]
    /\ patch \in [Requests -> Patches \cup {None}]
    /\ file \in [Requests -> Files \cup {None}]
    /\ claim \in [Requests -> Uploads \cup {None}]
    /\ unread \in [Requests -> SUBSET Chunks]
    /\ drop \in [Requests -> SUBSET Files]
    /\ life \in [Requests -> 0..RequestTicks]
    /\ phase \in {"sleep", "evicted", "stale"}
    /\ victims \subseteq Files

\* The request holds a ReservationTicket it has not yet spent.
HoldsTicket(r) == pc[r] \in {"reserved", "body", "abort", "release", "commit"}

\* "The ticket is released on every pre-commit error" (patch_upload): the
\* reservations counted for a key are those of requests still under way.
ReservationsAreHeld ==
    \A k \in Keys :
        pending[k] = Cardinality({r \in Requests : HoldsTicket(r) /\ patch[r].key = k})

\* A session that commit hands out as complete has its chunks side by side from
\* the first byte to the last, so the gap checks of reconstruct_blob and the
\* early returns before it never fire on a paid upload.
ClaimCovers == \A r \in Requests : claim[r] # None => Covers(claim[r])

\* A chunk belongs to one session, one running request or one completed upload:
\* no chunk is counted, charged, rebuilt or discarded through two of them.
ChunkOwnedOnce == \A f \in Files : Cardinality(OwnersOf(f)) <= 1

\* "clean every temporary path on both success and failure" (reconstruct_blob),
\* and so everywhere in the handler: without cancelled requests whatever chunk
\* file is on disk is answered for, or on the cleanup job's list.
NoForgottenFile ==
    \A f \in Files : disk[f] # None => OwnersOf(f) # {} \/ f \in victims

\* Every chunk file has exactly one owner as long as it is on disk.
FilesAccounted == TypeOK /\ ChunkOwnedOnce /\ NoForgottenFile

\* Stored and reserved sessions stay within max_sessions and
\* max_sessions_per_pubkey.
CapacityRespected ==
    /\ Cardinality(Live) <= MaxSessions
    /\ \A o \in Owners : Cardinality({k \in Live : k.pubkey = o}) <= MaxSessionsPerPubkey

\* "Sessions with an in-flight reserved body are retained" (evict_older_than).
BodyKeepsSession ==
    [][\A r \in Requests :
         phase = "sleep" /\ phase' = "evicted" /\ HoldsTicket(r)
           => uploads'[patch[r].key] = uploads[patch[r].key]]_vars

\* "Remove sessions idle longer than `age`" (evict_older_than): no evicted
\* session has a chunk that was written within the timeout.
OnlyIdleEvicted ==
    [][\A k \in Keys :
         phase = "sleep" /\ phase' = "evicted" /\ uploads[k] # None /\ uploads'[k] = None
           => \A f \in FilesOf(uploads[k].chunks) : disk[f] # None => disk[f] >= Timeout]_vars

\* "Clean up orphaned chunk files that don't belong to any active upload": the
\* chunks of a stored session are on disk.
SessionChunksOnDisk ==
    \A k \in Keys : uploads[k] # None => \A f \in FilesOf(uploads[k].chunks) : disk[f] # None

\* "exactly one caller observes Commit::Complete, so payment is charged exactly
\* once even when two concurrent requests both carry the final chunk".
CompletedOnce ==
    \A r, s \in Requests :
        r # s /\ claim[r] # None /\ claim[s] # None => patch[r].key # patch[s].key

\* A chunk file nobody answers for any more is removed in the end.
ForgottenFilesAreCollected ==
    \A f \in Files : disk[f] # None /\ OwnersOf(f) = {} ~> disk[f] = None

\* A session is not kept for ever: it completes or times out, unless a request
\* has reserved a place in it (evict_older_than).
AbandonedSessionsGo ==
    \A k \in Keys : uploads[k] # None ~> uploads[k] = None \/ pending[k] > 0

\* The cleanup job takes what clients leave behind, sessions and files, without
\* their help, and no session whose body is in flight (start_chunk_cleanup_job).
AbandonedDataGoes ==
    ForgottenFilesAreCollected /\ AbandonedSessionsGo /\ BodyKeepsSession
=============================================================================
