----------------------------- MODULE HlsMirror ------------------------------
(***************************************************************************)
(* Mirroring a playlist (services/hls.rs): after PUT /mirror stored an     *)
(* m3u8 a background job fetches the blobs it references, a few at a time, *)
(* then those the playlists among them reference, in rounds.  References   *)
(* may be many, repeated or circular, so the job is cut off by the depth,  *)
(* by the references of one round and by all it has seen.                  *)
(*                                                                         *)
(* The segments come in through a door of Intake, beside its other clients *)
(* and the cleanup job, which may remove a playlist before it is read.     *)
(***************************************************************************)
EXTENDS Intake, Sequences, SequencesExt

CONSTANTS
    Playlist,      \* the references of each blob; empty unless it is an m3u8
    Origin,        \* what the origin may send for each blob, with its length or not
    Slots,         \* clients that fetch segments: HLS_MIRROR_CONCURRENCY
    MaxDepth,      \* MAX_HLS_RECURSION_DEPTH
    RoundSize,     \* MAX_HLS_REFERENCES_PER_ROUND
    MaxReferences  \* MAX_HLS_REFERENCES_TOTAL

\* What the background job keeps.
Jobs == [round : Nat, all : Seq(Blobs), running : SUBSET Blobs,
         results : Seq([ref : Blobs, ok : BOOLEAN]), seen : SUBSET Blobs, next : Seq(Blobs)]

ASSUME HlsAssumption ==
    /\ Playlist \in [Blobs -> Seq(Blobs)]
    /\ Origin \in [Blobs -> SUBSET [body : Blobs, length : BOOLEAN]]
    /\ Slots \subseteq Clients /\ IsFiniteSet(Slots)
    /\ {MaxDepth, RoundSize, MaxReferences} \subseteq Nat \ {0}
    /\ Nothing \notin Jobs

VARIABLES
    job,       \* the background job, or Nothing
    attempts   \* history: how often the current job tried each blob

hlsVars == <<vars, job, attempts>>

NewJob(refs, seen) ==
    [round |-> 1, all |-> refs, running |-> {}, results |-> << >>, seen |-> seen,
     next |-> << >>]

HlsTypeOK ==
    /\ TypeOK
    /\ job # Nothing =>
         /\ job.round \in 1..MaxDepth
         /\ job.all \in Seq(job.seen) /\ Len(job.all) <= RoundSize
         /\ job.next \in Seq(job.seen)
         /\ job.running \subseteq job.seen
         /\ Cardinality(job.running) <= Cardinality(Slots)

HlsInit == Init /\ job = Nothing /\ attempts = [h \in Blobs |-> 0]

-----------------------------------------------------------------------------
(* References.                                                              *)

\* Mutant: a limit that is only looked at between playlists.
AddAll(seen, next, refs, limit) ==
    FoldLeft(LAMBDA acc, h :
               IF Cardinality(seen) >= limit \/ h \in acc.seen THEN acc
               ELSE [seen |-> acc.seen \cup {h}, next |-> Append(acc.next, h)],
             [seen |-> seen, next |-> next], refs)

\* Mutant: children that are not remembered as seen.
AddUnremembered(seen, next, refs, limit) ==
    FoldLeft(LAMBDA acc, h :
               IF Cardinality(acc.seen) >= limit \/ h \in acc.seen THEN acc
               ELSE [seen |-> acc.seen, next |-> Append(acc.next, h)],
             [seen |-> seen, next |-> next], refs)

\* The references not yet seen, each once, until the limit is reached.
Add(seen, next, refs, limit) ==
    FoldLeft(LAMBDA acc, h :
               IF Cardinality(acc.seen) >= limit \/ h \in acc.seen THEN acc
               ELSE [seen |-> acc.seen \cup {h}, next |-> Append(acc.next, h)],
             [seen |-> seen, next |-> next], refs)

FirstOf(refs, n) == SubSeq(refs, 1, Min({n, Len(refs)}))

\* collect_playlist_references: nothing when the playlist is gone.
References(h) == IF index[h] = Nothing THEN << >> ELSE Playlist[h]

-----------------------------------------------------------------------------
(* The job.                                                                 *)

KeepHls == UNCHANGED <<job, attempts>>

Mirrored(t) ==
    /\ client[t].pc = "answer" /\ client[t].req.door = "mirror"
    /\ client[t].answer \in {"created", "kept"}
    /\ References(client[t].req.hash) # << >>

\* The end of mirror_blob.  One job at a time is followed here.
Spawn(t) ==
    /\ Mirrored(t) /\ job = Nothing
    /\ LET top == Add({}, << >>, Playlist[client[t].req.hash], Cardinality(Blobs)) IN
       /\ job' = IF Cardinality(top.seen) > MaxReferences THEN Nothing
                 ELSE NewJob(FirstOf(top.next, RoundSize), top.seen)
       /\ attempts' = [h \in Blobs |-> 0]
    /\ Forget(t) /\ StoreStays

\* mirror_single_reference, in the order of the round: a blob already stored
\* is skipped.
StartSegment(t) ==
    /\ job # Nothing /\ job.all # << >> /\ client[t].pc = "idle"
    /\ LET h == job.all[1] IN
       /\ attempts' = [attempts EXCEPT ![h] = @ + 1]
       /\ \/ /\ index[h] # Nothing
             /\ job' = [job EXCEPT !.all = Tail(@),
                                   !.results = Append(@, [ref |-> h, ok |-> TRUE])]
             /\ UNCHANGED client
          \/ /\ index[h] = Nothing
             /\ job' = [job EXCEPT !.all = Tail(@), !.running = @ \cup {h}]
             /\ \E sent \in Origin[h] :
                  Starts(t, [door |-> "segment", hash |-> h, body |-> sent.body,
                             length |-> sent.length, keep |-> 0], Nothing)
    /\ UNCHANGED <<quoted, left, taken>> /\ StoreStays

\* Mutant: a failure that is not counted as a result.
CollectMirrored(t) ==
    /\ client[t].pc = "answer" /\ client[t].req.door = "segment"
    /\ job' = IF client[t].answer \in {"created", "kept"}
              THEN [job EXCEPT !.running = @ \ {client[t].req.hash},
                               !.results = Append(@, [ref |-> client[t].req.hash, ok |-> TRUE])]
              ELSE job
    /\ client' = [client EXCEPT ![t] = Idle]
    /\ UNCHANGED <<quoted, left, taken, attempts>> /\ StoreStays

\* buffer_unordered: results in the order of completion.
Collect(t) ==
    /\ client[t].pc = "answer" /\ client[t].req.door = "segment"
    /\ LET h == client[t].req.hash IN
       job' = [job EXCEPT !.running = @ \ {h},
                          !.results = Append(@, [ref |-> h,
                                       ok |-> client[t].answer \in {"created", "kept"}])]
    /\ client' = [client EXCEPT ![t] = Idle]
    /\ UNCHANGED <<quoted, left, taken, attempts>> /\ StoreStays

RoundIsIn == job # Nothing /\ job.all = << >> /\ job.running = {}

\* The children of one mirrored playlist.
Expand ==
    /\ RoundIsIn /\ job.results # << >>
    /\ LET result == job.results[1]
           more == IF result.ok
                   THEN Add(job.seen, job.next, References(result.ref), MaxReferences)
                   ELSE [seen |-> job.seen, next |-> job.next]
       IN job' = [job EXCEPT !.results = Tail(@), !.seen = more.seen, !.next = more.next]
    /\ UNCHANGED <<intake, attempts>> /\ StoreStays

NextRound ==
    /\ RoundIsIn /\ job.results = << >>
    /\ job' = IF job.next = << >> \/ job.round = MaxDepth THEN Nothing
              ELSE [job EXCEPT !.round = @ + 1, !.all = FirstOf(job.next, RoundSize),
                               !.next = << >>]
    /\ UNCHANGED <<intake, attempts>> /\ StoreStays

JobStep == (\E t \in Slots \cap active : StartSegment(t) \/ Collect(t)) \/ Expand \/ NextRound

ClientStep ==
    \E t \in active :
      \/ HandlerStep(t) /\ KeepHls
      \/ Respond(t) /\ ~Mirrored(t) /\ KeepHls
      \/ Spawn(t)

Next ==
    \/ IntakeNext /\ KeepHls
    \/ ClientStep
    \/ JobStep
    \/ Restart /\ job' = Nothing /\ attempts' = [h \in Blobs |-> 0]

Spec == HlsInit /\ [][Next]_hlsVars

\* The server does not stop while it has something to do: handlers and the job
\* proceed, time passes and the cleanup job runs when it is due.  No step of
\* these repeats without end, so one fairness condition serves them all, and
\* nobody needs to send a request.
FairSpec == Spec /\ WF_hlsVars(ClientStep \/ JobStep \/ ((SweepStep \/ Tick) /\ KeepHls))

-----------------------------------------------------------------------------
(* Properties.                                                              *)

\* However references repeat or lead back to one another, a job tries each
\* blob at most once.
EachReferenceOnce == \A h \in Blobs : attempts[h] <= 1

\* A job tries no more blobs than its limit on references allows.
ReferencesAreBounded == Cardinality({h \in Blobs : attempts[h] > 0}) <= MaxReferences

\* A playlist cannot make the server fetch more than the limits of a job
\* (mirror_hls_references).
JobIsBounded == HlsTypeOK /\ EachReferenceOnce /\ ReferencesAreBounded

\* Every job ends, whatever the playlists say.
JobEnds == (job # Nothing) ~> (job = Nothing)

\* What intakes set going comes to rest: jobs end, and the cleanup job brings the
\* store back within its quota (mirror_hls_references, start_cleanup_job).
IntakeSettles == QuotaRestored /\ JobEnds

\* hls.rs: for any mirrored reference that is itself an m3u8, its references
\* are mirrored: what was noted as seen has been or will be tried.
SeenIsMirrored ==
    job # Nothing =>
      \A h \in job.seen : attempts[h] > 0 \/ Contains(job.all, h) \/ Contains(job.next, h)
=============================================================================
