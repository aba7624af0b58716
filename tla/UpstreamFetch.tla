---------------------------- MODULE UpstreamFetch ----------------------------
(***************************************************************************)
(* Fetching a blob that is not stored here from the upstream servers       *)
(* (handlers/file_serving.rs, handlers/upstream.rs, services/download.rs,  *)
(* services/tail.rs).                                                      *)
(*                                                                         *)
(* Concurrent requests for one hash are coalesced: a request first claims  *)
(* the negotiation of the hash, its leader finds a server and registers a  *)
(* download handle, a background task writes the body to a temporary file  *)
(* and publishes it, and every other request tails that file.  All maps    *)
(* involved are keyed by the hash, so the module follows one hash.  A body *)
(* is a number of blocks, and a range asks for all blocks from a start     *)
(* that the blob has.  In redirect mode requests are answered with the     *)
(* server's address and the blob is cached by a task of its own.           *)
(*                                                                         *)
(* Two awaits are one step where nothing shared is read or written between *)
(* them: finding a server and registering the handle, opening the stream   *)
(* and announcing it.                                                      *)
(*                                                                         *)
(* Faults: "cancel" drops a request's future at an await, "upstream" makes *)
(* bodies break off, fall short or carry other bytes, "io" makes creating, *)
(* opening or publishing the temporary file fail.                          *)
(***************************************************************************)
EXTENDS Naturals, FiniteSets

CONSTANTS
    Requests,
    Negotiations, Handles,  \* identities of the Arc'd objects; Handles bounds
                            \* the downloads that are known at one time
    Scoped,      \* the requests that name servers of their own (?origin=, ?xs=)
    Modes,       \* the values of UpstreamMode::is_redirect; in redirect mode
                 \* blobs are cached in the background
    Len,         \* the blob's length in blocks
    SeekAhead,   \* SEEK_AHEAD_LIMIT in blocks
    Faults,
    None

ASSUME FetchAssumption ==
    /\ Scoped \subseteq Requests
    /\ Modes \subseteq BOOLEAN
    /\ Len \in Nat \ {0} /\ SeekAhead \in Nat
    /\ Faults \subseteq {"cancel", "upstream", "io"}
    /\ Handles \cap Negotiations = {}
    /\ None \notin Nat \cup Handles \cup Negotiations

\* What a server answers: a body of declared or undeclared length, within or
\* above the intake limit.
Answers == [total : {Len, None}, large : BOOLEAN]

VARIABLES
    redirects,    \* upstream_mode: chosen when the process is configured
    stored,       \* whether the blob index has the hash (BlobStore)
    missed,       \* failed_upstream_lookups has the hash
    ongoing,      \* ongoing_downloads: the attachable handle
    negotiating,  \* upstream_negotiations: the current negotiation
    phase,        \* UpstreamNegotiation.phase of each negotiation
    hs,           \* DownloadHandle and run_download task of each handle
    rq,           \* the requests
    reaped        \* spawned removals of dropped guards

vars == <<redirects, stored, missed, ongoing, negotiating, phase, hs, rq, reaped>>

\* The handle's final_path is set with phase Complete, so the phase stands for it.
NoHandle == [written |-> 0, phase |-> "Running", temp |-> FALSE, total |-> None,
             large |-> FALSE, task |-> "none"]
NoRequest == [pc |-> "idle", kind |-> "get", start |-> 0, neg |-> None, lead |-> FALSE,
              hdl |-> None]

Init ==
    /\ redirects \in Modes
    /\ stored = FALSE /\ missed = FALSE
    /\ ongoing = None /\ negotiating = None
    /\ phase = [n \in Negotiations |-> "Failed"]
    /\ hs = [h \in Handles |-> NoHandle]
    /\ rq = [r \in Requests |-> NoRequest]
    /\ reaped = {}

-----------------------------------------------------------------------------
(* Reference counts: an identity is free once nothing refers to it.  Free   *)
(* identities are interchangeable, so a new object takes one of them.       *)

OneOf(S) == IF S = {} THEN {} ELSE {CHOOSE x \in S : TRUE}

FreshNegotiations ==
    {n \in Negotiations : n # negotiating /\ n \notin reaped /\ \A r \in Requests : rq[r].neg # n}

FreshHandles ==
    {h \in Handles : /\ h # ongoing /\ h \notin reaped
                     /\ hs[h].task = "none"
                     /\ \A r \in Requests : rq[r].hdl # h}

Active == {r \in Requests : rq[r].pc # "idle"}

\* Request r drops its reference to its handle; the last one frees it.
LetsGo(r) ==
    LET h == rq[r].hdl
    IN  hs' = IF /\ h # None /\ h # ongoing /\ h \notin reaped
                 /\ hs[h].task = "none"
                 /\ \A q \in Requests \ {r} : rq[q].hdl # h
                THEN [hs EXCEPT ![h] = NoHandle]
                ELSE hs

\* coalescible_range_start; a request without a range starts at 0.
Coalescible(r) == rq[r].start <= SeekAhead

\* Mutant: a dropped guard removes the entry and tells nobody.
DropsNegotiationSilently(r) == UNCHANGED phase

\* Dropping an armed NegotiationGuard: followers are woken with Failed, and the
\* entry is removed by a spawned task.
DropsNegotiation(r) ==
    IF rq[r].lead
      THEN phase' = [phase EXCEPT ![rq[r].neg] = "Failed"]
      ELSE UNCHANGED phase

Reaps(r, dropped) == reaped' = reaped \cup dropped \cup (IF rq[r].lead THEN {rq[r].neg} ELSE {})

\* remove_negotiation: only the leader's own entry.
RemoveNegotiation(r) ==
    negotiating' = IF rq[r].lead /\ negotiating = rq[r].neg THEN None ELSE negotiating

\* fetch_from_upstream: whatever the error was, the hash counts as missed.
RecordMiss(r) == missed' = (missed \/ r \notin Scoped)

-----------------------------------------------------------------------------
(* handle_file_request and resolve_blob.  A stored blob and a recent miss   *)
(* are answered at once.                                                    *)

Arrive(r, kind, start) ==
    /\ rq[r].pc = "idle"
    /\ Cardinality(Active) < Cardinality(FreshHandles)
    /\ ~stored /\ ~(missed /\ r \notin Scoped)
    /\ rq' = [rq EXCEPT ![r] = [NoRequest EXCEPT !.pc = IF redirects THEN "redirect" ELSE "look",
                                                 !.kind = kind, !.start = start]]
    /\ UNCHANGED <<redirects, stored, missed, ongoing, negotiating, phase, hs, reaped>>

-----------------------------------------------------------------------------
(* try_upstream_servers: attach, negotiate, or walk the servers.            *)

Look(r) ==
    /\ rq[r].pc = "look"
    /\ rq' = [rq EXCEPT ![r].pc = IF ongoing # None THEN "open"
                                  ELSE IF Coalescible(r) THEN "claim" ELSE "walk",
                        ![r].hdl = ongoing]
    /\ UNCHANGED <<redirects, stored, missed, ongoing, negotiating, phase, hs, reaped>>

\* claim_upstream_negotiation: one leader; a failed negotiation is replaced.
Claim(r) ==
    /\ rq[r].pc = "claim"
    /\ \/ /\ negotiating \in Negotiations => phase[negotiating] = "Failed"
          /\ \E n \in OneOf(FreshNegotiations) :
               /\ negotiating' = n
               /\ phase' = [phase EXCEPT ![n] = "Pending"]
               /\ rq' = [rq EXCEPT ![r].pc = "walk", ![r].neg = n, ![r].lead = TRUE]
       \/ /\ negotiating \in Negotiations /\ phase[negotiating] # "Failed"
          /\ rq' = [rq EXCEPT ![r].pc = "wait", ![r].neg = negotiating]
          /\ UNCHANGED <<negotiating, phase>>
    /\ UNCHANGED <<redirects, stored, missed, ongoing, hs, reaped>>

\* wait_for_negotiation.  A follower attaches to the handle its leader has
\* registered, if that is still there, and claims again if it is not or if the
\* leader failed; after five seconds it goes on alone.
Wait(r) ==
    LET p == phase[rq[r].neg]
    IN  /\ rq[r].pc = "wait"
        /\ rq' = [rq EXCEPT ![r].pc = IF p = "Pending" THEN "walk"
                                      ELSE IF p = "Ready" /\ ongoing # None THEN "open"
                                      ELSE "claim",
                            ![r].hdl = IF p = "Ready" THEN ongoing ELSE None,
                            ![r].neg = None]
        /\ UNCHANGED <<redirects, stored, missed, ongoing, negotiating, phase, hs, reaped>>

\* No server has the blob, or the temporary file cannot be created.
WalkFails(r) ==
    /\ rq[r].pc \in {"walk", "proxy"}
    /\ rq' = [rq EXCEPT ![r] = NoRequest]
    /\ RecordMiss(r) /\ DropsNegotiation(r) /\ Reaps(r, {})
    /\ UNCHANGED <<redirects, stored, ongoing, negotiating, hs>>

\* proxy_upstream_response and proxy_request_to_upstream: the server's answer
\* goes to the client as it comes.  Ranges that are not coalescible are never
\* cached.
Pass(r) ==
    /\ rq[r].pc = "proxy" \/ (rq[r].pc = "walk" /\ ~Coalescible(r))
    /\ rq' = [rq EXCEPT ![r] = NoRequest]
    /\ UNCHANGED <<redirects, stored, missed, ongoing, negotiating, phase, hs, reaped>>

\* proxy_original_range: a range of a body of unknown length, or of one that is
\* too large to cache.  The negotiation is finished as Failed first.
Refuse(r) ==
    /\ rq[r].pc = "walk" /\ rq[r].kind = "range" /\ Coalescible(r)
    /\ rq' = [rq EXCEPT ![r].pc = "proxy", ![r].lead = FALSE, ![r].neg = None]
    /\ DropsNegotiation(r) /\ RemoveNegotiation(r)
    /\ UNCHANGED <<redirects, stored, missed, ongoing, hs, reaped>>

-----------------------------------------------------------------------------
(* prepare_download_state and what its caller does with the handle.         *)

NewHandle(h, a, task) ==
    hs' = [hs EXCEPT ![h] = [written |-> 0, phase |-> "Running", temp |-> TRUE,
                             total |-> a.total, large |-> a.large, task |-> task]]

\* A server has the blob.  The temporary file is created, then the handle takes
\* the hash's place in the map, whatever was there.
Prepare(r) ==
    /\ rq[r].pc = "walk" /\ Coalescible(r)
    /\ \E h \in OneOf(FreshHandles), a \in Answers :
         /\ rq[r].kind = "range" => a.total # None /\ ~a.large
         /\ NewHandle(h, a, "prepared")
         /\ ongoing' = h
         /\ rq' = [rq EXCEPT ![r].pc = "attached", ![r].hdl = h]
    /\ UNCHANGED <<redirects, stored, missed, negotiating, phase, reaped>>

\* Dropping an armed DownloadGuard: the followers are told, the map entry is
\* removed by a spawned task.  The temporary file is the caller's business.
DropsHandle(h, temp) ==
    hs' = [hs EXCEPT ![h].phase = IF @ = "Running" THEN "Failed" ELSE @,
                     ![h].temp = temp, ![h].task = "none"]

\* stream_and_save_from_upstream: the declared length is above the limit.
Oversized(r) ==
    rq[r].kind = "get" /\ hs[rq[r].hdl].large /\ hs[rq[r].hdl].total # None

\* Such a body is given back to the client, and nothing stays registered.
TooLarge(r) ==
    /\ rq[r].pc = "attached" /\ Oversized(r)
    /\ DropsHandle(rq[r].hdl, FALSE)
    /\ rq' = [rq EXCEPT ![r] = NoRequest]
    /\ DropsNegotiation(r) /\ RemoveNegotiation(r)
    /\ reaped' = reaped \cup {rq[r].hdl}
    /\ UNCHANGED <<redirects, stored, missed, ongoing>>

\* The client's stream is opened and the followers are told that they can attach.
OpenOwn(r) ==
    /\ rq[r].pc = "attached" /\ ~Oversized(r)
    /\ rq' = [rq EXCEPT ![r].pc = "spawn"]
    /\ phase' = IF rq[r].lead THEN [phase EXCEPT ![rq[r].neg] = "Ready"] ELSE phase
    /\ UNCHANGED <<redirects, stored, missed, ongoing, negotiating, hs, reaped>>

\* The stream cannot be opened: everything prepared is dropped.  Only a plain GET
\* that cannot open the file unlinks it.
OpenOwnFails(r) ==
    /\ "io" \in Faults
    /\ rq[r].pc = "attached" /\ ~Oversized(r) /\ rq[r].kind # "head"
    /\ \E left \in BOOLEAN : (left \/ rq[r].kind = "get") /\ DropsHandle(rq[r].hdl, left)
    /\ rq' = [rq EXCEPT ![r] = NoRequest]
    /\ RecordMiss(r) /\ DropsNegotiation(r) /\ Reaps(r, {rq[r].hdl})
    /\ UNCHANGED <<redirects, stored, ongoing, negotiating>>

\* NegotiationGuard::finish has removed the entry, and the download task starts.
\* From here on the client's body is a stream that follows the file.
Spawn(r) ==
    LET h == rq[r].hdl
    IN  /\ rq[r].pc = "spawn"
        /\ RemoveNegotiation(r)
        /\ hs' = [hs EXCEPT ![h].task = "running"]
        /\ rq' = [rq EXCEPT ![r] = IF rq[r].kind = "head" THEN NoRequest
                                   ELSE [NoRequest EXCEPT !.pc = "tail", !.hdl = h,
                                                          !.start = rq[r].start]]
        /\ UNCHANGED <<redirects, stored, missed, ongoing, phase, reaped>>

-----------------------------------------------------------------------------
(* Following a download: serve_existing_download and create_tailing_stream. *)

\* open_download_file: the temporary file, or the published one.
Openable(h) == hs[h].temp \/ (hs[h].phase = "Complete" /\ stored)

\* A range that the handle cannot place, or that is far ahead of the download,
\* is asked for upstream.
Elsewhere(r) ==
    LET h == rq[r].hdl
    IN  /\ rq[r].kind = "range"
        /\ \/ hs[h].total = None
           \/ hs[h].phase = "Running" /\ rq[r].start > hs[h].written + SeekAhead

\* HEAD needs no file.
Open(r) ==
    /\ rq[r].pc = "open"
    /\ \/ /\ rq[r].kind = "head"
          /\ rq' = [rq EXCEPT ![r] = NoRequest]
          /\ LetsGo(r) /\ UNCHANGED missed
       \/ /\ Elsewhere(r)
          /\ rq' = [rq EXCEPT ![r].pc = "proxy", ![r].hdl = None]
          /\ LetsGo(r) /\ UNCHANGED missed
       \/ /\ rq[r].kind # "head" /\ ~Elsewhere(r) /\ Openable(rq[r].hdl)
          /\ rq' = [rq EXCEPT ![r] = [NoRequest EXCEPT !.pc = "tail", !.hdl = rq[r].hdl,
                                                       !.start = rq[r].start]]
          /\ UNCHANGED <<hs, missed>>
       \/ /\ rq[r].kind # "head" /\ ~Elsewhere(r) /\ ~Openable(rq[r].hdl)
          /\ rq' = [rq EXCEPT ![r] = NoRequest]
          /\ LetsGo(r) /\ RecordMiss(r)
    /\ UNCHANGED <<redirects, stored, ongoing, negotiating, phase, reaped>>

\* A stream reads a flushed block; start is its position from here on.
TailRead(r) ==
    /\ rq[r].pc = "tail" /\ rq[r].start < hs[rq[r].hdl].written
    /\ rq' = [rq EXCEPT ![r].start = @ + 1]
    /\ UNCHANGED <<redirects, stored, missed, ongoing, negotiating, phase, hs, reaped>>

\* Everything flushed is read and the stream ends without an error: it has
\* reached its end, or, having none, the end of the download.
EndsCleanly(r) ==
    LET h == rq[r].hdl
    IN  /\ rq[r].pc = "tail" /\ rq[r].start >= hs[h].written
        /\ \/ rq[r].start = hs[h].total
           \/ hs[h].total = None /\ hs[h].phase = "Complete"

\* The stream ends there, or with an error since the download is over;
\* otherwise it waits for progress.
TailEnd(r) ==
    /\ rq[r].pc = "tail" /\ rq[r].start >= hs[rq[r].hdl].written
    /\ EndsCleanly(r) \/ hs[rq[r].hdl].phase # "Running"
    /\ rq' = [rq EXCEPT ![r] = NoRequest]
    /\ LetsGo(r)
    /\ UNCHANGED <<redirects, stored, missed, ongoing, negotiating, phase, reaped>>

\* A request's future is dropped at an await, or its client goes away.
Cancel(r) ==
    LET mine == rq[r].pc \in {"attached", "spawn"}
    IN  /\ "cancel" \in Faults
        /\ rq[r].pc \notin {"idle", "background"}
        /\ IF mine THEN DropsHandle(rq[r].hdl, TRUE) ELSE LetsGo(r)
        /\ rq' = [rq EXCEPT ![r] = NoRequest]
        /\ DropsNegotiation(r)
        /\ Reaps(r, IF mine THEN {rq[r].hdl} ELSE {})
        /\ UNCHANGED <<redirects, stored, missed, ongoing, negotiating>>

-----------------------------------------------------------------------------
(* run_download.                                                            *)

\* Mutant: the length of the body is not compared with what was declared.
WriteBlockPastEnd(h) ==
    /\ hs[h].task = "running"
    /\ hs[h].written < IF ~hs[h].large THEN Len + 1 ELSE IF hs[h].total = None THEN Len - 1 ELSE 0
    /\ hs' = [hs EXCEPT ![h].written = @ + 1]
    /\ UNCHANGED <<redirects, stored, missed, ongoing, negotiating, phase, rq, reaped>>

\* A block is written, flushed and announced.  A body known to be too large is
\* not read, one that turns out so is read up to the limit.
WriteBlock(h) ==
    /\ hs[h].task = "running"
    /\ hs[h].written < IF ~hs[h].large THEN Len ELSE IF hs[h].total = None THEN Len - 1 ELSE 0
    /\ hs' = [hs EXCEPT ![h].written = @ + 1]
    /\ UNCHANGED <<redirects, stored, missed, ongoing, negotiating, phase, rq, reaped>>

\* Mutant: a body that ends is accepted without comparing its hash.
EndBodyUnchecked(h) ==
    /\ hs[h].task = "running" /\ ~hs[h].large
    /\ hs[h].written = Len \/ hs[h].total = None
    /\ hs' = [hs EXCEPT ![h].task = "publish"]
    /\ UNCHANGED <<redirects, stored, missed, ongoing, negotiating, phase, rq, reaped>>

\* The body has ended with the declared length and the right hash.
EndBody(h) ==
    /\ hs[h].task = "running" /\ ~hs[h].large
    /\ hs[h].written = Len
    /\ hs' = [hs EXCEPT ![h].task = "publish"]
    /\ UNCHANGED <<redirects, stored, missed, ongoing, negotiating, phase, rq, reaped>>

\* Mutant: a failed download ends without telling those who tail it.
FailBodySilently(h) ==
    /\ hs[h].large \/ "upstream" \in Faults
    /\ hs[h].task = "running"
    /\ hs' = [hs EXCEPT ![h].task = "unlink"]
    /\ UNCHANGED <<redirects, stored, missed, ongoing, negotiating, phase, rq, reaped>>

\* The body is over the limit, breaks off, or is not what was asked for.
FailBody(h) ==
    /\ hs[h].large \/ "upstream" \in Faults
    /\ hs[h].task = "running"
    /\ hs' = [hs EXCEPT ![h].task = "unlink", ![h].phase = "Failed"]
    /\ UNCHANGED <<redirects, stored, missed, ongoing, negotiating, phase, rq, reaped>>

\* intake::accept: the temporary file is renamed into the cache, or unlinked
\* because the blob is there already or the publication fails.
Publish(h) ==
    /\ hs[h].task = "publish"
    /\ \/ /\ stored' = TRUE
          /\ hs' = [hs EXCEPT ![h].temp = FALSE, ![h].task = "settle"]
       \/ /\ "io" \in Faults
          /\ hs' = [hs EXCEPT ![h].temp = FALSE, ![h].task = "unlink", ![h].phase = "Failed"]
          /\ UNCHANGED stored
    /\ UNCHANGED <<redirects, missed, ongoing, negotiating, phase, rq, reaped>>

\* Only now do followers learn the published path, and that all is written.
Settle(h) ==
    /\ hs[h].task = "settle"
    /\ hs' = [hs EXCEPT ![h].phase = "Complete", ![h].task = "remove"]
    /\ UNCHANGED <<redirects, stored, missed, ongoing, negotiating, phase, rq, reaped>>

\* Mutant: a failed download keeps its temporary file.
UnlinkNothing(h) ==
    /\ hs[h].task = "unlink"
    /\ hs' = [hs EXCEPT ![h].task = "remove"]
    /\ UNCHANGED <<redirects, stored, missed, ongoing, negotiating, phase, rq, reaped>>

UnlinkTemp(h) ==
    /\ hs[h].task = "unlink"
    /\ hs' = [hs EXCEPT ![h].temp = FALSE, ![h].task = "remove"]
    /\ UNCHANGED <<redirects, stored, missed, ongoing, negotiating, phase, rq, reaped>>

\* Mutant: the entry of the hash is removed, whichever handle it holds.
RemoveAnyHandle(h) == ongoing' = None

\* remove_handle: only the download's own entry.
RemoveHandle(h) == ongoing' = IF ongoing = h THEN None ELSE ongoing

Tailed(h) == \E r \in Requests : rq[r].hdl = h

\* DownloadGuard::finish
FinishDownload(h) ==
    /\ hs[h].task = "remove"
    /\ hs' = [hs EXCEPT ![h] = IF Tailed(h) THEN [@ EXCEPT !.task = "none"] ELSE NoHandle]
    /\ RemoveHandle(h)
    /\ UNCHANGED <<redirects, stored, missed, negotiating, phase, rq, reaped>>

\* The removals spawned by dropped guards.
ReapHandle(h) ==
    /\ h \in reaped
    /\ reaped' = reaped \ {h}
    /\ RemoveHandle(h)
    /\ hs' = IF Tailed(h) THEN hs ELSE [hs EXCEPT ![h] = NoHandle]
    /\ UNCHANGED <<redirects, stored, missed, negotiating, phase, rq>>

ReapNegotiation(n) ==
    /\ n \in reaped
    /\ reaped' = reaped \ {n}
    /\ negotiating' = IF negotiating = n THEN None ELSE negotiating
    /\ UNCHANGED <<redirects, stored, missed, ongoing, phase, hs, rq>>

-----------------------------------------------------------------------------
(* try_upstream_redirect, with caching in the background.                   *)

\* A server answers the HEAD; the client is redirected, and a download starts
\* unless one is known or the body is too large.
Redirect(r) ==
    /\ rq[r].pc = "redirect"
    /\ \E a \in Answers :
         rq' = [rq EXCEPT ![r] = IF ongoing # None \/ (a.large /\ a.total # None) THEN NoRequest
                                 ELSE [NoRequest EXCEPT !.pc = "background"]]
    /\ UNCHANGED <<redirects, stored, missed, ongoing, negotiating, phase, hs, reaped>>

RedirectFails(r) ==
    /\ rq[r].pc = "redirect"
    /\ rq' = [rq EXCEPT ![r] = NoRequest]
    /\ RecordMiss(r)
    /\ UNCHANGED <<redirects, stored, ongoing, negotiating, phase, hs, reaped>>

\* start_background_download_for_redirect, in a task of its own.
BackgroundGet(r) ==
    /\ rq[r].pc = "background"
    /\ \/ \E h \in OneOf(FreshHandles), a \in Answers :
            /\ NewHandle(h, a, "running")
            /\ ongoing' = h
       \/ Faults \cap {"upstream", "io"} # {} /\ UNCHANGED <<hs, ongoing>>
    /\ rq' = [rq EXCEPT ![r] = NoRequest]
    /\ UNCHANGED <<redirects, stored, missed, negotiating, phase, reaped>>

\* The blob leaves the store (eviction, DELETE) or enters it (an upload).
StoreChanges ==
    /\ stored' = ~stored
    /\ UNCHANGED <<redirects, missed, ongoing, negotiating, phase, hs, rq, reaped>>

\* UPSTREAM_MISS_TTL is over.
MissExpires ==
    /\ missed /\ missed' = FALSE
    /\ UNCHANGED <<redirects, stored, ongoing, negotiating, phase, hs, rq, reaped>>

-----------------------------------------------------------------------------
NewRequest(r) ==
    \/ \E kind \in {"get", "head"} : Arrive(r, kind, 0)
    \/ \E start \in 0..Len - 1 : Arrive(r, "range", start)

Step(r) ==
    \/ Look(r) \/ Claim(r) \/ Wait(r)
    \/ WalkFails(r) \/ Pass(r) \/ Refuse(r)
    \/ Prepare(r) \/ TooLarge(r) \/ OpenOwn(r) \/ OpenOwnFails(r) \/ Spawn(r)
    \/ Open(r) \/ TailRead(r) \/ TailEnd(r)
    \/ Redirect(r) \/ RedirectFails(r) \/ BackgroundGet(r)

Download(h) ==
    \/ WriteBlock(h) \/ EndBody(h) \/ FailBody(h)
    \/ Publish(h) \/ Settle(h) \/ UnlinkTemp(h) \/ FinishDownload(h) \/ ReapHandle(h)

\* The download tasks and the spawned removals.
Background ==
    \/ \E h \in Handles : Download(h)
    \/ \E n \in Negotiations : ReapNegotiation(n)

Next ==
    \/ \E r \in Requests : NewRequest(r) \/ Step(r) \/ Cancel(r)
    \/ Background
    \/ StoreChanges \/ MissExpires

Spec == Init /\ [][Next]_vars

\* The runtime polls every request, and every download and spawned removal, of
\* which it is enough that some goes on, since each has an end; the body of an
\* upstream server arrives or fails within the client's read timeout.
Fairness ==
    /\ \A r \in Requests : WF_vars(Step(r))
    /\ WF_vars(Background)

FairSpec == Spec /\ Fairness

-----------------------------------------------------------------------------
(* Properties.                                                              *)

Labels == {"idle", "look", "claim", "wait", "walk", "proxy", "attached", "spawn", "open",
           "tail", "redirect", "background"}

\* Every variable holds a value of the kind its Rust type allows.
TypeOK ==
    /\ redirects \in BOOLEAN
    /\ stored \in BOOLEAN /\ missed \in BOOLEAN
    /\ ongoing \in Handles \cup {None} /\ negotiating \in Negotiations \cup {None}
    /\ phase \in [Negotiations -> {"Pending", "Ready", "Failed"}]
    /\ hs \in [Handles -> [written : 0..Len, phase : {"Running", "Complete", "Failed"},
                           temp : BOOLEAN, total : {Len, None}, large : BOOLEAN,
                           task : {"none", "prepared", "running", "publish", "settle", "unlink",
                                   "remove"}]]
    /\ rq \in [Requests -> [pc : Labels, kind : {"get", "head", "range"}, start : 0..Len,
                            neg : Negotiations \cup {None}, lead : BOOLEAN,
                            hdl : Handles \cup {None}]]
    /\ reaped \subseteq Handles \cup Negotiations

\* A negotiation others wait for has a leader at work on it: whatever happens to
\* a leader, its followers are released (NegotiationGuard).
PendingHasLeader ==
    \A r \in Requests :
        rq[r].pc = "wait" /\ phase[rq[r].neg] = "Pending" =>
            \E s \in Requests : rq[s].lead /\ rq[s].neg = rq[r].neg

\* A stream follows a download that is still at work or has said how it ended:
\* whatever happens to a download, its followers are told (DownloadGuard).
FollowedIsAlive ==
    \A r \in Requests :
        rq[r].pc \in {"open", "tail"} =>
            hs[rq[r].hdl].phase # "Running" \/ hs[rq[r].hdl].task # "none"

\* Whoever waits or reads is attached to something that will answer it
\* (upstream_negotiations, ongoing_downloads).
NobodyIsStranded == TypeOK /\ PendingHasLeader /\ FollowedIsAlive

\* A running download is not hidden from later requests by the end of another
\* one: the map loses a handle only when that handle's own download is over, or
\* when a newer download takes its place (remove_handle).
RunningStaysAttachable ==
    [][\A h \in Handles : ongoing = h /\ ongoing' = None => hs'[h].task = "none"]_vars

\* A stream that ends cleanly has delivered every block it promised, although
\* the download it follows may fail, finish or be published meanwhile
\* (create_tailing_stream, run_download).
CleanEndIsWhole == \A r \in Requests : EndsCleanly(r) => rq[r].start = Len

\* A download that comes to its end, good or bad, leaves no temporary file
\* (run_download).
FinishedLeavesNoTemp == \A h \in Handles : hs[h].task = "remove" => ~hs[h].temp

\* "The file exists before the handle is inserted, so followers that observe the
\* handle can always open the path" (prepare_download_state).
FollowersCanOpen ==
    \A r \in Requests :
        rq[r].pc = "open" /\ rq[r].hdl = ongoing /\ hs[ongoing].phase = "Running"
          => Openable(ongoing)

\* "Proven absent upstream" (BlobSource::RecentlyMissing): a miss is recorded
\* only for a request whose walk over the servers found nothing.
MissIsProven ==
    [][~missed /\ missed' =>
         \E r \in Requests : rq[r].pc \in {"walk", "proxy", "redirect"} /\ rq'[r].pc = "idle"]_vars

\* "Start background download if requested and not already downloading".
OneBackgroundDownload ==
    Cardinality({h \in Handles : hs[h].task # "none"}) <= 1

\* No idle request becomes active.
NoArrival == \A r \in Requests : rq[r].pc = "idle" => rq'[r].pc = "idle"

\* Once no new request comes, every request is answered, every stream ends and
\* both maps stay empty: nobody waits for a leader or a download that is gone.
\* (While requests keep coming, a follower may meet one failing leader after
\* another: the loop of try_upstream_servers has no bound.)
RequestsDrain ==
    <>[][NoArrival]_vars => <>[](Active = {} /\ ongoing = None /\ negotiating = None)

=============================================================================
