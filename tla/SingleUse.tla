----------------------------- MODULE SingleUse ------------------------------
(***************************************************************************)
(* The two operations that destroy data on a client's word: DELETE         *)
(* (handlers/delete.rs) and PUT /report (handlers/report.rs), with the     *)
(* replay set both consume their event from                                *)
(* (services/authorization.rs) and the audit records of reports.           *)
(*                                                                         *)
(* Verifying an event and reading the clock again before the replay set is *)
(* locked is straight-line code, so at most one tick passes between the    *)
(* two (Tick).  The replay set is a tokio RwLock, whose waiters are served *)
(* in the order they arrived: here, in the order of the clock they read.   *)
(* Removal of a blob is one step; BlobStore has its detail.  The clock is  *)
(* taken to be monotonic.                                                  *)
(*                                                                         *)
(* Faults: "crash" restarts the process; "cancel" drops a request at an    *)
(* await, after which a file write under way still completes; "io" fails a *)
(* record's write or a blob's removal.                                     *)
(***************************************************************************)
EXTENDS AuthEvents

CONSTANTS
    Events,         \* the events that clients may present
    Hashes,
    Requests,
    Nothing,        \* no event, no time, no record
    FeatureReport,  \* feature_report_enabled
    ReportAction,   \* the Removal that report_action stands for
    ClockSkew,      \* auth_clock_skew_secs
    Faults,
    MaxClock        \* bound on the clock, in seconds

Statuses == {"noop", "pending", "processed"}
Records == [status : Statuses \cup {"truncated"}, processed : SUBSET Hashes]

Deletions == {e \in Events : e.kind = "auth"}
Reports   == {e \in Events : e.kind = "report"}

ASSUME SingleUseAssumption ==
    /\ \A e \in Events : /\ e.created \in Nat /\ e.expires \in Nat
                         /\ e.xs \in Seq(Hashes)
    /\ Nothing \notin Nat \cup Events \cup Hashes \cup Records
    /\ ReportAction \in {"Quarantined", "Reported"}
    /\ ClockSkew \in Nat /\ MaxClock \in Nat
    /\ Faults \subseteq {"crash", "cancel", "io"}

VARIABLES
    clock,
    replays,   \* destructive_event_replays: until when an id is remembered
    pc, ev,    \* each request's step and event
    target,    \* the hash a DELETE names
    at,        \* the clock as the request read it last
    expiry,    \* the expiry it will consume its event with
    todo, done,  \* a report's hashes to process, and those it removed
    blobs,     \* indexed blobs
    barred,    \* quarantined hashes
    record,    \* the audit record of each report, if there is one
    \* History, read by the properties only.
    uses,      \* how often (up to twice) each deletion was used since the start
    usedAt,    \* the clock that the last use of each report had read
    stamp,     \* the expiry it was last inserted with since the start
    swept,     \* the latest clock the replay set was swept with
    earlier,   \* deletions used before a restart
    removedBy, \* the report that last removed each hash
    cut        \* reports whose processing was interrupted

reqVars == <<pc, ev, target, at, expiry, todo, done>>
history == <<uses, usedAt, stamp, swept, earlier, removedBy, cut>>
vars == <<clock, replays, reqVars, blobs, barred, record, history>>

-----------------------------------------------------------------------------
RecordOf(status, processed) == [status |-> status, processed |-> processed]
\* What a crash in the middle of fs::write leaves.
Truncated == RecordOf("truncated", {})

Init ==
    /\ clock = 0
    /\ replays = [e \in Events |-> Nothing]
    /\ pc = [r \in Requests |-> "idle"]
    /\ ev = [r \in Requests |-> Nothing]
    /\ target = [r \in Requests |-> Nothing]
    /\ at = [r \in Requests |-> 0]
    /\ expiry = [r \in Requests |-> 0]
    /\ todo = [r \in Requests |-> <<>>]
    /\ done = [r \in Requests |-> {}]
    /\ blobs = Hashes
    /\ barred = {}
    /\ record = [e \in Reports |-> Nothing]
    /\ uses = [e \in Deletions |-> 0]
    /\ usedAt = [e \in Reports |-> Nothing]
    /\ stamp = [e \in Events |-> Nothing]
    /\ swept = 0
    /\ earlier = {}
    /\ removedBy = [h \in Hashes |-> Nothing]
    /\ cut = {}

GoTo(r, label) == pc' = [pc EXCEPT ![r] = label]

\* The handler returns, or its future is gone.
Forget(r) ==
    /\ GoTo(r, "idle")
    /\ ev' = [ev EXCEPT ![r] = Nothing]
    /\ target' = [target EXCEPT ![r] = Nothing]
    /\ at' = [at EXCEPT ![r] = 0]
    /\ expiry' = [expiry EXCEPT ![r] = 0]
    /\ todo' = [todo EXCEPT ![r] = <<>>]
    /\ done' = [done EXCEPT ![r] = {}]

\* A request takes its event past verification at the present clock.
Admit(r, e, h, until, hashes) ==
    /\ pc[r] = "idle"
    /\ GoTo(r, "bind")
    /\ ev' = [ev EXCEPT ![r] = e]
    /\ target' = [target EXCEPT ![r] = h]
    /\ at' = [at EXCEPT ![r] = clock]
    /\ expiry' = [expiry EXCEPT ![r] = until]
    /\ todo' = [todo EXCEPT ![r] = hashes]
    /\ UNCHANGED <<clock, replays, done, blobs, barred, record, history>>

\* authorize for Operation::Delete.  The mode is Strict: a whitelist must exist
\* and name the signer.  A request that is refused changes nothing.
AuthorizeDelete(r) ==
    \E e \in Deletions, h \in Hashes :
        /\ VerifiedWithPolicy(e, clock)
        /\ e.pubkey \in AllowedPubkeys
        /\ BindsTo(e, "delete", h)
        /\ Admit(r, e, h, e.expires, <<>>)

\* Mutant: a report is remembered for auth_max_ttl_secs from its creation.
VerifyReportFromCreation(r) ==
    /\ FeatureReport # "off"
    /\ \E e \in Reports :
        /\ e.signed
        /\ e.created <= clock + ClockSkew
        /\ Admit(r, e, Nothing, e.created + MaxTTL, e.xs)

\* report_blob up to the consumption: an event may have any age, and is
\* remembered for auth_max_ttl_secs from now.
VerifyReport(r) ==
    /\ FeatureReport # "off"
    /\ \E e \in Reports :
        /\ e.signed
        /\ e.created <= clock + ClockSkew
        /\ Admit(r, e, Nothing, clock + MaxTTL, e.xs)

\* consume_single_use reads the clock and queues for the replay set.
Queue(r) ==
    /\ pc[r] = "bind"
    /\ GoTo(r, "consume")
    /\ at' = [at EXCEPT ![r] = clock]
    /\ UNCHANGED <<clock, replays, ev, target, expiry, todo, done, blobs, barred, record,
                   history>>

\* Mutant: an id is forgotten at its expiry instead of after it.
KeptUntilExpiry(now) ==
    [e \in Events |-> IF replays[e] # Nothing /\ replays[e] > now
                        THEN replays[e] ELSE Nothing]

\* Expired ids are forgotten.
Kept(now) ==
    [e \in Events |-> IF replays[e] # Nothing /\ replays[e] >= now
                        THEN replays[e] ELSE Nothing]

\* Mutant: waiters for the lock are served in any order.
AnyIsNext(r) == pc[r] = "consume"

\* The lock's queue.
IsNext(r) == \A q \in Requests : pc[q] = "consume" => at[r] <= at[q]

\* Mutant: removal starts before the record is written.
AfterConsumeUnrecorded(e) ==
    IF e.kind = "auth" THEN "remove"
    ELSE IF FeatureReport = "public" THEN "noop"
    ELSE IF e.pubkey \notin AllowedPubkeys \/ e.xs = <<>> THEN "idle"
    ELSE "check"

\* report_blob between the consumption and its first record.
AfterConsume(e) ==
    IF e.kind = "auth" THEN "remove"
    ELSE IF FeatureReport = "public" THEN "noop"
    ELSE IF e.pubkey \notin AllowedPubkeys \/ e.xs = <<>> THEN "idle"
    ELSE "pending"

\* An event that was not in the replay set is used now.
CountUse(e, now) ==
    IF e \in Deletions
      THEN /\ uses' = [uses EXCEPT ![e] = IF @ = 2 THEN 2 ELSE @ + 1]
           /\ UNCHANGED usedAt
      ELSE usedAt' = [usedAt EXCEPT ![e] = now] /\ UNCHANGED uses

\* consume_single_use under the write lock: forget what has expired, insert the
\* id with its expiry whether or not it was there, and refuse it if it was.
\* The request's clock and expiry are not needed any more.
Consume(r) ==
    LET e == ev[r]
        kept == Kept(at[r])
        seen == kept[e] # Nothing
    IN  /\ pc[r] = "consume" /\ IsNext(r)
        /\ replays' = [kept EXCEPT ![e] = expiry[r]]
        /\ stamp' = [stamp EXCEPT ![e] = expiry[r]]
        /\ swept' = at[r]
        /\ IF seen \/ AfterConsume(e) = "idle"
             THEN Forget(r)
             ELSE /\ GoTo(r, AfterConsume(e))
                  /\ at' = [at EXCEPT ![r] = 0]
                  /\ expiry' = [expiry EXCEPT ![r] = 0]
                  /\ UNCHANGED <<ev, target, todo, done>>
        /\ IF seen THEN UNCHANGED <<uses, usedAt>> ELSE CountUse(e, at[r])
        /\ UNCHANGED <<clock, blobs, barred, record, earlier, removedBy, cut>>

\* remove_indexed_blob for DELETE: an absent blob is a success, a failure is a
\* 503; the event is spent either way.
Remove(r) ==
    /\ pc[r] = "remove"
    /\ blobs' \in {blobs \ {target[r]}} \cup (IF "io" \in Faults THEN {blobs} ELSE {})
    /\ Forget(r)
    /\ UNCHANGED <<clock, replays, barred, record, history>>

-----------------------------------------------------------------------------
(* The audit record: fs::write truncates the file, then fills it.           *)

Writing == [noop |-> "write noop", pending |-> "write pending", final |-> "write final"]

BeginWrite(r) ==
    /\ pc[r] \in DOMAIN Writing
    /\ GoTo(r, Writing[pc[r]])
    /\ record' = [record EXCEPT ![ev[r]] = Truncated]
    /\ UNCHANGED <<clock, replays, ev, target, at, expiry, todo, done, blobs, barred, history>>

\* Mutant: the final record is given the action's name for its status.
WrittenWithAction(r) ==
    CASE pc[r] = "write noop"    -> RecordOf("noop", {})
      [] pc[r] = "write pending" -> RecordOf("pending", {})
      [] pc[r] = "write final"   -> RecordOf(ReportAction, done[r])

\* The record a write in progress leaves.
Written(r) ==
    CASE pc[r] = "write noop"    -> RecordOf("noop", {})
      [] pc[r] = "write pending" -> RecordOf("pending", {})
      [] pc[r] = "write final"   -> RecordOf(IF done[r] = {} THEN "noop" ELSE "processed",
                                             done[r])

InWrite(r) == pc[r] \in {"write noop", "write pending", "write final"}

EndWrite(r) ==
    /\ InWrite(r)
    /\ record' = [record EXCEPT ![ev[r]] = Written(r)]
    /\ IF pc[r] = "write pending"
         THEN GoTo(r, "check") /\ UNCHANGED <<ev, target, at, expiry, todo, done>>
         ELSE Forget(r)
    /\ UNCHANGED <<clock, replays, blobs, barred, history>>

\* The write fails: the handler answers 500 and goes no further.
FailWrite(r) ==
    /\ "io" \in Faults
    /\ InWrite(r)
    /\ Forget(r)
    /\ cut' = cut \cup {ev[r]}
    /\ UNCHANGED <<clock, replays, blobs, barred, record, uses, usedAt, stamp, swept, earlier,
                   removedBy>>

\* Mutant: a report that removed nothing returns at once.
CheckSkipsNoop(r) ==
    /\ pc[r] = "check"
    /\ IF todo[r] = <<>> /\ done[r] = {}
         THEN Forget(r)
         ELSE /\ IF todo[r] = <<>>
                   THEN GoTo(r, "final") /\ UNCHANGED todo
                   ELSE IF Head(todo[r]) \in blobs
                   THEN GoTo(r, "removing") /\ UNCHANGED todo
                   ELSE UNCHANGED pc /\ todo' = [todo EXCEPT ![r] = Tail(@)]
              /\ UNCHANGED <<ev, target, at, expiry, done>>
    /\ UNCHANGED <<clock, replays, blobs, barred, record, history>>

\* The loop over the reported hashes: those not indexed are skipped.
Check(r) ==
    /\ pc[r] = "check"
    /\ IF todo[r] = <<>>
         THEN GoTo(r, "final") /\ UNCHANGED todo
         ELSE IF Head(todo[r]) \in blobs
         THEN GoTo(r, "removing") /\ UNCHANGED todo
         ELSE UNCHANGED pc /\ todo' = [todo EXCEPT ![r] = Tail(@)]
    /\ UNCHANGED <<clock, replays, ev, target, at, expiry, done, blobs, barred, record, history>>

\* remove_indexed_blob for a report: it may find the blob gone, or fail, and
\* the loop goes on.
RemoveReported(r) ==
    LET h == Head(todo[r]) IN
    /\ pc[r] = "removing"
    /\ GoTo(r, "check")
    /\ todo' = [todo EXCEPT ![r] = Tail(@)]
    /\ \/ /\ h \in blobs
          /\ blobs' = blobs \ {h}
          /\ barred' = IF ReportAction = "Quarantined" THEN barred \cup {h} ELSE barred
          /\ done' = [done EXCEPT ![r] = @ \cup {h}]
          /\ removedBy' = [removedBy EXCEPT ![h] = ev[r]]
       \/ /\ h \notin blobs \/ "io" \in Faults
          /\ UNCHANGED <<blobs, barred, done, removedBy>>
    /\ UNCHANGED <<clock, replays, ev, target, at, expiry, record, uses, usedAt, stamp, swept,
                   earlier, cut>>

-----------------------------------------------------------------------------
\* A hash that is not quarantined may be uploaded again.
Store(h) ==
    /\ h \notin blobs \cup barred
    /\ blobs' = blobs \cup {h}
    /\ UNCHANGED <<clock, replays, reqVars, barred, record, history>>

\* Reports being processed past their consumption.
Processing == {ev[r] : r \in {q \in Requests : pc[q] \notin {"idle", "bind", "consume"}}}
                \cap Reports

\* The request's future is dropped; the record being written is completed.
Cancel(r) ==
    /\ "cancel" \in Faults
    /\ pc[r] # "idle"
    /\ Forget(r)
    /\ record' = IF InWrite(r) THEN [record EXCEPT ![ev[r]] = Written(r)] ELSE record
    /\ cut' = IF ev[r] \in Processing THEN cut \cup {ev[r]} ELSE cut
    /\ UNCHANGED <<clock, replays, blobs, barred, uses, usedAt, stamp, swept, earlier,
                   removedBy>>

\* The process dies and starts again: the replay set is empty, a record that
\* was being written stays truncated.
Restart ==
    /\ "crash" \in Faults
    /\ earlier = {}
    /\ earlier' = {e \in Deletions : uses[e] > 0}
    /\ replays' = [e \in Events |-> Nothing]
    /\ pc' = [r \in Requests |-> "idle"]
    /\ ev' = [r \in Requests |-> Nothing]
    /\ target' = [r \in Requests |-> Nothing]
    /\ at' = [r \in Requests |-> 0]
    /\ expiry' = [r \in Requests |-> 0]
    /\ todo' = [r \in Requests |-> <<>>]
    /\ done' = [r \in Requests |-> {}]
    /\ uses' = [e \in Deletions |-> 0]
    /\ usedAt' = [e \in Reports |-> Nothing]
    /\ stamp' = [e \in Events |-> Nothing]
    /\ swept' = 0
    /\ cut' = cut \cup Processing
    /\ UNCHANGED <<clock, blobs, barred, record, removedBy>>

\* Nobody stays between verification and the second reading of the clock for
\* more than one tick.
Tick ==
    /\ clock < MaxClock
    /\ \A r \in Requests : pc[r] = "bind" => at[r] = clock
    /\ clock' = clock + 1
    /\ UNCHANGED <<replays, reqVars, blobs, barred, record, history>>

Handler(r) ==
    \/ AuthorizeDelete(r) \/ VerifyReport(r) \/ Queue(r) \/ Consume(r) \/ Remove(r)
    \/ BeginWrite(r) \/ EndWrite(r) \/ FailWrite(r)
    \/ Check(r) \/ RemoveReported(r)
    \/ Cancel(r)

Next ==
    \/ \E r \in Requests : Handler(r)
    \/ \E h \in Hashes : Store(h)
    \/ Restart
    \/ Tick

Spec == Init /\ [][Next]_vars

-----------------------------------------------------------------------------
(* Properties.                                                              *)

Labels == {"idle", "bind", "consume", "remove", "noop", "pending", "final", "write noop",
           "write pending", "write final", "check", "removing"}
Times == Nat \cup {Nothing}

\* Every variable holds a value of the kind its Rust type allows.
TypeOK ==
    /\ clock \in Nat /\ swept \in Nat
    /\ replays \in [Events -> Times]
    /\ pc \in [Requests -> Labels]
    /\ ev \in [Requests -> Events \cup {Nothing}]
    /\ target \in [Requests -> Hashes \cup {Nothing}]
    /\ at \in [Requests -> Nat] /\ expiry \in [Requests -> Nat]
    /\ todo \in [Requests -> Seq(Hashes)]
    /\ done \in [Requests -> SUBSET Hashes]
    /\ blobs \subseteq Hashes /\ barred \subseteq Hashes
    /\ record \in [Reports -> Records \cup {Nothing}]
    /\ uses \in [Deletions -> 0..2]
    /\ usedAt \in [Reports -> Times] /\ stamp \in [Events -> Times]
    /\ earlier \subseteq Deletions
    /\ removedBy \in [Hashes -> Reports \cup {Nothing}]
    /\ cut \subseteq Reports

\* An event consumed since the start whose expiry no sweep has passed is still
\* in the replay set, whatever other requests swept meanwhile
\* (consume_single_use).
ReplaySetCovers ==
    \A e \in Events : stamp[e] # Nothing /\ stamp[e] >= swept => replays[e] = stamp[e]

\* While the process lives, a deletion event takes effect at most once, although
\* ids are forgotten when they expire and verified requests wait for the lock.
SingleUsePerLife == \A e \in Deletions : uses[e] <= 1

\* A report is acted on again only auth_max_ttl_secs after it was last used.
ReportsSpaced ==
    [][\A r \in Requests :
         pc[r] = "consume" /\ pc'[r] \in {"noop", "pending"} /\ usedAt[ev[r]] # Nothing
           => at[r] >= usedAt[ev[r]] + MaxTTL]_vars

\* The replay set keeps its promise: it covers what it must, so no deletion event
\* takes effect twice and no report too soon (consume_single_use).
UsedOnce ==
    /\ [](TypeOK /\ ReplaySetCovers /\ SingleUsePerLife)
    /\ ReportsSpaced

\* Whatever a report removed, its audit record is there, truncated at worst.
RecordPrecedesRemoval ==
    \A h \in Hashes : removedBy[h] # Nothing => record[removedBy[h]] # Nothing

\* A record left at "pending" marks a report whose processing was interrupted.
PendingMarksInterrupted ==
    \A e \in Reports \ (Processing \cup cut) :
        record[e] # Nothing => record[e].status \notin {"pending", "truncated"}

\* Whatever a report did or left undone can be told from its record
\* (record_report).
ReportsAreTraceable == RecordPrecedesRemoval /\ PendingMarksInterrupted

\* A destructive event is never used again, not even after a restart.
NeverReused ==
    [][\A e \in Deletions : uses'[e] > uses[e] => e \notin earlier]_vars

\* An audit record never loses the removals it names.
RecordKeepsRemovals ==
    [][\A e \in Reports : record[e] # Nothing /\ record'[e] # Nothing
                            /\ record'[e].status # "truncated"
         => record[e].processed \subseteq record'[e].processed]_vars
=============================================================================
