------------------------------ MODULE Serving -------------------------------
(***************************************************************************)
(* GET and HEAD of a blob (handlers/file_serving.rs): where its bytes come *)
(* from, ranges, conditional requests, the directory of files that are     *)
(* served beside the blobs (services/serve_files.rs), and, when the blob   *)
(* is found nowhere here, the walk of UpstreamWalk.                        *)
(*                                                                         *)
(* The module follows one hash, the hash of Blob; a hash and its content   *)
(* are the same thing here.  A client that resumes asks for the rest of    *)
(* what it has, under If-Range, and may lose its connection after any      *)
(* number of bytes.                                                        *)
(***************************************************************************)
EXTENDS UpstreamWalk

CONSTANTS
    Blob,        \* the content asked for, a sequence
    Files,       \* the paths of the served directory
    MayHold,     \* bound: the contents each path may have
    Numbers,     \* bound: the numbers in Range headers
    Populations  \* bound: what the clients do in one behaviour, and the files that
                 \* may change; if there are none, the refresh job is off

ASSUME ServingAssumption ==
    /\ Blob \in Seq(Nat) /\ \A f \in Files : MayHold[f] \subseteq Seq(Nat)
    /\ Numbers \subseteq Nat /\ 1..Len(Blob) \subseteq Numbers
    /\ Nothing \notin Files \cup {"disk", "bucket"} /\ Nothing # Blob
    /\ \A f \in Files : Nothing \notin MayHold[f]
    /\ {"disk", "bucket"} \cap Files = {}
    \* A resumer goes on until it has the blob, a prober sends one request with any
    \* headers, a walker sends upstream parameters.
    /\ Populations \subseteq [role : [Requests -> {"resumer", "prober", "walker", "away"}],
                             files : SUBSET Files]

VARIABLES
    people,    \* the population: each client's role, and the files in use
    stored,    \* where the index and the storage have the blob, if they do
    dir,       \* the content of each path of the served directory, or Nothing
    served,    \* serve_file_index: the path indexed for the blob, or Nothing
    scan,      \* refresh_serve_file_index under way
    asked,     \* each client's headers, and the source its request resolved to
    answer,    \* the response a prober got
    got, total,  \* what a resuming client has, and how much it takes it to be
    \* History, read by the properties only.
    known      \* the paths that have held the blob since the index's scan began

serveVars == <<people, stored, dir, served, scan, asked, answer, got, total, known>>
servingVars == <<walkVars, serveVars>>

Size == Len(Blob)

\* Headers of a request.  A Range is a pair of numbers, either of which may be
\* missing; "bad" stands for a header that is ignored before the size is looked at.
NoRange == [form |-> "none"]
RangeHeader ==
    {NoRange, [form |-> "bad"]} \cup [form : {"suffix", "from"}, n : Numbers]
      \cup [form : {"range"}, n : Numbers, last : Numbers]
Headers == [method : {"GET", "HEAD"}, range : RangeHeader,
            ifRange : {"none", "match", "other"}, ifNoneMatch : {"none", "match", "other"}]
Plain == [method |-> "GET", range |-> NoRange, ifRange |-> "none", ifNoneMatch |-> "none"]
NoRequest == [header |-> Plain, source |-> Nothing]
NoAnswer == [status |-> 0]
NoScan == [pc |-> "idle", todo |-> {}, file |-> Nothing, next |-> Nothing, steady |-> {}]

ServingInit ==
    /\ WalkInit
    /\ people \in Populations
    /\ stored \in {"none", "disk", "bucket"}
    /\ IF \E r \in Requests : people.role[r] = "walker"
       THEN stored = "none" ELSE doubt = ListTTL
    /\ dir = [f \in Files |-> Nothing]
    /\ served = Nothing /\ scan = NoScan
    /\ asked = [r \in Requests |-> NoRequest]
    /\ answer = [r \in Requests |-> NoAnswer]
    /\ got = [r \in Requests |-> <<>>] /\ total = [r \in Requests |-> Nothing]
    /\ known = {}

-----------------------------------------------------------------------------
(* Ranges.                                                                  *)

Min2(a, b) == IF a <= b THEN a ELSE b

Unsatisfiable == [spec |-> "unsatisfiable"]
Ignore == [spec |-> "ignore"]
Satisfiable(start, end) == [spec |-> "satisfiable", start |-> start, end |-> end]

\* Mutant: a range that starts at the end is satisfiable.
ParseRangeOffByOne(range, size) ==
    CASE range.form \in {"none", "bad"} -> Ignore
      [] range.form \notin {"none", "bad"} /\ size = 0 -> Unsatisfiable
      [] range.form = "suffix" /\ size > 0 ->
           IF range.n = 0 THEN Unsatisfiable
           ELSE Satisfiable(IF range.n < size THEN size - range.n ELSE 0, size - 1)
      [] range.form = "from" /\ size > 0 ->
           IF range.n > size THEN Unsatisfiable ELSE Satisfiable(range.n, size - 1)
      [] range.form = "range" /\ size > 0 ->
           IF range.n >= size \/ range.n > range.last THEN Unsatisfiable
           ELSE Satisfiable(range.n, Min2(range.last, size - 1))

\* parse_range_header: both ends are inclusive.
ParseRange(range, size) ==
    CASE range.form \in {"none", "bad"} -> Ignore
      [] range.form \notin {"none", "bad"} /\ size = 0 -> Unsatisfiable
      [] range.form = "suffix" /\ size > 0 ->
           IF range.n = 0 THEN Unsatisfiable
           ELSE Satisfiable(IF range.n < size THEN size - range.n ELSE 0, size - 1)
      [] range.form = "from" /\ size > 0 ->
           IF range.n >= size THEN Unsatisfiable ELSE Satisfiable(range.n, size - 1)
      [] range.form = "range" /\ size > 0 ->
           IF range.n >= size \/ range.n > range.last THEN Unsatisfiable
           ELSE Satisfiable(range.n, Min2(range.last, size - 1))

\* Mutant: the body starts at the first byte.
RangeResponseWithoutSeek(header, content) ==
    LET size == Len(content)
        range == IF header.ifRange = "other" THEN Ignore ELSE ParseRange(header.range, size)
    IN  CASE range.spec = "satisfiable" ->
               [status |-> 206, start |-> range.start, total |-> size,
                length |-> range.end - range.start + 1,
                body |-> SubSeq(content, 1, range.end - range.start + 1)]
          [] range.spec = "unsatisfiable" -> [status |-> 416, total |-> size]
          [] range.spec = "ignore" ->
               [status |-> 200, start |-> 0, total |-> size, length |-> size,
                body |-> content]

\* serve_file_with_range, serve_s3_with_range: the response of a file with this
\* content.  A stale If-Range makes the range count for nothing.
RangeResponse(header, content) ==
    LET size == Len(content)
        range == IF header.ifRange = "other" THEN Ignore ELSE ParseRange(header.range, size)
    IN  CASE range.spec = "satisfiable" ->
               [status |-> 206, start |-> range.start, total |-> size,
                length |-> range.end - range.start + 1,
                body |-> SubSeq(content, range.start + 1, range.end + 1)]
          [] range.spec = "unsatisfiable" -> [status |-> 416, total |-> size]
          [] range.spec = "ignore" ->
               [status |-> 200, start |-> 0, total |-> size, length |-> size,
                body |-> content]

\* serve_blob: revalidation and HEAD never touch the file.
Respond(header, content) ==
    IF header.ifNoneMatch = "match" THEN [status |-> 304]
    ELSE IF header.method = "HEAD" THEN [status |-> 200, total |-> Size]
    ELSE RangeResponse(header, content)

-----------------------------------------------------------------------------
(* A request.                                                               *)

Is(r, role) == people.role[r] = role
Refreshing == people.files # {}
Walking == \E r \in Requests : Is(r, "walker")

\* What a resuming client sends: the rest of what it has, if it is still the
\* same blob.
Resuming(r) ==
    IF got[r] = <<>> THEN Plain
    ELSE [Plain EXCEPT !.range = [form |-> "from", n |-> Len(got[r])], !.ifRange = "match"]

Complete(r) == total[r] # Nothing /\ Len(got[r]) = total[r]

\* Bound: a HEAD and a matching If-None-Match, which look at no range, carry none.
MaySend(r) ==
    CASE Is(r, "resumer") -> IF Complete(r) THEN {} ELSE {Resuming(r)}
      [] Is(r, "prober") ->
           IF answer[r] # NoAnswer THEN {}
           ELSE {h \in Headers : h.method = "HEAD" \/ h.ifNoneMatch = "match"
                                   => h.range = NoRange}
      [] Is(r, "walker") -> {Plain}
      [] OTHER -> {}

Arrive(r) ==
    /\ rq[r].pc = "idle"
    /\ \E h \in MaySend(r) :
         asked' = [asked EXCEPT ![r] = [header |-> h, source |-> Nothing]]
    /\ rq' = [rq EXCEPT ![r] = [Idle EXCEPT !.pc = "resolve"]]
    /\ UNCHANGED <<env, missed, cached, people, stored, dir, served, scan, answer, got, total,
                   known>>

\* The bucket is not available, or a request to it fails: so does the client's, and
\* neither the served directory nor the upstream servers are tried.  Bound: where
\* clients walk no bucket is configured.
BucketFails(r) ==
    /\ ~settled /\ ~Walking
    /\ Reply(r, "unavailable")
    /\ asked' = [asked EXCEPT ![r] = NoRequest]

\* resolve_blob: the index and the bucket first, then the served directory.  A blob
\* the index does not have is looked for in the bucket and published from there.
ResolveIndex(r) ==
    /\ rq[r].pc = "resolve"
    /\ \/ /\ Goto(r, IF stored = "none" THEN "served" ELSE "open")
          /\ asked' = [asked EXCEPT ![r].source = IF stored = "none" THEN Nothing ELSE stored]
       \/ stored # "disk" /\ BucketFails(r)
    /\ UNCHANGED <<env, missed, cached, people, stored, dir, served, scan, answer, got, total,
                   known>>

\* Mutant: the index is taken to have the blob.
ResolveServedUnchecked(r) ==
    /\ rq[r].pc = "served"
    /\ Goto(r, "open")
    /\ asked' = [asked EXCEPT ![r].source = served]
    /\ UNCHANGED <<env, missed, cached, people, stored, dir, served, scan, answer, got, total,
                   known>>

ResolveServed(r) ==
    /\ rq[r].pc = "served"
    /\ Goto(r, IF served = Nothing THEN "plan" ELSE "open")
    /\ asked' = [asked EXCEPT ![r].source = served]
    /\ UNCHANGED <<env, missed, cached, people, stored, dir, served, scan, answer, got, total,
                   known>>

\* What the source has when it is opened: the entry was read before payment.
Content(source) ==
    IF source \in {"disk", "bucket"}
    THEN IF stored = source THEN Blob ELSE Nothing
    ELSE dir[source]

\* The client keeps what reached it of a body: after 200 it begins anew.
Receive(r, a) ==
    \E n \in 0..Len(a.body) :
        /\ got' = [got EXCEPT ![r] = SubSeq(@, 1, a.start) \o SubSeq(a.body, 1, n)]
        /\ total' = [total EXCEPT ![r] = a.total]

\* The response to a client, and what it makes of it.
Deliver(r, a) ==
    /\ \/ /\ Is(r, "prober") /\ answer' = [answer EXCEPT ![r] = a]
          /\ UNCHANGED <<asked, got, total>>
       \/ /\ ~Is(r, "prober") /\ asked' = [asked EXCEPT ![r] = NoRequest]
          /\ IF a.status \in {200, 206} /\ Is(r, "resumer")
             THEN Receive(r, a) ELSE UNCHANGED <<got, total>>
          /\ UNCHANGED answer
    /\ Reply(r, "local")

Open(r) ==
    /\ rq[r].pc = "open"
    /\ LET h == asked[r].header
           c == Content(asked[r].source)
           a == IF h.ifNoneMatch = "match" \/ h.method = "HEAD" THEN Respond(h, Blob)
                ELSE IF c = Nothing THEN [status |-> 404]
                ELSE Respond(h, c)
       IN  \/ Deliver(r, a)
           \/ /\ asked[r].source = "bucket" /\ h.method = "GET" /\ a.status \in {200, 206, 404}
              /\ BucketFails(r) /\ UNCHANGED <<answer, got, total>>
    /\ UNCHANGED <<env, missed, cached, people, stored, dir, served, scan, known>>

-----------------------------------------------------------------------------
(* The index of the served directory.                                       *)

requests == <<walkVars, people, stored, asked, answer, got, total>>

\* collect_files
Collect ==
    /\ Refreshing /\ scan.pc = "idle"
    /\ LET found == {f \in Files : dir[f] # Nothing}
       IN  scan' = [NoScan EXCEPT !.pc = "hash", !.todo = found,
                                  !.steady = {f \in Files : dir[f] = Blob}]
    /\ UNCHANGED <<requests, dir, served, known>>

\* sha256_file.  A file that has gone ends the scan with an error.
HashFile ==
    /\ scan.pc = "hash"
    /\ \E f \in scan.todo :
        scan' = CASE dir[f] = Nothing -> [scan EXCEPT !.pc = "error"]
                  [] dir[f] = Blob -> [scan EXCEPT !.pc = "stat", !.file = f, !.todo = @ \ {f}]
                  [] OTHER -> [scan EXCEPT !.todo = @ \ {f}]
    /\ UNCHANGED <<requests, dir, served, known>>

\* fs::metadata; the entry of a second file with the same hash replaces the first.
StatFile ==
    /\ scan.pc = "stat"
    /\ scan' = IF dir[scan.file] = Nothing THEN [scan EXCEPT !.pc = "error"]
               ELSE [scan EXCEPT !.pc = "hash", !.next = scan.file, !.file = Nothing]
    /\ UNCHANGED <<requests, dir, served, known>>

IoFailure ==
    /\ scan.pc \in {"hash", "stat"} /\ ~settled
    /\ scan' = [scan EXCEPT !.pc = "error"]
    /\ UNCHANGED <<requests, dir, served, known>>

\* Mutant: an entry the scan did not find again is kept.
SwapMerging ==
    /\ scan.pc = "hash" /\ scan.todo = {}
    /\ served' = IF scan.next = Nothing THEN served ELSE scan.next
    /\ known' = scan.steady
    /\ scan' = NoScan
    /\ UNCHANGED <<requests, dir>>

\* Only a scan that met no error replaces the index.
Swap ==
    /\ scan.pc = "hash" /\ scan.todo = {}
    /\ served' = scan.next
    /\ known' = scan.steady
    /\ scan' = NoScan
    /\ UNCHANGED <<requests, dir>>

\* Mutant: what a failed scan found replaces the index.
GiveUpKeepingPartial ==
    /\ scan.pc = "error"
    /\ scan' = NoScan /\ served' = scan.next
    /\ UNCHANGED <<requests, dir, known>>

\* start_refresh_job: the old index stays until a later scan.
GiveUp ==
    /\ scan.pc = "error"
    /\ scan' = NoScan
    /\ UNCHANGED <<requests, dir, served, known>>

Refresh == Collect \/ HashFile \/ StatFile \/ IoFailure \/ Swap \/ GiveUp

\* The operator writes, replaces or removes a file.
DirChanges ==
    /\ Refreshing /\ ~settled
    /\ \E f \in people.files : \E c \in (MayHold[f] \cup {Nothing}) \ {dir[f]} :
        /\ dir' = [dir EXCEPT ![f] = c]
        /\ scan' = [scan EXCEPT !.steady = @ \ {f}]
        /\ known' = known \ {f}
    /\ UNCHANGED <<requests, served>>

\* An upload, a mirror or a discovery publishes the blob; a deletion or an
\* eviction removes it (BlobStore).  Bound: not where clients walk.
StoreChanges ==
    /\ ~settled /\ ~Walking
    /\ stored' \in {"none", "disk", "bucket"} \ {stored}
    /\ UNCHANGED <<walkVars, people, dir, served, scan, asked, answer, got, total, known>>

-----------------------------------------------------------------------------
\* Bound: upstream and its faults change only where somebody walks.
OutsideHere ==
    /\ Outside /\ (Walking \/ Refreshing)
    /\ ~Walking => settled'
    /\ UNCHANGED serveVars

ServeStep(r) ==
    \/ ResolveIndex(r) \/ ResolveServed(r) \/ Open(r)
    \/ WalkStep(r) /\ UNCHANGED serveVars

TimePasses == Clock /\ UNCHANGED serveVars
CachesCleaned == Walking /\ CleanupCaches /\ UNCHANGED serveVars

Next ==
    \/ \E r \in Requests : Arrive(r) \/ ServeStep(r)
    \/ Refresh \/ DirChanges \/ StoreChanges
    \/ TimePasses \/ CachesCleaned \/ OutsideHere

Spec == ServingInit /\ [][Next]_servingVars

\* The runtime polls every request and the refresh job, and time passes.
FairSpec ==
    /\ Spec
    /\ \A r \in Requests : WF_servingVars(ServeStep(r))
    /\ WF_servingVars(Refresh) /\ WF_servingVars(TimePasses)

-----------------------------------------------------------------------------
(* Properties.                                                              *)

\* Every variable has the type the code gives it.
ServingTypeOK ==
    /\ WalkTypeOK
    /\ stored \in {"none", "disk", "bucket"} /\ people \in Populations
    /\ \A f \in Files : dir[f] \in MayHold[f] \cup {Nothing}
    /\ served \in Files \cup {Nothing} /\ known \subseteq Files
    /\ scan.pc \in {"idle", "hash", "stat", "error"} /\ scan.todo \subseteq Files
    /\ {scan.file, scan.next} \subseteq Files \cup {Nothing} /\ scan.steady \subseteq Files
    /\ \A r \in Requests :
         /\ asked[r].header \in Headers
         /\ asked[r].source \in Files \cup {"disk", "bucket", Nothing}
         /\ (rq[r].pc = "open" => asked[r].source # Nothing)
         /\ total[r] \in Nat \cup {Nothing}

\* A download put together from any number of interrupted responses, by whatever
\* sources they were answered, is the blob (serve_blob, the ETag and If-Range).
AssembledIsBlob == \A r \in Requests : Complete(r) => got[r] = Blob

\* The positions of the blob, from 0, that a Range header selects.
Selected(range, size) ==
    {p \in 0..size - 1 :
        CASE range.form = "suffix" -> p >= size - range.n
          [] range.form = "from" -> p >= range.n
          [] range.form = "range" -> range.n <= p /\ p <= range.last
          [] OTHER -> TRUE}

\* A response carries the bytes the header selects and says so: part of the blob
\* under 206, all of it under 200, none under 416, and the same length whether
\* HEAD or GET asks (serve_file_with_range, serve_s3_with_range).
Exact(a, h) ==
    LET range == IF h.ifRange = "other" THEN NoRange ELSE h.range
        wanted == Selected(range, Size)
    IN  /\ a.status \in {0, 200, 206, 304, 404, 416}
        /\ a.status \in {200, 206, 416} => a.total = Size
        /\ a.status = 206 =>
             /\ wanted = a.start..(a.start + a.length - 1) /\ wanted # {}
             /\ a.body = [i \in 1..a.length |-> Blob[a.start + i]]
        /\ a.status = 200 /\ h.method = "GET" => wanted = 0..Size - 1 /\ a.body = Blob
        /\ a.status = 416 => wanted = {}

\* Every response a client got is exact.
RangeExact == \A r \in Requests : Exact(answer[r], asked[r].header)

\* The index holds the blob as long as one file has held it since the scan that
\* made the index began: a scan that fails halfway takes nothing away, and no
\* lookup falls between the old index and the new (refresh_serve_file_index).
SteadyIsIndexed == known # {} => served # Nothing

\* A blob that is held here is found, and its bytes are served exactly
\* (resolve_blob, serve_blob).
HeldIsServed == ServingTypeOK /\ AssembledIsBlob /\ RangeExact /\ SteadyIsIndexed

\* Once the directory is left alone, the index comes to name a file that has the
\* blob, or none if there is none (start_refresh_job).
IndexCatchesUp ==
    <>(settled /\ Refreshing) =>
      <>[](IF \E f \in Files : dir[f] = Blob
           THEN served \in Files /\ dir[served] = Blob ELSE served = Nothing)

\* Whatever the caches held in bad times, or a scan that failed left, does not
\* hide a blob for ever.
CachesHeal == ServedInTheEnd /\ IndexCatchesUp
=============================================================================
