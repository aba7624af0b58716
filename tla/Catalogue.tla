----------------------------- MODULE Catalogue ------------------------------
(***************************************************************************)
(* The blob index as a catalogue (services/blob_index.rs): the map, the    *)
(* newest-first order kept beside it, the sum of sizes and the generation, *)
(* and the two endpoints that derive something from it while it changes:   *)
(* GET /list, which clients walk page by page (handlers/list.rs), and      *)
(* GET /filter, which renders the set of hashes and caches the result      *)
(* under the generation (handlers/filter.rs).                              *)
(*                                                                         *)
(* A walk asks for pages of one window of creation times, passing the last *)
(* hash it received as the cursor, until a page is empty.  Hashes are      *)
(* numbers here, because entries of one second are ordered by hash.        *)
(***************************************************************************)
EXTENDS Integers, FiniteSets

CONSTANTS
    Hashes,       \* a set of numbers
    Size,         \* the size of each blob
    Walkers,      \* clients that walk the catalogue
    Windows,      \* the [since, until] they ask for
    Limit,        \* the page size they ask for, after clamping
    Requests,     \* filter requests
    Rates,        \* false positive rates a client may ask for
    DefaultRate,  \* 0.01
    Algorithm,    \* filter_algorithm: "bloom" or "binary-fuse-16"
    Nothing,
    Populations,  \* bound: the sets of clients that may be at work together
    MaxClock,     \* bound on the clock, in seconds
    MaxChanges    \* bound on the generation

\* FilterCache: a rendered filter, and the generation and rate it is kept under.
Filters == [generation : Nat, rate : Rates, keys : SUBSET Hashes]

ASSUME CatalogueAssumption ==
    /\ Hashes \subseteq Nat /\ IsFiniteSet(Hashes) /\ Size \in [Hashes -> Nat]
    /\ Windows \subseteq [since : Nat, until : Nat]
    /\ Limit \in Nat \ {0} /\ DefaultRate \in Rates
    /\ Nothing \notin Nat \cup Rates \cup Windows \cup Requests \cup Filters
    /\ Populations \subseteq SUBSET (Walkers \cup Requests)
    /\ MaxClock \in Nat /\ MaxChanges \in Nat \ {0}

VARIABLES
    map,         \* the creation time of each indexed hash, or Nothing
    order,       \* Entries::order, as pairs of creation time and hash
    total,       \* Entries::total_bytes
    generation,  \* Entries::generation
    active,      \* the clients at work
    clock, settled,  \* settled: from when on the index does not change
    wpc, window, cursor,  \* each walk
    cache, writer,   \* filter_cache and who holds its write lock
    fpc, rate, seenGen,   \* each filter request
    answer,      \* what it was answered with
    \* History, read by the properties only.
    listed,      \* the hashes each walk has received
    repeated,    \* those it has received twice
    stable,      \* the hashes whose entry has not changed since a walk began
    lost,        \* walks whose cursor was removed or moved
    mark,        \* the creation time each walk's cursor had when it was received
    sunk,        \* walks that went on from a cursor which had become older than that
    always, ever \* hashes indexed all along, or at some time, in a filter request

entries == <<map, order, total, generation>>
walks == <<wpc, window, cursor, listed, repeated, stable, lost, mark,
           sunk>>
filters == <<active, cache, writer, fpc, rate, seenGen, answer, always, ever>>
vars == <<entries, clock, settled, walks, filters>>

-----------------------------------------------------------------------------
(* The index.                                                               *)

Indexed == {h \in Hashes : map[h] # Nothing}

\* The bytes of the blobs in S, each a pair of its blob and its number.
Bytes(S) == UNION {{h} \X (1..Size[h]) : h \in S}
SumSizes(S) == Cardinality(Bytes(S))

OrderOf(m) == {<<m[h], h>> : h \in {g \in Hashes : m[g] # Nothing}}

\* replace: what the startup scan found.
Init ==
    /\ map \in [Hashes -> {0, Nothing}]
    /\ order = OrderOf(map)
    /\ total = SumSizes(Indexed)
    /\ generation = 1
    /\ active \in Populations
    /\ clock = 0 /\ settled = FALSE
    /\ wpc = [w \in Walkers |-> "idle"]
    /\ window = [w \in Walkers |-> Nothing]
    /\ cursor = [w \in Walkers |-> Nothing]
    /\ listed = [w \in Walkers |-> {}]
    /\ repeated = [w \in Walkers |-> {}]
    /\ stable = [w \in Walkers |-> {}]
    /\ mark = [w \in Walkers |-> Nothing]
    /\ lost = {} /\ sunk = {}
    /\ cache = Nothing /\ writer = Nothing
    /\ fpc = [r \in Requests |-> "idle"]
    /\ rate = [r \in Requests |-> Nothing]
    /\ seenGen = [r \in Requests |-> 0]
    /\ answer = [r \in Requests |-> Nothing]
    /\ always = [r \in Requests |-> {}]
    /\ ever = [r \in Requests |-> {}]

\* Whatever changes h's entry to one created at `at`, or to none, is noted by
\* the walks and filter requests under way.
Note(h, at) ==
    LET removed == at = Nothing
    IN  /\ stable' = [w \in Walkers |-> stable[w] \ {h}]
        /\ lost' = lost \cup {w \in Walkers : wpc[w] = "walking" /\ cursor[w] = h}
        /\ always' = [r \in Requests |-> IF removed THEN always[r] \ {h} ELSE always[r]]
        /\ ever' = [r \in Requests |-> IF fpc[r] = "idle" \/ removed THEN ever[r]
                                       ELSE ever[r] \cup {h}]
        /\ UNCHANGED <<clock, settled, wpc, window, cursor, listed, repeated, mark, sunk,
                       active, cache, writer, fpc, rate, seenGen, answer>>

MayChange == ~settled /\ generation < MaxChanges

\* Mutant: the order keeps the place of the entry that is replaced.
InsertKeepingPlace(h, at) ==
    /\ map' = [map EXCEPT ![h] = at]
    /\ order' = order \cup {<<at, h>>}
    /\ total' = total + Size[h] - (IF map[h] = Nothing THEN 0 ELSE Size[h])
    /\ generation' = generation + 1

\* Mutant: the size of an entry that replaces another is not added.
InsertUncounted(h, at) ==
    /\ map' = [map EXCEPT ![h] = at]
    /\ order' = (order \ {<<map[h], h>>}) \cup {<<at, h>>}
    /\ total' = IF map[h] = Nothing THEN total + Size[h] ELSE total - Size[h]
    /\ generation' = generation + 1

\* Entries::insert: the previous entry gives up its size and its place.
Insert(h, at) ==
    /\ map' = [map EXCEPT ![h] = at]
    /\ order' = (order \ {<<map[h], h>>}) \cup {<<at, h>>}
    /\ total' = total + Size[h] - (IF map[h] = Nothing THEN 0 ELSE Size[h])
    /\ generation' = generation + 1

\* publish and insert: an upload or cache fill is created now.
Publish(h) ==
    /\ MayChange
    /\ Insert(h, clock)
    /\ Note(h, clock)

\* An object discovered in the bucket is created when it was last modified.
Discover(h) ==
    /\ MayChange
    /\ map[h] = Nothing
    /\ \E at \in 0..clock : Insert(h, at) /\ Note(h, at)

\* Mutant: a removal leaves the generation as it was.
RemoveQuietly(h) ==
    /\ MayChange
    /\ map[h] # Nothing
    /\ map' = [map EXCEPT ![h] = Nothing]
    /\ order' = order \ {<<map[h], h>>}
    /\ total' = total - Size[h]
    /\ UNCHANGED generation
    /\ Note(h, Nothing)

\* Entries::remove
Remove(h) ==
    /\ MayChange
    /\ map[h] # Nothing
    /\ map' = [map EXCEPT ![h] = Nothing]
    /\ order' = order \ {<<map[h], h>>}
    /\ total' = total - Size[h]
    /\ generation' = generation + 1
    /\ Note(h, Nothing)

\* Creation times matter to walks only, so time passes, and the index settles,
\* only where there are walks.
Tick ==
    /\ active \cap Walkers # {}
    /\ clock < MaxClock
    /\ clock' = clock + 1
    /\ UNCHANGED <<entries, settled, walks, filters>>

Settle ==
    /\ active \cap Walkers # {}
    /\ ~settled
    /\ settled' = TRUE
    /\ UNCHANGED <<entries, clock, walks, filters>>

-----------------------------------------------------------------------------
(* GET /list                                                                *)

\* The pair comes before the other in the BTreeSet: newest first, and the
\* greater hash first among entries of one second.
Before(a, b) == a[1] > b[1] \/ (a[1] = b[1] /\ a[2] > b[2])

\* A page is a set, as Before puts it in order: the first n pairs of S.
FirstOf(S, n) == {a \in S : Cardinality({b \in S : Before(b, a)}) < n}
LastOf(page) == CHOOSE a \in page : \A b \in page \ {a} : Before(b, a)

InWindow(at, win) == at # Nothing /\ win.since <= at /\ at <= win.until

\* Mutant: the page begins with its cursor.
PageFromCursor(win, cur, limit) ==
    LET resumes == cur # Nothing /\ InWindow(map[cur], win)
        after == IF resumes THEN {a \in order : ~Before(a, <<map[cur], cur>>)} ELSE order
    IN  FirstOf({a \in after : InWindow(map[a[2]], win)}, limit)

\* Mutant: a cursor that is no longer indexed ends the walk.
PageOrNone(win, cur, limit) ==
    LET resumes == cur # Nothing /\ InWindow(map[cur], win)
        after == IF resumes THEN {a \in order : Before(<<map[cur], cur>>, a)}
                 ELSE IF cur = Nothing THEN order ELSE {}
    IN  FirstOf({a \in after : InWindow(map[a[2]], win)}, limit)

\* BlobIndex::page.  A cursor that is not indexed, or not in the window, is
\* ignored: the page is the first one.
Page(win, cur, limit) ==
    LET resumes == cur # Nothing /\ InWindow(map[cur], win)
        after == IF resumes THEN {a \in order : Before(<<map[cur], cur>>, a)} ELSE order
    IN  FirstOf({a \in after : InWindow(map[a[2]], win)}, limit)

StartWalk(w) ==
    /\ w \in active /\ wpc[w] = "idle"
    /\ wpc' = [wpc EXCEPT ![w] = "walking"]
    /\ window' \in {[window EXCEPT ![w] = win] : win \in Windows}
    /\ stable' = [stable EXCEPT ![w] = Indexed]
    /\ UNCHANGED <<entries, clock, settled, cursor, listed, repeated, lost, mark, sunk,
                   filters>>

\* The walk goes on from a cursor that is older now than when it was received.
SinksNow(w) ==
    cursor[w] # Nothing /\ InWindow(map[cursor[w]], window[w]) /\ map[cursor[w]] < mark[w]

\* list_blobs: one page, and what the client makes of it.
NextPage(w) ==
    LET page == Page(window[w], cursor[w], Limit)
        got == {a[2] : a \in page}
    IN  /\ wpc[w] = "walking"
        /\ IF page = {}
             THEN wpc' = [wpc EXCEPT ![w] = "done"] /\ UNCHANGED <<cursor, listed, repeated, mark>>
             ELSE /\ cursor' = [cursor EXCEPT ![w] = LastOf(page)[2]]
                  /\ mark' = [mark EXCEPT ![w] = LastOf(page)[1]]
                  /\ listed' = [listed EXCEPT ![w] = @ \cup got]
                  /\ repeated' = [repeated EXCEPT ![w] = @ \cup (got \cap listed[w])]
                  /\ UNCHANGED wpc
        /\ sunk' = IF SinksNow(w) THEN sunk \cup {w} ELSE sunk
        /\ UNCHANGED <<entries, clock, settled, window, stable, lost, filters>>

\* A client whose walk has ended asks for nothing more.
Rest(w) == wpc[w] = "done" /\ UNCHANGED vars

-----------------------------------------------------------------------------
(* GET /filter                                                              *)

\* Mutant: the rate is left out of the cache's key for every algorithm.
OneRate(asked) == DefaultRate

\* The rate in the cache's key: Binary Fuse filters have a fixed one.
KeyRate(asked) == IF Algorithm = "bloom" THEN asked ELSE DefaultRate

Hit(r) ==
    /\ cache # Nothing
    /\ cache.generation = seenGen[r]
    /\ cache.rate = KeyRate(rate[r])

\* get_filter reads the generation.
AskFilter(r) ==
    /\ r \in active /\ fpc[r] = "idle"
    /\ fpc' = [fpc EXCEPT ![r] = "read"]
    /\ rate' \in {[rate EXCEPT ![r] = asked] : asked \in Rates}
    /\ seenGen' = [seenGen EXCEPT ![r] = generation]
    /\ always' = [always EXCEPT ![r] = Indexed]
    /\ ever' = [ever EXCEPT ![r] = Indexed]
    /\ UNCHANGED <<entries, clock, settled, walks, active, cache, writer, answer>>

Answer(r, rendered) ==
    /\ fpc' = [fpc EXCEPT ![r] = "answered"]
    /\ answer' = [answer EXCEPT ![r] = rendered]

\* The cache under the read lock.
ReadCache(r) ==
    /\ fpc[r] = "read"
    /\ writer = Nothing
    /\ IF Hit(r) THEN Answer(r, cache)
       ELSE fpc' = [fpc EXCEPT ![r] = "wait"] /\ UNCHANGED answer
    /\ UNCHANGED <<entries, clock, settled, walks, active, cache, writer, rate, seenGen, always, ever>>

\* Mutant: the cache is not looked at again under the write lock.
LockCacheUnchecked(r) ==
    /\ fpc[r] = "wait"
    /\ writer = Nothing
    /\ fpc' = [fpc EXCEPT ![r] = "render"]
    /\ writer' = r
    /\ UNCHANGED <<entries, clock, settled, walks, active, cache, rate, seenGen, answer, always,
                   ever>>

\* The write lock, and the cache again.
LockCache(r) ==
    /\ fpc[r] = "wait"
    /\ writer = Nothing
    /\ IF Hit(r) THEN Answer(r, cache) /\ UNCHANGED writer
       ELSE fpc' = [fpc EXCEPT ![r] = "render"] /\ writer' = r /\ UNCHANGED answer
    /\ UNCHANGED <<entries, clock, settled, walks, active, cache, rate, seenGen, always, ever>>

\* render_filter: the index's keys and generation are read together, later than
\* the generation the request looked the cache up with.  The result is stored
\* with the rate that was asked for.
Render(r) ==
    LET rendered == [generation |-> generation, rate |-> rate[r], keys |-> Indexed]
    IN  /\ fpc[r] = "render"
        /\ cache' = rendered
        /\ writer' = Nothing
        /\ Answer(r, rendered)
        /\ UNCHANGED <<entries, clock, settled, walks, active, rate, seenGen, always, ever>>

\* The handler returns, or the request is dropped and with it the lock.
EndFilter(r) ==
    /\ fpc[r] # "idle"
    /\ fpc' = [fpc EXCEPT ![r] = "idle"]
    /\ rate' = [rate EXCEPT ![r] = Nothing]
    /\ seenGen' = [seenGen EXCEPT ![r] = 0]
    /\ answer' = [answer EXCEPT ![r] = Nothing]
    /\ always' = [always EXCEPT ![r] = {}]
    /\ ever' = [ever EXCEPT ![r] = {}]
    /\ writer' = IF writer = r THEN Nothing ELSE writer
    /\ UNCHANGED <<entries, clock, settled, walks, active, cache>>

Next ==
    \/ \E h \in Hashes : Publish(h) \/ Discover(h) \/ Remove(h)
    \/ Tick \/ Settle
    \/ \E w \in Walkers : StartWalk(w) \/ NextPage(w) \/ Rest(w)
    \/ \E r \in Requests : AskFilter(r) \/ ReadCache(r) \/ LockCache(r) \/ Render(r) \/ EndFilter(r)

Spec == Init /\ [][Next]_vars

\* A client that has begun a walk asks for its next page.
FairSpec == Spec /\ \A w \in Walkers : WF_vars(NextPage(w))

-----------------------------------------------------------------------------
(* Properties.                                                              *)

\* Every variable holds a value of the kind its Rust type allows.
TypeOK ==
    /\ map \in [Hashes -> 0..MaxClock \cup {Nothing}]
    /\ order \subseteq (0..MaxClock) \X Hashes
    /\ active \in Populations
    /\ total \in Nat /\ generation \in 1..MaxChanges
    /\ wpc \in [Walkers -> {"idle", "walking", "done"}]
    /\ window \in [Walkers -> Windows \cup {Nothing}]
    /\ cursor \in [Walkers -> Hashes \cup {Nothing}]
    /\ listed \in [Walkers -> SUBSET Hashes] /\ repeated \in [Walkers -> SUBSET Hashes]
    /\ stable \in [Walkers -> SUBSET Hashes]
    /\ mark \in [Walkers -> 0..MaxClock \cup {Nothing}]
    /\ lost \subseteq Walkers /\ sunk \subseteq Walkers
    /\ cache \in Filters \cup {Nothing}
    /\ writer \in Requests \cup {Nothing}
    /\ fpc \in [Requests -> {"idle", "read", "wait", "render", "answered"}]
    /\ rate \in [Requests -> Rates \cup {Nothing}] /\ seenGen \in [Requests -> Nat]
    /\ answer \in [Requests -> Filters \cup {Nothing}]
    /\ always \in [Requests -> SUBSET Hashes] /\ ever \in [Requests -> SUBSET Hashes]

\* The sum of sizes that metrics report never drifts from the entries, however
\* often they are replaced and removed.
AggregatesExact == total = SumSizes(Indexed) /\ order = OrderOf(map)

\* A walk that has ended has listed every blob that was there, unchanged, all
\* the time, although cursors vanish under it or are published anew.  The one
\* exception is a walk that goes on from a cursor which came back with an older
\* time than it was received with: what lies between is skipped.
WalkComplete ==
    \A w \in Walkers \ sunk : wpc[w] = "done" =>
        \A h \in stable[w] : InWindow(map[h], window[w]) => h \in listed[w]

\* A blob is listed twice only if it was published anew, or if the cursor
\* vanished and the walk began again.
NoRepeats == \A w \in Walkers \ lost : repeated[w] \cap stable[w] = {}

\* The order kept beside the map and the pages cut from it show the catalogue as
\* it is (Entries, page).
ListIsFaithful == TypeOK /\ AggregatesExact /\ WalkComplete /\ NoRepeats

\* Once the index stays as it is, every walk comes to its end.
WalksEnd == \A w \in Walkers : <>[](settled /\ wpc[w] # "idle") => <>(wpc[w] = "done")

\* The filter a request is answered with holds every hash that was indexed
\* while it ran, so that nobody is told that a stored blob is missing, and none
\* that was not indexed at any time.
FilterIsCurrent ==
    \A r \in Requests : fpc[r] = "answered" =>
        always[r] \subseteq answer[r].keys /\ answer[r].keys \subseteq ever[r]

\* A Bloom filter has the false positive rate that was asked for.
RateAsAsked ==
    \A r \in Requests : fpc[r] = "answered" /\ Algorithm = "bloom" => answer[r].rate = rate[r]

\* Misses for the same filter of the same, unchanged index share one rendering.
IdenticalMissesShare ==
    [][\A r \in Requests :
         fpc[r] = "render" /\ fpc'[r] = "answered" /\ cache # Nothing
           => \/ cache.generation # generation \/ seenGen[r] # generation
              \/ KeyRate(cache.rate) # KeyRate(rate[r])]_vars

\* Rendered or cached, an answer is the filter that was asked for, and it is
\* rendered no more often than needed (get_filter).
FilterIsFaithful ==
    /\ [](FilterIsCurrent /\ RateAsAsked)
    /\ IdenticalMissesShare
=============================================================================
