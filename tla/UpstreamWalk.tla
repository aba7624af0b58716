---------------------------- MODULE UpstreamWalk ----------------------------
(***************************************************************************)
(* A request for a blob that is not held here: the upstream servers it     *)
(* names, the order in which they are asked (services/                     *)
(* upstream_candidates.rs), the author's server list with its cache        *)
(* (services/blossom_servers.rs) and the cache of recent misses            *)
(* (handlers/file_serving.rs, utils.rs).                                   *)
(*                                                                         *)
(* The module follows one hash.  What happens to the answer of the server  *)
(* that has it is UpstreamFetch's subject.  The servers and the relays are *)
(* the environment: while "up" is FALSE any request to them, and any local *)
(* step of starting the download, may fail.  Instants are kept as ages     *)
(* that stop counting at the age where the entry has expired.              *)
(***************************************************************************)
EXTENDS Integers, Sequences, FiniteSets, SequencesExt

CONSTANTS
    Requests,
    Authors,
    TrustedAuthors,  \* the authors is_pubkey_authorized accepts
    Hosts,
    PublicHosts,     \* the hosts whose addresses pass the SSRF check
    OverlayHosts,    \* the .fips hosts, which may be asked without TLS
    Unsteady,        \* bound: the hosts whose names may fail to resolve
    Configured,      \* UPSTREAM_SERVERS
    Queries,         \* the upstream parameters each request may carry
    Lists,           \* bound: the server lists each author may publish
    OriginMode,      \* feature_custom_upstream_origin_enabled
    MissTTL,         \* UPSTREAM_MISS_TTL
    ListTTL,         \* blossom_server_list_cache_ttl
    Nothing

\* A server as it is written in a query, a list or the configuration.
Hint == [scheme : {"http", "https", "none"}, host : Hosts, slash : BOOLEAN]

\* A server list as it is cached.
CachedLists == [servers : Seq(Hint), age : 0..ListTTL]

ASSUME WalkAssumption ==
    /\ PublicHosts \subseteq Hosts /\ OverlayHosts \subseteq Hosts
    /\ Unsteady \subseteq Hosts
    /\ TrustedAuthors \subseteq Authors
    /\ Configured \in Seq(Hint)
    /\ \A a \in Authors : Lists[a] \subseteq Seq(Hint) /\ <<>> \in Lists[a]
    /\ \A r \in Requests : \A q \in Queries[r] :
         /\ q.origin \in Seq(Hint) /\ Len(q.origin) <= 1
         /\ q.xs \in Seq(Hint) /\ q.servers \in Seq(Hint)
         /\ q.author \in Authors \cup {Nothing}
    /\ OriginMode \in {"off", "wot", "public"}
    /\ MissTTL \in Nat \ {0} /\ ListTTL \in Nat \ {0}
    /\ Nothing \notin Authors \cup Nat \cup CachedLists

VARIABLES
    up,       \* servers, relays and the local disk answer as they should
    settled,  \* from when on they do, and nothing changes upstream
    holds,    \* the hosts that hold the blob
    lists,    \* the server list of each author, as the relays hold it
    missed,   \* failed_upstream_lookups: the age of the miss, or Nothing
    cached,   \* blossom_server_lists: list and age for each author, or Nothing
    rq,       \* each request: its step, its Walk, and its last reply
    \* History, read by the properties only.
    doubt     \* age of the last moment a list changed or was out of reach

walkVars == <<up, settled, holds, lists, missed, cached, rq, doubt>>

-----------------------------------------------------------------------------
(* The plan of a request.                                                   *)

\* resolve_public_target: HTTPS everywhere, except inside the overlay, and to hosts
\* whose addresses are public or the overlay's own.
Allowed(url) ==
    /\ url.scheme = "https" \/ url.host \in OverlayHosts
    /\ url.host \in PublicHosts

\* server_url_candidates
Candidates(hint) ==
    IF hint.scheme = "none"
    THEN <<[hint EXCEPT !.scheme = "https"], [hint EXCEPT !.scheme = "http"]>>
    ELSE <<hint>>

Tier(tier, hints) ==
    LET urls == FlattenSeq([i \in DOMAIN hints |-> Candidates(hints[i])])
    IN  [i \in DOMAIN urls |-> [tier |-> tier, url |-> urls[i]]]

FirstOfEachUrl(s) ==
    FoldLeft(LAMBDA kept, c : IF \E i \in DOMAIN kept : kept[i].url = c.url
                              THEN kept ELSE Append(kept, c), <<>>, s)

\* plan: origin, xs, configured.
WalkPlan(p) == FirstOfEachUrl(Tier(1, p.origin) \o Tier(2, p.xs) \o Tier(3, Configured))

\* upstream_plan: without the feature all parameters are ignored.
UpstreamPlan(q) ==
    IF OriginMode = "off"
    THEN [origin |-> <<>>, xs |-> <<>>, author |-> Nothing]
    ELSE [origin |-> q.origin, xs |-> IF q.xs = <<>> THEN q.servers ELSE q.xs,
          author |-> q.author]

RejectsAuthor(q) ==
    OriginMode = "wot" /\ q.author # Nothing /\ q.author \notin TrustedAuthors

\* Mutant: the request's list does not count.
NamesOriginOnly(p) == p.origin # <<>>

\* names_specific_servers: an author's list does not count.
NamesServers(p) == p.origin # <<>> \/ p.xs # <<>>

\* The candidates of every plan and of every list, tabulated.
Walks == [p \in {UpstreamPlan(q) : q \in UNION {Queries[r] : r \in Requests}} |-> WalkPlan(p)]
\* fetch_user_server_list keeps the servers that are written with a scheme.
HttpServers(list) ==
    FlattenSeq([i \in DOMAIN list |->
                  IF list[i].scheme = "none" THEN <<>> ELSE <<list[i]>>])
UserServers ==
    [l \in {HttpServers(l) : l \in UNION {Lists[a] : a \in Authors}} |-> Tier(4, l)]

NoPlan == [origin |-> <<>>, xs |-> <<>>, author |-> Nothing]
Idle == [pc |-> "idle", plan |-> NoPlan, pending |-> <<>>, tried |-> {},
         user |-> FALSE, asked |-> <<>>, whole |-> TRUE, reply |-> "none"]

WalkInit ==
    /\ up = TRUE /\ settled = FALSE
    /\ holds = {}
    /\ lists = [a \in Authors |-> <<>>]
    /\ missed = Nothing
    /\ cached = [a \in Authors |-> Nothing]
    /\ rq = [r \in Requests |-> Idle]
    /\ doubt \in {0, ListTTL}

-----------------------------------------------------------------------------
(* The steps of a request.                                                  *)

env == <<up, settled, holds, lists, doubt>>

Goto(r, pc) == rq' = [rq EXCEPT ![r].pc = pc]
Reply(r, reply) == rq' = [rq EXCEPT ![r] = [Idle EXCEPT !.reply = reply]]

\* Mutant: the age of a miss is left to the cleanup.
EverMissed == missed # Nothing

\* upstream_recently_missed
RecentlyMissed == missed # Nothing /\ missed < MissTTL

Starts(r, p) ==
    rq' = [rq EXCEPT ![r] = [Idle EXCEPT !.pc = "next", !.plan = p, !.pending = Walks[p],
                                         !.user = p.author # Nothing]]

\* resolve_blob, once the blob is found nowhere here.
ResolveUpstream(r) ==
    /\ rq[r].pc = "plan"
    /\ \E q \in Queries[r] :
        LET p == UpstreamPlan(q)
        IN  \/ RejectsAuthor(q) /\ Reply(r, "forbidden")
            \/ /\ ~RejectsAuthor(q) /\ ~NamesServers(p) /\ RecentlyMissed
               /\ Reply(r, "notFound")
            \/ /\ ~RejectsAuthor(q) /\ (NamesServers(p) \/ ~RecentlyMissed)
               /\ Starts(r, p)
    /\ UNCHANGED <<env, missed, cached>>

\* Mutant: servers already asked are yielded again.
UsableAgain(r) == {i \in DOMAIN rq[r].pending : Allowed(rq[r].pending[i].url)}

\* Mutant: a server that fails the SSRF check ends the walk.
UsableToFirstBad(r) ==
    {i \in DOMAIN rq[r].pending :
        /\ \A j \in 1..i : Allowed(rq[r].pending[j].url)
        /\ rq[r].pending[i].url \notin rq[r].tried}

\* Mutant: plaintext is refused inside the overlay too.
UsableHttpsOnly(r) ==
    {i \in DOMAIN rq[r].pending :
        LET url == rq[r].pending[i].url
        IN  url.scheme = "https" /\ Allowed(url) /\ url \notin rq[r].tried}

\* The candidates Walk::next does not skip: validate_upstream_url accepts them, and
\* none of them has been tried.
Usable(r) ==
    {i \in DOMAIN rq[r].pending :
        Allowed(rq[r].pending[i].url) /\ rq[r].pending[i].url \notin rq[r].tried}

First(r) == CHOOSE i \in Usable(r) : \A j \in Usable(r) : i <= j
Behind(r, i) == SubSeq(rq[r].pending, i + 1, Len(rq[r].pending))

\* Walk::next yields the first usable candidate, or goes to the author's list.
NextCandidate(r) ==
    /\ rq[r].pc = "next" /\ Usable(r) # {}
    /\ LET c == rq[r].pending[First(r)]
       IN  rq' = [rq EXCEPT ![r].pc = "ask", ![r].tried = @ \cup {c.url},
                            ![r].pending = Behind(r, First(r)),
                            ![r].asked = Append(@, c)]
    /\ UNCHANGED <<env, missed, cached>>

\* A candidate whose name cannot be resolved is skipped without being tried.  Those
\* before it that are no use are skipped in any case.
Unresolved(r) ==
    /\ rq[r].pc = "next" /\ Usable(r) # {} /\ ~up
    /\ rq[r].pending[First(r)].url.host \in Unsteady
    /\ rq' = [rq EXCEPT ![r].pending = Behind(r, First(r)), ![r].whole = FALSE]
    /\ UNCHANGED <<env, missed, cached>>

Exhausted(r) ==
    /\ rq[r].pc = "next" /\ Usable(r) = {}
    /\ rq' = [rq EXCEPT ![r].pc = IF rq[r].user THEN "list" ELSE "failed",
                        ![r].user = FALSE, ![r].pending = <<>>]
    /\ UNCHANGED <<env, missed, cached>>

\* The servers of a list that the walk goes on with; an empty list ends it.
GoOn(r, servers) ==
    rq' = [rq EXCEPT ![r].pc = IF servers = <<>> THEN "failed" ELSE "next",
                     ![r].pending = UserServers[servers]]

\* Mutant: a cached list never expires.
UseCachedForever(a) == cached[a] # Nothing

Fresh(a) == cached[a] # Nothing /\ cached[a].age < ListTTL

\* take_user_servers with fetch_user_server_list.  A list that was fetched is
\* cached even when it is empty; a failed query ends the walk.  The relays'
\* answer and its insertion are one step: a query ends within ten seconds.
TakeUserServers(r) ==
    /\ rq[r].pc = "list"
    /\ LET a == rq[r].plan.author
       IN  \/ Fresh(a) /\ GoOn(r, cached[a].servers) /\ UNCHANGED cached
           \/ /\ ~Fresh(a)
              /\ \E answer \in {lists[a]} \cup (IF up THEN {} ELSE {<<>>}) :
                   LET servers == HttpServers(answer)
                   IN  /\ cached' = [cached EXCEPT ![a] = [servers |-> servers, age |-> 0]]
                       /\ GoOn(r, servers)
           \/ /\ ~Fresh(a) /\ ~up
              /\ rq' = [rq EXCEPT ![r].pc = "failed", ![r].whole = FALSE]
              /\ UNCHANGED cached
    /\ UNCHANGED <<env, missed>>

\* A server's answer in try_upstream_servers or try_upstream_redirect.  When the
\* server has the blob but the download cannot be started, the request fails
\* there: no further server is asked.
Ask(r) ==
    /\ rq[r].pc = "ask"
    /\ LET has == rq[r].asked[Len(rq[r].asked)].url.host \in holds
       IN  \/ has /\ Reply(r, "upstream")
           \/ (~has \/ ~up) /\ Goto(r, "next")
           \/ /\ has /\ ~up
              /\ rq' = [rq EXCEPT ![r].pc = "failed", ![r].whole = FALSE]
    /\ UNCHANGED <<env, missed, cached>>

\* fetch_from_upstream: any error is a miss, unless the request named servers.
RecordMiss(r) ==
    /\ rq[r].pc = "failed"
    /\ missed' = IF NamesServers(rq[r].plan) THEN missed ELSE 0
    /\ Reply(r, "notFound")
    /\ UNCHANGED <<env, cached>>

WalkStep(r) ==
    \/ ResolveUpstream(r) \/ NextCandidate(r) \/ Unresolved(r) \/ Exhausted(r)
    \/ TakeUserServers(r) \/ Ask(r) \/ RecordMiss(r)

-----------------------------------------------------------------------------
(* The clock, the cleanup job and the world outside.                        *)

Older(age, ttl) == IF age < ttl THEN age + 1 ELSE ttl

Clock ==
    /\ missed' = IF missed = Nothing THEN Nothing ELSE Older(missed, MissTTL)
    /\ cached' = [a \in Authors |->
                    IF cached[a] = Nothing THEN Nothing
                    ELSE [cached[a] EXCEPT !.age = Older(@, ListTTL)]]
    /\ doubt' = IF up THEN Older(doubt, ListTTL) ELSE 0
    /\ UNCHANGED <<up, settled, holds, lists, rq>>

\* cleanup_expired_failed_lookups, cleanup_expired_blossom_server_lists
CleanupCaches ==
    /\ missed' = IF RecentlyMissed THEN missed ELSE Nothing
    /\ cached' = [a \in Authors |-> IF Fresh(a) THEN cached[a] ELSE Nothing]
    /\ UNCHANGED <<env, rq>>

Outside ==
    /\ ~settled
    /\ \/ up' = ~up /\ UNCHANGED <<settled, holds, lists>>
       \/ settled' = TRUE /\ up' = TRUE /\ UNCHANGED <<holds, lists>>
       \/ \E s \in PublicHosts \ holds :
            holds' = holds \cup {s} /\ UNCHANGED <<up, settled, lists>>
       \/ \E a \in Authors : \E l \in Lists[a] :
            lists' = [lists EXCEPT ![a] = l] /\ UNCHANGED <<up, settled, holds>>
    /\ doubt' = IF lists' # lists \/ ~up \/ ~up' THEN 0 ELSE doubt
    /\ UNCHANGED <<missed, cached, rq>>

-----------------------------------------------------------------------------
(* Properties.                                                              *)

Steps == {"idle", "resolve", "served", "open", "plan", "next", "ask", "list", "failed"}
Replies == {"none", "forbidden", "notFound", "upstream", "local", "unavailable"}
Entry == [tier : 1..4, url : Hint]

WalkTypeOK ==
    /\ up \in BOOLEAN /\ settled \in BOOLEAN
    /\ holds \subseteq PublicHosts /\ \A a \in Authors : lists[a] \in Lists[a]
    /\ missed \in 0..MissTTL \cup {Nothing}
    /\ \A a \in Authors :
         cached[a] \in CachedLists \cup {Nothing}
    /\ \A r \in Requests :
         /\ rq[r].pc \in Steps /\ rq[r].reply \in Replies
         /\ rq[r].pending \in Seq(Entry) /\ rq[r].asked \in Seq(Entry)
         /\ rq[r].tried \subseteq Hint /\ {rq[r].user, rq[r].whole} \subseteq BOOLEAN
    /\ doubt \in 0..ListTTL

\* "Two tiers naming the same server only produce one request", and the servers
\* are asked in the order of their tiers, although a hint may stand for two URLs
\* and the author's list arrives in the middle of the walk (Walk::next).
AskedOnceInOrder ==
    \A r \in Requests : \A i, j \in DOMAIN rq[r].asked :
        i < j => /\ rq[r].asked[i].url # rq[r].asked[j].url
                 /\ rq[r].asked[i].tier <= rq[r].asked[j].tier

\* The same, of the URL that is requested: a trailing slash of the base is
\* dropped when the blob's URL is built (Walk::next).
RequestedOnce ==
    \A r \in Requests : \A i, j \in DOMAIN rq[r].asked :
        i # j => \/ rq[r].asked[i].url.scheme # rq[r].asked[j].url.scheme
                 \/ rq[r].asked[i].url.host # rq[r].asked[j].url.host

\* "HTTPS everywhere, except inside the FIPS overlay": no server is asked in a way
\* that the check of its URL forbids, however it was named (resolve_public_target).
AskedAsAllowed == \A r \in Requests : \A i \in DOMAIN rq[r].asked : Allowed(rq[r].asked[i].url)

\* A walk that ends without an error has asked every server the request and the
\* configuration name, over HTTPS if it is public and in plaintext as well if it is
\* in the overlay, where the name allows both, whatever unreachable or forbidden
\* ones stand between them (Walk::next, plan, server_url_candidates).
WalkIsComplete ==
    \A r \in Requests :
        rq[r].pc = "failed" /\ rq[r].whole =>
          LET p == rq[r].plan
              named == Range(p.origin) \cup Range(p.xs) \cup Range(Configured)
          IN  \A h \in named : \A s \in {"http", "https"} :
                LET url == [h EXCEPT !.scheme = s]
                IN  h.scheme \in {s, "none"} /\ Allowed(url) =>
                      \E i \in DOMAIN rq[r].asked : rq[r].asked[i].url = url

\* The walk asks every server it should, once and in order, and no other (Walk).
WalkIsExact == AskedOnceInOrder /\ AskedAsAllowed /\ WalkIsComplete

\* "Its failures say nothing about whether the blob exists anywhere else": the
\* clock of a miss is started only by a walk of the configured servers and of
\* nothing the client chose, save an author's list (names_specific_servers).
MissIsNotChosen ==
    [][missed' = 0 /\ missed # 0 =>
         \E r \in Requests :
            /\ rq[r].pc = "failed" /\ rq'[r].pc = "idle"
            /\ \A i \in DOMAIN rq[r].asked : rq[r].asked[i].tier \in {3, 4}]_missed

\* A server list is used for no longer than its time to live after the author
\* replaced it or the relays were out of reach (fetch_user_server_list).
ListsAreCurrent ==
    [][\A r \in Requests :
         rq[r].pc = "list" /\ rq'[r].pc # "list" /\ rq'[r].whole =>
           \/ doubt < ListTTL
           \/ rq'[r].pending = UserServers[HttpServers(lists[rq[r].plan.author])]]_rq

\* The caches of misses and of server lists hold what was found out by walks that
\* prove it, and for as long as they may.
CachesAreHonest == MissIsNotChosen /\ ListsAreCurrent

\* A blob that a configured server holds is served in the end to a client that
\* keeps asking, once the servers answer: no miss recorded in bad times, for
\* whatever reason, hides it for ever (fetch_from_upstream).
Reachable ==
    \E i \in DOMAIN Configured :
        /\ Configured[i].host \in holds
        /\ \E url \in Range(Candidates(Configured[i])) : Allowed(url)
ServedInTheEnd ==
    \A r \in Requests :
        <>(settled /\ Reachable) /\ []<>(rq[r].pc = "plan")
          => []<>(rq[r].reply = "upstream" \/ rq[r].reply = "forbidden")
=============================================================================
