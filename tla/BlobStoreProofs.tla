--------------------------- MODULE BlobStoreProofs ---------------------------
(***************************************************************************)
(* Theorems about BlobStore, for every set of hashes, names and requests:  *)
(*                                                                         *)
(*   types and guards, under every fault (GuardInv);                       *)
(*   a deployment without a bucket that may crash (LocalInv);              *)
(*   that this deployment implements BlobService (ServiceInv);             *)
(*   what holds with a bucket that is up or with removals that fail:       *)
(*   guards and removals (TrackInv), deletions (SweepInv), the rank of     *)
(*   uploads (OriginInv), the queue of failed removals (LeftInv),          *)
(*   quarantines (BarInv), local copies beside a bucket (TierInv).         *)
(***************************************************************************)
EXTENDS BlobStore, TLAPS

\* What each step may rely on in the task's own state: its request is there, it
\* carries the location the step uses, and the entry it read is there.
Shape ==
    /\ \A p \in Tasks :
         /\ pc[p] # "idle" => req[p] # None
         /\ pc[p] \notin {"idle", "find"} /\ req[p].how \in Publications \cup {"discover", "reconcile"}
              => req[p].loc # None
         /\ pc[p] \in {"check", "clear", "rename", "put"} => req[p].how \in Publications
         /\ pc[p] \in {"publish", "displaced"} => req[p].how \in Publications \cup {"discover"}
         /\ pc[p] = "find" => req[p].how = "discover"
         /\ pc[p] = "reconcile" => req[p].how = "reconcile"
         /\ pc[p] \in {"read", "unlink", "quarantine", "sweep", "unindex"} => req[p].how \in Removals
         /\ pc[p] \in {"displaced", "unlink", "quarantine", "unindex"} => cur[p] # None
         /\ pc[p] \in {"idle", "find", "lock", "check", "read"} => cur[p] = None
    /\ \A r \in todo : r.how \in {"reconcile", "Evicted"} /\ (r.how = "reconcile" => r.loc # None)

GuardInv == TypeOK /\ Shape /\ GuardExact

\* build_state starts with every task idle and every guard free.
LEMMA InitGuardInv == Init => GuardInv
<1> SUFFICES ASSUME Init PROVE GuardInv
  OBVIOUS
<1> USE ConstantsAssumption DEF ConstantsAssumption
<1>1. TypeOK
  <2>1. files \in [Hashes -> SUBSET Locations]
    BY DEF Init, At
  <2>2. s3up \in BOOLEAN
    BY DEF Init, Listed
  <2>3. pc \in [Tasks -> Labels]
    BY DEF Init, Labels
  <2>4. lock \in [Hashes -> Tasks \cup {None}] /\ clock \in 0..MaxClock
    BY DEF Init
  <2> QED BY <2>1, <2>2, <2>3, <2>4 DEF Init, TypeOK
<1>2. Shape
  BY <1>1 DEF Init, Shape, TypeOK
<1>3. GuardExact
  BY <1>1 DEF Init, GuardExact, Guarded, TypeOK
<1> QED BY <1>1, <1>2, <1>3 DEF GuardInv

\* An operation that returns drops its guard and no other (Finish).
LEMMA FinishType ==
    ASSUME GuardInv, NEW p \in Tasks, Guarded(p), Finish(p)
    PROVE  /\ lock' \in [Hashes -> Tasks \cup {None}]
           /\ pc' \in [Tasks -> Labels]
           /\ req' \in [Tasks -> Reqs \cup {None}]
           /\ cur' \in [Tasks -> Entries \cup {None}]
           /\ todo' \subseteq todo => Shape'
           /\ GuardExact'
<1> USE ConstantsAssumption DEF ConstantsAssumption
<1> USE DEF GuardInv
<1>0. /\ pc[p] # "idle" /\ req[p] \in Reqs /\ req[p].hash \in Hashes
  BY DEF Shape, Guarded, TypeOK, Reqs
<1>1. /\ lock' \in [Hashes -> Tasks \cup {None}]
      /\ pc' \in [Tasks -> Labels]
      /\ req' \in [Tasks -> Reqs \cup {None}]
      /\ cur' \in [Tasks -> Entries \cup {None}]
  BY <1>0 DEF Finish, TypeOK, Labels
<1>2. \A q \in Tasks : /\ pc'[q] = IF q = p THEN "idle" ELSE pc[q]
                       /\ req'[q] = IF q = p THEN None ELSE req[q]
                       /\ cur'[q] = IF q = p THEN None ELSE cur[q]
  BY DEF Finish, TypeOK
<1>3. ASSUME todo' \subseteq todo PROVE Shape'
  BY <1>2, <1>3 DEF Shape
<1>4. GuardExact'
  <2>1. \A h \in Hashes : lock'[h] = IF h = req[p].hash THEN None ELSE lock[h]
    BY <1>0 DEF Finish, TypeOK
  <2>2. lock[req[p].hash] = p
    BY DEF GuardExact
  <2>3. ASSUME NEW q \in Tasks, Guarded(q)' PROVE lock'[req'[q].hash] = q
    <3>1. q # p /\ Guarded(q) /\ req'[q] = req[q]
      BY <1>2, <2>3 DEF Guarded
    <3>2. req[q] \in Reqs /\ req[q].hash \in Hashes
      BY <3>1 DEF Shape, Guarded, TypeOK, Reqs
    <3>3. lock[req[q].hash] = q
      BY <3>1 DEF GuardExact
    <3> QED BY <2>1, <2>2, <3>1, <3>2, <3>3
  <2>4. ASSUME NEW h \in Hashes, lock'[h] # None
        PROVE (Guarded(lock[h]) /\ req[lock[h]].hash = h)'
    <3>1. h # req[p].hash /\ lock'[h] = lock[h] /\ lock[h] # None
      BY <2>1, <2>4
    <3>2. lock[h] \in Tasks /\ Guarded(lock[h]) /\ req[lock[h]].hash = h
      BY <3>1 DEF GuardExact, TypeOK
    <3>3. lock[h] # p
      BY <3>1, <3>2
    <3> QED BY <1>2, <3>1, <3>2, <3>3 DEF Guarded
  <2> QED BY <2>3, <2>4 DEF GuardExact
<1> QED BY <1>1, <1>3, <1>4


\* A step that leaves the guards alone and keeps every guarded task guarded, on
\* the same request, keeps them exact.
LEMMA GuardExactStable ==
    ASSUME GuardInv, UNCHANGED lock,
           \A q \in Tasks : /\ Guarded(q)' <=> Guarded(q)
                            /\ Guarded(q) => req'[q] = req[q]
    PROVE  GuardExact'
<1>1. \A q \in Tasks : (Guarded(q) => lock[req[q].hash] = q)'
  BY DEF GuardInv, GuardExact
<1>2. ASSUME NEW h \in Hashes, lock'[h] # None
      PROVE (Guarded(lock[h]) /\ req[lock[h]].hash = h)'
  <2>1. lock[h] \in Tasks /\ Guarded(lock[h]) /\ req[lock[h]].hash = h
    BY <1>2 DEF GuardInv, GuardExact, TypeOK
  <2> QED BY <2>1 DEF Guarded
<1> QED BY <1>1, <1>2 DEF GuardExact

\* A guarded task moves to another step under its guard.
LEMMA GoToType ==
    ASSUME GuardInv, NEW p \in Tasks, Guarded(p),
           NEW label \in Labels \ {"idle", "find", "lock"},
           pc' = [pc EXCEPT ![p] = label], UNCHANGED <<req, lock>>
    PROVE  /\ pc' \in [Tasks -> Labels]
           /\ \A q \in Tasks : pc'[q] = IF q = p THEN label ELSE pc[q]
           /\ GuardExact'
<1>1. \A q \in Tasks : pc'[q] = IF q = p THEN label ELSE pc[q]
  BY DEF GuardInv, TypeOK
<1>2. pc' \in [Tasks -> Labels]
  BY DEF GuardInv, TypeOK
<1>3. \A q \in Tasks : (Guarded(q)' <=> Guarded(q)) /\ (Guarded(q) => req'[q] = req[q])
  BY <1>1 DEF Guarded
<1>4. GuardExact'
  BY <1>3, GuardExactStable
<1> QED BY <1>1, <1>2, <1>4

\* A task that holds no guard begins a request.
LEMMA BeginType ==
    ASSUME GuardInv, NEW p \in Tasks, NEW r \in Reqs, Begin(p, r), todo' \subseteq todo,
           r.how \in Publications \cup {"discover", "reconcile"} => r.loc # None
    PROVE  /\ lock' \in [Hashes -> Tasks \cup {None}]
           /\ pc' \in [Tasks -> Labels]
           /\ req' \in [Tasks -> Reqs \cup {None}]
           /\ cur' \in [Tasks -> Entries \cup {None}]
           /\ Shape'
           /\ GuardExact'
<1> USE ConstantsAssumption DEF ConstantsAssumption
<1>0. r # None
  OBVIOUS
<1>1. \A q \in Tasks : /\ pc'[q] = IF q = p THEN "lock" ELSE pc[q]
                       /\ req'[q] = IF q = p THEN r ELSE req[q]
                       /\ cur'[q] = cur[q]
  BY DEF Begin, GuardInv, TypeOK
<1>2. pc' \in [Tasks -> Labels] /\ req' \in [Tasks -> Reqs \cup {None}]
  BY DEF Begin, GuardInv, TypeOK, Labels
<1>3. Shape'
  BY <1>0, <1>1 DEF Shape, GuardInv, Begin
<1>4. \A q \in Tasks : (Guarded(q)' <=> Guarded(q)) /\ (Guarded(q) => req'[q] = req[q])
  BY <1>1 DEF Guarded, Begin
<1>5. GuardExact'
  BY <1>4, GuardExactStable DEF Begin
<1> QED BY <1>2, <1>3, <1>5 DEF Begin, GuardInv, TypeOK


-----------------------------------------------------------------------------
(* GuardInv is preserved: starting a request and taking its guard.          *)

\* A request that starts waits for its guard and holds none yet.
LEMMA StartKeepsGuardInv ==
    ASSUME GuardInv, NEW p \in Requests, Request(p)
    PROVE  GuardInv'
<1> USE ConstantsAssumption DEF ConstantsAssumption
<1> PICK h \in Hashes :
        \/ \E how \in Publications, n \in Names : StartPublish(p, h, how, n)
        \/ \E how \in Removals \ {"Evicted"} : StartRemove(p, h, how)
        \/ StartLookup(p, h)
  BY DEF Request
<1>0. p \in Tasks
  BY DEF Tasks
<1>1. ASSUME NEW how \in Publications, NEW n \in Names, StartPublish(p, h, how, n)
      PROVE GuardInv'
  <2> DEFINE r == [how |-> how, hash |-> h, loc |-> Target(how, n), want |-> None]
  <2>1. Target(how, n) \in Locations
    BY DEF Target, Locations, Tiers
  <2>2. r \in Reqs /\ r.loc # None
    BY <2>1 DEF Reqs
  <2>3. Begin(p, r) /\ todo' = todo
    BY <1>1 DEF StartPublish, jobVars
  <2> HIDE DEF r
  <2>4. Shape' /\ GuardExact' /\ lock' \in [Hashes -> Tasks \cup {None}]
        /\ pc' \in [Tasks -> Labels] /\ req' \in [Tasks -> Reqs \cup {None}]
        /\ cur' \in [Tasks -> Entries \cup {None}]
    BY <1>0, <2>2, <2>3, BeginType
  <2>5. TypeOK'
    BY <1>1, <2>4 DEF GuardInv, TypeOK, StartPublish, jobVars, syncVars
  <2> QED BY <2>4, <2>5 DEF GuardInv
<1>2. ASSUME NEW how \in Removals \ {"Evicted"}, StartRemove(p, h, how)
      PROVE GuardInv'
  <2> DEFINE r == [how |-> how, hash |-> h, loc |-> None, want |-> None]
  <2>2. r \in Reqs /\ r.how \notin Publications \cup {"discover", "reconcile"}
    BY DEF Reqs, Removals, Publications
  <2>3. Begin(p, r) /\ todo' = todo
    BY <1>2 DEF StartRemove, jobVars
  <2> HIDE DEF r
  <2>4. Shape' /\ GuardExact' /\ lock' \in [Hashes -> Tasks \cup {None}]
        /\ pc' \in [Tasks -> Labels] /\ req' \in [Tasks -> Reqs \cup {None}]
        /\ cur' \in [Tasks -> Entries \cup {None}]
    BY <1>0, <2>2, <2>3, BeginType
  <2>5. TypeOK'
    BY <1>2, <2>4 DEF GuardInv, TypeOK, StartRemove, jobVars, syncVars
  <2> QED BY <2>4, <2>5 DEF GuardInv
<1>3. CASE StartLookup(p, h)
  <2> DEFINE r == [how |-> "discover", hash |-> h, loc |-> None, want |-> None]
  <2>1. r \in Reqs /\ r # None /\ r.how = "discover"
    BY DEF Reqs
  <2>2. req' = [req EXCEPT ![p] = r]
    BY <1>3 DEF StartLookup
  <2> HIDE DEF r
  <2>3. \A q \in Tasks : /\ pc'[q] = IF q = p THEN "find" ELSE pc[q]
                         /\ req'[q] = IF q = p THEN r ELSE req[q]
                         /\ cur'[q] = cur[q]
    BY <1>3, <2>2, <1>0 DEF StartLookup, GuardInv, TypeOK
  <2>4. Shape'
    BY <1>3, <2>1, <2>3, <1>0 DEF Shape, GuardInv, StartLookup, jobVars
  <2>5. \A q \in Tasks : (Guarded(q)' <=> Guarded(q)) /\ (Guarded(q) => req'[q] = req[q])
    BY <1>3, <2>3 DEF Guarded, StartLookup
  <2>6. GuardExact'
    BY <1>3, <2>5, GuardExactStable DEF StartLookup
  <2>7. TypeOK'
    BY <1>3, <2>1, <2>2, <1>0 DEF GuardInv, TypeOK, StartLookup, jobVars, syncVars, Labels
  <2> QED BY <2>4, <2>6, <2>7 DEF GuardInv
<1> QED BY <1>1, <1>2, <1>3

\* BlobMutationLocks::lock gives a free guard to one task.
LEMMA LockKeepsGuardInv ==
    ASSUME GuardInv, NEW p \in Tasks, Lock(p)
    PROVE  GuardInv'
<1> USE ConstantsAssumption DEF ConstantsAssumption
<1>0. pc[p] = "lock" /\ req[p] \in Reqs /\ req[p].hash \in Hashes /\ p # None
  BY DEF Lock, GuardInv, Shape, TypeOK, Reqs
<1> DEFINE first == FirstStep(req[p].how)
<1>1. /\ first \in Labels \ {"idle", "find", "lock"}
      /\ req[p].how \in Publications <=> first = "check"
      /\ req[p].how = "discover" <=> first = "publish"
      /\ req[p].how = "reconcile" <=> first = "reconcile"
      /\ req[p].how \in Removals <=> first = "read"
      /\ first \in {"check", "publish", "reconcile", "read"}
  BY <1>0 DEF FirstStep, Reqs, Labels, Publications, Removals
<1>2. pc' = [pc EXCEPT ![p] = first] /\ UNCHANGED <<req, cur, todo>>
  BY DEF Lock, jobVars
<1> HIDE DEF first
<1>3. /\ \A q \in Tasks : pc'[q] = IF q = p THEN first ELSE pc[q]
      /\ \A h \in Hashes : lock'[h] = IF h = req[p].hash THEN p ELSE lock[h]
      /\ lock[req[p].hash] = None
  BY <1>2 DEF Lock, GuardInv, TypeOK
<1>4. TypeOK'
  <2>1. pc' \in [Tasks -> Labels] /\ lock' \in [Hashes -> Tasks \cup {None}]
    BY <1>0, <1>1, <1>2 DEF GuardInv, TypeOK, Lock
  <2> QED BY <2>1 DEF GuardInv, TypeOK, Lock, jobVars, syncVars
<1>5. Shape'
  BY <1>0, <1>1, <1>2, <1>3 DEF Shape, GuardInv
<1>6. GuardExact'
  <2>1. ASSUME NEW q \in Tasks, Guarded(q)' PROVE (lock[req[q].hash] = q)'
    <3>1. CASE q = p
      BY <3>1, <1>0, <1>2, <1>3
    <3>2. CASE q # p
      <4>1. Guarded(q) /\ req[q] \in Reqs /\ req[q].hash \in Hashes
        BY <3>2, <2>1, <1>3 DEF Guarded, GuardInv, Shape, TypeOK, Reqs
      <4>2. lock[req[q].hash] = q
        BY <4>1 DEF GuardInv, GuardExact
      <4> QED BY <4>1, <4>2, <1>2, <1>3
    <3> QED BY <3>1, <3>2
  <2>2. ASSUME NEW h \in Hashes, lock'[h] # None
        PROVE (Guarded(lock[h]) /\ req[lock[h]].hash = h)'
    <3>1. CASE h = req[p].hash
      BY <3>1, <1>1, <1>2, <1>3 DEF Guarded
    <3>2. CASE h # req[p].hash
      <4>1. lock'[h] = lock[h] /\ lock[h] \in Tasks /\ Guarded(lock[h]) /\ req[lock[h]].hash = h
        BY <3>2, <2>2, <1>3 DEF GuardInv, GuardExact, TypeOK
      <4> QED BY <4>1, <3>2, <1>2, <1>3 DEF Guarded
    <3> QED BY <3>1, <3>2
  <2> QED BY <2>1, <2>2 DEF GuardExact
<1> QED BY <1>4, <1>5, <1>6 DEF GuardInv


-----------------------------------------------------------------------------
(* GuardInv is preserved: the steps under the guard.                        *)

\* What holds of a guarded task's request.
LEMMA GuardedReq ==
    ASSUME GuardInv, NEW p \in Tasks, Guarded(p)
    PROVE  /\ req[p] \in Reqs /\ req[p].hash \in Hashes
           /\ req[p].how \in Publications \cup {"discover", "reconcile"} => req[p].loc \in Locations
           /\ cur[p] # None => cur[p] \in Entries /\ cur[p].loc \in Locations
  BY DEF GuardInv, Shape, Guarded, TypeOK, Reqs, Entries

\* NativeS3Storage::find runs before the guard is taken.
LEMMA FindKeepsGuardInv ==
    ASSUME GuardInv, NEW p \in Tasks, Find(p)
    PROVE  GuardInv'
<1> USE ConstantsAssumption DEF ConstantsAssumption
<1>0. pc[p] = "find" /\ req[p] \in Reqs /\ req[p].hash \in Hashes /\ req[p].how = "discover"
      /\ cur[p] = None
  BY DEF Find, GuardInv, Shape, TypeOK, Reqs
<1>1. UNCHANGED <<cur, lock, todo>>
  BY DEF Find, jobVars
<1>2. CASE \E loc \in S3Copies(req[p].hash) :
              /\ req' = [req EXCEPT ![p].loc = loc]
              /\ pc' = [pc EXCEPT ![p] = "lock"]
  <2> PICK loc \in S3Copies(req[p].hash) :
              /\ req' = [req EXCEPT ![p].loc = loc]
              /\ pc' = [pc EXCEPT ![p] = "lock"]
    BY <1>2
  <2>1. loc \in Locations /\ loc # None
    BY <1>0 DEF S3Copies, GuardInv, TypeOK
  <2>2. [req[p] EXCEPT !.loc = loc] \in Reqs
    BY <1>0, <2>1 DEF Reqs
  <2>3. req'[p].how = "discover" /\ req'[p].loc = loc /\ req'[p] \in Reqs /\ req'[p] # None
    BY <1>0, <2>2 DEF GuardInv, TypeOK, Reqs
  <2>4. \A q \in Tasks : /\ pc'[q] = IF q = p THEN "lock" ELSE pc[q]
                         /\ q # p => req'[q] = req[q]
    BY DEF GuardInv, TypeOK
  <2>5. TypeOK'
    <3>1. pc' \in [Tasks -> Labels]
      BY DEF GuardInv, TypeOK, Labels
    <3>2. req' \in [Tasks -> Reqs \cup {None}]
      BY <2>2 DEF GuardInv, TypeOK
    <3> QED BY <3>1, <3>2 DEF Find, GuardInv, TypeOK, jobVars, syncVars
  <2>6. Shape'
    BY <1>0, <1>1, <2>1, <2>3, <2>4 DEF GuardInv, Shape, Publications
  <2>7. \A q \in Tasks : (Guarded(q)' <=> Guarded(q)) /\ (Guarded(q) => req'[q] = req[q])
    BY <1>0, <2>4 DEF Guarded
  <2>8. GuardExact'
    BY <1>1, <2>7, GuardExactStable
  <2> QED BY <2>5, <2>6, <2>8 DEF GuardInv
<1>3. CASE /\ req' = [req EXCEPT ![p] = None]
           /\ pc' = [pc EXCEPT ![p] = "idle"]
  <2>1. \A q \in Tasks : /\ pc'[q] = IF q = p THEN "idle" ELSE pc[q]
                         /\ req'[q] = IF q = p THEN None ELSE req[q]
    BY <1>3 DEF GuardInv, TypeOK
  <2>2. TypeOK'
    <3>1. pc' \in [Tasks -> Labels] /\ req' \in [Tasks -> Reqs \cup {None}]
      BY <1>3 DEF GuardInv, TypeOK, Labels
    <3> QED BY <3>1 DEF Find, GuardInv, TypeOK, jobVars, syncVars
  <2>3. Shape'
    BY <1>0, <1>1, <2>1 DEF GuardInv, Shape
  <2>4. \A q \in Tasks : (Guarded(q)' <=> Guarded(q)) /\ (Guarded(q) => req'[q] = req[q])
    BY <1>0, <2>1 DEF Guarded
  <2>5. GuardExact'
    BY <1>1, <2>4, GuardExactStable
  <2> QED BY <2>2, <2>3, <2>5 DEF GuardInv
<1> QED BY <1>2, <1>3 DEF Find

\* The steps of publish_blob keep the guard until they return.
LEMMA PublishStepsKeepGuardInv ==
    ASSUME GuardInv, NEW p \in Tasks,
           CheckPublication(p) \/ ClearTarget(p) \/ Rename(p) \/ Put(p)
             \/ PublishMetadata(p) \/ RemoveDisplaced(p)
    PROVE  GuardInv'
<1> USE ConstantsAssumption DEF ConstantsAssumption
<1>g. Guarded(p)
  BY DEF Guarded, CheckPublication, ClearTarget, Rename, Put, PublishMetadata, RemoveDisplaced
<1>r. /\ req[p] \in Reqs /\ req[p].hash \in Hashes
      /\ req[p].how \in Publications \cup {"discover"} /\ req[p].loc \in Locations
      /\ cur[p] # None => cur[p] \in Entries /\ cur[p].loc \in Locations
  <2>1. req[p].how \in Publications \cup {"discover"}
    BY DEF GuardInv, Shape, CheckPublication, ClearTarget, Rename, Put, PublishMetadata, RemoveDisplaced
  <2> QED BY <1>g, <2>1, GuardedReq
<1>t. UNCHANGED <<todo, retry, phase, detached, s3up, syncing, listing, merge, clock, quarantined>>
  BY DEF CheckPublication, ClearTarget, Rename, Put, PublishMetadata, RemoveDisplaced, jobVars, syncVars
<1>f. files' \in [Hashes -> SUBSET Locations]
  <2>1. CASE files' = files
    BY <2>1 DEF GuardInv, TypeOK
  <2>2. CASE files' = [files EXCEPT ![req[p].hash] = @ \cup {req[p].loc}]
    BY <2>2, <1>r DEF GuardInv, TypeOK
  <2>3. CASE \E gone : files' = [files EXCEPT ![req[p].hash] = @ \ gone]
    BY <2>3, <1>r DEF GuardInv, TypeOK
  <2> QED BY <2>1, <2>2, <2>3
        DEF CheckPublication, ClearTarget, Rename, Put, PublishMetadata, RemoveDisplaced
<1>i. index' \in [Hashes -> Entries \cup {None}]
  <2>1. CASE index' = index
    BY <2>1 DEF GuardInv, TypeOK
  <2>2. CASE \E c \in 0..clock :
               index' = [index EXCEPT ![req[p].hash] = [loc |-> req[p].loc, created |-> c]]
    <3> PICK c \in 0..clock :
               index' = [index EXCEPT ![req[p].hash] = [loc |-> req[p].loc, created |-> c]]
      BY <2>2
    <3>1. c \in 0..MaxClock
      BY DEF GuardInv, TypeOK
    <3>2. [loc |-> req[p].loc, created |-> c] \in Entries
      BY <3>1, <1>r DEF Entries
    <3> QED BY <3>2 DEF GuardInv, TypeOK
  <2>3. clock \in 0..clock
    BY DEF GuardInv, TypeOK
  <2> QED BY <2>1, <2>2, <2>3
        DEF CheckPublication, ClearTarget, Rename, Put, PublishMetadata, RemoveDisplaced
<1>s. superseded' \subseteq Copies
  <2>1. CASE superseded' = superseded
    BY <2>1 DEF GuardInv, TypeOK
  <2>2. CASE RemoveDisplaced(p)
    <3>1. cur[p].loc \in Locations
      BY <2>2, <1>r DEF RemoveDisplaced, GuardInv, Shape
    <3>2. [hash |-> req[p].hash, loc |-> cur[p].loc] \in Copies
      BY <3>1, <1>r DEF Copies
    <3> QED BY <3>2, <2>2 DEF RemoveDisplaced, GuardInv, TypeOK
  <2> QED BY <2>1, <2>2 DEF CheckPublication, ClearTarget, Rename, Put, PublishMetadata
<1>1. ASSUME Finish(p) PROVE GuardInv'
  BY <1>1, <1>g, <1>t, <1>f, <1>i, <1>s, FinishType DEF GuardInv, TypeOK
<1>2. ASSUME NEW label \in {"put", "clear", "rename", "publish"}, GoTo(p, label),
             req[p].how \in Publications
      PROVE GuardInv'
  <2>1. label \in Labels \ {"idle", "find", "lock"}
    BY DEF Labels
  <2>2. /\ pc' \in [Tasks -> Labels] /\ GuardExact'
        /\ \A q \in Tasks : pc'[q] = IF q = p THEN label ELSE pc[q]
    BY <1>2, <2>1, <1>g, GoToType DEF GoTo
  <2>3. Shape'
    BY <1>2, <1>r, <1>t, <2>2 DEF GuardInv, Shape, GoTo, Guarded, Removals, Publications
  <2> QED BY <1>2, <2>2, <2>3, <1>t, <1>f, <1>i, <1>s DEF GuardInv, TypeOK, GoTo
<1>3. ASSUME pc[p] = "publish", index[req[p].hash] # None,
             pc' = [pc EXCEPT ![p] = "displaced"],
             cur' = [cur EXCEPT ![p] = index[req[p].hash]],
             UNCHANGED <<req, lock>>
      PROVE GuardInv'
  <2>1. index[req[p].hash] \in Entries
    BY <1>3, <1>r DEF GuardInv, TypeOK
  <2>2. /\ pc' \in [Tasks -> Labels] /\ GuardExact'
        /\ \A q \in Tasks : pc'[q] = IF q = p THEN "displaced" ELSE pc[q]
    BY <1>3, <1>g, GoToType DEF Labels
  <2>3. /\ cur' \in [Tasks -> Entries \cup {None}]
        /\ \A q \in Tasks : cur'[q] = IF q = p THEN index[req[p].hash] ELSE cur[q]
    BY <1>3, <2>1 DEF GuardInv, TypeOK
  <2>4. Shape'
    BY <1>3, <1>r, <1>t, <2>2, <2>3 DEF GuardInv, Shape
  <2> QED BY <1>3, <2>2, <2>3, <2>4, <1>t, <1>f, <1>i, <1>s DEF GuardInv, TypeOK
<1>4. CASE CheckPublication(p)
  BY <1>4, <1>1, <1>2 DEF CheckPublication, GuardInv, Shape
<1>5. CASE ClearTarget(p)
  BY <1>5, <1>1, <1>2 DEF ClearTarget, GuardInv, Shape
<1>6. CASE Rename(p)
  BY <1>6, <1>1, <1>2 DEF Rename, GuardInv, Shape
<1>7. CASE Put(p)
  BY <1>7, <1>1, <1>2 DEF Put, GuardInv, Shape
<1>8. CASE PublishMetadata(p)
  BY <1>8, <1>1, <1>3 DEF PublishMetadata
<1>9. CASE RemoveDisplaced(p)
  BY <1>9, <1>1 DEF RemoveDisplaced
<1> QED BY <1>4, <1>5, <1>6, <1>7, <1>8, <1>9


\* The steps of remove_indexed_blob keep the guard until they return.
LEMMA RemoveStepsKeepGuardInv ==
    ASSUME GuardInv, NEW p \in Tasks,
           ReadCurrent(p) \/ Unlink(p) \/ Quarantine(p) \/ Sweep(p) \/ Unindex(p)
    PROVE  GuardInv'
<1> USE ConstantsAssumption DEF ConstantsAssumption
<1>g. Guarded(p) /\ req[p].how \in Removals
  BY DEF Guarded, GuardInv, Shape, ReadCurrent, Unlink, Quarantine, Sweep, Unindex
<1>r. /\ req[p] \in Reqs /\ req[p].hash \in Hashes
      /\ cur[p] # None => cur[p] \in Entries /\ cur[p].loc \in Locations
  BY <1>g, GuardedReq
<1>t. UNCHANGED <<superseded, todo, retry, phase, detached, s3up, syncing, listing, merge, clock>>
  BY DEF ReadCurrent, Unlink, Quarantine, Sweep, Unindex, jobVars, syncVars
<1>f. files' \in [Hashes -> SUBSET Locations]
  <2>1. CASE files' = files
    BY <2>1 DEF GuardInv, TypeOK
  <2>2. CASE \E gone : files' = [files EXCEPT ![req[p].hash] = @ \ gone]
    BY <2>2, <1>r DEF GuardInv, TypeOK
  <2> QED BY <2>1, <2>2 DEF ReadCurrent, Unlink, Quarantine, Sweep, Unindex
<1>i. index' \in [Hashes -> Entries \cup {None}] /\ quarantined' \subseteq Hashes
  <2>1. index' = index \/ index' = [index EXCEPT ![req[p].hash] = None]
    BY DEF ReadCurrent, Unlink, Quarantine, Sweep, Unindex
  <2>2. quarantined' = quarantined \/ quarantined' = quarantined \cup {req[p].hash}
    BY DEF ReadCurrent, Unlink, Quarantine, Sweep, Unindex
  <2> QED BY <2>1, <2>2, <1>r DEF GuardInv, TypeOK
<1>1. ASSUME Finish(p) PROVE GuardInv'
  BY <1>1, <1>g, <1>t, <1>f, <1>i, FinishType DEF GuardInv, TypeOK
<1>2. ASSUME NEW label \in {"sweep", "unindex"}, GoTo(p, label),
             label = "unindex" => cur[p] # None
      PROVE GuardInv'
  <2>1. label \in Labels \ {"idle", "find", "lock"}
    BY DEF Labels
  <2>2. /\ pc' \in [Tasks -> Labels] /\ GuardExact'
        /\ \A q \in Tasks : pc'[q] = IF q = p THEN label ELSE pc[q]
    BY <1>2, <2>1, <1>g, GoToType DEF GoTo
  <2>3. Shape'
    BY <1>2, <1>g, <1>r, <1>t, <2>2 DEF GuardInv, Shape, GoTo, Guarded, Removals, Publications
  <2> QED BY <1>2, <2>2, <2>3, <1>t, <1>f, <1>i DEF GuardInv, TypeOK, GoTo
<1>3. ASSUME NEW label \in {"quarantine", "unlink"}, index[req[p].hash] # None,
             pc' = [pc EXCEPT ![p] = label],
             cur' = [cur EXCEPT ![p] = index[req[p].hash]],
             UNCHANGED <<req, lock>>
      PROVE GuardInv'
  <2>1. index[req[p].hash] \in Entries
    BY <1>3, <1>r DEF GuardInv, TypeOK
  <2>2. /\ pc' \in [Tasks -> Labels] /\ GuardExact'
        /\ \A q \in Tasks : pc'[q] = IF q = p THEN label ELSE pc[q]
    BY <1>3, <1>g, GoToType DEF Labels
  <2>3. /\ cur' \in [Tasks -> Entries \cup {None}]
        /\ \A q \in Tasks : cur'[q] = IF q = p THEN index[req[p].hash] ELSE cur[q]
    BY <1>3, <2>1 DEF GuardInv, TypeOK
  <2>4. Shape'
    BY <1>3, <1>g, <1>r, <1>t, <2>2, <2>3 DEF GuardInv, Shape, Removals, Publications
  <2> QED BY <1>3, <2>2, <2>3, <2>4, <1>t, <1>f, <1>i DEF GuardInv, TypeOK
<1>4. CASE ReadCurrent(p)
  BY <1>4, <1>1, <1>2, <1>3 DEF ReadCurrent
<1>5. CASE Unlink(p)
  BY <1>5, <1>1, <1>2 DEF Unlink, GuardInv, Shape
<1>6. CASE Quarantine(p)
  BY <1>6, <1>1, <1>2 DEF Quarantine, GuardInv, Shape
<1>7. CASE Sweep(p)
  BY <1>7, <1>1, <1>2 DEF Sweep
<1>8. CASE Unindex(p)
  BY <1>8, <1>1 DEF Unindex
<1> QED BY <1>4, <1>5, <1>6, <1>7, <1>8

\* reconcile_superseded_blobs holds the guard for one removal.
LEMMA ReconcileKeepsGuardInv ==
    ASSUME GuardInv, NEW p \in Tasks, Reconcile(p)
    PROVE  GuardInv'
<1> USE ConstantsAssumption DEF ConstantsAssumption
<1>g. Guarded(p) /\ req[p].how = "reconcile"
  BY DEF Guarded, GuardInv, Shape, Reconcile
<1>r. req[p] \in Reqs /\ req[p].hash \in Hashes /\ req[p].loc \in Locations
  BY <1>g, GuardedReq
<1>1. /\ Finish(p)
      /\ UNCHANGED <<index, quarantined, superseded, phase, todo, detached, s3up, syncing,
                     listing, merge, clock>>
  BY DEF Reconcile, syncVars
<1>2. files' \in [Hashes -> SUBSET Locations]
  BY <1>r DEF Reconcile, GuardInv, TypeOK
<1>3. retry' \subseteq Copies
  <2>1. [hash |-> req[p].hash, loc |-> req[p].loc] \in Copies
    BY <1>r DEF Copies
  <2> QED BY <2>1 DEF Reconcile, GuardInv, TypeOK
<1> QED BY <1>1, <1>2, <1>3, <1>g, FinishType DEF GuardInv, TypeOK

-----------------------------------------------------------------------------
(* GuardInv is preserved: the jobs, cancellation and restart.               *)

\* Steps that touch no task.
LEMMA JobsKeepGuardInv ==
    ASSUME GuardInv, TakeSuperseded \/ NextPass \/ S3Recovery \/ RunDetached \/ Tick
    PROVE  GuardInv'
<1> USE ConstantsAssumption DEF ConstantsAssumption
<1>u. UNCHANGED <<pc, req, cur, lock>>
  BY DEF TakeSuperseded, NextPass, S3Recovery, SyncList, SyncContains, SyncInsert, SyncDone,
         RunDetached, Tick, taskVars
<1>1. GuardExact'
  BY <1>u DEF GuardInv, GuardExact, Guarded
<1>2. ASSUME TypeOK', \A r \in todo' : r \in todo \/ r.how = "Evicted"
                                        \/ (r.how = "reconcile" /\ r.loc # None)
      PROVE GuardInv'
  <2>1. Shape'
    BY <1>u, <1>2 DEF GuardInv, Shape
  <2> QED BY <1>1, <1>2, <2>1 DEF GuardInv
<1>3. CASE TakeSuperseded
  <2>1. \A r \in todo' : r \in Reqs /\ r.how = "reconcile" /\ r.loc # None
    BY <1>3 DEF TakeSuperseded, GuardInv, TypeOK, Copies, Reqs
  <2>2. TypeOK'
    BY <1>3, <1>u, <2>1 DEF TakeSuperseded, GuardInv, TypeOK, syncVars
  <2> QED BY <1>2, <2>1, <2>2
<1>4. CASE NextPass
  <2>1. \A r \in todo' : r \in Reqs /\ r.how = "Evicted"
    BY <1>4 DEF NextPass, GuardInv, TypeOK, Reqs, Removals
  <2>2. phase' \in {"sleep", "reconcile", "expired", "capacity"}
    BY <1>4 DEF NextPass, PassAfter
  <2>3. TypeOK'
    BY <1>4, <1>u, <2>1, <2>2 DEF NextPass, GuardInv, TypeOK, syncVars
  <2>9. \A r \in todo' : r \in todo \/ r.how = "Evicted"
                             \/ (r.how = "reconcile" /\ r.loc # None)
    BY <2>1
  <2> QED BY <1>2, <2>3, <2>9
<1>5. CASE S3Recovery
  <2>1. UNCHANGED <<todo, files, quarantined, superseded, phase, retry, detached, clock>>
    BY <1>5 DEF S3Recovery, SyncList, SyncContains, SyncInsert, SyncDone, jobVars
  <2>2. listing' \subseteq Copies /\ merge' \in Copies \cup {None}
        /\ s3up' \in BOOLEAN /\ syncing' \in BOOLEAN
    BY <1>5 DEF S3Recovery, SyncList, SyncContains, SyncInsert, SyncDone, GuardInv, TypeOK
  <2>3. index' \in [Hashes -> Entries \cup {None}]
    <3>1. CASE index' = index
      BY <3>1 DEF GuardInv, TypeOK
    <3>2. CASE SyncInsert
      <4>1. merge \in Copies /\ merge.hash \in Hashes /\ merge.loc \in Locations
        BY <3>2 DEF SyncInsert, GuardInv, TypeOK, Copies
      <4> PICK c \in 0..clock :
                 index' = [index EXCEPT ![merge.hash] = [loc |-> merge.loc, created |-> c]]
        BY <3>2 DEF SyncInsert
      <4>2. c \in 0..MaxClock
        BY DEF GuardInv, TypeOK
      <4>3. [loc |-> merge.loc, created |-> c] \in Entries
        BY <4>1, <4>2 DEF Entries
      <4> QED BY <4>1, <4>3 DEF GuardInv, TypeOK
    <3> QED BY <1>5, <3>1, <3>2 DEF S3Recovery, SyncList, SyncContains, SyncDone
  <2>4. TypeOK'
    BY <1>u, <2>1, <2>2, <2>3 DEF GuardInv, TypeOK
  <2>9. \A r \in todo' : r \in todo \/ r.how = "Evicted"
                             \/ (r.how = "reconcile" /\ r.loc # None)
    BY <2>1
  <2> QED BY <1>2, <2>4, <2>9
<1>6. CASE RunDetached
  <2>1. files' \in [Hashes -> SUBSET Locations] /\ quarantined' \subseteq Hashes
        /\ detached' \subseteq DetachedOps
    BY <1>6 DEF RunDetached, GuardInv, TypeOK, DetachedOps
  <2>2. TypeOK' /\ todo' = todo
    BY <1>6, <1>u, <2>1 DEF RunDetached, GuardInv, TypeOK, jobVars, syncVars
  <2>9. \A r \in todo' : r \in todo \/ r.how = "Evicted"
                             \/ (r.how = "reconcile" /\ r.loc # None)
    BY <2>2
  <2> QED BY <1>2, <2>2, <2>9
<1>7. CASE Tick
  <2>1. clock' \in 0..MaxClock
    BY <1>7 DEF Tick, GuardInv, TypeOK
  <2>2. TypeOK' /\ todo' = todo
    BY <1>7, <1>u, <2>1 DEF Tick, GuardInv, TypeOK, jobVars, syncVars
  <2>9. \A r \in todo' : r \in todo \/ r.how = "Evicted"
                             \/ (r.how = "reconcile" /\ r.loc # None)
    BY <2>2
  <2> QED BY <1>2, <2>2, <2>9
<1> QED BY <1>3, <1>4, <1>5, <1>6, <1>7

\* The cleanup job takes up an item and waits for its guard.
LEMMA NextItemKeepsGuardInv ==
    ASSUME GuardInv, NextItem
    PROVE  GuardInv'
<1>0. Cleaner \in Tasks
  BY DEF Tasks
<1> PICK r \in todo : todo' = todo \ {r} /\ Begin(Cleaner, r)
  BY DEF NextItem
<1>1. r \in Reqs /\ r.how \in {"reconcile", "Evicted"} /\ (r.how = "reconcile" => r.loc # None)
  BY DEF GuardInv, TypeOK, Shape
<1>2. r.how \in Publications \cup {"discover", "reconcile"} => r.loc # None
  BY <1>1 DEF Publications
<1>3. Shape' /\ GuardExact' /\ lock' \in [Hashes -> Tasks \cup {None}]
      /\ pc' \in [Tasks -> Labels] /\ req' \in [Tasks -> Reqs \cup {None}]
      /\ cur' \in [Tasks -> Entries \cup {None}]
  BY <1>0, <1>1, <1>2, BeginType
<1>4. TypeOK'
  BY <1>3 DEF NextItem, GuardInv, TypeOK, syncVars
<1> QED BY <1>3, <1>4 DEF GuardInv

\* A dropped future releases the guard it holds, if it holds one.
LEMMA CancelKeepsGuardInv ==
    ASSUME GuardInv, NEW p \in Tasks, Cancel(p)
    PROVE  GuardInv'
<1> USE ConstantsAssumption DEF ConstantsAssumption
<1>0. pc[p] # "idle" /\ req[p] \in Reqs /\ req[p].hash \in Hashes
  BY DEF Cancel, GuardInv, Shape, TypeOK, Reqs
<1>t. UNCHANGED <<index, quarantined, superseded, phase, todo, retry, s3up, syncing, listing,
                  merge, clock>>
  BY DEF Cancel, jobVars, syncVars
<1>1. CASE Guarded(p)
  <2>1. Finish(p)
    BY <1>1 DEF Cancel, Finish, Guarded
  <2>2. InFlight(p) \subseteq DetachedOps
    <3>1. ASSUME NEW o \in {"remove", "place", "quarantine"}, NEW loc \in Locations
          PROVE [op |-> o, hash |-> req[p].hash, loc |-> loc] \in DetachedOps
      BY <1>0 DEF DetachedOps
    <3>2. /\ pc[p] \in {"clear", "put"} => req[p].loc \in Locations
          /\ pc[p] \in {"displaced", "unlink", "quarantine"} => cur[p].loc \in Locations
      BY <1>1, GuardedReq DEF GuardInv, Shape
    <3>3. S3Copies(req[p].hash) \subseteq Locations
      BY <1>0 DEF S3Copies, GuardInv, TypeOK
    <3> QED BY <3>1, <3>2, <3>3 DEF InFlight
  <2>3. detached' \subseteq DetachedOps
    BY <2>2 DEF Cancel, GuardInv, TypeOK
  <2>4. files' \in [Hashes -> SUBSET Locations]
    <3>1. pc[p] = "rename" => req[p].loc \in Locations
      BY <1>1, GuardedReq DEF GuardInv, Shape
    <3> QED BY <3>1, <1>0 DEF Cancel, GuardInv, TypeOK
  <2> QED BY <1>1, <1>t, <2>1, <2>3, <2>4, FinishType DEF GuardInv, TypeOK
<1>2. CASE ~Guarded(p)
  <2>1. pc[p] \in {"find", "lock"} /\ lock' = lock /\ files' = files
    BY <1>0, <1>2 DEF Guarded, Cancel
  <2>2. detached' = detached
    BY <2>1 DEF Cancel, InFlight
  <2>3. \A q \in Tasks : /\ pc'[q] = IF q = p THEN "idle" ELSE pc[q]
                         /\ req'[q] = IF q = p THEN None ELSE req[q]
                         /\ cur'[q] = IF q = p THEN None ELSE cur[q]
    BY DEF Cancel, GuardInv, TypeOK
  <2>4. TypeOK'
    <3>1. pc' \in [Tasks -> Labels] /\ req' \in [Tasks -> Reqs \cup {None}]
          /\ cur' \in [Tasks -> Entries \cup {None}]
      BY DEF Cancel, GuardInv, TypeOK, Labels
    <3> QED BY <3>1, <1>t, <2>1, <2>2 DEF GuardInv, TypeOK
  <2>5. Shape'
    BY <1>t, <2>3 DEF GuardInv, Shape
  <2>6. \A q \in Tasks : (Guarded(q)' <=> Guarded(q)) /\ (Guarded(q) => req'[q] = req[q])
    BY <2>1, <2>3 DEF Guarded
  <2>7. GuardExact'
    BY <2>1, <2>6, GuardExactStable
  <2> QED BY <2>4, <2>5, <2>7 DEF GuardInv
<1> QED BY <1>1, <1>2

\* No task and no guard survives a restart.
LEMMA RestartKeepsGuardInv ==
    ASSUME GuardInv, Restart
    PROVE  GuardInv'
<1> USE ConstantsAssumption DEF ConstantsAssumption
<1>1. TypeOK'
  <2>1. s3up' \in BOOLEAN
    BY DEF Restart, Listed
  <2>2. pc' \in [Tasks -> Labels] /\ req' \in [Tasks -> Reqs \cup {None}]
        /\ cur' \in [Tasks -> Entries \cup {None}] /\ lock' \in [Hashes -> Tasks \cup {None}]
    BY DEF Restart, Labels
  <2>3. detached' \subseteq DetachedOps
    BY DEF Restart, GuardInv, TypeOK
  <2> QED BY <2>1, <2>2, <2>3 DEF Restart, GuardInv, TypeOK
<1>2. Shape'
  BY DEF Restart, Shape
<1>3. GuardExact'
  BY DEF Restart, GuardExact, Guarded
<1> QED BY <1>1, <1>2, <1>3 DEF GuardInv

\* Every step of the store keeps the guards exact.
LEMMA NextKeepsGuardInv ==
    ASSUME GuardInv, [Next]_vars
    PROVE  GuardInv'
<1>1. ASSUME NEW p \in Requests, Request(p) PROVE GuardInv'
  BY <1>1, StartKeepsGuardInv
<1>2. ASSUME NEW p \in Requests, Cancel(p) PROVE GuardInv'
  BY <1>2, CancelKeepsGuardInv DEF Tasks
<1>3. ASSUME NEW p \in Tasks, Step(p) PROVE GuardInv'
  BY <1>3, FindKeepsGuardInv, LockKeepsGuardInv, PublishStepsKeepGuardInv,
     RemoveStepsKeepGuardInv, ReconcileKeepsGuardInv DEF Step
<1>4. CASE CleanupJob \/ S3Recovery \/ RunDetached \/ Tick
  BY <1>4, JobsKeepGuardInv, NextItemKeepsGuardInv DEF CleanupJob
<1>5. CASE Restart
  BY <1>5, RestartKeepsGuardInv
<1>6. CASE UNCHANGED vars
  BY <1>6 DEF vars, taskVars, jobVars, syncVars, GuardInv, TypeOK, Shape, GuardExact, Guarded
<1> QED BY <1>1, <1>2, <1>3, <1>4, <1>5, <1>6 DEF Next

-----------------------------------------------------------------------------
\* Every behaviour of the store, under every combination of faults, keeps its
\* variables well typed.
THEOREM TypeCorrect == Spec => []TypeOK
<1>1. GuardInv => TypeOK
  BY DEF GuardInv
<1> QED BY <1>1, InitGuardInv, NextKeepsGuardInv, PTL DEF Spec

\* The mutation guard of file_storage.rs excludes: under every combination of
\* crashes, cancelled requests and failed operations, the guard of a hash is
\* held by exactly the one task that works on it, and by none otherwise.
THEOREM GuardsAreExact == Spec => []GuardExact
<1>1. GuardInv => GuardExact
  BY DEF GuardInv
<1> QED BY <1>1, InitGuardInv, NextKeepsGuardInv, PTL DEF Spec


-----------------------------------------------------------------------------
(***************************************************************************)
(* The local store, without a bucket, where nothing fails but the process. *)
(* The inductive invariant says for each hash what its guard protects: at  *)
(* rest the copies are exactly the indexed one, and under the guard the    *)
(* deviation is the one the holder's step accounts for.                    *)
(***************************************************************************)
LocalOnly == ~S3Configured /\ Faults \subseteq {"crash"}

\* The guard is free, or its holder has changed nothing yet.
Resting(h) ==
    /\ index[h] = None => files[h] = {}
    /\ index[h] # None => files[h] = {index[h].loc} /\ h \notin quarantined

\* A publication that passed its checks: at most a cached copy is in its way,
\* and only in the way of an upload.
Admitted(h, p) ==
    /\ h \notin quarantined
    /\ index[h] # None => index[h].loc.tier = "cache" /\ req[p].loc.tier = "uploads"

Busy(h, p) ==
    CASE pc[p] \in {"check", "read"} -> Resting(h)
      [] pc[p] \in {"clear", "rename"} -> Resting(h) /\ Admitted(h, p)
      [] pc[p] = "publish" ->
           /\ Admitted(h, p)
           /\ files[h] = {req[p].loc} \cup (IF index[h] = None THEN {} ELSE {index[h].loc})
      [] pc[p] = "displaced" ->
           /\ h \notin quarantined
           /\ index[h] # None /\ index[h].loc = req[p].loc
           /\ cur[p].loc.tier = "cache" /\ req[p].loc.tier = "uploads"
           /\ files[h] = {req[p].loc, cur[p].loc}
      [] pc[p] \in {"unlink", "quarantine"} ->
           /\ Resting(h)
           /\ index[h] = cur[p] /\ req[p].want \in {None, cur[p]}
      [] pc[p] = "unindex" ->
           /\ files[h] = {}
           /\ index[h] = cur[p] /\ req[p].want \in {None, cur[p]}
      [] OTHER -> FALSE

HashOK(h) == IF lock[h] = None THEN Resting(h) ELSE Busy(h, lock[h])

\* No bucket and no failed operation: nothing queued, detached or merged.
Quiet ==
    /\ superseded = {} /\ retry = {} /\ detached = {}
    /\ ~syncing /\ merge = None
    /\ \A r \in todo : r.how = "Evicted"
    /\ \A p \in Tasks : req[p] # None =>
         /\ req[p].how \in Publications \cup Removals
         /\ req[p].how \in Publications
              => req[p].loc.tier = IF req[p].how = "cache" THEN "cache" ELSE "uploads"
    /\ \A h \in Hashes : index[h] # None => index[h].loc.tier # "s3"

LocalInv == GuardInv /\ Quiet /\ \A h \in Hashes : HashOK(h)

\* A step of one task on one hash leaves every other hash as it is.
LEMMA OtherHashes ==
    ASSUME GuardInv, NEW p \in Tasks, NEW g \in Hashes,
           \A h \in Hashes \ {g} : lock[h] # p,
           \A h \in Hashes \ {g} : /\ lock'[h] = lock[h] /\ index'[h] = index[h]
                                   /\ files'[h] = files[h]
                                   /\ h \in quarantined' <=> h \in quarantined,
           \A q \in Tasks \ {p} : pc'[q] = pc[q] /\ req'[q] = req[q] /\ cur'[q] = cur[q]
    PROVE  \A h \in Hashes \ {g} : HashOK(h) => HashOK(h)'
<1> SUFFICES ASSUME NEW h \in Hashes \ {g}, HashOK(h) PROVE HashOK(h)'
  OBVIOUS
<1>1. Resting(h)' <=> Resting(h)
  BY DEF Resting
<1>2. CASE lock[h] = None
  BY <1>1, <1>2 DEF HashOK
<1>3. CASE lock[h] # None
  <2>1. lock[h] \in Tasks \ {p} /\ lock'[h] = lock[h]
    BY <1>3 DEF GuardInv, TypeOK
  <2>2. ASSUME NEW q \in Tasks \ {p} PROVE Busy(h, q)' <=> Busy(h, q)
    BY <1>1 DEF Busy, Admitted
  <2> QED BY <1>3, <2>1, <2>2 DEF HashOK
<1> QED BY <1>2, <1>3

\* The first start of a filesystem deployment finds nothing.
LEMMA InitLocalInv == LocalOnly /\ Init => LocalInv
<1> SUFFICES ASSUME LocalOnly, Init PROVE LocalInv
  OBVIOUS
<1>1. GuardInv
  BY InitGuardInv
<1>2. \A h \in Hashes : files[h] = {} /\ index[h] = None
  BY DEF LocalOnly, Init, ScannedEntries, At
<1>3. Quiet
  BY <1>2 DEF Init, Quiet
<1>4. \A h \in Hashes : HashOK(h)
  BY <1>2 DEF Init, HashOK, Resting
<1> QED BY <1>1, <1>3, <1>4 DEF LocalInv

\* What a guarded task may rely on, and who else may touch its hash: nobody.
LEMMA Holder ==
    ASSUME LocalInv, NEW p \in Tasks, Guarded(p)
    PROVE  /\ req[p] \in Reqs /\ req[p].hash \in Hashes
           /\ lock[req[p].hash] = p /\ p # None
           /\ Busy(req[p].hash, p)
           /\ \A h \in Hashes \ {req[p].hash} : lock[h] # p
<1>1. /\ req[p] \in Reqs /\ req[p].hash \in Hashes
      /\ lock[req[p].hash] = p /\ p # None
  BY GuardedReq, ConstantsAssumption DEF LocalInv, GuardInv, GuardExact, ConstantsAssumption
<1>2. Busy(req[p].hash, p)
  BY <1>1 DEF LocalInv, HashOK
<1>3. \A h \in Hashes \ {req[p].hash} : lock[h] # p
  BY <1>1 DEF LocalInv, GuardInv, GuardExact
<1> QED BY <1>1, <1>2, <1>3

\* An operation returns and leaves its hash at rest.
LEMMA FinishLocal ==
    ASSUME LocalInv, GuardInv', NEW p \in Tasks, Guarded(p), Finish(p), todo' = todo,
           UNCHANGED <<superseded, retry, detached, syncing, merge>>,
           NEW g \in Hashes, g = req[p].hash,
           \A h \in Hashes \ {g} :
             /\ index'[h] = index[h] /\ files'[h] = files[h]
             /\ h \in quarantined' <=> h \in quarantined,
           Resting(g)',
           index'[g] # None => index'[g].loc.tier # "s3"
    PROVE  LocalInv'
<1>0. GuardInv
  BY DEF LocalInv
<1>1. \A h \in Hashes \ {g} : lock[h] # p
  BY Holder
<1>2. /\ \A q \in Tasks \ {p} : pc'[q] = pc[q] /\ req'[q] = req[q] /\ cur'[q] = cur[q]
      /\ req'[p] = None
      /\ lock'[g] = None
      /\ \A h \in Hashes \ {g} : lock'[h] = lock[h]
  BY <1>0 DEF Finish, GuardInv, TypeOK
<1>3. \A h \in Hashes \ {g} : HashOK(h)'
  BY <1>0, <1>1, <1>2, OtherHashes DEF LocalInv
<1>4. HashOK(g)'
  BY <1>2 DEF HashOK
<1>5. Quiet'
  BY <1>0, <1>2 DEF LocalInv, Quiet
<1> QED BY <1>3, <1>4, <1>5 DEF LocalInv

\* A task moves on under its guard.
LEMMA GoToLocal ==
    ASSUME LocalInv, GuardInv', NEW p \in Tasks, Guarded(p), NEW label, NEW entry,
           pc' = [pc EXCEPT ![p] = label], cur' = [cur EXCEPT ![p] = entry],
           UNCHANGED <<req, lock, todo, superseded, retry, detached, syncing, merge>>,
           NEW g \in Hashes, g = req[p].hash,
           \A h \in Hashes \ {g} :
             /\ index'[h] = index[h] /\ files'[h] = files[h]
             /\ h \in quarantined' <=> h \in quarantined,
           Busy(g, p)',
           index'[g] # None => index'[g].loc.tier # "s3"
    PROVE  LocalInv'
<1>0. GuardInv /\ lock[g] = p /\ p # None
  BY Holder DEF LocalInv
<1>1. \A h \in Hashes \ {g} : lock[h] # p
  BY Holder
<1>2. \A q \in Tasks \ {p} : pc'[q] = pc[q] /\ req'[q] = req[q] /\ cur'[q] = cur[q]
  BY <1>0 DEF GuardInv, TypeOK
<1>3. \A h \in Hashes \ {g} : HashOK(h)'
  BY <1>0, <1>1, <1>2, OtherHashes DEF LocalInv
<1>4. HashOK(g)'
  BY <1>0 DEF HashOK
<1>5. Quiet'
  BY <1>0 DEF LocalInv, Quiet
<1> QED BY <1>3, <1>4, <1>5 DEF LocalInv

\* A task that holds no guard, before and after the step, changes no hash.
LEMMA UnguardedLocal ==
    ASSUME LocalInv, GuardInv', NEW p \in Tasks, ~Guarded(p),
           \A q \in Tasks \ {p} : pc'[q] = pc[q] /\ req'[q] = req[q] /\ cur'[q] = cur[q],
           UNCHANGED <<index, files, quarantined, lock>>,
           Quiet'
    PROVE  LocalInv'
<1>1. ASSUME NEW h \in Hashes PROVE HashOK(h)'
  <2>1. Resting(h)' <=> Resting(h)
    BY DEF Resting
  <2>2. HashOK(h) /\ GuardInv
    BY DEF LocalInv
  <2>3. CASE lock[h] = None
    BY <2>1, <2>2, <2>3 DEF HashOK
  <2>4. CASE lock[h] # None
    <3>1. lock[h] \in Tasks \ {p}
      BY <2>2, <2>4 DEF GuardInv, GuardExact, TypeOK
    <3>2. ASSUME NEW q \in Tasks \ {p} PROVE Busy(h, q)' <=> Busy(h, q)
      BY <2>1 DEF Busy, Admitted
    <3> QED BY <2>2, <2>4, <3>1, <3>2 DEF HashOK
  <2> QED BY <2>3, <2>4
<1> QED BY <1>1 DEF LocalInv

\* Starting a request touches neither index nor disk.
LEMMA StartKeepsLocalInv ==
    ASSUME LocalOnly, LocalInv, GuardInv', NEW p \in Requests, Request(p)
    PROVE  LocalInv'
<1>0. p \in Tasks /\ ~Guarded(p)
  BY DEF Tasks, Request, StartPublish, StartRemove, StartLookup, Begin, Guarded
<1>1. ASSUME NEW r \in Reqs, Begin(p, r),
             r.how \in Publications \cup Removals,
             r.how \in Publications
               => r.loc.tier = IF r.how = "cache" THEN "cache" ELSE "uploads",
             UNCHANGED <<index, files, quarantined, superseded, jobVars, detached, syncVars>>
      PROVE  LocalInv'
  <2>1. \A q \in Tasks : req'[q] = IF q = p THEN r ELSE req[q]
    BY <1>1 DEF Begin, LocalInv, GuardInv, TypeOK
  <2>2. \A q \in Tasks \ {p} : pc'[q] = pc[q] /\ req'[q] = req[q] /\ cur'[q] = cur[q]
    BY <1>1, <2>1 DEF Begin, LocalInv, GuardInv, TypeOK
  <2>3. Quiet'
    BY <1>1, <2>1 DEF LocalInv, Quiet, jobVars, syncVars
  <2> QED BY <1>0, <1>1, <2>2, <2>3, UnguardedLocal DEF Begin
<1>2. ASSUME NEW h \in Hashes, NEW how \in Publications, NEW n \in Names,
             StartPublish(p, h, how, n)
      PROVE  LocalInv'
  <2> DEFINE r == [how |-> how, hash |-> h, loc |-> Target(how, n), want |-> None]
  <2>1. Target(how, n) = [tier |-> IF how = "cache" THEN "cache" ELSE "uploads", name |-> n]
    BY DEF Target, LocalOnly
  <2>2. Target(how, n) \in Locations
    BY <2>1 DEF Locations, Tiers
  <2>3. r \in Reqs /\ r.how = how /\ r.loc = Target(how, n)
    BY <2>2 DEF Reqs
  <2>4. r.loc.tier = IF r.how = "cache" THEN "cache" ELSE "uploads"
    BY <2>1, <2>3
  <2>5. Begin(p, r) /\ UNCHANGED <<index, files, quarantined, superseded, jobVars, detached, syncVars>>
    BY <1>2 DEF StartPublish
  <2> QED BY <1>1, <2>3, <2>4, <2>5
<1>3. ASSUME NEW h \in Hashes, NEW how \in Removals, StartRemove(p, h, how)
      PROVE  LocalInv'
  <2> DEFINE r == [how |-> how, hash |-> h, loc |-> None, want |-> None]
  <2>1. r \in Reqs /\ r.how = how
    BY DEF Reqs
  <2>2. how \notin Publications
    BY DEF Removals, Publications
  <2>3. Begin(p, r) /\ UNCHANGED <<index, files, quarantined, superseded, jobVars, detached, syncVars>>
    BY <1>3 DEF StartRemove
  <2> QED BY <1>1, <2>1, <2>2, <2>3
<1>4. ASSUME NEW h \in Hashes, StartLookup(p, h)
      PROVE  LocalInv'
  BY <1>4 DEF StartLookup, LocalOnly
<1> QED BY <1>2, <1>3, <1>4 DEF Request

\* A hash at rest satisfies what the first step of a task relies on.
LEMMA LockKeepsLocalInv ==
    ASSUME LocalOnly, LocalInv, GuardInv', NEW p \in Tasks, Lock(p)
    PROVE  LocalInv'
<1> DEFINE g == req[p].hash
<1>0. GuardInv /\ p # None
  BY ConstantsAssumption DEF LocalInv, ConstantsAssumption
<1>1. req[p] \in Reqs /\ g \in Hashes /\ req[p].how \in Publications \cup Removals
  BY <1>0 DEF Lock, LocalInv, GuardInv, Shape, TypeOK, Reqs, Quiet
<1>2. \A h \in Hashes \ {g} : lock[h] # p
  BY <1>0 DEF Lock, GuardInv, GuardExact, Guarded
<1>3. /\ \A q \in Tasks \ {p} : pc'[q] = pc[q] /\ req'[q] = req[q] /\ cur'[q] = cur[q]
      /\ \A h \in Hashes \ {g} : lock'[h] = lock[h]
      /\ lock'[g] = p /\ pc'[p] = FirstStep(req[p].how)
  BY <1>0, <1>1 DEF Lock, GuardInv, TypeOK
<1>4. \A h \in Hashes \ {g} : /\ lock'[h] = lock[h] /\ index'[h] = index[h]
                              /\ files'[h] = files[h]
                              /\ h \in quarantined' <=> h \in quarantined
  BY <1>3 DEF Lock
<1>5. \A h \in Hashes \ {g} : HashOK(h)'
  BY <1>0, <1>1, <1>2, <1>3, <1>4, OtherHashes DEF LocalInv
<1>6. FirstStep(req[p].how) \in {"check", "read"}
  BY <1>1 DEF FirstStep, Publications, Removals
<1>7. Resting(g)'
  BY <1>1 DEF Lock, LocalInv, HashOK, Resting
<1>8. ASSUME NEW h \in Hashes, h = g PROVE HashOK(h)'
  BY <1>0, <1>3, <1>6, <1>7, <1>8 DEF HashOK, Busy, Lock
<1>9. Quiet'
  BY DEF Lock, LocalInv, Quiet, jobVars, syncVars
<1> QED BY <1>5, <1>8, <1>9 DEF LocalInv

\* publish_blob leaves its hash with one copy, which is indexed.
LEMMA PublishStepsKeepLocalInv ==
    ASSUME LocalOnly, LocalInv, GuardInv', NEW p \in Tasks,
           CheckPublication(p) \/ ClearTarget(p) \/ Rename(p) \/ PublishMetadata(p)
             \/ RemoveDisplaced(p)
    PROVE  LocalInv'
<1>0. Guarded(p) /\ pc[p] \in {"check", "clear", "rename", "publish", "displaced"}
  BY DEF CheckPublication, ClearTarget, Rename, PublishMetadata, RemoveDisplaced, Guarded
<1> SUFFICES ASSUME NEW g \in Hashes, g = req[p].hash PROVE LocalInv'
  BY <1>0, Holder
<1>1. /\ GuardInv /\ Quiet /\ Busy(g, p)
      /\ req[p] \in Reqs /\ req[p].loc \in Locations /\ req[p].how \in Publications
      /\ index[g] # None => index[g].loc.tier # "s3" /\ index[g].loc \in Locations
      /\ index[g] \in Entries \cup {None} /\ files[g] \subseteq Locations
  <2>1. GuardInv /\ Quiet /\ Busy(g, p) /\ req[p] \in Reqs
    BY <1>0, Holder DEF LocalInv
  <2>2. req[p].how \in Publications
    BY <1>0, <2>1 DEF GuardInv, Shape, Quiet, Reqs, Publications, Removals
  <2>3. req[p].loc \in Locations
    BY <1>0, <2>1, <2>2 DEF GuardInv, Shape, Reqs
  <2>4. index[g] \in Entries \cup {None} /\ files[g] \subseteq Locations
    BY <2>1 DEF GuardInv, TypeOK
  <2> QED BY <2>1, <2>2, <2>3, <2>4 DEF Quiet, Entries
<1>2. req[p].loc.tier = IF req[p].how = "cache" THEN "cache" ELSE "uploads"
  BY <1>1, ConstantsAssumption DEF Quiet, ConstantsAssumption
<1>3. cur = [cur EXCEPT ![p] = cur[p]]
  BY <1>1 DEF GuardInv, TypeOK
<1>a. CASE CheckPublication(p)
  <2>1. Resting(g)
    BY <1>1, <1>a DEF CheckPublication, Busy
  <2>2. CASE Finish(p)
    <3>1. Resting(g)'
      BY <2>1, <1>a DEF CheckPublication, Resting
    <3> QED BY <1>a, <1>0, <1>1, <2>2, <3>1, FinishLocal DEF CheckPublication, jobVars, syncVars
  <2>3. CASE ~Finish(p)
    <3>1. GoTo(p, "clear") /\ Admitted(g, p)
      BY <1>a, <2>3, <1>1, <1>2 DEF CheckPublication, Admitted, Origin, Publications
    <3>2. Busy(g, p)'
      BY <1>a, <1>1, <2>1, <3>1
      DEF CheckPublication, GoTo, Busy, Resting, Admitted, GuardInv, TypeOK
    <3> QED BY <1>a, <1>0, <1>1, <1>3, <3>1, <3>2, GoToLocal
        DEF CheckPublication, GoTo, jobVars, syncVars
  <2> QED BY <2>2, <2>3
<1>b. CASE ClearTarget(p)
  <2>1. Resting(g) /\ Admitted(g, p)
    BY <1>1, <1>b DEF ClearTarget, Busy
  <2>2. GoTo(p, "rename") /\ files' = [files EXCEPT ![g] = @ \ {req[p].loc}]
    BY <1>b DEF ClearTarget, LocalOnly
  <2>3. \A h \in Hashes : files'[h] = files[h]
    <3>1. req[p].loc \notin files[g]
      BY <2>1, <1>1 DEF Resting, Admitted
    <3> QED BY <2>2, <3>1, <1>1 DEF GuardInv, TypeOK
  <2>4. Busy(g, p)'
    BY <1>b, <1>1, <2>1, <2>2, <2>3
    DEF ClearTarget, GoTo, Busy, Resting, Admitted, GuardInv, TypeOK
  <2> QED BY <1>b, <1>0, <1>1, <1>3, <2>2, <2>3, <2>4, GoToLocal
      DEF ClearTarget, GoTo, jobVars, syncVars
<1>c. CASE Rename(p)
  <2>1. Resting(g) /\ Admitted(g, p)
    BY <1>1, <1>c DEF Rename, Busy
  <2>2. CASE Finish(p) /\ UNCHANGED files
    <3>1. Resting(g)'
      BY <2>1, <2>2, <1>c DEF Rename, Resting
    <3> QED BY <1>c, <1>0, <1>1, <2>2, <3>1, FinishLocal DEF Rename, jobVars, syncVars
  <2>3. CASE ~(Finish(p) /\ UNCHANGED files)
    <3>1. GoTo(p, "publish") /\ files' = [files EXCEPT ![g] = @ \cup {req[p].loc}]
      BY <1>c, <2>3 DEF Rename
    <3>2. files'[g] = files[g] \cup {req[p].loc} /\ \A h \in Hashes \ {g} : files'[h] = files[h]
      BY <3>1, <1>1 DEF GuardInv, TypeOK
    <3>3. files[g] = IF index[g] = None THEN {} ELSE {index[g].loc}
      BY <2>1 DEF Resting
    <3>4. Busy(g, p)'
      BY <1>c, <1>1, <2>1, <3>1, <3>2, <3>3
      DEF Rename, GoTo, Busy, Admitted, GuardInv, TypeOK
    <3> QED BY <1>c, <1>0, <1>1, <1>3, <3>1, <3>2, <3>4, GoToLocal
        DEF Rename, GoTo, jobVars, syncVars
  <2> QED BY <2>2, <2>3
<1>d. CASE PublishMetadata(p)
  <2>1. /\ Admitted(g, p)
        /\ files[g] = {req[p].loc} \cup (IF index[g] = None THEN {} ELSE {index[g].loc})
    BY <1>1, <1>d DEF PublishMetadata, Busy
  <2>2. ~(req[p].how = "cache" /\ index[g] # None)
    BY <2>1, <1>2 DEF Admitted
  <2>3. PICK c \in {clock} : index' = [index EXCEPT ![g] = [loc |-> req[p].loc, created |-> c]]
    BY <1>d, <2>2, <1>1 DEF PublishMetadata, Publications
  <2>4. /\ index'[g] = [loc |-> req[p].loc, created |-> clock]
        /\ \A h \in Hashes \ {g} : index'[h] = index[h]
    BY <2>3, <1>1 DEF GuardInv, TypeOK
  <2>5. index'[g] # None
    BY GuardInv', <2>4, ConstantsAssumption, <1>1
    DEF GuardInv, TypeOK, ConstantsAssumption, Entries
  <2>6. index'[g].loc = req[p].loc /\ index'[g].loc.tier # "s3"
    BY <2>4, <1>2
  <2>7. CASE index[g] = None
    <3>1. Finish(p)
      BY <1>d, <2>2, <2>7 DEF PublishMetadata
    <3>2. Resting(g)'
      BY <1>d, <2>1, <2>5, <2>6, <2>7 DEF PublishMetadata, Resting, Admitted
    <3> QED BY <1>d, <1>0, <1>1, <2>4, <2>6, <3>1, <3>2, FinishLocal
        DEF PublishMetadata, jobVars, syncVars
  <2>8. CASE index[g] # None
    <3>1. /\ pc' = [pc EXCEPT ![p] = "displaced"]
          /\ cur' = [cur EXCEPT ![p] = index[g]]
          /\ UNCHANGED <<req, lock>>
      BY <1>d, <2>2, <2>8 DEF PublishMetadata
    <3>2. pc'[p] = "displaced" /\ cur'[p] = index[g]
      BY <3>1, <1>1 DEF GuardInv, TypeOK
    <3>3. Busy(g, p)'
      BY <1>d, <2>1, <2>5, <2>6, <2>8, <3>1, <3>2 DEF PublishMetadata, Busy, Admitted
    <3> QED BY <1>d, <1>0, <1>1, <2>4, <2>6, <3>1, <3>3, GoToLocal
        DEF PublishMetadata, jobVars, syncVars
  <2> QED BY <2>7, <2>8
<1>e. CASE RemoveDisplaced(p)
  <2>1. /\ g \notin quarantined
        /\ index[g] # None /\ index[g].loc = req[p].loc
        /\ cur[p].loc.tier = "cache" /\ req[p].loc.tier = "uploads"
        /\ files[g] = {req[p].loc, cur[p].loc}
    BY <1>1, <1>e DEF RemoveDisplaced, Busy
  <2>2. Finish(p) /\ files' = [files EXCEPT ![g] = @ \ {cur[p].loc}] /\ UNCHANGED superseded
    BY <1>e, <2>1 DEF RemoveDisplaced, MayFail, LocalOnly
  <2>3. files'[g] = {req[p].loc} /\ \A h \in Hashes \ {g} : files'[h] = files[h]
    BY <2>1, <2>2, <1>1 DEF GuardInv, TypeOK
  <2>4. Resting(g)'
    BY <1>e, <2>1, <2>3 DEF RemoveDisplaced, Resting
  <2> QED BY <1>e, <1>0, <1>1, <2>2, <2>3, <2>4, FinishLocal DEF RemoveDisplaced, jobVars, syncVars
<1> QED BY <1>a, <1>b, <1>c, <1>d, <1>e

\* remove_indexed_blob leaves its hash with no copy and no entry.
LEMMA RemoveStepsKeepLocalInv ==
    ASSUME LocalOnly, LocalInv, GuardInv', NEW p \in Tasks,
           ReadCurrent(p) \/ Unlink(p) \/ Quarantine(p) \/ Unindex(p)
    PROVE  LocalInv'
<1>0. Guarded(p) /\ pc[p] \in {"read", "unlink", "quarantine", "unindex"}
  BY DEF ReadCurrent, Unlink, Quarantine, Unindex, Guarded
<1> SUFFICES ASSUME NEW g \in Hashes, g = req[p].hash PROVE LocalInv'
  BY <1>0, Holder
<1>1. /\ GuardInv /\ Quiet /\ Busy(g, p)
      /\ req[p] \in Reqs
      /\ index[g] # None => index[g].loc.tier # "s3"
      /\ index[g] \in Entries \cup {None} /\ files[g] \subseteq Locations
  BY <1>0, Holder DEF LocalInv, GuardInv, TypeOK, Quiet
<1>2. cur = [cur EXCEPT ![p] = cur[p]]
  BY <1>1 DEF GuardInv, TypeOK
<1>3. pc[p] # "read" => cur[p] # None /\ index[g] = cur[p]
  BY <1>0, <1>1 DEF GuardInv, Shape, Busy
<1>a. CASE ReadCurrent(p)
  <2>1. Resting(g)
    BY <1>1, <1>a DEF ReadCurrent, Busy
  <2>2. CASE Finish(p)
    <3>1. Resting(g)'
      BY <2>1, <1>a DEF ReadCurrent, Resting
    <3> QED BY <1>a, <1>0, <1>1, <2>2, <3>1, FinishLocal DEF ReadCurrent, jobVars, syncVars
  <2>3. CASE ~Finish(p)
    <3>1. PICK label \in {"quarantine", "unlink"} :
            /\ cur' = [cur EXCEPT ![p] = index[g]]
            /\ pc' = [pc EXCEPT ![p] = label]
            /\ UNCHANGED <<req, lock>>
            /\ req[p].want # None => index[g] = req[p].want
      BY <1>a, <2>3 DEF ReadCurrent, LocalOnly
    <3>2. pc'[p] = label /\ cur'[p] = index[g]
      BY <3>1, <1>1 DEF GuardInv, TypeOK
    <3>3. Busy(g, p)'
      BY <1>a, <2>1, <3>1, <3>2 DEF ReadCurrent, Busy, Resting
    <3> QED BY <1>a, <1>0, <1>1, <3>1, <3>3, GoToLocal DEF ReadCurrent, jobVars, syncVars
  <2> QED BY <2>2, <2>3
<1>b. CASE Unlink(p)
  <2>1. Resting(g) /\ index[g] = cur[p] /\ req[p].want \in {None, cur[p]}
    BY <1>1, <1>b DEF Unlink, Busy
  <2>2. GoTo(p, "unindex") /\ files' = [files EXCEPT ![g] = @ \ {cur[p].loc}]
    BY <1>b, <1>1, <1>3 DEF Unlink, MayFail, LocalOnly
  <2>3. files'[g] = {} /\ \A h \in Hashes \ {g} : files'[h] = files[h]
    BY <1>b, <1>1, <1>3, <2>1, <2>2 DEF Unlink, Resting, GuardInv, TypeOK
  <2>4. Busy(g, p)'
    BY <1>b, <1>1, <2>1, <2>2, <2>3 DEF Unlink, GoTo, Busy, GuardInv, TypeOK
  <2> QED BY <1>b, <1>0, <1>1, <1>2, <2>2, <2>3, <2>4, GoToLocal
      DEF Unlink, GoTo, jobVars, syncVars
<1>c. CASE Quarantine(p)
  <2>1. Resting(g) /\ index[g] = cur[p] /\ req[p].want \in {None, cur[p]}
    BY <1>1, <1>c DEF Quarantine, Busy
  <2>2. files[g] = {cur[p].loc} /\ cur[p].loc.tier # "s3"
    BY <1>c, <1>1, <1>3, <2>1 DEF Quarantine, Resting
  <2>3. /\ GoTo(p, "unindex") /\ files' = [files EXCEPT ![g] = @ \ {cur[p].loc}]
        /\ quarantined' = quarantined \cup {g}
    BY <1>c, <2>2 DEF Quarantine, LocalOnly
  <2>4. files'[g] = {} /\ \A h \in Hashes \ {g} : files'[h] = files[h]
    BY <1>1, <2>2, <2>3 DEF GuardInv, TypeOK
  <2>5. Busy(g, p)'
    BY <1>c, <1>1, <2>1, <2>3, <2>4 DEF Quarantine, GoTo, Busy, GuardInv, TypeOK
  <2> QED BY <1>c, <1>0, <1>1, <1>2, <2>3, <2>4, <2>5, GoToLocal
      DEF Quarantine, GoTo, jobVars, syncVars
<1>d. CASE Unindex(p)
  <2>1. files[g] = {} /\ index[g] = cur[p] /\ cur[p] # None
    BY <1>1, <1>3, <1>d DEF Unindex, Busy
  <2>2. index' = [index EXCEPT ![g] = None] /\ Finish(p)
    BY <2>1, <1>d DEF Unindex
  <2>3. index'[g] = None /\ \A h \in Hashes \ {g} : index'[h] = index[h]
    BY <1>1, <2>2 DEF GuardInv, TypeOK
  <2>4. Resting(g)'
    BY <1>d, <2>1, <2>3 DEF Unindex, Resting
  <2> QED BY <1>d, <1>0, <1>1, <2>2, <2>3, <2>4, FinishLocal DEF Unindex, jobVars, syncVars
<1> QED BY <1>a, <1>b, <1>c, <1>d

\* The steps that need a bucket, a failed operation or a queued copy.
LEMMA NeverLocal ==
    ASSUME LocalOnly, LocalInv
    PROVE  /\ \A p \in Tasks : ~(Find(p) \/ Put(p) \/ Sweep(p) \/ Reconcile(p) \/ Cancel(p))
           /\ ~S3Recovery /\ ~RunDetached
<1>1. ASSUME NEW p \in Tasks, pc[p] \in {"find", "put", "sweep", "reconcile"} PROVE FALSE
  <2>1. CASE pc[p] = "find"
    BY <2>1 DEF LocalInv, GuardInv, Shape, Quiet, Publications, Removals
  <2>2. CASE pc[p] # "find"
    <3>1. Guarded(p)
      BY <1>1, <2>2 DEF Guarded
    <3> QED BY <1>1, <2>2, <3>1, Holder DEF Busy
  <2> QED BY <2>1, <2>2
<1>2. \A p \in Tasks : ~(Find(p) \/ Put(p) \/ Sweep(p) \/ Reconcile(p))
  BY <1>1 DEF Find, Put, Sweep, Reconcile
<1>3. \A p \in Tasks : ~Cancel(p)
  BY DEF Cancel, LocalOnly
<1>4. ~S3Recovery
  BY DEF S3Recovery, SyncList, SyncContains, SyncInsert, SyncDone, LocalOnly, LocalInv, Quiet
<1>5. ~RunDetached
  BY DEF RunDetached, LocalInv, Quiet
<1> QED BY <1>2, <1>3, <1>4, <1>5

\* The cleanup job's bookkeeping and the clock touch no hash.
LEMMA JobsKeepLocalInv ==
    ASSUME LocalOnly, LocalInv, GuardInv', CleanupJob \/ Tick
    PROVE  LocalInv'
<1>0. Cleaner \in Tasks
  BY DEF Tasks
<1>1. CASE TakeSuperseded \/ NextPass \/ Tick
  <2>1. UNCHANGED <<index, files, quarantined, taskVars, detached, syncVars>>
    BY <1>1 DEF TakeSuperseded, NextPass, Tick
  <2>2. superseded' = {} /\ retry' = {} /\ \A r \in todo' : r.how = "Evicted"
    BY <1>1 DEF TakeSuperseded, NextPass, Tick, jobVars, LocalInv, Quiet
  <2>3. Quiet'
    BY <2>1, <2>2 DEF taskVars, syncVars, LocalInv, Quiet
  <2>4. \A h \in Hashes : HashOK(h)'
    BY <2>1 DEF taskVars, LocalInv, HashOK, Busy, Resting, Admitted
  <2> QED BY <2>3, <2>4 DEF LocalInv
<1>2. CASE NextItem
  <2>1. PICK r \in todo : todo' = todo \ {r} /\ Begin(Cleaner, r)
    BY <1>2 DEF NextItem
  <2>2. ~Guarded(Cleaner) /\ UNCHANGED <<index, files, quarantined, lock, cur>>
    BY <1>2, <2>1 DEF NextItem, Begin, Guarded
  <2>3. \A q \in Tasks : req'[q] = IF q = Cleaner THEN r ELSE req[q]
    BY <2>1 DEF Begin, LocalInv, GuardInv, TypeOK
  <2>4. \A q \in Tasks \ {Cleaner} : pc'[q] = pc[q] /\ req'[q] = req[q] /\ cur'[q] = cur[q]
    BY <2>1, <2>2, <2>3 DEF Begin, LocalInv, GuardInv, TypeOK
  <2>5. r.how = "Evicted"
    BY <2>1 DEF LocalInv, Quiet
  <2>6. Quiet'
    BY <1>2, <2>1, <2>2, <2>3, <2>5
    DEF NextItem, LocalInv, Quiet, syncVars, Publications, Removals
  <2> QED BY <1>0, <2>2, <2>4, <2>6, UnguardedLocal
<1> QED BY <1>1, <1>2 DEF CleanupJob

\* Whatever step a crash interrupts, the disk holds nothing of a hash, one copy,
\* or an upload next to the cached copy it replaces, and nothing quarantined.
LEMMA OnDisk ==
    ASSUME LocalInv, NEW h \in Hashes
    PROVE  \/ files[h] = {}
           \/ /\ h \notin quarantined
              /\ \E x \in Locations : files[h] = {x} /\ x.tier # "s3"
           \/ /\ h \notin quarantined
              /\ \E x, y \in Locations : /\ files[h] = {x, y}
                                         /\ x.tier = "cache" /\ y.tier = "uploads"
<1>0. HashOK(h) /\ GuardInv /\ Quiet
  BY DEF LocalInv
<1>1. index[h] # None => index[h].loc \in Locations /\ index[h].loc.tier # "s3"
  BY <1>0 DEF Quiet, GuardInv, TypeOK, Entries
<1>2. CASE Resting(h)
  BY <1>1, <1>2 DEF Resting
<1>3. CASE ~Resting(h)
  <2>1. PICK p \in Tasks : p = lock[h] /\ Busy(h, p) /\ Guarded(p)
    BY <1>0, <1>3 DEF HashOK, GuardInv, GuardExact, TypeOK
  <2>2. pc[p] \in {"publish", "displaced"} =>
          /\ req[p].loc \in Locations
          /\ req[p].loc.tier # "s3"
          /\ pc[p] = "displaced" => cur[p].loc \in Locations
    BY <1>0, <2>1, GuardedReq, ConstantsAssumption
    DEF GuardInv, Shape, TypeOK, Reqs, Entries, Quiet, Publications, Removals,
        ConstantsAssumption
  <2>3. CASE pc[p] = "publish"
    BY <1>1, <2>1, <2>2, <2>3 DEF Busy, Admitted
  <2>4. CASE pc[p] = "displaced"
    BY <2>1, <2>2, <2>4 DEF Busy
  <2>5. CASE pc[p] \notin {"publish", "displaced"}
    BY <1>3, <2>1, <2>5 DEF Busy
  <2> QED BY <2>3, <2>4, <2>5
<1> QED BY <1>2, <1>3

\* Whatever step the process died in, the startup scan leaves every hash at
\* rest: build_file_index drops the cached copy that an upload displaced.
LEMMA RestartKeepsLocalInv ==
    ASSUME LocalOnly, LocalInv, GuardInv', Restart
    PROVE  LocalInv'
<1>1. ASSUME NEW h \in Hashes
      PROVE  Resting(h)' /\ (index'[h] # None => index'[h].loc.tier # "s3")
  <2>1. /\ files'[h] \in ScannedCopies(files[h])
        /\ index'[h] \in ScannedEntries(files'[h], s3up', clock)
        /\ quarantined' = quarantined
    BY DEF Restart
  <2>2. ~s3up'
    BY DEF Restart, Listed, LocalOnly
  <2>3. CASE files[h] = {}
    <3>1. files'[h] = {}
      BY <2>1, <2>3 DEF ScannedCopies, At
    <3>2. index'[h] = None
      BY <2>1, <2>2, <3>1 DEF ScannedEntries, At
    <3> QED BY <3>1, <3>2 DEF Resting
  <2>4. ASSUME NEW x \in Locations, files'[h] = {x}, x.tier # "s3", h \notin quarantined
        PROVE  Resting(h)' /\ (index'[h] # None => index'[h].loc.tier # "s3")
    <3>1. index'[h] \in [loc : {x}, created : 0..clock]
      <4>1. At({x}, "uploads") = IF x.tier = "uploads" THEN {x} ELSE {}
        BY DEF At
      <4>2. At({x}, "cache") = IF x.tier = "cache" THEN {x} ELSE {}
        BY DEF At
      <4>3. x.tier \in {"uploads", "cache"}
        BY <2>4 DEF Locations, Tiers
      <4> QED BY <2>1, <2>4, <4>1, <4>2, <4>3 DEF ScannedEntries
    <3>2. index'[h].loc = x
      BY <3>1
    <3>3. index'[h] # None
      <4>1. clock \in 0..MaxClock /\ MaxClock \in Nat
        BY ConstantsAssumption DEF LocalInv, GuardInv, TypeOK, ConstantsAssumption
      <4>2. 0..clock \subseteq 0..MaxClock
        BY <4>1
      <4>3. index'[h] \in Entries
        BY <3>1, <4>2, <2>4 DEF Entries
      <4> QED BY <4>3, ConstantsAssumption DEF ConstantsAssumption
    <3> QED BY <2>1, <2>4, <3>2, <3>3 DEF Resting
  <2>5. ASSUME NEW x \in Locations, files[h] = {x}, x.tier # "s3", h \notin quarantined
        PROVE  Resting(h)' /\ (index'[h] # None => index'[h].loc.tier # "s3")
    <3>1. files'[h] = {x}
      BY <2>1, <2>5 DEF ScannedCopies, At
    <3> QED BY <2>4, <2>5, <3>1
  <2>6. ASSUME NEW x \in Locations, NEW y \in Locations, files[h] = {x, y},
               x.tier = "cache", y.tier = "uploads", h \notin quarantined
        PROVE  Resting(h)' /\ (index'[h] # None => index'[h].loc.tier # "s3")
    <3>1. At({x, y}, "cache") = {x} /\ At({x, y}, "uploads") = {y}
      BY <2>6 DEF At
    <3>2. files'[h] = {x, y} \ {x}
      BY <2>1, <2>6, <3>1 DEF ScannedCopies, LocalOnly
    <3>3. files'[h] = {y}
      BY <2>6, <3>2
    <3> QED BY <2>4, <2>6, <3>3
  <2> QED BY <2>3, <2>5, <2>6, OnDisk
<1>2. /\ lock' = [h \in Hashes |-> None] /\ req' = [p \in Tasks |-> None]
      /\ superseded' = {} /\ retry' = {} /\ todo' = {}
      /\ detached' = {} /\ ~syncing' /\ merge' = None
  BY DEF Restart, LocalInv, Quiet
<1>3. Quiet'
  BY <1>1, <1>2 DEF Quiet
<1>4. \A h \in Hashes : HashOK(h)'
  BY <1>1, <1>2 DEF HashOK
<1> QED BY <1>3, <1>4 DEF LocalInv

\* Every step of a filesystem deployment keeps LocalInv.
LEMMA NextKeepsLocalInv ==
    ASSUME LocalOnly, LocalInv, [Next]_vars
    PROVE  LocalInv'
<1>0. GuardInv'
  BY NextKeepsGuardInv DEF LocalInv
<1>1. ASSUME NEW p \in Requests, Request(p) PROVE LocalInv'
  BY <1>0, <1>1, StartKeepsLocalInv
<1>2. ASSUME NEW p \in Requests, Cancel(p) PROVE LocalInv'
  BY <1>2, NeverLocal DEF Tasks
<1>3. ASSUME NEW p \in Tasks, Step(p) PROVE LocalInv'
  BY <1>0, <1>3, NeverLocal, LockKeepsLocalInv, PublishStepsKeepLocalInv,
     RemoveStepsKeepLocalInv DEF Step
<1>4. CASE CleanupJob \/ S3Recovery \/ RunDetached \/ Tick
  BY <1>0, <1>4, NeverLocal, JobsKeepLocalInv
<1>5. CASE Restart
  BY <1>0, <1>5, RestartKeepsLocalInv
<1>6. CASE UNCHANGED vars
  <2>1. Quiet'
    BY <1>6 DEF vars, taskVars, jobVars, syncVars, LocalInv, Quiet
  <2>2. \A h \in Hashes : HashOK(h)'
    BY <1>6 DEF vars, taskVars, LocalInv, HashOK, Busy, Resting, Admitted
  <2> QED BY <1>0, <2>1, <2>2 DEF LocalInv
<1> QED BY <1>1, <1>2, <1>3, <1>4, <1>5, <1>6 DEF Next

\* LocalInv is an invariant of filesystem deployments.
LEMMA LocalInvHolds == LocalOnly => (Spec => []LocalInv)
<1> SUFFICES ASSUME LocalOnly PROVE Spec => []LocalInv
  OBVIOUS
<1>1. Init => LocalInv
  BY InitLocalInv
<1>2. LocalInv /\ [Next]_vars => LocalInv'
  BY NextKeepsLocalInv
<1> QED BY <1>1, <1>2, PTL DEF Spec

-----------------------------------------------------------------------------
\* Without a bucket, an indexed hash whose guard is free has its bytes at the
\* indexed location, in every interleaving of uploads, cache fills, deletions,
\* reports and evictions and across crashes at any step.
THEOREM LocalIndexedHasBytes == LocalOnly => (Spec => []IndexedHasBytes)
<1>1. LocalInv => IndexedHasBytes
  BY DEF LocalInv, HashOK, Resting, IndexedHasBytes
<1> QED BY <1>1, LocalInvHolds, PTL

\* Without a bucket and without failing file operations, no publication,
\* collision, removal or crash leaves a file the index does not point at.
THEOREM LocalNoOrphans == LocalOnly => (Spec => []NoOrphans)
<1>1. LocalInv => NoOrphans
  BY DEF LocalInv, HashOK, Resting, NoOrphans
<1> QED BY <1>1, LocalInvHolds, PTL

\* Without a bucket, a quarantined hash never comes back into the index.
THEOREM LocalQuarantineIsFinal == LocalOnly => (Spec => []QuarantineIsFinal)
<1>1. LocalInv => QuarantineIsFinal
  BY DEF LocalInv, GuardInv, TypeOK, HashOK, Resting, QuarantineIsFinal
<1> QED BY <1>1, LocalInvHolds, PTL

\* Without a bucket, a removal that read an entry under its guard still finds
\* that entry indexed when it disposes of the file and when it updates the
\* index, and an eviction only ever acts on the entry its snapshot selected.
THEOREM LocalGuardSpansRemoval == LocalOnly => (Spec => []GuardSpansRemoval)
<1>1. LocalInv => GuardSpansRemoval
  <2> SUFFICES ASSUME LocalInv, NEW p \in Tasks, pc[p] \in {"unlink", "quarantine", "unindex"}
               PROVE  /\ index[req[p].hash] = cur[p]
                      /\ req[p].want # None => req[p].want = cur[p]
    BY DEF GuardSpansRemoval
  <2>1. Busy(req[p].hash, p)
    BY Holder DEF Guarded
  <2> QED BY <2>1 DEF Busy
<1> QED BY <1>1, LocalInvHolds, PTL

-----------------------------------------------------------------------------
(***************************************************************************)
(* The local store implements BlobService.                                 *)
(***************************************************************************)
Status == [h \in Hashes |-> Held(h)]
Pending == [p \in Tasks |-> Under(p)]

\* What the mapping needs besides LocalInv: only evictions are particular about
\* the entry, and a removal disposes of the file in the way its reason asks for.
Disposal ==
    /\ \A p \in Tasks : pc[p] # "idle" /\ req[p].want # None => req[p].how = "Evicted"
    /\ \A p \in Tasks : pc[p] = "unlink" => req[p].how # "Quarantined"
    /\ \A p \in Tasks : pc[p] = "quarantine" => req[p].how = "Quarantined"
    /\ \A p \in Tasks : pc[p] = "unindex" =>
         (req[p].hash \in quarantined <=> req[p].how = "Quarantined")

ServiceInv == LocalInv /\ Disposal

\* A step of one task on one hash changes what the service has of those two.
LEMMA PendingStep ==
    ASSUME NEW p \in Tasks, \A q \in Tasks \ {p} : pc'[q] = pc[q] /\ req'[q] = req[q]
    PROVE  Pending' = [Pending EXCEPT ![p] = Under(p)']
  BY DEF Pending, Under

LEMMA StatusStep ==
    ASSUME NEW h \in Hashes,
           \A g \in Hashes \ {h} : index'[g] = index[g] /\ (g \in quarantined' <=> g \in quarantined)
    PROVE  Status' = [Status EXCEPT ![h] = Held(h)']
  BY DEF Status, Held

LEMMA SameStatus == ASSUME UNCHANGED <<index, quarantined>> PROVE Status' = Status
  BY DEF Status, Held

\* A request begins, and nothing else happens.
LEMMA Calls ==
    ASSUME LocalInv, NEW p \in Tasks, NEW r \in Reqs, Begin(p, r),
           r.how \in Publications \cup Removals, UNCHANGED <<index, quarantined>>
    PROVE  Service!Next
<1>1. \A q \in Tasks \ {p} : pc'[q] = pc[q] /\ req'[q] = req[q]
  BY DEF LocalInv, GuardInv, TypeOK, Begin
<1>2. Pending' = [Pending EXCEPT ![p] = Under(p)'] /\ Status' = Status
  BY <1>1, PendingStep, SameStatus
<1>3. Under(p) = None /\ Under(p)' = [how |-> r.how, hash |-> r.hash, done |-> FALSE]
  BY DEF LocalInv, GuardInv, TypeOK, Begin, Under
<1>4. r.how \in Service!Operations /\ r.hash \in Hashes
  BY DEF Service!Operations, Publications, Removals, Reqs
<1>5. Pending[p] = None
  BY <1>3 DEF Pending
<1>6. /\ Pending[p] = None /\ Status' = Status
      /\ \E how \in Service!Operations, h \in Hashes :
           Pending' = [Pending EXCEPT ![p] = [how |-> how, hash |-> h, done |-> FALSE]]
  BY <1>2, <1>3, <1>4, <1>5
<1>7. Service!Call(p)
  BY <1>6 DEF Service!Call, Pending, Status
<1> QED BY <1>7 DEF Service!Next

\* What a guarded task has under way, as the service sees it.
LEMMA UnderGuard ==
    ASSUME ServiceInv, NEW p \in Tasks, Guarded(p)
    PROVE  /\ Under(p) = [how |-> req[p].how, hash |-> req[p].hash,
                          done |-> \/ pc[p] = "displaced"
                                   \/ pc[p] = "unindex" /\ req[p].how = "Quarantined"]
           /\ Under(p) # None
           /\ Under(p) \in [how : Publications \cup Removals, hash : Hashes, done : BOOLEAN]
           /\ req[p] \in Reqs /\ req[p].hash \in Hashes /\ req[p].how \in Publications \cup Removals
<1>1. req[p] \in Reqs /\ req[p].hash \in Hashes /\ req[p] # None
  BY Holder, ConstantsAssumption DEF ServiceInv, ConstantsAssumption
<1>2. req[p].how \in Publications \cup Removals
  BY <1>1 DEF ServiceInv, LocalInv, Quiet
<1>3. /\ Under(p) = [how |-> req[p].how, hash |-> req[p].hash,
                     done |-> \/ pc[p] = "displaced"
                              \/ pc[p] = "unindex" /\ req[p].how = "Quarantined"]
      /\ pc[p] # "idle"
  BY DEF Under, Guarded
<1>4. Under(p) \in [how : Publications \cup Removals, hash : Hashes, done : BOOLEAN]
  BY <1>1, <1>2, <1>3
<1> QED BY <1>1, <1>2, <1>3, <1>4, ServiceAssumption

\* An operation returns, having been done or having found nothing to do.
LEMMA Returns ==
    ASSUME ServiceInv, NEW p \in Tasks, Guarded(p), Finish(p), UNCHANGED <<index, quarantined>>,
           \/ Under(p).done
           \/ Service!MayDoNothing(req[p].how)
           \/ Service!Effect(req[p].how, Held(req[p].hash)) = {}
    PROVE  Service!Next
<1>1. \A q \in Tasks \ {p} : pc'[q] = pc[q] /\ req'[q] = req[q]
  BY DEF ServiceInv, LocalInv, GuardInv, TypeOK, Finish
<1>2. Under(p)' = None
  BY DEF ServiceInv, LocalInv, GuardInv, TypeOK, Finish, Under
<1>3. Pending' = [Pending EXCEPT ![p] = None] /\ Status' = Status
  BY <1>1, <1>2, PendingStep, SameStatus
<1>4. /\ Pending[p] = Under(p) /\ Under(p) # None
      /\ Under(p).how = req[p].how /\ Under(p).hash = req[p].hash
      /\ Status[req[p].hash] = Held(req[p].hash)
  BY UnderGuard DEF Pending, Status
<1>5. /\ Pending[p] # None
      /\ \/ Pending[p].done
         \/ Service!MayDoNothing(Pending[p].how)
         \/ Service!Effect(Pending[p].how, Status[Pending[p].hash]) = {}
      /\ Pending' = [Pending EXCEPT ![p] = None] /\ Status' = Status
  BY <1>3, <1>4
<1>6. Service!Return(p)
  BY <1>5 DEF Service!Return, Pending, Status
<1> QED BY <1>6 DEF Service!Next

\* An operation takes effect, and returns or is done.
LEMMA Acts ==
    ASSUME ServiceInv, NEW p \in Tasks, Guarded(p), ~Under(p).done,
           \A q \in Tasks \ {p} : pc'[q] = pc[q] /\ req'[q] = req[q],
           NEW g \in Hashes, g = req[p].hash,
           \A h \in Hashes \ {g} : index'[h] = index[h] /\ (h \in quarantined' <=> h \in quarantined),
           Held(g)' \in Service!Effect(req[p].how, Held(g)),
           \/ Under(p)' = None
           \/ Under(p)' = [how |-> req[p].how, hash |-> req[p].hash, done |-> TRUE]
    PROVE  Service!Next
<1>1. Pending' = [Pending EXCEPT ![p] = Under(p)'] /\ Status' = [Status EXCEPT ![g] = Held(g)']
  BY PendingStep, StatusStep
<1>2. /\ Pending[p] = Under(p) /\ Under(p) # None
      /\ Under(p).how = req[p].how /\ Under(p).hash = g
      /\ Status[g] = Held(g)
  BY UnderGuard DEF Pending, Status
<1>4. Under(p)' \in {None, [how |-> Pending[p].how, hash |-> Pending[p].hash, done |-> TRUE]}
  BY <1>2
<1>5. Held(g)' \in Service!Effect(Pending[p].how, Status[Pending[p].hash])
  BY <1>2
<1>6. Status' = [Status EXCEPT ![Pending[p].hash] = Held(g)']
  BY <1>1, <1>2
<1>7. /\ Pending[p] # None /\ ~Pending[p].done
      /\ \E s \in Service!Effect(Pending[p].how, Status[Pending[p].hash]) :
           Status' = [Status EXCEPT ![Pending[p].hash] = s]
      /\ \E after \in {None, [how |-> Pending[p].how, hash |-> Pending[p].hash, done |-> TRUE]} :
           Pending' = [Pending EXCEPT ![p] = after]
  BY <1>1, <1>2, <1>4, <1>5, <1>6
<1>8. Service!Act(p)
  BY <1>7 DEF Service!Act, Pending, Status
<1> QED BY <1>8 DEF Service!Next

\* Everything else is not seen.
LEMMA Unseen ==
    ASSUME UNCHANGED <<index, quarantined>>, \A q \in Tasks : Under(q)' = Under(q)
    PROVE  UNCHANGED Service!serviceVars
<1>1. Status' = Status /\ Pending' = Pending
  BY SameStatus DEF Pending
<1> QED BY <1>1 DEF Service!serviceVars, Status, Pending

LEMMA UnseenStep ==
    ASSUME ServiceInv, NEW p \in Tasks, UNCHANGED <<index, quarantined, req>>,
           pc[p] # "idle", NEW label, label \notin {"idle", "displaced"},
           pc' = [pc EXCEPT ![p] = label],
           pc[p] # "displaced" /\ (pc[p] = "unindex" => req[p].how # "Quarantined"),
           label = "unindex" => req[p].how # "Quarantined"
    PROVE  UNCHANGED Service!serviceVars
<1>1. \A q \in Tasks \ {p} : pc'[q] = pc[q]
  BY DEF ServiceInv, LocalInv, GuardInv, TypeOK
<1>2. pc'[p] = label
  BY DEF ServiceInv, LocalInv, GuardInv, TypeOK
<1>3. \A q \in Tasks : Under(q)' = Under(q)
  BY <1>1, <1>2 DEF Under
<1> QED BY <1>3, Unseen

\* Disposal speaks of one task at a time.
LEMMA DisposalStep ==
    ASSUME ServiceInv, NEW p \in Tasks,
           \A q \in Tasks \ {p} : pc'[q] = pc[q] /\ req'[q] = req[q],
           \/ quarantined' = quarantined
           \/ Guarded(p) /\ quarantined' = quarantined \cup {req[p].hash},
           pc'[p] # "idle" /\ req'[p].want # None => req'[p].how = "Evicted",
           pc'[p] = "unlink" => req'[p].how # "Quarantined",
           pc'[p] = "quarantine" => req'[p].how = "Quarantined",
           pc'[p] = "unindex" => (req'[p].hash \in quarantined' <=> req'[p].how = "Quarantined")
    PROVE  Disposal'
<1>1. ASSUME NEW q \in Tasks \ {p}, pc[q] = "unindex"
      PROVE  req[q].hash \in quarantined' <=> req[q].hash \in quarantined
  <2>1. Guarded(q)
    BY <1>1 DEF Guarded
  <2>2. Guarded(p) => req[q].hash # req[p].hash
    BY <2>1, Holder DEF ServiceInv
  <2> QED BY <2>2
<1>2. \A q \in Tasks \ {p} : pc[q] = "unindex" => (req[q].hash \in quarantined' <=> req[q].how = "Quarantined")
  BY <1>1 DEF ServiceInv, Disposal
<1> QED BY <1>2 DEF ServiceInv, Disposal

LEMMA FinishDisposal ==
    ASSUME ServiceInv, NEW p \in Tasks, Finish(p), quarantined' = quarantined
    PROVE  Disposal'
<1>1. /\ \A q \in Tasks \ {p} : pc'[q] = pc[q] /\ req'[q] = req[q]
      /\ pc'[p] = "idle"
  BY DEF ServiceInv, LocalInv, GuardInv, TypeOK, Finish
<1> QED BY <1>1, DisposalStep

\* A guarded task moves on, and the service sees nothing of it.
LEMMA MovesOn ==
    ASSUME ServiceInv, NEW p \in Tasks, pc[p] \notin {"idle", "displaced", "unindex"},
           NEW label, label \notin {"idle", "displaced"},
           pc' = [pc EXCEPT ![p] = label],
           UNCHANGED <<index, quarantined, req>>,
           label = "unlink" => req[p].how # "Quarantined",
           label = "quarantine" => req[p].how = "Quarantined",
           label = "unindex" => req[p].how # "Quarantined" /\ req[p].hash \notin quarantined
    PROVE  Disposal' /\ UNCHANGED Service!serviceVars
<1>1. \A q \in Tasks \ {p} : pc'[q] = pc[q] /\ req'[q] = req[q]
  BY DEF ServiceInv, LocalInv, GuardInv, TypeOK
<1>2. pc'[p] = label /\ req'[p] = req[p]
  BY DEF ServiceInv, LocalInv, GuardInv, TypeOK
<1>3. Disposal'
  BY <1>1, <1>2, DisposalStep DEF ServiceInv, Disposal
<1> QED BY <1>3, UnseenStep

\* Requests and eviction candidates.
LEMMA StartsServe ==
    ASSUME LocalOnly, ServiceInv, NEW p \in Tasks,
           (p \in Requests /\ Request(p)) \/ (p = Cleaner /\ NextItem)
    PROVE  Disposal' /\ Service!Next
<1>1. PICK r \in Reqs : /\ Begin(p, r) /\ UNCHANGED <<index, quarantined>>
                        /\ r.how \in Publications \cup Removals
                        /\ r.want # None => r.how = "Evicted"
  <2>1. ASSUME NEW h \in Hashes, NEW how \in Publications, NEW n \in Names, StartPublish(p, h, how, n)
        PROVE  \E r \in Reqs : /\ Begin(p, r) /\ UNCHANGED <<index, quarantined>>
                               /\ r.how \in Publications \cup Removals
                               /\ r.want # None => r.how = "Evicted"
    <3> DEFINE r == [how |-> how, hash |-> h, loc |-> Target(how, n), want |-> None]
    <3>1. Target(how, n) \in Locations
      BY DEF Target, Locations, Tiers
    <3>2. r \in Reqs /\ r.how = how /\ r.want = None
      BY <3>1 DEF Reqs
    <3>3. Begin(p, r) /\ UNCHANGED <<index, quarantined>>
      BY <2>1 DEF StartPublish
    <3> HIDE DEF r
    <3> QED BY <3>2, <3>3
  <2>2. ASSUME NEW h \in Hashes, NEW how \in Removals, StartRemove(p, h, how)
        PROVE  \E r \in Reqs : /\ Begin(p, r) /\ UNCHANGED <<index, quarantined>>
                               /\ r.how \in Publications \cup Removals
                               /\ r.want # None => r.how = "Evicted"
    <3> DEFINE r == [how |-> how, hash |-> h, loc |-> None, want |-> None]
    <3>2. r \in Reqs /\ r.how = how /\ r.want = None
      BY DEF Reqs
    <3>3. Begin(p, r) /\ UNCHANGED <<index, quarantined>>
      BY <2>2 DEF StartRemove
    <3> HIDE DEF r
    <3> QED BY <3>2, <3>3
  <2>3. ASSUME NEW h \in Hashes PROVE ~StartLookup(p, h)
    BY DEF StartLookup, LocalOnly
  <2>4. CASE NextItem /\ p = Cleaner
    <3>1. PICK r \in todo : Begin(Cleaner, r) /\ UNCHANGED <<index, quarantined>>
      BY <2>4 DEF NextItem
    <3>2. r \in Reqs /\ r.how = "Evicted" /\ "Evicted" \in Removals
      BY DEF ServiceInv, LocalInv, GuardInv, TypeOK, Quiet, Removals
    <3> QED BY <2>4, <3>1, <3>2
  <2> QED BY <2>1, <2>2, <2>3, <2>4 DEF Request
<1>2. /\ \A q \in Tasks \ {p} : pc'[q] = pc[q] /\ req'[q] = req[q]
      /\ pc'[p] = "lock" /\ req'[p] = r
  BY <1>1 DEF ServiceInv, LocalInv, GuardInv, TypeOK, Begin
<1>3. Disposal'
  BY <1>1, <1>2, DisposalStep
<1> QED BY <1>1, <1>3, Calls DEF ServiceInv

LEMMA LockServes ==
    ASSUME LocalOnly, ServiceInv, NEW p \in Tasks, Lock(p)
    PROVE  Disposal' /\ UNCHANGED Service!serviceVars
<1>1. req[p].how \in Publications \cup Removals
  BY ConstantsAssumption
  DEF Lock, ServiceInv, LocalInv, GuardInv, Shape, TypeOK, Quiet, ConstantsAssumption
<1>2. FirstStep(req[p].how) \in {"check", "read"}
  BY <1>1 DEF FirstStep, Publications, Removals
<1> QED BY <1>2, MovesOn DEF Lock

\* publish_blob takes effect when the index entry is published.
LEMMA PublicationServes ==
    ASSUME LocalOnly, ServiceInv, NEW p \in Tasks,
           CheckPublication(p) \/ ClearTarget(p) \/ Rename(p) \/ PublishMetadata(p)
             \/ RemoveDisplaced(p)
    PROVE  Disposal' /\ (Service!Next \/ UNCHANGED Service!serviceVars)
<1>0. Guarded(p) /\ pc[p] \in {"check", "clear", "rename", "publish", "displaced"}
  BY DEF CheckPublication, ClearTarget, Rename, PublishMetadata, RemoveDisplaced, Guarded
<1> SUFFICES ASSUME NEW g \in Hashes, g = req[p].hash
             PROVE  Disposal' /\ (Service!Next \/ UNCHANGED Service!serviceVars)
  BY <1>0, UnderGuard
<1>1. /\ GuardInv /\ Quiet /\ Busy(g, p)
      /\ req[p].how \in Publications /\ Service!MayDoNothing(req[p].how)
      /\ index[g] \in Entries \cup {None}
      /\ req[p].loc.tier = IF req[p].how = "cache" THEN "cache" ELSE "uploads"
  <2>1. GuardInv /\ Quiet /\ Busy(g, p) /\ req[p] \in Reqs /\ req[p] # None
    BY <1>0, Holder, ConstantsAssumption DEF ServiceInv, LocalInv, ConstantsAssumption
  <2>2. req[p].how \in Publications
    BY <1>0, <2>1 DEF GuardInv, Shape, Quiet, Reqs, Publications, Removals
  <2>3. index[g] \in Entries \cup {None}
    BY <2>1 DEF GuardInv, TypeOK
  <2> QED BY <2>1, <2>2, <2>3 DEF Quiet, Publications, Service!MayDoNothing
<1>2. ASSUME Finish(p), UNCHANGED <<index, quarantined>>
      PROVE  Disposal' /\ Service!Next
  BY <1>0, <1>1, <1>2, FinishDisposal, Returns
<1>a. CASE CheckPublication(p)
  <2>1. CASE Finish(p)
    BY <1>a, <1>2, <2>1 DEF CheckPublication
  <2>2. CASE ~Finish(p)
    <3>1. PICK label \in {"put", "clear"} : GoTo(p, label)
      BY <1>a, <2>2 DEF CheckPublication
    <3> QED BY <1>a, <3>1, MovesOn DEF CheckPublication, GoTo
  <2> QED BY <2>1, <2>2
<1>b. CASE ClearTarget(p)
  <2>1. GoTo(p, "rename")
    BY <1>b DEF ClearTarget, LocalOnly
  <2> QED BY <1>b, <2>1, MovesOn DEF ClearTarget, GoTo
<1>c. CASE Rename(p)
  <2>1. CASE Finish(p)
    BY <1>c, <1>2, <2>1 DEF Rename
  <2>2. CASE ~Finish(p)
    <3>1. GoTo(p, "publish")
      BY <1>c, <2>2 DEF Rename
    <3> QED BY <1>c, <3>1, MovesOn DEF Rename, GoTo
  <2> QED BY <2>1, <2>2
<1>d. CASE PublishMetadata(p)
  <2>1. Admitted(g, p) /\ UNCHANGED quarantined
    BY <1>1, <1>d DEF PublishMetadata, Busy
  <2>2. ~(req[p].how = "cache" /\ index[g] # None)
    BY <2>1, <1>1 DEF Admitted
  <2>3. index' = [index EXCEPT ![g] = [loc |-> req[p].loc, created |-> clock]]
    BY <1>d, <2>2, <1>1 DEF PublishMetadata, Publications
  <2>4. /\ index'[g] = [loc |-> req[p].loc, created |-> clock]
        /\ \A h \in Hashes \ {g} : index'[h] = index[h]
    BY <2>3, <1>1 DEF GuardInv, TypeOK
  <2>5. index'[g] # None
    <3>1. req[p].loc \in Locations
      BY <1>0, <1>1, UnderGuard DEF GuardInv, Shape, Reqs
    <3>2. [loc |-> req[p].loc, created |-> clock] \in Entries
      BY <1>1, <3>1 DEF GuardInv, TypeOK, Entries
    <3> QED BY <2>4, <3>2, ConstantsAssumption DEF ConstantsAssumption
  <2>6. /\ Held(g)' = IF req[p].how = "cache" THEN "cached" ELSE "uploaded"
        /\ Held(g) = IF index[g] = None THEN "absent" ELSE "cached"
    <3>1. g \notin quarantined' /\ g \notin quarantined
      BY <2>1 DEF Admitted
    <3>2. index[g] # None => Origin(index[g].loc) = "UpstreamCache"
      BY <2>1 DEF Admitted, Origin
    <3>3. Origin(index'[g].loc) = IF req[p].how = "cache" THEN "UpstreamCache" ELSE "Upload"
      BY <1>1, <2>4 DEF Origin
    <3> QED BY <2>5, <3>1, <3>2, <3>3 DEF Held
  <2>7. Held(g)' \in Service!Effect(req[p].how, Held(g))
    <3>1. CASE req[p].how = "cache"
      BY <2>2, <2>6, <3>1 DEF Service!Effect
    <3>2. CASE req[p].how = "upload"
      BY <2>6, <3>2 DEF Service!Effect
    <3> QED BY <1>1, <3>1, <3>2 DEF Publications
  <2>8. ~Under(p).done
    BY <1>0, <1>d, UnderGuard DEF PublishMetadata
  <2>9. CASE index[g] = None
    <3>1. Finish(p)
      BY <1>d, <2>2, <2>9 DEF PublishMetadata
    <3>2. /\ \A q \in Tasks \ {p} : pc'[q] = pc[q] /\ req'[q] = req[q]
          /\ Under(p)' = None
      BY <3>1, <1>1 DEF GuardInv, TypeOK, Finish, Under
    <3> QED BY <1>0, <2>1, <2>4, <2>7, <2>8, <3>1, <3>2, FinishDisposal, Acts
  <2>10. CASE index[g] # None
    <3>1. /\ pc' = [pc EXCEPT ![p] = "displaced"]
          /\ UNCHANGED <<req, lock>>
      BY <1>d, <2>2, <2>10 DEF PublishMetadata
    <3>2. /\ \A q \in Tasks \ {p} : pc'[q] = pc[q] /\ req'[q] = req[q]
          /\ pc'[p] = "displaced" /\ req'[p] = req[p]
      BY <3>1, <1>1 DEF GuardInv, TypeOK
    <3>3. Under(p)' = [how |-> req[p].how, hash |-> req[p].hash, done |-> TRUE]
      BY <3>2 DEF Under
    <3>4. Disposal'
      BY <2>1, <1>d, <3>2, DisposalStep DEF PublishMetadata, ServiceInv, Disposal
    <3> QED BY <1>0, <2>1, <2>4, <2>7, <2>8, <3>2, <3>3, <3>4, Acts
  <2> QED BY <2>9, <2>10
<1>e. CASE RemoveDisplaced(p)
  BY <1>2, <1>e DEF RemoveDisplaced
<1> QED BY <1>a, <1>b, <1>c, <1>d, <1>e

\* remove_indexed_blob takes effect when the entry goes, or, for a quarantine,
\* when the file is in the quarantine root.
LEMMA RemovalServes ==
    ASSUME LocalOnly, ServiceInv, NEW p \in Tasks,
           ReadCurrent(p) \/ Unlink(p) \/ Quarantine(p) \/ Unindex(p)
    PROVE  Disposal' /\ (Service!Next \/ UNCHANGED Service!serviceVars)
<1>0. Guarded(p) /\ pc[p] \in {"read", "unlink", "quarantine", "unindex"}
  BY DEF ReadCurrent, Unlink, Quarantine, Unindex, Guarded
<1> SUFFICES ASSUME NEW g \in Hashes, g = req[p].hash
             PROVE  Disposal' /\ (Service!Next \/ UNCHANGED Service!serviceVars)
  BY <1>0, UnderGuard
<1>1. /\ GuardInv /\ Quiet /\ Busy(g, p) /\ Disposal
      /\ req[p].how \in Removals
      /\ index[g] \in Entries \cup {None}
  <2>1. GuardInv /\ Quiet /\ Busy(g, p) /\ Disposal
    BY <1>0, Holder DEF ServiceInv, LocalInv
  <2> QED BY <1>0, <2>1 DEF GuardInv, Shape, TypeOK
<1>2. /\ index[g] # None => index[g].loc.tier # "s3"
      /\ Held(g) \in {"absent", "cached", "uploaded", "barred"}
      /\ Held(g) = "barred" <=> g \in quarantined
      /\ g \notin quarantined => (Held(g) = "absent" <=> index[g] = None)
  BY <1>1 DEF Quiet, Held, Origin
<1>3. pc[p] # "read" => cur[p] # None /\ index[g] = cur[p]
  BY <1>0, <1>1 DEF GuardInv, Shape, Busy
<1>a. CASE ReadCurrent(p)
  <2>1. Resting(g)
    BY <1>1, <1>a DEF ReadCurrent, Busy
  <2>2. CASE Finish(p)
    <3>1. CASE index[g] = None
      <4>1. Held(g) \in {"absent", "barred"}
        BY <1>2, <3>1
      <4>2. Service!Effect(req[p].how, Held(g)) = {}
        BY <1>1, <4>1 DEF Service!Effect, Removals
      <4> QED BY <1>a, <1>0, <2>2, <4>2, FinishDisposal, Returns DEF ReadCurrent
    <3>2. CASE index[g] # None
      <4>1. req[p].want # None
        BY <1>a, <2>2, <3>2, <1>1 DEF ReadCurrent, Finish, GuardInv, TypeOK
      <4>2. Service!MayDoNothing(req[p].how)
        BY <1>0, <1>1, <4>1 DEF Disposal, Service!MayDoNothing
      <4> QED BY <1>a, <1>0, <2>2, <4>2, FinishDisposal, Returns DEF ReadCurrent
    <3> QED BY <3>1, <3>2
  <2>3. CASE ~Finish(p)
    <3>1. PICK label \in {"quarantine", "unlink"} :
            /\ pc' = [pc EXCEPT ![p] = label]
            /\ label = "quarantine" <=> req[p].how = "Quarantined"
            /\ UNCHANGED req
      BY <1>a, <2>3 DEF ReadCurrent, LocalOnly
    <3> QED BY <1>a, <3>1, MovesOn DEF ReadCurrent
  <2> QED BY <2>2, <2>3
<1>b. CASE Unlink(p)
  <2>1. Resting(g) /\ index[g] # None /\ req[p].how # "Quarantined"
    BY <1>1, <1>3, <1>b DEF Unlink, Busy, Disposal
  <2>2. g \notin quarantined
    BY <2>1 DEF Resting
  <2>3. GoTo(p, "unindex")
    BY <1>b, <1>2, <1>3 DEF Unlink, MayFail, LocalOnly
  <2> QED BY <1>b, <2>1, <2>2, <2>3, MovesOn DEF Unlink, GoTo
<1>c. CASE Quarantine(p)
  <2>1. Resting(g) /\ index[g] # None /\ req[p].how = "Quarantined"
    BY <1>1, <1>3, <1>c DEF Quarantine, Busy, Disposal
  <2>2. g \notin quarantined /\ files[g] = {cur[p].loc} /\ cur[p].loc.tier # "s3"
    BY <1>2, <1>3, <1>c, <2>1 DEF Quarantine, Resting
  <2>3. GoTo(p, "unindex") /\ quarantined' = quarantined \cup {g} /\ index' = index
    BY <1>c, <2>2 DEF Quarantine, LocalOnly
  <2>4. Held(g) \in {"cached", "uploaded"} /\ Held(g)' = "barred"
    BY <1>2, <2>1, <2>2, <2>3 DEF Held
  <2>5. Held(g)' \in Service!Effect(req[p].how, Held(g))
    BY <2>1, <2>4 DEF Service!Effect
  <2>6. /\ \A q \in Tasks \ {p} : pc'[q] = pc[q] /\ req'[q] = req[q]
        /\ pc'[p] = "unindex" /\ req'[p] = req[p]
    BY <2>3, <1>1 DEF GuardInv, TypeOK, GoTo
  <2>7. Under(p)' = [how |-> req[p].how, hash |-> req[p].hash, done |-> TRUE]
    BY <2>1, <2>6 DEF Under
  <2>8. ~Under(p).done
    BY <1>0, <1>c, UnderGuard DEF Quarantine
  <2>9. Disposal'
    BY <1>0, <1>1, <2>1, <2>3, <2>6, DisposalStep DEF Disposal
  <2> QED BY <1>0, <2>3, <2>5, <2>6, <2>7, <2>8, <2>9, Acts
<1>d. CASE Unindex(p)
  <2>1. index' = [index EXCEPT ![g] = None] /\ Finish(p) /\ UNCHANGED quarantined
    BY <1>3, <1>d DEF Unindex
  <2>2. index'[g] = None /\ \A h \in Hashes \ {g} : index'[h] = index[h]
    BY <1>1, <2>1 DEF GuardInv, TypeOK
  <2>3. g \in quarantined <=> req[p].how = "Quarantined"
    BY <1>1, <1>d DEF Disposal, Unindex
  <2>4. /\ \A q \in Tasks \ {p} : pc'[q] = pc[q] /\ req'[q] = req[q]
        /\ Under(p)' = None
    BY <2>1, <1>1 DEF GuardInv, TypeOK, Finish, Under
  <2>5. Disposal'
    BY <2>1, FinishDisposal
  <2>6. CASE req[p].how = "Quarantined"
    <3>1. Under(p).done /\ Under(p) # None
      BY <1>0, <1>d, <2>6, UnderGuard DEF Unindex
    <3>2. Status' = Status
      BY <2>1, <2>2, <2>3, <2>6 DEF Status, Held
    <3>3. Pending' = [Pending EXCEPT ![p] = None]
      BY <2>4, PendingStep
    <3>4. /\ Pending[p] # None
          /\ \/ Pending[p].done
             \/ Service!MayDoNothing(Pending[p].how)
             \/ Service!Effect(Pending[p].how, Status[Pending[p].hash]) = {}
          /\ Pending' = [Pending EXCEPT ![p] = None] /\ Status' = Status
      BY <3>1, <3>2, <3>3 DEF Pending
    <3>5. Service!Return(p)
      BY <3>4 DEF Service!Return, Pending, Status
    <3> QED BY <2>5, <3>5 DEF Service!Next
  <2>7. CASE req[p].how # "Quarantined"
    <3>1. ~Under(p).done
      BY <1>0, <1>d, <2>7, UnderGuard DEF Unindex
    <3>2. Held(g) \in {"cached", "uploaded"} /\ Held(g)' = "absent"
      BY <1>2, <1>3, <1>d, <2>1, <2>2, <2>3, <2>7 DEF Held, Unindex
    <3>3. Held(g)' \in Service!Effect(req[p].how, Held(g))
      BY <1>1, <2>7, <3>2 DEF Service!Effect, Removals
    <3> QED BY <1>0, <2>1, <2>2, <2>4, <2>5, <3>1, <3>3, Acts
  <2> QED BY <2>6, <2>7
<1> QED BY <1>a, <1>b, <1>c, <1>d

\* The cleanup job's bookkeeping and the clock are not seen.
LEMMA JobsServe ==
    ASSUME ServiceInv, TakeSuperseded \/ NextPass \/ Tick \/ vars' = vars
    PROVE  Disposal' /\ UNCHANGED Service!serviceVars
<1>1. UNCHANGED <<index, quarantined, pc, req>>
  BY DEF TakeSuperseded, NextPass, Tick, taskVars, vars
<1>2. Disposal'
  BY <1>1 DEF ServiceInv, Disposal
<1>3. \A q \in Tasks : Under(q)' = Under(q)
  BY <1>1 DEF Under
<1> QED BY <1>1, <1>2, <1>3, Unseen

\* A crash between the file and the index leaves what was there, or what the
\* interrupted operation was about to make of it.
LEMMA RestartServes ==
    ASSUME LocalOnly, ServiceInv, LocalInv', Restart
    PROVE  Disposal' /\ Service!Next
<1>1. Disposal'
  BY DEF Restart, Disposal
<1>2. Pending' = [p \in Tasks |-> None]
  BY DEF Restart, Pending, Under
<1>3. ASSUME NEW h \in Hashes
      PROVE  \/ Held(h)' = Held(h)
             \/ \E p \in Tasks : /\ Under(p) # None /\ ~Under(p).done /\ Under(p).hash = h
                                 /\ Held(h)' \in Service!Effect(Under(p).how, Held(h))
  <2>1. /\ files'[h] \in ScannedCopies(files[h])
        /\ quarantined' = quarantined
        /\ lock'[h] = None
    BY DEF Restart
  <2>2. Resting(h)' /\ HashOK(h) /\ GuardInv /\ Quiet
    BY <2>1 DEF LocalInv, ServiceInv, HashOK
  <2>3. index'[h] = None => files'[h] = {}
    BY <2>2 DEF Resting
  <2>4. index'[h] # None => files'[h] = {index'[h].loc}
    BY <2>2 DEF Resting
  <2>5. files[h] = {} => index'[h] = None
    BY <2>1, <2>4 DEF ScannedCopies, At
  <2>6. ASSUME NEW x, files[h] = {x} PROVE index'[h] # None /\ index'[h].loc = x
    <3>1. files'[h] = {x}
      BY <2>1, <2>6 DEF ScannedCopies, At
    <3> QED BY <2>3, <2>4, <3>1
  <2>7. ASSUME NEW x, NEW y, files[h] = {x, y}, x.tier = "cache", y.tier = "uploads"
        PROVE  index'[h] # None /\ index'[h].loc = y
    <3>1. At({x, y}, "cache") = {x} /\ At({x, y}, "uploads") = {y}
      BY <2>7 DEF At
    <3>2. files'[h] = {x, y} \ {x}
      BY <2>1, <2>7, <3>1 DEF ScannedCopies, LocalOnly
    <3>3. files'[h] = {y}
      BY <2>7, <3>2
    <3> QED BY <2>3, <2>4, <3>3
  <2>8. CASE h \in quarantined
    BY <2>1, <2>8 DEF Held
  <2>9. CASE h \notin quarantined /\ Resting(h)
    <3>1. CASE index[h] = None
      BY <2>1, <2>5, <2>9, <3>1 DEF Resting, Held
    <3>2. CASE index[h] # None
      <4>1. index'[h] # None /\ index'[h].loc = index[h].loc
        BY <2>6, <2>9, <3>2 DEF Resting
      <4> QED BY <2>1, <3>2, <4>1 DEF Held
    <3> QED BY <3>1, <3>2
  <2>10. CASE h \notin quarantined /\ ~Resting(h)
    <3>1. PICK p \in Tasks : p = lock[h] /\ Busy(h, p) /\ Guarded(p) /\ req[p].hash = h
      BY <2>2, <2>10 DEF HashOK, GuardInv, GuardExact, TypeOK
    <3>2. pc[p] \in {"publish", "displaced", "unindex"}
      BY <2>10, <3>1 DEF Busy
    <3>3. /\ Under(p) # None /\ Under(p).how = req[p].how /\ Under(p).hash = h
          /\ Under(p).done <=> \/ pc[p] = "displaced"
                               \/ pc[p] = "unindex" /\ req[p].how = "Quarantined"
      BY <3>1, UnderGuard
    <3>4. /\ req[p] # None /\ req[p].how \in Publications \cup Removals
          /\ req[p].how \in Publications =>
               req[p].loc.tier = IF req[p].how = "cache" THEN "cache" ELSE "uploads"
      BY <2>2, <3>1, Holder, ConstantsAssumption DEF ServiceInv, Quiet, ConstantsAssumption
    <3>5. pc[p] = "publish" => req[p].how \in Publications
      BY <2>2, <3>4 DEF GuardInv, Shape, Publications, Removals
    <3>6. CASE pc[p] = "publish" /\ index[h] = None
      <4>1. index'[h] # None /\ index'[h].loc = req[p].loc
        BY <2>6, <3>1, <3>6 DEF Busy
      <4>2. /\ Held(h) = "absent"
            /\ Held(h)' = IF req[p].how = "cache" THEN "cached" ELSE "uploaded"
        BY <2>1, <2>10, <3>4, <3>5, <3>6, <4>1 DEF Held, Origin
      <4>3. Held(h)' \in Service!Effect(req[p].how, Held(h))
        BY <3>5, <3>6, <4>2 DEF Service!Effect, Publications
      <4> QED BY <3>3, <3>6, <4>3
    <3>7. CASE pc[p] = "publish" /\ index[h] # None
      <4>1. /\ index[h].loc.tier = "cache" /\ req[p].loc.tier = "uploads"
            /\ files[h] = {index[h].loc, req[p].loc}
        BY <3>1, <3>7 DEF Busy, Admitted
      <4>2. index'[h] # None /\ index'[h].loc = req[p].loc
        BY <2>7, <4>1
      <4>3. req[p].how = "upload"
        BY <3>4, <3>5, <3>7, <4>1 DEF Publications
      <4>4. Held(h) = "cached" /\ Held(h)' = "uploaded"
        BY <2>1, <2>10, <3>7, <4>1, <4>2 DEF Held, Origin
      <4>5. Held(h)' \in Service!Effect(req[p].how, Held(h))
        BY <4>3, <4>4 DEF Service!Effect
      <4> QED BY <3>3, <3>7, <4>5
    <3>8. CASE pc[p] = "displaced"
      <4>1. /\ index[h] # None /\ index[h].loc = req[p].loc
            /\ cur[p].loc.tier = "cache" /\ req[p].loc.tier = "uploads"
            /\ files[h] = {cur[p].loc, req[p].loc}
        BY <3>1, <3>8 DEF Busy
      <4>2. index'[h] # None /\ index'[h].loc = req[p].loc
        BY <2>7, <4>1
      <4> QED BY <2>1, <4>1, <4>2 DEF Held
    <3>9. CASE pc[p] = "unindex"
      <4>1. files[h] = {} /\ index[h] = cur[p] /\ cur[p] # None
        BY <2>2, <3>1, <3>9 DEF Busy, GuardInv, Shape
      <4>2. req[p].how \in Removals /\ req[p].how # "Quarantined"
        BY <2>2, <2>10, <3>1, <3>9 DEF GuardInv, Shape, ServiceInv, Disposal
      <4>3. Held(h) \in {"cached", "uploaded"} /\ Held(h)' = "absent"
        BY <2>1, <2>5, <2>10, <4>1 DEF Held
      <4>4. Held(h)' \in Service!Effect(req[p].how, Held(h))
        BY <4>2, <4>3 DEF Service!Effect, Removals
      <4> QED BY <3>3, <3>9, <4>2, <4>4
    <3> QED BY <3>2, <3>6, <3>7, <3>8, <3>9
  <2> QED BY <2>8, <2>9, <2>10
<1>4. Status' \in [Hashes -> {"absent", "cached", "uploaded", "barred"}]
  BY DEF Status, Held
<1>5. \A h \in Hashes :
        \/ Status'[h] = Status[h]
        \/ \E p \in Tasks : /\ Pending[p] # None /\ ~Pending[p].done
                            /\ Pending[p].hash = h
                            /\ Status'[h] \in Service!Effect(Pending[p].how, Status[h])
  BY <1>3 DEF Status, Pending
<1>6. Service!Crash
  BY <1>2, <1>4, <1>5 DEF Service!Crash, Status, Pending
<1> QED BY <1>1, <1>6 DEF Service!Next

LEMMA NextServes ==
    ASSUME LocalOnly, ServiceInv, [Next]_vars
    PROVE  ServiceInv' /\ (Service!Next \/ UNCHANGED Service!serviceVars)
<1>0. LocalInv'
  BY NextKeepsLocalInv DEF ServiceInv
<1>1. ASSUME NEW p \in Requests, Request(p)
      PROVE  Disposal' /\ Service!Next
  BY <1>1, StartsServe DEF Tasks
<1>2. ASSUME NEW p \in Tasks, Step(p)
      PROVE  Disposal' /\ (Service!Next \/ UNCHANGED Service!serviceVars)
  BY <1>2, NeverLocal, LockServes, PublicationServes, RemovalServes DEF Step, ServiceInv
<1>3. CASE NextItem
  BY <1>0, <1>3, StartsServe DEF Tasks, ServiceInv
<1>4. CASE TakeSuperseded \/ NextPass \/ Tick \/ vars' = vars
  BY <1>0, <1>4, JobsServe DEF ServiceInv
<1>5. CASE Restart
  BY <1>0, <1>5, RestartServes DEF ServiceInv
<1>6. ~S3Recovery /\ ~RunDetached /\ \A p \in Requests : ~Cancel(p)
  BY NeverLocal DEF ServiceInv, Tasks
<1> QED BY <1>0, <1>1, <1>2, <1>3, <1>4, <1>5, <1>6 DEF Next, CleanupJob, ServiceInv

\* Without a bucket, uploads, cache fills, deletions, reports and evictions are
\* atomic operations on a hash, in every interleaving and across crashes at any
\* step, although each of them touches files and index in several steps.
THEOREM LocalImplementsService == LocalOnly => (Spec => ImplementsService)
<1> SUFFICES ASSUME LocalOnly PROVE Spec => ImplementsService
  OBVIOUS
<1>1. Init => ServiceInv /\ Service!Init
  <2> SUFFICES ASSUME Init PROVE ServiceInv /\ Service!Init
    OBVIOUS
  <2>1. LocalInv
    BY InitLocalInv
  <2>2. Disposal
    BY DEF Init, Disposal
  <2>3. \A h \in Hashes : index[h] = None
    BY DEF LocalOnly, Init, ScannedEntries, At
  <2>4. Status = [h \in Hashes |-> "absent"] /\ Pending = [p \in Tasks |-> None]
    BY <2>3 DEF Init, Status, Pending, Held, Under
  <2>5. Service!Init
    BY <2>4 DEF Service!Init, Status, Pending
  <2> QED BY <2>1, <2>2, <2>5 DEF ServiceInv
<1>2. ServiceInv /\ [Next]_vars => ServiceInv' /\ [Service!Next]_(Service!serviceVars)
  BY NextServes
<1> QED BY <1>1, <1>2, PTL DEF Spec, ImplementsService, Service!Spec

-----------------------------------------------------------------------------
(* With a bucket that is listed at startup, whatever else fails.            *)

\* The recovery job never has anything to do.
Listable == ~S3Configured \/ "outage" \notin Faults
Steady == s3up = S3Configured /\ ~syncing /\ merge = None

\* What the holder of a guard knows of the index: nobody else changes the entry.
Tracks(p) ==
    LET entry == index[req[p].hash]
    IN  /\ pc[p] \in {"unlink", "quarantine", "unindex"} \/ (pc[p] = "sweep" /\ cur[p] # None)
             => entry = cur[p] /\ req[p].want \in {None, cur[p]}
        /\ pc[p] = "displaced" => entry # None /\ entry.loc = req[p].loc

TrackInv == GuardInv /\ Steady /\ \A p \in Tasks : Tracks(p)

\* A step of a task changes its own locals, and the index and the disk only for
\* the hash whose guard it holds.
LEMMA StepIsLocal ==
    ASSUME GuardInv, NEW p \in Tasks, Step(p)
    PROVE  /\ \A q \in Tasks \ {p} : pc'[q] = pc[q] /\ req'[q] = req[q] /\ cur'[q] = cur[q]
           /\ UNCHANGED <<index, files>> \/ Guarded(p)
           /\ \A h \in Hashes \ {req[p].hash} : index'[h] = index[h] /\ files'[h] = files[h]
           /\ UNCHANGED <<detached, s3up, syncing, listing, merge, clock, phase, todo>>
<1> USE DEF GuardInv, TypeOK
<1>1. CASE Find(p) \/ Lock(p)
  BY <1>1 DEF Find, Lock, jobVars, syncVars
<1>2. CASE CheckPublication(p) \/ ClearTarget(p) \/ Rename(p) \/ Put(p)
  BY <1>2 DEF CheckPublication, ClearTarget, Rename, Put, Finish, GoTo, Guarded, jobVars, syncVars
<1>3. CASE PublishMetadata(p) \/ RemoveDisplaced(p)
  BY <1>3 DEF PublishMetadata, RemoveDisplaced, Finish, GoTo, Guarded, jobVars, syncVars
<1>4. CASE ReadCurrent(p) \/ Unlink(p) \/ Quarantine(p)
  BY <1>4 DEF ReadCurrent, Unlink, Quarantine, Finish, GoTo, Guarded, jobVars, syncVars
<1>5. CASE Sweep(p) \/ Unindex(p) \/ Reconcile(p)
  BY <1>5 DEF Sweep, Unindex, Reconcile, Finish, GoTo, Guarded, jobVars, syncVars
<1> QED BY <1>1, <1>2, <1>3, <1>4, <1>5 DEF Step

\* Two guarded tasks work on different hashes.
LEMMA GuardsApart ==
    ASSUME GuardInv, NEW p \in Tasks, NEW q \in Tasks, Guarded(p), Guarded(q), p # q
    PROVE  req[q].hash \in Hashes \ {req[p].hash}
  BY GuardedReq DEF GuardInv, GuardExact

\* Another task's step leaves what a guard's holder knows.
LEMMA StepTracksOthers ==
    ASSUME GuardInv, NEW p \in Tasks, Step(p), NEW q \in Tasks \ {p}, Tracks(q)
    PROVE  Tracks(q)'
<1>1. pc'[q] = pc[q] /\ req'[q] = req[q] /\ cur'[q] = cur[q]
  BY StepIsLocal
<1>2. CASE ~Guarded(q)
  BY <1>1, <1>2 DEF Tracks, Guarded
<1>3. CASE Guarded(q)
  <2>1. index'[req[q].hash] = index[req[q].hash]
    BY <1>3, StepIsLocal, GuardsApart
  <2> QED BY <1>1, <2>1 DEF Tracks
<1> QED BY <1>2, <1>3

\* A task that publishes or reads an entry learns what is indexed.
LEMMA StepTracks ==
    ASSUME TrackInv, GuardInv', NEW p \in Tasks, Step(p)
    PROVE  Tracks(p)'
<1> USE ConstantsAssumption DEF ConstantsAssumption
<1> USE DEF TrackInv, GuardInv, TypeOK
<1>f. ASSUME Finish(p) PROVE Tracks(p)'
  BY <1>f DEF Finish, Tracks
<1>r. pc[p] # "idle" /\ pc[p] # "find" => req[p] \in Reqs /\ req[p].hash \in Hashes
  BY DEF Shape, Reqs
<1>1. CASE Find(p)
  BY <1>1 DEF Find, Tracks
<1>2. CASE Lock(p)
  BY <1>2 DEF Lock, FirstStep, Tracks
<1>3. CASE CheckPublication(p) \/ ClearTarget(p) \/ Rename(p) \/ Put(p)
  BY <1>3, <1>f DEF CheckPublication, ClearTarget, Rename, Put, GoTo, Tracks
<1>4. CASE PublishMetadata(p)
  <2>1. CASE Finish(p)
    BY <2>1, <1>f
  <2>2. CASE ~Finish(p)
    <3>0. clock \in 0..clock
      OBVIOUS
    <3> PICK c \in 0..clock : index' = [index EXCEPT ![req[p].hash] = [loc |-> req[p].loc, created |-> c]]
      BY <1>4, <2>2, <3>0 DEF PublishMetadata
    <3>1. req[p].loc \in Locations
      BY <1>4, GuardedReq DEF PublishMetadata, Guarded, Shape
    <3>2. index'[req[p].hash] = [loc |-> req[p].loc, created |-> c]
      BY <1>4, <1>r DEF PublishMetadata
    <3>c. c \in 0..MaxClock
      OBVIOUS
    <3>3. [loc |-> req[p].loc, created |-> c] \in Entries
      BY <3>1, <3>c DEF Entries
    <3>4. pc' = [pc EXCEPT ![p] = "displaced"] /\ req' = req
      BY <1>4, <2>2 DEF PublishMetadata
    <3> QED BY <3>2, <3>3, <3>4 DEF Tracks
  <2> QED BY <2>1, <2>2
<1>5. CASE RemoveDisplaced(p) \/ Unindex(p) \/ Reconcile(p)
  BY <1>5, <1>f DEF RemoveDisplaced, Unindex, Reconcile
<1>6. CASE ReadCurrent(p)
  <2>1. cur[p] = None
    BY <1>6 DEF ReadCurrent, Shape
  <2>2. CASE GoTo(p, "sweep")
    BY <2>1, <2>2 DEF GoTo, Tracks
  <2>3. CASE ~Finish(p) /\ ~GoTo(p, "sweep")
    BY <1>6, <2>3, <1>r DEF ReadCurrent, Tracks, Reqs
  <2> QED BY <1>f, <2>2, <2>3
<1>7. CASE Unlink(p)
  BY <1>7, <1>f DEF Unlink, GoTo, Tracks, Shape
<1>8. CASE Quarantine(p)
  BY <1>8, <1>f DEF Quarantine, GoTo, Tracks, Shape
<1>9. CASE Sweep(p)
  BY <1>9, <1>f DEF Sweep, GoTo, Tracks, Shape
<1> QED BY <1>1, <1>2, <1>3, <1>4, <1>5, <1>6, <1>7, <1>8, <1>9 DEF Step

\* What a task that begins, is dropped or waits knows: nothing.
LEMMA UnguardedTracks ==
    ASSUME TrackInv, NEW p \in Tasks, UNCHANGED index, ~Guarded(p)',
           \A q \in Tasks \ {p} : pc'[q] = pc[q] /\ req'[q] = req[q] /\ cur'[q] = cur[q]
    PROVE  \A q \in Tasks : Tracks(q)'
<1>1. Tracks(p)'
  BY DEF Tracks, Guarded
<1>2. ASSUME NEW q \in Tasks \ {p} PROVE Tracks(q)'
  BY <1>2 DEF TrackInv, Tracks
<1> QED BY <1>1, <1>2

LEMMA NextTrackInv ==
    ASSUME Listable, TrackInv, [Next]_vars
    PROVE  TrackInv'
<1> USE ConstantsAssumption DEF ConstantsAssumption
<1>g. GuardInv /\ GuardInv'
  BY NextKeepsGuardInv DEF TrackInv
<1>s. Steady'
  <2>1. CASE Restart
    BY <2>1 DEF Restart, Listable, Listed, Steady
  <2>2. CASE ~Restart
    <3>1. S3Recovery => FALSE
      BY DEF S3Recovery, SyncList, SyncContains, SyncInsert, SyncDone, TrackInv, Steady
    <3>2. ASSUME NEW p \in Tasks, Step(p) PROVE Steady'
      BY <3>2, <1>g, StepIsLocal DEF TrackInv, Steady
    <3>3. ASSUME NEW p \in Requests, Request(p) \/ Cancel(p) PROVE Steady'
      <4>1. UNCHANGED syncVars
        BY <3>3 DEF Request, StartPublish, StartRemove, StartLookup, Cancel
      <4> QED BY <4>1 DEF syncVars, TrackInv, Steady
    <3>4. CleanupJob \/ RunDetached \/ Tick \/ UNCHANGED vars => Steady'
      BY DEF CleanupJob, TakeSuperseded, NextItem, NextPass, RunDetached, Tick, vars, syncVars,
             TrackInv, Steady
    <3> QED BY <2>2, <3>1, <3>2, <3>3, <3>4 DEF Next
  <2> QED BY <2>1, <2>2
<1>7. \A p \in Tasks : Tracks(p)'
  <2>1. ASSUME NEW p \in Requests, Request(p) \/ Cancel(p) PROVE \A q \in Tasks : Tracks(q)'
    <3>1. p \in Tasks /\ UNCHANGED index /\ ~Guarded(p)'
      BY <2>1, <1>g DEF Tasks, Request, StartPublish, StartRemove, StartLookup, Begin, Cancel, Guarded,
                   GuardInv, TypeOK
    <3>2. \A q \in Tasks \ {p} : pc'[q] = pc[q] /\ req'[q] = req[q] /\ cur'[q] = cur[q]
      BY <2>1, <1>g DEF Request, StartPublish, StartRemove, StartLookup, Begin, Cancel,
                   GuardInv, TypeOK
    <3> QED BY <3>1, <3>2, UnguardedTracks
  <2>2. ASSUME NEW p \in Tasks, Step(p) PROVE \A q \in Tasks : Tracks(q)'
    BY <2>2, <1>g, StepTracks, StepTracksOthers DEF TrackInv
  <2>3. CASE NextItem
    <3>1. /\ Cleaner \in Tasks /\ UNCHANGED index /\ ~Guarded(Cleaner)'
          /\ \A q \in Tasks \ {Cleaner} : pc'[q] = pc[q] /\ req'[q] = req[q] /\ cur'[q] = cur[q]
      BY <2>3, <1>g DEF Tasks, NextItem, Begin, Guarded, GuardInv, TypeOK
    <3> QED BY <3>1, UnguardedTracks
  <2>4. CASE TakeSuperseded \/ NextPass \/ RunDetached \/ Tick \/ UNCHANGED vars
    <3>1. UNCHANGED <<index, pc, req, cur>>
      BY <2>4 DEF TakeSuperseded, NextPass, RunDetached, Tick, vars, taskVars
    <3> QED BY <3>1 DEF TrackInv, Tracks
  <2>5. CASE S3Recovery
    BY <2>5 DEF S3Recovery, SyncList, SyncContains, SyncInsert, SyncDone, TrackInv, Steady
  <2>6. CASE Restart
    BY <2>6 DEF Restart, Tracks
  <2> QED BY <2>1, <2>2, <2>3, <2>4, <2>5, <2>6 DEF Next, CleanupJob
<1> QED BY <1>g, <1>s, <1>7 DEF TrackInv

LEMMA InitTrackInv == Listable /\ Init => TrackInv
<1> SUFFICES ASSUME Listable, Init PROVE TrackInv
  OBVIOUS
<1>1. Steady
  BY ConstantsAssumption DEF Init, Listable, Listed, Steady, ConstantsAssumption
<1>2. \A p \in Tasks : Tracks(p)
  BY DEF Init, Tracks
<1> QED BY <1>1, <1>2, InitGuardInv DEF TrackInv

\* From the metadata read to the index mutation nobody else changes the entry,
\* whatever fails and whoever is dropped (remove_indexed_blob): with a bucket or
\* without, as long as the bucket can be listed when the process starts.
THEOREM GuardSpansEveryRemoval == Listable => (Spec => []GuardSpansRemoval)
<1> SUFFICES ASSUME Listable PROVE Spec => []GuardSpansRemoval
  OBVIOUS
<1>1. TrackInv => GuardSpansRemoval
  BY DEF TrackInv, Tracks, GuardSpansRemoval
<1>2. Init => TrackInv
  BY InitTrackInv
<1>3. TrackInv /\ [Next]_vars => TrackInv'
  BY NextTrackInv
<1> QED BY <1>1, <1>2, <1>3, PTL DEF Spec

\* `expect("published blob must remain indexed")` never fires.
THEOREM PublishedBlobsStay == Listable => (Spec => []PublishedStaysIndexed)
<1> SUFFICES ASSUME Listable PROVE Spec => []PublishedStaysIndexed
  OBVIOUS
<1>1. TrackInv => PublishedStaysIndexed
  BY DEF TrackInv, Tracks, PublishedStaysIndexed
<1>2. Init => TrackInv
  BY InitTrackInv
<1>3. TrackInv /\ [Next]_vars => TrackInv'
  BY NextTrackInv
<1> QED BY <1>1, <1>2, <1>3, PTL DEF Spec

-----------------------------------------------------------------------------
(* Deletions sweep the bucket.                                              *)

\* Without a bucket nothing is stored there.
NoBucketNoCopies ==
    ~S3Configured =>
        /\ \A h \in Hashes : At(files[h], "s3") = {}
        /\ \A p \in Tasks : req[p] # None =>
             /\ req[p].how # "discover"
             /\ req[p].how \in Publications => req[p].loc.tier # "s3"

\* Only a quarantine moves a file; a deletion is past its sweep at the last step.
Sweeps(p) ==
    /\ pc[p] = "quarantine" => req[p].how = "Quarantined"
    /\ pc[p] = "unindex" /\ SweepsBackend(req[p].how) => At(files[req[p].hash], "s3") = {}

SweepInv ==
    /\ TrackInv
    /\ detached = {}
    /\ NoBucketNoCopies
    /\ \A p \in Tasks : Sweeps(p)

\* The faults after which a deletion that reaches its last step is complete.
Uninterrupted == Listable /\ Faults \cap {"crash", "cancel"} = {}

LEMMA InitSweepInv == Uninterrupted /\ Init => SweepInv
<1> SUFFICES ASSUME Uninterrupted, Init PROVE SweepInv
  OBVIOUS
<1>1. TrackInv
  BY InitTrackInv DEF Uninterrupted
<1>2. NoBucketNoCopies
  BY DEF Init, NoBucketNoCopies, At
<1>3. detached = {} /\ \A p \in Tasks : Sweeps(p)
  BY DEF Init, Sweeps
<1> QED BY <1>1, <1>2, <1>3 DEF SweepInv

\* What is on disk for the hash of a task, after a step of another one.
LEMMA StepSweepsOthers ==
    ASSUME GuardInv, NEW p \in Tasks, Step(p), NEW q \in Tasks \ {p}, Sweeps(q)
    PROVE  Sweeps(q)'
<1>1. pc'[q] = pc[q] /\ req'[q] = req[q]
  BY StepIsLocal
<1>2. CASE ~Guarded(q)
  BY <1>1, <1>2 DEF Sweeps, Guarded
<1>3. CASE Guarded(q)
  <2>1. files'[req[q].hash] = files[req[q].hash]
    BY <1>3, StepIsLocal, GuardsApart
  <2> QED BY <1>1, <2>1 DEF Sweeps
<1> QED BY <1>2, <1>3

LEMMA StepSweeps ==
    ASSUME SweepInv, NEW p \in Tasks, Step(p)
    PROVE  Sweeps(p)'
<1> USE DEF SweepInv, TrackInv, GuardInv, TypeOK
<1>f. ASSUME Finish(p) PROVE Sweeps(p)'
  BY <1>f DEF Finish, Sweeps
<1>g. ASSUME NEW label \in Labels \ {"quarantine", "unindex"}, pc' = [pc EXCEPT ![p] = label]
      PROVE  Sweeps(p)'
  BY <1>g DEF Sweeps
<1>1. CASE Find(p)
  BY <1>1, <1>g DEF Find, Labels
<1>2. CASE Lock(p)
  <2>1. FirstStep(req[p].how) \in Labels \ {"quarantine", "unindex"}
    BY DEF FirstStep, Labels
  <2> QED BY <1>2, <2>1, <1>g DEF Lock
<1>3. CASE CheckPublication(p) \/ ClearTarget(p) \/ Rename(p) \/ Put(p)
  BY <1>3, <1>f, <1>g DEF CheckPublication, ClearTarget, Rename, Put, GoTo, Labels
<1>4. CASE PublishMetadata(p) \/ RemoveDisplaced(p) \/ Unindex(p) \/ Reconcile(p)
  BY <1>4, <1>f, <1>g DEF PublishMetadata, RemoveDisplaced, Unindex, Reconcile, Labels
<1>5. CASE ReadCurrent(p)
  <2>1. CASE Finish(p) \/ GoTo(p, "sweep")
    BY <2>1, <1>f, <1>g DEF GoTo, Labels
  <2>2. CASE ~Finish(p) /\ ~GoTo(p, "sweep")
    <3>1. /\ pc' = [pc EXCEPT ![p] = IF req[p].how = "Quarantined" THEN "quarantine" ELSE "unlink"]
          /\ req' = req
      BY <1>5, <2>2 DEF ReadCurrent
    <3> QED BY <3>1 DEF Sweeps
  <2> QED BY <2>1, <2>2
<1>6. CASE Unlink(p)
  <2>1. CASE GoTo(p, "sweep")
    BY <2>1, <1>g DEF GoTo, Labels
  <2>2. CASE GoTo(p, "unindex") /\ ~(SweepsBackend(req[p].how) /\ S3Configured)
    <3>1. req[p].hash \in Hashes
      BY <1>6, GuardedReq DEF Unlink, Guarded
    <3>2. ~S3Configured => At(files[req[p].hash], "s3") = {}
      BY <3>1 DEF NoBucketNoCopies
    <3>3. files'[req[p].hash] \subseteq files[req[p].hash]
      BY <1>6, <3>1 DEF Unlink
    <3>4. ~S3Configured => At(files'[req[p].hash], "s3") = {}
      BY <3>2, <3>3 DEF At
    <3> QED BY <2>2, <3>4 DEF GoTo, Sweeps
  <2> QED BY <1>6, <1>f, <2>1, <2>2 DEF Unlink
<1>7. CASE Quarantine(p)
  <2>1. req[p].how = "Quarantined"
    BY <1>7 DEF Quarantine, Sweeps
  <2> QED BY <1>7, <2>1, <1>f DEF Quarantine, GoTo, Sweeps, SweepsBackend
<1>8. CASE Sweep(p)
  <2>1. CASE Finish(p)
    BY <2>1, <1>f
  <2>2. CASE ~Finish(p)
    <3>1. req[p].hash \in Hashes
      BY <1>8, GuardedReq DEF Sweep, Guarded
    <3>2. /\ files' = [files EXCEPT ![req[p].hash] = @ \ S3Copies(req[p].hash)]
          /\ GoTo(p, "unindex")
      BY <1>8, <2>2 DEF Sweep
    <3>3. At(files'[req[p].hash], "s3") = {}
      BY <3>1, <3>2 DEF S3Copies, At
    <3> QED BY <3>2, <3>3 DEF GoTo, Sweeps
  <2> QED BY <2>1, <2>2
<1> QED BY <1>1, <1>2, <1>3, <1>4, <1>5, <1>6, <1>7, <1>8 DEF Step

\* Without a bucket no task finds or stores an object.
LEMMA StepNoBucket ==
    ASSUME SweepInv, NEW p \in Tasks, Step(p)
    PROVE  NoBucketNoCopies'
<1> USE DEF SweepInv, TrackInv, GuardInv, TypeOK
<1> SUFFICES ASSUME ~S3Configured PROVE NoBucketNoCopies'
  BY DEF NoBucketNoCopies
<1>0. NoBucketNoCopies
  OBVIOUS
<1>1. ~Find(p)
  BY <1>0 DEF Find, NoBucketNoCopies, Shape
<1>2. \A q \in Tasks : req'[q] = req[q] \/ req'[q] = None
  <2>1. req' = req \/ Finish(p)
    BY <1>1 DEF Step, Lock, CheckPublication, ClearTarget, Rename, Put, PublishMetadata,
           RemoveDisplaced, ReadCurrent, Unlink, Quarantine, Sweep, Unindex, Reconcile, GoTo
  <2> QED BY <2>1 DEF Finish
<1>3. \A h \in Hashes : At(files'[h], "s3") = {}
  <2>1. CASE Rename(p) \/ Put(p)
    <3>1. /\ req[p].hash \in Hashes /\ req[p].loc.tier # "s3"
      BY <2>1, <1>0, GuardedReq DEF Rename, Put, Guarded, NoBucketNoCopies, Shape
    <3>2. files' = files \/ files' = [files EXCEPT ![req[p].hash] = @ \cup {req[p].loc}]
      BY <2>1 DEF Rename, Put
    <3> QED BY <1>0, <3>1, <3>2 DEF NoBucketNoCopies, At
  <2>2. CASE ~(Rename(p) \/ Put(p))
    <3>1. \/ files' = files
          \/ \E gone : files' = [files EXCEPT ![req[p].hash] = @ \ gone]
      BY <1>1, <2>2 DEF Step, Lock, CheckPublication, ClearTarget, PublishMetadata,
           RemoveDisplaced, ReadCurrent, Unlink, Quarantine, Sweep, Unindex, Reconcile
    <3> QED BY <1>0, <3>1 DEF NoBucketNoCopies, At
  <2> QED BY <2>1, <2>2
<1> QED BY <1>0, <1>2, <1>3 DEF NoBucketNoCopies

\* A step in which a task only begins, or no task takes part.
LEMMA IdleStepSweeps ==
    ASSUME SweepInv, UNCHANGED files,
           \A q \in Tasks : \/ ~Guarded(q)'
                            \/ pc'[q] = pc[q] /\ req'[q] = req[q]
    PROVE  \A q \in Tasks : Sweeps(q)'
  BY DEF SweepInv, Sweeps, Guarded

LEMMA NextSweepInv ==
    ASSUME Uninterrupted, SweepInv, [Next]_vars
    PROVE  SweepInv'
<1> USE DEF SweepInv, Uninterrupted
<1>t. TrackInv /\ TrackInv' /\ GuardInv /\ GuardInv'
  BY NextTrackInv DEF TrackInv
<1>x. ~Restart /\ (\A p \in Requests : ~Cancel(p)) /\ ~RunDetached
  BY DEF Restart, Cancel, RunDetached
<1>1. ASSUME NEW p \in Tasks, Step(p) PROVE SweepInv'
  <2>1. \A q \in Tasks : Sweeps(q)'
    BY <1>1, <1>t, StepSweeps, StepSweepsOthers
  <2>2. NoBucketNoCopies' /\ detached' = {}
    BY <1>1, <1>t, StepNoBucket, StepIsLocal
  <2> QED BY <1>t, <2>1, <2>2
<1>2. ASSUME NEW p \in Tasks, NEW r \in Reqs \cup {None}, ~Guarded(p)',
             UNCHANGED <<files, detached>>,
             \A q \in Tasks \ {p} : pc'[q] = pc[q] /\ req'[q] = req[q],
             req'[p] = r,
             r # None /\ ~S3Configured =>
               /\ r.how # "discover"
               /\ r.how \in Publications => r.loc.tier # "s3"
      PROVE  SweepInv'
  <2>1. \A q \in Tasks : Sweeps(q)'
    BY <1>2, IdleStepSweeps
  <2>2. NoBucketNoCopies'
    BY <1>2 DEF NoBucketNoCopies
  <2> QED BY <1>t, <1>2, <2>1, <2>2
<1>3. ASSUME NEW p \in Requests, Request(p) PROVE SweepInv'
  <2>0. p \in Tasks
    BY DEF Tasks
  <2>1. /\ ~Guarded(p)' /\ UNCHANGED <<files, detached>>
        /\ \A q \in Tasks \ {p} : pc'[q] = pc[q] /\ req'[q] = req[q]
    BY <1>3, <1>t, <2>0 DEF Request, StartPublish, StartRemove, StartLookup, Begin, Guarded,
           GuardInv, TypeOK
  <2>2. ASSUME NEW h \in Hashes, NEW how \in Publications, NEW n \in Names,
               StartPublish(p, h, how, n), ~S3Configured
        PROVE  req'[p].how # "discover" /\ req'[p].loc.tier # "s3"
    <3> DEFINE r == [how |-> how, hash |-> h, loc |-> Target(how, n), want |-> None]
    <3>1. r.how = how /\ r.loc = Target(how, n) /\ Target(how, n).tier # "s3"
      BY <2>2 DEF Target
    <3>2. req'[p] = r
      BY <2>0, <2>2, <1>t DEF StartPublish, Begin, GuardInv, TypeOK
    <3> HIDE DEF r
    <3> QED BY <3>1, <3>2 DEF Publications
  <2>3. ASSUME NEW h \in Hashes, NEW how \in Removals, StartRemove(p, h, how)
        PROVE  req'[p].how \notin Publications \cup {"discover"}
    BY <2>0, <2>3, <1>t DEF StartRemove, Begin, GuardInv, TypeOK, Removals, Publications
  <2>4. ASSUME NEW h \in Hashes, StartLookup(p, h) PROVE S3Configured
    BY <2>4 DEF StartLookup
  <2>5. req'[p] # None /\ ~S3Configured =>
               /\ req'[p].how # "discover"
               /\ req'[p].how \in Publications => req'[p].loc.tier # "s3"
    BY <1>3, <2>2, <2>3, <2>4 DEF Request
  <2>6. req'[p] \in Reqs \cup {None}
    BY <2>0, <1>t DEF GuardInv, TypeOK
  <2> QED BY <2>0, <2>1, <2>5, <2>6, <1>2
<1>4. CASE NextItem
  <2>1. PICK r \in todo : todo' = todo \ {r} /\ Begin(Cleaner, r)
    BY <1>4 DEF NextItem
  <2>2. r \in Reqs /\ r.how \notin Publications \cup {"discover"}
    BY <1>t DEF GuardInv, Shape, TypeOK, Publications
  <2>3. /\ Cleaner \in Tasks /\ ~Guarded(Cleaner)' /\ UNCHANGED <<files, detached>>
        /\ \A q \in Tasks \ {Cleaner} : pc'[q] = pc[q] /\ req'[q] = req[q]
        /\ req'[Cleaner] = r
    BY <1>4, <1>t, <2>1 DEF Tasks, NextItem, Begin, Guarded, GuardInv, TypeOK
  <2> QED BY <1>2, <2>2, <2>3
<1>5. CASE TakeSuperseded \/ NextPass \/ S3Recovery \/ Tick \/ UNCHANGED vars
  <2>1. UNCHANGED <<files, pc, req, detached>>
    BY <1>5 DEF TakeSuperseded, NextPass, S3Recovery, SyncList, SyncContains, SyncInsert, SyncDone,
           Tick, vars, taskVars
  <2>2. \A q \in Tasks : Sweeps(q)'
    BY <2>1, IdleStepSweeps
  <2>3. NoBucketNoCopies'
    BY <2>1 DEF NoBucketNoCopies
  <2> QED BY <1>t, <2>1, <2>2, <2>3
<1> QED BY <1>x, <1>1, <1>3, <1>4, <1>5 DEF Next, CleanupJob

\* A requested or reported removal that reaches its last step leaves neither an
\* entry nor a bucket object of the hash (remove_indexed_blob, delete_matching),
\* while other tasks publish, look up and evict the same hash and requests fail.
THEOREM DeletionsAreComplete == Uninterrupted => (Spec => DeleteIsComplete)
<1> SUFFICES ASSUME Uninterrupted PROVE Spec => DeleteIsComplete
  OBVIOUS
<1> DEFINE Done(p) == pc[p] = "unindex" /\ pc'[p] = "idle" /\ SweepsBackend(req[p].how)
<1>1. ASSUME SweepInv, [Next]_vars, NEW p \in Tasks, Done(p)
      PROVE  index'[req[p].hash] = None /\ At(files'[req[p].hash], "s3") = {}
  <2>0. GuardInv /\ Tracks(p) /\ Sweeps(p) /\ pc[p] = "unindex" /\ req[p].hash \in Hashes
    BY <1>1, GuardedReq DEF SweepInv, TrackInv, Guarded
  <2>1. Unindex(p)
    <3>1. ~Restart /\ (\A q \in Requests : ~Cancel(q))
      BY DEF Restart, Cancel, Uninterrupted
    <3>2. ASSUME NEW q \in Requests, Request(q) PROVE FALSE
      BY <1>1, <2>0, <3>2 DEF Request, StartPublish, StartRemove, StartLookup, Begin, GuardInv, TypeOK
    <3>3. ~NextItem
      BY <1>1, <2>0 DEF NextItem, Begin, GuardInv, TypeOK, Tasks
    <3>4. TakeSuperseded \/ NextPass \/ S3Recovery \/ RunDetached \/ Tick \/ UNCHANGED vars => FALSE
      BY <1>1, <2>0 DEF TakeSuperseded, NextPass, S3Recovery, SyncList, SyncContains, SyncInsert,
             SyncDone, RunDetached, Tick, vars, taskVars
    <3>5. ASSUME NEW q \in Tasks, Step(q) PROVE q = p
      BY <1>1, <2>0, <3>5, StepIsLocal
    <3>6. Step(p) => Unindex(p)
      BY <2>0 DEF Step, Find, Lock, CheckPublication, ClearTarget, Rename, Put, PublishMetadata,
             RemoveDisplaced, ReadCurrent, Unlink, Quarantine, Sweep, Reconcile
    <3> QED BY <1>1, <3>1, <3>2, <3>3, <3>4, <3>5, <3>6 DEF Next, CleanupJob
  <2>2. index[req[p].hash] = cur[p] /\ At(files[req[p].hash], "s3") = {}
    BY <1>1, <2>0 DEF Tracks, Sweeps
  <2>3. cur[p] # None
    BY <2>0 DEF GuardInv, Shape
  <2> QED BY <2>0, <2>1, <2>2, <2>3 DEF Unindex, GuardInv, TypeOK
<1>2. SweepInv /\ [Next]_vars =>
        [\A p \in Tasks : Done(p) => index'[req[p].hash] = None /\ At(files'[req[p].hash], "s3") = {}]_vars
  BY <1>1
<1>3. Init => SweepInv
  BY InitSweepInv
<1>4. SweepInv /\ [Next]_vars => SweepInv'
  BY NextSweepInv
<1> QED BY <1>2, <1>3, <1>4, PTL DEF Spec, DeleteIsComplete

-----------------------------------------------------------------------------
(* Uploads keep their place in the index.                                   *)

\* Where the copies come from that are about to be indexed.
Origins ==
    /\ \A p \in Tasks : req[p] # None =>
         /\ req[p].how = "upload" => req[p].loc.tier # "cache"
         /\ req[p].how = "discover" /\ req[p].loc # None => req[p].loc.tier = "s3"
    /\ \A c \in listing : c.loc.tier = "s3"
    /\ merge # None => merge.loc.tier = "s3"

OriginInv == GuardInv /\ Origins

\* What a task asks for.
Honest(r) ==
    /\ r.how = "upload" => r.loc.tier # "cache"
    /\ r.how = "discover" /\ r.loc # None => r.loc.tier = "s3"

LEMMA NextOriginInv ==
    ASSUME OriginInv, [Next]_vars
    PROVE  OriginInv'
<1> USE DEF OriginInv
<1>t. GuardInv /\ GuardInv'
  BY NextKeepsGuardInv
<1>r. ASSUME NEW p \in Tasks, \A q \in Tasks \ {p} : req'[q] = req[q] \/ req'[q] = None,
             req'[p] # None /\ req'[p] # req[p] => Honest(req'[p]),
             UNCHANGED <<listing, merge>>
      PROVE  OriginInv'
  BY <1>t, <1>r DEF Origins, Honest
<1>1. ASSUME NEW p \in Tasks, Step(p) PROVE OriginInv'
  <2>1. /\ \A q \in Tasks \ {p} : req'[q] = req[q]
        /\ UNCHANGED <<listing, merge>>
    BY <1>1, <1>t, StepIsLocal
  <2>2. CASE Find(p)
    <3>1. /\ pc[p] = "find" /\ req[p] \in Reqs /\ req[p].how = "discover"
      BY <2>2, <1>t DEF Find, GuardInv, Shape, TypeOK
    <3>2. CASE \E loc \in S3Copies(req[p].hash) : req' = [req EXCEPT ![p].loc = loc]
      <4>1. PICK loc \in S3Copies(req[p].hash) : req' = [req EXCEPT ![p].loc = loc]
        BY <3>2
      <4>2. req'[p].how = "discover" /\ req'[p].loc = loc
        BY <3>1, <4>1, <1>t DEF GuardInv, TypeOK, Reqs
      <4>3. loc.tier = "s3"
        BY <4>1 DEF S3Copies
      <4> QED BY <2>1, <4>2, <4>3, <1>r DEF Honest
    <3>3. CASE req' = [req EXCEPT ![p] = None]
      BY <2>1, <3>3, <1>r, <1>t DEF GuardInv, TypeOK
    <3> QED BY <2>2, <3>2, <3>3 DEF Find
  <2>3. CASE ~Find(p)
    <3>1. req' = req \/ Finish(p)
      BY <1>1, <2>3 DEF Step, Lock, CheckPublication, ClearTarget, Rename, Put, PublishMetadata,
           RemoveDisplaced, ReadCurrent, Unlink, Quarantine, Sweep, Unindex, Reconcile, GoTo
    <3>2. req'[p] = req[p] \/ req'[p] = None
      BY <3>1, <1>t DEF Finish, GuardInv, TypeOK
    <3> QED BY <2>1, <3>2, <1>r
  <2> QED BY <2>2, <2>3
<1>2. ASSUME NEW p \in Requests, Request(p) PROVE OriginInv'
  <2>0. p \in Tasks
    BY DEF Tasks
  <2>1. UNCHANGED <<listing, merge>> /\ \A q \in Tasks \ {p} : req'[q] = req[q]
    BY <1>2, <1>t, <2>0 DEF Request, StartPublish, StartRemove, StartLookup, Begin, syncVars,
           GuardInv, TypeOK
  <2>2. ASSUME NEW h \in Hashes, NEW how \in Publications, NEW n \in Names, StartPublish(p, h, how, n)
        PROVE  Honest(req'[p])
    <3> DEFINE r == [how |-> how, hash |-> h, loc |-> Target(how, n), want |-> None]
    <3>1. r.how = how /\ r.loc = Target(how, n) /\ (how # "cache" => Target(how, n).tier # "cache")
      BY DEF Target
    <3>2. req'[p] = r
      BY <2>0, <2>2, <1>t DEF StartPublish, Begin, GuardInv, TypeOK
    <3> HIDE DEF r
    <3> QED BY <3>1, <3>2 DEF Publications, Honest
  <2>3. ASSUME NEW h \in Hashes, NEW how \in Removals, StartRemove(p, h, how)
        PROVE  Honest(req'[p])
    BY <2>0, <2>3, <1>t DEF StartRemove, Begin, GuardInv, TypeOK, Removals, Honest
  <2>4. ASSUME NEW h \in Hashes, StartLookup(p, h) PROVE Honest(req'[p])
    BY <2>0, <2>4, <1>t DEF StartLookup, GuardInv, TypeOK, Honest
  <2>5. Honest(req'[p])
    BY <1>2, <2>2, <2>3, <2>4 DEF Request
  <2> QED BY <2>0, <2>1, <2>5, <1>r
<1>3. ASSUME NEW p \in Requests, Cancel(p) PROVE OriginInv'
  <2>1. p \in Tasks /\ UNCHANGED <<listing, merge>> /\ \A q \in Tasks : req'[q] = req[q] \/ req'[q] = None
    BY <1>3, <1>t DEF Cancel, syncVars, GuardInv, TypeOK, Tasks
  <2> QED BY <2>1, <1>r
<1>4. CASE NextItem
  <2>1. PICK r \in todo : todo' = todo \ {r} /\ Begin(Cleaner, r)
    BY <1>4 DEF NextItem
  <2>2. Honest(r)
    BY <1>t DEF GuardInv, Shape, Honest
  <2>3. /\ Cleaner \in Tasks /\ UNCHANGED <<listing, merge>> /\ req'[Cleaner] = r
        /\ \A q \in Tasks \ {Cleaner} : req'[q] = req[q]
    BY <1>4, <1>t, <2>1 DEF Tasks, NextItem, Begin, syncVars, GuardInv, TypeOK
  <2> QED BY <1>r, <2>2, <2>3
<1>5. CASE TakeSuperseded \/ NextPass \/ RunDetached \/ Tick \/ UNCHANGED vars \/ SyncDone
  <2>1. UNCHANGED <<req, merge>> /\ listing' \subseteq listing
    BY <1>5 DEF TakeSuperseded, NextPass, RunDetached, Tick, SyncDone, vars, taskVars, syncVars
  <2> QED BY <1>t, <2>1 DEF Origins
<1>6. CASE SyncList \/ SyncContains \/ SyncInsert
  <2>1. UNCHANGED req
    BY <1>6 DEF SyncList, SyncContains, SyncInsert, taskVars
  <2>2. CASE SyncList
    BY <1>t, <2>1, <2>2 DEF SyncList, Origins, S3Copies
  <2>3. CASE SyncContains
    BY <1>t, <2>1, <2>3 DEF SyncContains, Origins
  <2>4. CASE SyncInsert
    BY <1>t, <2>1, <2>4 DEF SyncInsert, Origins
  <2> QED BY <1>6, <2>2, <2>3, <2>4
<1>7. CASE Restart
  BY <1>t, <1>7 DEF Restart, Origins
<1> QED BY <1>1, <1>2, <1>3, <1>4, <1>5, <1>6, <1>7 DEF Next, CleanupJob, S3Recovery

LEMMA InitOriginInv == Init => OriginInv
  BY InitGuardInv DEF Init, OriginInv, Origins

Uploaded(h) == index[h] # None /\ Origin(index[h].loc) = "Upload"

\* While the process runs, nothing takes the place of an upload but an upload.
LEMMA RunningKeepsUploads ==
    ASSUME OriginInv, [Next]_vars, ~Restart, NEW h \in Hashes, Uploaded(h), index'[h] # None
    PROVE  Origin(index'[h].loc) = "Upload"
<1>0. GuardInv /\ index[h] # None /\ index[h].loc.tier # "cache"
  BY DEF OriginInv, Uploaded, Origin
<1>1. CASE index'[h] = index[h]
  BY <1>0, <1>1 DEF Origin
<1>2. ASSUME NEW p \in Tasks, PublishMetadata(p), index'[h] # index[h]
      PROVE  index'[h].loc.tier # "cache"
  <2>1. /\ req[p].hash \in Hashes /\ req[p].how \in Publications \cup {"discover"}
        /\ req[p] # None /\ req[p].loc # None
    BY <1>0, <1>2, GuardedReq DEF PublishMetadata, Guarded, GuardInv, Shape
  <2>2. \E c : index' = [index EXCEPT ![req[p].hash] = [loc |-> req[p].loc, created |-> c]]
    BY <1>2 DEF PublishMetadata
  <2>3. h = req[p].hash /\ index'[h].loc = req[p].loc
    BY <1>0, <1>2, <2>1, <2>2 DEF GuardInv, TypeOK
  <2>4. req[p].how # "cache"
    BY <1>0, <1>2, <2>3 DEF PublishMetadata
  <2> QED BY <2>1, <2>3, <2>4 DEF OriginInv, Origins, Publications
<1>3. ASSUME SyncInsert, index'[h] # index[h] PROVE index'[h].loc.tier # "cache"
  <2>1. merge # None /\ merge.hash \in Hashes /\ merge.loc.tier = "s3"
    BY <1>3 DEF SyncInsert, OriginInv, Origins, GuardInv, TypeOK, Copies
  <2>2. index'[h].loc = merge.loc
    BY <1>0, <1>3, <2>1 DEF SyncInsert, GuardInv, TypeOK
  <2> QED BY <2>1, <2>2
<1>4. ASSUME NEW p \in Tasks, Step(p), ~PublishMetadata(p) PROVE index'[h] \in {index[h], None}
  <2>1. CASE ~Unindex(p)
    BY <1>4, <2>1 DEF Step, Find, Lock, CheckPublication, ClearTarget, Rename, Put,
           RemoveDisplaced, ReadCurrent, Unlink, Quarantine, Sweep, Reconcile
  <2>2. CASE Unindex(p)
    BY <1>0, <2>2 DEF Unindex, GuardInv, TypeOK
  <2> QED BY <2>1, <2>2
<1>5. ASSUME NEW p \in Requests, Request(p) \/ Cancel(p) PROVE index' = index
  BY <1>5 DEF Request, StartPublish, StartRemove, StartLookup, Cancel
<1>6. CleanupJob \/ SyncList \/ SyncContains \/ SyncDone \/ RunDetached \/ Tick \/ UNCHANGED vars
        => index' = index
  BY DEF CleanupJob, TakeSuperseded, NextItem, NextPass, SyncList, SyncContains, SyncDone,
         RunDetached, Tick, vars
<1>7. index'[h] = index[h] \/ index'[h].loc.tier # "cache"
  BY <1>2, <1>3, <1>4, <1>5, <1>6 DEF Next, S3Recovery
<1> QED BY <1>1, <1>7 DEF Origin

\* An entry of upload origin is never replaced by a cached copy
\* (BlobIndex::publish, the collision rule of publish_blob, sync_index): with
\* dropped requests, failing operations and a bucket that comes back late.
THEOREM UploadsKeepTheirPlace ==
    ASSUME "crash" \notin Faults PROVE Spec => UploadNotReplacedByCache
<1>1. ~Restart
  BY DEF Restart
<1>2. OriginInv /\ [Next]_vars =>
        [\A h \in Hashes :
           index[h] # None /\ Origin(index[h].loc) = "Upload" /\ index'[h] # None
             => Origin(index'[h].loc) = "Upload"]_vars
  BY <1>1, RunningKeepsUploads DEF Uploaded
<1>3. OriginInv /\ [Next]_vars => OriginInv'
  BY NextOriginInv
<1> QED BY <1>2, <1>3, InitOriginInv, PTL DEF Spec, UploadNotReplacedByCache

\* A crash on a filesystem takes no upload's place either: wherever the process
\* died, the scan finds the indexed upload first (build_file_index) or nothing.
LEMMA RestartKeepsUploads ==
    ASSUME LocalOnly, LocalInv, Restart, NEW h \in Hashes, Uploaded(h), index'[h] # None
    PROVE  Origin(index'[h].loc) = "Upload"
<1>0. index[h].loc \in Locations /\ index[h].loc.tier = "uploads"
  BY DEF LocalInv, GuardInv, TypeOK, Quiet, Uploaded, Origin, Entries, Locations, Tiers
<1>1. files[h] = {} \/ index[h].loc \in files[h]
  <2>1. CASE Resting(h)
    BY <2>1 DEF Resting, Uploaded
  <2>2. CASE ~Resting(h)
    <3>1. Busy(h, lock[h])
      BY <2>2 DEF LocalInv, HashOK
    <3> QED BY <2>2, <3>1 DEF Busy, Uploaded
  <2> QED BY <2>1, <2>2
<1>2. /\ files'[h] \in ScannedCopies(files[h])
      /\ index'[h] \in ScannedEntries(files'[h], s3up', clock)
      /\ ~s3up'
  BY DEF Restart, Listed, LocalOnly
<1>3. CASE files[h] = {}
  BY <1>2, <1>3 DEF ScannedCopies, ScannedEntries, At
<1>4. CASE index[h].loc \in files[h]
  <2>1. index[h].loc \in At(files'[h], "uploads")
    BY <1>0, <1>2, <1>4 DEF ScannedCopies, At
  <2>2. index'[h] \in [loc : At(files'[h], "uploads"), created : 0..clock]
    BY <1>2, <2>1 DEF ScannedEntries
  <2> QED BY <2>2 DEF At, Origin
<1> QED BY <1>1, <1>3, <1>4

\* On a filesystem an upload keeps its place across crashes at any step, too.
THEOREM UploadsOutlastCrashes == LocalOnly => (Spec => UploadNotReplacedByCache)
<1> SUFFICES ASSUME LocalOnly PROVE Spec => UploadNotReplacedByCache
  OBVIOUS
<1>1. LocalInv /\ OriginInv /\ [Next]_vars =>
        [\A h \in Hashes :
           index[h] # None /\ Origin(index[h].loc) = "Upload" /\ index'[h] # None
             => Origin(index'[h].loc) = "Upload"]_vars
  BY RunningKeepsUploads, RestartKeepsUploads DEF Uploaded
<1>2. Init => LocalInv /\ OriginInv
  BY InitLocalInv, InitOriginInv
<1>3. LocalInv /\ OriginInv /\ [Next]_vars => (LocalInv /\ OriginInv)'
  BY NextKeepsLocalInv, NextOriginInv
<1> QED BY <1>1, <1>2, <1>3, PTL DEF Spec, UploadNotReplacedByCache

-----------------------------------------------------------------------------
(* Failed removals on a filesystem are queued.                              *)

\* A superseded copy that the cleanup job will remove or is about to.
Queued(h, loc) ==
    \/ [hash |-> h, loc |-> loc] \in superseded \cup retry
    \/ \E r \in todo : r.how = "reconcile" /\ r.hash = h /\ r.loc = loc
    \/ /\ req[Cleaner] # None
       /\ req[Cleaner].how = "reconcile" /\ req[Cleaner].hash = h /\ req[Cleaner].loc = loc

\* The copies of h that the index or the holder of the guard answers for.
Named(h) == IF index[h] = None THEN {} ELSE {index[h].loc}
Owned(h) ==
    LET p == lock[h]
    IN  IF p = None THEN Named(h)
        ELSE IF pc[p] = "publish" THEN Named(h) \cup {req[p].loc}
        ELSE IF pc[p] = "displaced" THEN Named(h) \cup {cur[p].loc}
        ELSE IF pc[p] = "unindex" THEN {}
        ELSE Named(h)

Leftovers == \A h \in Hashes : \A loc \in files[h] \ Owned(h) : Queued(h, loc)

\* The queue passes through the job without loss.
JobKeepsQueue ==
    /\ phase = "sleep" => todo = {} /\ retry = {} /\ pc[Cleaner] = "idle"
    /\ \A p \in Tasks : pc[p] = "idle" => req[p] = None
    /\ \A p \in Requests : req[p] # None => req[p].how # "reconcile"

\* A cache fill that went past its check fills a gap; no step is for the bucket.
Local(p) ==
    /\ pc[p] \in {"clear", "rename", "publish"} /\ req[p].how = "cache" => index[req[p].hash] = None
    /\ pc[p] \notin {"find", "put", "sweep"}

LeftInv ==
    /\ SweepInv
    /\ JobKeepsQueue
    /\ \A p \in Tasks : Local(p)
    /\ \A h \in Hashes : index[h] # None => index[h].loc.tier # "s3"
    /\ Leftovers

DiskOnly == ~S3Configured /\ Uninterrupted

LEMMA InitLeftInv == DiskOnly /\ Init => LeftInv
<1> SUFFICES ASSUME DiskOnly, Init PROVE LeftInv
  OBVIOUS
<1>1. SweepInv
  BY InitSweepInv DEF DiskOnly
<1>2. \A h \in Hashes : files[h] = {} /\ index[h] = None
  BY DEF DiskOnly, Init, ScannedEntries, At
<1>3. JobKeepsQueue /\ \A p \in Tasks : Local(p)
  BY DEF Init, JobKeepsQueue, Local, Tasks
<1> QED BY <1>1, <1>2, <1>3 DEF LeftInv, Leftovers

\* A request to reconcile is the cleanup job's, and waits or runs.
LEMMA ReconcilesAlone ==
    ASSUME LeftInv, NEW p \in Tasks, req[p] # None, req[p].how = "reconcile"
    PROVE  p = Cleaner /\ pc[p] \in {"lock", "reconcile"}
  BY DEF LeftInv, JobKeepsQueue, SweepInv, TrackInv, GuardInv, TypeOK, Shape, Tasks, Labels,
         Publications, Removals

\* A step loses nothing from the queue but the copy a reconciliation removes.
LEMMA StepKeepsQueue ==
    ASSUME LeftInv, NEW p \in Tasks, Step(p), NEW h \in Hashes, NEW loc, Queued(h, loc)
    PROVE  Queued(h, loc)' \/ (Reconcile(p) /\ h = req[p].hash /\ loc = req[p].loc)
<1> USE DEF LeftInv, SweepInv, TrackInv, GuardInv, TypeOK
<1>0. ~Find(p)
  BY DEF Find, Local
<1>1. CASE Reconcile(p)
  <2>1. p = Cleaner
    BY <1>1, ReconcilesAlone DEF Reconcile, Shape
  <2>2. superseded' = superseded /\ retry \subseteq retry' /\ todo' = todo
    BY <1>1 DEF Reconcile
  <2> QED BY <1>1, <2>1, <2>2 DEF Queued
<1>2. CASE ~Reconcile(p)
  <2>1. superseded \subseteq superseded' /\ retry' = retry /\ todo' = todo /\ (req' = req \/ Finish(p))
    BY <1>0, <1>2 DEF Step, Lock, CheckPublication, ClearTarget, Rename, Put, PublishMetadata,
           RemoveDisplaced, ReadCurrent, Unlink, Quarantine, Sweep, Unindex, GoTo, jobVars
  <2>2. CASE req' = req
    BY <2>1, <2>2 DEF Queued
  <2>3. CASE Finish(p)
    <3>1. pc[p] \notin {"idle", "lock", "reconcile"}
      <4>1. ~Lock(p)
        BY <2>3 DEF Lock, Finish, FirstStep
      <4> QED BY <1>0, <1>2, <4>1 DEF Step, CheckPublication, ClearTarget, Rename, Put, PublishMetadata,
           RemoveDisplaced, ReadCurrent, Unlink, Quarantine, Sweep, Unindex
    <3>2. ~(req[p] # None /\ req[p].how = "reconcile")
      BY <3>1, ReconcilesAlone
    <3>3. Cleaner \in Tasks /\ \A q \in Tasks \ {p} : req'[q] = req[q]
      BY <2>3 DEF Finish, Tasks
    <3> QED BY <2>1, <3>2, <3>3 DEF Queued
  <2> QED BY <2>1, <2>2, <2>3
<1> QED BY <1>1, <1>2

\* What a step leaves alone on other hashes.
LEMMA StepOwnsOthers ==
    ASSUME LeftInv, NEW p \in Tasks, Step(p), NEW h \in Hashes, h # req[p].hash
    PROVE  files'[h] = files[h] /\ Owned(h)' = Owned(h)
<1> USE DEF LeftInv, SweepInv, TrackInv, GuardInv, TypeOK
<1>1. index'[h] = index[h] /\ files'[h] = files[h]
  BY StepIsLocal
<1>2. lock'[h] = lock[h]
  <2>1. lock' = lock \/ Finish(p) \/ Lock(p)
    BY DEF Step, Find, CheckPublication, ClearTarget, Rename, Put, PublishMetadata,
           RemoveDisplaced, ReadCurrent, Unlink, Quarantine, Sweep, Unindex, Reconcile, GoTo
  <2> QED BY <2>1 DEF Finish, Lock
<1>3. lock[h] # p \/ p = None
  BY DEF GuardExact
<1>4. lock[h] # None => /\ pc'[lock[h]] = pc[lock[h]] /\ req'[lock[h]] = req[lock[h]]
                        /\ cur'[lock[h]] = cur[lock[h]]
  BY <1>3, StepIsLocal, ConstantsAssumption DEF ConstantsAssumption
<1> QED BY <1>1, <1>2, <1>4 DEF Owned, Named

\* On its own hash a step leaves every copy named, owned or queued.
LEMMA StepOwns ==
    ASSUME DiskOnly, LeftInv, GuardInv', NEW p \in Tasks, Step(p),
           NEW g \in Hashes, g = req[p].hash,
           NEW loc \in files'[g] \ Owned(g)'
    PROVE  Queued(g, loc)'
<1> USE ConstantsAssumption DEF ConstantsAssumption
<1> USE DEF LeftInv, SweepInv, TrackInv, GuardInv, TypeOK
<1>k. Queued(g, loc) => Queued(g, loc)' \/ (Reconcile(p) /\ loc = req[p].loc)
  BY StepKeepsQueue
<1>q. loc \in files[g] \ Owned(g) => Queued(g, loc)
  BY DEF Leftovers
<1>n. p # None /\ Local(p) /\ Tracks(p)
  OBVIOUS
<1>l. pc[p] # "lock" => lock[g] = p
  BY <1>n DEF GuardExact, Guarded, Local, Step, Find, Lock, CheckPublication, ClearTarget, Rename, Put,
         PublishMetadata, RemoveDisplaced, ReadCurrent, Unlink, Quarantine, Sweep, Unindex, Reconcile
<1>f. Finish(p) => lock'[g] = None
  BY DEF Finish
<1>a. CASE Lock(p)
  <2>1. lock[g] = None /\ lock'[g] = p /\ files' = files /\ index' = index
    BY <1>a DEF Lock
  <2>2. Owned(g) \subseteq Owned(g)'
    <3>1. pc'[p] \in {"check", "publish", "reconcile", "read"}
      BY <1>a DEF Lock, FirstStep
    <3> QED BY <1>n, <2>1, <3>1 DEF Owned, Named
  <2>3. ~Reconcile(p)
    BY <1>a DEF Lock, Reconcile
  <2> QED BY <1>k, <1>q, <2>1, <2>2, <2>3
<1>b. ASSUME files'[g] \subseteq files[g], index' = index, ~Reconcile(p),
             pc[p] \notin {"lock", "publish", "displaced", "unindex"},
             \/ Finish(p)
             \/ /\ lock' = lock
                /\ pc'[p] \notin {"publish", "displaced", "unindex"}
      PROVE  Queued(g, loc)'
  <2>1. Owned(g) = Named(g)
    BY <1>b, <1>l, <1>n DEF Owned
  <2>2. Owned(g)' = Named(g)
    BY <1>b, <1>l, <1>n, <1>f DEF Owned, Named
  <2> QED BY <1>b, <1>k, <1>q, <2>1, <2>2
<1>c. CASE CheckPublication(p) \/ ClearTarget(p) \/ ReadCurrent(p)
  BY <1>b, <1>c DEF CheckPublication, ClearTarget, ReadCurrent, GoTo, Reconcile
<1>d. CASE Rename(p)
  <2>1. CASE Finish(p) /\ UNCHANGED files
    BY <1>b, <1>d, <2>1 DEF Rename, Reconcile
  <2>2. CASE ~(Finish(p) /\ UNCHANGED files)
    <3>1. /\ files'[g] = files[g] \cup {req[p].loc}
          /\ lock' = lock /\ index' = index /\ req' = req /\ pc'[p] = "publish"
      BY <1>d, <2>2 DEF Rename, GoTo
    <3>2. Owned(g) = Named(g) /\ Owned(g)' = Named(g) \cup {req[p].loc}
      BY <1>d, <1>l, <1>n, <3>1 DEF Rename, Owned, Named
    <3> QED BY <1>d, <1>k, <1>q, <3>1, <3>2 DEF Rename, Reconcile
  <2> QED BY <2>1, <2>2
<1>e. CASE PublishMetadata(p)
  <2>1. ~(req[p].how = "cache" /\ index[g] # None)
    BY <1>e, <1>n DEF PublishMetadata, Local
  <2>2. index'[g] # None /\ index'[g].loc = req[p].loc
    <3>0. clock \in 0..clock
      OBVIOUS
    <3> PICK c \in 0..clock : index' = [index EXCEPT ![g] = [loc |-> req[p].loc, created |-> c]]
      BY <1>e, <2>1, <3>0 DEF PublishMetadata
    <3>1. index'[g] = [loc |-> req[p].loc, created |-> c] /\ c \in 0..MaxClock
      OBVIOUS
    <3>2. req[p].loc \in Locations
      BY <1>e, GuardedReq DEF PublishMetadata, Guarded, Shape
    <3>3. index'[g] \in Entries
      BY <3>1, <3>2 DEF Entries
    <3> QED BY <3>1, <3>3
  <2>3. Owned(g) = Named(g) \cup {req[p].loc}
    BY <1>e, <1>l, <1>n DEF PublishMetadata, Owned
  <2>4. Owned(g)' = Named(g) \cup {req[p].loc}
    <3>1. CASE index[g] = None
      <4>1. lock'[g] = None
        BY <1>e, <1>f, <2>1, <3>1 DEF PublishMetadata
      <4> QED BY <2>2, <3>1, <4>1 DEF Owned, Named
    <3>2. CASE index[g] # None
      <4>1. pc'[p] = "displaced" /\ cur'[p] = index[g] /\ lock'[g] = p
        BY <1>e, <1>l, <2>1, <3>2 DEF PublishMetadata
      <4> QED BY <1>n, <2>2, <3>2, <4>1 DEF Owned, Named
    <3> QED BY <3>1, <3>2
  <2> QED BY <1>e, <1>k, <1>q, <2>3, <2>4 DEF PublishMetadata, Reconcile
<1>h. CASE RemoveDisplaced(p)
  <2>1. Owned(g) = Named(g) \cup {cur[p].loc}
    BY <1>h, <1>l, <1>n DEF RemoveDisplaced, Owned
  <2>2. Owned(g)' = Named(g)
    BY <1>h, <1>f DEF RemoveDisplaced, Owned, Named
  <2>3. CASE loc # cur[p].loc
    BY <1>h, <1>k, <1>q, <2>1, <2>2, <2>3 DEF RemoveDisplaced, Reconcile
  <2>4. CASE loc = cur[p].loc
    BY <1>h, <2>4 DEF RemoveDisplaced, Queued
  <2> QED BY <2>3, <2>4
<1>i. CASE Unlink(p) \/ Quarantine(p)
  <2>0. index[g] # None /\ index[g] = cur[p] /\ cur[p].loc.tier # "s3"
    BY <1>i, <1>n DEF Unlink, Quarantine, Tracks, Shape
  <2>1. CASE Finish(p)
    BY <1>b, <1>i, <2>1 DEF Unlink, Quarantine, Reconcile
  <2>2. CASE ~Finish(p)
    <3>1. files'[g] = files[g] \ {cur[p].loc}
      BY <1>i, <2>0, <2>2 DEF Unlink, Quarantine
    <3>2. Owned(g) = {cur[p].loc}
      BY <1>i, <1>l, <1>n, <2>0 DEF Unlink, Quarantine, Owned, Named
    <3> QED BY <1>i, <1>k, <1>q, <3>1, <3>2 DEF Unlink, Quarantine, Reconcile
  <2> QED BY <2>1, <2>2
<1>j. CASE Unindex(p)
  <2>1. Owned(g) = {}
    BY <1>j, <1>l, <1>n DEF Unindex, Owned
  <2> QED BY <1>j, <1>k, <1>q, <2>1 DEF Unindex, Reconcile
<1>m. CASE Reconcile(p)
  <2>1. Owned(g) = Named(g) /\ Owned(g)' = Named(g)
    BY <1>m, <1>f, <1>l, <1>n DEF Reconcile, Owned, Named
  <2>2. CASE loc # req[p].loc
    BY <1>m, <1>k, <1>q, <2>1, <2>2 DEF Reconcile
  <2>3. CASE loc = req[p].loc
    BY <1>m, <2>3 DEF Reconcile, Queued
  <2> QED BY <2>2, <2>3
<1>o. ~Find(p) /\ ~Put(p) /\ ~Sweep(p)
  BY <1>n DEF Find, Put, Sweep, Local
<1> QED BY <1>a, <1>c, <1>d, <1>e, <1>h, <1>i, <1>j, <1>m, <1>o DEF Step

\* The rest of the invariant: what a step of a task does to its own locals.
LEMMA StepKeepsLocal ==
    ASSUME DiskOnly, LeftInv, NEW p \in Tasks, Step(p)
    PROVE  /\ \A q \in Tasks : Local(q)'
           /\ JobKeepsQueue'
           /\ \A h \in Hashes : index'[h] # None => index'[h].loc.tier # "s3"
<1> USE DEF LeftInv, SweepInv, TrackInv, GuardInv, TypeOK
<1>n. Local(p) /\ Tracks(p) /\ NoBucketNoCopies
  OBVIOUS
<1>x. ~Find(p) /\ ~Put(p) /\ ~Sweep(p)
  BY <1>n DEF Find, Put, Sweep, Local
<1>h. req[p] \in Reqs /\ req[p].hash \in Hashes /\ pc[p] # "idle"
  BY <1>x DEF Shape, Reqs, Step, Lock, CheckPublication, ClearTarget, Rename, PublishMetadata,
         RemoveDisplaced, ReadCurrent, Unlink, Quarantine, Unindex, Reconcile
<1>r. req' = req \/ Finish(p)
  BY <1>x DEF Step, Lock, CheckPublication, ClearTarget, Rename, PublishMetadata,
         RemoveDisplaced, ReadCurrent, Unlink, Quarantine, Unindex, Reconcile, GoTo
<1>1. Local(p)'
  <2>f. Finish(p) => Local(p)'
    BY DEF Finish, Local
  <2>g. ASSUME NEW label \in Labels \ {"find", "put", "sweep", "clear", "rename", "publish"},
               pc' = [pc EXCEPT ![p] = label]
        PROVE  Local(p)'
    BY <2>g DEF Local
  <2>1. CASE Lock(p)
    <3>1. req[p].how # "discover" /\ FirstStep(req[p].how) \in {"check", "reconcile", "read"}
      BY <1>h, <1>n, ConstantsAssumption
      DEF DiskOnly, NoBucketNoCopies, FirstStep, Publications, ConstantsAssumption
    <3> QED BY <2>1, <2>g, <3>1 DEF Lock, Labels
  <2>2. CASE CheckPublication(p)
    <3>1. req[p].loc.tier # "s3"
      BY <2>2, <1>n DEF CheckPublication, DiskOnly, NoBucketNoCopies, Shape
    <3> QED BY <2>2, <2>f, <3>1 DEF CheckPublication, GoTo, Local
  <2>3. CASE ClearTarget(p) \/ Rename(p)
    BY <2>3, <2>f, <1>n DEF ClearTarget, Rename, GoTo, Local
  <2>4. CASE PublishMetadata(p) \/ RemoveDisplaced(p) \/ Unindex(p) \/ Reconcile(p)
    BY <2>4, <2>f, <2>g DEF PublishMetadata, RemoveDisplaced, Unindex, Reconcile, Labels
  <2>5. CASE ReadCurrent(p)
    BY <2>5, <2>f, <2>g DEF ReadCurrent, DiskOnly, GoTo, Labels
  <2>6. CASE Unlink(p)
    BY <2>6, <2>f, <2>g DEF Unlink, DiskOnly, GoTo, Labels
  <2>7. CASE Quarantine(p)
    <3>1. cur[p].loc.tier # "s3"
      BY <2>7, <1>h, <1>n DEF Quarantine, Tracks, Shape
    <3> QED BY <2>7, <2>f, <2>g, <3>1 DEF Quarantine, GoTo, Labels
  <2> QED BY <1>x, <2>1, <2>2, <2>3, <2>4, <2>5, <2>6, <2>7 DEF Step
<1>2. ASSUME NEW q \in Tasks \ {p} PROVE Local(q)'
  <2>1. pc'[q] = pc[q] /\ req'[q] = req[q] /\ Local(q)
    BY StepIsLocal
  <2>2. CASE ~Guarded(q)
    BY <2>1, <2>2 DEF Local, Guarded
  <2>3. CASE Guarded(q)
    <3>1. index'[req[q].hash] = index[req[q].hash]
      BY <2>3, StepIsLocal, GuardsApart
    <3> QED BY <2>1, <3>1 DEF Local
  <2> QED BY <2>2, <2>3
<1>3. JobKeepsQueue'
  <2>1. phase' = "sleep" => todo' = {} /\ retry' = {} /\ pc'[Cleaner] = "idle"
    <3>0. Cleaner \in Tasks
      BY DEF Tasks
    <3>1. phase' = phase /\ todo' = todo /\ (p # Cleaner => pc'[Cleaner] = pc[Cleaner])
      BY <3>0, StepIsLocal
    <3>2. CASE ~Reconcile(p)
      <4>1. retry' = retry
        BY <1>x, <3>2 DEF Step, Lock, CheckPublication, ClearTarget, Rename, PublishMetadata,
           RemoveDisplaced, ReadCurrent, Unlink, Quarantine, Unindex, jobVars
      <4> QED BY <1>h, <3>1, <4>1 DEF JobKeepsQueue
    <3>3. CASE Reconcile(p)
      <4>1. p = Cleaner /\ pc[p] = "reconcile"
        BY <3>3, ReconcilesAlone DEF Reconcile, Shape
      <4> QED BY <3>1, <4>1 DEF JobKeepsQueue
    <3> QED BY <3>2, <3>3
  <2>2. \A q \in Tasks : pc'[q] = "idle" => req'[q] = None
    <3>1. CASE Finish(p)
      BY <3>1 DEF Finish, JobKeepsQueue
    <3>2. CASE ~Finish(p)
      <4>1. pc'[p] # "idle" /\ req' = req
        BY <1>r, <1>x, <3>2 DEF Step, Lock, FirstStep, CheckPublication, ClearTarget, Rename, PublishMetadata,
           RemoveDisplaced, ReadCurrent, Unlink, Quarantine, Unindex, Reconcile, GoTo
      <4> QED BY <4>1, StepIsLocal DEF JobKeepsQueue
    <3> QED BY <3>1, <3>2
  <2>3. \A q \in Requests : req'[q] # None => req'[q].how # "reconcile"
    BY <1>r DEF Finish, JobKeepsQueue, Tasks
  <2> QED BY <2>1, <2>2, <2>3 DEF JobKeepsQueue
<1>4. \A h \in Hashes : index'[h] # None => index'[h].loc.tier # "s3"
  <2>1. CASE PublishMetadata(p)
    <3>1. req[p].loc.tier # "s3"
      BY <2>1, <1>n DEF PublishMetadata, DiskOnly, NoBucketNoCopies, Shape
    <3>2. index' = index \/ \E c : index' = [index EXCEPT ![req[p].hash] = [loc |-> req[p].loc, created |-> c]]
      BY <2>1 DEF PublishMetadata
    <3>3. ASSUME NEW h \in Hashes, index'[h] # None PROVE index'[h].loc.tier # "s3"
      <4>1. index'[h] = index[h] \/ (h = req[p].hash /\ index'[h].loc = req[p].loc)
        <5>1. CASE index' = index
          BY <5>1
        <5>2. CASE index' # index
          <6>1. PICK c : index' = [index EXCEPT ![req[p].hash] = [loc |-> req[p].loc, created |-> c]]
            BY <3>2, <5>2
          <6> QED BY <1>h, <6>1
        <5> QED BY <5>1, <5>2
      <4> QED BY <3>1, <3>3, <4>1
    <3> QED BY <3>3
  <2>2. CASE ~PublishMetadata(p)
    <3>1. index' = index \/ index' = [index EXCEPT ![req[p].hash] = None]
      BY <1>x, <2>2 DEF Step, Lock, CheckPublication, ClearTarget, Rename,
           RemoveDisplaced, ReadCurrent, Unlink, Quarantine, Unindex, Reconcile
    <3> QED BY <3>1
  <2> QED BY <2>1, <2>2
<1> QED BY <1>1, <1>2, <1>3, <1>4

\* A step that touches neither disk nor index, and no task under a guard.
LEMMA QuietStepOwns ==
    ASSUME LeftInv, UNCHANGED <<index, files, lock>>,
           \A q \in Tasks : Guarded(q) => pc'[q] = pc[q] /\ req'[q] = req[q] /\ cur'[q] = cur[q],
           \A h \in Hashes : \A loc \in files[h] : Queued(h, loc) => Queued(h, loc)'
    PROVE  Leftovers'
<1> SUFFICES ASSUME NEW h \in Hashes PROVE Owned(h)' = Owned(h)
  BY DEF LeftInv, Leftovers
<1>1. lock[h] # None => lock[h] \in Tasks /\ Guarded(lock[h])
  BY DEF LeftInv, SweepInv, TrackInv, GuardInv, GuardExact, TypeOK
<1> QED BY <1>1 DEF Owned, Named

LEMMA NextLeftInv ==
    ASSUME DiskOnly, LeftInv, [Next]_vars
    PROVE  LeftInv'
<1> USE ConstantsAssumption DEF ConstantsAssumption
<1>t. /\ SweepInv /\ SweepInv' /\ GuardInv /\ GuardInv' /\ TypeOK /\ TypeOK'
      /\ JobKeepsQueue /\ Leftovers /\ \A q \in Tasks : Local(q)
  BY NextSweepInv DEF LeftInv, DiskOnly, SweepInv, TrackInv, GuardInv
<1>x. ~Restart /\ (\A p \in Requests : ~Cancel(p)) /\ ~RunDetached /\ ~S3Recovery
  BY <1>t DEF Restart, Cancel, RunDetached, DiskOnly, Uninterrupted, SweepInv, TrackInv, Steady,
     S3Recovery, SyncList, SyncContains, SyncInsert, SyncDone
<1>1. ASSUME NEW p \in Tasks, Step(p) PROVE LeftInv'
  <2>1. ASSUME NEW h \in Hashes, NEW loc \in files'[h] \ Owned(h)' PROVE Queued(h, loc)'
    <3>1. CASE h = req[p].hash
      BY <1>1, <1>t, <2>1, <3>1, StepOwns
    <3>2. CASE h # req[p].hash
      BY <1>1, <1>t, <2>1, <3>2, StepOwnsOthers, StepKeepsQueue DEF Leftovers
    <3> QED BY <3>1, <3>2
  <2> QED BY <1>1, <1>t, <2>1, StepKeepsLocal DEF LeftInv, Leftovers
<1>2. ASSUME NEW p \in Requests, Request(p) PROVE LeftInv'
  <2>0. p \in Tasks /\ p # Cleaner
    BY DEF Tasks
  <2>1. /\ pc[p] = "idle" /\ pc'[p] = "lock"
        /\ UNCHANGED <<index, files, lock, superseded, retry, todo, phase>>
        /\ \A q \in Tasks \ {p} : pc'[q] = pc[q] /\ req'[q] = req[q] /\ cur'[q] = cur[q]
        /\ req'[p] # None => req'[p].how # "reconcile"
    <3>1. ~\E h \in Hashes : StartLookup(p, h)
      BY DEF StartLookup, DiskOnly
    <3>2. PICK r : Begin(p, r) /\ r.how # "reconcile"
                   /\ UNCHANGED <<index, files, superseded, jobVars>>
      BY <1>2, <3>1 DEF Request, StartPublish, StartRemove, Publications, Removals
    <3> QED BY <1>t, <2>0, <3>2 DEF Begin, jobVars, TypeOK
  <2>2. \A q \in Tasks : Local(q)'
    BY <1>t, <2>1 DEF Local
  <2>3. JobKeepsQueue'
    BY <1>t, <2>0, <2>1 DEF JobKeepsQueue, Tasks
  <2>4. \A h \in Hashes : \A loc \in files[h] : Queued(h, loc) => Queued(h, loc)'
    <3>1. Cleaner \in Tasks \ {p}
      BY <2>0 DEF Tasks
    <3> QED BY <2>1, <3>1 DEF Queued
  <2>5. Leftovers'
    BY <2>1, <2>4, QuietStepOwns DEF Guarded
  <2> QED BY <1>t, <2>1, <2>2, <2>3, <2>5 DEF LeftInv
<1>3. CASE NextItem
  <2>1. PICK r \in todo : todo' = todo \ {r} /\ Begin(Cleaner, r)
    BY <1>3 DEF NextItem
  <2>2. /\ Cleaner \in Tasks /\ pc[Cleaner] = "idle" /\ req[Cleaner] = None
        /\ pc'[Cleaner] = "lock" /\ req'[Cleaner] = r /\ r # None
        /\ UNCHANGED <<index, files, lock, superseded, retry, phase>>
        /\ \A q \in Tasks \ {Cleaner} : pc'[q] = pc[q] /\ req'[q] = req[q] /\ cur'[q] = cur[q]
    BY <1>3, <1>t, <2>1 DEF Tasks, NextItem, Begin, TypeOK, JobKeepsQueue
  <2>3. \A q \in Tasks : Local(q)'
    BY <1>t, <2>2 DEF Local
  <2>4. JobKeepsQueue'
    BY <1>t, <2>1, <2>2 DEF JobKeepsQueue, Tasks
  <2>5. \A h \in Hashes : \A loc \in files[h] : Queued(h, loc) => Queued(h, loc)'
    BY <2>1, <2>2 DEF Queued
  <2>6. Leftovers'
    BY <2>2, <2>5, QuietStepOwns DEF Guarded
  <2> QED BY <1>t, <2>2, <2>3, <2>4, <2>6 DEF LeftInv
<1>4. ASSUME UNCHANGED <<index, files, lock, pc, req, cur>>, JobKeepsQueue',
             \A h \in Hashes : \A loc \in files[h] : Queued(h, loc) => Queued(h, loc)'
      PROVE  LeftInv'
  <2>1. Leftovers'
    BY <1>4, QuietStepOwns
  <2> QED BY <1>4, <1>t, <2>1 DEF LeftInv, Local
<1>5. CASE TakeSuperseded
  <2>1. JobKeepsQueue'
    BY <1>5, <1>t DEF TakeSuperseded, JobKeepsQueue, taskVars
  <2>2. ASSUME NEW h \in Hashes, NEW loc, Queued(h, loc) PROVE Queued(h, loc)'
    <3>1. todo = {} /\ retry = {} /\ req' = req
      BY <1>5, <1>t DEF TakeSuperseded, JobKeepsQueue, taskVars
    <3>2. CASE [hash |-> h, loc |-> loc] \in superseded
      <4> DEFINE r == [how |-> "reconcile", hash |-> h, loc |-> loc, want |-> None]
      <4>1. r \in todo'
        BY <1>5, <3>2 DEF TakeSuperseded
      <4> QED BY <4>1 DEF Queued
    <3> QED BY <2>2, <3>1, <3>2 DEF Queued
  <2> QED BY <1>4, <1>5, <2>1, <2>2 DEF TakeSuperseded, taskVars
<1>6. CASE NextPass
  <2>1. JobKeepsQueue'
    BY <1>6, <1>t DEF NextPass, JobKeepsQueue, taskVars
  <2>2. ASSUME NEW h \in Hashes, NEW loc, Queued(h, loc) PROVE Queued(h, loc)'
    BY <1>6, <2>2 DEF NextPass, Queued, taskVars
  <2> QED BY <1>4, <1>6, <2>1, <2>2 DEF NextPass, taskVars
<1>7. CASE Tick \/ UNCHANGED vars
  <2>1. UNCHANGED <<index, files, lock, pc, req, cur, superseded, retry, todo, phase>>
    BY <1>7 DEF Tick, vars, taskVars, jobVars
  <2>2. JobKeepsQueue'
    BY <1>t, <2>1 DEF JobKeepsQueue
  <2> QED BY <1>4, <2>1, <2>2 DEF Queued
<1> QED BY <1>x, <1>1, <1>2, <1>3, <1>5, <1>6, <1>7 DEF Next, CleanupJob

\* A removal that fails on a filesystem leaves no forgotten copy: what the index
\* does not name is still queued (superseded_blob_deletions, the batch that
\* reconcile_superseded_blobs works on, and what it puts back).
THEOREM FailedRemovalsAreQueued == DiskOnly => (Spec => []LeftoversAreQueued)
<1> SUFFICES ASSUME DiskOnly PROVE Spec => []LeftoversAreQueued
  OBVIOUS
<1>1. LeftInv => LeftoversAreQueued
  BY DEF LeftInv, Leftovers, Owned, Named, Queued, LeftoversAreQueued
<1>2. Init => LeftInv
  BY InitLeftInv
<1>3. LeftInv /\ [Next]_vars => LeftInv'
  BY NextLeftInv
<1> QED BY <1>1, <1>2, <1>3, PTL DEF Spec

-----------------------------------------------------------------------------
(* Quarantines on a filesystem whose operations fail.                       *)

\* A quarantined hash is barred: it is out of the index, or about to be taken
\* out by the guard's holder, and nobody past the quarantine check publishes it.
Barred(h) ==
    /\ index[h] = None \/ (lock[h] # None /\ pc[lock[h]] = "unindex")
    /\ lock[h] # None => pc[lock[h]] \notin {"clear", "rename", "publish", "displaced"}

BarInv == LeftInv /\ \A h \in quarantined : Barred(h)

\* A step of a task keeps every quarantined hash barred.
LEMMA StepBars ==
    ASSUME DiskOnly, BarInv, GuardInv', NEW p \in Tasks, Step(p), NEW h \in quarantined'
    PROVE  Barred(h)'
<1> USE ConstantsAssumption DEF ConstantsAssumption
<1> USE DEF BarInv, LeftInv, SweepInv, TrackInv, GuardInv, TypeOK
<1>n. p # None /\ Local(p) /\ Tracks(p) /\ h \in Hashes
  OBVIOUS
<1>x. ~Find(p) /\ ~Put(p) /\ ~Sweep(p)
  BY <1>n DEF Find, Put, Sweep, Local
<1>1. CASE h # req[p].hash
  <2>1. h \in quarantined
    BY <1>x, <1>1 DEF Step, Lock, CheckPublication, ClearTarget, Rename, PublishMetadata,
           RemoveDisplaced, ReadCurrent, Unlink, Quarantine, Unindex, Reconcile
  <2>2. index'[h] = index[h]
    BY <1>n, <1>1, StepIsLocal
  <2>3. lock'[h] = lock[h]
    <3>1. lock' = lock \/ Finish(p) \/ Lock(p)
      BY <1>x DEF Step, CheckPublication, ClearTarget, Rename, PublishMetadata,
           RemoveDisplaced, ReadCurrent, Unlink, Quarantine, Unindex, Reconcile, GoTo
    <3> QED BY <1>1, <3>1 DEF Finish, Lock
  <2>4. lock[h] # None => pc'[lock[h]] = pc[lock[h]]
    <3>1. lock[h] # None => lock[h] \in Tasks \ {p}
      BY <1>n, <1>1 DEF GuardExact
    <3> QED BY <3>1, StepIsLocal
  <2>5. Barred(h)
    BY <2>1
  <2> QED BY <2>2, <2>3, <2>4, <2>5 DEF Barred
<1>2. CASE h = req[p].hash
  <2>l. pc[p] # "lock" => lock[h] = p
    BY <1>2, <1>n DEF GuardExact, Guarded, Local, Step, Find, Lock, CheckPublication, ClearTarget, Rename,
       Put, PublishMetadata, RemoveDisplaced, ReadCurrent, Unlink, Quarantine, Sweep, Unindex, Reconcile
  <2>f. Finish(p) /\ index'[h] = None => Barred(h)'
    BY <1>2, <1>n DEF Finish, Barred
  <2>1. CASE Quarantine(p) /\ h \notin quarantined
    <3>1. lock'[h] = p /\ pc'[p] = "unindex"
      BY <1>2, <2>1, <2>l DEF Quarantine, GoTo, Finish
    <3> QED BY <1>n, <3>1 DEF Barred
  <2>2. CASE Unindex(p)
    <3>1. index'[h] = None /\ Finish(p)
      BY <1>2, <1>n, <2>2 DEF Unindex, Tracks
    <3> QED BY <2>f, <3>1
  <2>3. CASE h \in quarantined /\ ~Unindex(p)
    <3>0. Barred(h)
      BY <2>3
    <3>1. index[h] = None /\ pc[p] \notin {"clear", "rename", "publish", "displaced", "unindex"}
      <4>1. CASE Lock(p)
        BY <1>2, <3>0, <4>1 DEF Lock, Barred
      <4>2. CASE ~Lock(p)
        <5>1. pc[p] # "unindex"
          BY <1>x, <2>3, <4>2 DEF Step, CheckPublication, ClearTarget, Rename, PublishMetadata,
             RemoveDisplaced, ReadCurrent, Unlink, Quarantine, Reconcile
        <5>2. lock[h] = p
          BY <1>x, <2>l, <4>2 DEF Step, CheckPublication, ClearTarget, Rename, PublishMetadata,
             RemoveDisplaced, ReadCurrent, Unlink, Quarantine, Unindex, Reconcile
        <5> QED BY <1>n, <3>0, <5>1, <5>2 DEF Barred
      <4> QED BY <4>1, <4>2
    <3>2. Lock(p) \/ CheckPublication(p) \/ ReadCurrent(p) \/ Reconcile(p)
      <4>1. ~Unlink(p) /\ ~Quarantine(p)
        BY <1>2, <1>n, <3>1 DEF Unlink, Quarantine, Tracks, Shape
      <4> QED BY <1>x, <2>3, <3>1, <4>1 DEF Step, ClearTarget, Rename, PublishMetadata, RemoveDisplaced
    <3>3. index' = index
      BY <3>2 DEF Lock, CheckPublication, ReadCurrent, Reconcile
    <3>4. CASE Lock(p)
      <4>1. FirstStep(req[p].how) \in {"check", "read", "reconcile"} /\ lock'[h] = p
        <5>1. req[p] \in Reqs /\ req[p].how # "discover"
          BY <3>4 DEF Lock, Shape, DiskOnly, NoBucketNoCopies
        <5> QED BY <1>2, <3>4, <5>1 DEF Lock, FirstStep
      <4>2. pc'[p] = FirstStep(req[p].how)
        BY <3>4 DEF Lock
      <4> QED BY <3>1, <3>3, <4>1, <4>2 DEF Barred
    <3>5. CASE CheckPublication(p) \/ Reconcile(p)
      <4>1. Finish(p)
        BY <1>2, <2>3, <3>5 DEF CheckPublication, Reconcile
      <4> QED BY <2>f, <3>1, <3>3, <4>1
    <3>6. CASE ReadCurrent(p)
      <4>1. Finish(p)
        BY <1>2, <3>1, <3>6 DEF ReadCurrent, DiskOnly
      <4> QED BY <2>f, <3>1, <3>3, <4>1
    <3> QED BY <3>2, <3>4, <3>5, <3>6
  <2>4. h \in quarantined \/ Quarantine(p)
    BY <1>x, <1>2 DEF Step, Lock, CheckPublication, ClearTarget, Rename, PublishMetadata,
           RemoveDisplaced, ReadCurrent, Unlink, Unindex, Reconcile
  <2> QED BY <2>1, <2>2, <2>3, <2>4
<1> QED BY <1>1, <1>2

LEMMA NextBarInv ==
    ASSUME DiskOnly, BarInv, [Next]_vars
    PROVE  BarInv'
<1>t. /\ LeftInv /\ LeftInv' /\ SweepInv /\ TypeOK /\ GuardExact /\ GuardInv'
  BY NextLeftInv DEF BarInv, LeftInv, SweepInv, TrackInv, GuardInv
<1>x. ~Restart /\ (\A p \in Requests : ~Cancel(p)) /\ ~RunDetached /\ ~S3Recovery
  BY <1>t DEF Restart, Cancel, RunDetached, DiskOnly, Uninterrupted, SweepInv, TrackInv, Steady,
     S3Recovery, SyncList, SyncContains, SyncInsert, SyncDone
<1>1. ASSUME NEW p \in Tasks, Step(p) PROVE BarInv'
  BY <1>1, <1>t, StepBars DEF BarInv
<1>2. ASSUME UNCHANGED <<index, quarantined, lock>>,
             \A q \in Tasks : Guarded(q) => pc'[q] = pc[q]
      PROVE  BarInv'
  <2>1. ASSUME NEW h \in quarantined PROVE Barred(h)'
    <3>1. lock[h] # None => pc'[lock[h]] = pc[lock[h]]
      BY <1>t, <1>2 DEF GuardExact, TypeOK
    <3> QED BY <1>2, <3>1 DEF BarInv, Barred
  <2> QED BY <1>t, <1>2, <2>1 DEF BarInv
<1>3. ASSUME NEW p \in Requests, Request(p) PROVE BarInv'
  <2>1. /\ p \in Tasks /\ ~Guarded(p) /\ UNCHANGED <<index, quarantined, lock>>
        /\ \A q \in Tasks \ {p} : pc'[q] = pc[q]
    BY <1>3, <1>t DEF Request, StartPublish, StartRemove, StartLookup, Begin, Guarded, Tasks, TypeOK
  <2> QED BY <1>2, <2>1
<1>4. CASE NextItem
  <2>1. /\ Cleaner \in Tasks /\ ~Guarded(Cleaner) /\ UNCHANGED <<index, quarantined, lock>>
        /\ \A q \in Tasks \ {Cleaner} : pc'[q] = pc[q]
    BY <1>4, <1>t DEF Tasks, NextItem, Begin, Guarded, TypeOK
  <2> QED BY <1>2, <2>1
<1>5. CASE TakeSuperseded \/ NextPass \/ Tick \/ UNCHANGED vars
  <2>1. UNCHANGED <<index, quarantined, lock, pc>>
    BY <1>5 DEF TakeSuperseded, NextPass, Tick, vars, taskVars
  <2> QED BY <1>2, <2>1
<1> QED BY <1>x, <1>1, <1>3, <1>4, <1>5 DEF Next, CleanupJob

\* A quarantined hash never comes back into the index of a filesystem whose
\* operations fail: a publication that began before the report is refused, and
\* no failed step leaves the entry behind (ensure_not_quarantined, quarantine_current).
THEOREM QuarantinesOutlastFailures == DiskOnly => (Spec => []QuarantineIsFinal)
<1> SUFFICES ASSUME DiskOnly PROVE Spec => []QuarantineIsFinal
  OBVIOUS
<1>1. BarInv => QuarantineIsFinal
  BY DEF BarInv, Barred, QuarantineIsFinal
<1>2. Init => BarInv
  BY InitLeftInv DEF Init, BarInv
<1>3. BarInv /\ [Next]_vars => BarInv'
  BY NextBarInv
<1> QED BY <1>1, <1>2, <1>3, PTL DEF Spec

-----------------------------------------------------------------------------
(* Local copies, with a bucket whose requests do not fail.                  *)

\* Nothing fails or is dropped, but the process may die at any step.
Reliable == Faults \subseteq {"crash"}

\* The locations of S on the local disk.
LocalPart(S) == {loc \in S : loc.tier # "s3"}

Settled(h) == LocalPart(files[h]) = LocalPart(Named(h))

\* Where a copy that p publishes would go is not where the indexed copy is.
Outranks(h, p) ==
    index[h] # None => /\ req[p].how # "cache"
                       /\ req[p].loc.tier # "s3" => req[p].loc.tier # index[h].loc.tier

\* The local copies of h while p holds its guard.
Holds(h, p) ==
    /\ pc[p] \in {"check", "clear", "rename", "put", "read", "unlink", "quarantine"} => Settled(h)
    /\ pc[p] \in {"clear", "rename", "put", "publish"} => Outranks(h, p)
    /\ pc[p] = "publish" => LocalPart(files[h]) = LocalPart({req[p].loc} \cup Named(h))
    /\ pc[p] = "displaced" =>
         /\ LocalPart(files[h]) = LocalPart({req[p].loc, cur[p].loc})
         /\ req[p].loc.tier # "s3" => req[p].loc.tier # cur[p].loc.tier
    /\ pc[p] \in {"sweep", "unindex"} => LocalPart(files[h]) = {}
    /\ pc[p] = "sweep" /\ cur[p] = None => index[h] = None

TierOK(h) == IF lock[h] = None THEN Settled(h) ELSE Holds(h, lock[h])

NothingQueued ==
    /\ superseded = {} /\ retry = {} /\ detached = {}
    /\ \A r \in todo : r.how = "Evicted"
    /\ \A p \in Tasks : req[p] # None => req[p].how # "reconcile"

TierInv == TrackInv /\ OriginInv /\ NothingQueued /\ \A h \in Hashes : TierOK(h)

LEMMA InitTierInv == Reliable /\ Init => TierInv
<1> SUFFICES ASSUME Reliable, Init PROVE TierInv
  OBVIOUS
<1>1. TrackInv /\ OriginInv
  BY InitTrackInv, InitOriginInv DEF Reliable, Listable
<1>2. NothingQueued
  BY DEF Init, NothingQueued
<1>3. ASSUME NEW h \in Hashes PROVE TierOK(h)
  <2>1. files[h] \subseteq At(Locations, "s3")
    BY DEF Init
  <2>2. index[h] # None => index[h].loc \in At(files[h], "s3")
    BY <2>1 DEF Init, ScannedEntries, At
  <2>3. Settled(h)
    BY <2>1, <2>2 DEF Settled, LocalPart, Named, At
  <2> QED BY <2>3 DEF Init, TierOK
<1> QED BY <1>1, <1>2, <1>3 DEF TierInv

\* A task's step leaves the other hashes as they are.
LEMMA StepTiersOthers ==
    ASSUME TierInv, NEW p \in Tasks, Step(p), NEW h \in Hashes, h # req[p].hash
    PROVE  TierOK(h)'
<1> USE DEF TierInv, TrackInv, GuardInv, TypeOK
<1>1. index'[h] = index[h] /\ files'[h] = files[h]
  BY StepIsLocal
<1>2. lock'[h] = lock[h]
  <2>1. lock' = lock \/ Finish(p) \/ Lock(p)
    BY DEF Step, Find, CheckPublication, ClearTarget, Rename, Put, PublishMetadata,
           RemoveDisplaced, ReadCurrent, Unlink, Quarantine, Sweep, Unindex, Reconcile, GoTo
  <2> QED BY <2>1 DEF Finish, Lock
<1>3. lock[h] # None => lock[h] \in Tasks \ {p}
  BY DEF GuardExact
<1>4. lock[h] # None => /\ pc'[lock[h]] = pc[lock[h]] /\ req'[lock[h]] = req[lock[h]]
                        /\ cur'[lock[h]] = cur[lock[h]]
  BY <1>3, StepIsLocal
<1>5. TierOK(h)
  OBVIOUS
<1>6. Settled(h)' <=> Settled(h)
  BY <1>1 DEF Settled, Named
<1>7. lock[h] # None => (Holds(h, lock[h])' <=> Holds(h, lock[h]))
  BY <1>1, <1>2, <1>4, <1>6 DEF Holds, Outranks, Named
<1> QED BY <1>2, <1>5, <1>6, <1>7 DEF TierOK

\* Where nothing fails, nothing is queued.
LEMMA StepQueuesNothing ==
    ASSUME Reliable, TierInv, NEW p \in Tasks, Step(p)
    PROVE  NothingQueued' /\ ~Reconcile(p)
<1> USE DEF TierInv, TrackInv, GuardInv, TypeOK
<1>1. ~Reconcile(p)
  BY DEF Reconcile, NothingQueued, Shape
<1>2. superseded' = superseded /\ retry' = retry /\ todo' = todo /\ detached' = detached
  BY <1>1 DEF Step, Find, Lock, CheckPublication, ClearTarget, Rename, Put, PublishMetadata,
         RemoveDisplaced, MayFail, Reliable, ReadCurrent, Unlink, Quarantine, Sweep, Unindex, jobVars
<1>3. \A q \in Tasks : req'[q] # None => req[q] # None /\ req'[q].how = req[q].how
  <2>1. CASE Find(p)
    <3>1. req[p] \in Reqs
      BY <2>1 DEF Find, Shape
    <3>2. req'[p] = None \/ req'[p].how = req[p].how
      BY <2>1, <3>1 DEF Find, Reqs
    <3> QED BY <3>1, <3>2, StepIsLocal, ConstantsAssumption DEF ConstantsAssumption
  <2>2. CASE ~Find(p)
    <3>1. req' = req \/ Finish(p)
      BY <1>1, <2>2 DEF Step, Lock, CheckPublication, ClearTarget, Rename, Put, PublishMetadata,
           RemoveDisplaced, ReadCurrent, Unlink, Quarantine, Sweep, Unindex, GoTo
    <3> QED BY <3>1 DEF Finish
  <2> QED BY <2>1, <2>2
<1> QED BY <1>1, <1>2, <1>3 DEF NothingQueued

\* On its own hash a step keeps the local copies in line with the index.
LEMMA StepTiers ==
    ASSUME Reliable, TierInv, GuardInv', NEW p \in Tasks, Step(p),
           NEW g \in Hashes, g = req[p].hash
    PROVE  TierOK(g)'
<1> USE ConstantsAssumption DEF ConstantsAssumption
<1> USE DEF TierInv, TrackInv, GuardInv, TypeOK
<1>n. p # None /\ Tracks(p)
  OBVIOUS
<1>l. pc[p] \notin {"find", "lock"} => lock[g] = p /\ Holds(g, p)
  BY <1>n DEF TierOK, GuardExact, Guarded, Step, Find, Lock, CheckPublication, ClearTarget, Rename, Put,
         PublishMetadata, RemoveDisplaced, ReadCurrent, Unlink, Quarantine, Sweep, Unindex, Reconcile
<1>f. ASSUME Finish(p), Settled(g)' PROVE TierOK(g)'
  BY <1>f DEF Finish, TierOK
<1>m. ASSUME lock'[g] = p, Holds(g, p)' PROVE TierOK(g)'
  BY <1>m, <1>n DEF TierOK
<1>s. ASSUME Settled(g), index'[g] = index[g], LocalPart(files'[g]) = LocalPart(files[g])
      PROVE  Settled(g)'
  BY <1>s DEF Settled, Named
<1>a. CASE Find(p)
  <2>1. UNCHANGED <<index, files, lock>>
    BY <1>a DEF Find
  <2>2. Settled(g)' <=> Settled(g)
    BY <2>1 DEF Settled, Named
  <2>3. lock[g] # None => lock[g] \in Tasks \ {p}
    BY <1>a DEF Find, GuardExact, Guarded
  <2>4. ASSUME NEW q \in Tasks \ {p} PROVE Holds(g, q)' <=> Holds(g, q)
    <3>1. pc'[q] = pc[q] /\ req'[q] = req[q] /\ cur'[q] = cur[q]
      BY StepIsLocal
    <3> QED BY <2>1, <2>2, <3>1 DEF Holds, Outranks, Named
  <2>5. TierOK(g)
    OBVIOUS
  <2> QED BY <2>1, <2>2, <2>3, <2>4, <2>5 DEF TierOK
<1>b. CASE Lock(p)
  <2>1. Settled(g) /\ UNCHANGED <<index, files, req, cur>> /\ lock'[g] = p
    BY <1>b DEF Lock, TierOK
  <2>2. Settled(g)'
    BY <2>1 DEF Settled, Named
  <2>3. pc'[p] = FirstStep(req[p].how) /\ req[p] \in Reqs
    BY <1>b DEF Lock, Shape
  <2>4. CASE pc'[p] = "publish"
    <3>1. req[p].loc.tier = "s3" /\ req[p].how = "discover"
      BY <1>b, <2>3, <2>4 DEF Lock, FirstStep, Publications, Reqs, Removals, OriginInv, Origins, Shape
    <3>2. LocalPart({req[p].loc} \cup Named(g)) = LocalPart(Named(g))
      BY <3>1 DEF LocalPart
    <3> QED BY <1>m, <2>1, <2>2, <2>4, <3>1, <3>2 DEF Holds, Outranks, Settled, Named
  <2>5. CASE pc'[p] # "publish"
    <3>1. pc'[p] \in {"check", "read", "reconcile"}
      BY <2>3, <2>5 DEF FirstStep
    <3> QED BY <1>m, <2>1, <2>2, <3>1 DEF Holds
  <2> QED BY <2>4, <2>5
<1>c. CASE CheckPublication(p)
  <2>1. lock[g] = p /\ Settled(g) /\ UNCHANGED <<index, files>>
    BY <1>c, <1>l DEF CheckPublication, Holds
  <2>2. Settled(g)'
    BY <2>1, <1>s
  <2>3. CASE Finish(p)
    BY <1>f, <2>2, <2>3
  <2>4. CASE ~Finish(p)
    <3>1. /\ lock' = lock /\ req' = req /\ pc'[p] \in {"clear", "put"}
          /\ ~(index[g] # None /\ (req[p].how = "cache" \/ Origin(index[g].loc) = "Upload"))
      BY <1>c, <2>4 DEF CheckPublication, GoTo
    <3>2. req[p].how = "upload" => req[p].loc.tier # "cache"
      BY <1>c DEF CheckPublication, OriginInv, Origins, Shape
    <3>3. req[p].how \in {"upload", "cache"}
      BY <1>c DEF CheckPublication, Shape, Publications
    <3>4. Outranks(g, p)'
      BY <2>1, <3>1, <3>2, <3>3 DEF Outranks, Origin
    <3> QED BY <1>m, <2>1, <2>2, <3>1, <3>4 DEF Holds
  <2> QED BY <2>3, <2>4
<1>d. CASE ClearTarget(p)
  <2>1. lock[g] = p /\ Settled(g) /\ Outranks(g, p)
    BY <1>d, <1>l DEF ClearTarget, Holds
  <2>2. /\ files'[g] = files[g] \ {req[p].loc} /\ index' = index
        /\ lock' = lock /\ req' = req /\ pc'[p] = "rename"
    BY <1>d DEF ClearTarget, Reliable, GoTo
  <2>3. LocalPart(files'[g]) = LocalPart(files[g])
    <3>1. req[p].loc \notin LocalPart(Named(g))
      BY <2>1 DEF Outranks, LocalPart, Named
    <3> QED BY <2>1, <2>2, <3>1 DEF Settled, LocalPart
  <2>4. Settled(g)' /\ Outranks(g, p)'
    BY <1>s, <2>1, <2>2, <2>3 DEF Outranks
  <2> QED BY <1>m, <2>1, <2>2, <2>4 DEF Holds
<1>e. CASE Rename(p) \/ Put(p)
  <2>1. lock[g] = p /\ Settled(g) /\ Outranks(g, p)
    BY <1>e, <1>l DEF Rename, Put, Holds
  <2>2. CASE Finish(p) /\ UNCHANGED files
    BY <1>e, <1>f, <1>s, <2>1, <2>2 DEF Rename, Put
  <2>3. CASE ~(Finish(p) /\ UNCHANGED files)
    <3>1. /\ files'[g] = files[g] \cup {req[p].loc} /\ index' = index
          /\ lock' = lock /\ req' = req /\ pc'[p] = "publish"
      BY <1>e, <2>3 DEF Rename, Put, Reliable, GoTo
    <3>2. LocalPart(files'[g]) = LocalPart({req[p].loc} \cup Named(g))
      BY <2>1, <3>1 DEF Settled, LocalPart
    <3>3. Outranks(g, p)' /\ Named(g)' = Named(g)
      BY <2>1, <3>1 DEF Outranks, Named
    <3> QED BY <1>m, <2>1, <3>1, <3>2, <3>3 DEF Holds
  <2> QED BY <2>2, <2>3
<1>h. CASE PublishMetadata(p)
  <2>1. /\ lock[g] = p /\ Outranks(g, p) /\ files' = files
        /\ LocalPart(files[g]) = LocalPart({req[p].loc} \cup Named(g))
    BY <1>h, <1>l DEF PublishMetadata, Holds
  <2>2. ~(req[p].how = "cache" /\ index[g] # None)
    BY <2>1 DEF Outranks
  <2>3. index'[g] # None /\ index'[g].loc = req[p].loc
    <3>0. clock \in 0..clock
      OBVIOUS
    <3> PICK c \in 0..clock : index' = [index EXCEPT ![g] = [loc |-> req[p].loc, created |-> c]]
      BY <1>h, <2>2, <3>0 DEF PublishMetadata
    <3>1. index'[g] = [loc |-> req[p].loc, created |-> c] /\ c \in 0..MaxClock
      OBVIOUS
    <3>2. req[p].loc \in Locations
      BY <1>h, GuardedReq DEF PublishMetadata, Guarded, Shape
    <3>3. index'[g] \in Entries
      BY <3>1, <3>2 DEF Entries
    <3> QED BY <3>1, <3>3
  <2>4. CASE index[g] = None
    <3>1. Finish(p)
      BY <1>h, <2>2, <2>4 DEF PublishMetadata
    <3>2. Settled(g)'
      BY <2>1, <2>3, <2>4 DEF Settled, Named
    <3> QED BY <1>f, <3>1, <3>2
  <2>5. CASE index[g] # None
    <3>1. pc'[p] = "displaced" /\ cur'[p] = index[g] /\ lock' = lock /\ req' = req
      BY <1>h, <2>2, <2>5 DEF PublishMetadata
    <3>2. {req[p].loc} \cup Named(g) = {req[p].loc, index[g].loc}
      BY <2>5 DEF Named
    <3> QED BY <1>m, <2>1, <2>5, <3>1, <3>2 DEF Holds, Outranks
  <2> QED BY <2>4, <2>5
<1>i. CASE RemoveDisplaced(p)
  <2>1. /\ LocalPart(files[g]) = LocalPart({req[p].loc, cur[p].loc})
        /\ req[p].loc.tier # "s3" => req[p].loc.tier # cur[p].loc.tier
        /\ index[g] # None /\ index[g].loc = req[p].loc
    BY <1>i, <1>l, <1>n DEF RemoveDisplaced, Holds, Tracks
  <2>2. files'[g] = files[g] \ {cur[p].loc} /\ index' = index /\ Finish(p)
    BY <1>i DEF RemoveDisplaced, MayFail, Reliable
  <2>3. LocalPart(files'[g]) = LocalPart({req[p].loc})
    BY <2>1, <2>2 DEF LocalPart
  <2>4. Settled(g)'
    BY <2>1, <2>2, <2>3 DEF Settled, Named
  <2> QED BY <1>f, <2>2, <2>4
<1>j. CASE ReadCurrent(p)
  <2>1. lock[g] = p /\ Settled(g) /\ UNCHANGED <<index, files>> /\ cur[p] = None
    BY <1>j, <1>l DEF ReadCurrent, Holds, Shape
  <2>2. Settled(g)'
    BY <2>1, <1>s
  <2>3. CASE Finish(p)
    BY <1>f, <2>2, <2>3
  <2>4. CASE GoTo(p, "sweep") /\ index[g] = None
    <3>1. LocalPart(files[g]) = {}
      BY <2>1, <2>4 DEF Settled, Named, LocalPart
    <3> QED BY <1>m, <2>1, <2>4, <3>1 DEF Holds, GoTo
  <2>5. CASE ~Finish(p) /\ ~(GoTo(p, "sweep") /\ index[g] = None)
    <3>1. lock' = lock /\ pc'[p] \in {"quarantine", "unlink"}
      BY <1>j, <2>5 DEF ReadCurrent
    <3> QED BY <1>m, <2>1, <2>2, <3>1 DEF Holds
  <2> QED BY <2>3, <2>4, <2>5
<1>k. CASE Unlink(p) \/ Quarantine(p)
  <2>1. lock[g] = p /\ Settled(g) /\ index[g] = cur[p] /\ cur[p] # None
    BY <1>k, <1>l, <1>n DEF Unlink, Quarantine, Holds, Tracks, Shape
  <2>2. LocalPart(files[g]) = LocalPart({cur[p].loc})
    BY <2>1 DEF Settled, Named
  <2>3. /\ files'[g] = files[g] \ {cur[p].loc} \/ (cur[p].loc.tier = "s3" /\ files'[g] = files[g])
        /\ lock' = lock /\ cur' = cur /\ index' = index /\ pc'[p] \in {"sweep", "unindex"}
    BY <1>k, <2>2 DEF Unlink, Quarantine, MayFail, Reliable, GoTo, LocalPart
  <2>4. LocalPart(files'[g]) = {}
    BY <2>2, <2>3 DEF LocalPart
  <2> QED BY <1>m, <2>1, <2>3, <2>4 DEF Holds
<1>o. CASE Sweep(p)
  <2>1. lock[g] = p /\ LocalPart(files[g]) = {} /\ (cur[p] = None => index[g] = None)
    BY <1>o, <1>l DEF Sweep, Holds
  <2>2. /\ files'[g] \subseteq files[g] /\ index' = index
        /\ IF cur[p] = None THEN Finish(p) ELSE GoTo(p, "unindex")
    BY <1>o DEF Sweep, Reliable
  <2>3. LocalPart(files'[g]) = {}
    BY <2>1, <2>2 DEF LocalPart
  <2>4. CASE cur[p] = None /\ Finish(p)
    <3>1. Settled(g)'
      BY <2>1, <2>2, <2>3, <2>4 DEF Settled, Named, LocalPart
    <3> QED BY <1>f, <2>4, <3>1
  <2>5. CASE cur[p] # None /\ GoTo(p, "unindex")
    BY <1>m, <2>1, <2>3, <2>5 DEF Holds, GoTo
  <2> QED BY <2>2, <2>4, <2>5
<1>q. CASE Unindex(p)
  <2>1. LocalPart(files[g]) = {} /\ index[g] = cur[p] /\ cur[p] # None
    BY <1>q, <1>l, <1>n DEF Unindex, Holds, Tracks, Shape
  <2>2. index'[g] = None /\ files' = files /\ Finish(p)
    BY <1>q, <2>1 DEF Unindex
  <2>3. Settled(g)'
    BY <2>1, <2>2 DEF Settled, Named, LocalPart
  <2> QED BY <1>f, <2>2, <2>3
<1> QED BY <1>a, <1>b, <1>c, <1>d, <1>e, <1>h, <1>i, <1>j, <1>k, <1>o, <1>q, StepQueuesNothing DEF Step

\* A step that touches neither disk nor index, and no task under a guard.
LEMMA QuietStepTiers ==
    ASSUME TierInv, UNCHANGED <<index, files, lock>>,
           \A q \in Tasks : Guarded(q) => pc'[q] = pc[q] /\ req'[q] = req[q] /\ cur'[q] = cur[q]
    PROVE  \A h \in Hashes : TierOK(h)'
<1> SUFFICES ASSUME NEW h \in Hashes PROVE TierOK(h)'
  OBVIOUS
<1>1. lock[h] # None => lock[h] \in Tasks /\ Guarded(lock[h])
  BY DEF TierInv, TrackInv, GuardInv, GuardExact, TypeOK
<1>2. Settled(h)' <=> Settled(h)
  BY DEF Settled, Named
<1>3. lock[h] # None => (Holds(h, lock[h])' <=> Holds(h, lock[h]))
  BY <1>1, <1>2 DEF Holds, Outranks, Named
<1> QED BY <1>2, <1>3 DEF TierInv, TierOK

\* Whatever step a crash interrupts, the local disk holds nothing of a hash, one
\* copy, or an upload next to a cached copy.
LEMMA OnLocalDisk ==
    ASSUME TierInv, NEW h \in Hashes
    PROVE  \A x, y \in LocalPart(files[h]) : x.tier = y.tier => x = y
<1> USE DEF TierInv, TrackInv, GuardInv, TypeOK
<1>1. CASE Settled(h)
  BY <1>1 DEF Settled, Named, LocalPart
<1>2. CASE ~Settled(h)
  <2>1. PICK p \in Tasks : p = lock[h] /\ Holds(h, p) /\ Guarded(p) /\ lock[h] # None
    BY <1>2 DEF TierOK, GuardExact
  <2>2. CASE pc[p] = "publish"
    BY <2>1, <2>2 DEF Holds, Outranks, Named, LocalPart
  <2>3. CASE pc[p] = "displaced"
    BY <2>1, <2>3 DEF Holds, LocalPart
  <2>4. CASE pc[p] \in {"sweep", "unindex"}
    BY <2>1, <2>4 DEF Holds
  <2>5. pc[p] # "reconcile"
    BY <2>1, ConstantsAssumption DEF NothingQueued, Shape, ConstantsAssumption
  <2>6. CASE pc[p] \notin {"publish", "displaced", "sweep", "unindex", "reconcile"}
    BY <1>2, <2>1, <2>6 DEF Holds, Guarded, Labels
  <2> QED BY <2>2, <2>3, <2>4, <2>5, <2>6
<1> QED BY <1>1, <1>2

\* Whatever step the process died in, the startup scan leaves the local copies
\* in line with the index.
LEMMA RestartTiers ==
    ASSUME Reliable, TierInv, GuardInv', Restart
    PROVE  \A h \in Hashes : TierOK(h)'
<1> SUFFICES ASSUME NEW h \in Hashes PROVE Settled(h)'
  BY DEF Restart, TierOK
<1> DEFINE up == At(files[h], "uploads")
           cached == At(files[h], "cache")
<1>1. /\ files'[h] \in ScannedCopies(files[h]) /\ files'[h] \subseteq Locations
      /\ index'[h] \in ScannedEntries(files'[h], s3up', clock)
  BY DEF Restart
<1>0. files[h] \subseteq Locations
  BY DEF TierInv, TrackInv, GuardInv, TypeOK
<1>e. index'[h] # None => index'[h] \in Entries
  BY DEF GuardInv, TypeOK
<1>x. ASSUME NEW x, x \in up \/ x \in cached,
             LocalPart(files'[h]) = {x}, x.tier = "cache" => At(files'[h], "uploads") = {}
      PROVE  Settled(h)'
  <2>1. x \in files'[h] /\ x.tier \in {"uploads", "cache"}
    BY <1>x DEF LocalPart, At
  <2>2. x.tier = "uploads" => At(files'[h], "uploads") = {x}
    BY <1>x, <2>1 DEF LocalPart, At
  <2>3. x.tier = "cache" => At(files'[h], "cache") = {x}
    BY <1>x, <2>1 DEF LocalPart, At
  <2>4. index'[h] \in [loc : {x}, created : 0..clock]
    BY <1>1, <1>x, <2>1, <2>2, <2>3 DEF ScannedEntries
  <2>5. index'[h].loc = x
    BY <2>4
  <2>6. index'[h] # None
    <3>1. clock \in 0..MaxClock /\ MaxClock \in Nat
      BY ConstantsAssumption DEF TierInv, TrackInv, GuardInv, TypeOK, ConstantsAssumption
    <3>2. 0..clock \subseteq 0..MaxClock
      BY <3>1
    <3>3. x \in Locations
      BY <1>1, <2>1
    <3>4. index'[h] \in Entries
      BY <2>4, <3>2, <3>3 DEF Entries
    <3> QED BY <3>4, ConstantsAssumption DEF ConstantsAssumption
  <2> QED BY <1>x, <2>1, <2>5, <2>6 DEF Settled, Named, LocalPart
<1>u. \A x, y \in up : x = y
  BY OnLocalDisk DEF At, LocalPart
<1>c. \A x, y \in cached : x = y
  BY OnLocalDisk DEF At, LocalPart
<1>d. LocalPart(files[h]) = up \cup cached
  BY <1>0 DEF LocalPart, At, Locations, Tiers
<1>2. CASE up # {} /\ cached # {}
  <2>1. PICK x \in up, y \in cached : TRUE
    BY <1>2
  <2>2. up = {x} /\ cached = {y} /\ x # y
    BY <1>u, <1>c, <2>1 DEF At
  <2>3. files'[h] = files[h] \ {y}
    BY <1>1, <1>2, <2>2 DEF ScannedCopies, Reliable
  <2>4. LocalPart(files'[h]) = {x}
    BY <1>d, <2>2, <2>3 DEF LocalPart
  <2>5. x.tier = "uploads"
    BY <2>1 DEF At
  <2> QED BY <1>x, <2>1, <2>4, <2>5
<1>3. CASE up = {} \/ cached = {}
  <2>1. files'[h] = files[h]
    BY <1>1, <1>3 DEF ScannedCopies
  <2>2. ASSUME NEW x \in up \cup cached PROVE Settled(h)'
    <3>1. up \cup cached = {x}
      BY <1>3, <1>u, <1>c, <2>2
    <3>2. x.tier = "cache" => up = {}
      BY <3>1, <2>2 DEF At
    <3> QED BY <1>d, <1>x, <2>1, <2>2, <3>1, <3>2
  <2>3. CASE up \cup cached = {}
    <3>1. index'[h] # None => index'[h].loc \in At(files'[h], "s3")
      BY <1>1, <2>1, <2>3 DEF ScannedEntries
    <3>2. index'[h] # None => index'[h].loc.tier = "s3"
      BY <3>1 DEF At
    <3> QED BY <1>d, <2>1, <2>3, <3>2 DEF Settled, Named, LocalPart
  <2> QED BY <2>2, <2>3
<1> QED BY <1>2, <1>3

LEMMA NextTierInv ==
    ASSUME Reliable, TierInv, [Next]_vars
    PROVE  TierInv'
<1> USE ConstantsAssumption DEF ConstantsAssumption
<1>t. /\ TrackInv /\ TrackInv' /\ OriginInv /\ OriginInv' /\ NothingQueued
      /\ GuardInv /\ GuardInv' /\ TypeOK /\ TypeOK'
  BY NextTrackInv, NextOriginInv DEF TierInv, Reliable, Listable, TrackInv, GuardInv
<1>x. (\A p \in Requests : ~Cancel(p)) /\ ~RunDetached /\ ~S3Recovery
  BY <1>t DEF Cancel, RunDetached, Reliable, NothingQueued, TrackInv, Steady,
     S3Recovery, SyncList, SyncContains, SyncInsert, SyncDone
<1>1. ASSUME NEW p \in Tasks, Step(p) PROVE TierInv'
  <2>1. ASSUME NEW h \in Hashes PROVE TierOK(h)'
    BY <1>1, <1>t, StepTiers, StepTiersOthers
  <2> QED BY <1>1, <1>t, <2>1, StepQueuesNothing DEF TierInv
<1>2. ASSUME NEW p \in Tasks, ~Guarded(p),
             UNCHANGED <<index, files, lock, superseded, retry, detached>>, todo' \subseteq todo,
             \A q \in Tasks \ {p} : pc'[q] = pc[q] /\ req'[q] = req[q] /\ cur'[q] = cur[q],
             req'[p] # None => req'[p].how # "reconcile"
      PROVE  TierInv'
  <2>1. \A h \in Hashes : TierOK(h)'
    BY <1>2, QuietStepTiers
  <2>2. NothingQueued'
    BY <1>2, <1>t DEF NothingQueued
  <2> QED BY <1>t, <2>1, <2>2 DEF TierInv
<1>3. ASSUME NEW p \in Requests, Request(p) PROVE TierInv'
  <2>1. /\ p \in Tasks /\ ~Guarded(p)
        /\ UNCHANGED <<index, files, lock, superseded, retry, detached, todo>>
        /\ \A q \in Tasks \ {p} : pc'[q] = pc[q] /\ req'[q] = req[q] /\ cur'[q] = cur[q]
    BY <1>3, <1>t DEF Request, StartPublish, StartRemove, StartLookup, Begin, Guarded, Tasks,
       jobVars, TypeOK
  <2>2. req'[p].how # "reconcile"
    <3>1. \E r : r.how # "reconcile" /\ req' = [req EXCEPT ![p] = r]
      BY <1>3 DEF Request, StartPublish, StartRemove, StartLookup, Begin, Publications, Removals
    <3> QED BY <1>t, <2>1, <3>1 DEF TypeOK
  <2> QED BY <1>2, <2>1, <2>2
<1>4. CASE NextItem
  <2>1. PICK r \in todo : todo' = todo \ {r} /\ Begin(Cleaner, r)
    BY <1>4 DEF NextItem
  <2>2. /\ Cleaner \in Tasks /\ ~Guarded(Cleaner) /\ req'[Cleaner] = r
        /\ UNCHANGED <<index, files, lock, superseded, retry, detached>>
        /\ \A q \in Tasks \ {Cleaner} : pc'[q] = pc[q] /\ req'[q] = req[q] /\ cur'[q] = cur[q]
    BY <1>4, <1>t, <2>1 DEF Tasks, NextItem, Begin, Guarded, TypeOK
  <2>3. r.how = "Evicted"
    BY <1>t, <2>1 DEF NothingQueued
  <2> QED BY <1>2, <2>1, <2>2, <2>3
<1>5. CASE TakeSuperseded \/ NextPass \/ Tick \/ UNCHANGED vars
  <2>1. UNCHANGED <<index, files, lock, pc, req, cur, detached>>
    BY <1>5 DEF TakeSuperseded, NextPass, Tick, vars, taskVars
  <2>2. superseded' = {} /\ retry' = {} /\ \A r \in todo' : r.how = "Evicted"
    BY <1>5, <1>t DEF TakeSuperseded, NextPass, Tick, vars, jobVars, NothingQueued
  <2>3. \A h \in Hashes : TierOK(h)'
    BY <2>1, QuietStepTiers
  <2> QED BY <1>t, <2>1, <2>2, <2>3 DEF TierInv, NothingQueued
<1>6. CASE Restart
  <2>1. NothingQueued'
    BY <1>6, <1>t DEF Restart, NothingQueued
  <2> QED BY <1>6, <1>t, <2>1, RestartTiers DEF TierInv
<1> QED BY <1>x, <1>1, <1>3, <1>4, <1>5, <1>6 DEF Next, CleanupJob

\* With a bucket or without, as long as its requests do not fail: a hash whose
\* guard is free has on the local disk the copy its index entry points at, if it
\* points there, and no other, across uploads to the bucket that displace cached
\* copies, discoveries, sweeps and crashes at any step.
THEOREM LocalCopiesAreIndexed ==
    Reliable => (Spec => [](\A h \in Hashes : lock[h] = None => Settled(h)))
<1> SUFFICES ASSUME Reliable PROVE Spec => [](\A h \in Hashes : lock[h] = None => Settled(h))
  OBVIOUS
<1>1. TierInv => \A h \in Hashes : lock[h] = None => Settled(h)
  BY DEF TierInv, TierOK
<1>2. Init => TierInv
  BY InitTierInv
<1>3. TierInv /\ [Next]_vars => TierInv'
  BY NextTierInv
<1> QED BY <1>1, <1>2, <1>3, PTL DEF Spec
=============================================================================
