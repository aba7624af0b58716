------------------------- MODULE ChunkUploadProofs -------------------------
(***************************************************************************)
(* Proofs about ChunkUpload, for every set of keys, requests and chunk     *)
(* files, every limit and every timeout.                                   *)
(*                                                                         *)
(* Under every fault a session that somebody sends a body for stays, each  *)
(* chunk file has one owner, and a paid upload is whole: its parts are     *)
(* counted, they do not overlap, so as many bytes as the blob is long are  *)
(* all of it.  Unless requests are cancelled, tickets and files are        *)
(* accounted for exactly; unless a balance is refused late, no limit is    *)
(* exceeded.                                                               *)
(***************************************************************************)
EXTENDS ChunkUpload, FiniteSetTheorems, FunctionTheorems, TLAPS

\* What request r holds at each step of the handler.
Carries(r) ==
    /\ pc[r] # "idle" => patch[r] # None
    /\ pc[r] \in {"body", "abort", "commit", "charge", "restore", "rebuild", "discard"} => file[r] # None
    /\ pc[r] \in {"idle", "reserved", "release"} => file[r] = None
    /\ pc[r] \in {"charge", "restore", "rebuild"} => claim[r] # None
    /\ claim[r] # None => /\ pc[r] \in {"charge", "restore", "rebuild", "discard"}
                          /\ Chunk(r) \in claim[r].chunks
    /\ pc[r] = "rebuild" => unread[r] \subseteq claim[r].chunks

Shape == \A r \in Requests : Carries(r)

\* The requests that hold a ticket for key k.
Holders(k) == {r \in Requests : HoldsTicket(r) /\ patch[r].key = k}

\* A ticket that is held is counted.
TicketsCounted == \A k \in Keys : Cardinality(Holders(k)) <= pending[k]

ChunkInv == TypeOK /\ Shape /\ TicketsCounted

-----------------------------------------------------------------------------
\* Session k lists file f; request r writes f or owns the upload that lists it.
Stores(k, f) == uploads[k] # None /\ f \in FilesOf(uploads[k].chunks)
Holds(r, f) == file[r] = f \/ (claim[r] # None /\ f \in FilesOf(claim[r].chunks))

\* No two owners of a file.
OneOwner ==
    \A f \in Files :
        /\ \A j, k \in Keys : Stores(j, f) /\ Stores(k, f) => j = k
        /\ \A k \in Keys, r \in Requests : Stores(k, f) => ~Holds(r, f)
        /\ \A r, s \in Requests : Holds(r, f) /\ Holds(s, f) => r = s

\* The chunks of an upload have a file each.
SeparateFiles(upload) ==
    upload # None => \A c, d \in upload.chunks : c.file = d.file => c = d

FilesSeparate ==
    /\ \A k \in Keys : SeparateFiles(uploads[k])
    /\ \A r \in Requests : SeparateFiles(claim[r])

OwnerInv == ChunkInv /\ OneOwner /\ FilesSeparate

\* A request that discards its files still has those to remove that are on disk.
DiscardsAll ==
    \A r \in Requests, f \in Files :
        pc[r] = "discard" /\ Holds(r, f) /\ disk[f] # None => f \in drop[r]

\* The cleanup job sleeps once it has removed what it had to remove.
SweptWhenAsleep == phase = "sleep" => victims = {}

FilesInv == OwnerInv /\ DiscardsAll /\ SweptWhenAsleep /\ NoForgottenFile

-----------------------------------------------------------------------------
(* Types and what requests carry.                                           *)

LEMMA OffsetsAreNaturals == Offsets \subseteq Nat
  BY ChunkAssumption DEF ChunkAssumption, Offsets

\* A request with a patch and a file has a chunk, and the session it makes of it
\* is an upload.
LEMMA ExtendedType ==
  ASSUME TypeOK, NEW r \in Requests, patch[r] # None, file[r] # None
  PROVE  /\ patch[r] \in Patches /\ patch[r].key \in Keys
         /\ Chunk(r) \in Chunks
         /\ Extended(r) \in Uploads /\ Extended(r) # None
<1>1. patch[r] \in Patches /\ file[r] \in Files
  BY DEF TypeOK
<1>2. patch[r].key \in Keys /\ patch[r].params \in Params /\ Chunk(r) \in Chunks
  BY <1>1 DEF Patches, Chunk, Chunks
<1> DEFINE old == IF uploads[patch[r].key] = None
                    THEN [params |-> patch[r].params, chunks |-> {}, age |-> 0]
                    ELSE uploads[patch[r].key]
<1>3. old \in Uploads
  BY <1>2, ChunkAssumption DEF ChunkAssumption, TypeOK, Uploads
<1>4. Extended(r) = [old EXCEPT !.chunks = @ \cup {Chunk(r)}]
  BY DEF Extended
<1>5. Extended(r) \in Uploads
  BY <1>2, <1>3, <1>4 DEF Uploads
<1> QED BY <1>1, <1>2, <1>5, ChunkAssumption DEF ChunkAssumption

\* The session a chunk makes holds the chunks that were there, and the chunk.
LEMMA ExtendedChunks ==
  ASSUME TypeOK, NEW r \in Requests, patch[r] # None, file[r] # None
  PROVE  /\ Extended(r) \in Uploads /\ Extended(r) # None
         /\ Chunk(r) \in Extended(r).chunks
         /\ uploads[patch[r].key] = None =>
              Extended(r).chunks = {Chunk(r)} /\ Extended(r).params = patch[r].params
         /\ uploads[patch[r].key] # None =>
              /\ Extended(r).chunks = uploads[patch[r].key].chunks \cup {Chunk(r)}
              /\ Extended(r).params = uploads[patch[r].key].params
<1>1. patch[r].key \in Keys /\ Extended(r) \in Uploads /\ Extended(r) # None
  BY ExtendedType
<1>2. uploads[patch[r].key] # None => uploads[patch[r].key] \in Uploads
  BY <1>1 DEF TypeOK
<1> QED BY <1>1, <1>2 DEF Extended, Uploads

\* The session restore puts back is an upload.
LEMMA KeptType ==
  ASSUME NEW u \in Uploads, NEW c
  PROVE  /\ [u EXCEPT !.chunks = @ \ {c}] \in Uploads
         /\ [u EXCEPT !.chunks = @ \ {c}] # None
         /\ [u EXCEPT !.chunks = @ \ {c}].chunks = u.chunks \ {c}
  BY ChunkAssumption DEF ChunkAssumption, Uploads

LEMMA FilesOfType == ASSUME NEW u \in Uploads PROVE FilesOf(u.chunks) \subseteq Files
  BY DEF Uploads, FilesOf, Chunks

LEMMA InitTypeOK == Init => TypeOK /\ Shape
  BY ChunkAssumption DEF ChunkAssumption, Init, TypeOK, Shape, Carries, Labels

\* A spent reservation.
LEMMA ConsumedType ==
  ASSUME pending \in [Keys -> Nat], NEW k
  PROVE  /\ Consumed(k) \in [Keys -> Nat]
         /\ \A j \in Keys : /\ j # k => Consumed(k)[j] = pending[j]
                            /\ j = k /\ pending[j] = 0 => Consumed(k)[j] = 0
                            /\ j = k /\ pending[j] # 0 => Consumed(k)[j] = pending[j] - 1
<1>1. k \in Keys => pending[k] \in Nat
  OBVIOUS
<1>2. k \in Keys => (IF pending[k] = 0 THEN 0 ELSE pending[k] - 1) \in Nat
  BY <1>1
<1> QED BY <1>1, <1>2 DEF Consumed

\* The handler's return leaves every local empty.
LEMMA ReturnType ==
  ASSUME TypeOK, NEW r \in Requests, Return(r)
  PROVE  /\ pc' \in [Requests -> Labels]
         /\ patch' \in [Requests -> Patches \cup {None}]
         /\ file' \in [Requests -> Files \cup {None}]
         /\ claim' \in [Requests -> Uploads \cup {None}]
         /\ unread' \in [Requests -> SUBSET Chunks]
         /\ drop' \in [Requests -> SUBSET Files]
         /\ life' \in [Requests -> 0..RequestTicks]
  BY ChunkAssumption DEF ChunkAssumption, Return, TypeOK, Labels

LEMMA StepTypeOK ==
  ASSUME TypeOK, Shape, NEW r \in Requests, Step(r)
  PROVE  TypeOK'
<1> USE ChunkAssumption DEF ChunkAssumption
<1> USE DEF GoTo, Labels
<1>0. Carries(r)
  BY DEF Shape
<1>1. CASE CreateFile(r)
  <2>1. file' \in [Requests -> Files \cup {None}] /\ disk' \in [Files -> 0..Timeout + 1 \cup {None}]
    BY <1>1 DEF CreateFile, Fresh, TypeOK
  <2> QED BY <1>1, <2>1 DEF CreateFile, TypeOK, jobVars
<1>2. CASE StreamBody(r)
  <2>1. disk' \in [Files -> 0..Timeout + 1 \cup {None}]
    BY <1>2 DEF StreamBody, TypeOK
  <2> QED BY <1>2, <2>1 DEF StreamBody, TypeOK, jobVars
<1>3. CASE AbortBody(r)
  <2>1. disk' \in [Files -> 0..Timeout + 1 \cup {None}]
    BY <1>3 DEF AbortBody, TypeOK
  <2> QED BY <1>3, <2>1 DEF AbortBody, TypeOK, jobVars
<1>4. CASE Release(r)
  <2>1. Return(r) BY <1>4 DEF Release
  <2>2. pending' \in [Keys -> Nat]
    BY <1>4, ConsumedType DEF Release, TypeOK
  <2> QED BY <1>4, <2>1, <2>2, ReturnType DEF Release, TypeOK, jobVars
<1>5. CASE Commit(r)
  <2> DEFINE k == patch[r].key
  <2>1. k \in Keys /\ Extended(r) \in Uploads /\ file[r] \in Files
    BY <1>0, <1>5, ExtendedType DEF Commit, Carries, TypeOK
  <2>2. pending' \in [Keys -> Nat]
    BY <1>5, ConsumedType DEF Commit, TypeOK
  <2>3. CASE /\ drop' = [drop EXCEPT ![r] = {file[r]}]
             /\ GoTo(r, "discard")
             /\ UNCHANGED <<uploads, patch, file, claim, unread, life>>
    BY <1>5, <2>1, <2>2, <2>3 DEF Commit, TypeOK, jobVars
  <2>4. CASE /\ uploads' = [uploads EXCEPT ![k] = None]
             /\ claim' = [claim EXCEPT ![r] = Extended(r)]
             /\ GoTo(r, "charge")
             /\ UNCHANGED <<patch, file, unread, drop, life>>
    BY <1>5, <2>1, <2>2, <2>4 DEF Commit, TypeOK, jobVars
  <2>5. CASE uploads' = [uploads EXCEPT ![k] = Extended(r)] /\ Return(r)
    <3>1. uploads' \in [Keys -> Uploads \cup {None}]
      BY <2>1, <2>5 DEF TypeOK
    <3> QED BY <1>5, <2>2, <2>5, <3>1, ReturnType DEF Commit, TypeOK, jobVars
  <2> QED BY <1>5, <2>3, <2>4, <2>5 DEF Commit
<1>6. CASE Charge(r)
  <2>1. claim[r] \in Uploads
    BY <1>0, <1>6 DEF Charge, Carries, TypeOK
  <2>2. claim[r].chunks \in SUBSET Chunks /\ FilesOf(claim[r].chunks) \in SUBSET Files
    BY <2>1, FilesOfType DEF Uploads
  <2> QED BY <1>6, <2>2 DEF Charge, TypeOK, jobVars
<1>7. CASE Restore(r)
  <2>1. claim[r] \in Uploads /\ file[r] \in Files /\ patch[r].key \in Keys
    BY <1>0, <1>7, ExtendedType DEF Restore, Carries, TypeOK
  <2>2. FilesOf(claim[r].chunks) \in SUBSET Files /\ {file[r]} \in SUBSET Files
    BY <2>1, FilesOfType
  <2>3. [claim[r] EXCEPT !.chunks = @ \ {Chunk(r)}] \in Uploads
    BY <2>1, KeptType
  <2> QED BY <1>7, <2>1, <2>2, <2>3 DEF Restore, TypeOK, jobVars
<1>8. CASE LoseTempDir(r)
  BY <1>8, ReturnType DEF LoseTempDir, TypeOK, jobVars
<1>9. CASE ReadChunk(r)
  <2>1. claim[r] \in Uploads
    BY <1>0, <1>9 DEF ReadChunk, Carries, TypeOK
  <2>2. FilesOf(claim[r].chunks) \in SUBSET Files
    BY <2>1, FilesOfType
  <2>3. unread' \in [Requests -> SUBSET Chunks] /\ drop' \in [Requests -> SUBSET Files]
    BY <1>9, <2>2 DEF ReadChunk, TypeOK
  <2> QED BY <1>9, <2>3 DEF ReadChunk, TypeOK, jobVars
<1>10. CASE PublishRebuilt(r)
  <2>1. claim[r] \in Uploads
    BY <1>0, <1>10 DEF PublishRebuilt, Carries, TypeOK
  <2>2. FilesOf(claim[r].chunks) \in SUBSET Files
    BY <2>1, FilesOfType
  <2> QED BY <1>10, <2>2 DEF PublishRebuilt, TypeOK, jobVars
<1>11. CASE Discard(r)
  <2>1. CASE drop[r] = {} /\ Return(r) /\ UNCHANGED disk
    BY <1>11, <2>1, ReturnType DEF Discard, TypeOK, jobVars
  <2>2. CASE \E f \in drop[r] :
               /\ disk' = [disk EXCEPT ![f] = None]
               /\ drop' = [drop EXCEPT ![r] = @ \ {f}]
               /\ UNCHANGED <<pc, patch, file, claim, unread, life>>
    <3>1. disk' \in [Files -> 0..Timeout + 1 \cup {None}] /\ drop' \in [Requests -> SUBSET Files]
      BY <2>2 DEF TypeOK
    <3> QED BY <1>11, <2>2, <3>1 DEF Discard, TypeOK, jobVars
  <2> QED BY <1>11, <2>1, <2>2 DEF Discard
<1> QED BY <1>1, <1>2, <1>3, <1>4, <1>5, <1>6, <1>7, <1>8, <1>9, <1>10, <1>11 DEF Step

LEMMA CleanupTypeOK == TypeOK /\ Cleanup => TypeOK'
<1> SUFFICES ASSUME TypeOK, Cleanup PROVE TypeOK'
  OBVIOUS
<1> USE ChunkAssumption DEF ChunkAssumption
<1>1. CASE Evict
  <2>1. \A k \in Keys : uploads[k] # None => FilesOf(uploads[k].chunks) \subseteq Files
    BY FilesOfType DEF TypeOK
  <2>2. victims' \subseteq Files
    BY <1>1, <2>1 DEF Evict, Abandoned
  <2>3. uploads' \in [Keys -> Uploads \cup {None}]
    BY <1>1 DEF Evict, TypeOK
  <2> QED BY <1>1, <2>2, <2>3 DEF Evict, TypeOK, reqVars
<1>2. CASE RemoveVictim
  <2>1. disk' \in [Files -> 0..Timeout + 1 \cup {None}]
    BY <1>2 DEF RemoveVictim, TypeOK
  <2> QED BY <1>2, <2>1 DEF RemoveVictim, TypeOK, reqVars
<1>3. CASE ScanChunks
  BY <1>3 DEF ScanChunks, TypeOK, reqVars
<1>4. CASE EndCleanup
  BY <1>4 DEF EndCleanup, TypeOK, reqVars
<1> QED BY <1>1, <1>2, <1>3, <1>4 DEF Cleanup

\* What a tick makes of an upload.
LEMMA OlderType ==
  ASSUME NEW u \in Uploads
  PROVE  LET v == [u EXCEPT !.age = IF @ < Timeout THEN @ + 1 ELSE @]
         IN  v \in Uploads /\ v # None /\ v.chunks = u.chunks /\ v.params = u.params
  BY ChunkAssumption DEF ChunkAssumption, Uploads

LEMMA TickTypeOK == TypeOK /\ Tick => TypeOK'
<1> SUFFICES ASSUME TypeOK, Tick PROVE TypeOK'
  OBVIOUS
<1> USE ChunkAssumption DEF ChunkAssumption
<1> DEFINE older(u) == IF u = None THEN None
                       ELSE [u EXCEPT !.age = IF @ < Timeout THEN @ + 1 ELSE @]
<1>1. \A u \in Uploads \cup {None} : older(u) \in Uploads \cup {None}
  BY OlderType
<1>2. uploads' = [k \in Keys |-> older(uploads[k])] /\ claim' = [r \in Requests |-> older(claim[r])]
  BY DEF Tick
<1> HIDE DEF older
<1>3. uploads' \in [Keys -> Uploads \cup {None}] /\ claim' \in [Requests -> Uploads \cup {None}]
  BY <1>1, <1>2 DEF TypeOK
<1>4. disk' \in [Files -> 0..Timeout + 1 \cup {None}]
  BY DEF Tick, TypeOK
<1>5. life' \in [Requests -> 0..RequestTicks]
  BY DEF Tick, TypeOK, Labels
<1> QED BY <1>3, <1>4, <1>5 DEF Tick, TypeOK, jobVars

LEMMA PatchTypeOK ==
  ASSUME TypeOK, NEW r \in Requests, Patch(r)
  PROVE  TypeOK'
<1> PICK k \in Keys, p \in Params, off \in Offsets, len \in Offsets : Reserve(r, k, p, off, len)
  BY DEF Patch
<1>1. pending' \in [Keys -> Nat]
  BY DEF Reserve, TypeOK
<1>2. [key |-> k, params |-> p, off |-> off, len |-> len] \in Patches
  BY DEF Patches
<1> QED BY <1>1, <1>2 DEF Reserve, GoTo, Labels, TypeOK, jobVars

LEMMA NextTypeOK == TypeOK /\ Shape /\ [Next]_vars => TypeOK'
<1> SUFFICES ASSUME TypeOK, Shape, [Next]_vars PROVE TypeOK'
  OBVIOUS
<1>1. ASSUME NEW r \in Requests, Cancel(r) PROVE TypeOK'
  BY <1>1, ReturnType DEF Cancel, TypeOK, jobVars
<1>2. CASE UNCHANGED vars
  BY <1>2 DEF TypeOK, vars, reqVars, jobVars
<1> QED BY <1>1, <1>2, PatchTypeOK, StepTypeOK, CleanupTypeOK, TickTypeOK DEF Next

\* What a request carries depends on its own locals alone.
LEMMA CarriesStable ==
  ASSUME NEW s \in Requests, Carries(s),
         pc'[s] = pc[s], patch'[s] = patch[s], file'[s] = file[s], claim'[s] = claim[s],
         unread'[s] = unread[s]
  PROVE  Carries(s)'
  BY DEF Carries, Chunk

\* A step of request r.
LEMMA StepOthersStable ==
  ASSUME TypeOK, NEW r \in Requests, Patch(r) \/ Step(r) \/ Cancel(r), NEW s \in Requests, s # r
  PROVE  /\ pc'[s] = pc[s] /\ patch'[s] = patch[s] /\ file'[s] = file[s]
         /\ claim'[s] = claim[s] /\ unread'[s] = unread[s] /\ drop'[s] = drop[s]
<1> USE DEF TypeOK
<1>1. CASE Patch(r)
  BY <1>1 DEF Patch, Reserve, GoTo
<1>2. CASE Cancel(r)
  BY <1>2 DEF Cancel, Return
<1>3. CASE CreateFile(r) \/ StreamBody(r) \/ AbortBody(r) \/ Release(r)
  BY <1>3 DEF CreateFile, StreamBody, AbortBody, Release, Return, GoTo
<1>4. CASE Commit(r)
  BY <1>4 DEF Commit, Return, GoTo
<1>5. CASE Charge(r)
  BY <1>5 DEF Charge, GoTo
<1>6. CASE Restore(r)
  BY <1>6 DEF Restore, GoTo
<1>7. CASE LoseTempDir(r) \/ ReadChunk(r) \/ PublishRebuilt(r) \/ Discard(r)
  BY <1>7 DEF LoseTempDir, ReadChunk, PublishRebuilt, Discard, Return, GoTo
<1> QED BY <1>1, <1>2, <1>3, <1>4, <1>5, <1>6, <1>7 DEF Step

LEMMA ReturnCarries == ASSUME TypeOK, NEW r \in Requests, Return(r) PROVE Carries(r)'
  BY DEF Return, Carries, TypeOK

LEMMA StepCarries ==
  ASSUME TypeOK, NEW r \in Requests, Carries(r), Patch(r) \/ Step(r) \/ Cancel(r)
  PROVE  Carries(r)'
<1> USE ChunkAssumption DEF ChunkAssumption
<1>1. CASE Patch(r)
  <2> PICK k \in Keys, p \in Params, off \in Offsets, len \in Offsets : Reserve(r, k, p, off, len)
    BY <1>1 DEF Patch
  <2>1. [key |-> k, params |-> p, off |-> off, len |-> len] \in Patches
    BY DEF Patches
  <2>2. patch'[r] # None /\ pc'[r] = "reserved" /\ file'[r] = None /\ claim'[r] = None
    BY <2>1 DEF Reserve, GoTo, TypeOK, Carries
  <2> QED BY <2>2 DEF Carries
<1>2. CASE Cancel(r) \/ Release(r) \/ LoseTempDir(r)
  BY <1>2, ReturnCarries DEF Cancel, Release, LoseTempDir
<1>3. CASE CreateFile(r)
  BY <1>3 DEF CreateFile, Fresh, GoTo, TypeOK, Carries
<1>4. CASE StreamBody(r)
  BY <1>4 DEF StreamBody, GoTo, TypeOK, Carries
<1>5. CASE AbortBody(r)
  BY <1>5 DEF AbortBody, GoTo, TypeOK, Carries
<1>6. CASE Commit(r)
  <2>1. patch[r] # None /\ file[r] # None /\ claim[r] = None
    BY <1>6 DEF Commit, Carries
  <2>2. Extended(r) \in Uploads /\ Extended(r) # None /\ Chunk(r) \in Extended(r).chunks
    BY <2>1, ExtendedChunks
  <2>3. CASE GoTo(r, "discard") /\ UNCHANGED <<patch, file, claim>>
    BY <2>1, <2>3 DEF GoTo, TypeOK, Carries
  <2>4. CASE claim' = [claim EXCEPT ![r] = Extended(r)] /\ GoTo(r, "charge") /\ UNCHANGED <<patch, file>>
    <3>1. claim'[r] = Extended(r) /\ pc'[r] = "charge" /\ patch'[r] = patch[r] /\ file'[r] = file[r]
      BY <2>4 DEF GoTo, TypeOK
    <3>2. Chunk(r)' = Chunk(r)
      BY <3>1 DEF Chunk
    <3> QED BY <2>1, <2>2, <3>1, <3>2 DEF Carries
  <2> QED BY <1>6, <2>3, <2>4, ReturnCarries DEF Commit
<1>7. CASE Charge(r)
  BY <1>7 DEF Charge, GoTo, TypeOK, Carries, Chunk
<1>8. CASE Restore(r)
  BY <1>8 DEF Restore, GoTo, TypeOK, Carries, Chunk
<1>9. CASE ReadChunk(r)
  BY <1>9 DEF ReadChunk, GoTo, TypeOK, Carries, Chunk
<1>10. CASE PublishRebuilt(r)
  BY <1>10 DEF PublishRebuilt, GoTo, TypeOK, Carries, Chunk
<1>11. CASE Discard(r)
  <2>1. CASE UNCHANGED <<pc, patch, file, claim, unread>>
    BY <2>1, CarriesStable
  <2> QED BY <1>11, <2>1, ReturnCarries DEF Discard
<1> QED BY <1>1, <1>2, <1>3, <1>4, <1>5, <1>6, <1>7, <1>8, <1>9, <1>10, <1>11 DEF Step

\* A tick leaves the shape of every upload as it was.
LEMMA TickKeepsUploads ==
  ASSUME TypeOK, Tick
  PROVE  /\ \A k \in Keys : /\ uploads'[k] = None <=> uploads[k] = None
                            /\ uploads[k] # None => /\ uploads'[k].chunks = uploads[k].chunks
                                                    /\ uploads'[k].params = uploads[k].params
         /\ \A r \in Requests : /\ claim'[r] = None <=> claim[r] = None
                                /\ claim[r] # None => /\ claim'[r].chunks = claim[r].chunks
                                                      /\ claim'[r].params = claim[r].params
<1> DEFINE older(u) == IF u = None THEN None
                       ELSE [u EXCEPT !.age = IF @ < Timeout THEN @ + 1 ELSE @]
<1>1. \A u \in Uploads : older(u) # None /\ older(u).chunks = u.chunks /\ older(u).params = u.params
  BY OlderType, ChunkAssumption DEF ChunkAssumption
<1>2. older(None) = None
  OBVIOUS
<1>3. uploads' = [k \in Keys |-> older(uploads[k])] /\ claim' = [r \in Requests |-> older(claim[r])]
  BY DEF Tick
<1> HIDE DEF older
<1> QED BY <1>1, <1>2, <1>3 DEF TypeOK

LEMMA TickCarries == ASSUME TypeOK, Shape, Tick, NEW r \in Requests PROVE Carries(r)'
<1>1. /\ claim'[r] = None <=> claim[r] = None
      /\ claim[r] # None => claim'[r].chunks = claim[r].chunks
  BY TickKeepsUploads
<1>2. UNCHANGED <<pc, patch, file, unread>>
  BY DEF Tick
<1>3. Chunk(r)' = Chunk(r)
  BY <1>2 DEF Chunk
<1> QED BY <1>1, <1>2, <1>3 DEF Shape, Carries

LEMMA NextShape == TypeOK /\ Shape /\ [Next]_vars => Shape'
<1> SUFFICES ASSUME TypeOK, Shape, [Next]_vars, NEW s \in Requests PROVE Carries(s)'
  BY DEF Shape
<1>1. Carries(s)
  BY DEF Shape
<1>2. ASSUME NEW r \in Requests, Patch(r) \/ Step(r) \/ Cancel(r) PROVE Carries(s)'
  BY <1>1, <1>2, StepCarries, StepOthersStable, CarriesStable
<1>3. CASE Cleanup
  BY <1>1, <1>3, CarriesStable DEF Cleanup, Evict, RemoveVictim, ScanChunks, EndCleanup, reqVars
<1>4. CASE UNCHANGED vars
  BY <1>1, <1>4, CarriesStable DEF vars, reqVars
<1> QED BY <1>2, <1>3, <1>4, TickCarries DEF Next

-----------------------------------------------------------------------------
(* Reservations are counted.                                                *)

LEMMA HoldersFinite ==
  ASSUME NEW k PROVE IsFiniteSet(Holders(k)) /\ Cardinality(Holders(k)) \in Nat
  BY ChunkAssumption, FS_Subset, FS_CardinalityType DEF ChunkAssumption, Holders

\* Request r enters or leaves the holders of a key by its own step only.
LEMMA HoldersStep ==
  ASSUME TypeOK, NEW r \in Requests, Patch(r) \/ Step(r) \/ Cancel(r), NEW k
  PROVE  Holders(k)' = IF HoldsTicket(r)' /\ patch'[r].key = k
                         THEN Holders(k) \cup {r} ELSE Holders(k) \ {r}
<1>1. \A s \in Requests \ {r} : pc'[s] = pc[s] /\ patch'[s] = patch[s]
  BY StepOthersStable
<1>2. \A s \in Requests \ {r} : HoldsTicket(s)' <=> HoldsTicket(s)
  BY <1>1 DEF HoldsTicket
<1>3. Holders(k)' = {s \in Requests : HoldsTicket(s)' /\ patch'[s].key = k}
  BY DEF Holders
<1> QED BY <1>1, <1>2, <1>3 DEF Holders

\* How the number of holders changes with r's ticket.
LEMMA HoldersCount ==
  ASSUME TypeOK, NEW r \in Requests, Patch(r) \/ Step(r) \/ Cancel(r), NEW k
  PROVE  /\ r \in Holders(k) <=> HoldsTicket(r) /\ patch[r].key = k
         /\ r \in Holders(k)' <=> HoldsTicket(r)' /\ patch'[r].key = k
         /\ r \in Holders(k)' /\ r \notin Holders(k) =>
              Cardinality(Holders(k)') = Cardinality(Holders(k)) + 1
         /\ r \notin Holders(k)' /\ r \in Holders(k) =>
              Cardinality(Holders(k)') = Cardinality(Holders(k)) - 1
         /\ (r \in Holders(k)' <=> r \in Holders(k)) => Holders(k)' = Holders(k)
         /\ r \in Holders(k) => Cardinality(Holders(k)) > 0
         /\ Cardinality(Holders(k)) \in Nat /\ Cardinality(Holders(k)') \in Nat
<1>1. r \in Holders(k) <=> HoldsTicket(r) /\ patch[r].key = k
  BY DEF Holders
<1>2. r \in Holders(k)' <=> HoldsTicket(r)' /\ patch'[r].key = k
  BY DEF Holders
<1>3. IsFiniteSet(Holders(k)) /\ Cardinality(Holders(k)) \in Nat
  BY HoldersFinite
<1>4. Cardinality(Holders(k) \cup {r}) =
        IF r \in Holders(k) THEN Cardinality(Holders(k)) ELSE Cardinality(Holders(k)) + 1
  BY <1>3, FS_AddElement
<1>5. Cardinality(Holders(k) \ {r}) =
        IF r \in Holders(k) THEN Cardinality(Holders(k)) - 1 ELSE Cardinality(Holders(k))
  BY <1>3, FS_RemoveElement
<1>6. r \in Holders(k) => Cardinality(Holders(k)) > 0
  BY <1>3, FS_EmptySet
<1>7. Holders(k)' = IF r \in Holders(k)' THEN Holders(k) \cup {r} ELSE Holders(k) \ {r}
  BY <1>2, HoldersStep
<1>8. (r \in Holders(k)' <=> r \in Holders(k)) => Holders(k)' = Holders(k)
  BY <1>7
<1>9. Cardinality(Holders(k)') =
        IF r \in Holders(k)' THEN Cardinality(Holders(k) \cup {r}) ELSE Cardinality(Holders(k) \ {r})
  BY <1>7
<1>10. Cardinality(Holders(k)') \in Nat
  BY <1>3, <1>4, <1>5, <1>6, <1>9
<1> QED BY <1>1, <1>2, <1>3, <1>4, <1>5, <1>6, <1>8, <1>9, <1>10

\* Whatever a handler does, the count and the holders of a key move together.
LEMMA StepCounts ==
  ASSUME TypeOK, Shape, TicketsCounted, NEW r \in Requests, Patch(r) \/ Step(r), NEW k \in Keys
  PROVE  pending'[k] - Cardinality(Holders(k)') = pending[k] - Cardinality(Holders(k))
<1> DEFINE n == Cardinality(Holders(k))
           m == Cardinality(Holders(k)')
<1> SUFFICES pending'[k] - m = pending[k] - n
  OBVIOUS
<1>0. /\ pending[k] \in Nat /\ n <= pending[k] /\ pending' \in [Keys -> Nat]
  BY NextTypeOK DEF TypeOK, TicketsCounted, Next
<1>1. /\ n \in Nat /\ m \in Nat
      /\ r \in Holders(k) <=> HoldsTicket(r) /\ patch[r].key = k
      /\ r \in Holders(k)' <=> HoldsTicket(r)' /\ patch'[r].key = k
      /\ r \in Holders(k)' /\ r \notin Holders(k) => m = n + 1
      /\ r \notin Holders(k)' /\ r \in Holders(k) => m = n - 1
      /\ (r \in Holders(k)' <=> r \in Holders(k)) => m = n
      /\ r \in Holders(k) => n > 0
  BY HoldersCount
<1> HIDE DEF n, m
<1>2. CASE Patch(r)
  <2> PICK j \in Keys, p \in Params, off \in Offsets, len \in Offsets : Reserve(r, j, p, off, len)
    BY <1>2 DEF Patch
  <2>1. ~HoldsTicket(r) /\ HoldsTicket(r)' /\ patch'[r].key = j
    BY DEF Reserve, HoldsTicket, GoTo, TypeOK
  <2>2. pending'[k] = IF k = j THEN pending[k] + 1 ELSE pending[k]
    BY DEF Reserve, TypeOK
  <2> QED BY <1>0, <1>1, <2>1, <2>2
<1>3. CASE Release(r) \/ Commit(r)
  <2>1. HoldsTicket(r)
    BY <1>3 DEF Release, Commit, HoldsTicket
  <2>2. ~HoldsTicket(r)'
    BY <1>3 DEF Release, Commit, Return, GoTo, HoldsTicket, TypeOK
  <2>3. pending' = Consumed(patch[r].key)
    BY <1>3 DEF Release, Commit
  <2> QED BY <1>0, <1>1, <2>1, <2>2, <2>3, ConsumedType DEF TypeOK
<1>4. CASE CreateFile(r) \/ StreamBody(r) \/ AbortBody(r)
  <2>1. HoldsTicket(r) /\ HoldsTicket(r)' /\ patch'[r] = patch[r] /\ pending' = pending
    BY <1>4 DEF CreateFile, StreamBody, AbortBody, HoldsTicket, GoTo, TypeOK
  <2> QED BY <1>0, <1>1, <2>1
<1>5. CASE Charge(r) \/ Restore(r) \/ LoseTempDir(r) \/ ReadChunk(r) \/ PublishRebuilt(r) \/ Discard(r)
  <2>1. ~HoldsTicket(r) /\ pending' = pending
    BY <1>5 DEF Charge, Restore, LoseTempDir, ReadChunk, PublishRebuilt, Discard, HoldsTicket
  <2>2. ~HoldsTicket(r)'
    BY <1>5 DEF Charge, Restore, LoseTempDir, ReadChunk, PublishRebuilt, Discard, HoldsTicket,
                Return, GoTo, TypeOK
  <2> QED BY <1>0, <1>1, <2>1, <2>2
<1> QED BY <1>2, <1>3, <1>4, <1>5 DEF Step

\* A dropped request leaves its reservation behind.
LEMMA CancelCounts ==
  ASSUME TypeOK, NEW r \in Requests, Cancel(r), NEW k \in Keys
  PROVE  pending'[k] = pending[k] /\ Cardinality(Holders(k)') <= Cardinality(Holders(k))
<1>1. ~HoldsTicket(r)' /\ pending' = pending
  BY DEF Cancel, Return, HoldsTicket, TypeOK
<1> QED BY <1>1, HoldersCount, HoldersFinite

\* Nothing else touches a reservation.
LEMMA OthersKeepCounts ==
  ASSUME Cleanup \/ Tick \/ UNCHANGED vars, NEW k
  PROVE  pending'[k] = pending[k] /\ Holders(k)' = Holders(k)
<1>1. UNCHANGED <<pending, pc, patch>>
  BY DEF Cleanup, Evict, RemoveVictim, ScanChunks, EndCleanup, Tick, vars, reqVars
<1> QED BY <1>1 DEF Holders, HoldsTicket

LEMMA NextTicketsCounted ==
  TypeOK /\ Shape /\ TicketsCounted /\ [Next]_vars => TicketsCounted'
<1> SUFFICES ASSUME TypeOK, Shape, TicketsCounted, [Next]_vars, NEW k \in Keys
             PROVE  Cardinality(Holders(k)') <= pending'[k]
  BY DEF TicketsCounted
<1>1. /\ pending[k] \in Nat /\ pending'[k] \in Nat /\ Cardinality(Holders(k)) <= pending[k]
      /\ Cardinality(Holders(k)) \in Nat
  BY NextTypeOK, HoldersFinite DEF TypeOK, TicketsCounted
<1>2. Cardinality(Holders(k)') \in Nat
  BY HoldersFinite, ChunkAssumption, FS_Subset, FS_CardinalityType DEF ChunkAssumption, Holders
<1>3. ASSUME NEW r \in Requests, Patch(r) \/ Step(r) PROVE Cardinality(Holders(k)') <= pending'[k]
  BY <1>1, <1>2, <1>3, StepCounts
<1>4. ASSUME NEW r \in Requests, Cancel(r) PROVE Cardinality(Holders(k)') <= pending'[k]
  BY <1>1, <1>2, <1>4, CancelCounts
<1>5. CASE Cleanup \/ Tick \/ UNCHANGED vars
  BY <1>1, <1>5, OthersKeepCounts
<1> QED BY <1>3, <1>4, <1>5 DEF Next

LEMMA NothingHeld == Init => \A k \in Keys : pending[k] = 0 /\ Cardinality(Holders(k)) = 0
  BY FS_EmptySet DEF Init, Holders, HoldsTicket

LEMMA ChunkInvHolds == Spec => []ChunkInv
<1>1. Init => ChunkInv
  BY InitTypeOK, NothingHeld DEF ChunkInv, TicketsCounted
<1>2. ChunkInv /\ [Next]_vars => ChunkInv'
  BY NextTypeOK, NextShape, NextTicketsCounted DEF ChunkInv
<1> QED BY <1>1, <1>2, PTL DEF Spec

\* The cleanup job never takes the session of a request whose body is still in
\* flight, whatever requests are dropped or fail around it (evict_older_than).
THEOREM InFlightBodiesKeepTheirSession == Spec => BodyKeepsSession
<1>1. ASSUME ChunkInv, [Next]_vars, NEW r \in Requests,
             phase = "sleep", phase' = "evicted", HoldsTicket(r)
      PROVE  uploads'[patch[r].key] = uploads[patch[r].key]
  <2>1. TypeOK /\ Carries(r) /\ TicketsCounted
    BY <1>1 DEF ChunkInv, Shape
  <2>2. patch[r].key \in Keys
    BY <1>1, <2>1 DEF TypeOK, Carries, HoldsTicket, Patches
  <2>3. r \in Holders(patch[r].key)
    BY <1>1 DEF Holders
  <2>4. pending[patch[r].key] > 0
    BY <2>1, <2>2, <2>3, HoldersFinite, FS_EmptySet DEF TicketsCounted, TypeOK
  <2>5. Evict
    <3>1. ASSUME NEW s \in Requests, Patch(s) \/ Step(s) \/ Cancel(s) PROVE phase' = phase
      BY <3>1 DEF Patch, Reserve, Step, CreateFile, StreamBody, AbortBody, Release, Commit, Charge,
                  Restore, LoseTempDir, ReadChunk, PublishRebuilt, Discard, Cancel, jobVars
    <3>2. CASE RemoveVictim \/ ScanChunks \/ EndCleanup \/ Tick \/ UNCHANGED vars
      BY <1>1, <3>2 DEF RemoveVictim, ScanChunks, EndCleanup, Tick, vars, jobVars
    <3> QED BY <1>1, <3>1, <3>2 DEF Next, Cleanup
  <2> QED BY <2>1, <2>2, <2>4, <2>5 DEF Evict, Abandoned, TypeOK
<1>2. ChunkInv /\ [Next]_vars
        => [\A r \in Requests :
              phase = "sleep" /\ phase' = "evicted" /\ HoldsTicket(r)
                => uploads'[patch[r].key] = uploads[patch[r].key]]_vars
  BY <1>1
<1> QED BY <1>2, ChunkInvHolds, PTL DEF Spec, BodyKeepsSession

\* "The ticket is released on every pre-commit error": as long as no request is
\* cut off, the reservations counted for a key are those of requests under way.
THEOREM EveryTicketIsSpent ==
  ASSUME "cancel" \notin Faults PROVE Spec => []ReservationsAreHeld
<1>1. Init => ReservationsAreHeld
  BY NothingHeld DEF ReservationsAreHeld, Holders
<1>2. ChunkInv /\ ReservationsAreHeld /\ [Next]_vars => ReservationsAreHeld'
  <2> SUFFICES ASSUME ChunkInv, ReservationsAreHeld, [Next]_vars, NEW k \in Keys
               PROVE  pending'[k] = Cardinality(Holders(k)')
    BY DEF ReservationsAreHeld, Holders
  <2>1. TypeOK /\ Shape /\ TicketsCounted /\ pending[k] = Cardinality(Holders(k))
    BY DEF ChunkInv, ReservationsAreHeld, Holders
  <2>2. pending[k] \in Nat /\ pending'[k] \in Nat
    BY <2>1, NextTypeOK DEF TypeOK
  <2>3. Cardinality(Holders(k)') \in Nat
    BY ChunkAssumption, FS_Subset, FS_CardinalityType DEF ChunkAssumption, Holders
  <2>4. ASSUME NEW r \in Requests, Patch(r) \/ Step(r) PROVE pending'[k] = Cardinality(Holders(k)')
    BY <2>1, <2>2, <2>3, <2>4, StepCounts
  <2>5. CASE Cleanup \/ Tick \/ UNCHANGED vars
    BY <2>1, <2>5, OthersKeepCounts
  <2> QED BY <2>4, <2>5 DEF Next, Cancel
<1> QED BY <1>1, <1>2, ChunkInvHolds, PTL DEF Spec

-----------------------------------------------------------------------------
(* A chunk file has one owner.                                              *)

LEMMA OwnersAre ==
  ASSUME NEW f
  PROVE  OwnersOf(f) # {} <=> (\E k \in Keys : Stores(k, f)) \/ (\E r \in Requests : Holds(r, f))
  BY DEF OwnersOf, Stores, Holds

LEMMA OneOwnerCounts == OneOwner => ChunkOwnedOnce
<1> SUFFICES ASSUME OneOwner, NEW f \in Files PROVE Cardinality(OwnersOf(f)) <= 1
  BY DEF ChunkOwnedOnce
<1>1. \A x, y \in OwnersOf(f) : x = y
  BY DEF OneOwner, OwnersOf, Stores, Holds
<1>2. CASE OwnersOf(f) = {}
  BY <1>2, FS_EmptySet
<1>3. CASE \E x \in OwnersOf(f) : TRUE
  <2> PICK x \in OwnersOf(f) : TRUE
    BY <1>3
  <2>1. OwnersOf(f) = {x}
    BY <1>1
  <2> QED BY <2>1, FS_Singleton
<1> QED BY <1>2, <1>3

\* What a request holds depends on its file and its claim alone.
LEMMA OthersHoldTheSame ==
  ASSUME TypeOK, NEW r \in Requests, Patch(r) \/ Step(r) \/ Cancel(r), NEW s \in Requests, s # r, NEW f
  PROVE  Holds(s, f)' <=> Holds(s, f)
  BY StepOthersStable DEF Holds

\* The steps that hand no file from one owner to another.
Keeps(r) == StreamBody(r) \/ AbortBody(r) \/ Release(r) \/ Charge(r) \/ LoseTempDir(r)
              \/ ReadChunk(r) \/ PublishRebuilt(r) \/ Discard(r) \/ Cancel(r) \/ Patch(r)

LEMMA KeepsHoldings ==
  ASSUME TypeOK, NEW r \in Requests, Keeps(r)
  PROVE  uploads' = uploads /\ claim'[r] \in {claim[r], None} /\ file'[r] \in {file[r], None}
<1> USE DEF TypeOK
<1>1. CASE Patch(r)
  BY <1>1 DEF Patch, Reserve
<1>2. CASE StreamBody(r) \/ Charge(r) \/ ReadChunk(r) \/ PublishRebuilt(r)
  BY <1>2 DEF StreamBody, Charge, ReadChunk, PublishRebuilt
<1>3. CASE AbortBody(r)
  BY <1>3 DEF AbortBody
<1>4. CASE Release(r) \/ LoseTempDir(r) \/ Discard(r) \/ Cancel(r)
  BY <1>4 DEF Release, LoseTempDir, Discard, Cancel, Return
<1> QED BY <1>1, <1>2, <1>3, <1>4 DEF Keeps

\* The three ways a chunk's commit ends, and the two of a restoration.
LEMMA CommitEnds ==
  ASSUME TypeOK, Shape, NEW r \in Requests, Commit(r)
  PROVE  LET k == patch[r].key IN
         /\ patch[r] # None /\ file[r] \in Files /\ claim[r] = None /\ k \in Keys
         /\ \/ /\ uploads' = uploads /\ claim'[r] = None /\ file'[r] = file[r]
               /\ pc'[r] = "discard" /\ drop'[r] = {file[r]}
            \/ /\ ~Conflicts(r)
               /\ Received(Extended(r).chunks) = patch[r].params.length
               /\ uploads' = [uploads EXCEPT ![k] = None]
               /\ claim'[r] = Extended(r) /\ file'[r] = file[r] /\ pc'[r] = "charge"
            \/ /\ ~Conflicts(r)
               /\ uploads' = [uploads EXCEPT ![k] = Extended(r)]
               /\ claim'[r] = None /\ file'[r] = None /\ pc'[r] = "idle"
<1>1. patch[r] # None /\ file[r] # None /\ claim[r] = None
  BY DEF Commit, Shape, Carries
<1>2. patch[r].key \in Keys
  BY <1>1 DEF TypeOK, Patches
<1> QED BY <1>1, <1>2 DEF Commit, Return, GoTo, TypeOK

LEMMA RestoreEnds ==
  ASSUME TypeOK, Shape, NEW r \in Requests, Restore(r)
  PROVE  LET k == patch[r].key
             kept == [claim[r] EXCEPT !.chunks = @ \ {Chunk(r)}]
         IN
         /\ patch[r] # None /\ file[r] \in Files /\ k \in Keys
         /\ claim[r] \in Uploads /\ claim[r] # None /\ Chunk(r) \in claim[r].chunks
         /\ kept \in Uploads /\ kept # None /\ kept.chunks = claim[r].chunks \ {Chunk(r)}
         /\ file'[r] = file[r] /\ pc'[r] = "discard"
         /\ \/ /\ k \in Live /\ uploads' = uploads /\ claim'[r] = claim[r]
               /\ drop'[r] = FilesOf(claim[r].chunks)
            \/ /\ k \notin Live /\ uploads' = [uploads EXCEPT ![k] = kept] /\ claim'[r] = None
               /\ drop'[r] = {file[r]}
<1>1. patch[r] # None /\ file[r] # None /\ claim[r] # None /\ Chunk(r) \in claim[r].chunks
  BY DEF Restore, Shape, Carries
<1>2. patch[r].key \in Keys /\ claim[r] \in Uploads
  BY <1>1 DEF TypeOK, Patches
<1> QED BY <1>1, <1>2, KeptType DEF Restore, GoTo, TypeOK

\* The files of the session a chunk makes.
LEMMA FilesOfExtended ==
  ASSUME TypeOK, NEW r \in Requests, patch[r] # None, file[r] # None, NEW f
  PROVE  f \in FilesOf(Extended(r).chunks) <=> f = file[r] \/ Stores(patch[r].key, f)
<1> DEFINE k == patch[r].key
<1>1. Chunk(r).file = file[r]
  BY DEF Chunk
<1>2. CASE uploads[k] = None
  <2>1. Extended(r).chunks = {Chunk(r)}
    BY <1>2, ExtendedChunks
  <2> QED BY <1>1, <1>2, <2>1 DEF FilesOf, Stores
<1>3. CASE uploads[k] # None
  <2>1. Extended(r).chunks = uploads[k].chunks \cup {Chunk(r)}
    BY <1>3, ExtendedChunks
  <2> HIDE DEF k
  <2>2. f \in FilesOf(Extended(r).chunks) <=> f \in FilesOf(uploads[k].chunks) \/ f = Chunk(r).file
    BY <2>1 DEF FilesOf
  <2> QED BY <1>1, <1>3, <2>2 DEF Stores, k
<1> QED BY <1>2, <1>3

LEMMA StepOneOwner ==
  ASSUME OwnerInv, NEW r \in Requests, Patch(r) \/ Step(r) \/ Cancel(r)
  PROVE  OneOwner'
<1> TypeOK /\ Shape /\ OneOwner /\ FilesSeparate
  BY DEF OwnerInv, ChunkInv
<1> SUFFICES ASSUME NEW f \in Files
             PROVE  /\ \A j, k \in Keys : Stores(j, f)' /\ Stores(k, f)' => j = k
                    /\ \A k \in Keys, s \in Requests : Stores(k, f)' => ~Holds(s, f)'
                    /\ \A s, t \in Requests : Holds(s, f)' /\ Holds(t, f)' => s = t
  BY DEF OneOwner
<1>0. /\ \A j, k \in Keys : Stores(j, f) /\ Stores(k, f) => j = k
      /\ \A k \in Keys, s \in Requests : Stores(k, f) => ~Holds(s, f)
      /\ \A s, t \in Requests : Holds(s, f) /\ Holds(t, f) => s = t
  BY DEF OneOwner
<1>1. \A s \in Requests \ {r} : Holds(s, f)' <=> Holds(s, f)
  BY OthersHoldTheSame
<1>2. CASE Keeps(r)
  <2>1. \A k \in Keys : Stores(k, f)' <=> Stores(k, f)
    BY <1>2, KeepsHoldings DEF Stores
  <2>2. Holds(r, f)' => Holds(r, f)
    BY <1>2, KeepsHoldings, ChunkAssumption DEF Holds, ChunkAssumption
  <2> QED BY <1>0, <1>1, <2>1, <2>2
<1>3. CASE CreateFile(r)
  <2>1. \A k \in Keys : Stores(k, f)' <=> Stores(k, f)
    BY <1>3 DEF CreateFile, Stores
  <2>2. file[r] = None /\ claim[r] = None
    BY <1>3 DEF CreateFile, Shape, Carries
  <2>3. claim'[r] = None /\ (file'[r] \in Fresh \/ file'[r] = None)
    BY <1>3, <2>2 DEF CreateFile, Fresh, TypeOK
  <2>4. Holds(r, f)' => f \in Fresh
    BY <2>3, ChunkAssumption DEF Holds, ChunkAssumption
  <2>5. f \in Fresh => /\ \A k \in Keys : ~Stores(k, f)
                       /\ \A s \in Requests : ~Holds(s, f)
    BY OwnersAre DEF Fresh
  <2> QED BY <1>0, <1>1, <2>1, <2>4, <2>5
<1>4. CASE Commit(r)
  <2> DEFINE k == patch[r].key
  <2>1. k \in Keys /\ patch[r] # None /\ file[r] \in Files /\ file[r] # None /\ claim[r] = None
    BY <1>4, CommitEnds, ChunkAssumption DEF ChunkAssumption
  <2>2. CASE uploads' = uploads /\ claim'[r] = None /\ file'[r] = file[r]
    <3>1. \A j \in Keys : Stores(j, f)' <=> Stores(j, f)
      BY <2>2 DEF Stores
    <3>2. Holds(r, f)' => Holds(r, f)
      BY <2>2 DEF Holds
    <3> QED BY <1>0, <1>1, <3>1, <3>2
  <2>3. f \in FilesOf(Extended(r).chunks) => f = file[r] \/ Stores(k, f)
    BY <2>1, FilesOfExtended
  <2>4. CASE uploads' = [uploads EXCEPT ![k] = None] /\ claim'[r] = Extended(r) /\ file'[r] = file[r]
    <3>1. \A j \in Keys : Stores(j, f)' => Stores(j, f) /\ j # k
      BY <2>1, <2>4 DEF Stores, TypeOK
    <3>2. Holds(r, f)' => Holds(r, f) \/ Stores(k, f)
      BY <2>1, <2>3, <2>4 DEF Holds
    <3> QED BY <1>0, <1>1, <2>1, <3>1, <3>2
  <2>5. CASE uploads' = [uploads EXCEPT ![k] = Extended(r)] /\ claim'[r] = None /\ file'[r] = None
    <3>1. \A j \in Keys : Stores(j, f)' => Stores(j, f) \/ (j = k /\ Holds(r, f))
      <4> SUFFICES ASSUME NEW j \in Keys, Stores(j, f)' PROVE Stores(j, f) \/ (j = k /\ Holds(r, f))
        OBVIOUS
      <4>1. CASE j = k
        <5>1. uploads'[j] = Extended(r)
          BY <2>1, <2>5, <4>1 DEF TypeOK
        <5> QED BY <2>3, <4>1, <5>1 DEF Stores, Holds
      <4>2. CASE j # k
        BY <2>1, <2>5, <4>2 DEF Stores, TypeOK
      <4> QED BY <4>1, <4>2
    <3>2. ~Holds(r, f)'
      BY <2>5, ChunkAssumption DEF Holds, ChunkAssumption
    <3> QED BY <1>0, <1>1, <2>1, <3>1, <3>2
  <2> QED BY <1>4, <2>2, <2>4, <2>5, CommitEnds
<1>5. CASE Restore(r)
  <2> DEFINE k == patch[r].key
             kept == [claim[r] EXCEPT !.chunks = @ \ {Chunk(r)}]
  <2>1. /\ k \in Keys /\ claim[r] # None /\ Chunk(r) \in claim[r].chunks
        /\ kept # None /\ kept.chunks = claim[r].chunks \ {Chunk(r)} /\ file'[r] = file[r]
    BY <1>5, RestoreEnds
  <2>2. CASE uploads' = uploads /\ claim'[r] = claim[r]
    <3>1. \A j \in Keys : Stores(j, f)' <=> Stores(j, f)
      BY <2>2 DEF Stores
    <3>2. Holds(r, f)' => Holds(r, f)
      BY <2>1, <2>2 DEF Holds
    <3> QED BY <1>0, <1>1, <3>1, <3>2
  <2>3. CASE k \notin Live /\ uploads' = [uploads EXCEPT ![k] = kept] /\ claim'[r] = None
    <3>1. SeparateFiles(claim[r])
      BY DEF FilesSeparate
    <3>2. f \in FilesOf(kept.chunks) => Holds(r, f) /\ f # file[r]
      BY <2>1, <3>1 DEF SeparateFiles, FilesOf, Holds, Chunk
    <3>3. \A j \in Keys : Stores(j, f)' => (Stores(j, f) /\ j # k) \/ (j = k /\ Holds(r, f) /\ f # file[r])
      <4> SUFFICES ASSUME NEW j \in Keys, Stores(j, f)'
                   PROVE  (Stores(j, f) /\ j # k) \/ (j = k /\ Holds(r, f) /\ f # file[r])
        OBVIOUS
      <4>1. CASE j = k
        <5>1. uploads'[j] = kept
          BY <2>1, <2>3, <4>1 DEF TypeOK
        <5> QED BY <3>2, <4>1, <5>1 DEF Stores
      <4>2. CASE j # k
        BY <2>1, <2>3, <4>2 DEF Stores, TypeOK
      <4> QED BY <4>1, <4>2
    <3>4. Holds(r, f)' => Holds(r, f) /\ f = file[r]
      BY <2>1, <2>3 DEF Holds
    <3>5. \A j \in Keys, s \in Requests : Stores(j, f)' => ~Holds(s, f)'
      <4>1. ASSUME NEW j \in Keys, NEW s \in Requests \ {r}, Stores(j, f)', Holds(s, f)' PROVE FALSE
        BY <1>0, <1>1, <3>3, <4>1
      <4>2. ASSUME NEW j \in Keys, Stores(j, f)', Holds(r, f)' PROVE FALSE
        BY <1>0, <3>3, <3>4, <4>2
      <4> QED BY <4>1, <4>2
    <3>6. \A i, j \in Keys : Stores(i, f)' /\ Stores(j, f)' => i = j
      BY <1>0, <3>3
    <3>7. \A s, t \in Requests : Holds(s, f)' /\ Holds(t, f)' => s = t
      BY <1>0, <1>1, <3>4
    <3> QED BY <3>5, <3>6, <3>7
  <2> QED BY <1>5, <2>2, <2>3, RestoreEnds
<1> QED BY <1>2, <1>3, <1>4, <1>5 DEF Step, Keeps

\* The cleanup job and the clock hand out no file.
LEMMA OthersOneOwner == OwnerInv /\ (Cleanup \/ Tick \/ UNCHANGED vars) => OneOwner'
<1> SUFFICES ASSUME OwnerInv, Cleanup \/ Tick \/ UNCHANGED vars PROVE OneOwner'
  OBVIOUS
<1> TypeOK /\ OneOwner
  BY DEF OwnerInv, ChunkInv
<1>1. \A k \in Keys : uploads'[k] # None => /\ uploads[k] # None
                                            /\ uploads'[k].chunks = uploads[k].chunks
  BY TickKeepsUploads DEF Cleanup, Evict, RemoveVictim, ScanChunks, EndCleanup, vars
<1>2. \A r \in Requests : /\ file'[r] = file[r]
                          /\ claim'[r] # None => claim[r] # None /\ claim'[r].chunks = claim[r].chunks
  BY TickKeepsUploads DEF Cleanup, Evict, RemoveVictim, ScanChunks, EndCleanup, Tick, vars, reqVars
<1>3. \A k \in Keys, f \in Files : Stores(k, f)' => Stores(k, f)
  BY <1>1 DEF Stores
<1>4. \A r \in Requests, f \in Files : Holds(r, f)' => Holds(r, f)
  BY <1>2 DEF Holds
<1> QED BY <1>3, <1>4 DEF OneOwner

LEMMA NextFilesSeparate == OwnerInv /\ [Next]_vars => FilesSeparate'
<1> SUFFICES ASSUME OwnerInv, [Next]_vars PROVE FilesSeparate'
  OBVIOUS
<1> TypeOK /\ Shape /\ OneOwner /\ FilesSeparate
  BY DEF OwnerInv, ChunkInv
<1>1. ASSUME NEW r \in Requests, Patch(r) \/ Step(r) \/ Cancel(r) PROVE FilesSeparate'
  <2>0. \A s \in Requests : s # r => claim'[s] = claim[s]
    BY <1>1, StepOthersStable
  <2>1. CASE Keeps(r)
    <3>1. uploads' = uploads /\ claim'[r] \in {claim[r], None}
      BY <2>1, KeepsHoldings
    <3> QED BY <2>0, <3>1 DEF FilesSeparate, SeparateFiles
  <2>2. CASE CreateFile(r)
    BY <2>2 DEF CreateFile, FilesSeparate, SeparateFiles
  <2>3. CASE Commit(r)
    <3> DEFINE k == patch[r].key
    <3>1. k \in Keys /\ patch[r] # None /\ file[r] \in Files /\ file[r] # None
      BY <2>3, CommitEnds, ChunkAssumption DEF ChunkAssumption
    <3>2. uploads[k] # None => file[r] \notin FilesOf(uploads[k].chunks)
      BY <3>1 DEF OneOwner, Stores, Holds
    <3>3. SeparateFiles(Extended(r))
      <4>1. Chunk(r).file = file[r]
        BY DEF Chunk
      <4>2. CASE uploads[k] = None
        <5>1. Extended(r).chunks = {Chunk(r)}
          BY <3>1, <4>2, ExtendedChunks
        <5> QED BY <5>1 DEF SeparateFiles
      <4>3. CASE uploads[k] # None
        <5>1. Extended(r).chunks = uploads[k].chunks \cup {Chunk(r)}
          BY <3>1, <4>3, ExtendedChunks
        <5>2. SeparateFiles(uploads[k]) /\ \A c \in uploads[k].chunks : c.file # file[r]
          BY <3>1, <3>2, <4>3 DEF FilesSeparate, FilesOf
        <5> HIDE DEF k
        <5> QED BY <4>1, <4>3, <5>1, <5>2 DEF SeparateFiles
      <4> QED BY <4>2, <4>3
    <3>4. claim'[r] \in {None, Extended(r)} /\ \A j \in Keys : uploads'[j] \in {None, uploads[j], Extended(r)}
      BY <2>3, <3>1, CommitEnds DEF TypeOK
    <3> QED BY <2>0, <3>3, <3>4 DEF FilesSeparate, SeparateFiles
  <2>4. CASE Restore(r)
    <3> DEFINE kept == [claim[r] EXCEPT !.chunks = @ \ {Chunk(r)}]
    <3>1. claim[r] # None /\ kept.chunks = claim[r].chunks \ {Chunk(r)}
      BY <2>4, RestoreEnds
    <3>2. SeparateFiles(kept)
      BY <3>1 DEF FilesSeparate, SeparateFiles
    <3>3. claim'[r] \in {None, claim[r]} /\ \A j \in Keys : uploads'[j] \in {uploads[j], kept}
      BY <2>4, RestoreEnds DEF TypeOK
    <3> QED BY <2>0, <3>2, <3>3 DEF FilesSeparate, SeparateFiles
  <2> QED BY <1>1, <2>1, <2>2, <2>3, <2>4 DEF Step, Keeps
<1>2. CASE Cleanup \/ UNCHANGED vars
  <2>1. (\A k \in Keys : uploads'[k] \in {None, uploads[k]}) /\ claim' = claim
    BY <1>2 DEF Cleanup, Evict, RemoveVictim, ScanChunks, EndCleanup, vars, reqVars
  <2> QED BY <2>1 DEF FilesSeparate, SeparateFiles
<1>3. CASE Tick
  <2>1. \A k \in Keys : SeparateFiles(uploads[k])'
    BY <1>3, TickKeepsUploads DEF FilesSeparate, SeparateFiles
  <2>2. \A r \in Requests : SeparateFiles(claim[r])'
    BY <1>3, TickKeepsUploads DEF FilesSeparate, SeparateFiles
  <2> QED BY <2>1, <2>2 DEF FilesSeparate
<1> QED BY <1>1, <1>2, <1>3 DEF Next

LEMMA OwnerInvHolds == Spec => []OwnerInv
<1>1. Init => OneOwner /\ FilesSeparate
  BY ChunkAssumption DEF ChunkAssumption, Init, OneOwner, Stores, Holds, FilesSeparate, SeparateFiles
<1>2. OwnerInv /\ [Next]_vars => OneOwner'
  BY StepOneOwner, OthersOneOwner DEF Next
<1> QED BY <1>1, <1>2, NextFilesSeparate, ChunkInvHolds, PTL DEF Spec, OwnerInv

-----------------------------------------------------------------------------
(* No chunk file is forgotten.                                              *)

\* The files a request holds when it has a claim are those of the claim.
LEMMA ClaimHolds ==
  ASSUME TypeOK, Shape, NEW r \in Requests, claim[r] # None, NEW f \in Files
  PROVE  Holds(r, f) <=> f \in FilesOf(claim[r].chunks)
<1>1. Chunk(r) \in claim[r].chunks
  BY DEF Shape, Carries
<1>2. Chunk(r).file = file[r]
  BY DEF Chunk
<1>3. file[r] \in FilesOf(claim[r].chunks)
  BY <1>1, <1>2 DEF FilesOf
<1> QED BY <1>3 DEF Holds

LEMMA StepDiscardsAll ==
  ASSUME OwnerInv, DiscardsAll, NEW r \in Requests, Patch(r) \/ Step(r) \/ Cancel(r)
  PROVE  DiscardsAll'
<1> TypeOK /\ Shape /\ OneOwner
  BY DEF OwnerInv, ChunkInv
<1> USE ChunkAssumption DEF ChunkAssumption
<1>1. ASSUME NEW s \in Requests, s # r, NEW f \in Files,
             (pc[s] = "discard")', Holds(s, f)', disk'[f] # None
      PROVE  f \in drop'[s]
  <2>1. pc'[s] = pc[s] /\ drop'[s] = drop[s] /\ Holds(s, f)
    BY <1>1, StepOthersStable, OthersHoldTheSame
  <2>2. CASE CreateFile(r)
    <3>1. disk'[f] = disk[f] \/ f \in Fresh
      BY <2>2 DEF CreateFile, TypeOK
    <3>2. f \notin Fresh
      BY <2>1, OwnersAre DEF Fresh
    <3> QED BY <1>1, <2>1, <3>1, <3>2 DEF DiscardsAll
  <2>3. CASE StreamBody(r)
    <3>1. f # file[r]
      BY <1>1, <2>1 DEF OneOwner, Holds
    <3>2. disk'[f] = disk[f]
      BY <2>3, <3>1 DEF StreamBody, TypeOK
    <3> QED BY <1>1, <2>1, <3>2 DEF DiscardsAll
  <2>4. CASE ~CreateFile(r) /\ ~StreamBody(r)
    <3>1. disk'[f] \in {disk[f], None}
      BY <1>1, <2>4 DEF Step, Patch, Reserve, AbortBody, Release, Commit, Charge, Restore, LoseTempDir,
                 ReadChunk, PublishRebuilt, Discard, Cancel, TypeOK
    <3> QED BY <1>1, <2>1, <3>1 DEF DiscardsAll
  <2> QED BY <2>2, <2>3, <2>4
<1>2. ASSUME NEW f \in Files, (pc[r] = "discard")', Holds(r, f)', disk'[f] # None
      PROVE  f \in drop'[r]
  <2>1. CASE Commit(r)
    BY <1>2, <2>1, CommitEnds DEF Holds
  <2>2. CASE Restore(r)
    <3>1. claim[r] # None /\ file[r] # None
      BY <2>2 DEF Restore, Shape, Carries
    <3>2. claim'[r] = claim[r] \/ claim'[r] = None
      BY <2>2, RestoreEnds
    <3>3. Holds(r, f)
      BY <1>2, <2>2, <3>2, RestoreEnds DEF Holds
    <3>4. f \in FilesOf(claim[r].chunks)
      BY <3>1, <3>3, ClaimHolds
    <3>5. CASE drop'[r] = FilesOf(claim[r].chunks)
      BY <3>4, <3>5
    <3>6. CASE claim'[r] = None /\ drop'[r] = {file[r]}
      <4>1. f = file[r]
        BY <1>2, <2>2, <3>6, RestoreEnds DEF Holds
      <4> QED BY <3>6, <4>1
    <3> QED BY <2>2, <3>5, <3>6, RestoreEnds
  <2>3. CASE Charge(r) \/ ReadChunk(r) \/ PublishRebuilt(r)
    <3>1. claim[r] # None /\ Holds(r, f)
      BY <1>2, <2>3 DEF Charge, ReadChunk, PublishRebuilt, Shape, Carries, Holds
    <3>2. f \in FilesOf(claim[r].chunks)
      BY <3>1, ClaimHolds
    <3>3. drop'[r] = FilesOf(claim[r].chunks)
      BY <1>2, <2>3 DEF Charge, ReadChunk, PublishRebuilt, GoTo, TypeOK
    <3> QED BY <3>2, <3>3
  <2>4. CASE Discard(r)
    <3>1. pc[r] = "discard" /\ UNCHANGED <<file, claim>>
      BY <1>2, <2>4 DEF Discard, Return, TypeOK
    <3>2. Holds(r, f)
      BY <1>2, <3>1 DEF Holds
    <3>3. PICK g \in drop[r] : disk' = [disk EXCEPT ![g] = None] /\ drop' = [drop EXCEPT ![r] = @ \ {g}]
      BY <1>2, <2>4 DEF Discard, Return, TypeOK
    <3>4. f # g /\ disk[f] # None
      BY <1>2, <3>3 DEF TypeOK
    <3> QED BY <3>1, <3>2, <3>3, <3>4 DEF DiscardsAll, TypeOK
  <2>5. CASE Patch(r) \/ CreateFile(r) \/ StreamBody(r) \/ AbortBody(r)
    BY <1>2, <2>5 DEF Patch, Reserve, CreateFile, StreamBody, AbortBody, GoTo, TypeOK
  <2>6. CASE Release(r) \/ LoseTempDir(r) \/ Cancel(r)
    BY <1>2, <2>6 DEF Release, LoseTempDir, Cancel, Return, TypeOK
  <2> QED BY <2>1, <2>2, <2>3, <2>4, <2>5, <2>6 DEF Step
<1> QED BY <1>1, <1>2 DEF DiscardsAll

LEMMA NextDiscardsAll == OwnerInv /\ DiscardsAll /\ [Next]_vars => DiscardsAll'
<1> SUFFICES ASSUME OwnerInv, DiscardsAll, Cleanup \/ Tick \/ UNCHANGED vars PROVE DiscardsAll'
  BY StepDiscardsAll DEF Next
<1> TypeOK
  BY DEF OwnerInv, ChunkInv
<1>1. UNCHANGED <<pc, drop, file>>
  BY DEF Cleanup, Evict, RemoveVictim, ScanChunks, EndCleanup, Tick, vars, reqVars
<1>2. \A r \in Requests : claim'[r] # None => claim[r] # None /\ claim'[r].chunks = claim[r].chunks
  BY TickKeepsUploads DEF Cleanup, Evict, RemoveVictim, ScanChunks, EndCleanup, vars, reqVars
<1>3. \A r \in Requests, f \in Files : Holds(r, f)' => Holds(r, f)
  BY <1>1, <1>2 DEF Holds
<1>4. \A f \in Files : disk'[f] # None => disk[f] # None
  BY DEF Cleanup, Evict, RemoveVictim, ScanChunks, EndCleanup, Tick, vars, TypeOK
<1> QED BY <1>1, <1>3, <1>4 DEF DiscardsAll

Owned(f) == (\E k \in Keys : Stores(k, f)) \/ (\E r \in Requests : Holds(r, f))

LEMMA NoneForgotten == NoForgottenFile <=> \A f \in Files : disk[f] # None => Owned(f) \/ f \in victims
  BY OwnersAre DEF NoForgottenFile, Owned

LEMMA StepForgetsNone ==
  ASSUME OwnerInv, DiscardsAll, NEW r \in Requests, Patch(r) \/ Step(r), "tempdir" \notin Faults,
         NEW f \in Files, disk'[f] # None, disk[f] # None => Owned(f) \/ f \in victims
  PROVE  Owned(f)' \/ f \in victims'
<1> TypeOK /\ Shape
  BY DEF OwnerInv, ChunkInv
<1> USE ChunkAssumption DEF ChunkAssumption
<1>1. victims' = victims
  BY DEF Step, Patch, Reserve, CreateFile, StreamBody, AbortBody, Release, Commit, Charge, Restore,
         LoseTempDir, ReadChunk, PublishRebuilt, Discard, jobVars
<1>2. \A s \in Requests \ {r} : Holds(s, f)' <=> Holds(s, f)
  BY OthersHoldTheSame
\* It is enough that what r held or took from its session is held after the step.
<1>3. ASSUME disk[f] # None,
             \A k \in Keys : Stores(k, f) => Owned(f)',
             Holds(r, f) => Owned(f)'
      PROVE  Owned(f)' \/ f \in victims'
  BY <1>1, <1>2, <1>3 DEF Owned
<1>4. CASE CreateFile(r) \/ StreamBody(r)
  <2>1. \A k \in Keys : Stores(k, f)' <=> Stores(k, f)
    BY <1>4 DEF CreateFile, StreamBody, Stores
  <2>2. Holds(r, f) => Holds(r, f)'
    BY <1>4 DEF CreateFile, StreamBody, Holds, Shape, Carries
  <2>3. disk'[f] = disk[f] \/ Holds(r, f)'
    BY <1>4 DEF CreateFile, StreamBody, Holds, Fresh, TypeOK
  <2> QED BY <1>3, <2>1, <2>2, <2>3 DEF Owned
<1>5. CASE Patch(r) \/ Charge(r) \/ ReadChunk(r) \/ PublishRebuilt(r)
  <2>1. UNCHANGED <<uploads, file, claim, disk>>
    BY <1>5 DEF Patch, Reserve, Charge, ReadChunk, PublishRebuilt
  <2> QED BY <1>3, <2>1 DEF Owned, Stores, Holds
<1>6. CASE AbortBody(r)
  <2>1. uploads' = uploads /\ claim[r] = None
    BY <1>6 DEF AbortBody, Shape, Carries
  <2>2. f # file[r] /\ disk'[f] = disk[f]
    BY <1>6 DEF AbortBody, TypeOK
  <2> QED BY <1>3, <2>1, <2>2 DEF Owned, Stores, Holds
<1>7. CASE Release(r)
  <2>1. UNCHANGED <<uploads, disk>> /\ file[r] = None /\ claim[r] = None
    BY <1>7 DEF Release, Shape, Carries
  <2> QED BY <1>3, <2>1 DEF Owned, Stores, Holds
<1>8. CASE Commit(r)
  <2> PICK k \in Keys : k = patch[r].key
    BY <1>8, CommitEnds
  <2>0. disk' = disk
    BY <1>8 DEF Commit
  <2>1. patch[r] # None /\ file[r] \in Files /\ file[r] # None /\ claim[r] = None
    BY <1>8, CommitEnds
  <2>2. /\ Extended(r) # None
        /\ f = file[r] \/ Stores(k, f) => f \in FilesOf(Extended(r).chunks)
    BY <2>1, FilesOfExtended, ExtendedType
  <2>3. CASE uploads' = uploads /\ claim'[r] = None /\ file'[r] = file[r]
    BY <1>3, <2>0, <2>1, <2>3 DEF Owned, Stores, Holds
  <2>4. CASE uploads' = [uploads EXCEPT ![k] = None] /\ claim'[r] = Extended(r) /\ file'[r] = file[r]
    <3>1. \A j \in Keys : j # k /\ Stores(j, f) => Stores(j, f)'
      BY <2>1, <2>4 DEF Stores, TypeOK
    <3>2. f = file[r] \/ Stores(k, f) => Holds(r, f)'
      BY <2>2, <2>4 DEF Holds
    <3>3. \A j \in Keys : Stores(j, f) => Owned(f)'
      BY <3>1, <3>2 DEF Owned
    <3>4. Holds(r, f) => Owned(f)'
      BY <2>1, <3>2 DEF Owned, Holds
    <3> QED BY <1>3, <2>0, <3>3, <3>4
  <2>5. CASE uploads' = [uploads EXCEPT ![k] = Extended(r)] /\ claim'[r] = None /\ file'[r] = None
    <3>1. \A j \in Keys : j # k /\ Stores(j, f) => Stores(j, f)'
      BY <2>1, <2>5 DEF Stores, TypeOK
    <3>2. uploads'[k] = Extended(r)
      BY <2>1, <2>5 DEF TypeOK
    <3>3. f = file[r] \/ Stores(k, f) => Stores(k, f)'
      BY <2>2, <3>2 DEF Stores
    <3>4. \A j \in Keys : Stores(j, f) => Owned(f)'
      BY <2>1, <3>1, <3>3 DEF Owned
    <3>5. Holds(r, f) => Owned(f)'
      BY <2>1, <3>3 DEF Owned, Holds
    <3> QED BY <1>3, <2>0, <3>4, <3>5
  <2> QED BY <1>8, <2>3, <2>4, <2>5, CommitEnds
<1>9. CASE Restore(r)
  <2> PICK k \in Keys : k = patch[r].key
    BY <1>9, RestoreEnds
  <2> DEFINE kept == [claim[r] EXCEPT !.chunks = @ \ {Chunk(r)}]
  <2>0. disk' = disk
    BY <1>9 DEF Restore
  <2>1. /\ claim[r] # None /\ kept # None
        /\ kept.chunks = claim[r].chunks \ {Chunk(r)} /\ file'[r] = file[r]
    BY <1>9, RestoreEnds
  <2>2. CASE uploads' = uploads /\ claim'[r] = claim[r]
    BY <1>3, <2>0, <2>1, <2>2 DEF Owned, Stores, Holds
  <2>3. CASE k \notin Live /\ uploads' = [uploads EXCEPT ![k] = kept] /\ claim'[r] = None
    <3>1. ~Stores(k, f) /\ uploads'[k] = kept
      BY <2>1, <2>3 DEF Live, Stores, TypeOK
    <3>2. \A j \in Keys : j # k /\ Stores(j, f) => Stores(j, f)'
      BY <2>1, <2>3 DEF Stores, TypeOK
    <3>3. Holds(r, f) => f = file[r] \/ f \in FilesOf(kept.chunks)
      BY <2>1 DEF Holds, FilesOf, Chunk
    <3>4. Holds(r, f) => Holds(r, f)' \/ Stores(k, f)'
      BY <2>1, <3>1, <3>3 DEF Holds, Stores
    <3>5. \A j \in Keys : Stores(j, f) => Owned(f)'
      BY <3>1, <3>2 DEF Owned
    <3>6. Holds(r, f) => Owned(f)'
      BY <2>1, <3>4 DEF Owned
    <3> QED BY <1>3, <2>0, <3>5, <3>6
  <2> QED BY <1>9, <2>2, <2>3, RestoreEnds
<1>10. CASE Discard(r)
  <2>0. uploads' = uploads /\ pc[r] = "discard"
    BY <1>10 DEF Discard
  <2>1. disk[f] # None
    BY <1>10 DEF Discard, TypeOK
  <2>2. CASE UNCHANGED <<file, claim>>
    BY <1>3, <2>0, <2>1, <2>2 DEF Owned, Stores, Holds
  <2>3. CASE drop[r] = {}
    <3>1. ~Holds(r, f)
      BY <2>0, <2>1, <2>3 DEF DiscardsAll
    <3> QED BY <1>3, <2>0, <2>1, <3>1 DEF Owned, Stores
  <2> QED BY <1>10, <2>2, <2>3 DEF Discard
<1> QED BY <1>4, <1>5, <1>6, <1>7, <1>8, <1>9, <1>10 DEF Step, LoseTempDir

LEMMA CleanupForgetsNone ==
  ASSUME OwnerInv, SweptWhenAsleep, Cleanup \/ Tick \/ UNCHANGED vars,
         NEW f \in Files, disk'[f] # None, disk[f] # None => Owned(f) \/ f \in victims
  PROVE  Owned(f)' \/ f \in victims'
<1> TypeOK
  BY DEF OwnerInv, ChunkInv
<1>1. CASE Evict
  <2>1. UNCHANGED <<disk, file, claim>> /\ phase = "sleep"
    BY <1>1 DEF Evict, reqVars
  <2>2. CASE \E k \in Keys : Stores(k, f) /\ Abandoned(k)
    BY <1>1, <2>2 DEF Evict, Stores
  <2>3. CASE \E k \in Keys : Stores(k, f) /\ ~Abandoned(k)
    BY <1>1, <2>3 DEF Evict, Stores, Owned
  <2>4. CASE \E r \in Requests : Holds(r, f)
    BY <2>1, <2>4 DEF Holds, Owned
  <2> QED BY <2>1, <2>2, <2>3, <2>4 DEF Owned, SweptWhenAsleep
<1>2. CASE RemoveVictim
  <2>1. PICK g \in victims : victims' = victims \ {g} /\ disk' = [disk EXCEPT ![g] = None]
    BY <1>2 DEF RemoveVictim
  <2>2. f # g /\ disk[f] # None
    BY <2>1 DEF TypeOK
  <2>3. UNCHANGED <<uploads, file, claim>>
    BY <1>2 DEF RemoveVictim, reqVars
  <2> QED BY <2>1, <2>2, <2>3 DEF Owned, Stores, Holds
<1>3. CASE ScanChunks \/ EndCleanup \/ UNCHANGED vars
  <2>1. UNCHANGED <<uploads, file, claim, disk>> /\ (victims = {} \/ victims' = victims)
    BY <1>3 DEF ScanChunks, EndCleanup, vars, reqVars, jobVars
  <2> QED BY <2>1 DEF Owned, Stores, Holds
<1>4. CASE Tick
  <2>1. UNCHANGED <<file, victims>> /\ disk[f] # None
    BY <1>4 DEF Tick, jobVars, TypeOK
  <2>2. \A k \in Keys : Stores(k, f) => Stores(k, f)'
    BY <1>4, TickKeepsUploads DEF Stores
  <2>3. \A r \in Requests : Holds(r, f) => Holds(r, f)'
    BY <1>4, <2>1, TickKeepsUploads DEF Holds
  <2> QED BY <2>1, <2>2, <2>3 DEF Owned
<1> QED BY <1>1, <1>2, <1>3, <1>4 DEF Cleanup

LEMMA NextSweptWhenAsleep == SweptWhenAsleep /\ [Next]_vars => SweptWhenAsleep'
<1> SUFFICES ASSUME SweptWhenAsleep, [Next]_vars PROVE SweptWhenAsleep'
  OBVIOUS
<1>1. ASSUME NEW r \in Requests, Patch(r) \/ Step(r) \/ Cancel(r) PROVE UNCHANGED jobVars
  BY <1>1 DEF Patch, Reserve, Step, CreateFile, StreamBody, AbortBody, Release, Commit, Charge,
              Restore, LoseTempDir, ReadChunk, PublishRebuilt, Discard, Cancel
<1>2. CASE Cleanup
  BY <1>2 DEF Cleanup, Evict, RemoveVictim, ScanChunks, EndCleanup, SweptWhenAsleep
<1>3. CASE UNCHANGED jobVars
  BY <1>3 DEF SweptWhenAsleep, jobVars
<1>4. Tick \/ UNCHANGED vars => UNCHANGED jobVars
  BY DEF Tick, vars, jobVars
<1> QED BY <1>1, <1>2, <1>3, <1>4 DEF Next

\* A chunk is never counted, charged, rebuilt or discarded through two sessions
\* or requests, whichever of them fail or are dropped.
THEOREM ChunksHaveOneOwner == Spec => []ChunkOwnedOnce
  BY OwnerInvHolds, OneOwnerCounts, PTL DEF OwnerInv

\* "Clean every temporary path on both success and failure": as long as no
\* request is cut off and the temporary directory can be made, every chunk file
\* on disk has one owner or is on the cleanup job's list.
THEOREM EveryFileIsAccounted ==
  ASSUME "cancel" \notin Faults, "tempdir" \notin Faults PROVE Spec => []FilesAccounted
<1>1. Init => FilesInv \/ ~OwnerInv
  BY DEF Init, FilesInv, DiscardsAll, SweptWhenAsleep, NoForgottenFile
<1>2. FilesInv /\ [Next]_vars /\ OwnerInv' => FilesInv'
  <2> SUFFICES ASSUME FilesInv, [Next]_vars, OwnerInv' PROVE FilesInv'
    OBVIOUS
  <2>1. OwnerInv /\ DiscardsAll /\ SweptWhenAsleep
    BY DEF FilesInv
  <2>2. \A f \in Files : disk[f] # None => Owned(f) \/ f \in victims
    BY NoneForgotten DEF FilesInv
  <2>3. \A f \in Files : (disk'[f] # None => Owned(f)' \/ f \in victims')
    BY <2>1, <2>2, StepForgetsNone, CleanupForgetsNone DEF Next, Cancel
  <2>4. NoForgottenFile'
    BY <2>3 DEF NoForgottenFile, Owned, OwnersOf, Stores, Holds
  <2> QED BY <2>1, <2>4, NextDiscardsAll, NextSweptWhenAsleep DEF FilesInv
<1>3. FilesInv => FilesAccounted
  BY OneOwnerCounts DEF FilesInv, OwnerInv, ChunkInv, FilesAccounted
<1> QED BY <1>1, <1>2, <1>3, OwnerInvHolds, PTL DEF Spec

-----------------------------------------------------------------------------
(* The limits.                                                              *)

\* Sessions of one owner among those that are stored or reserved.
LiveOf(o) == {k \in Live : k.pubkey = o}

\* Where every upload is paid for, no session is restored, and a session is live
\* only if it was before or has just been admitted.
LEMMA LiveGrowsByReserve ==
  ASSUME ChunkInv, [Next]_vars, "unpaid" \notin Faults, \A r \in Requests : pc[r] # "restore"
  PROVE  /\ \A r \in Requests : pc'[r] # "restore"
         /\ Live' \subseteq Live \/ \E k \in Keys : MayReserve(k) /\ Live' \subseteq Live \cup {k}
<1> TypeOK /\ Shape /\ TicketsCounted /\ TypeOK'
  BY NextTypeOK DEF ChunkInv
<1>1. CASE \E r \in Requests : Patch(r)
  <2> PICK r \in Requests, k \in Keys, p \in Params, off \in Offsets, len \in Offsets : Reserve(r, k, p, off, len)
    BY <1>1 DEF Patch
  <2>1. \A s \in Requests : pc'[s] # "restore"
    BY DEF Reserve, GoTo, TypeOK
  <2>2. MayReserve(k) /\ Live' \subseteq Live \cup {k}
    BY DEF Reserve, Live, TypeOK
  <2> QED BY <2>1, <2>2
<1>2. CASE \E r \in Requests : Step(r) \/ Cancel(r)
  <2> PICK r \in Requests : Step(r) \/ Cancel(r)
    BY <1>2
  <2>0. \A s \in Requests : s # r => pc'[s] = pc[s]
    BY StepOthersStable
  <2>1. CASE Commit(r)
    <3> DEFINE k == patch[r].key
    <3>1. k \in Keys /\ pc'[r] # "restore"
      BY <2>1, CommitEnds
    <3>2. \A j \in Keys : pending'[j] > 0 => pending[j] > 0
      BY <2>1, ConsumedType DEF Commit, TypeOK
    <3>3. \A j \in Keys : uploads'[j] # None => uploads[j] # None \/ (j = k /\ pending[j] # 0)
      BY <2>1, <3>1, CommitEnds DEF Conflicts, TypeOK
    <3>4. Live' \subseteq Live
      BY <3>2, <3>3 DEF Live, TypeOK
    <3> QED BY <2>0, <3>1, <3>4
  <2>2. CASE Release(r)
    <3>1. \A j \in Keys : pending'[j] > 0 => pending[j] > 0
      BY <2>2, ConsumedType DEF Release, TypeOK
    <3>2. uploads' = uploads /\ pc'[r] # "restore"
      BY <2>2 DEF Release, Return, TypeOK
    <3> QED BY <2>0, <3>1, <3>2 DEF Live
  <2>3. CASE ~Commit(r) /\ ~Release(r)
    <3>1. ~Restore(r)
      BY DEF Restore
    <3>2. UNCHANGED <<uploads, pending>>
      BY <2>3, <3>1 DEF Step, CreateFile, StreamBody, AbortBody, Charge, LoseTempDir, ReadChunk,
                        PublishRebuilt, Discard, Cancel
    <3>3. pc'[r] # "restore"
      BY <2>3, <3>1 DEF Step, CreateFile, StreamBody, AbortBody, Charge, LoseTempDir, ReadChunk,
                        PublishRebuilt, Discard, Cancel, Return, GoTo, TypeOK
    <3> QED BY <2>0, <3>2, <3>3 DEF Live
  <2> QED BY <2>1, <2>2, <2>3
<1>3. CASE Cleanup \/ Tick \/ UNCHANGED vars
  <2>1. UNCHANGED <<pc, pending>>
    BY <1>3 DEF Cleanup, Evict, RemoveVictim, ScanChunks, EndCleanup, Tick, vars, reqVars
  <2>2. \A k \in Keys : uploads'[k] # None => uploads[k] # None
    BY <1>3, TickKeepsUploads DEF Cleanup, Evict, RemoveVictim, ScanChunks, EndCleanup, vars
  <2> QED BY <2>1, <2>2 DEF Live
<1> QED BY <1>1, <1>2, <1>3 DEF Next

\* Adding one key to sets within their limits, where the check allows it.
LEMMA AdmittedStaysWithin ==
  ASSUME IsFiniteSet(Live), CapacityRespected, NEW k \in Keys, MayReserve(k), k \notin Live
  PROVE  /\ IsFiniteSet(Live \cup {k}) /\ Cardinality(Live \cup {k}) <= MaxSessions
         /\ \A o \in Owners : Cardinality({j \in Live \cup {k} : j.pubkey = o}) <= MaxSessionsPerPubkey
<1> USE ChunkAssumption DEF ChunkAssumption
<1>1. Cardinality(Live) < MaxSessions /\ Cardinality(LiveOf(k.pubkey)) < MaxSessionsPerPubkey
  BY DEF MayReserve, LiveOf
<1>2. Cardinality(Live) \in Nat /\ Cardinality(Live \cup {k}) = Cardinality(Live) + 1
      /\ IsFiniteSet(Live \cup {k})
  BY FS_AddElement, FS_CardinalityType
<1>3. ASSUME NEW o \in Owners
      PROVE  Cardinality({j \in Live \cup {k} : j.pubkey = o}) <= MaxSessionsPerPubkey
  <2>1. IsFiniteSet(LiveOf(o)) /\ Cardinality(LiveOf(o)) \in Nat
    BY FS_Subset, FS_CardinalityType DEF LiveOf
  <2>2. Cardinality(LiveOf(o)) <= MaxSessionsPerPubkey
    BY DEF CapacityRespected, LiveOf
  <2>3. CASE k.pubkey = o
    <3>1. {j \in Live \cup {k} : j.pubkey = o} = LiveOf(o) \cup {k}
      BY <2>3 DEF LiveOf
    <3>2. Cardinality(LiveOf(o) \cup {k}) = Cardinality(LiveOf(o)) + 1
      BY <2>1, FS_AddElement DEF LiveOf
    <3> QED BY <1>1, <2>1, <2>3, <3>1, <3>2
  <2>4. CASE k.pubkey # o
    <3>1. {j \in Live \cup {k} : j.pubkey = o} = LiveOf(o)
      BY <2>4 DEF LiveOf
    <3> QED BY <2>2, <3>1
  <2> QED BY <2>3, <2>4
<1> QED BY <1>1, <1>2, <1>3

\* Fewer sessions respect the limits as well.
LEMMA FewerStayWithin ==
  ASSUME NEW S, NEW T \in SUBSET S, IsFiniteSet(S), Cardinality(S) <= MaxSessions,
         \A o \in Owners : Cardinality({j \in S : j.pubkey = o}) <= MaxSessionsPerPubkey
  PROVE  /\ IsFiniteSet(T) /\ Cardinality(T) <= MaxSessions
         /\ \A o \in Owners : Cardinality({j \in T : j.pubkey = o}) <= MaxSessionsPerPubkey
<1> USE ChunkAssumption DEF ChunkAssumption
<1>1. IsFiniteSet(T) /\ Cardinality(T) <= Cardinality(S) /\ Cardinality(T) \in Nat /\ Cardinality(S) \in Nat
  BY FS_Subset, FS_CardinalityType
<1>2. ASSUME NEW o \in Owners PROVE Cardinality({j \in T : j.pubkey = o}) <= MaxSessionsPerPubkey
  <2> DEFINE A == {j \in S : j.pubkey = o}
             B == {j \in T : j.pubkey = o}
  <2>1. IsFiniteSet(A) /\ B \in SUBSET A
    BY FS_Subset
  <2>2. Cardinality(B) <= Cardinality(A) /\ Cardinality(A) \in Nat /\ Cardinality(B) \in Nat
    BY <2>1, FS_Subset, FS_CardinalityType
  <2>3. Cardinality(A) <= MaxSessionsPerPubkey
    OBVIOUS
  <2> QED BY <2>2, <2>3
<1> QED BY <1>1, <1>2

\* "max_sessions" and "max_sessions_per_pubkey" bound the sessions stored and
\* reserved at any time, as long as no unpaid upload is put back (restore checks
\* no limit).
THEOREM LimitsAreKept ==
  ASSUME "unpaid" \notin Faults PROVE Spec => []CapacityRespected
<1> DEFINE LimitInv == /\ \A r \in Requests : pc[r] # "restore"
                       /\ IsFiniteSet(Live) /\ CapacityRespected
<1>1. Init => LimitInv
  <2> SUFFICES ASSUME Init PROVE LimitInv
    OBVIOUS
  <2>1. Live = {} /\ \A r \in Requests : pc[r] # "restore"
    BY DEF Init, Live
  <2>2. \A o \in Owners : {k \in Live : k.pubkey = o} = {}
    BY <2>1
  <2> QED BY <2>1, <2>2, FS_EmptySet, ChunkAssumption DEF CapacityRespected, ChunkAssumption
<1>2. ChunkInv /\ LimitInv /\ [Next]_vars => LimitInv'
  <2> SUFFICES ASSUME ChunkInv, LimitInv, [Next]_vars PROVE LimitInv'
    OBVIOUS
  <2>1. /\ \A r \in Requests : pc'[r] # "restore"
        /\ Live' \subseteq Live \/ \E k \in Keys : MayReserve(k) /\ Live' \subseteq Live \cup {k}
    BY LiveGrowsByReserve
  <2>2. \E S : /\ Live' \subseteq S /\ IsFiniteSet(S) /\ Cardinality(S) <= MaxSessions
               /\ \A o \in Owners : Cardinality({j \in S : j.pubkey = o}) <= MaxSessionsPerPubkey
    <3>1. CASE Live' \subseteq Live
      BY <3>1 DEF CapacityRespected
    <3>2. ASSUME NEW k \in Keys, MayReserve(k), Live' \subseteq Live \cup {k}, k \notin Live
          PROVE  \E S : /\ Live' \subseteq S /\ IsFiniteSet(S) /\ Cardinality(S) <= MaxSessions
                        /\ \A o \in Owners : Cardinality({j \in S : j.pubkey = o}) <= MaxSessionsPerPubkey
      <4> WITNESS Live \cup {k}
      <4> QED BY <3>2, AdmittedStaysWithin
    <3> QED BY <2>1, <3>1, <3>2
  <2>3. IsFiniteSet(Live') /\ CapacityRespected'
    BY <2>2, FewerStayWithin DEF CapacityRespected
  <2> QED BY <2>1, <2>3
<1>3. LimitInv => CapacityRespected
  OBVIOUS
<1> HIDE DEF LimitInv
<1> QED BY <1>1, <1>2, <1>3, ChunkInvHolds, PTL DEF Spec

-----------------------------------------------------------------------------
(* A completed upload has no gap.                                           *)

\* A function that adds up lengths the way MapThenSumSet does.
Sums(S, g) == g = [s \in SUBSET S |-> IF s = {} THEN 0
                     ELSE (CHOOSE c \in s : TRUE).len + g[s \ {CHOOSE c \in s : TRUE}]]

\* The bytes of each chunk.
Bytes(S) == {b \in S \X Nat : b[1].off <= b[2] /\ b[2] < b[1].off + b[1].len}

LEMMA ChunkType == ASSUME NEW c \in Chunks PROVE c.off \in Nat /\ c.len \in Nat
  BY ChunkAssumption DEF ChunkAssumption, Offsets, Chunks

\* The bytes of one chunk are as many as its length, and adding a chunk adds them.
LEMMA BytesOfOne ==
  ASSUME NEW c \in Chunks
  PROVE  IsFiniteSet(Bytes({c})) /\ Cardinality(Bytes({c})) = c.len
<1> DEFINE I == c.off..(c.off + c.len - 1)
           f == [i \in I |-> <<c, i>>]
<1>0. c.off \in Nat /\ c.len \in Nat
  BY ChunkType
<1>1. IsFiniteSet(I) /\ Cardinality(I) = c.len
  <2> DEFINE n == c.off + c.len - 1
  <2>1. c.off \in Int /\ n \in Int /\ (c.off > n <=> c.len = 0) /\ n - c.off + 1 = c.len
    BY <1>0
  <2>2. IsFiniteSet(c.off..n) /\ Cardinality(c.off..n) = IF c.off > n THEN 0 ELSE n - c.off + 1
    BY <2>1, FS_Interval
  <2> QED BY <2>1, <2>2
<1>2. Bytes({c}) = {<<c, i>> : i \in I}
  BY <1>0 DEF Bytes
<1>3. f \in Bijection(I, Bytes({c}))
  <2>1. f \in [I -> Bytes({c})] /\ \A b \in Bytes({c}) : \E i \in I : f[i] = b
    BY <1>2
  <2>2. \A i, j \in I : f[i] = f[j] => i = j
    OBVIOUS
  <2> QED BY <2>1, <2>2, Fun_IsBij
<1> QED BY <1>1, <1>3, FS_Bijection DEF ExistsBijection

LEMMA BytesOfMore ==
  ASSUME NEW S \in SUBSET Chunks, IsFiniteSet(Bytes(S)), NEW c \in Chunks, c \notin S
  PROVE  /\ IsFiniteSet(Bytes(S \cup {c}))
         /\ Cardinality(Bytes(S \cup {c})) = c.len + Cardinality(Bytes(S))
<1>1. Bytes(S \cup {c}) = Bytes(S) \cup Bytes({c})
  BY Zenon DEF Bytes
<1>0. Bytes(S) \cap Bytes({c}) = {}
  BY DEF Bytes
<1>2. IsFiniteSet(Bytes({c})) /\ Cardinality(Bytes({c})) = c.len
  BY BytesOfOne
<1>3. Cardinality(Bytes(S)) \in Nat /\ c.len \in Nat /\ Cardinality(Bytes(S) \cap Bytes({c})) = 0
  BY <1>0, ChunkType, FS_CardinalityType, FS_EmptySet
<1>4. /\ IsFiniteSet(Bytes(S) \cup Bytes({c}))
      /\ Cardinality(Bytes(S) \cup Bytes({c})) =
           Cardinality(Bytes(S)) + Cardinality(Bytes({c})) - Cardinality(Bytes(S) \cap Bytes({c}))
  BY <1>2, FS_Union
<1>5. Cardinality(Bytes(S) \cup Bytes({c})) = c.len + Cardinality(Bytes(S))
  BY <1>2, <1>3, <1>4
<1> QED BY <1>1, <1>4, <1>5

\* A family of subsets of a finite set has a minimal member: what induction over
\* a finite set comes down to.
LEMMA MinimalSubset ==
  ASSUME NEW S, IsFiniteSet(S), NEW B \in SUBSET (SUBSET S), B # {}
  PROVE  \E T \in B : \A U \in B : U \subseteq T => U = T
<1>1. IsWellFoundedOn(StrictSubsetOrdering(S), SUBSET S)
  BY FS_StrictSubsetOrderingWellFounded, FS_FiniteSubsetsOfFinite
<1>2. \E T \in B : \A U \in B : ~ (<<U, T>> \in StrictSubsetOrdering(S))
  BY <1>1, WFMin
<1>3. \A U \in B, T \in B : U \subseteq T /\ U # T => <<U, T>> \in StrictSubsetOrdering(S)
  BY DEF StrictSubsetOrdering
<1> QED BY <1>2, <1>3

LEMMA BytesFinite ==
  ASSUME NEW S \in SUBSET Chunks, IsFiniteSet(S) PROVE IsFiniteSet(Bytes(S))
<1> DEFINE B == {T \in SUBSET S : ~IsFiniteSet(Bytes(T))}
<1> SUFFICES ASSUME B # {} PROVE FALSE
  OBVIOUS
<1>1. PICK T \in B : \A U \in B : U \subseteq T => U = T
  <2>1. B \in SUBSET (SUBSET S)
    OBVIOUS
  <2> HIDE DEF B
  <2> QED BY <2>1, MinimalSubset
<1>2. T # {}
  <2>1. Bytes({}) = {}
    BY DEF Bytes
  <2> QED BY <2>1, FS_EmptySet
<1>3. PICK c \in T : TRUE
  BY <1>2
<1>4. IsFiniteSet(Bytes(T \ {c}))
  BY <1>1
<1>5. IsFiniteSet(Bytes((T \ {c}) \cup {c}))
  BY <1>4, BytesOfMore
<1>6. (T \ {c}) \cup {c} = T
  OBVIOUS
<1> QED BY <1>5, <1>6

\* What a function that adds up lengths the way the fold does returns.
LEMMA SumsCount ==
  ASSUME NEW S \in SUBSET Chunks, IsFiniteSet(S), NEW g, Sums(S, g)
  PROVE  g[S] = Cardinality(Bytes(S))
<1> DEFINE B == {T \in SUBSET S : g[T] # Cardinality(Bytes(T))}
<1> SUFFICES ASSUME B # {} PROVE FALSE
  OBVIOUS
<1>1. PICK T \in B : \A U \in B : U \subseteq T => U = T
  <2>1. B \in SUBSET (SUBSET S)
    OBVIOUS
  <2> HIDE DEF B
  <2> QED BY <2>1, MinimalSubset
<1> DEFINE c == CHOOSE x \in T : TRUE
<1>2. g[T] = IF T = {} THEN 0 ELSE c.len + g[T \ {c}]
  BY DEF Sums
<1>3. T # {}
  <2>1. Bytes({}) = {}
    BY DEF Bytes
  <2> QED BY <1>2, <2>1, FS_EmptySet
<1>4. c \in T
  BY <1>3
<1> HIDE DEF c
<1>5. g[T \ {c}] = Cardinality(Bytes(T \ {c}))
  BY <1>1, <1>4
<1>6. IsFiniteSet(Bytes(T \ {c}))
  BY BytesFinite, FS_Subset
<1>7. Cardinality(Bytes((T \ {c}) \cup {c})) = c.len + Cardinality(Bytes(T \ {c}))
  BY <1>4, <1>6, BytesOfMore
<1>8. (T \ {c}) \cup {c} = T
  BY <1>4
<1> QED BY <1>2, <1>3, <1>5, <1>7, <1>8

LEMMA SumsExists ==
  ASSUME NEW S \in SUBSET Chunks, IsFiniteSet(S) PROVE \E g : Sums(S, g)
<1> DEFINE g == [s \in SUBSET S |-> Cardinality(Bytes(s))]
<1>1. ASSUME NEW s \in SUBSET S
      PROVE  g[s] = IF s = {} THEN 0
                    ELSE (CHOOSE c \in s : TRUE).len + g[s \ {CHOOSE c \in s : TRUE}]
  <2>1. CASE s = {}
    <3>1. Bytes({}) = {}
      BY DEF Bytes
    <3> QED BY <2>1, <3>1, FS_EmptySet
  <2>2. CASE s # {}
    <3> DEFINE c == CHOOSE x \in s : TRUE
    <3>1. c \in s
      BY <2>2
    <3> HIDE DEF c
    <3>2. IsFiniteSet(Bytes(s \ {c}))
      BY BytesFinite, FS_Subset
    <3>3. Cardinality(Bytes((s \ {c}) \cup {c})) = c.len + Cardinality(Bytes(s \ {c}))
      BY <3>1, <3>2, BytesOfMore
    <3>4. (s \ {c}) \cup {c} = s
      BY <3>1
    <3>5. g[s] = c.len + g[s \ {c}]
      BY <3>3, <3>4
    <3> QED BY <2>2, <3>5 DEF c
  <2> QED BY <2>1, <2>2
<1>2. Sums(S, g)
  BY <1>1 DEF Sums
<1> HIDE DEF g
<1> QED BY <1>2

\* What commit and reconstruct_blob add up is the number of bytes.
LEMMA ReceivedCounts ==
  ASSUME NEW S \in SUBSET Chunks, IsFiniteSet(S)
  PROVE  Received(S) = Cardinality(Bytes(S))
<1>1. Received(S) = (CHOOSE g : Sums(S, g))[S]
  BY DEF Received, MapThenSumSet, MapThenFoldSet, Sums
<1> DEFINE g == CHOOSE g : Sums(S, g)
<1>2. Sums(S, g)
  BY SumsExists
<1> HIDE DEF g
<1>3. g[S] = Cardinality(Bytes(S))
  BY <1>2, SumsCount
<1> QED BY <1>1, <1>3 DEF g

\* The offsets a set of chunks covers, and chunks side by side.
Span(S) == {i \in Nat : \E c \in S : c.off <= i /\ i < c.off + c.len}
Disjoint(S) == \A c, d \in S : Overlaps(c, d) => c = d

LEMMA ReceivedSpan ==
  ASSUME NEW S \in SUBSET Chunks, IsFiniteSet(S), Disjoint(S)
  PROVE  IsFiniteSet(Span(S)) /\ Received(S) = Cardinality(Span(S))
<1> DEFINE f == [b \in Bytes(S) |-> b[2]]
<1>1. f \in [Bytes(S) -> Span(S)]
  BY DEF Bytes, Span
<1>2. ASSUME NEW i \in Span(S) PROVE \E b \in Bytes(S) : f[b] = i
  <2>1. PICK c \in S : c.off <= i /\ i < c.off + c.len
    BY DEF Span
  <2>2. <<c, i>> \in Bytes(S)
    BY <2>1 DEF Bytes, Span
  <2> QED BY <2>2
<1>3. f \in Bijection(Bytes(S), Span(S))
  <2>1. ASSUME NEW a \in Bytes(S), NEW b \in Bytes(S), f[a] = f[b] PROVE a = b
    <3>1. /\ a[1] \in S /\ b[1] \in S /\ a[2] \in Nat /\ a[2] = b[2]
          /\ a[1].off <= a[2] /\ a[2] < a[1].off + a[1].len
          /\ b[1].off <= b[2] /\ b[2] < b[1].off + b[1].len
          /\ a = <<a[1], a[2]>> /\ b = <<b[1], b[2]>>
      BY <2>1 DEF Bytes
    <3>2. a[1].off \in Nat /\ a[1].len \in Nat /\ b[1].off \in Nat /\ b[1].len \in Nat
      BY <3>1, ChunkType
    <3>3. Overlaps(a[1], b[1])
      BY <3>1, <3>2 DEF Overlaps
    <3> QED BY <3>1, <3>3 DEF Disjoint
  <2> QED BY <1>1, <1>2, <2>1, Fun_IsBij
<1>4. ExistsBijection(Bytes(S), Span(S))
  BY <1>3 DEF ExistsBijection
<1> QED BY <1>4, BytesFinite, FS_Bijection, ReceivedCounts

\* Chunks that do not overlap, end within the upload and add up to its length
\* lie side by side.
LEMMA FullMeansCovered ==
  ASSUME NEW u \in Uploads, IsFiniteSet(u.chunks), Disjoint(u.chunks),
         \A c \in u.chunks : c.off + c.len <= u.params.length,
         Received(u.chunks) = u.params.length
  PROVE  Covers(u)
<1> DEFINE S == u.chunks
           L == u.params.length
<1>0. S \in SUBSET Chunks /\ L \in Nat
  BY ChunkAssumption DEF Uploads, Params, ChunkAssumption
<1>1. \A c \in S : c.off \in Nat /\ c.len \in Nat
  BY <1>0, ChunkType
<1>2. IsFiniteSet(Span(S)) /\ Cardinality(Span(S)) = L
  BY <1>0, ReceivedSpan
<1>3. Span(S) \subseteq 0..(L - 1)
  BY <1>0, <1>1 DEF Span
<1>4. Span(S) = 0..(L - 1)
  <2>1. IsFiniteSet(0..(L - 1)) /\ Cardinality(0..(L - 1)) = L
    BY <1>0, FS_Interval
  <2> QED BY <1>2, <1>3, <2>1, FS_Subset
<1>5. ASSUME NEW c \in S PROVE c.off = Received({d \in S : d.off < c.off})
  <2> DEFINE D == {d \in S : d.off < c.off}
  <2>1. D \in SUBSET Chunks /\ IsFiniteSet(D) /\ Disjoint(D)
    BY <1>0, FS_Subset DEF Disjoint
  <2>2. Span(D) \subseteq 0..(c.off - 1)
    <3> SUFFICES ASSUME NEW i \in Nat, NEW d \in D, d.off <= i, i < d.off + d.len, i >= c.off
                 PROVE  FALSE
      BY <1>1 DEF Span
    <3>1. d \in S /\ d.off < c.off /\ d.off \in Nat /\ d.len \in Nat /\ c.off \in Nat /\ c.len \in Nat
      BY <1>1
    <3>2. Overlaps(c, d)
      BY <3>1 DEF Overlaps
    <3> QED BY <3>1, <3>2 DEF Disjoint
  <2>3. 0..(c.off - 1) \subseteq Span(D)
    <3> SUFFICES ASSUME NEW i \in 0..(c.off - 1) PROVE i \in Span(D)
      OBVIOUS
    <3>1. c.off \in Nat /\ c.len \in Nat /\ c.off + c.len <= L
      BY <1>1
    <3>2. i \in Span(S)
      BY <1>0, <1>4, <3>1
    <3>3. PICK d \in S : d.off <= i /\ i < d.off + d.len
      BY <3>2 DEF Span
    <3>4. d \in D
      BY <1>1, <3>1, <3>3
    <3> QED BY <3>1, <3>3, <3>4 DEF Span
  <2>4. Cardinality(0..(c.off - 1)) = c.off
    BY <1>1, FS_Interval
  <2> HIDE DEF D
  <2>5. Received(D) = c.off
    BY <2>1, <2>2, <2>3, <2>4, ReceivedSpan
  <2> QED BY <2>5 DEF D
<1> QED BY <1>5 DEF Covers

\* A session that can be completed: finitely many chunks, side by side, within
\* the upload.
WellCut(u) ==
    u # None => /\ IsFiniteSet(u.chunks) /\ Disjoint(u.chunks)
                /\ \A c \in u.chunks : c.off + c.len <= u.params.length

CutInv ==
    /\ \A k \in Keys : WellCut(uploads[k])
    /\ \A r \in Requests : WellCut(claim[r])
    /\ \A r \in Requests : patch[r] # None => patch[r].off + patch[r].len <= patch[r].params.length
    /\ ClaimCovers

\* A chunk without a conflict keeps its session well cut, and completes it only
\* when nothing is missing.
LEMMA ExtendedWellCut ==
  ASSUME TypeOK, CutInv, NEW r \in Requests, patch[r] # None, file[r] # None, ~Conflicts(r)
  PROVE  /\ WellCut(Extended(r))
         /\ Received(Extended(r).chunks) = patch[r].params.length => Covers(Extended(r))
<1> DEFINE k == patch[r].key
           u == Extended(r)
<1>1. k \in Keys /\ Chunk(r) \in Chunks /\ u \in Uploads /\ Chunk(r).off = patch[r].off
      /\ Chunk(r).len = patch[r].len
  BY ExtendedType DEF Chunk
<1>2. Chunk(r).off + Chunk(r).len <= patch[r].params.length
  BY <1>1 DEF CutInv
<1>3. CASE uploads[k] = None
  <2>1. u.chunks = {Chunk(r)} /\ u.params = patch[r].params
    BY <1>3, ExtendedChunks
  <2>2. IsFiniteSet(u.chunks) /\ Disjoint(u.chunks)
    BY <2>1, FS_Singleton DEF Disjoint
  <2> HIDE DEF u
  <2> QED BY <1>1, <1>2, <2>1, <2>2, FullMeansCovered DEF WellCut, u
<1>4. CASE uploads[k] # None
  <2>1. /\ u.chunks = uploads[k].chunks \cup {Chunk(r)} /\ u.params = uploads[k].params
        /\ uploads[k].params = patch[r].params
        /\ \A c \in uploads[k].chunks : ~Overlaps(Chunk(r), c)
    BY <1>4, ExtendedChunks DEF Conflicts
  <2>2. WellCut(uploads[k]) /\ uploads[k] \in Uploads
    BY <1>1, <1>4 DEF CutInv, TypeOK
  <2>3. \A c \in uploads[k].chunks : ~Overlaps(c, Chunk(r))
    BY <2>1 DEF Overlaps
  <2>4. IsFiniteSet(u.chunks)
    BY <1>4, <2>1, <2>2, FS_AddElement DEF WellCut
  <2>5. Disjoint(u.chunks) /\ \A c \in u.chunks : c.off + c.len <= u.params.length
    BY <1>2, <1>4, <2>1, <2>2, <2>3 DEF WellCut, Disjoint
  <2> HIDE DEF u
  <2> QED BY <1>1, <2>1, <2>4, <2>5, FullMeansCovered DEF WellCut, u
<1> QED BY <1>3, <1>4

LEMMA StepCutInv ==
  ASSUME TypeOK, Shape, CutInv, NEW r \in Requests, Patch(r) \/ Step(r) \/ Cancel(r)
  PROVE  CutInv'
<1>0. \A s \in Requests : s # r => claim'[s] = claim[s] /\ patch'[s] = patch[s]
  BY StepOthersStable
\* What the step may make of a session, of r's claim and of its patch.
<1>1. ASSUME \A k \in Keys : uploads'[k] = uploads[k] \/ WellCut(uploads'[k]),
             claim'[r] \in {claim[r], None} \/ (WellCut(claim'[r]) /\ Covers(claim'[r])),
             patch'[r] \in {patch[r], None}
               \/ patch'[r].off + patch'[r].len <= patch'[r].params.length
      PROVE  CutInv'
  <2>1. \A k \in Keys : WellCut(uploads'[k])
    BY <1>1 DEF CutInv
  <2>2. \A s \in Requests : WellCut(claim'[s])
    <3>1. WellCut(None)
      BY DEF WellCut
    <3> QED BY <1>0, <1>1, <3>1 DEF CutInv
  <2>3. \A s \in Requests : claim'[s] # None => Covers(claim'[s])
    BY <1>0, <1>1 DEF CutInv, ClaimCovers
  <2>4. \A s \in Requests : patch'[s] # None
          => patch'[s].off + patch'[s].len <= patch'[s].params.length
    BY <1>0, <1>1 DEF CutInv
  <2>5. ClaimCovers'
    BY <2>3 DEF ClaimCovers, Covers
  <2> QED BY <2>1, <2>2, <2>4, <2>5 DEF CutInv, WellCut
<1>2. CASE Patch(r)
  <2> PICK k \in Keys, p \in Params, off \in Offsets, len \in Offsets : Reserve(r, k, p, off, len)
    BY <1>2 DEF Patch
  <2>1. UNCHANGED <<uploads, claim>> /\ patch'[r] = [key |-> k, params |-> p, off |-> off, len |-> len]
        /\ off + len <= p.length
    BY DEF Reserve, TypeOK
  <2> QED BY <1>1, <2>1
<1>3. CASE Keeps(r) /\ ~Patch(r)
  <2>1. uploads' = uploads /\ claim'[r] \in {claim[r], None}
    BY <1>3, KeepsHoldings
  <2>2. patch'[r] \in {patch[r], None}
    BY <1>3 DEF Keeps, StreamBody, AbortBody, Release, Charge, LoseTempDir, ReadChunk,
                PublishRebuilt, Discard, Cancel, Return, TypeOK
  <2> QED BY <1>1, <2>1, <2>2
<1>4. CASE CreateFile(r)
  <2>1. UNCHANGED <<uploads, claim, patch>>
    BY <1>4 DEF CreateFile
  <2> QED BY <1>1, <2>1
<1>5. CASE Commit(r)
  <2>1. patch'[r] \in {patch[r], None}
    BY <1>5 DEF Commit, Return, TypeOK
  <2>2. patch[r] # None /\ file[r] # None
    BY <1>5, CommitEnds, ChunkAssumption DEF ChunkAssumption
  <2>3. WellCut(None)
    BY DEF WellCut
  <2>4. (\A k \in Keys : uploads'[k] \in {uploads[k], None} \/ (~Conflicts(r) /\ uploads'[k] = Extended(r)))
        /\ (claim'[r] \in {claim[r], None}
              \/ (~Conflicts(r) /\ claim'[r] = Extended(r)
                    /\ Received(Extended(r).chunks) = patch[r].params.length))
    BY <1>5, CommitEnds DEF TypeOK
  <2>5. ~Conflicts(r) => /\ WellCut(Extended(r))
                         /\ Received(Extended(r).chunks) = patch[r].params.length => Covers(Extended(r))
    BY <2>2, ExtendedWellCut
  <2>6. \A k \in Keys : uploads'[k] = uploads[k] \/ WellCut(uploads'[k])
    BY <2>3, <2>4, <2>5
  <2>7. claim'[r] \in {claim[r], None} \/ (WellCut(claim'[r]) /\ Covers(claim'[r]))
    BY <2>4, <2>5
  <2> QED BY <1>1, <2>1, <2>6, <2>7
<1>6. CASE Restore(r)
  <2> DEFINE kept == [claim[r] EXCEPT !.chunks = @ \ {Chunk(r)}]
  <2>1. claim[r] \in Uploads /\ claim[r] # None /\ patch' = patch
    BY <1>6, RestoreEnds DEF Restore
  <2>2. kept.chunks = claim[r].chunks \ {Chunk(r)} /\ kept.params = claim[r].params
    BY <2>1 DEF Uploads
  <2>3. WellCut(claim[r])
    BY DEF CutInv
  <2> HIDE DEF kept
  <2>4. IsFiniteSet(kept.chunks) /\ Disjoint(kept.chunks)
    BY <2>1, <2>2, <2>3, FS_Subset DEF WellCut, Disjoint
  <2>5. WellCut(kept)
    BY <2>1, <2>2, <2>3, <2>4 DEF WellCut
  <2>6. claim'[r] \in {claim[r], None} /\ \A k \in Keys : uploads'[k] = uploads[k] \/ uploads'[k] = kept
    BY <1>6, RestoreEnds DEF TypeOK, kept
  <2> QED BY <1>1, <2>1, <2>5, <2>6
<1> QED BY <1>2, <1>3, <1>4, <1>5, <1>6 DEF Step, Keeps

LEMMA OthersCutInv == TypeOK /\ CutInv /\ (Cleanup \/ Tick \/ UNCHANGED vars) => CutInv'
<1> SUFFICES ASSUME TypeOK, CutInv, Cleanup \/ Tick \/ UNCHANGED vars PROVE CutInv'
  OBVIOUS
<1>1. /\ patch' = patch
      /\ \A k \in Keys : uploads'[k] # None =>
           /\ uploads[k] # None /\ uploads'[k].chunks = uploads[k].chunks
           /\ uploads'[k].params = uploads[k].params
      /\ \A r \in Requests : claim'[r] # None =>
           /\ claim[r] # None /\ claim'[r].chunks = claim[r].chunks
           /\ claim'[r].params = claim[r].params
  <2>1. CASE Tick
    BY <2>1, TickKeepsUploads DEF Tick
  <2>2. CASE Cleanup \/ UNCHANGED vars
    BY <2>2 DEF Cleanup, Evict, RemoveVictim, ScanChunks, EndCleanup, vars, reqVars
  <2> QED BY <2>1, <2>2
<1>2. (\A k \in Keys : WellCut(uploads[k]))' /\ (\A r \in Requests : WellCut(claim[r]))'
  BY <1>1 DEF CutInv, WellCut
<1>3. ClaimCovers'
  BY <1>1 DEF CutInv, ClaimCovers, Covers
<1> QED BY <1>1, <1>2, <1>3 DEF CutInv

\* A paid upload has its chunks side by side from its first byte to its last: the
\* gap checks of reconstruct_blob never fire.
THEOREM PaidUploadsAreWhole == Spec => []ClaimCovers
<1>1. Init => CutInv
  BY ChunkAssumption DEF ChunkAssumption, Init, CutInv, WellCut, ClaimCovers
<1>2. ChunkInv /\ CutInv /\ [Next]_vars => CutInv'
  BY StepCutInv, OthersCutInv DEF ChunkInv, Next
<1>3. CutInv => ClaimCovers
  BY DEF CutInv
<1> QED BY <1>1, <1>2, <1>3, ChunkInvHolds, PTL DEF Spec
=============================================================================
