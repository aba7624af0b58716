-------------------------- MODULE SingleUseProofs --------------------------
(***************************************************************************)
(* Proofs about SingleUse, for every set of events and requests, every     *)
(* policy, every bound on the clock and every fault: what the replay set   *)
(* promises (UsedOnce), and what the audit records show                    *)
(* (ReportsAreTraceable).                                                  *)
(*                                                                         *)
(* Neither is inductive.  That an expired id may be forgotten without      *)
(* harm depends on the clocks that verified requests carry to the lock,    *)
(* so the invariant follows every request from its verification on         *)
(* (Carries), orders the clocks around the last sweep (ClockOrder), and    *)
(* ties the replay set to what was inserted into it (Remembers).           *)
(***************************************************************************)
EXTENDS SingleUse, SequenceTheorems, TLAPS

\* The steps of a report past its consumption, and those where its record exists.
ReportSteps == {"noop", "pending", "final", "write noop", "write pending", "write final",
                "check", "removing"}
Recorded == ReportSteps \ {"noop", "pending"}

\* What request r holds at each step.
Carries(r) ==
    /\ pc[r] \in {"bind", "consume"} => ev[r] \in Deletions \cup Reports
    /\ pc[r] = "remove" => ev[r] \in Deletions
    /\ pc[r] \in ReportSteps => ev[r] \in Reports
    /\ pc[r] \in Recorded => record[ev[r]] # Nothing
    /\ pc[r] = "removing" => todo[r] # <<>>

\* The clocks request r has read.  A verified deletion has not expired, or did
\* so with the last tick; a report is remembered for MaxTTL from its verification.
ReadClock(r) ==
    /\ pc[r] = "bind" =>
         /\ at[r] <= clock /\ clock <= at[r] + 1
         /\ ev[r] \in Deletions => expiry[r] = ev[r].expires /\ at[r] < expiry[r]
         /\ ev[r] \in Reports => expiry[r] = at[r] + MaxTTL
    /\ pc[r] = "consume" =>
         /\ swept <= at[r] /\ at[r] <= clock
         /\ ev[r] \in Deletions => expiry[r] = ev[r].expires /\ at[r] <= expiry[r]
         /\ ev[r] \in Reports => at[r] + MaxTTL <= expiry[r] + 1

ClockOrder == swept <= clock /\ \A r \in Requests : ReadClock(r)

\* What the replay set and the uses have to do with the last insertions.
Remembers ==
    /\ ReplaySetCovers
    /\ \A e \in Events : replays[e] # Nothing => replays[e] = stamp[e]
    /\ \A e \in Deletions : stamp[e] # Nothing => stamp[e] = e.expires
    /\ \A e \in Deletions : uses[e] > 0 => stamp[e] # Nothing
    /\ \A e \in Reports : usedAt[e] # Nothing =>
         /\ stamp[e] # Nothing /\ usedAt[e] <= swept
         /\ usedAt[e] + MaxTTL <= stamp[e] + 1

-----------------------------------------------------------------------------
(* Types and locals.                                                        *)

Shape == TypeOK /\ \A r \in Requests : Carries(r)

LEMMA EventTypes ==
  /\ Deletions \subseteq Events /\ Reports \subseteq Events
  /\ Deletions \cap Reports = {}
  /\ \A e \in Events : e.created \in Nat /\ e.expires \in Nat /\ e.xs \in Seq(Hashes)
  /\ Nothing \notin Events /\ Nothing \notin Nat /\ Nothing \notin Records
  /\ MaxTTL \in Nat
BY SingleUseAssumption, AuthAssumption DEF Deletions, Reports

LEMMA InitShape == Init => Shape
BY EventTypes, EmptySeq DEF Init, Shape, TypeOK, Carries, Labels, Times, ReportSteps, Recorded

\* A request that returns holds nothing (Forget); the others are untouched.
LEMMA ForgetShape ==
  ASSUME Shape, NEW r \in Requests, Forget(r),
         \A q \in Requests \ {r}, e \in Reports :
            ev[q] = e /\ record[e] # Nothing => record'[e] # Nothing
  PROVE  /\ pc' \in [Requests -> Labels] /\ ev' \in [Requests -> Events \cup {Nothing}]
         /\ target' \in [Requests -> Hashes \cup {Nothing}]
         /\ at' \in [Requests -> Nat] /\ expiry' \in [Requests -> Nat]
         /\ todo' \in [Requests -> Seq(Hashes)] /\ done' \in [Requests -> SUBSET Hashes]
         /\ \A q \in Requests : Carries(q)'
<1>1. /\ pc' \in [Requests -> Labels] /\ ev' \in [Requests -> Events \cup {Nothing}]
      /\ target' \in [Requests -> Hashes \cup {Nothing}]
      /\ at' \in [Requests -> Nat] /\ expiry' \in [Requests -> Nat]
      /\ todo' \in [Requests -> Seq(Hashes)] /\ done' \in [Requests -> SUBSET Hashes]
  BY EmptySeq DEF Forget, GoTo, Shape, TypeOK, Labels
<1>2. Carries(r)'
  BY DEF Forget, GoTo, Shape, TypeOK, Carries, ReportSteps, Recorded
<1>3. ASSUME NEW q \in Requests \ {r} PROVE Carries(q)'
  <2>1. pc'[q] = pc[q] /\ ev'[q] = ev[q] /\ todo'[q] = todo[q]
    BY DEF Forget, GoTo, Shape, TypeOK
  <2>2. Carries(q)
    BY DEF Shape
  <2> QED BY <2>1, <2>2 DEF Carries, ReportSteps, Recorded
<1> QED BY <1>1, <1>2, <1>3

\* A step keeps what a request holds if it leaves the request's locals and every
\* record alone.
LEMMA CarriesStable ==
  ASSUME Shape, NEW q \in Requests, pc'[q] = pc[q], ev'[q] = ev[q], todo'[q] = todo[q],
         pc[q] \in Recorded => (record[ev[q]] # Nothing => record'[ev[q]] # Nothing)
  PROVE  Carries(q)'
BY DEF Shape, Carries, ReportSteps, Recorded

LEMMA AdmitShape ==
  ASSUME Shape, NEW r \in Requests, NEW e \in Deletions \cup Reports,
         NEW h \in Hashes \cup {Nothing}, NEW until \in Nat, NEW hashes \in Seq(Hashes),
         Admit(r, e, h, until, hashes)
  PROVE  Shape'
<1>1. TypeOK'
  BY EventTypes DEF Admit, GoTo, Shape, TypeOK, Labels, history
<1>2. Carries(r)'
  BY DEF Admit, GoTo, Shape, TypeOK, Carries, ReportSteps, Recorded
<1>3. ASSUME NEW q \in Requests \ {r} PROVE Carries(q)'
  BY CarriesStable DEF Admit, GoTo, Shape, TypeOK
<1> QED BY <1>1, <1>2, <1>3 DEF Shape

LEMMA ConsumeLabels ==
  ASSUME NEW e \in Deletions \cup Reports
  PROVE  /\ e \in Deletions => AfterConsume(e) = "remove"
         /\ e \in Reports => AfterConsume(e) \in {"noop", "idle", "pending"}
<1>1. CASE e \in Deletions
  <2>1. e.kind = "auth" /\ e \notin Reports
    BY <1>1, EventTypes DEF Deletions
  <2> QED BY <2>1 DEF AfterConsume
<1>2. CASE e \in Reports
  <2>1. e.kind # "auth" /\ e \notin Deletions
    BY <1>2, EventTypes DEF Reports
  <2> QED BY <2>1 DEF AfterConsume
<1> QED BY <1>1, <1>2

LEMMA WritingLabels ==
  ASSUME NEW l \in DOMAIN Writing
  PROVE  /\ l \in {"noop", "pending", "final"}
         /\ Writing[l] \in {"write noop", "write pending", "write final"}
<1>1. l \in {"noop", "pending", "final"}
  BY DEF Writing
<1>2. CASE l = "noop"
  BY <1>2 DEF Writing
<1>3. CASE l = "pending"
  BY <1>3 DEF Writing
<1>4. CASE l = "final"
  BY <1>4 DEF Writing
<1> QED BY <1>1, <1>2, <1>3, <1>4

\* What a write in progress puts into the record is a record.
LEMMA WrittenType ==
  ASSUME Shape, NEW r \in Requests, InWrite(r)
  PROVE  ev[r] \in Reports /\ Written(r) \in Records
<1>1. ev[r] \in Reports /\ done[r] \subseteq Hashes
  BY DEF InWrite, Shape, Carries, ReportSteps, TypeOK
<1>2. CASE pc[r] = "write noop"
  BY <1>1, <1>2 DEF Written, RecordOf, Records, Statuses
<1>3. CASE pc[r] = "write pending"
  BY <1>1, <1>3 DEF Written, RecordOf, Records, Statuses
<1>4. CASE pc[r] = "write final"
  BY <1>1, <1>4 DEF Written, RecordOf, Records, Statuses
<1> QED BY <1>1, <1>2, <1>3, <1>4 DEF InWrite

LEMMA ShapeStep ==
  ASSUME Shape, [Next]_vars PROVE Shape'
<1> USE EventTypes
<1>1. ASSUME NEW r \in Requests, AuthorizeDelete(r) PROVE Shape'
  <2>1. PICK e \in Deletions, h \in Hashes : Admit(r, e, h, e.expires, <<>>)
    BY <1>1 DEF AuthorizeDelete
  <2> QED BY <2>1, AdmitShape, EmptySeq
<1>2. ASSUME NEW r \in Requests, VerifyReport(r) PROVE Shape'
  <2>1. PICK e \in Reports : Admit(r, e, Nothing, clock + MaxTTL, e.xs)
    BY <1>2 DEF VerifyReport
  <2>2. clock + MaxTTL \in Nat
    BY DEF Shape, TypeOK
  <2> QED BY <2>1, <2>2, AdmitShape
<1>3. ASSUME NEW r \in Requests, Queue(r) PROVE Shape'
  <2>1. TypeOK'
    BY <1>3 DEF Queue, GoTo, Shape, TypeOK, Labels, history
  <2>2. Carries(r)'
    BY <1>3 DEF Queue, GoTo, Shape, TypeOK, Carries, ReportSteps, Recorded
  <2>3. ASSUME NEW q \in Requests \ {r} PROVE Carries(q)'
    BY <1>3, CarriesStable DEF Queue, GoTo, Shape, TypeOK
  <2> QED BY <2>1, <2>2, <2>3 DEF Shape
<1>4. ASSUME NEW r \in Requests, Consume(r) PROVE Shape'
  <2>0. ev[r] \in Deletions \cup Reports
    BY <1>4 DEF Consume, Shape, Carries
  <2>1. /\ replays' \in [Events -> Times] /\ stamp' \in [Events -> Times] /\ swept' \in Nat
    BY <1>4, <2>0 DEF Consume, Kept, Shape, TypeOK, Times
  <2>2. uses' \in [Deletions -> 0..2] /\ usedAt' \in [Reports -> Times]
    <3>1. UNCHANGED <<uses, usedAt>> \/ CountUse(ev[r], at[r])
      BY <1>4 DEF Consume
    <3>2. at[r] \in Nat /\ uses \in [Deletions -> 0..2] /\ usedAt \in [Reports -> Times]
      BY DEF Shape, TypeOK
    <3>3. CASE CountUse(ev[r], at[r]) /\ ev[r] \in Deletions
      BY <3>2, <3>3 DEF CountUse
    <3>4. CASE CountUse(ev[r], at[r]) /\ ev[r] \in Reports
      BY <3>2, <3>4 DEF CountUse, Times
    <3> QED BY <2>0, <3>1, <3>2, <3>3, <3>4
  <2>3. CASE Forget(r)
    <3>1. UNCHANGED <<clock, blobs, barred, record, earlier, removedBy, cut>>
      BY <1>4 DEF Consume
    <3> QED BY <2>1, <2>2, <2>3, <3>1, ForgetShape DEF Shape, TypeOK
  <2>4. CASE /\ GoTo(r, AfterConsume(ev[r])) /\ AfterConsume(ev[r]) # "idle"
             /\ at' = [at EXCEPT ![r] = 0]
             /\ expiry' = [expiry EXCEPT ![r] = 0]
             /\ UNCHANGED <<ev, target, todo, done>>
    <3>1. UNCHANGED <<clock, blobs, barred, record, earlier, removedBy, cut>>
      BY <1>4 DEF Consume
    <3>2. /\ ev[r] \in Deletions => AfterConsume(ev[r]) = "remove"
          /\ ev[r] \in Reports => AfterConsume(ev[r]) \in {"noop", "pending"}
      BY <2>0, <2>4, ConsumeLabels
    <3>3. TypeOK'
      BY <2>0, <2>1, <2>2, <2>4, <3>1, <3>2 DEF GoTo, Shape, TypeOK, Labels
    <3>4. Carries(r)'
      BY <2>0, <2>4, <3>2 DEF GoTo, Shape, TypeOK, Carries, ReportSteps, Recorded
    <3>5. ASSUME NEW q \in Requests \ {r} PROVE Carries(q)'
      BY <2>4, <3>1, CarriesStable DEF GoTo, Shape, TypeOK
    <3> QED BY <3>3, <3>4, <3>5 DEF Shape
  <2> QED BY <1>4, <2>3, <2>4 DEF Consume
<1>5. ASSUME NEW r \in Requests, Remove(r) PROVE Shape'
  <2>1. Forget(r) /\ UNCHANGED <<clock, replays, barred, record, history>> /\ blobs' \subseteq blobs
    BY <1>5 DEF Remove
  <2> QED BY <2>1, ForgetShape DEF Shape, TypeOK, history
<1>6. ASSUME NEW r \in Requests, BeginWrite(r) PROVE Shape'
  <2>0. pc[r] \in {"noop", "pending", "final"} /\ ev[r] \in Reports /\ Truncated \in Records
    BY <1>6 DEF BeginWrite, Writing, Shape, Carries, ReportSteps, Truncated, RecordOf, Records
  <2>1. Writing[pc[r]] \in {"write noop", "write pending", "write final"}
    BY <1>6, WritingLabels DEF BeginWrite
  <2>2. TypeOK'
    BY <1>6, <2>0, <2>1 DEF BeginWrite, GoTo, Shape, TypeOK, Labels, history
  <2>3. \A e \in Reports : record[e] # Nothing => record'[e] # Nothing
    BY <1>6, <2>0 DEF BeginWrite, Shape, TypeOK
  <2>4. Carries(r)'
    BY <1>6, <2>0, <2>1 DEF BeginWrite, GoTo, Shape, TypeOK, Carries, ReportSteps, Recorded
  <2>5. ASSUME NEW q \in Requests \ {r} PROVE Carries(q)'
    <3>1. pc'[q] = pc[q] /\ UNCHANGED <<ev, todo>>
      BY <1>6 DEF BeginWrite, GoTo, Shape, TypeOK
    <3>2. pc[q] \in Recorded => ev[q] \in Reports
      BY DEF Shape, Carries, Recorded
    <3> QED BY <2>3, <3>1, <3>2, CarriesStable
  <2> QED BY <2>2, <2>4, <2>5 DEF Shape
<1>7. ASSUME NEW r \in Requests, EndWrite(r) PROVE Shape'
  <2>0. /\ pc[r] \in {"write noop", "write pending", "write final"} /\ ev[r] \in Reports
        /\ Written(r) \in Records
    BY <1>7, WrittenType DEF EndWrite, InWrite
  <2>1. \A e \in Reports : record[e] # Nothing => record'[e] # Nothing
    BY <1>7, <2>0 DEF EndWrite, Shape, TypeOK
  <2>2. record' \in [Reports -> Records \cup {Nothing}]
    BY <1>7, <2>0 DEF EndWrite, Shape, TypeOK
  <2>3. UNCHANGED <<clock, replays, blobs, barred, history>>
    BY <1>7 DEF EndWrite
  <2>4. CASE Forget(r)
    BY <2>1, <2>2, <2>3, <2>4, ForgetShape DEF Shape, TypeOK, history
  <2>5. CASE /\ pc[r] = "write pending" /\ GoTo(r, "check")
             /\ UNCHANGED <<ev, target, at, expiry, todo, done>>
    <3>1. TypeOK'
      BY <2>2, <2>3, <2>5 DEF GoTo, Shape, TypeOK, Labels, history
    <3>2. Carries(r)'
      BY <2>0, <2>5, <1>7 DEF EndWrite, GoTo, Shape, TypeOK, Carries, ReportSteps, Recorded
    <3>3. ASSUME NEW q \in Requests \ {r} PROVE Carries(q)'
      <4>1. pc'[q] = pc[q] /\ UNCHANGED <<ev, todo>>
        BY <2>5 DEF GoTo, Shape, TypeOK
      <4>2. pc[q] \in Recorded => ev[q] \in Reports
        BY DEF Shape, Carries, Recorded
      <4> QED BY <2>1, <4>1, <4>2, CarriesStable
    <3> QED BY <3>1, <3>2, <3>3 DEF Shape
  <2> QED BY <1>7, <2>4, <2>5 DEF EndWrite
<1>8. ASSUME NEW r \in Requests, FailWrite(r) PROVE Shape'
  <2>1. ev[r] \in Reports
    BY <1>8, WrittenType DEF FailWrite
  <2> QED BY <1>8, <2>1, ForgetShape DEF FailWrite, Shape, TypeOK
<1>9. ASSUME NEW r \in Requests, Check(r) PROVE Shape'
  <2>0. pc[r] = "check" /\ todo[r] \in Seq(Hashes)
    BY <1>9 DEF Check, Shape, TypeOK
  <2>1. UNCHANGED <<clock, replays, ev, target, at, expiry, done, blobs, barred, record, history>>
    BY <1>9 DEF Check
  <2>2. \/ GoTo(r, "final") /\ UNCHANGED todo
        \/ todo[r] # <<>> /\ GoTo(r, "removing") /\ UNCHANGED todo
        \/ todo[r] # <<>> /\ UNCHANGED pc /\ todo' = [todo EXCEPT ![r] = Tail(@)]
    BY <1>9 DEF Check
  <2>3. todo[r] # <<>> => Tail(todo[r]) \in Seq(Hashes)
    BY <2>0, HeadTailProperties
  <2>4. TypeOK'
    <3>1. pc' \in [Requests -> Labels]
      BY <2>2 DEF GoTo, Shape, TypeOK, Labels
    <3>2. todo' \in [Requests -> Seq(Hashes)]
      BY <2>2, <2>3 DEF Shape, TypeOK
    <3> QED BY <2>1, <3>1, <3>2 DEF Shape, TypeOK, history
  <2>5. Carries(r)'
    BY <2>0, <2>1, <2>2 DEF GoTo, Shape, TypeOK, Carries, ReportSteps, Recorded
  <2>6. ASSUME NEW q \in Requests \ {r} PROVE Carries(q)'
    BY <2>1, <2>2, CarriesStable DEF GoTo, Shape, TypeOK
  <2> QED BY <2>4, <2>5, <2>6 DEF Shape
<1>10. ASSUME NEW r \in Requests, RemoveReported(r) PROVE Shape'
  <2>0. /\ pc[r] = "removing" /\ ev[r] \in Reports
        /\ Head(todo[r]) \in Hashes /\ Tail(todo[r]) \in Seq(Hashes)
    BY <1>10, HeadTailProperties DEF RemoveReported, Shape, Carries, ReportSteps, TypeOK
  <2>1. TypeOK'
    <3>1. pc' \in [Requests -> Labels] /\ todo' \in [Requests -> Seq(Hashes)]
      BY <1>10, <2>0 DEF RemoveReported, GoTo, Shape, TypeOK, Labels
    <3>2. /\ blobs' \subseteq Hashes /\ barred' \subseteq Hashes
          /\ done' \in [Requests -> SUBSET Hashes]
          /\ removedBy' \in [Hashes -> Reports \cup {Nothing}]
      <4> DEFINE h == Head(todo[r])
      <4>1. CASE UNCHANGED <<blobs, barred, done, removedBy>>
        BY <4>1 DEF Shape, TypeOK
      <4>2. CASE /\ blobs' = blobs \ {h}
                 /\ barred' = barred \cup {h} \/ barred' = barred
                 /\ done' = [done EXCEPT ![r] = @ \cup {h}]
                 /\ removedBy' = [removedBy EXCEPT ![h] = ev[r]]
        <5>1. blobs' \subseteq Hashes /\ barred' \subseteq Hashes
          BY <2>0, <4>2 DEF Shape, TypeOK
        <5>2. done' \in [Requests -> SUBSET Hashes]
          BY <2>0, <4>2 DEF Shape, TypeOK
        <5>3. removedBy' \in [Hashes -> Reports \cup {Nothing}]
          BY <2>0, <4>2 DEF Shape, TypeOK
        <5> QED BY <5>1, <5>2, <5>3
      <4> QED BY <1>10, <4>1, <4>2 DEF RemoveReported
    <3>3. UNCHANGED <<clock, replays, ev, target, at, expiry, record, uses, usedAt, stamp, swept,
                      earlier, cut>>
      BY <1>10 DEF RemoveReported
    <3> QED BY <3>1, <3>2, <3>3 DEF Shape, TypeOK
  <2>2. Carries(r)'
    BY <1>10, <2>0 DEF RemoveReported, GoTo, Shape, TypeOK, Carries, ReportSteps, Recorded
  <2>3. ASSUME NEW q \in Requests \ {r} PROVE Carries(q)'
    BY <1>10, CarriesStable DEF RemoveReported, GoTo, Shape, TypeOK
  <2> QED BY <2>1, <2>2, <2>3 DEF Shape
<1>11. ASSUME NEW r \in Requests, Cancel(r) PROVE Shape'
  <2>1. InWrite(r) => ev[r] \in Reports /\ Written(r) \in Records
    BY WrittenType
  <2>2. /\ record' \in [Reports -> Records \cup {Nothing}]
        /\ \A e \in Reports : record[e] # Nothing => record'[e] # Nothing
    BY <1>11, <2>1 DEF Cancel, Shape, TypeOK
  <2>3. cut' \subseteq Reports
    BY <1>11 DEF Cancel, Processing, Shape, TypeOK
  <2> QED BY <1>11, <2>2, <2>3, ForgetShape DEF Cancel, Shape, TypeOK
<1>12. ASSUME NEW h \in Hashes, Store(h) PROVE Shape'
  BY <1>12, CarriesStable DEF Store, Shape, TypeOK, reqVars, history
<1>13. CASE Restart
  <2>1. TypeOK'
    <3>1. cut' \subseteq Reports /\ earlier' \subseteq Deletions
      BY <1>13 DEF Restart, Shape, TypeOK, Processing
    <3>2. /\ replays' \in [Events -> Times] /\ stamp' \in [Events -> Times]
          /\ usedAt' \in [Reports -> Times] /\ uses' \in [Deletions -> 0..2]
      BY <1>13 DEF Restart, Times
    <3>3. /\ pc' \in [Requests -> Labels] /\ todo' \in [Requests -> Seq(Hashes)]
      BY <1>13, EmptySeq DEF Restart, Labels
    <3>4. /\ ev' \in [Requests -> Events \cup {Nothing}]
          /\ target' \in [Requests -> Hashes \cup {Nothing}]
          /\ at' \in [Requests -> Nat] /\ expiry' \in [Requests -> Nat] /\ swept' \in Nat
          /\ done' \in [Requests -> SUBSET Hashes]
      BY <1>13 DEF Restart
    <3>5. UNCHANGED <<clock, blobs, barred, record, removedBy>>
      BY <1>13 DEF Restart
    <3> QED BY <3>1, <3>2, <3>3, <3>4, <3>5 DEF Shape, TypeOK
  <2>2. \A q \in Requests : Carries(q)'
    BY <1>13 DEF Restart, Carries, ReportSteps, Recorded
  <2> QED BY <2>1, <2>2 DEF Shape
<1>14. CASE Tick
  BY <1>14, CarriesStable DEF Tick, Shape, TypeOK, reqVars, history
<1>15. CASE UNCHANGED vars
  BY <1>15, CarriesStable DEF vars, reqVars, history, Shape, TypeOK
<1> QED
  BY <1>1, <1>2, <1>3, <1>4, <1>5, <1>6, <1>7, <1>8, <1>9, <1>10, <1>11, <1>12, <1>13, <1>14, <1>15
  DEF Next, Handler

-----------------------------------------------------------------------------
(* The clocks.                                                              *)

\* The clock never goes back, and the clocks a request has read stay in order.
LEMMA ReadClockStable ==
  ASSUME Shape, NEW q \in Requests, ReadClock(q), swept' = swept, clock' = clock,
         pc'[q] = pc[q], ev'[q] = ev[q], at'[q] = at[q], expiry'[q] = expiry[q]
  PROVE  ReadClock(q)'
BY DEF ReadClock

\* A step that sends one request nowhere near the lock keeps the clocks in order.
LEMMA ClockOrderStable ==
  ASSUME Shape, ClockOrder, NEW r \in Requests, swept' = swept, clock' = clock,
         pc'[r] \notin {"bind", "consume"},
         \A q \in Requests \ {r} : pc'[q] = pc[q] /\ ev'[q] = ev[q] /\ at'[q] = at[q]
                                   /\ expiry'[q] = expiry[q]
  PROVE  ClockOrder'
<1>1. ReadClock(r)'
  BY DEF ReadClock
<1>2. ASSUME NEW q \in Requests \ {r} PROVE ReadClock(q)'
  BY <1>2, ReadClockStable DEF ClockOrder
<1> QED BY <1>1, <1>2 DEF ClockOrder

LEMMA ClockOrderStep ==
  ASSUME Shape, ClockOrder, [Next]_vars PROVE ClockOrder'
<1> USE EventTypes
<1>0. /\ clock \in Nat /\ swept \in Nat
      /\ \A q \in Requests : at[q] \in Nat /\ expiry[q] \in Nat
      /\ \A q \in Requests : ReadClock(q)
  BY DEF Shape, TypeOK, ClockOrder
<1>1. ASSUME NEW r \in Requests, AuthorizeDelete(r) PROVE ClockOrder'
  <2>1. PICK e \in Deletions, h \in Hashes :
          Admit(r, e, h, e.expires, <<>>) /\ VerifiedWithPolicy(e, clock)
    BY <1>1 DEF AuthorizeDelete
  <2>2. e \notin Reports /\ clock < e.expires
    BY <2>1 DEF VerifiedWithPolicy, Verified
  <2>3. ReadClock(r)'
    BY <1>0, <2>1, <2>2 DEF Admit, GoTo, Shape, TypeOK, ReadClock, history
  <2>4. ASSUME NEW q \in Requests \ {r} PROVE ReadClock(q)'
    BY <1>0, <2>1, ReadClockStable DEF Admit, GoTo, Shape, TypeOK, history
  <2> QED BY <2>1, <2>3, <2>4 DEF ClockOrder, Admit, history
<1>2. ASSUME NEW r \in Requests, VerifyReport(r) PROVE ClockOrder'
  <2>1. PICK e \in Reports : Admit(r, e, Nothing, clock + MaxTTL, e.xs)
    BY <1>2 DEF VerifyReport
  <2>2. e \notin Deletions
    BY <2>1
  <2>3. ReadClock(r)'
    BY <1>0, <2>1, <2>2 DEF Admit, GoTo, Shape, TypeOK, ReadClock, history
  <2>4. ASSUME NEW q \in Requests \ {r} PROVE ReadClock(q)'
    BY <1>0, <2>1, ReadClockStable DEF Admit, GoTo, Shape, TypeOK, history
  <2> QED BY <2>1, <2>3, <2>4 DEF ClockOrder, Admit, history
<1>3. ASSUME NEW r \in Requests, Queue(r) PROVE ClockOrder'
  <2>1. ReadClock(r)'
    BY <1>0, <1>3 DEF Queue, GoTo, Shape, TypeOK, ReadClock, ClockOrder, history
  <2>2. ASSUME NEW q \in Requests \ {r} PROVE ReadClock(q)'
    BY <1>0, <1>3, ReadClockStable DEF Queue, GoTo, Shape, TypeOK, history
  <2> QED BY <1>3, <2>1, <2>2 DEF ClockOrder, Queue, history
<1>4. ASSUME NEW r \in Requests, Consume(r) PROVE ClockOrder'
  <2>1. /\ pc[r] = "consume" /\ swept' = at[r] /\ clock' = clock /\ swept <= at[r]
        /\ at[r] <= clock
    BY <1>0, <1>4 DEF Consume, ReadClock
  <2>2. pc'[r] \notin {"bind", "consume"}
    BY <1>4, ConsumeLabels DEF Consume, Forget, GoTo, Shape, TypeOK, Carries
  <2>3. ASSUME NEW q \in Requests \ {r}
        PROVE  pc'[q] = pc[q] /\ ev'[q] = ev[q] /\ at'[q] = at[q] /\ expiry'[q] = expiry[q]
    BY <1>4 DEF Consume, Forget, GoTo, Shape, TypeOK
  <2>4. ASSUME NEW q \in Requests \ {r} PROVE ReadClock(q)'
    <3>1. pc[q] = "consume" => at[r] <= at[q]
      BY <1>4 DEF Consume, IsNext
    <3> QED BY <1>0, <2>1, <2>3, <3>1 DEF ReadClock
  <2>5. ReadClock(r)'
    BY <2>2 DEF ReadClock
  <2> QED BY <2>1, <2>4, <2>5 DEF ClockOrder
<1>5. ASSUME NEW r \in Requests, Forget(r), UNCHANGED <<clock, swept>> PROVE ClockOrder'
  BY <1>5, ClockOrderStable DEF Forget, GoTo, Shape, TypeOK
<1>6. ASSUME NEW r \in Requests, UNCHANGED <<clock, swept, ev, at, expiry>>,
             \A q \in Requests \ {r} : pc'[q] = pc[q], pc'[r] \notin {"bind", "consume"}
      PROVE  ClockOrder'
  BY <1>6, ClockOrderStable
<1>7. ASSUME NEW r \in Requests,
             Remove(r) \/ FailWrite(r) \/ Cancel(r) \/ (EndWrite(r) /\ pc[r] # "write pending")
      PROVE  ClockOrder'
  BY <1>5, <1>7 DEF Remove, FailWrite, Cancel, EndWrite, history
<1>8. ASSUME NEW r \in Requests,
             Check(r) \/ RemoveReported(r) \/ (EndWrite(r) /\ pc[r] = "write pending")
      PROVE  ClockOrder'
  BY <1>6, <1>8 DEF Check, RemoveReported, EndWrite, GoTo, Shape, TypeOK, history
<1>9. ASSUME NEW r \in Requests, BeginWrite(r) PROVE ClockOrder'
  <2>1. Writing[pc[r]] \notin {"bind", "consume"}
    BY <1>9, WritingLabels DEF BeginWrite
  <2> QED BY <1>6, <1>9, <2>1 DEF BeginWrite, GoTo, Shape, TypeOK, history
<1>10. CASE Restart
  BY <1>0, <1>10 DEF Restart, ClockOrder, ReadClock
<1>11. CASE Tick
  BY <1>0, <1>11 DEF Tick, reqVars, history, ClockOrder, ReadClock
<1>12. ASSUME UNCHANGED <<clock, reqVars, history>> PROVE ClockOrder'
  BY <1>12 DEF reqVars, history, ClockOrder, ReadClock
<1>13. ASSUME NEW h \in Hashes, Store(h) PROVE ClockOrder'
  BY <1>12, <1>13 DEF Store
<1> QED
  BY <1>1, <1>2, <1>3, <1>4, <1>7, <1>8, <1>9, <1>10, <1>11, <1>12, <1>13 DEF Next, Handler, vars

-----------------------------------------------------------------------------
(* The replay set.                                                          *)

\* A request at the head of the lock's queue finds an event that was used before
\* still in the set, if it is a deletion; and if it is a report that has left the
\* set, MaxTTL has passed since its use.
LEMMA UsedIsFound ==
  ASSUME Shape, ClockOrder, Remembers, NEW r \in Requests, pc[r] = "consume"
  PROVE  /\ ev[r] \in Deletions /\ uses[ev[r]] > 0 => Kept(at[r])[ev[r]] # Nothing
         /\ ev[r] \in Reports /\ usedAt[ev[r]] # Nothing /\ Kept(at[r])[ev[r]] = Nothing
              => at[r] >= usedAt[ev[r]] + MaxTTL
<1> USE EventTypes
<1> DEFINE e == ev[r]
<1>0. /\ ReadClock(r) /\ swept \in Nat /\ at[r] \in Nat /\ e \in Deletions \cup Reports
      /\ stamp[e] \in Nat \cup {Nothing}
  BY DEF ClockOrder, Shape, TypeOK, Carries, Times
<1>1. Kept(at[r])[e] = IF replays[e] # Nothing /\ replays[e] >= at[r] THEN replays[e] ELSE Nothing
  BY <1>0 DEF Kept
<1>2. ASSUME e \in Deletions, uses[e] > 0 PROVE Kept(at[r])[e] # Nothing
  <2>1. stamp[e] = e.expires /\ at[r] <= e.expires /\ swept <= at[r] /\ e.expires \in Nat
    BY <1>0, <1>2 DEF Remembers, ReadClock
  <2>2. replays[e] = stamp[e]
    BY <1>0, <2>1 DEF Remembers, ReplaySetCovers
  <2> QED BY <1>1, <2>1, <2>2
<1>3. ASSUME e \in Reports, usedAt[e] # Nothing, Kept(at[r])[e] = Nothing
      PROVE  at[r] >= usedAt[e] + MaxTTL
  <2>1. stamp[e] \in Nat /\ usedAt[e] \in Nat /\ usedAt[e] + MaxTTL <= stamp[e] + 1 /\ swept <= at[r]
    BY <1>0, <1>3 DEF Remembers, ReadClock, Shape, TypeOK, Times
  <2>2. stamp[e] < at[r]
    BY <1>0, <1>1, <1>3, <2>1 DEF Remembers, ReplaySetCovers
  <2> QED BY <1>0, <2>1, <2>2
<1> QED BY <1>2, <1>3

\* Swept, the set has what it had from the sweep's clock on.
LEMMA RemembersStep ==
  ASSUME Shape, ClockOrder, Remembers, SingleUsePerLife, [Next]_vars
  PROVE  Remembers' /\ SingleUsePerLife'
<1> USE EventTypes
<1>1. ASSUME NEW r \in Requests, Consume(r) PROVE Remembers' /\ SingleUsePerLife'
  <2> DEFINE e == ev[r]
             now == at[r]
  <2>0. /\ pc[r] = "consume" /\ e \in Deletions \cup Reports /\ now \in Nat /\ swept \in Nat
        /\ swept <= now /\ expiry[r] \in Nat /\ swept' = now
        /\ replays' = [Kept(now) EXCEPT ![e] = expiry[r]]
        /\ stamp' = [stamp EXCEPT ![e] = expiry[r]]
    BY <1>1 DEF Consume, Shape, TypeOK, Carries, ClockOrder, ReadClock
  <2>1. /\ stamp'[e] = expiry[r] /\ replays'[e] = expiry[r]
        /\ \A d \in Events \ {e} :
             /\ stamp'[d] = stamp[d]
             /\ replays'[d] = IF replays[d] # Nothing /\ replays[d] >= now THEN replays[d] ELSE Nothing
    BY <2>0 DEF Kept, Shape, TypeOK
  <2>2. \A d \in Events : stamp[d] \in Nat \cup {Nothing}
    BY DEF Shape, TypeOK, Times
  <2>3. ReplaySetCovers'
    BY <2>0, <2>1, <2>2 DEF ReplaySetCovers, Remembers
  <2>4. \A d \in Events : replays'[d] # Nothing => replays'[d] = stamp'[d]
    BY <2>0, <2>1 DEF Remembers
  <2>5. \A d \in Deletions : stamp'[d] # Nothing => stamp'[d] = d.expires
    BY <2>0, <2>1 DEF Remembers, ClockOrder, ReadClock
  <2>6. \/ UNCHANGED <<uses, usedAt>>
        \/ Kept(now)[e] = Nothing /\ CountUse(e, now)
    BY <1>1 DEF Consume
  <2>7. (\A d \in Deletions : uses'[d] > 0 => stamp'[d] # Nothing) /\ SingleUsePerLife'
    <3>1. CASE UNCHANGED uses
      BY <2>0, <2>1, <3>1 DEF Remembers, SingleUsePerLife
    <3>2. CASE Kept(now)[e] = Nothing /\ e \in Deletions /\ CountUse(e, now)
      <4>1. uses[e] = 0
        <5>1. uses[e] \in 0..2
          BY <3>2 DEF Shape, TypeOK
        <5>2. ~(uses[e] > 0)
          BY <2>0, <3>2, UsedIsFound
        <5> QED BY <5>1, <5>2
      <4>2. \A d \in Deletions : uses'[d] = IF d = e THEN 1 ELSE uses[d]
        BY <3>2, <4>1 DEF CountUse, Shape, TypeOK
      <4> QED BY <2>0, <2>1, <4>2 DEF Remembers, SingleUsePerLife
    <3> QED BY <2>0, <2>6, <3>1, <3>2 DEF CountUse
  <2>8. ASSUME NEW d \in Reports, usedAt'[d] # Nothing
        PROVE  stamp'[d] # Nothing /\ usedAt'[d] <= swept' /\ usedAt'[d] + MaxTTL <= stamp'[d] + 1
    <3>0. /\ now + MaxTTL <= expiry[r] + 1 \/ d # e
          /\ usedAt[d] \in Nat \cup {Nothing}
      BY <2>0 DEF ClockOrder, ReadClock, Shape, TypeOK, Times
    <3>1. CASE usedAt'[d] = usedAt[d]
      <4>1. /\ stamp[d] # Nothing /\ usedAt[d] <= swept /\ usedAt[d] + MaxTTL <= stamp[d] + 1
            /\ usedAt[d] \in Nat
        BY <2>8, <3>0, <3>1 DEF Remembers
      <4> QED BY <2>0, <2>1, <3>0, <3>1, <4>1
    <3>2. CASE d = e /\ usedAt'[d] = now
      BY <2>0, <2>1, <3>0, <3>2
    <3>3. usedAt'[d] = usedAt[d] \/ (d = e /\ usedAt'[d] = now)
      BY <2>0, <2>6 DEF CountUse, Shape, TypeOK
    <3> QED BY <3>1, <3>2, <3>3
  <2> QED BY <2>3, <2>4, <2>5, <2>7, <2>8 DEF Remembers
<1>2. CASE Restart
  BY <1>2 DEF Restart, Remembers, ReplaySetCovers, SingleUsePerLife
<1>3. ASSUME UNCHANGED <<replays, uses, usedAt, stamp, swept>>
      PROVE  Remembers' /\ SingleUsePerLife'
  BY <1>3 DEF Remembers, ReplaySetCovers, SingleUsePerLife
<1>4. ASSUME NEW r \in Requests, Handler(r), ~Consume(r)
      PROVE  UNCHANGED <<replays, uses, usedAt, stamp, swept>>
  BY <1>4 DEF Handler, AuthorizeDelete, VerifyReport, Admit, Queue, Remove, BeginWrite, EndWrite,
              FailWrite, Check, RemoveReported, Cancel, history
<1>5. ASSUME (\E h \in Hashes : Store(h)) \/ Tick \/ UNCHANGED vars
      PROVE  UNCHANGED <<replays, uses, usedAt, stamp, swept>>
  BY <1>5 DEF Store, Tick, vars, history
<1> QED BY <1>1, <1>2, <1>3, <1>4, <1>5 DEF Next

-----------------------------------------------------------------------------
(* The audit records.                                                       *)

LEMMA ProcessingIs ==
  ASSUME Shape
  PROVE  \A e \in Reports : e \in Processing <=> \E q \in Requests : pc[q] \in ReportSteps /\ ev[q] = e
<1> USE EventTypes
<1>1. \A q \in Requests : pc[q] \notin {"idle", "bind", "consume"} /\ ev[q] \in Reports
                           => pc[q] \in ReportSteps
  BY DEF Shape, TypeOK, Carries, Labels, ReportSteps
<1> QED BY <1>1 DEF Processing, ReportSteps

LEMMA ProcessedNext ==
  ASSUME Shape'
  PROVE  \A e \in Reports : (\E q \in Requests : pc'[q] \in ReportSteps /\ ev'[q] = e) => e \in Processing'
BY DEF Processing, ReportSteps

\* A step that leaves the records alone loses no mark if whoever stops processing
\* a report is noted.
LEMMA MarksStable ==
  ASSUME Shape, Shape', ReportsAreTraceable, UNCHANGED <<record, removedBy>>, cut \subseteq cut',
         \A q \in Requests : pc[q] \in ReportSteps => \/ pc'[q] \in ReportSteps /\ ev'[q] = ev[q]
                                                    \/ ev[q] \in cut'
  PROVE  ReportsAreTraceable'
<1>1. Processing \subseteq Processing' \cup cut'
  <2>1. \A e \in Reports : e \in Processing => \E q \in Requests : pc[q] \in ReportSteps /\ ev[q] = e
    BY ProcessingIs
  <2>2. \A e \in Reports : (\E q \in Requests : pc'[q] \in ReportSteps /\ ev'[q] = e) => e \in Processing'
    BY ProcessedNext
  <2>3. Processing \subseteq Reports
    BY DEF Processing
  <2> QED BY <2>1, <2>2, <2>3
<1>2. PendingMarksInterrupted'
  BY <1>1 DEF ReportsAreTraceable, PendingMarksInterrupted
<1>3. RecordPrecedesRemoval'
  BY DEF ReportsAreTraceable, RecordPrecedesRemoval
<1> QED BY <1>2, <1>3 DEF ReportsAreTraceable

\* A step that writes the record of one report is harmless if the report is still
\* processed, noted as cut, or left with a final record.
LEMMA WriteMarks ==
  ASSUME Shape, Shape', ReportsAreTraceable, UNCHANGED removedBy, cut \subseteq cut',
         NEW r \in Requests, pc[r] \in ReportSteps, NEW w \in Records,
         record' = [record EXCEPT ![ev[r]] = w],
         \/ ev[r] \in Processing' \cup cut'
         \/ w.status \notin {"pending", "truncated"},
         \A q \in Requests \ {r} : pc'[q] = pc[q] /\ ev'[q] = ev[q]
  PROVE  ReportsAreTraceable'
<1> USE EventTypes
<1>0. ev[r] \in Reports
  BY DEF Shape, Carries
<1>1. \A e \in Reports \ {ev[r]} : e \in Processing => e \in Processing'
  <2>1. \A e \in Reports : e \in Processing => \E q \in Requests : pc[q] \in ReportSteps /\ ev[q] = e
    BY ProcessingIs
  <2>2. \A e \in Reports : (\E q \in Requests : pc'[q] \in ReportSteps /\ ev'[q] = e) => e \in Processing'
    BY ProcessedNext
  <2> QED BY <2>1, <2>2
<1>2. \A e \in Reports : record'[e] = IF e = ev[r] THEN w ELSE record[e]
  BY <1>0 DEF Shape, TypeOK
<1>3. PendingMarksInterrupted'
  BY <1>0, <1>1, <1>2 DEF ReportsAreTraceable, PendingMarksInterrupted
<1>4. RecordPrecedesRemoval'
  BY <1>2 DEF ReportsAreTraceable, RecordPrecedesRemoval, Shape, TypeOK
<1> QED BY <1>3, <1>4 DEF ReportsAreTraceable

LEMMA TraceableStep ==
  ASSUME Shape, Shape', ReportsAreTraceable, [Next]_vars PROVE ReportsAreTraceable'
<1> USE EventTypes
<1>1. ASSUME NEW r \in Requests, AuthorizeDelete(r) \/ VerifyReport(r) \/ Queue(r)
      PROVE  ReportsAreTraceable'
  <2>1. pc[r] \in {"idle", "bind"} /\ UNCHANGED <<record, removedBy, cut>>
        /\ \A q \in Requests \ {r} : pc'[q] = pc[q] /\ ev'[q] = ev[q]
    BY <1>1 DEF AuthorizeDelete, VerifyReport, Admit, Queue, GoTo, Shape, TypeOK, history
  <2> QED BY <2>1, MarksStable DEF ReportSteps
<1>2. ASSUME NEW r \in Requests, Consume(r) \/ Remove(r) PROVE ReportsAreTraceable'
  <2>1. pc[r] \in {"consume", "remove"} /\ UNCHANGED <<record, removedBy, cut>>
        /\ \A q \in Requests \ {r} : pc'[q] = pc[q] /\ ev'[q] = ev[q]
    BY <1>2 DEF Consume, Remove, Forget, GoTo, Shape, TypeOK, history
  <2> QED BY <2>1, MarksStable DEF ReportSteps
<1>3. ASSUME NEW r \in Requests, Check(r) PROVE ReportsAreTraceable'
  <2>1. /\ UNCHANGED <<record, removedBy, cut, ev>>
        /\ pc'[r] \in ReportSteps
        /\ \A q \in Requests \ {r} : pc'[q] = pc[q]
    BY <1>3 DEF Check, GoTo, Shape, TypeOK, ReportSteps, history
  <2> QED BY <2>1, MarksStable
<1>4. ASSUME NEW r \in Requests, RemoveReported(r) PROVE ReportsAreTraceable'
  <2>1. /\ UNCHANGED <<record, cut, ev>> /\ pc[r] = "removing" /\ pc'[r] = "check"
        /\ \A q \in Requests \ {r} : pc'[q] = pc[q]
    BY <1>4 DEF RemoveReported, GoTo, Shape, TypeOK
  <2>2. ev[r] \in Reports /\ record[ev[r]] # Nothing
    BY <2>1 DEF Shape, Carries, ReportSteps, Recorded
  <2>3. \A h \in Hashes : removedBy'[h] \in {removedBy[h], ev[r]}
    BY <1>4 DEF RemoveReported, Shape, TypeOK
  <2>4. RecordPrecedesRemoval'
    BY <2>1, <2>2, <2>3 DEF ReportsAreTraceable, RecordPrecedesRemoval
  <2>5. PendingMarksInterrupted'
    <3>1. \A e \in Reports : e \in Processing => \E q \in Requests : pc[q] \in ReportSteps /\ ev[q] = e
      BY ProcessingIs
    <3>2. \A e \in Reports : (\E q \in Requests : pc'[q] \in ReportSteps /\ ev'[q] = e) => e \in Processing'
      BY ProcessedNext
    <3>3. \A e \in Reports : e \in Processing => e \in Processing'
      BY <2>1, <3>1, <3>2 DEF ReportSteps
    <3> QED BY <2>1, <3>3 DEF ReportsAreTraceable, PendingMarksInterrupted
  <2> QED BY <2>4, <2>5 DEF ReportsAreTraceable
<1>5. ASSUME NEW r \in Requests, BeginWrite(r) PROVE ReportsAreTraceable'
  <2>1. /\ pc[r] \in ReportSteps /\ Truncated \in Records /\ UNCHANGED <<removedBy, cut, ev>>
        /\ record' = [record EXCEPT ![ev[r]] = Truncated]
        /\ pc'[r] \in ReportSteps
        /\ \A q \in Requests \ {r} : pc'[q] = pc[q]
    BY <1>5, WritingLabels
    DEF BeginWrite, GoTo, Shape, TypeOK, history, ReportSteps, Truncated, RecordOf, Records
  <2>2. ev[r] \in Processing'
    <3>1. ev[r] \in Reports
      BY <2>1 DEF Shape, Carries
    <3>2. \A e \in Reports : (\E q \in Requests : pc'[q] \in ReportSteps /\ ev'[q] = e) => e \in Processing'
      BY ProcessedNext
    <3> QED BY <2>1, <3>1, <3>2
  <2> QED BY <2>1, <2>2, WriteMarks
<1>6. ASSUME NEW r \in Requests, EndWrite(r) PROVE ReportsAreTraceable'
  <2>1. /\ pc[r] \in ReportSteps /\ Written(r) \in Records /\ ev[r] \in Reports
    BY <1>6, WrittenType DEF EndWrite, InWrite, ReportSteps
  <2>2. /\ UNCHANGED <<removedBy, cut>>
        /\ record' = [record EXCEPT ![ev[r]] = Written(r)]
        /\ \A q \in Requests \ {r} : pc'[q] = pc[q] /\ ev'[q] = ev[q]
    <3>1. UNCHANGED <<removedBy, cut>> /\ record' = [record EXCEPT ![ev[r]] = Written(r)]
      BY <1>6 DEF EndWrite, history
    <3>2. Forget(r) \/ (GoTo(r, "check") /\ UNCHANGED ev)
      BY <1>6 DEF EndWrite
    <3> QED BY <3>1, <3>2 DEF Forget, GoTo, Shape, TypeOK
  <2>3. CASE pc[r] = "write pending"
    <3>1. pc'[r] \in ReportSteps /\ ev'[r] = ev[r]
      BY <1>6, <2>3 DEF EndWrite, GoTo, Shape, TypeOK, ReportSteps
    <3>2. \A e \in Reports : (\E q \in Requests : pc'[q] \in ReportSteps /\ ev'[q] = e) => e \in Processing'
      BY ProcessedNext
    <3> QED BY <2>1, <2>2, <3>1, <3>2, WriteMarks
  <2>4. CASE pc[r] \in {"write noop", "write final"}
    <3>1. Written(r).status \notin {"pending", "truncated"}
      <4>1. CASE pc[r] = "write noop"
        BY <4>1 DEF Written, RecordOf
      <4>2. CASE pc[r] = "write final"
        BY <4>2 DEF Written, RecordOf
      <4> QED BY <2>4, <4>1, <4>2
    <3> QED BY <2>1, <2>2, <3>1, WriteMarks
  <2> QED BY <1>6, <2>3, <2>4 DEF EndWrite, InWrite
<1>7. ASSUME NEW r \in Requests, FailWrite(r) PROVE ReportsAreTraceable'
  <2>1. /\ UNCHANGED <<record, removedBy>> /\ cut' = cut \cup {ev[r]}
        /\ \A q \in Requests \ {r} : pc'[q] = pc[q] /\ ev'[q] = ev[q]
    BY <1>7 DEF FailWrite, Forget, GoTo, Shape, TypeOK
  <2> QED BY <2>1, MarksStable
<1>8. ASSUME NEW r \in Requests, Cancel(r) PROVE ReportsAreTraceable'
  <2>1. /\ UNCHANGED removedBy /\ cut \subseteq cut'
        /\ ev[r] \in Processing => ev[r] \in cut'
        /\ \A q \in Requests \ {r} : pc'[q] = pc[q] /\ ev'[q] = ev[q]
    BY <1>8 DEF Cancel, Forget, GoTo, Shape, TypeOK
  <2>2. pc[r] \in ReportSteps => ev[r] \in Processing
    BY ProcessingIs DEF Shape, Carries
  <2>3. CASE InWrite(r)
    <3>1. pc[r] \in ReportSteps /\ Written(r) \in Records
      BY <2>3, WrittenType DEF InWrite, ReportSteps
    <3>2. record' = [record EXCEPT ![ev[r]] = Written(r)]
      BY <1>8, <2>3 DEF Cancel
    <3> QED BY <2>1, <2>2, <3>1, <3>2, WriteMarks
  <2>4. CASE ~InWrite(r)
    <3>1. UNCHANGED record
      BY <1>8, <2>4 DEF Cancel
    <3> QED BY <2>1, <2>2, <3>1, MarksStable
  <2> QED BY <2>3, <2>4
<1>9. CASE Restart
  <2>1. \A q \in Requests : pc[q] \in ReportSteps => ev[q] \in cut'
    BY <1>9, ProcessingIs DEF Restart, Shape, Carries
  <2> QED BY <1>9, <2>1, MarksStable DEF Restart
<1>10. ASSUME (\E h \in Hashes : Store(h)) \/ Tick \/ UNCHANGED vars
       PROVE  ReportsAreTraceable'
  <2>1. UNCHANGED <<record, removedBy, cut, pc, ev>>
    BY <1>10 DEF Store, Tick, vars, reqVars, history
  <2> QED BY <2>1, MarksStable
<1> QED
  BY <1>1, <1>2, <1>3, <1>4, <1>5, <1>6, <1>7, <1>8, <1>9, <1>10 DEF Next, Handler

-----------------------------------------------------------------------------
(* The theorems.                                                            *)

UseInvariant == Shape /\ ClockOrder /\ Remembers /\ SingleUsePerLife /\ ReportsAreTraceable

LEMMA UseInvariantInit == Init => UseInvariant
<1> SUFFICES ASSUME Init PROVE UseInvariant
  OBVIOUS
<1> USE EventTypes
<1>1. ClockOrder
  BY DEF Init, ClockOrder, ReadClock
<1>2. Remembers /\ SingleUsePerLife
  BY DEF Init, Remembers, ReplaySetCovers, SingleUsePerLife
<1>3. ReportsAreTraceable
  BY DEF Init, ReportsAreTraceable, RecordPrecedesRemoval, PendingMarksInterrupted
<1> QED BY InitShape, <1>1, <1>2, <1>3 DEF UseInvariant

LEMMA UseInvariantStep == UseInvariant /\ [Next]_vars => UseInvariant'
BY ShapeStep, ClockOrderStep, RemembersStep, TraceableStep DEF UseInvariant

\* A report is acted on where its event has left the replay set.
LEMMA ActingConsumes ==
  ASSUME UseInvariant, [Next]_vars, NEW r \in Requests,
         pc[r] = "consume", pc'[r] \in {"noop", "pending"}
  PROVE  /\ ev[r] \in Reports /\ Kept(at[r])[ev[r]] = Nothing
<1> USE DEF UseInvariant
<1>1. ev[r] \in Deletions \cup Reports
  BY DEF Shape, Carries
<1>2. Consume(r)
  <2>1. ASSUME NEW q \in Requests, Handler(q) PROVE q = r
    <3>1. CASE q # r
      <4>1. pc'[r] = pc[r]
        BY <2>1, <3>1 DEF Handler, AuthorizeDelete, VerifyReport, Admit, Queue, Consume, Remove,
             BeginWrite, EndWrite, FailWrite, Check, RemoveReported, Cancel, Forget, GoTo,
             Shape, TypeOK
      <4> QED BY <4>1
    <3> QED BY <3>1
  <2>2. ~Restart /\ ~Tick /\ ~UNCHANGED vars /\ \A h \in Hashes : ~Store(h)
    BY DEF Restart, Tick, Store, vars, reqVars
  <2>3. Handler(r)
    BY <2>1, <2>2 DEF Next
  <2>4. ~Cancel(r)
    BY DEF Cancel, Forget, GoTo, Shape, TypeOK
  <2> QED BY <2>3, <2>4 DEF Handler, AuthorizeDelete, VerifyReport, Admit, Queue, Remove,
            BeginWrite, EndWrite, FailWrite, InWrite, Check, RemoveReported, Writing
<1>3. ~Forget(r)
  BY DEF Forget, GoTo, Shape, TypeOK
<1>4. Kept(at[r])[ev[r]] = Nothing /\ pc'[r] = AfterConsume(ev[r])
  BY <1>2, <1>3 DEF Consume, GoTo, Shape, TypeOK
<1> QED BY <1>1, <1>4, ConsumeLabels

\* Whatever requests interleave, fail or are dropped: the replay set covers what
\* it must, no deletion event takes effect twice in one life of the process, and
\* no report is acted on again before auth_max_ttl_secs are over
\* (consume_single_use).
THEOREM EventsAreUsedOnce == Spec => UsedOnce
<1>1. Init => UseInvariant
  BY UseInvariantInit
<1>2. UseInvariant /\ [Next]_vars => UseInvariant'
  BY UseInvariantStep
<1>3. UseInvariant => TypeOK /\ ReplaySetCovers /\ SingleUsePerLife
  BY DEF UseInvariant, Shape, Remembers
<1>4. UseInvariant /\ [Next]_vars =>
        [\A r \in Requests :
           pc[r] = "consume" /\ pc'[r] \in {"noop", "pending"} /\ usedAt[ev[r]] # Nothing
             => at[r] >= usedAt[ev[r]] + MaxTTL]_vars
  BY ActingConsumes, UsedIsFound DEF UseInvariant
<1> QED BY <1>1, <1>2, <1>3, <1>4, PTL DEF Spec, UsedOnce, ReportsSpaced

\* Whatever a report removed, its record is there; and a record that was left
\* unfinished marks a report whose processing was interrupted (record_report).
THEOREM ReportsStayTraceable == Spec => []ReportsAreTraceable
<1>1. UseInvariant => ReportsAreTraceable
  BY DEF UseInvariant
<1> QED BY UseInvariantInit, UseInvariantStep, <1>1, PTL DEF Spec
=============================================================================
