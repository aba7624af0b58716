------------------------ MODULE UpstreamFetchProofs ------------------------
(***************************************************************************)
(* Proofs about UpstreamFetch, for every number of requests, negotiations  *)
(* and handles, every length of the blob and every fault.                  *)
(*                                                                         *)
(* None of the properties is inductive.  That nobody waits in vain rests   *)
(* on who leads a pending negotiation and who may drop it (Leads), and on  *)
(* the life of a handle: what its task's step says about its phase, bytes  *)
(* and temporary file (Sound), that a handle in preparation belongs to one *)
(* request (Prepares), and that none is reused while something refers to   *)
(* it (Referred).                                                          *)
(***************************************************************************)
EXTENDS UpstreamFetch, TLAPS

\* What a request holds at each step.
Carries(q) ==
    /\ q.hdl # None <=> q.pc \in {"attached", "spawn", "open", "tail"}
    /\ q.lead => q.pc \in {"walk", "attached", "spawn"} /\ q.start <= SeekAhead
    /\ q.neg # None <=> q.lead \/ q.pc = "wait"
    /\ q.pc \in {"claim", "wait"} => q.start <= SeekAhead

Shape == \A r \in Requests : Carries(rq[r])

\* A pending negotiation has a leader that has not announced anything yet.
Leads(r, n) == rq[r].lead /\ rq[r].neg = n /\ rq[r].pc \in {"walk", "attached"}
PendingIsLed == \A n \in Negotiations : phase[n] = "Pending" => \E r \in Requests : Leads(r, n)

\* The life of a handle and its download task.
Sound(x) ==
    /\ x.task \in {"prepared", "running", "publish", "settle"} => x.phase = "Running"
    /\ x.task \in {"unlink", "remove"} => x.phase # "Running"
    /\ x.task \in {"publish", "settle"} \/ x.phase = "Complete" => x.written = Len
    /\ x.task \in {"settle", "remove"} => ~x.temp

\* A handle in preparation belongs to the request that prepares it.
Prepares(r) == rq[r].pc \in {"attached", "spawn"}

\* Later requests can attach to a handle, or streams follow it.
Referred(h) == ongoing = h \/ \E r \in Requests : rq[r].pc \in {"open", "tail"} /\ rq[r].hdl = h

Alive(x) == x.phase # "Running" \/ x.task # "none"

HandlesOK ==
    /\ \A h \in Handles : Sound(hs[h])
    /\ \A h \in Handles : Referred(h) => Alive(hs[h])
    /\ \A h \in Handles : h \in reaped => hs[h].task = "none"
    /\ \A r \in Requests : Prepares(r) => hs[rq[r].hdl].task = "prepared"
    /\ \A r, s \in Requests : Prepares(r) /\ Prepares(s) /\ rq[r].hdl = rq[s].hdl => r = s

FetchInv == TypeOK /\ Shape /\ PendingIsLed /\ HandlesOK

-----------------------------------------------------------------------------
(* Types.                                                                   *)

RequestType == [pc : Labels, kind : {"get", "head", "range"}, start : 0..Len,
                neg : Negotiations \cup {None}, lead : BOOLEAN, hdl : Handles \cup {None}]

HandleType == [written : 0..Len, phase : {"Running", "Complete", "Failed"},
               temp : BOOLEAN, total : {Len, None}, large : BOOLEAN,
               task : {"none", "prepared", "running", "publish", "settle", "unlink", "remove"}]

LEMMA FreeTypes ==
  /\ NoRequest \in RequestType /\ NoHandle \in HandleType
  /\ Carries(NoRequest) /\ Sound(NoHandle) /\ NoHandle.task = "none"
  /\ NoRequest.pc = "idle" /\ NoRequest.lead = FALSE /\ NoRequest.hdl = None /\ NoRequest.neg = None
  BY FetchAssumption DEF FetchAssumption, NoRequest, NoHandle, RequestType, HandleType, Labels,
                         Carries, Sound

LEMMA OneOfType == ASSUME NEW S PROVE OneOf(S) \subseteq S
  BY DEF OneOf

LEMMA InitFetchInv == Init => FetchInv
<1> SUFFICES ASSUME Init PROVE FetchInv
  OBVIOUS
<1> USE FreeTypes, FetchAssumption DEF FetchAssumption, Init
<1>1. TypeOK
  BY DEF TypeOK, RequestType, HandleType
<1>2. Shape /\ PendingIsLed
  BY DEF Shape, PendingIsLed
<1>3. HandlesOK
  BY DEF HandlesOK, Referred, Prepares
<1> QED BY <1>1, <1>2, <1>3 DEF FetchInv

\* What is left of the handles when one request lets its own go, and what a new
\* or a dropped one looks like.
LEMMA LetsGoEnds ==
  ASSUME TypeOK, NEW r \in Requests, LetsGo(r)
  PROVE  /\ hs' \in [Handles -> HandleType]
         /\ \A h \in Handles :
              \/ hs'[h] = hs[h]
              \/ /\ hs'[h] = NoHandle /\ h # ongoing /\ hs[h].task = "none"
                 /\ \A q \in Requests \ {r} : rq[q].hdl # h
<1> DEFINE h == rq[r].hdl
<1>1. hs \in [Handles -> HandleType]
  BY DEF TypeOK, HandleType
<1>2. CASE hs' = hs
  BY <1>1, <1>2
<1>3. CASE /\ h # ongoing /\ hs[h].task = "none" /\ \A q \in Requests \ {r} : rq[q].hdl # h
           /\ hs' = [hs EXCEPT ![h] = NoHandle]
  BY <1>1, <1>3, FreeTypes
<1> QED BY <1>2, <1>3 DEF LetsGo

LEMMA NewHandleEnds ==
  ASSUME TypeOK, NEW h \in Handles, NEW a \in Answers, NEW task \in {"prepared", "running"},
         NewHandle(h, a, task)
  PROVE  /\ hs' \in [Handles -> HandleType]
         /\ Sound(hs'[h]) /\ hs'[h].phase = "Running" /\ hs'[h].task = task
         /\ \A g \in Handles \ {h} : hs'[g] = hs[g]
<1> DEFINE x == [written |-> 0, phase |-> "Running", temp |-> TRUE,
                 total |-> a.total, large |-> a.large, task |-> task]
<1>0. a.total \in {Len, None} /\ a.large \in BOOLEAN
  BY DEF Answers
<1>1. x \in HandleType /\ Sound(x) /\ x.phase = "Running" /\ x.task = task
  <2>1. 0 \in 0..Len
    BY FetchAssumption DEF FetchAssumption
  <2>2. x \in HandleType
    BY <1>0, <2>1 DEF HandleType
  <2> QED BY <2>2 DEF Sound
<1>2. hs \in [Handles -> HandleType] /\ hs' = [hs EXCEPT ![h] = x]
  BY DEF TypeOK, HandleType, NewHandle
<1> HIDE DEF x
<1> QED BY <1>1, <1>2

LEMMA DropsHandleEnds ==
  ASSUME TypeOK, NEW h \in Handles, Sound(hs[h]), NEW temp \in BOOLEAN, DropsHandle(h, temp)
  PROVE  /\ hs' \in [Handles -> HandleType]
         /\ Sound(hs'[h]) /\ hs'[h].phase # "Running" /\ hs'[h].task = "none"
         /\ \A g \in Handles \ {h} : hs'[g] = hs[g]
<1> DEFINE x == [hs[h] EXCEPT !.phase = IF @ = "Running" THEN "Failed" ELSE @,
                              !.temp = temp, !.task = "none"]
<1>1. hs \in [Handles -> HandleType] /\ hs' = [hs EXCEPT ![h] = x]
  BY DEF TypeOK, HandleType, DropsHandle
<1>2. x \in HandleType /\ x.phase # "Running" /\ x.task = "none"
      /\ x.written = hs[h].written /\ (x.phase = "Complete" => hs[h].phase = "Complete")
  BY <1>1 DEF HandleType
<1>3. Sound(x)
  BY <1>2 DEF Sound
<1> HIDE DEF x
<1> QED BY <1>1, <1>2, <1>3

\* Dropping a negotiation's guard.
LEMMA DropsNegotiationType ==
  ASSUME TypeOK, NEW r \in Requests, DropsNegotiation(r)
  PROVE  phase' \in [Negotiations -> {"Pending", "Ready", "Failed"}]
  BY DEF TypeOK, DropsNegotiation

LEMMA ReapsType ==
  ASSUME TypeOK, Shape, NEW r \in Requests, NEW d \in SUBSET Handles, Reaps(r, d)
  PROVE  reaped' \subseteq Handles \cup Negotiations
  BY DEF TypeOK, Shape, Carries, Reaps

LEMMA RemoveNegotiationType ==
  ASSUME TypeOK, NEW r, RemoveNegotiation(r)
  PROVE  negotiating' \in Negotiations \cup {None}
  BY DEF TypeOK, RemoveNegotiation

\* TypeOK by its parts.
LEMMA TypeParts ==
  TypeOK <=> /\ redirects \in BOOLEAN /\ stored \in BOOLEAN /\ missed \in BOOLEAN
             /\ ongoing \in Handles \cup {None} /\ negotiating \in Negotiations \cup {None}
             /\ phase \in [Negotiations -> {"Pending", "Ready", "Failed"}]
             /\ hs \in [Handles -> HandleType]
             /\ rq \in [Requests -> RequestType]
             /\ reaped \subseteq Handles \cup Negotiations
  BY DEF TypeOK, HandleType, RequestType

-----------------------------------------------------------------------------
(* What a step of one kind does to the four parts of the invariant.         *)

\* Only request r changes.
Others(r) == \A s \in Requests \ {r} : rq'[s] = rq[s]

LEMMA ShapeStep ==
  ASSUME Shape, NEW r \in Requests, Others(r), Carries(rq'[r])
  PROVE  Shape'
  BY DEF Shape, Others, Carries

LEMMA SameShape == ASSUME Shape, rq' = rq PROVE Shape'
  BY DEF Shape, Carries

\* Nothing becomes pending, and what r led stays led or is not pending any more.
LEMMA LedStep ==
  ASSUME PendingIsLed, NEW r \in Requests, Others(r),
         \A n \in Negotiations : phase'[n] = "Pending" =>
             phase[n] = "Pending" /\ (Leads(r, n) => Leads(r, n)')
  PROVE  PendingIsLed'
<1> SUFFICES ASSUME NEW n \in Negotiations, phase'[n] = "Pending"
             PROVE  \E s \in Requests : Leads(s, n)'
  BY DEF PendingIsLed
<1>1. PICK s \in Requests : Leads(s, n)
  BY DEF PendingIsLed
<1>2. CASE s = r
  BY <1>1, <1>2
<1>3. CASE s # r
  BY <1>1, <1>3 DEF Others, Leads
<1> QED BY <1>2, <1>3

LEMMA SameLed == ASSUME PendingIsLed, rq' = rq, phase' = phase PROVE PendingIsLed'
  BY DEF PendingIsLed, Leads

\* The leader gives up.
LEMMA GivesUp ==
  ASSUME TypeOK, Shape, PendingIsLed, NEW r \in Requests, Others(r), DropsNegotiation(r)
  PROVE  PendingIsLed'
<1> SUFFICES ASSUME NEW n \in Negotiations, phase'[n] = "Pending"
             PROVE  phase[n] = "Pending" /\ ~Leads(r, n)
  BY LedStep
<1>1. CASE rq[r].lead
  BY <1>1 DEF DropsNegotiation, Leads, TypeOK
<1>2. CASE ~rq[r].lead
  BY <1>2 DEF DropsNegotiation, Leads
<1> QED BY <1>1, <1>2

\* A request moves on and the handles stay.
LEMMA SameHandles ==
  ASSUME TypeOK, HandlesOK, NEW r \in Requests, Others(r), hs' = hs, ongoing' = ongoing,
         \A h \in Handles : h \in reaped' => h \in reaped,
         rq'[r].pc \in {"open", "tail"} => Referred(rq'[r].hdl),
         Prepares(r)' => Prepares(r) /\ rq'[r].hdl = rq[r].hdl
  PROVE  HandlesOK'
<1>1. \A h \in Handles : Sound(hs[h])'
  BY DEF HandlesOK, Sound
<1>2. \A h \in Handles : Referred(h)' => Referred(h)
  BY DEF Referred, Others
<1>3. \A h \in Handles : Referred(h)' => Alive(hs[h])'
  BY <1>2 DEF HandlesOK, Alive
<1>4. \A h \in Handles : h \in reaped' => hs'[h].task = "none"
  BY DEF HandlesOK
<1>5. \A s \in Requests : Prepares(s)' => Prepares(s) /\ rq'[s].hdl = rq[s].hdl
  BY DEF Prepares, Others
<1>6. \A s \in Requests : Prepares(s)' => hs'[rq'[s].hdl].task = "prepared"
  BY <1>5 DEF HandlesOK
<1>7. \A s, t \in Requests : Prepares(s)' /\ Prepares(t)' /\ rq'[s].hdl = rq'[t].hdl => s = t
  BY <1>5 DEF HandlesOK
<1> QED BY <1>1, <1>3, <1>4, <1>6, <1>7 DEF HandlesOK

\* Request r lets its handle go.
LEMMA LettingGo ==
  ASSUME TypeOK, HandlesOK, NEW r \in Requests, Others(r), LetsGo(r), ongoing' = ongoing,
         \A h \in Handles : h \in reaped' => h \in reaped,
         rq'[r].pc \notin {"open", "tail", "attached", "spawn"}
  PROVE  HandlesOK'
<1>0. \A h \in Handles :
        \/ hs'[h] = hs[h]
        \/ /\ hs'[h] = NoHandle /\ h # ongoing /\ hs[h].task = "none"
           /\ \A q \in Requests \ {r} : rq[q].hdl # h
  BY LetsGoEnds
<1>1. \A h \in Handles : Sound(hs[h])'
  BY <1>0, FreeTypes DEF HandlesOK, Sound
<1>2. \A h \in Handles : Referred(h)' => Referred(h) /\ hs'[h] = hs[h]
  BY <1>0 DEF Referred, Others
<1>3. \A h \in Handles : Referred(h)' => Alive(hs[h])'
  BY <1>2 DEF HandlesOK, Alive
<1>4. \A h \in Handles : h \in reaped' => hs'[h].task = "none"
  BY <1>0, FreeTypes DEF HandlesOK
<1>5. \A s \in Requests : Prepares(s)' => Prepares(s) /\ s # r /\ rq'[s].hdl = rq[s].hdl
  BY DEF Prepares, Others
<1>6. \A s \in Requests : Prepares(s)' => hs'[rq'[s].hdl].task = "prepared"
  <2> SUFFICES ASSUME NEW s \in Requests, Prepares(s)' PROVE hs'[rq'[s].hdl].task = "prepared"
    OBVIOUS
  <2>1. Prepares(s) /\ s # r /\ rq'[s].hdl = rq[s].hdl /\ hs[rq[s].hdl].task = "prepared"
    BY <1>5 DEF HandlesOK
  <2>2. rq[s].hdl \in Handles \cup {None}
    BY TypeParts DEF RequestType
  <2>3. CASE rq[s].hdl \in Handles
    BY <1>0, <2>1, <2>3
  <2>4. CASE rq[s].hdl = None
    BY <2>1, <2>4 DEF LetsGo
  <2> QED BY <2>2, <2>3, <2>4
<1>7. \A s, t \in Requests : Prepares(s)' /\ Prepares(t)' /\ rq'[s].hdl = rq'[t].hdl => s = t
  BY <1>5 DEF HandlesOK
<1> QED BY <1>1, <1>3, <1>4, <1>6, <1>7 DEF HandlesOK

LEMMA PreparesOne ==
  ASSUME TypeOK, Shape, NEW r \in Requests, Prepares(r)
  PROVE  rq[r].hdl \in Handles
  BY TypeParts DEF RequestType, Shape, Carries, Prepares

\* A request registers a new handle: nothing referred to it before.
LEMMA Registering ==
  ASSUME TypeOK, HandlesOK, NEW r \in Requests, Others(r), reaped' = reaped,
         NEW h \in FreshHandles, NEW a \in Answers, NEW task \in {"prepared", "running"},
         NewHandle(h, a, task), ongoing' = h,
         rq'[r].pc \notin {"open", "tail"},
         Prepares(r)' => task = "prepared" /\ rq'[r].hdl = h
  PROVE  HandlesOK'
<1>0. /\ h \in Handles /\ h \notin reaped /\ \A s \in Requests : rq[s].hdl # h
      /\ Sound(hs'[h]) /\ hs'[h].task = task
      /\ \A g \in Handles \ {h} : hs'[g] = hs[g]
  BY NewHandleEnds DEF FreshHandles
<1>1. \A g \in Handles : Sound(hs[g])'
  BY <1>0 DEF HandlesOK, Sound
<1>2. \A g \in Handles : Referred(g)' => g = h \/ (Referred(g) /\ hs'[g] = hs[g])
  BY <1>0 DEF Referred, Others
<1>3. \A g \in Handles : Referred(g)' => Alive(hs[g])'
  BY <1>0, <1>2 DEF HandlesOK, Alive
<1>4. \A g \in Handles : g \in reaped' => hs'[g].task = "none"
  BY <1>0 DEF HandlesOK
<1>5. \A s \in Requests : Prepares(s)' =>
        \/ s = r /\ task = "prepared" /\ rq'[s].hdl = h
        \/ s # r /\ Prepares(s) /\ rq'[s].hdl = rq[s].hdl /\ rq[s].hdl # h
  BY <1>0 DEF Prepares, Others
<1>6. \A s \in Requests : Prepares(s)' => hs'[rq'[s].hdl].task = "prepared"
  <2> SUFFICES ASSUME NEW s \in Requests, Prepares(s)' PROVE hs'[rq'[s].hdl].task = "prepared"
    OBVIOUS
  <2>1. CASE s = r
    BY <1>0, <1>5, <2>1
  <2>2. CASE s # r
    <3>1. Prepares(s) /\ rq'[s].hdl = rq[s].hdl /\ rq[s].hdl # h /\ hs[rq[s].hdl].task = "prepared"
      BY <1>5, <2>2 DEF HandlesOK
    <3>2. CASE rq[s].hdl \in Handles
      BY <1>0, <3>1, <3>2
    <3>3. CASE rq[s].hdl = None
      BY <3>1, <3>3 DEF NewHandle
    <3> QED BY <3>2, <3>3, TypeParts DEF RequestType
  <2> QED BY <2>1, <2>2
<1>7. \A s, t \in Requests : Prepares(s)' /\ Prepares(t)' /\ rq'[s].hdl = rq'[t].hdl => s = t
  BY <1>5 DEF HandlesOK
<1> QED BY <1>1, <1>3, <1>4, <1>6, <1>7 DEF HandlesOK

\* A request gives up the handle it prepares.
LEMMA Dropping ==
  ASSUME TypeOK, Shape, HandlesOK, NEW r \in Requests, Others(r), ongoing' = ongoing,
         Prepares(r), NEW temp \in BOOLEAN, DropsHandle(rq[r].hdl, temp),
         \A g \in Handles : g \in reaped' => g \in reaped \/ g = rq[r].hdl,
         rq'[r].pc \notin {"open", "tail", "attached", "spawn"}
  PROVE  HandlesOK'
<1> DEFINE h == rq[r].hdl
<1>a. h \in Handles /\ Sound(hs[h])
  BY PreparesOne DEF HandlesOK
<1>0. /\ Sound(hs'[h]) /\ Alive(hs'[h]) /\ hs'[h].task = "none"
      /\ \A g \in Handles \ {h} : hs'[g] = hs[g]
  BY <1>a, DropsHandleEnds DEF Alive
<1>1. \A g \in Handles : Sound(hs[g])'
  BY <1>0 DEF HandlesOK, Sound
<1>2. \A g \in Handles : Referred(g)' => g = h \/ (Referred(g) /\ hs'[g] = hs[g])
  BY <1>0 DEF Referred, Others
<1>3. \A g \in Handles : Referred(g)' => Alive(hs[g])'
  BY <1>0, <1>2 DEF HandlesOK, Alive
<1>4. \A g \in Handles : g \in reaped' => hs'[g].task = "none"
  BY <1>0 DEF HandlesOK
<1>5. \A s \in Requests : Prepares(s)' =>
        s # r /\ Prepares(s) /\ rq'[s].hdl = rq[s].hdl /\ rq[s].hdl # h /\ rq[s].hdl \in Handles
  <2> SUFFICES ASSUME NEW s \in Requests, Prepares(s)'
               PROVE  s # r /\ Prepares(s) /\ rq'[s].hdl = rq[s].hdl /\ rq[s].hdl # h
                      /\ rq[s].hdl \in Handles
    OBVIOUS
  <2>1. s # r /\ Prepares(s) /\ rq'[s].hdl = rq[s].hdl
    BY DEF Prepares, Others
  <2> QED BY <2>1, PreparesOne DEF HandlesOK
<1>6. \A s \in Requests : Prepares(s)' => hs'[rq'[s].hdl].task = "prepared"
  BY <1>0, <1>5 DEF HandlesOK
<1>7. \A s, t \in Requests : Prepares(s)' /\ Prepares(t)' /\ rq'[s].hdl = rq'[t].hdl => s = t
  BY <1>5 DEF HandlesOK
<1> QED BY <1>1, <1>3, <1>4, <1>6, <1>7 DEF HandlesOK

\* A download's own step: x is what becomes of its handle.
LEMMA Downloading ==
  ASSUME TypeOK, Shape, HandlesOK, rq' = rq, reaped' \subseteq reaped, ongoing' \in {ongoing, None},
         NEW h \in Handles, hs[h].task # "prepared",
         NEW x \in HandleType, hs' = [hs EXCEPT ![h] = x], Sound(x),
         h \in reaped' => x.task = "none",
         Alive(x) \/ (ongoing' # h /\ ~Tailed(h))
  PROVE  HandlesOK'
<1>0. hs'[h] = x /\ \A g \in Handles \ {h} : hs'[g] = hs[g]
  BY TypeParts
<1>1. \A g \in Handles : Sound(hs[g])'
  BY <1>0 DEF HandlesOK, Sound
<1>2. \A g \in Handles : Referred(g)' => Referred(g)
  BY FetchAssumption DEF FetchAssumption, Referred
<1>3. \A g \in Handles : Referred(g)' => Alive(hs[g])'
  <2>1. Referred(h)' => Alive(x)
    BY DEF Referred, Tailed
  <2> QED BY <1>0, <1>2, <2>1 DEF HandlesOK, Alive
<1>4. \A g \in Handles : g \in reaped' => hs'[g].task = "none"
  BY <1>0 DEF HandlesOK
<1>5. \A s \in Requests : Prepares(s)' =>
        Prepares(s) /\ rq'[s].hdl = rq[s].hdl /\ rq[s].hdl # h /\ rq[s].hdl \in Handles
  BY PreparesOne DEF Prepares, HandlesOK
<1>6. \A s \in Requests : Prepares(s)' => hs'[rq'[s].hdl].task = "prepared"
  BY <1>0, <1>5 DEF HandlesOK
<1>7. \A s, t \in Requests : Prepares(s)' /\ Prepares(t)' /\ rq'[s].hdl = rq'[t].hdl => s = t
  BY <1>5 DEF HandlesOK
<1> QED BY <1>1, <1>3, <1>4, <1>6, <1>7 DEF HandlesOK

-----------------------------------------------------------------------------
(* The steps of a request.                                                  *)

LEMMA TypePartsNext ==
  TypeOK' <=> /\ redirects' \in BOOLEAN /\ stored' \in BOOLEAN /\ missed' \in BOOLEAN
              /\ ongoing' \in Handles \cup {None} /\ negotiating' \in Negotiations \cup {None}
              /\ phase' \in [Negotiations -> {"Pending", "Ready", "Failed"}]
              /\ hs' \in [Handles -> HandleType]
              /\ rq' \in [Requests -> RequestType]
              /\ reaped' \subseteq Handles \cup Negotiations
  BY DEF TypeOK, HandleType, RequestType

LEMMA RequestBecomes ==
  ASSUME TypeOK, NEW r \in Requests, NEW q \in RequestType, rq' = [rq EXCEPT ![r] = q]
  PROVE  rq' \in [Requests -> RequestType] /\ Others(r) /\ rq'[r] = q
  BY TypeParts DEF Others

LEMMA RequestEnds ==
  ASSUME TypeOK, Shape, NEW r \in Requests, rq' = [rq EXCEPT ![r] = NoRequest]
  PROVE  rq' \in [Requests -> RequestType] /\ Others(r) /\ rq'[r].pc = "idle" /\ Shape'
  BY FreeTypes, RequestBecomes, ShapeStep

LEMMA ArriveInv ==
  ASSUME FetchInv, NEW r \in Requests, NEW kind \in {"get", "head", "range"},
         NEW start \in 0..Len, Arrive(r, kind, start)
  PROVE  FetchInv'
<1> DEFINE q == [NoRequest EXCEPT !.pc = IF redirects THEN "redirect" ELSE "look",
                                  !.kind = kind, !.start = start]
<1> USE DEF FetchInv
<1>1. q \in RequestType /\ q.pc \in {"redirect", "look"} /\ Carries(q)
  BY FreeTypes DEF NoRequest, RequestType, Labels, Carries
<1>2. rq' = [rq EXCEPT ![r] = q]
  BY DEF Arrive
<1> HIDE DEF q
<1>3. rq' \in [Requests -> RequestType] /\ Others(r) /\ rq'[r] = q
  BY <1>1, <1>2, RequestBecomes
<1>4. TypeOK'
  BY <1>3, TypeParts, TypePartsNext DEF Arrive
<1>5. Shape'
  BY <1>1, <1>3, ShapeStep
<1>6. PendingIsLed'
  BY <1>3, LedStep DEF Arrive, Leads
<1>7. HandlesOK'
  BY <1>1, <1>3, SameHandles DEF Arrive, Prepares
<1> QED BY <1>4, <1>5, <1>6, <1>7

LEMMA LookInv ==
  ASSUME FetchInv, NEW r \in Requests, Look(r)
  PROVE  FetchInv'
<1> USE DEF FetchInv
<1> DEFINE q == [rq[r] EXCEPT !.pc = IF ongoing # None THEN "open"
                                     ELSE IF Coalescible(r) THEN "claim" ELSE "walk",
                              !.hdl = ongoing]
<1>a. q \in RequestType
  BY TypeParts DEF RequestType, Labels
<1>b. rq' = [rq EXCEPT ![r] = q]
  BY TypeParts DEF Look
<1>1. rq' \in [Requests -> RequestType] /\ Others(r) /\ rq'[r] = q
  BY <1>a, <1>b, RequestBecomes
<1>2. Carries(rq[r]) /\ rq[r].pc = "look" /\ rq[r] \in RequestType
  BY TypeParts DEF Shape, Look
<1>3. Carries(rq'[r])
  BY <1>1, <1>2 DEF Carries, RequestType, Coalescible
<1>4. TypeOK'
  BY <1>1, TypeParts, TypePartsNext DEF Look
<1>5. Shape'
  BY <1>1, <1>3, ShapeStep
<1>6. PendingIsLed'
  BY <1>1, <1>2, LedStep DEF Look, Leads, Carries
<1>7. HandlesOK'
  <2>1. rq'[r].pc \in {"open", "claim", "walk"} /\ rq'[r].hdl = ongoing
    BY <1>1, <1>2 DEF RequestType
  <2>2. rq'[r].pc \in {"open", "tail"} => Referred(rq'[r].hdl)
    BY <2>1 DEF Referred
  <2> QED BY <1>1, <2>1, <2>2, SameHandles DEF Look, Prepares
<1> QED BY <1>4, <1>5, <1>6, <1>7

LEMMA ClaimInv ==
  ASSUME FetchInv, NEW r \in Requests, Claim(r)
  PROVE  FetchInv'
<1> USE DEF FetchInv
<1>2. Carries(rq[r]) /\ rq[r].pc = "claim" /\ rq[r] \in RequestType
  BY TypeParts DEF Shape, Claim
<1>3. ASSUME NEW n \in FreshNegotiations, negotiating' = n,
             phase' = [phase EXCEPT ![n] = "Pending"],
             rq' = [rq EXCEPT ![r].pc = "walk", ![r].neg = n, ![r].lead = TRUE]
      PROVE  FetchInv'
  <2>0. n \in Negotiations
    BY DEF FreshNegotiations
  <2> DEFINE q == [rq[r] EXCEPT !.pc = "walk", !.neg = n, !.lead = TRUE]
  <2>a. q \in RequestType
    BY <2>0, TypeParts DEF RequestType, Labels
  <2>b. rq' = [rq EXCEPT ![r] = q]
    BY <1>3, TypeParts
  <2>1. rq' \in [Requests -> RequestType] /\ Others(r) /\ rq'[r] = q
    BY <2>a, <2>b, RequestBecomes
  <2>2. Carries(rq'[r]) /\ rq'[r].pc = "walk" /\ rq'[r].lead /\ rq'[r].neg = n
    BY <1>2, <2>0, <2>1, FetchAssumption DEF FetchAssumption, Carries, RequestType
  <2>3. TypeOK'
    BY <1>3, <2>0, <2>1, TypeParts, TypePartsNext DEF Claim
  <2>4. Shape'
    BY <2>1, <2>2, ShapeStep
  <2>5. PendingIsLed'
    <3> SUFFICES ASSUME NEW m \in Negotiations, phase'[m] = "Pending"
                 PROVE  \E s \in Requests : Leads(s, m)'
      BY DEF PendingIsLed
    <3>1. CASE m = n
      BY <2>2, <3>1 DEF Leads
    <3>2. CASE m # n
      <4>1. PICK s \in Requests : Leads(s, m)
        BY <1>3, <3>2, TypeParts DEF PendingIsLed
      <4>2. s # r
        BY <1>2, <4>1 DEF Leads
      <4> QED BY <2>1, <4>1, <4>2 DEF Leads, Others
    <3> QED BY <3>1, <3>2
  <2>6. HandlesOK'
    BY <2>1, <2>2, SameHandles DEF Claim, Prepares
  <2> QED BY <2>3, <2>4, <2>5, <2>6
<1>4. ASSUME negotiating \in Negotiations, negotiating' = negotiating, phase' = phase,
             rq' = [rq EXCEPT ![r].pc = "wait", ![r].neg = negotiating]
      PROVE  FetchInv'
  <2> DEFINE q == [rq[r] EXCEPT !.pc = "wait", !.neg = negotiating]
  <2>a. q \in RequestType
    BY <1>4, TypeParts DEF RequestType, Labels
  <2>b. rq' = [rq EXCEPT ![r] = q]
    BY <1>4, TypeParts
  <2>1. rq' \in [Requests -> RequestType] /\ Others(r) /\ rq'[r] = q
    BY <2>a, <2>b, RequestBecomes
  <2>2. Carries(rq'[r]) /\ rq'[r].pc = "wait"
    BY <1>2, <1>4, <2>1, FetchAssumption DEF FetchAssumption, Carries, RequestType
  <2>3. TypeOK'
    BY <1>4, <2>1, TypeParts, TypePartsNext DEF Claim
  <2>4. Shape'
    BY <2>1, <2>2, ShapeStep
  <2>5. PendingIsLed'
    BY <1>2, <1>4, <2>1, LedStep DEF Leads
  <2>6. HandlesOK'
    BY <2>1, <2>2, SameHandles DEF Claim, Prepares
  <2> QED BY <2>3, <2>4, <2>5, <2>6
<1> QED BY <1>3, <1>4, OneOfType DEF Claim

LEMMA WaitInv ==
  ASSUME FetchInv, NEW r \in Requests, Wait(r)
  PROVE  FetchInv'
<1> USE DEF FetchInv
<1> DEFINE p == phase[rq[r].neg]
           q == [rq[r] EXCEPT !.pc = IF p = "Pending" THEN "walk"
                                     ELSE IF p = "Ready" /\ ongoing # None THEN "open"
                                     ELSE "claim",
                              !.hdl = IF p = "Ready" THEN ongoing ELSE None,
                              !.neg = None]
<1>1. q \in RequestType
  BY TypeParts DEF RequestType, Labels
<1>2. rq' = [rq EXCEPT ![r] = q]
  BY TypeParts DEF Wait
<1>3. rq' \in [Requests -> RequestType] /\ Others(r) /\ rq'[r] = q
  BY <1>1, <1>2, RequestBecomes
<1>4. Carries(rq[r]) /\ rq[r].pc = "wait" /\ rq[r] \in RequestType /\ ~rq[r].lead
  BY TypeParts DEF Shape, Wait, Carries
<1>5. rq[r].hdl = None /\ rq[r].start <= SeekAhead
  BY <1>4 DEF Carries
<1>6. /\ q.pc \in {"walk", "open", "claim"} /\ q.lead = rq[r].lead /\ q.neg = None
      /\ q.start = rq[r].start
      /\ q.pc = "open" => q.hdl = ongoing /\ ongoing # None
      /\ q.pc # "open" => q.hdl = None
  BY <1>4 DEF RequestType
<1> HIDE DEF q, p
<1>7. Carries(q)
  BY <1>4, <1>5, <1>6 DEF Carries
<1>8. TypeOK'
  BY <1>3, TypeParts, TypePartsNext DEF Wait
<1>9. Shape'
  BY <1>3, <1>7, ShapeStep
<1>10. PendingIsLed'
  BY <1>3, <1>4, LedStep DEF Wait, Leads
<1>11. HandlesOK'
  BY <1>3, <1>6, SameHandles DEF Wait, Prepares, Referred
<1> QED BY <1>8, <1>9, <1>10, <1>11

LEMMA WalkFailsInv ==
  ASSUME FetchInv, NEW r \in Requests, WalkFails(r)
  PROVE  FetchInv'
<1> USE DEF FetchInv
<1>1. rq' \in [Requests -> RequestType] /\ Others(r) /\ rq'[r].pc = "idle" /\ Shape'
  BY RequestEnds DEF WalkFails
<1>2. missed' \in BOOLEAN
  BY TypeParts DEF WalkFails, RecordMiss
<1>3. phase' \in [Negotiations -> {"Pending", "Ready", "Failed"}]
  BY DropsNegotiationType DEF WalkFails
<1>4. reaped' \subseteq Handles \cup Negotiations /\ \A h \in Handles : h \in reaped' => h \in reaped
  <2>1. rq[r].lead => rq[r].neg \in Negotiations
    BY TypeParts DEF RequestType, Shape, Carries
  <2> QED BY <2>1, TypeParts, FetchAssumption DEF FetchAssumption, WalkFails, Reaps
<1>5. TypeOK'
  BY <1>1, <1>2, <1>3, <1>4, TypeParts, TypePartsNext DEF WalkFails
<1>6. PendingIsLed'
  BY <1>1, GivesUp DEF WalkFails
<1>7. HandlesOK'
  BY <1>1, <1>4, SameHandles DEF WalkFails, Prepares
<1> QED BY <1>1, <1>5, <1>6, <1>7

LEMMA PassInv ==
  ASSUME FetchInv, NEW r \in Requests, Pass(r)
  PROVE  FetchInv'
<1> USE DEF FetchInv
<1>1. rq' \in [Requests -> RequestType] /\ Others(r) /\ rq'[r].pc = "idle" /\ Shape'
  BY RequestEnds DEF Pass
<1>2. TypeOK'
  BY <1>1, TypeParts, TypePartsNext DEF Pass
<1>3. ~rq[r].lead
  BY TypeParts DEF Pass, Shape, Carries, Coalescible, RequestType
<1>4. PendingIsLed'
  BY <1>1, <1>3, LedStep DEF Pass, Leads
<1>5. HandlesOK'
  BY <1>1, SameHandles DEF Pass, Prepares
<1> QED BY <1>1, <1>2, <1>4, <1>5

LEMMA RefuseInv ==
  ASSUME FetchInv, NEW r \in Requests, Refuse(r)
  PROVE  FetchInv'
<1> USE DEF FetchInv
<1> DEFINE q == [rq[r] EXCEPT !.pc = "proxy", !.lead = FALSE, !.neg = None]
<1>1. q \in RequestType
  BY TypeParts DEF RequestType, Labels
<1>2. rq' = [rq EXCEPT ![r] = q]
  BY TypeParts DEF Refuse
<1>3. rq' \in [Requests -> RequestType] /\ Others(r) /\ rq'[r] = q
  BY <1>1, <1>2, RequestBecomes
<1>4. Carries(q) /\ q.pc = "proxy"
  BY TypeParts DEF RequestType, Refuse, Shape, Carries
<1> HIDE DEF q
<1>5. TypeOK'
  BY <1>3, DropsNegotiationType, RemoveNegotiationType, TypeParts, TypePartsNext DEF Refuse
<1>6. Shape'
  BY <1>3, <1>4, ShapeStep
<1>7. PendingIsLed'
  BY <1>3, GivesUp DEF Refuse
<1>8. HandlesOK'
  BY <1>3, <1>4, SameHandles DEF Refuse, Prepares
<1> QED BY <1>5, <1>6, <1>7, <1>8

LEMMA PrepareInv ==
  ASSUME FetchInv, NEW r \in Requests, Prepare(r)
  PROVE  FetchInv'
<1> USE DEF FetchInv
<1>0. PICK h \in FreshHandles, a \in Answers :
        /\ NewHandle(h, a, "prepared") /\ ongoing' = h
        /\ rq' = [rq EXCEPT ![r].pc = "attached", ![r].hdl = h]
  BY OneOfType DEF Prepare
<1> DEFINE q == [rq[r] EXCEPT !.pc = "attached", !.hdl = h]
<1>a. h \in Handles
  BY DEF FreshHandles
<1>1. q \in RequestType
  BY <1>a, TypeParts DEF RequestType, Labels
<1>2. rq' = [rq EXCEPT ![r] = q]
  BY <1>0, TypeParts
<1>3. rq' \in [Requests -> RequestType] /\ Others(r) /\ rq'[r] = q
  BY <1>1, <1>2, RequestBecomes
<1>4. /\ q.pc = "attached" /\ q.hdl = h /\ q.lead = rq[r].lead /\ q.neg = rq[r].neg
      /\ q.start = rq[r].start /\ rq[r].pc = "walk" /\ Carries(rq[r])
  BY TypeParts DEF RequestType, Prepare, Shape
<1> HIDE DEF q
<1>5. Carries(q)
  BY <1>a, <1>4, FetchAssumption DEF FetchAssumption, Carries
<1>6. hs' \in [Handles -> HandleType]
  BY <1>0, <1>a, NewHandleEnds
<1>7. TypeOK'
  BY <1>0, <1>a, <1>3, <1>6, TypeParts, TypePartsNext DEF Prepare
<1>8. Shape'
  BY <1>3, <1>5, ShapeStep
<1>9. PendingIsLed'
  BY <1>3, <1>4, LedStep DEF Prepare, Leads
<1>10. HandlesOK'
  BY <1>0, <1>3, <1>4, Registering DEF Prepare, Prepares
<1> QED BY <1>7, <1>8, <1>9, <1>10

LEMMA BackgroundGetInv ==
  ASSUME FetchInv, NEW r \in Requests, BackgroundGet(r)
  PROVE  FetchInv'
<1> USE DEF FetchInv
<1>1. rq' \in [Requests -> RequestType] /\ Others(r) /\ rq'[r].pc = "idle" /\ Shape'
  BY RequestEnds DEF BackgroundGet
<1>2. ~rq[r].lead
  BY DEF BackgroundGet, Shape, Carries
<1>3. PendingIsLed'
  BY <1>1, <1>2, LedStep DEF BackgroundGet, Leads
<1>4. ASSUME NEW h \in FreshHandles, NEW a \in Answers, NewHandle(h, a, "running"), ongoing' = h
      PROVE  FetchInv'
  <2>1. h \in Handles /\ hs' \in [Handles -> HandleType]
    BY <1>4, NewHandleEnds DEF FreshHandles
  <2>2. TypeOK'
    BY <1>1, <1>4, <2>1, TypeParts, TypePartsNext DEF BackgroundGet
  <2>3. HandlesOK'
    BY <1>1, <1>4, Registering DEF BackgroundGet, Prepares
  <2> QED BY <1>1, <1>3, <2>2, <2>3
<1>5. ASSUME UNCHANGED <<hs, ongoing>> PROVE FetchInv'
  <2>1. TypeOK'
    BY <1>1, <1>5, TypeParts, TypePartsNext DEF BackgroundGet
  <2>2. HandlesOK'
    BY <1>1, <1>5, SameHandles DEF BackgroundGet, Prepares
  <2> QED BY <1>1, <1>3, <2>1, <2>2
<1> QED BY <1>4, <1>5, OneOfType DEF BackgroundGet

LEMMA TooLargeInv ==
  ASSUME FetchInv, NEW r \in Requests, TooLarge(r)
  PROVE  FetchInv'
<1> USE DEF FetchInv
<1>1. rq' \in [Requests -> RequestType] /\ Others(r) /\ rq'[r].pc = "idle" /\ Shape'
  BY RequestEnds DEF TooLarge
<1>2. Prepares(r) /\ rq[r].hdl \in Handles
  BY PreparesOne DEF TooLarge, Prepares
<1>3. hs' \in [Handles -> HandleType]
  BY <1>2, DropsHandleEnds DEF TooLarge, HandlesOK
<1>4. TypeOK'
  BY <1>1, <1>2, <1>3, DropsNegotiationType, RemoveNegotiationType, TypeParts, TypePartsNext
  DEF TooLarge
<1>5. PendingIsLed'
  BY <1>1, GivesUp DEF TooLarge
<1>6. HandlesOK'
  BY <1>1, <1>2, Dropping DEF TooLarge
<1> QED BY <1>1, <1>4, <1>5, <1>6

LEMMA OpenOwnFailsInv ==
  ASSUME FetchInv, NEW r \in Requests, OpenOwnFails(r)
  PROVE  FetchInv'
<1> USE DEF FetchInv
<1>1. rq' \in [Requests -> RequestType] /\ Others(r) /\ rq'[r].pc = "idle" /\ Shape'
  BY RequestEnds DEF OpenOwnFails
<1>2. Prepares(r) /\ rq[r].hdl \in Handles
  BY PreparesOne DEF OpenOwnFails, Prepares
<1>3. PICK left \in BOOLEAN : DropsHandle(rq[r].hdl, left)
  BY DEF OpenOwnFails
<1>4. hs' \in [Handles -> HandleType]
  BY <1>2, <1>3, DropsHandleEnds DEF HandlesOK
<1>5. missed' \in BOOLEAN
  BY TypeParts DEF OpenOwnFails, RecordMiss
<1>6. reaped' \subseteq Handles \cup Negotiations
  BY <1>2, ReapsType DEF OpenOwnFails
<1>7. TypeOK'
  BY <1>1, <1>4, <1>5, <1>6, DropsNegotiationType, TypeParts, TypePartsNext DEF OpenOwnFails
<1>8. PendingIsLed'
  BY <1>1, GivesUp DEF OpenOwnFails
<1>9. \A g \in Handles : g \in reaped' => g \in reaped \/ g = rq[r].hdl
  <2>1. rq[r].lead => rq[r].neg \in Negotiations
    BY TypeParts DEF RequestType, Shape, Carries
  <2> QED BY <2>1, FetchAssumption DEF FetchAssumption, OpenOwnFails, Reaps
<1>10. HandlesOK'
  BY <1>1, <1>2, <1>3, <1>9, Dropping DEF OpenOwnFails
<1> QED BY <1>1, <1>7, <1>8, <1>10

LEMMA OpenOwnInv ==
  ASSUME FetchInv, NEW r \in Requests, OpenOwn(r)
  PROVE  FetchInv'
<1> USE DEF FetchInv
<1> DEFINE q == [rq[r] EXCEPT !.pc = "spawn"]
<1>1. q \in RequestType
  BY TypeParts DEF RequestType, Labels
<1>2. rq' = [rq EXCEPT ![r] = q]
  BY TypeParts DEF OpenOwn
<1>3. rq' \in [Requests -> RequestType] /\ Others(r) /\ rq'[r] = q
  BY <1>1, <1>2, RequestBecomes
<1>4. /\ q.pc = "spawn" /\ q.hdl = rq[r].hdl /\ q.lead = rq[r].lead /\ q.neg = rq[r].neg
      /\ q.start = rq[r].start /\ rq[r].pc = "attached" /\ Carries(rq[r])
  BY TypeParts DEF RequestType, OpenOwn, Shape
<1> HIDE DEF q
<1>5. Carries(q)
  BY <1>4 DEF Carries
<1>6. phase' \in [Negotiations -> {"Pending", "Ready", "Failed"}]
  BY TypeParts DEF OpenOwn
<1>7. TypeOK'
  BY <1>3, <1>6, TypeParts, TypePartsNext DEF OpenOwn
<1>8. Shape'
  BY <1>3, <1>5, ShapeStep
<1>9. PendingIsLed'
  <2> SUFFICES ASSUME NEW n \in Negotiations, phase'[n] = "Pending"
               PROVE  phase[n] = "Pending" /\ ~Leads(r, n)
    BY <1>3, LedStep
  <2>1. CASE rq[r].lead
    BY <2>1, TypeParts DEF OpenOwn, Leads
  <2>2. CASE ~rq[r].lead
    BY <2>2 DEF OpenOwn, Leads
  <2> QED BY <2>1, <2>2
<1>10. HandlesOK'
  BY <1>3, <1>4, SameHandles DEF OpenOwn, Prepares
<1> QED BY <1>7, <1>8, <1>9, <1>10

LEMMA SpawnInv ==
  ASSUME FetchInv, NEW r \in Requests, Spawn(r)
  PROVE  FetchInv'
<1> USE DEF FetchInv
<1> DEFINE h == rq[r].hdl
           x == [hs[h] EXCEPT !.task = "running"]
           t == [NoRequest EXCEPT !.pc = "tail", !.hdl = h, !.start = rq[r].start]
           q == IF rq[r].kind = "head" THEN NoRequest ELSE t
<1>1. Prepares(r) /\ h \in Handles /\ hs[h].task = "prepared" /\ Sound(hs[h]) /\ rq[r].pc = "spawn"
  BY PreparesOne DEF Spawn, Prepares, HandlesOK
<1>2. x \in HandleType /\ Sound(x) /\ x.task = "running" /\ x.phase = "Running"
  BY <1>1, TypeParts DEF HandleType, Sound
<1>3. hs' = [hs EXCEPT ![h] = x]
  BY <1>1, TypeParts DEF Spawn
<1> HIDE DEF x
<1>4. hs' \in [Handles -> HandleType] /\ hs'[h] = x /\ \A g \in Handles \ {h} : hs'[g] = hs[g]
  BY <1>1, <1>2, <1>3, TypeParts
<1>5. t \in RequestType /\ t.pc = "tail" /\ Carries(t)
  BY <1>1, TypeParts, FreeTypes, FetchAssumption
  DEF FetchAssumption, RequestType, NoRequest, Labels, Carries
<1>6. q \in RequestType /\ q.pc \in {"idle", "tail"} /\ Carries(q)
  BY <1>5, FreeTypes
<1>7. (q.pc = "tail" => q.hdl = h)
  BY FreeTypes, <1>1, TypeParts DEF NoRequest, RequestType
<1>8. rq' = [rq EXCEPT ![r] = q]
  BY DEF Spawn
<1> HIDE DEF q, t
<1>9. rq' \in [Requests -> RequestType] /\ Others(r) /\ rq'[r] = q
  BY <1>6, <1>8, RequestBecomes
<1>10. TypeOK'
  BY <1>4, <1>9, RemoveNegotiationType, TypeParts, TypePartsNext DEF Spawn
<1>11. Shape'
  BY <1>6, <1>9, ShapeStep
<1>12. PendingIsLed'
  BY <1>1, <1>9, LedStep DEF Spawn, Leads
<1>13. HandlesOK'
  <2>1. \A g \in Handles : Sound(hs[g])'
    BY <1>2, <1>4 DEF HandlesOK, Sound
  <2>2. \A g \in Handles : Referred(g)' => g = h \/ Referred(g)
    BY <1>6, <1>7, <1>9 DEF Referred, Others, Spawn
  <2>3. \A g \in Handles : Referred(g)' => Alive(hs[g])'
    BY <1>2, <1>4, <2>2 DEF HandlesOK, Alive
  <2>4. \A g \in Handles : g \in reaped' => hs'[g].task = "none"
    BY <1>1, <1>4 DEF HandlesOK, Spawn
  <2>5. \A s \in Requests : Prepares(s)' =>
          Prepares(s) /\ rq'[s].hdl = rq[s].hdl /\ rq[s].hdl # h /\ rq[s].hdl \in Handles
    <3> SUFFICES ASSUME NEW s \in Requests, Prepares(s)'
                 PROVE  Prepares(s) /\ rq'[s].hdl = rq[s].hdl /\ rq[s].hdl # h
                        /\ rq[s].hdl \in Handles
      OBVIOUS
    <3>1. s # r /\ Prepares(s) /\ rq'[s].hdl = rq[s].hdl
      BY <1>6, <1>9 DEF Prepares, Others
    <3> QED BY <1>1, <3>1, PreparesOne DEF HandlesOK
  <2>6. \A s \in Requests : Prepares(s)' => hs'[rq'[s].hdl].task = "prepared"
    BY <1>4, <2>5 DEF HandlesOK
  <2>7. \A s, u \in Requests : Prepares(s)' /\ Prepares(u)' /\ rq'[s].hdl = rq'[u].hdl => s = u
    BY <2>5 DEF HandlesOK
  <2> QED BY <2>1, <2>3, <2>4, <2>6, <2>7 DEF HandlesOK
<1> QED BY <1>10, <1>11, <1>12, <1>13

\* A request that only lets its handle go and ends, or goes on as a proxy.
LEMMA LetsGoInv ==
  ASSUME FetchInv, NEW r \in Requests, LetsGo(r), NEW q \in RequestType,
         rq' = [rq EXCEPT ![r] = q], Carries(q), q.pc \in {"idle", "proxy"},
         rq[r].pc \in {"open", "tail"}, missed' \in BOOLEAN,
         UNCHANGED <<redirects, stored, ongoing, negotiating, phase, reaped>>
  PROVE  FetchInv'
<1> USE DEF FetchInv
<1>1. rq' \in [Requests -> RequestType] /\ Others(r) /\ rq'[r] = q
  BY RequestBecomes
<1>2. hs' \in [Handles -> HandleType]
  BY LetsGoEnds
<1>3. TypeOK'
  BY <1>1, <1>2, TypeParts, TypePartsNext
<1>4. Shape'
  BY <1>1, ShapeStep
<1>5. PendingIsLed'
  BY <1>1, LedStep DEF Leads
<1>6. HandlesOK'
  BY <1>1, LettingGo
<1> QED BY <1>3, <1>4, <1>5, <1>6

LEMMA OpenInv ==
  ASSUME FetchInv, NEW r \in Requests, Open(r)
  PROVE  FetchInv'
<1> USE DEF FetchInv
<1>1. rq[r].pc = "open" /\ rq[r] \in RequestType /\ Carries(rq[r])
  BY TypeParts DEF Open, Shape
<1>2. ASSUME rq' = [rq EXCEPT ![r] = NoRequest], LetsGo(r), UNCHANGED missed \/ RecordMiss(r)
      PROVE  FetchInv'
  <2>1. missed' \in BOOLEAN
    BY <1>2, TypeParts DEF RecordMiss
  <2> QED BY <1>1, <1>2, <2>1, LetsGoInv, FreeTypes DEF Open
<1>3. ASSUME rq' = [rq EXCEPT ![r].pc = "proxy", ![r].hdl = None], LetsGo(r), UNCHANGED missed
      PROVE  FetchInv'
  <2> DEFINE q == [rq[r] EXCEPT !.pc = "proxy", !.hdl = None]
  <2>1. q \in RequestType /\ Carries(q) /\ q.pc = "proxy"
    BY <1>1 DEF RequestType, Labels, Carries
  <2>2. rq' = [rq EXCEPT ![r] = q]
    BY <1>3, TypeParts
  <2>3. missed' \in BOOLEAN
    BY <1>3, TypeParts
  <2> HIDE DEF q
  <2> QED BY <1>1, <1>3, <2>1, <2>2, <2>3, LetsGoInv DEF Open
<1>4. ASSUME rq' = [rq EXCEPT ![r] = [NoRequest EXCEPT !.pc = "tail", !.hdl = rq[r].hdl,
                                                       !.start = rq[r].start]],
             UNCHANGED <<hs, missed>>
      PROVE  FetchInv'
  <2> DEFINE q == [NoRequest EXCEPT !.pc = "tail", !.hdl = rq[r].hdl, !.start = rq[r].start]
  <2>1. q \in RequestType /\ Carries(q) /\ q.pc = "tail" /\ q.hdl = rq[r].hdl
    BY <1>1, FreeTypes DEF NoRequest, RequestType, Labels, Carries
  <2> HIDE DEF q
  <2>2. rq' \in [Requests -> RequestType] /\ Others(r) /\ rq'[r] = q
    BY <1>4, <2>1, RequestBecomes DEF q
  <2>3. TypeOK'
    BY <1>4, <2>2, TypeParts, TypePartsNext DEF Open
  <2>4. Shape'
    BY <2>1, <2>2, ShapeStep
  <2>5. PendingIsLed'
    BY <1>1, <2>2, LedStep DEF Open, Leads
  <2>6. HandlesOK'
    BY <1>1, <1>4, <2>1, <2>2, SameHandles DEF Open, Prepares, Referred
  <2> QED BY <2>3, <2>4, <2>5, <2>6
<1> QED BY <1>2, <1>3, <1>4 DEF Open

LEMMA TailReadInv ==
  ASSUME FetchInv, NEW r \in Requests, TailRead(r)
  PROVE  FetchInv'
<1> USE DEF FetchInv
<1> DEFINE q == [rq[r] EXCEPT !.start = @ + 1]
<1>1. rq[r].pc = "tail" /\ rq[r] \in RequestType /\ Carries(rq[r]) /\ rq[r].hdl \in Handles
  BY TypeParts DEF TailRead, Shape, Carries, RequestType
<1>2. rq[r].start + 1 \in 0..Len
  <2>1. hs[rq[r].hdl].written \in 0..Len /\ rq[r].start \in 0..Len /\ Len \in Nat
    BY <1>1, TypeParts, FetchAssumption DEF FetchAssumption, HandleType, RequestType
  <2>2. rq[r].start < hs[rq[r].hdl].written
    BY DEF TailRead
  <2> QED BY <2>1, <2>2
<1>3. q \in RequestType /\ Carries(q) /\ q.pc = "tail" /\ q.hdl = rq[r].hdl
  BY <1>1, <1>2 DEF RequestType, Carries
<1>4. rq' = [rq EXCEPT ![r] = q]
  BY TypeParts DEF TailRead
<1> HIDE DEF q
<1>5. rq' \in [Requests -> RequestType] /\ Others(r) /\ rq'[r] = q
  BY <1>3, <1>4, RequestBecomes
<1>6. TypeOK'
  BY <1>5, TypeParts, TypePartsNext DEF TailRead
<1>7. Shape'
  BY <1>3, <1>5, ShapeStep
<1>8. PendingIsLed'
  BY <1>1, <1>5, LedStep DEF TailRead, Leads
<1>9. HandlesOK'
  BY <1>1, <1>3, <1>5, SameHandles DEF TailRead, Prepares, Referred
<1> QED BY <1>6, <1>7, <1>8, <1>9

LEMMA TailEndInv ==
  ASSUME FetchInv, NEW r \in Requests, TailEnd(r)
  PROVE  FetchInv'
  BY LetsGoInv, FreeTypes, TypeParts DEF FetchInv, TailEnd

LEMMA CancelInv ==
  ASSUME FetchInv, NEW r \in Requests, Cancel(r)
  PROVE  FetchInv'
<1> USE DEF FetchInv
<1>1. rq' \in [Requests -> RequestType] /\ Others(r) /\ rq'[r].pc = "idle" /\ Shape'
  BY RequestEnds DEF Cancel
<1>2. phase' \in [Negotiations -> {"Pending", "Ready", "Failed"}] /\ PendingIsLed'
  BY <1>1, DropsNegotiationType, GivesUp DEF Cancel
<1>3. rq[r].lead => rq[r].neg \in Negotiations
  BY TypeParts DEF RequestType, Shape, Carries
<1>4. CASE Prepares(r)
  <2>1. rq[r].hdl \in Handles /\ DropsHandle(rq[r].hdl, TRUE) /\ Reaps(r, {rq[r].hdl})
    BY <1>4, PreparesOne DEF Cancel, Prepares
  <2>2. hs' \in [Handles -> HandleType]
    BY <2>1, DropsHandleEnds DEF HandlesOK
  <2>3. reaped' \subseteq Handles \cup Negotiations
    BY <2>1, ReapsType
  <2>4. TypeOK'
    BY <1>1, <1>2, <2>2, <2>3, TypeParts, TypePartsNext DEF Cancel
  <2>5. \A g \in Handles : g \in reaped' => g \in reaped \/ g = rq[r].hdl
    BY <1>3, <2>1, FetchAssumption DEF FetchAssumption, Reaps
  <2>6. HandlesOK'
    BY <1>1, <1>4, <2>1, <2>5, Dropping DEF Cancel
  <2> QED BY <1>1, <1>2, <2>4, <2>6
<1>5. CASE ~Prepares(r)
  <2>1. LetsGo(r) /\ Reaps(r, {})
    BY <1>5 DEF Cancel, Prepares
  <2>2. hs' \in [Handles -> HandleType]
    BY <2>1, LetsGoEnds
  <2>3. reaped' \subseteq Handles \cup Negotiations
    BY <2>1, ReapsType
  <2>4. TypeOK'
    BY <1>1, <1>2, <2>2, <2>3, TypeParts, TypePartsNext DEF Cancel
  <2>5. \A g \in Handles : g \in reaped' => g \in reaped
    BY <1>3, <2>1, FetchAssumption DEF FetchAssumption, Reaps
  <2>6. HandlesOK'
    BY <1>1, <2>1, <2>5, LettingGo DEF Cancel
  <2> QED BY <1>1, <1>2, <2>4, <2>6
<1> QED BY <1>4, <1>5

LEMMA RedirectInv ==
  ASSUME FetchInv, NEW r \in Requests, Redirect(r) \/ RedirectFails(r)
  PROVE  FetchInv'
<1> USE DEF FetchInv
<1>1. PICK q \in RequestType : /\ rq' = [rq EXCEPT ![r] = q] /\ Carries(q)
                               /\ q.pc \in {"idle", "background"}
  <2> DEFINE b == [NoRequest EXCEPT !.pc = "background"]
  <2>1. b \in RequestType /\ Carries(b) /\ b.pc = "background"
    BY FreeTypes DEF NoRequest, RequestType, Labels, Carries
  <2>2. rq' = [rq EXCEPT ![r] = NoRequest] \/ rq' = [rq EXCEPT ![r] = b]
    BY DEF Redirect, RedirectFails
  <2> HIDE DEF b
  <2> QED BY <2>1, <2>2, FreeTypes
<1>2. rq' \in [Requests -> RequestType] /\ Others(r) /\ rq'[r] = q
  BY <1>1, RequestBecomes
<1>3. UNCHANGED <<redirects, stored, ongoing, negotiating, phase, hs, reaped>> /\ missed' \in BOOLEAN
  BY TypeParts DEF Redirect, RedirectFails, RecordMiss
<1>4. TypeOK'
  BY <1>2, <1>3, TypeParts, TypePartsNext
<1>5. Shape'
  BY <1>1, <1>2, ShapeStep
<1>6. rq[r].pc = "redirect" /\ ~rq[r].lead
  BY DEF Redirect, RedirectFails, Shape, Carries
<1>7. PendingIsLed'
  BY <1>2, <1>3, <1>6, LedStep DEF Leads
<1>8. HandlesOK'
  BY <1>1, <1>2, <1>3, SameHandles DEF Prepares
<1> QED BY <1>4, <1>5, <1>7, <1>8

-----------------------------------------------------------------------------
(* The steps of a download and of the spawned removals.                     *)

\* The whole invariant across a step that leaves the requests alone.
LEMMA BackgroundKeeps ==
  ASSUME FetchInv, rq' = rq, phase' = phase, redirects' = redirects, missed' = missed,
         stored' \in BOOLEAN, negotiating' \in {negotiating, None}, reaped' \subseteq reaped,
         ongoing' \in {ongoing, None}, NEW h \in Handles, hs[h].task # "prepared",
         NEW x \in HandleType, hs' = [hs EXCEPT ![h] = x], Sound(x),
         h \in reaped' => x.task = "none",
         Alive(x) \/ (ongoing' # h /\ ~Tailed(h))
  PROVE  FetchInv'
<1> USE DEF FetchInv
<1>1. TypeOK'
  BY TypeParts, TypePartsNext
<1>2. Shape' /\ PendingIsLed'
  BY SameShape, SameLed
<1>3. HandlesOK'
  BY Downloading
<1> QED BY <1>1, <1>2, <1>3

\* A working task's handle becomes x: it is not reaped, and x says how it goes.
LEMMA WorkInv ==
  ASSUME FetchInv, NEW h \in Handles, hs[h].task \notin {"none", "prepared"},
         NEW x \in HandleType, hs' = [hs EXCEPT ![h] = x], Sound(x), Alive(x),
         stored' \in BOOLEAN,
         UNCHANGED <<redirects, missed, ongoing, negotiating, phase, rq, reaped>>
  PROVE  FetchInv'
<1>1. h \notin reaped
  BY DEF FetchInv, HandlesOK
<1> QED BY <1>1, BackgroundKeeps

LEMMA WriteInv ==
  ASSUME FetchInv, NEW h \in Handles, WriteBlock(h) PROVE FetchInv'
<1> DEFINE x == [hs[h] EXCEPT !.written = @ + 1]
<1>1. hs[h] \in HandleType /\ Sound(hs[h]) /\ hs[h].task = "running" /\ stored \in BOOLEAN
  BY TypeParts DEF FetchInv, HandlesOK, WriteBlock
<1>2. hs[h].written + 1 \in 0..Len
  <2>1. hs[h].written \in 0..Len /\ Len \in Nat \ {0}
    BY <1>1, FetchAssumption DEF FetchAssumption, HandleType
  <2>2. hs[h].written < Len \/ hs[h].written < Len - 1 \/ hs[h].written < 0
    BY DEF WriteBlock
  <2> QED BY <2>1, <2>2
<1>3. x \in HandleType /\ x.task = "running" /\ x.phase = hs[h].phase
  BY <1>1, <1>2 DEF HandleType
<1>4. hs' = [hs EXCEPT ![h] = x]
  BY TypeParts DEF FetchInv, WriteBlock
<1> HIDE DEF x
<1>5. Sound(x) /\ Alive(x)
  BY <1>1, <1>3 DEF Sound, Alive
<1> QED BY <1>1, <1>3, <1>4, <1>5, WorkInv DEF WriteBlock

LEMMA EndBodyInv ==
  ASSUME FetchInv, NEW h \in Handles, EndBody(h) PROVE FetchInv'
<1> DEFINE x == [hs[h] EXCEPT !.task = "publish"]
<1>1. hs[h] \in HandleType /\ Sound(hs[h]) /\ hs[h].task = "running" /\ hs[h].written = Len
      /\ stored \in BOOLEAN
  BY TypeParts DEF FetchInv, HandlesOK, EndBody
<1>2. x \in HandleType /\ Sound(x) /\ Alive(x)
  BY <1>1 DEF HandleType, Sound, Alive
<1>3. hs' = [hs EXCEPT ![h] = x]
  BY TypeParts DEF FetchInv, EndBody
<1> HIDE DEF x
<1> QED BY <1>1, <1>2, <1>3, WorkInv DEF EndBody

LEMMA FailBodyInv ==
  ASSUME FetchInv, NEW h \in Handles, FailBody(h) PROVE FetchInv'
<1> DEFINE x == [hs[h] EXCEPT !.task = "unlink", !.phase = "Failed"]
<1>1. hs[h] \in HandleType /\ hs[h].task = "running" /\ stored \in BOOLEAN
  BY TypeParts DEF FetchInv, FailBody
<1>2. x \in HandleType /\ Sound(x) /\ Alive(x)
  BY <1>1 DEF HandleType, Sound, Alive
<1>3. hs' = [hs EXCEPT ![h] = x]
  BY TypeParts DEF FetchInv, FailBody
<1> HIDE DEF x
<1> QED BY <1>1, <1>2, <1>3, WorkInv DEF FailBody

LEMMA PublishInv ==
  ASSUME FetchInv, NEW h \in Handles, Publish(h) PROVE FetchInv'
<1>1. hs[h] \in HandleType /\ Sound(hs[h]) /\ hs[h].task = "publish" /\ stored \in BOOLEAN
  BY TypeParts DEF FetchInv, HandlesOK, Publish
<1>2. ASSUME stored' = TRUE, hs' = [hs EXCEPT ![h].temp = FALSE, ![h].task = "settle"]
      PROVE  FetchInv'
  <2> DEFINE x == [hs[h] EXCEPT !.temp = FALSE, !.task = "settle"]
  <2>1. x \in HandleType /\ Sound(x) /\ Alive(x)
    BY <1>1 DEF HandleType, Sound, Alive
  <2>2. hs' = [hs EXCEPT ![h] = x]
    BY <1>2, TypeParts DEF FetchInv
  <2> HIDE DEF x
  <2> QED BY <1>1, <1>2, <2>1, <2>2, WorkInv DEF Publish
<1>3. ASSUME stored' = stored,
             hs' = [hs EXCEPT ![h].temp = FALSE, ![h].task = "unlink", ![h].phase = "Failed"]
      PROVE  FetchInv'
  <2> DEFINE x == [hs[h] EXCEPT !.temp = FALSE, !.task = "unlink", !.phase = "Failed"]
  <2>1. x \in HandleType /\ Sound(x) /\ Alive(x)
    BY <1>1 DEF HandleType, Sound, Alive
  <2>2. hs' = [hs EXCEPT ![h] = x]
    BY <1>3, TypeParts DEF FetchInv
  <2> HIDE DEF x
  <2> QED BY <1>1, <1>3, <2>1, <2>2, WorkInv DEF Publish
<1> QED BY <1>2, <1>3 DEF Publish

LEMMA SettleInv ==
  ASSUME FetchInv, NEW h \in Handles, Settle(h) PROVE FetchInv'
<1> DEFINE x == [hs[h] EXCEPT !.phase = "Complete", !.task = "remove"]
<1>1. hs[h] \in HandleType /\ Sound(hs[h]) /\ hs[h].task = "settle" /\ stored \in BOOLEAN
  BY TypeParts DEF FetchInv, HandlesOK, Settle
<1>2. x \in HandleType /\ Sound(x) /\ Alive(x)
  BY <1>1 DEF HandleType, Sound, Alive
<1>3. hs' = [hs EXCEPT ![h] = x]
  BY TypeParts DEF FetchInv, Settle
<1> HIDE DEF x
<1> QED BY <1>1, <1>2, <1>3, WorkInv DEF Settle

LEMMA UnlinkTempInv ==
  ASSUME FetchInv, NEW h \in Handles, UnlinkTemp(h) PROVE FetchInv'
<1> DEFINE x == [hs[h] EXCEPT !.temp = FALSE, !.task = "remove"]
<1>1. hs[h] \in HandleType /\ Sound(hs[h]) /\ hs[h].task = "unlink" /\ stored \in BOOLEAN
  BY TypeParts DEF FetchInv, HandlesOK, UnlinkTemp
<1>2. x \in HandleType /\ Sound(x) /\ Alive(x)
  BY <1>1 DEF HandleType, Sound, Alive
<1>3. hs' = [hs EXCEPT ![h] = x]
  BY TypeParts DEF FetchInv, UnlinkTemp
<1> HIDE DEF x
<1> QED BY <1>1, <1>2, <1>3, WorkInv DEF UnlinkTemp

LEMMA FinishDownloadInv ==
  ASSUME FetchInv, NEW h \in Handles, FinishDownload(h) PROVE FetchInv'
<1>1. /\ hs[h] \in HandleType /\ Sound(hs[h]) /\ hs[h].task = "remove"
      /\ stored \in BOOLEAN
  BY TypeParts DEF FetchInv, HandlesOK, FinishDownload
<1>2. ongoing' \in {ongoing, None} /\ ongoing' # h
  BY FetchAssumption DEF FetchAssumption, FinishDownload, RemoveHandle
<1>3. CASE Tailed(h)
  <2> DEFINE x == [hs[h] EXCEPT !.task = "none"]
  <2>1. x \in HandleType /\ Sound(x) /\ Alive(x) /\ x.task = "none"
    BY <1>1 DEF HandleType, Sound, Alive
  <2>2. hs' = [hs EXCEPT ![h] = x]
    BY <1>3, TypeParts DEF FetchInv, FinishDownload
  <2> HIDE DEF x
  <2> QED BY <1>1, <1>2, <2>1, <2>2, BackgroundKeeps DEF FinishDownload
<1>4. CASE ~Tailed(h)
  <2>1. hs' = [hs EXCEPT ![h] = NoHandle]
    BY <1>4 DEF FinishDownload
  <2> QED BY <1>1, <1>2, <1>4, <2>1, FreeTypes, BackgroundKeeps DEF FinishDownload
<1> QED BY <1>3, <1>4

LEMMA ReapHandleInv ==
  ASSUME FetchInv, NEW h \in Handles, ReapHandle(h) PROVE FetchInv'
<1>1. hs[h] \in HandleType /\ Sound(hs[h]) /\ hs[h].task = "none" /\ stored \in BOOLEAN
  BY TypeParts DEF FetchInv, HandlesOK, ReapHandle
<1>2. ongoing' \in {ongoing, None} /\ ongoing' # h
  BY FetchAssumption DEF FetchAssumption, ReapHandle, RemoveHandle
<1>3. CASE Tailed(h)
  <2>1. hs' = [hs EXCEPT ![h] = hs[h]]
    BY <1>3, TypeParts DEF FetchInv, ReapHandle
  <2>2. Alive(hs[h])
    <3>1. PICK r \in Requests : rq[r].hdl = h
      BY <1>3 DEF Tailed
    <3>2. rq[r].pc \in {"open", "tail"}
      BY <1>1, <3>1, FetchAssumption DEF FetchAssumption, FetchInv, Shape, Carries, HandlesOK, Prepares
    <3> QED BY <3>1, <3>2 DEF FetchInv, HandlesOK, Referred
  <2> QED BY <1>1, <1>2, <2>1, <2>2, BackgroundKeeps DEF ReapHandle
<1>4. CASE ~Tailed(h)
  <2>1. hs' = [hs EXCEPT ![h] = NoHandle]
    BY <1>4 DEF ReapHandle
  <2> QED BY <1>1, <1>2, <1>4, <2>1, FreeTypes, BackgroundKeeps DEF ReapHandle
<1> QED BY <1>3, <1>4

\* What is left: the removal of a negotiation, and the steps that touch no handle.
LEMMA SameHandlesInv ==
  ASSUME FetchInv, UNCHANGED <<redirects, ongoing, phase, hs, rq>>, reaped' \subseteq reaped,
         stored' \in BOOLEAN, missed' \in BOOLEAN, negotiating' \in {negotiating, None}
  PROVE  FetchInv'
<1>1. TypeOK'
  BY TypeParts, TypePartsNext DEF FetchInv
<1>2. Shape' /\ PendingIsLed'
  BY SameShape, SameLed DEF FetchInv
<1>3. HandlesOK'
  BY DEF FetchInv, HandlesOK, Sound, Referred, Alive, Prepares
<1> QED BY <1>1, <1>2, <1>3 DEF FetchInv

LEMMA OtherInv ==
  ASSUME FetchInv, StoreChanges \/ MissExpires \/ \E n \in Negotiations : ReapNegotiation(n)
  PROVE  FetchInv'
  BY SameHandlesInv, TypeParts DEF FetchInv, StoreChanges, MissExpires, ReapNegotiation

-----------------------------------------------------------------------------
LEMMA NextFetchInv == ASSUME FetchInv, [Next]_vars PROVE FetchInv'
<1>1. ASSUME NEW r \in Requests, NewRequest(r) PROVE FetchInv'
  <2>1. 0 \in 0..Len /\ 0..Len - 1 \subseteq 0..Len
    BY FetchAssumption DEF FetchAssumption
  <2> QED BY <1>1, <2>1, ArriveInv DEF NewRequest
<1>2. ASSUME NEW r \in Requests, Step(r) PROVE FetchInv'
  BY <1>2, LookInv, ClaimInv, WaitInv, WalkFailsInv, PassInv, RefuseInv, PrepareInv, TooLargeInv,
     OpenOwnInv, OpenOwnFailsInv, SpawnInv, OpenInv, TailReadInv, TailEndInv, RedirectInv,
     BackgroundGetInv
  DEF Step
<1>3. ASSUME NEW r \in Requests, Cancel(r) PROVE FetchInv'
  BY <1>3, CancelInv
<1>4. ASSUME NEW h \in Handles, Download(h) PROVE FetchInv'
  BY <1>4, WriteInv, EndBodyInv, FailBodyInv, PublishInv, SettleInv, UnlinkTempInv,
     FinishDownloadInv, ReapHandleInv
  DEF Download
<1>5. ASSUME vars' = vars PROVE FetchInv'
  BY <1>5, SameHandlesInv, TypeParts DEF FetchInv, vars
<1> QED BY <1>1, <1>2, <1>3, <1>4, <1>5, OtherInv DEF Next, Background

THEOREM FetchInvHolds == Spec => []FetchInv
  BY InitFetchInv, NextFetchInv, PTL DEF Spec

-----------------------------------------------------------------------------
(* What follows.                                                            *)

\* Whoever waits for a negotiation has a leader at work on it, and whoever
\* follows a download follows one that is at work or has ended and said so,
\* whatever fails or is cancelled (NegotiationGuard, DownloadGuard).
THEOREM NobodyWaitsInVain == Spec => []NobodyIsStranded
<1>1. FetchInv => NobodyIsStranded
  <2> SUFFICES ASSUME FetchInv PROVE NobodyIsStranded
    OBVIOUS
  <2>1. PendingHasLeader
    <3> SUFFICES ASSUME NEW r \in Requests, rq[r].pc = "wait", phase[rq[r].neg] = "Pending"
                 PROVE  \E s \in Requests : rq[s].lead /\ rq[s].neg = rq[r].neg
      BY DEF PendingHasLeader
    <3>1. rq[r].neg \in Negotiations
      BY TypeParts DEF FetchInv, RequestType, Shape, Carries
    <3> QED BY <3>1 DEF FetchInv, PendingIsLed, Leads
  <2>2. FollowedIsAlive
    <3> SUFFICES ASSUME NEW r \in Requests, rq[r].pc \in {"open", "tail"}
                 PROVE  Alive(hs[rq[r].hdl])
      BY DEF FollowedIsAlive, Alive
    <3>1. rq[r].hdl \in Handles
      BY TypeParts DEF FetchInv, RequestType, Shape, Carries
    <3> QED BY <3>1 DEF FetchInv, HandlesOK, Referred
  <2> QED BY <2>1, <2>2 DEF FetchInv, NobodyIsStranded
<1> QED BY <1>1, FetchInvHolds, PTL

\* A stream that ends without an error has delivered the whole of what was
\* promised, whatever happened to the download it followed
\* (create_tailing_stream, run_download).
THEOREM CleanStreamsAreWhole == Spec => []CleanEndIsWhole
<1>1. FetchInv => CleanEndIsWhole
  <2> SUFFICES ASSUME FetchInv, NEW r \in Requests, EndsCleanly(r) PROVE rq[r].start = Len
    BY DEF CleanEndIsWhole
  <2> DEFINE h == rq[r].hdl
  <2>1. h \in Handles /\ rq[r].start \in 0..Len
    BY TypeParts DEF FetchInv, EndsCleanly, RequestType, Shape, Carries
  <2>2. hs[h].total \in {Len, None} /\ Len \in Nat /\ None \notin Nat /\ Sound(hs[h])
    BY <2>1, TypeParts, FetchAssumption DEF FetchAssumption, FetchInv, HandleType, HandlesOK
  <2>3. CASE rq[r].start = hs[h].total
    BY <2>1, <2>2, <2>3
  <2>4. CASE hs[h].total = None /\ hs[h].phase = "Complete"
    <3>1. hs[h].written = Len /\ rq[r].start >= hs[h].written
      BY <2>2, <2>4 DEF Sound, EndsCleanly
    <3> QED BY <2>1, <2>2, <3>1
  <2> QED BY <2>3, <2>4 DEF EndsCleanly
<1> QED BY <1>1, FetchInvHolds, PTL

\* A download that has come to its end leaves no temporary file, however it
\* ended (run_download).
THEOREM DownloadsLeaveNothing == Spec => []FinishedLeavesNoTemp
<1>1. FetchInv => FinishedLeavesNoTemp
  BY DEF FetchInv, HandlesOK, Sound, FinishedLeavesNoTemp
<1> QED BY <1>1, FetchInvHolds, PTL

\* No download that is at work loses its place in the map of downloads, but to a
\* newer one: removals name the handle they are for (remove_handle).
THEOREM RunningDownloadsStay == Spec => RunningStaysAttachable
<1> DEFINE Lost(h) == ongoing = h /\ ongoing' = None
           Stays == \A h \in Handles : Lost(h) => hs'[h].task = "none"
<1>1. FetchInv /\ Next => Stays
  <2> SUFFICES ASSUME FetchInv, Next, NEW h \in Handles, Lost(h)
               PROVE  hs'[h].task = "none"
    OBVIOUS
  <2>1. ongoing' # ongoing /\ ongoing' \notin Handles
    BY FetchAssumption DEF FetchAssumption
  <2>2. \E g \in Handles : FinishDownload(g) \/ ReapHandle(g)
    <3>1. ASSUME NEW r \in Requests PROVE ~NewRequest(r) /\ ~Step(r) /\ ~Cancel(r)
      <4>1. ~NewRequest(r) /\ ~Cancel(r)
        BY <2>1 DEF NewRequest, Arrive, Cancel
      <4>2. ~Prepare(r) /\ ~BackgroundGet(r)
        BY <2>1, OneOfType DEF Prepare, BackgroundGet, FreshHandles
      <4> QED
        BY <2>1, <4>1, <4>2
        DEF Step, Look, Claim, Wait, WalkFails, Pass, Refuse, TooLarge, OpenOwn, OpenOwnFails,
            Spawn, Open, TailRead, TailEnd, Redirect, RedirectFails
    <3>2. ~StoreChanges /\ ~MissExpires /\ ~\E n \in Negotiations : ReapNegotiation(n)
      BY <2>1 DEF StoreChanges, MissExpires, ReapNegotiation
    <3>3. PICK g \in Handles : Download(g)
      BY <3>1, <3>2 DEF Next, Background
    <3> QED
      BY <2>1, <3>3
      DEF Download, WriteBlock, EndBody, FailBody, Publish, Settle, UnlinkTemp
  <2>3. PICK g \in Handles : FinishDownload(g) \/ ReapHandle(g)
    BY <2>2
  <2>4. g = h
    BY <2>1, <2>3 DEF FinishDownload, ReapHandle, RemoveHandle
  <2>5. hs \in [Handles -> HandleType] /\ (h \in reaped => hs[h].task = "none")
    BY TypeParts DEF FetchInv, HandlesOK
  <2>6. CASE FinishDownload(h)
    BY <2>5, <2>6, FreeTypes DEF FinishDownload, HandleType
  <2>7. CASE ReapHandle(h)
    BY <2>5, <2>7, FreeTypes DEF ReapHandle
  <2> QED BY <2>3, <2>4, <2>6, <2>7
<1>2. FetchInv /\ [Next]_vars => [Stays]_vars
  BY <1>1
<1> QED BY <1>2, FetchInvHolds, PTL DEF Spec, RunningStaysAttachable
=============================================================================
