------------------------- MODULE WebhookQueueProofs -------------------------
(***************************************************************************)
(* For all sets of deliveries and requests and all bounds: a claim that    *)
(* was not evicted keeps a delivery from being acted on twice and a replay *)
(* from being served again, the queue exceeds its bound by less than the   *)
(* number of requests at a time, the newest claims survive eviction, and   *)
(* every queued delivery is accounted for.  They follow from WebhookInv:   *)
(* requests pass each check one by one and use it later, so each part of   *)
(* it counts the requests between a check and its use.                     *)
(***************************************************************************)
EXTENDS WebhookQueue, FiniteSetTheorems, TLAPS

-----------------------------------------------------------------------------
(* Sequences and requests *)

\* What is appended is in the sequence, with all that was in it.
LEMMA InAppend ==
    ASSUME NEW S, NEW s \in Seq(S), NEW e \in S, NEW d
    PROVE  InSeq(Append(s, e), d) <=> (InSeq(s, d) \/ d = e)
<1>1. DOMAIN s = 1 .. Len(s) /\ Len(s) \in Nat /\ DOMAIN Append(s, e) = 1 .. Len(s) + 1
      /\ Append(s, e)[Len(s) + 1] = e /\ \A i \in 1 .. Len(s) : Append(s, e)[i] = s[i]
  OBVIOUS
<1>2. ASSUME InSeq(s, d) \/ d = e PROVE InSeq(Append(s, e), d)
  BY <1>1, <1>2 DEF InSeq
<1>3. ASSUME InSeq(Append(s, e), d) PROVE InSeq(s, d) \/ d = e
  <2>1. PICK i \in 1 .. Len(s) + 1 : Append(s, e)[i] = d
    BY <1>1, <1>3 DEF InSeq
  <2>2. CASE i = Len(s) + 1
    BY <1>1, <2>1, <2>2
  <2>3. CASE i \in 1 .. Len(s)
    BY <1>1, <2>1, <2>3 DEF InSeq
  <2> QED
    BY <1>1, <2>1, <2>2, <2>3
<1> QED
  BY <1>2, <1>3

\* The claims of the database are deliveries, before and after a claim is taken.
LEMMA Taken ==
    ASSUME TypeOK, NEW d \in Deliveries, TakeClaim(d)
    PROVE  /\ seen' \in Seq(Deliveries \cup Past) /\ claims' \in Seq(Deliveries \cup Past)
           /\ InSeq(seen', d) /\ \A e : InSeq(seen', e) <=> (InSeq(seen, e) \/ e = d)
<1>0. seen \in Seq(Deliveries \cup Past) /\ claims \in Seq(Deliveries \cup Past)
      /\ d \in Deliveries \cup Past
  BY DEF TypeOK
<1>1. CASE InSeq(seen, d)
  BY <1>0, <1>1 DEF TakeClaim
<1>2. CASE ~InSeq(seen, d)
  <2>1. seen' = Append(seen, d) /\ claims' = Append(claims, d)
    BY <1>2 DEF TakeClaim
  <2>2. seen' \in Seq(Deliveries \cup Past) /\ claims' \in Seq(Deliveries \cup Past)
    BY <1>0, <2>1
  <2> QED
    BY <1>0, <2>1, <2>2, InAppend
<1> QED
  BY <1>1, <1>2

\* The next statement of a request; the other requests stand where they stood.
LEMMA Goes ==
    ASSUME TypeOK, NEW t \in Tasks, NEW pc, Goto(t, pc)
    PROVE  /\ task'[t].pc = pc /\ task'[t].d = task[t].d /\ task'[t].replay = task[t].replay
           /\ \A u \in Tasks : u # t => task'[u] = task[u]
           /\ pc \in {"evict", "delete", "look", "insert", "claim", "take", "act"} =>
                 task' \in [Tasks -> TaskType]
<1>1. task \in [Tasks -> TaskType] /\ task[t] \in TaskType
  BY DEF TypeOK
<1>2. task'[t] = [task[t] EXCEPT !.pc = pc]
  BY <1>1 DEF Goto
<1>3. task'[t] = [pc |-> pc, d |-> task[t].d, replay |-> task[t].replay]
  BY <1>1, <1>2 DEF TaskType
<1>4. pc \in {"evict", "delete", "look", "insert", "claim", "take", "act"} => task'[t] \in TaskType
  BY <1>1, <1>3 DEF TaskType
<1>5. task'[t].pc = pc /\ task'[t].d = task[t].d /\ task'[t].replay = task[t].replay
  BY <1>3
<1> QED
  BY <1>1, <1>4, <1>5 DEF Goto

\* A request has been answered.
LEMMA Finishes ==
    ASSUME TypeOK, NEW t \in Tasks, Finish(t)
    PROVE  /\ task'[t] = Idle
           /\ \A u \in Tasks : u # t => task'[u] = task[u]
           /\ task' \in [Tasks -> TaskType]
<1>1. Idle \in TaskType
  BY DEF Idle, TaskType
<1> QED
  BY <1>1 DEF TypeOK, Finish

\* A request begins with a delivery.
LEMMA Begins ==
    ASSUME TypeOK, NEW t \in Tasks, NEW d \in Deliveries, NEW pc \in {"count", "evict"},
           Begin(t, d, pc)
    PROVE  /\ task'[t].pc = pc /\ task'[t].d = d /\ task'[t].replay = (d \in answered)
           /\ \A u \in Tasks : u # t => task'[u] = task[u]
           /\ task' \in [Tasks -> TaskType]
<1> DEFINE r == [pc |-> pc, d |-> d, replay |-> d \in answered]
<1>1. r \in TaskType
  BY DEF TaskType
<1>2. task' = [task EXCEPT ![t] = r]
  BY DEF Begin
<1> HIDE DEF r
<1>3. task'[t] = r /\ (\A u \in Tasks : u # t => task'[u] = task[u]) /\ task' \in [Tasks -> TaskType]
  BY <1>1, <1>2 DEF TypeOK
<1>4. r.pc = pc /\ r.d = d /\ r.replay = (d \in answered)
  BY DEF r
<1> QED
  BY <1>3, <1>4

\* The oldest rows go, and what is gone is remembered as evicted.
LEMMA Evicts ==
    ASSUME TypeOK, NEW t \in Tasks, EvictDelete(t)
    PROVE  /\ seen' \in Seq(Deliveries \cup Past)
           /\ Len(seen') = IF Len(seen) > SeenEvict THEN Len(seen) - SeenEvict ELSE 0
           /\ \A i \in 1 .. Len(seen') : seen'[i] = seen[SeenEvict + i]
           /\ evicted \subseteq evicted' /\ evicted' \subseteq Deliveries
           /\ \A d \in Deliveries : Claimed(d) => Claimed(d)'
<1>1. SeenEvict \in Nat \ {0} /\ Len(seen) \in Nat /\ seen' = SubSeq(seen, SeenEvict + 1, Len(seen))
      /\ seen \in Seq(Deliveries \cup Past)
  BY WebhookAssumption DEF EvictDelete, TypeOK
<1>2. /\ seen' \in Seq(Deliveries \cup Past)
      /\ Len(seen') = IF Len(seen) > SeenEvict THEN Len(seen) - SeenEvict ELSE 0
      /\ \A i \in 1 .. Len(seen') : seen'[i] = seen[SeenEvict + i]
  <2> HIDE DEF Deliveries
  <2> QED
    BY <1>1
<1>3. evicted' = evicted \cup {d \in Deliveries : InSeq(seen, d) /\ ~InSeq(seen', d)}
  BY DEF EvictDelete
<1>4. \A d \in Deliveries : Claimed(d) => Claimed(d)'
  BY <1>3 DEF Claimed
<1> QED
  BY <1>2, <1>3, <1>4 DEF TypeOK

-----------------------------------------------------------------------------
(* Every step keeps the types *)

\* Every action keeps the types.
LEMMA TypeStep ==
    ASSUME TypeOK, LanesOK, Next
    PROVE  TypeOK'
<1>0. ASSUME NEW t \in Tasks PROVE task[t].d \in Deliveries \cup {NoDelivery}
  BY DEF TypeOK, TaskType
<1>1. ASSUME NEW t \in Tasks, NEW d \in Deliveries, enqueue(t, d) \/ seen_claim(t, d)
      PROVE  TypeOK'
  <2>1. PICK pc \in {"count", "evict"} : Begin(t, d, pc)
    BY <1>1 DEF enqueue, seen_claim
  <2>2. task' \in [Tasks -> TaskType]
    BY <2>1, Begins
  <2>3. requests' \in 0 .. MaxRequests
    BY <2>1, WebhookAssumption DEF Begin, TypeOK
  <2> QED
    BY <2>1, <2>2, <2>3 DEF Begin, TypeOK
<1>2. ASSUME NEW t \in Tasks, CountQueue(t) PROVE TypeOK'
  <2>1. task' \in [Tasks -> TaskType]
    BY <1>2, Goes, Finishes DEF CountQueue
  <2> QED
    BY <1>2, <2>1 DEF CountQueue, TypeOK
<1>3. ASSUME NEW t \in Tasks, EvictCount(t) \/ EvictFailed(t) PROVE TypeOK'
  <2>1. PICK pc \in {"delete", "look", "take"} : Goto(t, pc)
    BY <1>3 DEF EvictCount, EvictFailed, AfterEvict
  <2>2. task' \in [Tasks -> TaskType]
    BY <2>1, Goes
  <2> QED
    BY <1>3, <2>2 DEF EvictCount, EvictFailed, TypeOK
<1>4. ASSUME NEW t \in Tasks, EvictDelete(t) PROVE TypeOK'
  <2>1. PICK pc \in {"look", "take"} : Goto(t, pc)
    BY <1>4 DEF EvictDelete, AfterEvict
  <2>2. task' \in [Tasks -> TaskType]
    BY <2>1, Goes
  <2>3. seen' \in Seq(Deliveries \cup Past) /\ evicted' \subseteq Deliveries
    BY <1>4, Evicts
  <2> QED
    BY <1>4, <2>2, <2>3 DEF EvictDelete, TypeOK
<1>5. ASSUME NEW t \in Tasks, LookSeen(t) \/ LookFailed(t) PROVE TypeOK'
  <2>1. task' \in [Tasks -> TaskType]
    BY <1>5, Goes, Finishes DEF LookSeen, LookFailed
  <2> QED
    BY <1>5, <2>1 DEF LookSeen, LookFailed, TypeOK
<1>6. ASSUME NEW t \in Tasks, InsertQueue(t) PROVE TypeOK'
  <2>1. task' \in [Tasks -> TaskType]
    BY <1>6, Goes, Finishes DEF InsertQueue
  <2>2. task[t].d \in Queued
    BY <1>6 DEF InsertQueue, LanesOK, At
  <2>3. queue' \in Seq(Queued)
    <3>1. queue' \in {queue, Append(queue, task[t].d)} /\ queue \in Seq(Queued)
      BY <1>6 DEF InsertQueue, TypeOK
    <3> QED
      BY <2>2, <3>1
  <2>4. enqueued' \in [Deliveries -> Nat]
    <3>1. enqueued' \in {enqueued, [enqueued EXCEPT ![task[t].d] = @ + 1]}
      BY <1>6 DEF InsertQueue
    <3>2. task[t].d \in Deliveries /\ enqueued \in [Deliveries -> Nat]
      BY <2>2 DEF TypeOK, Deliveries
    <3> QED
      BY <3>1, <3>2
  <2> QED
    BY <1>6, <2>1, <2>3, <2>4 DEF InsertQueue, TypeOK
<1>7. ASSUME NEW t \in Tasks, ClaimQueued(t) PROVE TypeOK'
  <2>1. task' \in [Tasks -> TaskType]
    BY <1>7, Finishes DEF ClaimQueued
  <2>2. task[t].d \in Deliveries
    BY <1>7 DEF ClaimQueued, LanesOK, At, Deliveries
  <2>3. seen' \in Seq(Deliveries \cup Past) /\ claims' \in Seq(Deliveries \cup Past)
    BY <1>7, <2>2, Taken DEF ClaimQueued
  <2> QED
    BY <1>7, <2>1, <2>2, <2>3 DEF ClaimQueued, TypeOK
<1>8. ASSUME NEW t \in Tasks, ClaimFailed(t) \/ ActRefused(t) PROVE TypeOK'
  <2>1. task' \in [Tasks -> TaskType]
    BY <1>8, Finishes DEF ClaimFailed, ActRefused
  <2> QED
    BY <1>8, <2>1 DEF ClaimFailed, ActRefused, TypeOK
<1>9. ASSUME NEW t \in Tasks, ClaimDirect(t) PROVE TypeOK'
  <2>1. task' \in [Tasks -> TaskType]
    BY <1>9, Finishes, Goes DEF ClaimDirect
  <2>2. task[t].d \in Direct /\ task[t].d \in Deliveries
    BY <1>9 DEF ClaimDirect, LanesOK, At, Deliveries
  <2>3. seen' \in Seq(Deliveries \cup Past) /\ claims' \in Seq(Deliveries \cup Past)
    BY <1>9, <2>2, Taken DEF ClaimDirect
  <2>4. duplicate' \subseteq Direct
    BY <1>9, <2>2 DEF ClaimDirect, TypeOK
  <2> QED
    BY <1>9, <2>1, <2>3, <2>4 DEF ClaimDirect, TypeOK
<1>10. ASSUME NEW t \in Tasks, Act(t) PROVE TypeOK'
  <2>1. task' \in [Tasks -> TaskType]
    BY <1>10, Finishes DEF Act
  <2>2. task[t].d \in Deliveries
    BY <1>10 DEF Act, LanesOK, At, Deliveries
  <2>3. acted' \in [Deliveries -> Nat]
    BY <1>10, <2>2 DEF Act, TypeOK
  <2> QED
    BY <1>10, <2>1, <2>2, <2>3 DEF Act, TypeOK
<1>11. CASE DrainWake
  BY <1>11 DEF DrainWake, TypeOK
<1>12. CASE drain_one
  <2>1. queue \in Seq(Queued)
    BY DEF TypeOK
  <2>2. queue # <<>> => Head(queue) \in Queued /\ Tail(queue) \in Seq(Queued)
    BY <2>1
  <2>3. queue' \in Seq(Queued)
    BY <1>12, <2>1, <2>2 DEF drain_one
  <2>4. drain' \in [pc : {"asleep", "pop", "record"}, d : Queued \cup {NoDelivery}]
    BY <1>12, <2>2 DEF drain_one, Asleep
  <2> QED
    BY <1>12, <2>3, <2>4 DEF drain_one, TypeOK
<1>13. CASE DrainRecord
  BY <1>13 DEF DrainRecord, TypeOK, Asleep
<1>14. CASE Kill
  <2>1. Idle \in TaskType /\ kills' \in 0 .. MaxKills
    BY <1>14, WebhookAssumption DEF Idle, TaskType, Kill, TypeOK
  <2>2. task' \in [Tasks -> TaskType]
    BY <1>14, <2>1 DEF Kill
  <2> QED
    BY <1>14, <2>1, <2>2 DEF Kill, TypeOK, Asleep
<1> QED
  BY <1>1, <1>2, <1>3, <1>4, <1>5, <1>6, <1>7, <1>8, <1>9, <1>10, <1>11, <1>12, <1>13, <1>14
  DEF Next, Serve, Drain

-----------------------------------------------------------------------------
(* Lanes, claims and replays *)

\* A request that is served goes on with its delivery, or is answered.
LEMMA Serves ==
    ASSUME TypeOK, NEW t \in Tasks, Serve(t)
    PROVE  /\ \A u \in Tasks : u # t => task'[u] = task[u]
           /\ \/ task'[t] = Idle
              \/ task'[t].d = task[t].d /\ task'[t].replay = task[t].replay
           /\ answered \subseteq answered' /\ UNCHANGED <<drain, requests, kills>>
<1>1. Finish(t) \/ \E pc : Goto(t, pc)
  BY DEF Serve, CountQueue, EvictCount, EvictDelete, EvictFailed, LookSeen, LookFailed,
     InsertQueue, ClaimQueued, ClaimFailed, ClaimDirect, Act, ActRefused
<1>2. answered \subseteq answered' /\ UNCHANGED <<drain, requests, kills>>
  BY DEF Serve, CountQueue, EvictCount, EvictDelete, EvictFailed, LookSeen, LookFailed,
     InsertQueue, ClaimQueued, ClaimFailed, ClaimDirect, Act, ActRefused
<1>3. CASE Finish(t)
  BY <1>2, <1>3, Finishes
<1>4. ASSUME NEW pc, Goto(t, pc)
      PROVE  /\ \A u \in Tasks : u # t => task'[u] = task[u]
             /\ task'[t].d = task[t].d /\ task'[t].replay = task[t].replay
  BY <1>4, Goes
<1> QED
  BY <1>1, <1>2, <1>3, <1>4

\* Where a served request goes.
LEMMA ServesTo ==
    ASSUME TypeOK, NEW t \in Tasks, Serve(t)
    PROVE  \/ task'[t] = Idle
           \/ At(t, "count") /\ task'[t].pc = "evict" /\ CountQueue(t)
           \/ At(t, "evict") /\ task'[t].pc = "delete" /\ EvictCount(t)
           \/ task[t].pc \in {"evict", "delete"} /\ task'[t].pc = AfterEvict(t)
              /\ (EvictCount(t) \/ EvictDelete(t) \/ EvictFailed(t))
           \/ At(t, "look") /\ task'[t].pc = "insert" /\ LookSeen(t) /\ ~InSeq(seen, task[t].d)
           \/ At(t, "look") /\ task'[t].pc = "insert" /\ LookFailed(t)
           \/ At(t, "insert") /\ task'[t].pc = "claim" /\ InsertQueue(t)
           \/ At(t, "take") /\ task'[t].pc = "act" /\ ClaimDirect(t) /\ ~InSeq(seen, task[t].d)
<1>1. ASSUME NEW pc, Goto(t, pc) PROVE task'[t].pc = pc
  BY <1>1, Goes
<1>2. Finish(t) => task'[t] = Idle
  BY Finishes
<1>3. CASE CountQueue(t)
  BY <1>1, <1>2, <1>3 DEF CountQueue
<1>4. CASE EvictCount(t) \/ EvictFailed(t)
  BY <1>1, <1>4 DEF EvictCount, EvictFailed, At
<1>5. CASE EvictDelete(t)
  BY <1>1, <1>5 DEF EvictDelete, At
<1>6. CASE LookSeen(t) \/ LookFailed(t)
  BY <1>1, <1>2, <1>6 DEF LookSeen, LookFailed
<1>7. CASE InsertQueue(t)
  BY <1>1, <1>2, <1>7 DEF InsertQueue
<1>8. CASE ClaimDirect(t)
  BY <1>1, <1>2, <1>8 DEF ClaimDirect
<1>9. CASE ClaimQueued(t) \/ ClaimFailed(t) \/ Act(t) \/ ActRefused(t)
  BY <1>2, <1>9 DEF ClaimQueued, ClaimFailed, Act, ActRefused
<1> QED
  BY <1>3, <1>4, <1>5, <1>6, <1>7, <1>8, <1>9 DEF Serve

\* Each lane has its own statements, and a replay is one of something answered.
LEMMA LanesStep ==
    ASSUME TypeOK, LanesOK, Next
    PROVE  LanesOK'
<1>0. Queued \subseteq Deliveries /\ Direct \subseteq Deliveries
      /\ \A d \in Deliveries : d \in Queued \/ d \in Direct
  BY DEF Deliveries
<1>1. ASSUME NEW t \in Tasks, Serve(t) PROVE LanesOK'
  <2>1. /\ \A u \in Tasks : u # t => task'[u] = task[u]
        /\ task'[t] = Idle \/ (task'[t].d = task[t].d /\ task'[t].replay = task[t].replay)
        /\ answered \subseteq answered' /\ drain' = drain
    BY <1>1, Serves
  <2>2. CASE task'[t] = Idle
    BY <2>1, <2>2 DEF LanesOK, Idle, At
  <2>3. CASE task'[t] # Idle
    <3>1. task'[t].d = task[t].d /\ task'[t].replay = task[t].replay
      BY <2>1, <2>3
    <3>2. \/ At(t, "count") /\ task'[t].pc = "evict"
          \/ At(t, "evict") /\ task'[t].pc = "delete"
          \/ task[t].pc \in {"evict", "delete"} /\ task'[t].pc = AfterEvict(t)
          \/ At(t, "look") /\ task'[t].pc = "insert"
          \/ At(t, "insert") /\ task'[t].pc = "claim"
          \/ At(t, "take") /\ task'[t].pc = "act"
      BY <1>1, <2>3, ServesTo
    <3>3. /\ task'[t].pc \in {"count", "look", "insert", "claim"} => task'[t].d \in Queued
          /\ task'[t].pc \in {"take", "act"} => task'[t].d \in Direct
          /\ task'[t].d \in Deliveries
          /\ task'[t].replay => task'[t].d \in answered'
      BY <1>0, <2>1, <3>1, <3>2 DEF LanesOK, At, AfterEvict
    <3> QED
      BY <2>1, <3>3 DEF LanesOK, At
  <2> QED
    BY <2>2, <2>3
<1>2. ASSUME NEW t \in Tasks, NEW d \in Deliveries, enqueue(t, d) \/ seen_claim(t, d)
      PROVE  LanesOK'
  <2>1. PICK pc \in {"count", "evict"} : Begin(t, d, pc) /\ (pc = "count" => d \in Queued)
    BY <1>2 DEF enqueue, seen_claim
  <2>2. /\ task'[t].pc = pc /\ task'[t].d = d /\ task'[t].replay = (d \in answered)
        /\ \A u \in Tasks : u # t => task'[u] = task[u]
    BY <2>1, Begins
  <2>3. UNCHANGED <<drain, answered>>
    BY <2>1 DEF Begin
  <2> QED
    BY <2>1, <2>2, <2>3 DEF LanesOK, At
<1>3. CASE DrainWake \/ DrainRecord
  <2>1. drain'.pc = "pop"
    BY <1>3 DEF DrainWake, DrainRecord, Asleep, TypeOK
  <2> QED
    BY <1>3, <2>1 DEF DrainWake, DrainRecord, LanesOK, At
<1>4. CASE drain_one
  <2>1. queue \in Seq(Queued)
    BY DEF TypeOK
  <2>2. queue # <<>> => Head(queue) \in Queued
    BY <2>1
  <2>3. drain'.pc = "record" => drain'.d \in Queued
    BY <1>4, <2>2 DEF drain_one, Asleep
  <2> QED
    BY <1>4, <2>3 DEF drain_one, LanesOK, At
<1>5. CASE Kill
  BY <1>5 DEF Kill, LanesOK, At, Idle, Asleep
<1> QED
  BY <1>1, <1>2, <1>3, <1>4, <1>5 DEF Next, Drain

\* Steps that neither take nor evict a claim, act, nor begin to act.
LEMMA ClaimsKept ==
    ASSUME TypeOK, ClaimsOK, UNCHANGED <<seen, evicted, acted, answered>>,
           \A t \in Tasks : task'[t].pc = "act" => task'[t] = task[t]
    PROVE  ClaimsOK'
  BY DEF ClaimsOK, Claimed, At, Acting

\* A claim stands between a delivery and a second act on it.
LEMMA ClaimsStep ==
    ASSUME TypeOK, LanesOK, ClaimsOK, Next
    PROVE  ClaimsOK'
<1>0. Direct \subseteq Deliveries /\ answered \subseteq Deliveries
      /\ \A d \in Direct : acted[d] \in Nat
  BY DEF Deliveries, TypeOK
<1>1. ASSUME NEW t \in Tasks, CountQueue(t) \/ EvictCount(t) \/ EvictFailed(t) \/ LookSeen(t)
                              \/ LookFailed(t) \/ InsertQueue(t) \/ ClaimFailed(t) \/ ActRefused(t)
      PROVE  ClaimsOK'
  <2>1. UNCHANGED <<seen, evicted, acted, answered>>
    BY <1>1 DEF CountQueue, EvictCount, EvictFailed, LookSeen, LookFailed, InsertQueue,
       ClaimFailed, ActRefused
  <2>2. task'[t].pc # "act"
    <3>1. Finish(t) \/ \E pc \in {"evict", "delete", "look", "take", "insert", "claim"} : Goto(t, pc)
      BY <1>1 DEF CountQueue, EvictCount, EvictFailed, LookSeen, LookFailed, InsertQueue,
         ClaimFailed, ActRefused, AfterEvict
    <3> QED
      BY <3>1, Goes, Finishes DEF Idle
  <2>3. \A u \in Tasks : u # t => task'[u] = task[u]
    BY <1>1, Serves DEF Serve
  <2> QED
    BY <2>1, <2>2, <2>3, ClaimsKept
<1>2. ASSUME NEW t \in Tasks, NEW d \in Deliveries, enqueue(t, d) \/ seen_claim(t, d)
      PROVE  ClaimsOK'
  <2>1. PICK pc \in {"count", "evict"} : Begin(t, d, pc)
    BY <1>2 DEF enqueue, seen_claim
  <2>2. task'[t].pc = pc /\ \A u \in Tasks : u # t => task'[u] = task[u]
    BY <2>1, Begins
  <2>3. UNCHANGED <<seen, evicted, acted, answered>>
    BY <2>1 DEF Begin
  <2> QED
    BY <2>1, <2>2, <2>3, ClaimsKept
<1>3. CASE Drain \/ Kill
  <2>1. UNCHANGED <<seen, evicted, acted, answered>>
    BY <1>3 DEF Drain, DrainWake, drain_one, DrainRecord, Kill
  <2>2. \A t \in Tasks : task'[t].pc = "act" => task'[t] = task[t]
    BY <1>3 DEF Drain, DrainWake, drain_one, DrainRecord, Kill, Idle
  <2> QED
    BY <2>1, <2>2, ClaimsKept
<1>4. ASSUME NEW t \in Tasks, EvictDelete(t) PROVE ClaimsOK'
  <2>1. evicted \subseteq evicted' /\ \A d \in Deliveries : Claimed(d) => Claimed(d)'
    BY <1>4, Evicts
  <2>2. UNCHANGED <<acted, answered>>
    BY <1>4 DEF EvictDelete
  <2>3. PICK pc \in {"look", "take"} : Goto(t, pc)
    BY <1>4 DEF EvictDelete, AfterEvict
  <2>4. task'[t].pc = pc /\ \A u \in Tasks : u # t => task'[u] = task[u]
    BY <2>3, Goes
  <2>5. \A u \in Tasks : task'[u].pc = "act" => task'[u] = task[u]
    BY <2>3, <2>4
  <2>6. \A u \in Tasks : task[u].pc = "act" => task[u].d \in Deliveries
    BY DEF LanesOK, At
  <2>7. (\A d \in answered : Claimed(d))' /\ (\A u \in Tasks : At(u, "act") => Claimed(task[u].d))'
    BY <1>0, <2>1, <2>2, <2>5, <2>6 DEF ClaimsOK, At
  <2>8. \A d \in Direct : acted'[d] > 0 => Claimed(d)'
    BY <1>0, <2>1, <2>2 DEF ClaimsOK
  <2>9. ASSUME NEW d \in Direct, d \notin evicted'
        PROVE  /\ acted'[d] <= 1
               /\ \A u \in Tasks : Acting(u, d)' => acted'[d] = 0
               /\ \A u, v \in Tasks : (Acting(u, d) /\ Acting(v, d))' => u = v
    BY <2>1, <2>2, <2>5, <2>9 DEF ClaimsOK, Acting, At
  <2> QED
    BY <2>7, <2>8, <2>9 DEF ClaimsOK
<1>5. ASSUME NEW t \in Tasks, ClaimQueued(t) PROVE ClaimsOK'
  <2>1. task[t].d \in Deliveries
    BY <1>5 DEF ClaimQueued, LanesOK, At, Deliveries
  <2>2. InSeq(seen', task[t].d) /\ \A e : InSeq(seen', e) <=> (InSeq(seen, e) \/ e = task[t].d)
    BY <1>5, <2>1, Taken DEF ClaimQueued
  <2>3. UNCHANGED <<acted, evicted>> /\ answered' = answered \cup {task[t].d}
    BY <1>5 DEF ClaimQueued
  <2>4. \A u \in Tasks : task'[u].pc = "act" => task'[u] = task[u]
    BY <1>5, Finishes DEF ClaimQueued, Idle
  <2>5. \A d : (Claimed(d) \/ d = task[t].d) => Claimed(d)'
    BY <2>2, <2>3 DEF Claimed
  <2>6. (\A d \in answered : Claimed(d))' /\ (\A u \in Tasks : At(u, "act") => Claimed(task[u].d))'
    BY <2>3, <2>4, <2>5 DEF ClaimsOK, At
  <2>7. \A d \in Direct : acted'[d] > 0 => Claimed(d)'
    BY <2>3, <2>5 DEF ClaimsOK
  <2>8. ASSUME NEW d \in Direct, d \notin evicted'
        PROVE  /\ acted'[d] <= 1
               /\ \A u \in Tasks : Acting(u, d)' => acted'[d] = 0
               /\ \A u, v \in Tasks : (Acting(u, d) /\ Acting(v, d))' => u = v
    BY <2>3, <2>4, <2>8 DEF ClaimsOK, Acting, At
  <2> QED
    BY <2>6, <2>7, <2>8 DEF ClaimsOK
<1>6. ASSUME NEW t \in Tasks, ClaimDirect(t) PROVE ClaimsOK'
  <2>1. task[t].d \in Direct /\ task[t].d \in Deliveries
    BY <1>6 DEF ClaimDirect, LanesOK, At, Deliveries
  <2>2. InSeq(seen', task[t].d) /\ \A e : InSeq(seen', e) <=> (InSeq(seen, e) \/ e = task[t].d)
    BY <1>6, <2>1, Taken DEF ClaimDirect
  <2>3. UNCHANGED <<acted, evicted, answered>>
    BY <1>6 DEF ClaimDirect
  <2>4. \A d : (Claimed(d) \/ d = task[t].d) => Claimed(d)'
    BY <2>2, <2>3 DEF Claimed
  <2>5. \A u \in Tasks : u # t => task'[u] = task[u]
    BY <1>6, Serves DEF Serve
  <2>6. /\ task'[t].pc = "act" => task'[t].d = task[t].d
        /\ task'[t].pc = "act" => ~InSeq(seen, task[t].d)
    BY <1>6, Goes, Finishes DEF ClaimDirect, Idle
  <2>7. (\A d \in answered : Claimed(d))' /\ (\A u \in Tasks : At(u, "act") => Claimed(task[u].d))'
    BY <2>3, <2>4, <2>5, <2>6 DEF ClaimsOK, At
  <2>8. \A d \in Direct : acted'[d] > 0 => Claimed(d)'
    BY <2>3, <2>4 DEF ClaimsOK
  <2>9. ASSUME NEW d \in Direct, d \notin evicted'
        PROVE  /\ acted'[d] <= 1
               /\ \A u \in Tasks : Acting(u, d)' => acted'[d] = 0
               /\ \A u, v \in Tasks : (Acting(u, d) /\ Acting(v, d))' => u = v
    <3>1. /\ acted[d] <= 1 /\ d \notin evicted /\ acted' = acted
          /\ \A u \in Tasks : Acting(u, d) => acted[d] = 0
          /\ \A u, v \in Tasks : (Acting(u, d) /\ Acting(v, d)) => u = v
      BY <2>3, <2>9 DEF ClaimsOK
    <3>2. \A u \in Tasks : u # t => (Acting(u, d)' <=> Acting(u, d))
      BY <2>5 DEF Acting, At
    <3>3. CASE ~Acting(t, d)'
      BY <3>1, <3>2, <3>3
    <3>4. CASE Acting(t, d)'
      <4>1. d = task[t].d /\ ~Claimed(d)
        BY <2>6, <3>1, <3>4 DEF Acting, At, Claimed
      <4>2. acted[d] = 0 /\ \A u \in Tasks : ~Acting(u, d)
        BY <1>0, <4>1 DEF ClaimsOK, Acting
      <4> QED
        BY <3>1, <3>2, <4>2
    <3> QED
      BY <3>3, <3>4
  <2> QED
    BY <2>7, <2>8, <2>9 DEF ClaimsOK
<1>7. ASSUME NEW t \in Tasks, Act(t) PROVE ClaimsOK'
  <2>1. task[t].d \in Direct /\ task[t].d \in Deliveries /\ Claimed(task[t].d)
    BY <1>7 DEF Act, LanesOK, At, Deliveries, ClaimsOK
  <2>2. UNCHANGED <<seen, evicted>> /\ answered' = answered \cup {task[t].d}
    BY <1>7 DEF Act
  <2>3. /\ acted'[task[t].d] = acted[task[t].d] + 1
        /\ \A d \in Deliveries : d # task[t].d => acted'[d] = acted[d]
    BY <1>7, <2>1 DEF Act, TypeOK
  <2>4. task'[t].pc = "idle" /\ \A u \in Tasks : u # t => task'[u] = task[u]
    BY <1>7, Finishes DEF Act, Idle
  <2>5. \A d : Claimed(d)' <=> Claimed(d)
    BY <2>2 DEF Claimed
  <2>6. (\A d \in answered : Claimed(d))' /\ (\A u \in Tasks : At(u, "act") => Claimed(task[u].d))'
    BY <2>1, <2>2, <2>4, <2>5 DEF ClaimsOK, At
  <2>7. \A d \in Direct : acted'[d] > 0 => Claimed(d)'
    BY <1>0, <2>1, <2>3, <2>5 DEF ClaimsOK
  <2>8. ASSUME NEW d \in Direct, d \notin evicted'
        PROVE  /\ acted'[d] <= 1
               /\ \A u \in Tasks : Acting(u, d)' => acted'[d] = 0
               /\ \A u, v \in Tasks : (Acting(u, d) /\ Acting(v, d))' => u = v
    <3>1. /\ acted[d] <= 1 /\ d \notin evicted /\ acted[d] \in Nat
          /\ \A u \in Tasks : Acting(u, d) => acted[d] = 0
          /\ \A u, v \in Tasks : (Acting(u, d) /\ Acting(v, d)) => u = v
      BY <1>0, <2>2, <2>8 DEF ClaimsOK
    <3>2. \A u \in Tasks : Acting(u, d)' => (u # t /\ Acting(u, d))
      BY <2>4 DEF Acting, At
    <3>3. CASE d = task[t].d
      <4>1. Acting(t, d)
        BY <1>7, <3>3 DEF Act, Acting
      <4> QED
        BY <2>3, <3>1, <3>2, <3>3, <4>1
    <3>4. CASE d # task[t].d
      BY <1>0, <2>3, <3>1, <3>2, <3>4
    <3> QED
      BY <3>3, <3>4
  <2> QED
    BY <2>6, <2>7, <2>8 DEF ClaimsOK
<1> QED
  BY <1>1, <1>2, <1>3, <1>4, <1>5, <1>6, <1>7 DEF Next, Serve

\* A replay that found no claim is one whose claim was evicted, or it could not look.
LEMMA ReplaysStep ==
    ASSUME TypeOK, LanesOK, ClaimsOK, ReplaysOK, Next
    PROVE  ReplaysOK'
<1>1. evicted \subseteq evicted'
  BY Evicts DEF Next, Serve, Drain, CountQueue, EvictCount, EvictFailed, LookSeen, LookFailed,
     InsertQueue, ClaimQueued, ClaimFailed, ClaimDirect, Act, ActRefused, enqueue, seen_claim, Begin,
     DrainWake, drain_one, DrainRecord, Kill
<1>2. ASSUME NEW t \in Tasks, Serve(t) PROVE ReplaysOK'
  <2>0. blind \subseteq blind' /\ (LookFailed(t) => t \in blind')
    BY <1>2 DEF Serve, CountQueue, EvictCount, EvictDelete, EvictFailed, LookSeen, LookFailed,
       InsertQueue, ClaimQueued, ClaimFailed, ClaimDirect, Act, ActRefused
  <2>1. /\ \A u \in Tasks : u # t => task'[u] = task[u]
        /\ task'[t] = Idle \/ (task'[t].d = task[t].d /\ task'[t].replay = task[t].replay)
    BY <1>2, Serves
  <2>2. ASSUME task'[t].replay, task'[t].pc \in {"insert", "claim", "act"}
        PROVE  task'[t].d \in evicted \/ t \in blind'
    <3>1. task'[t] # Idle
      BY <2>2 DEF Idle
    <3>2. task'[t].d = task[t].d /\ task[t].replay
      BY <2>1, <2>2, <3>1
    <3>3. task[t].d \in answered /\ Claimed(task[t].d)
      BY <3>2 DEF LanesOK, ClaimsOK
    <3>4. (At(t, "insert") /\ task'[t].pc = "claim") \/ ~InSeq(seen, task[t].d) \/ LookFailed(t)
      BY <1>2, <2>2, <3>1, ServesTo DEF AfterEvict
    <3> QED
      BY <2>0, <3>2, <3>3, <3>4 DEF Claimed, ReplaysOK, At
  <2> QED
    BY <1>1, <2>0, <2>1, <2>2 DEF ReplaysOK
<1>3. ASSUME NEW t \in Tasks, NEW d \in Deliveries, enqueue(t, d) \/ seen_claim(t, d)
      PROVE  ReplaysOK'
  <2>1. PICK pc \in {"count", "evict"} : Begin(t, d, pc)
    BY <1>3 DEF enqueue, seen_claim
  <2>2. task'[t].pc = pc /\ \A u \in Tasks : u # t => task'[u] = task[u]
    BY <2>1, Begins
  <2>3. \A u \in Tasks : (u # t /\ u \in blind) => u \in blind'
    BY <2>1 DEF Begin
  <2> QED
    BY <1>1, <2>1, <2>2, <2>3 DEF ReplaysOK
<1>4. CASE Drain \/ Kill
  BY <1>1, <1>4 DEF Drain, DrainWake, drain_one, DrainRecord, Kill, Idle, ReplaysOK
<1> QED
  BY <1>2, <1>3, <1>4 DEF Next

-----------------------------------------------------------------------------
(* The bound of the queue *)

\* The requests are finitely many, and so are those of them at some statements.
LEMMA SomeTasks ==
    ASSUME NEW T, T \subseteq Tasks
    PROVE  IsFiniteSet(T) /\ Cardinality(T) \in Nat /\ Cardinality(T) <= Cardinality(Tasks)
           /\ Cardinality(Tasks) \in Nat
  BY WebhookAssumption, FS_Subset, FS_CardinalityType

\* A subset is no larger.
LEMMA FewerTasks ==
    ASSUME NEW T, NEW U, T \subseteq Tasks, U \subseteq T
    PROVE  Cardinality(U) \in Nat /\ Cardinality(T) \in Nat /\ Cardinality(U) <= Cardinality(T)
  BY SomeTasks, FS_Subset, FS_CardinalityType

\* Requests take their place in the queue one by one, each after the count.
LEMMA RoomStep ==
    ASSUME TypeOK, LanesOK, RoomOK, Next
    PROVE  RoomOK'
<1>0. Len(queue) \in Nat /\ QueueMax \in Nat \ {0} /\ queue \in Seq(Queued)
  BY WebhookAssumption DEF TypeOK
<1>1. ASSUME RoomFound' \subseteq RoomFound, Len(queue') \in Nat, Len(queue') <= Len(queue)
      PROVE  RoomOK'
  <2>1. RoomFound \subseteq Tasks
    BY DEF RoomFound
  <2>2. Cardinality(RoomFound') <= Cardinality(RoomFound) /\ Cardinality(RoomFound') \in Nat
        /\ Cardinality(RoomFound) \in Nat /\ Cardinality(Tasks) \in Nat
    BY <1>1, <2>1, FewerTasks, SomeTasks
  <2> QED
    BY <1>0, <1>1, <2>2 DEF RoomOK
<1>2. ASSUME NEW t \in Tasks, Serve(t) PROVE RoomOK'
  <2>1. /\ \A u \in Tasks : u # t => task'[u] = task[u]
        /\ task'[t] = Idle \/ (task'[t].d = task[t].d /\ task'[t].replay = task[t].replay)
    BY <1>2, Serves
  <2>2. CASE CountQueue(t) /\ task'[t].pc = "evict"
    <3>1. Len(queue) < QueueMax /\ queue' = queue
      BY <1>0, <2>2, Finishes DEF CountQueue, Idle
    <3>2. RoomFound' \subseteq Tasks
      BY DEF RoomFound
    <3>3. Cardinality(RoomFound') <= Cardinality(Tasks) /\ Cardinality(RoomFound') \in Nat
          /\ Cardinality(Tasks) \in Nat
      BY <3>2, SomeTasks
    <3> QED
      BY <1>0, <3>1, <3>3 DEF RoomOK
  <2>3. CASE InsertQueue(t) /\ task'[t].pc = "claim"
    <3>1. queue' = Append(queue, task[t].d) /\ task[t].d \in Queued
      BY <2>3, Finishes DEF InsertQueue, Idle, LanesOK, At
    <3>2. Len(queue') = Len(queue) + 1
      BY <1>0, <3>1
    <3>3. t \in RoomFound /\ RoomFound' = RoomFound \ {t}
      BY <2>1, <2>3, <3>1 DEF RoomFound, InsertQueue, At
    <3>4. IsFiniteSet(RoomFound) /\ Cardinality(RoomFound) \in Nat /\ Cardinality(Tasks) \in Nat
      BY SomeTasks DEF RoomFound
    <3>5. Cardinality(RoomFound') = Cardinality(RoomFound) - 1
      BY <3>3, <3>4, FS_RemoveElement
    <3> QED
      BY <1>0, <3>2, <3>4, <3>5 DEF RoomOK
  <2>4. CASE ~(CountQueue(t) /\ task'[t].pc = "evict") /\ ~(InsertQueue(t) /\ task'[t].pc = "claim")
    <3>1. queue' = queue
      BY <1>2, <2>4, Goes DEF Serve, CountQueue, EvictCount, EvictDelete, EvictFailed, LookSeen,
         LookFailed, InsertQueue, ClaimQueued, ClaimFailed, ClaimDirect, Act, ActRefused
    <3>2. t \in RoomFound' => t \in RoomFound
      <4> SUFFICES ASSUME t \in RoomFound' PROVE t \in RoomFound
        OBVIOUS
      <4>1. task'[t] # Idle /\ task'[t].pc \in {"evict", "delete", "look", "insert"}
            /\ task'[t].d \in Queued
        BY DEF RoomFound, Idle
      <4>2. task[t].pc \in {"evict", "delete", "look", "insert"}
        BY <1>2, <2>4, <4>1, ServesTo DEF At
      <4> QED
        BY <2>1, <4>1, <4>2 DEF RoomFound
    <3>3. RoomFound' \subseteq RoomFound
      BY <2>1, <3>2 DEF RoomFound
    <3> QED
      BY <1>0, <1>1, <3>1, <3>3
  <2> QED
    BY <2>2, <2>3, <2>4
<1>3. ASSUME NEW t \in Tasks, NEW d \in Deliveries, enqueue(t, d) \/ seen_claim(t, d)
      PROVE  RoomOK'
  <2>1. PICK pc \in {"count", "evict"} : Begin(t, d, pc) /\ (pc = "evict" => d \in Direct)
    BY <1>3 DEF enqueue, seen_claim
  <2>2. task'[t].pc = pc /\ task'[t].d = d /\ \A u \in Tasks : u # t => task'[u] = task[u]
    BY <2>1, Begins
  <2>3. RoomFound' \subseteq RoomFound
    BY <2>1, <2>2, WebhookAssumption DEF RoomFound
  <2>4. queue' = queue
    BY <2>1 DEF Begin
  <2> QED
    BY <1>0, <1>1, <2>3, <2>4
<1>4. CASE Drain \/ Kill
  <2>1. RoomFound' \subseteq RoomFound
    BY <1>4 DEF RoomFound, Drain, DrainWake, drain_one, DrainRecord, Kill, Idle
  <2>2. queue' = queue \/ (queue # <<>> /\ queue' = Tail(queue))
    BY <1>4 DEF Drain, DrainWake, drain_one, DrainRecord, Kill
  <2>3. Len(queue') \in Nat /\ Len(queue') <= Len(queue)
    BY <1>0, <2>2
  <2> QED
    BY <1>1, <2>1, <2>3
<1> QED
  BY <1>2, <1>3, <1>4 DEF Next

-----------------------------------------------------------------------------
(* Eviction *)

\* The share of the requests that do not hold one, in rows.
LEMMA Shares ==
    ASSUME NEW a \in Nat, NEW e \in Nat
    PROVE  a * e \in Nat /\ (a + 1) * e = a * e + e /\ 0 * e = 0
  OBVIOUS

\* A request that takes a claim adds it at the end of both sequences.
LEMMA TakenLast ==
    ASSUME TypeOK, EvictionOK, NEW d \in Deliveries, TakeClaim(d), Deleting' = Deleting
    PROVE  EvictionOK'
<1>0. seen \in Seq(Deliveries \cup Past) /\ claims \in Seq(Deliveries \cup Past)
      /\ d \in Deliveries \cup Past /\ Len(seen) \in Nat /\ Len(claims) \in Nat
  BY DEF TypeOK
<1>1. CASE InSeq(seen, d)
  BY <1>1 DEF TakeClaim, EvictionOK
<1>2. CASE ~InSeq(seen, d)
  <2>1. seen' = Append(seen, d) /\ claims' = Append(claims, d)
    BY <1>2 DEF TakeClaim
  <2>2. Len(seen') = Len(seen) + 1 /\ Len(claims') = Len(claims) + 1
    BY <1>0, <2>1
  <2>3. ASSUME NEW i \in 1 .. Len(seen')
        PROVE  seen'[i] = claims'[Len(claims') - Len(seen') + i]
    <3>1. CASE i = Len(seen) + 1
      BY <1>0, <2>1, <2>2, <3>1
    <3>2. CASE i \in 1 .. Len(seen)
      <4>1. Len(claims) - Len(seen) + i \in 1 .. Len(claims)
        BY <1>0, <3>2 DEF EvictionOK
      <4>2. claims'[Len(claims) - Len(seen) + i] = claims[Len(claims) - Len(seen) + i]
        BY <1>0, <2>1, <4>1
      <4>3. seen'[i] = seen[i]
        BY <1>0, <2>1, <3>2
      <4>4. Len(claims') - Len(seen') + i = Len(claims) - Len(seen) + i
        BY <1>0, <2>2
      <4> QED
        BY <3>2, <4>2, <4>3, <4>4 DEF EvictionOK
    <3> QED
      BY <1>0, <2>2, <3>1, <3>2
  <2>4. SeenMax \in Nat /\ SeenEvict \in Nat /\ Cardinality(Tasks) \in Nat
        /\ Cardinality(Deleting) \in Nat /\ Cardinality(Deleting) <= Cardinality(Tasks)
    BY WebhookAssumption, SomeTasks DEF Deleting
  <2> DEFINE x == (Cardinality(Tasks) - Cardinality(Deleting)) * SeenEvict
             y == Cardinality(Tasks) * SeenEvict
  <2>5. x \in Int /\ y \in Int
    BY <2>4
  <2>6. (Deleting # {} => Len(seen) >= SeenMax + 1 - x)
        /\ (Len(seen) = Len(claims) \/ Len(seen) >= SeenMax + 1 - y)
    BY DEF EvictionOK
  <2> HIDE DEF x, y
  <2>7. (Deleting # {} => Len(seen') >= SeenMax + 1 - x)
        /\ (Len(seen') = Len(claims') \/ Len(seen') >= SeenMax + 1 - y)
        /\ Len(seen') <= Len(claims')
    BY <1>0, <2>2, <2>4, <2>5, <2>6 DEF EvictionOK
  <2> QED
    BY <2>3, <2>7 DEF EvictionOK, x, y
<1> QED
  BY <1>1, <1>2

\* The claims that are kept stay the newest ones, however many requests delete
\* by what they counted.
LEMMA EvictionStep ==
    ASSUME TypeOK, LanesOK, EvictionOK, Next
    PROVE  EvictionOK'
<1>0. /\ SeenMax \in Nat /\ SeenEvict \in Nat \ {0} /\ Len(seen) \in Nat /\ Len(claims) \in Nat
      /\ IsFiniteSet(Deleting) /\ Cardinality(Deleting) \in Nat /\ Cardinality(Tasks) \in Nat
      /\ Cardinality(Deleting) <= Cardinality(Tasks)
  BY WebhookAssumption, SomeTasks DEF Deleting, TypeOK
<1>1. ASSUME UNCHANGED <<seen, claims>>, Deleting' \in {Deleting, {}} PROVE EvictionOK'
  BY <1>1 DEF EvictionOK
<1>2. ASSUME NEW t \in Tasks, CountQueue(t) \/ LookSeen(t) \/ LookFailed(t) \/ InsertQueue(t)
                              \/ ClaimFailed(t) \/ Act(t) \/ ActRefused(t)
      PROVE  EvictionOK'
  <2>1. UNCHANGED <<seen, claims>> /\ task[t].pc # "delete"
    BY <1>2 DEF CountQueue, LookSeen, LookFailed, InsertQueue, ClaimFailed, Act, ActRefused, At
  <2>2. Finish(t) \/ \E pc \in {"evict", "insert", "claim"} : Goto(t, pc)
    BY <1>2 DEF CountQueue, LookSeen, LookFailed, InsertQueue, ClaimFailed, Act, ActRefused
  <2>3. task'[t].pc # "delete" /\ \A u \in Tasks : u # t => task'[u] = task[u]
    BY <2>2, Goes, Finishes DEF Idle
  <2>4. Deleting' = Deleting
    BY <2>1, <2>3 DEF Deleting, At
  <2> QED
    BY <1>1, <2>1, <2>4
<1>3. ASSUME NEW t \in Tasks, EvictCount(t) PROVE EvictionOK'
  <2>1. UNCHANGED <<seen, claims>> /\ At(t, "evict")
    BY <1>3 DEF EvictCount
  <2>2. \A u \in Tasks : u # t => task'[u] = task[u]
    BY <1>3, Serves DEF Serve
  <2>3. CASE task'[t].pc # "delete"
    <3>1. Deleting' = Deleting
      BY <2>1, <2>2, <2>3 DEF Deleting, At
    <3> QED
      BY <1>1, <2>1, <3>1
  <2>4. CASE task'[t].pc = "delete"
    <3>1. Len(seen) > SeenMax
      BY <1>3, <2>4, Goes DEF EvictCount, AfterEvict
    <3>2. Cardinality(Deleting') \in Nat /\ Cardinality(Deleting') <= Cardinality(Tasks)
      BY SomeTasks DEF Deleting
    <3>3. (Cardinality(Tasks) - Cardinality(Deleting')) \in Nat
      BY <1>0, <3>2
    <3>4. (Cardinality(Tasks) - Cardinality(Deleting')) * SeenEvict \in Nat
      BY <1>0, <3>3, Shares
    <3>5. Len(seen) >= SeenMax + 1 - (Cardinality(Tasks) - Cardinality(Deleting')) * SeenEvict
      BY <1>0, <3>1, <3>4
    <3> QED
      BY <2>1, <3>5 DEF EvictionOK
  <2> QED
    BY <2>3, <2>4
<1>4. ASSUME NEW t \in Tasks, EvictDelete(t) PROVE EvictionOK'
  <2>1. /\ seen' \in Seq(Deliveries \cup Past)
        /\ Len(seen') = IF Len(seen) > SeenEvict THEN Len(seen) - SeenEvict ELSE 0
        /\ \A i \in 1 .. Len(seen') : seen'[i] = seen[SeenEvict + i]
    BY <1>4, Evicts
  <2>2. claims' = claims /\ t \in Deleting
    BY <1>4 DEF EvictDelete, Deleting
  <2>3. PICK pc \in {"look", "take"} : Goto(t, pc)
    BY <1>4 DEF EvictDelete, AfterEvict
  <2>4. task'[t].pc # "delete" /\ \A u \in Tasks : u # t => task'[u] = task[u]
    BY <2>3, Goes
  <2>5. Deleting' = Deleting \ {t}
    BY <2>4 DEF Deleting, At
  <2>6. Cardinality(Deleting') = Cardinality(Deleting) - 1
    BY <1>0, <2>2, <2>5, FS_RemoveElement
  <2> DEFINE a == Cardinality(Tasks) - Cardinality(Deleting)
             x == a * SeenEvict
  <2>7. Cardinality(Tasks) - Cardinality(Deleting') = a + 1 /\ a \in Nat
    BY <1>0, <2>6
  <2>8. (Cardinality(Tasks) - Cardinality(Deleting')) * SeenEvict = x + SeenEvict /\ x \in Nat
    BY <1>0, <2>7, Shares
  <2>9. Len(seen) >= SeenMax + 1 - x
    BY <2>2 DEF EvictionOK
  <2>10. Len(seen') \in Nat /\ Len(seen') >= SeenMax + 1 - (x + SeenEvict) /\ Len(seen') <= Len(seen)
    <3> HIDE DEF x
    <3> QED
      BY <1>0, <2>1, <2>8, <2>9
  <2>11. x + SeenEvict <= Cardinality(Tasks) * SeenEvict
    <3>1. PICK b \in Nat : Cardinality(Tasks) = (a + 1) + b
      <4>1. Cardinality(Deleting') \in Nat
        BY SomeTasks DEF Deleting
      <4>2. Cardinality(Tasks) = (a + 1) + Cardinality(Deleting')
        BY <1>0, <2>6
      <4> QED
        BY <4>1, <4>2
    <3>2. Cardinality(Tasks) * SeenEvict = (a + 1) * SeenEvict + b * SeenEvict
      BY <1>0, <2>7, <3>1
    <3>3. b * SeenEvict \in Nat /\ (a + 1) * SeenEvict = x + SeenEvict
      BY <1>0, <2>7, Shares
    <3> QED
      BY <1>0, <2>8, <3>2, <3>3
  <2>12. Cardinality(Tasks) * SeenEvict \in Nat
    BY <1>0, Shares
  <2>13. Len(seen') >= SeenMax + 1 - Cardinality(Tasks) * SeenEvict
    <3> DEFINE y == Cardinality(Tasks) * SeenEvict
    <3> HIDE DEF x, y
    <3>1. y \in Nat /\ x + SeenEvict <= y
      BY <2>11, <2>12 DEF y
    <3>2. Len(seen') >= SeenMax + 1 - y
      BY <1>0, <2>8, <2>10, <3>1
    <3> QED
      BY <3>2 DEF y
  <2>14. ASSUME NEW i \in 1 .. Len(seen')
         PROVE  seen'[i] = claims'[Len(claims') - Len(seen') + i]
    <3>1. Len(seen') = Len(seen) - SeenEvict /\ SeenEvict + i \in 1 .. Len(seen)
      BY <1>0, <2>1, <2>14
    <3>2. Len(claims') - Len(seen') + i = Len(claims) - Len(seen) + (SeenEvict + i)
      BY <1>0, <2>2, <3>1
    <3>3. seen[SeenEvict + i] = claims[Len(claims) - Len(seen) + (SeenEvict + i)]
      BY <3>1 DEF EvictionOK
    <3> QED
      BY <2>1, <2>2, <3>2, <3>3
  <2>15. Len(seen') <= Len(claims')
    BY <1>0, <2>2, <2>10 DEF EvictionOK
  <2> QED
    BY <2>8, <2>10, <2>13, <2>14, <2>15 DEF EvictionOK
<1>5. ASSUME NEW t \in Tasks, ClaimQueued(t) \/ ClaimDirect(t) PROVE EvictionOK'
  <2>1. task[t].d \in Deliveries /\ TakeClaim(task[t].d) /\ task[t].pc # "delete"
    BY <1>5 DEF ClaimQueued, ClaimDirect, At, LanesOK, Deliveries
  <2>2. task'[t].pc # "delete" /\ \A u \in Tasks : u # t => task'[u] = task[u]
    BY <1>5, Goes, Finishes DEF ClaimQueued, ClaimDirect, Idle
  <2>3. Deleting' = Deleting
    BY <2>1, <2>2 DEF Deleting, At
  <2> QED
    BY <2>1, <2>3, TakenLast
<1>6. ASSUME NEW t \in Tasks, NEW d \in Deliveries, enqueue(t, d) \/ seen_claim(t, d)
      PROVE  EvictionOK'
  <2>1. PICK pc \in {"count", "evict"} : Begin(t, d, pc)
    BY <1>6 DEF enqueue, seen_claim
  <2>2. task'[t].pc = pc /\ \A u \in Tasks : u # t => task'[u] = task[u]
    BY <2>1, Begins
  <2>3. Deleting' = Deleting /\ UNCHANGED <<seen, claims>>
    BY <2>1, <2>2 DEF Begin, Deleting, At
  <2> QED
    BY <1>1, <2>3
<1>7. CASE Drain \/ Kill
  <2>1. UNCHANGED <<seen, claims>> /\ Deleting' \in {Deleting, {}}
    BY <1>7 DEF Drain, DrainWake, drain_one, DrainRecord, Kill, Deleting, At, Idle
  <2> QED
    BY <1>1, <2>1
<1>8. ASSUME NEW t \in Tasks, EvictFailed(t) PROVE EvictionOK'
  <2>1. PICK pc \in {"look", "take"} : Goto(t, pc)
    BY <1>8 DEF EvictFailed, AfterEvict
  <2>2. task'[t].pc # "delete" /\ \A u \in Tasks : u # t => task'[u] = task[u]
    BY <2>1, Goes
  <2>3. UNCHANGED <<seen, claims>>
    BY <1>8 DEF EvictFailed
  <2>4. Deleting' = Deleting \ {t}
    BY <2>2 DEF Deleting, At
  <2>5. CASE t \notin Deleting
    BY <1>1, <2>3, <2>4, <2>5
  <2>6. CASE t \in Deleting
    <3>1. Cardinality(Deleting') = Cardinality(Deleting) - 1
      BY <1>0, <2>4, <2>6, FS_RemoveElement
    <3> DEFINE a == Cardinality(Tasks) - Cardinality(Deleting)
               x == a * SeenEvict
    <3>2. Cardinality(Tasks) - Cardinality(Deleting') = a + 1 /\ a \in Nat
      BY <1>0, <3>1
    <3>3. (Cardinality(Tasks) - Cardinality(Deleting')) * SeenEvict = x + SeenEvict /\ x \in Nat
      BY <1>0, <3>2, Shares
    <3>4. Len(seen) >= SeenMax + 1 - x
      BY <2>6 DEF EvictionOK
    <3> HIDE DEF x
    <3>5. Len(seen) >= SeenMax + 1 - (x + SeenEvict)
      BY <1>0, <3>3, <3>4
    <3> QED
      BY <2>3, <3>3, <3>5 DEF EvictionOK
  <2> QED
    BY <2>5, <2>6
<1> QED
  BY <1>2, <1>3, <1>4, <1>5, <1>6, <1>7, <1>8 DEF Next, Serve

-----------------------------------------------------------------------------
(* What became of the queued deliveries *)

\* A row is put into the queue: one more put, which was not counted before.
LEMMA OneMorePut ==
    ASSUME TypeOK, LanesOK, PutsOK, NEW t \in Tasks, InsertQueue(t), queue' # queue
    PROVE  /\ queue' = Append(queue, task[t].d) /\ task'[t].pc = "claim" /\ t \in ToInsert
           /\ IsFiniteSet(Puts') /\ Cardinality(Puts') = Cardinality(Puts) + 1
           /\ \A d \in Queued : enqueued'[d] <= MaxRequests
<1> DEFINE d == task[t].d
           new == <<d, enqueued[d] + 1>>
<1>1. d \in Queued /\ d \in Deliveries /\ At(t, "insert") /\ t \in ToInsert
  BY DEF InsertQueue, LanesOK, At, Deliveries, ToInsert
<1>2. queue' = Append(queue, d) /\ enqueued' = [enqueued EXCEPT ![d] = @ + 1] /\ Goto(t, "claim")
  BY DEF InsertQueue
<1>3. enqueued \in [Deliveries -> Nat] /\ MaxRequests \in Nat /\ requests <= MaxRequests
      /\ requests \in Nat
  BY WebhookAssumption DEF TypeOK
<1>4. enqueued'[d] = enqueued[d] + 1 /\ \A e \in Queued : e # d => enqueued'[e] = enqueued[e]
  BY <1>1, <1>2, <1>3 DEF Deliveries
<1>5. IsFiniteSet(Puts) /\ Cardinality(Puts) \in Nat /\ Cardinality(ToInsert) \in Nat
      /\ Cardinality(ToInsert) > 0 /\ Cardinality(Puts) + Cardinality(ToInsert) <= requests
  <2>1. IsFiniteSet(ToInsert) /\ Cardinality(ToInsert) \in Nat
    BY SomeTasks DEF ToInsert
  <2> QED
    BY <1>1, <2>1, FS_EmptySet, FS_CardinalityType DEF PutsOK
<1>6. enqueued[d] + 1 <= MaxRequests
  <2> SUFFICES ASSUME enqueued[d] = MaxRequests PROVE FALSE
    BY <1>1, <1>3 DEF PutsOK
  <2>1. {d} \X (1 .. MaxRequests) \subseteq Puts
    BY <1>1, <1>3 DEF Puts
  <2>2. IsFiniteSet(1 .. MaxRequests) /\ Cardinality(1 .. MaxRequests) = MaxRequests
    BY <1>3, FS_Interval
  <2>3. IsFiniteSet({d}) /\ Cardinality({d}) = 1
    BY FS_Singleton
  <2>4. Cardinality({d} \X (1 .. MaxRequests)) = MaxRequests
    BY <1>3, <2>2, <2>3, FS_Product
  <2>5. MaxRequests <= Cardinality(Puts)
    BY <1>5, <2>1, <2>4, FS_Subset
  <2> QED
    BY <1>3, <1>5, <2>5
<1>7. Puts' = Puts \cup {new} /\ new \notin Puts
  <2>1. new \in Queued \X (1 .. MaxRequests) /\ new[1] = d /\ new[2] = enqueued[d] + 1
    BY <1>1, <1>3, <1>6
  <2>2. new \notin Puts
    BY <1>1, <1>3, <2>1 DEF Puts
  <2>3. ASSUME NEW x \in Queued \X (1 .. MaxRequests)
        PROVE  x[2] <= enqueued'[x[1]] <=> (x[2] <= enqueued[x[1]] \/ x = new)
    <3>1. x[1] \in Queued /\ x[2] \in Nat /\ x = <<x[1], x[2]>> /\ enqueued[x[1]] \in Nat
      BY <1>3 DEF Deliveries
    <3>2. CASE x[1] # d
      <4>1. x # new
        BY <2>1, <3>2
      <4> QED
        BY <1>4, <3>1, <3>2, <4>1
    <3>3. CASE x[1] = d
      BY <1>4, <2>1, <3>1, <3>3
    <3> QED
      BY <3>2, <3>3
  <2> HIDE DEF new
  <2>4. Puts' = {x \in Queued \X (1 .. MaxRequests) : x[2] <= enqueued'[x[1]]}
    BY DEF Puts
  <2>5. Puts' = Puts \cup {new}
    BY <2>1, <2>3, <2>4 DEF Puts
  <2> QED
    BY <2>2, <2>5
<1>8. IsFiniteSet(Puts') /\ Cardinality(Puts') = Cardinality(Puts) + 1
  <2> HIDE DEF new
  <2> QED
    BY <1>5, <1>7, FS_AddElement
<1>9. \A e \in Queued : enqueued'[e] <= MaxRequests
  BY <1>4, <1>6 DEF PutsOK
<1>10. task'[t].pc = "claim"
  BY <1>2, Goes
<1> QED
  BY <1>1, <1>2, <1>8, <1>9, <1>10

\* Nothing else changes what was put into the queue.
LEMMA NoMorePuts ==
    ASSUME TypeOK, Next, ~(\E t \in Tasks : InsertQueue(t) /\ queue' # queue)
    PROVE  enqueued' = enqueued /\ Puts' = Puts
<1>1. enqueued' = enqueued
  <2>1. ASSUME NEW t \in Tasks, InsertQueue(t) PROVE enqueued' = enqueued
    <3>1. queue' = queue /\ queue \in Seq(Queued) /\ Len(queue) \in Nat
      BY <2>1 DEF TypeOK
    <3>2. CASE InSeq(queue, task[t].d)
      BY <2>1, <3>2 DEF InsertQueue
    <3>3. CASE ~InSeq(queue, task[t].d)
      <4>1. queue = Append(queue, task[t].d)
        BY <2>1, <3>1, <3>3 DEF InsertQueue
      <4>2. Len(Append(queue, task[t].d)) = Len(queue) + 1
        BY <3>1
      <4> QED
        BY <3>1, <4>1, <4>2
    <3> QED
      BY <3>2, <3>3
  <2> QED
    BY <2>1 DEF Next, Serve, Drain, CountQueue, EvictCount, EvictDelete, EvictFailed, LookSeen,
       LookFailed, ClaimQueued, ClaimFailed, ClaimDirect, Act, ActRefused, enqueue, seen_claim,
       Begin, DrainWake, drain_one, DrainRecord, Kill
<1> QED
  BY <1>1 DEF Puts

\* A request puts at most one delivery into the queue.
LEMMA PutsStep ==
    ASSUME TypeOK, LanesOK, PutsOK, Next
    PROVE  PutsOK'
<1>0. IsFiniteSet(ToInsert) /\ Cardinality(ToInsert) \in Nat /\ requests \in Nat
      /\ Cardinality(Puts) \in Nat /\ IsFiniteSet(Puts)
      /\ Cardinality(Puts) + Cardinality(ToInsert) <= requests
  BY SomeTasks, FS_CardinalityType DEF ToInsert, TypeOK, PutsOK
<1>1. ASSUME NEW t \in Tasks, InsertQueue(t), queue' # queue PROVE PutsOK'
  <2>1. /\ task'[t].pc = "claim" /\ t \in ToInsert
        /\ IsFiniteSet(Puts') /\ Cardinality(Puts') = Cardinality(Puts) + 1
        /\ \A d \in Queued : enqueued'[d] <= MaxRequests
    BY <1>1, OneMorePut
  <2>2. requests' = requests /\ \A u \in Tasks : u # t => task'[u] = task[u]
    BY <1>1, Serves DEF Serve
  <2>3. ToInsert' = ToInsert \ {t}
    BY <2>1, <2>2 DEF ToInsert
  <2>4. Cardinality(ToInsert') = Cardinality(ToInsert) - 1
    BY <1>0, <2>1, <2>3, FS_RemoveElement
  <2> QED
    BY <1>0, <2>1, <2>2, <2>4 DEF PutsOK
<1>2. ASSUME ~(\E t \in Tasks : InsertQueue(t) /\ queue' # queue),
             ToInsert' \subseteq ToInsert, requests' = requests
      PROVE  PutsOK'
  <2>1. enqueued' = enqueued /\ Puts' = Puts
    BY <1>2, NoMorePuts
  <2>2. Cardinality(ToInsert') \in Nat /\ Cardinality(ToInsert') <= Cardinality(ToInsert)
    BY <1>2, FewerTasks DEF ToInsert
  <2> QED
    BY <1>0, <1>2, <2>1, <2>2 DEF PutsOK
<1>3. ASSUME NEW t \in Tasks, Serve(t), ~(\E u \in Tasks : InsertQueue(u) /\ queue' # queue)
      PROVE  PutsOK'
  <2>1. /\ requests' = requests /\ \A u \in Tasks : u # t => task'[u] = task[u]
        /\ task'[t] = Idle \/ (task'[t].d = task[t].d /\ task'[t].replay = task[t].replay)
    BY <1>3, Serves
  <2>2. ASSUME t \in ToInsert' PROVE t \in ToInsert
    <3>1. task'[t] # Idle /\ task'[t].d \in Queued
          /\ task'[t].pc \in {"count", "evict", "delete", "look", "insert"}
      BY <2>2 DEF ToInsert, Idle
    <3>2. task[t].pc \in {"count", "evict", "delete", "look", "insert"}
      BY <1>3, <3>1, ServesTo DEF At
    <3> QED
      BY <2>1, <3>1, <3>2 DEF ToInsert
  <2>3. ToInsert' \subseteq ToInsert
    BY <2>1, <2>2 DEF ToInsert
  <2> QED
    BY <1>2, <1>3, <2>1, <2>3
<1>4. ASSUME NEW t \in Tasks, NEW d \in Deliveries, enqueue(t, d) \/ seen_claim(t, d)
      PROVE  PutsOK'
  <2>1. PICK pc \in {"count", "evict"} : Begin(t, d, pc)
    BY <1>4 DEF enqueue, seen_claim
  <2>2. task'[t].pc = pc /\ \A u \in Tasks : u # t => task'[u] = task[u]
    BY <2>1, Begins
  <2>3. requests' = requests + 1 /\ enqueued' = enqueued /\ t \notin ToInsert
    BY <2>1 DEF Begin, ToInsert, At
  <2>4. ToInsert' \subseteq ToInsert \cup {t} /\ ToInsert \cup {t} \subseteq Tasks
    BY <2>2 DEF ToInsert
  <2>5. Cardinality(ToInsert \cup {t}) = Cardinality(ToInsert) + 1
    BY <1>0, <2>3, FS_AddElement
  <2>6. Cardinality(ToInsert') \in Nat /\ Cardinality(ToInsert') <= Cardinality(ToInsert) + 1
    BY <2>4, <2>5, FewerTasks
  <2>7. Puts' = Puts
    BY <2>3 DEF Puts
  <2> QED
    BY <1>0, <2>3, <2>6, <2>7 DEF PutsOK
<1>5. CASE Drain \/ Kill
  <2>1. ToInsert' \subseteq ToInsert /\ requests' = requests /\ enqueued' = enqueued
    BY <1>5 DEF ToInsert, Drain, DrainWake, drain_one, DrainRecord, Kill, Idle
  <2>2. Cardinality(ToInsert') \in Nat /\ Cardinality(ToInsert') <= Cardinality(ToInsert)
    BY <2>1, FewerTasks DEF ToInsert
  <2>3. Puts' = Puts
    BY <2>1 DEF Puts
  <2> QED
    BY <1>0, <2>1, <2>2, <2>3 DEF PutsOK
<1>6. ASSUME NEW t \in Tasks, Serve(t), NEW u \in Tasks, InsertQueue(u), queue' # queue PROVE PutsOK'
  BY <1>1, <1>6
<1> QED
  BY <1>3, <1>4, <1>5, <1>6 DEF Next

\* The worker takes what it records, and only a kill takes it out of its hands.
LEMMA AccountedStep ==
    ASSUME TypeOK, LanesOK, PutsOK, Accounted, Next
    PROVE  Accounted'
<1> DEFINE hand == IF drain.pc = "record" THEN 1 ELSE 0
<1>0. /\ Len(queue) \in Nat /\ recorded \in Nat /\ unrecorded \in Nat /\ kills \in Nat
      /\ queue \in Seq(Queued)
      /\ Cardinality(Puts) \in Nat /\ hand \in Nat
  BY FS_CardinalityType DEF TypeOK, PutsOK
<1>1. Len(queue) + recorded + unrecorded + hand <= Cardinality(Puts)
      /\ Cardinality(Puts) <= Len(queue) + recorded + unrecorded + hand + kills
  BY DEF Accounted
<1>2. ASSUME NEW t \in Tasks, InsertQueue(t), queue' # queue PROVE Accounted'
  <2>1. queue' = Append(queue, task[t].d) /\ Cardinality(Puts') = Cardinality(Puts) + 1
    BY <1>2, OneMorePut
  <2>2. task[t].d \in Queued
    BY <1>2 DEF InsertQueue, LanesOK, At
  <2>3. Len(queue') = Len(queue) + 1
    BY <1>0, <2>1, <2>2
  <2>4. UNCHANGED <<recorded, unrecorded, drain, kills>>
    BY <1>2 DEF InsertQueue
  <2> QED
    BY <1>0, <1>1, <2>1, <2>3, <2>4 DEF Accounted
<1>3. ASSUME ~(\E t \in Tasks : InsertQueue(t) /\ queue' # queue) PROVE Accounted'
  <2>0. Puts' = Puts
    BY <1>3, NoMorePuts
  <2>1. CASE drain_one
    <3>1. drain.pc = "pop" /\ UNCHANGED <<recorded, unrecorded, kills>>
      BY <2>1 DEF drain_one
    <3>2. CASE queue = <<>>
      <4>1. queue' = queue /\ drain'.pc = "asleep"
        BY <2>1, <3>2 DEF drain_one, Asleep
      <4> QED
        BY <1>0, <1>1, <2>0, <3>1, <4>1 DEF Accounted
    <3>3. CASE queue # <<>>
      <4>1. queue' = Tail(queue) /\ drain'.pc = "record"
        BY <2>1, <3>3 DEF drain_one
      <4>2. Len(queue') = Len(queue) - 1 /\ hand = 0 /\ hand' = 1
        BY <1>0, <3>1, <3>3, <4>1
      <4>3. Len(queue') + recorded' + unrecorded' + hand' = Len(queue) + recorded + unrecorded + hand
        BY <1>0, <3>1, <4>2
      <4>4. Len(queue') + recorded' + unrecorded' + hand' <= Cardinality(Puts')
            /\ Cardinality(Puts') <= Len(queue') + recorded' + unrecorded' + hand' + kills'
        BY <1>0, <1>1, <2>0, <3>1, <4>3
      <4> QED
        BY <4>4 DEF Accounted
    <3> QED
      BY <3>2, <3>3
  <2>2. CASE DrainWake
    <3>1. drain.pc = "asleep" /\ drain'.pc = "pop" /\ UNCHANGED <<queue, recorded, unrecorded, kills>>
      BY <2>2 DEF DrainWake, TypeOK
    <3> QED
      BY <1>0, <1>1, <2>0, <3>1 DEF Accounted
  <2>3. CASE DrainRecord
    <3>1. drain.pc = "record" /\ drain'.pc = "pop" /\ UNCHANGED <<queue, kills>>
          /\ \/ recorded' = recorded + 1 /\ unrecorded' = unrecorded
             \/ unrecorded' = unrecorded + 1 /\ recorded' = recorded
      BY <2>3 DEF DrainRecord, Asleep
    <3> QED
      BY <1>0, <1>1, <2>0, <3>1 DEF Accounted
  <2>4. CASE Kill
    <3>1. kills' = kills + 1 /\ drain'.pc = "asleep" /\ UNCHANGED <<queue, recorded, unrecorded>>
      BY <2>4 DEF Kill, Asleep
    <3> QED
      BY <1>0, <1>1, <2>0, <3>1 DEF Accounted
  <2>5. CASE UNCHANGED <<queue, recorded, unrecorded, drain, kills>>
    BY <1>1, <2>0, <2>5 DEF Accounted
  <2>6. ASSUME NEW t \in Tasks, Serve(t) PROVE UNCHANGED <<queue, recorded, unrecorded, drain, kills>>
    BY <1>3, <2>6 DEF Serve, CountQueue, EvictCount, EvictDelete, EvictFailed, LookSeen,
       LookFailed, InsertQueue, ClaimQueued, ClaimFailed, ClaimDirect, Act, ActRefused
  <2>7. ASSUME NEW t \in Tasks, NEW d \in Deliveries, enqueue(t, d) \/ seen_claim(t, d)
        PROVE  UNCHANGED <<queue, recorded, unrecorded, drain, kills>>
    BY <2>7 DEF enqueue, seen_claim, Begin
  <2> QED
    BY <2>1, <2>2, <2>3, <2>4, <2>5, <2>6, <2>7 DEF Next, Drain
<1> QED
  BY <1>2, <1>3

-----------------------------------------------------------------------------
(* The theorems *)

\* A store in use satisfies the invariant.
LEMMA WebhookInit ==
    ASSUME Init PROVE TypeOK /\ WebhookInv
<1>0. /\ Cardinality(Tasks) \in Nat /\ QueueMax \in Nat \ {0}
      /\ SeenMax \in Nat /\ SeenEvict \in Nat /\ MaxRequests \in Nat /\ MaxKills \in Nat
  BY WebhookAssumption, FS_CardinalityType
<1>1. /\ queue = <<>> /\ claims = seen /\ task = [t \in Tasks |-> Idle] /\ drain = Asleep
      /\ enqueued = [d \in Deliveries |-> 0] /\ acted = [d \in Deliveries |-> 0]
      /\ recorded = 0 /\ unrecorded = 0 /\ blind = {} /\ answered = {} /\ duplicate = {} /\ evicted = {}
      /\ requests = 0 /\ kills = 0
  BY DEF Init
<1>2. seen \in Seq(Deliveries \cup Past)
  <2>1. seen \in Seq(Past)
    BY WebhookAssumption DEF Init
  <2> QED
    BY <2>1
<1>3. TypeOK
  <2>1. task \in [Tasks -> TaskType]
    BY <1>1 DEF Idle, TaskType
  <2>2. drain \in [pc : {"asleep", "pop", "record"}, d : Queued \cup {NoDelivery}]
    BY <1>1 DEF Asleep
  <2> QED
    BY <1>0, <1>1, <1>2, <2>1, <2>2 DEF TypeOK
<1>4. \A t \in Tasks : task[t].pc = "idle" /\ ~task[t].replay
  BY <1>1 DEF Idle
<1>5. LanesOK
  BY <1>1, <1>4 DEF LanesOK, At, Asleep
<1>6. ClaimsOK
  <2>1. \A d \in Direct : acted[d] = 0
    BY <1>1 DEF Deliveries
  <2> QED
    BY <1>1, <1>4, <2>1 DEF ClaimsOK, At, Acting
<1>7. ReplaysOK
  BY <1>4 DEF ReplaysOK
<1>8. RoomFound = {} /\ Deleting = {} /\ ToInsert = {} /\ Puts = {}
  <2>1. RoomFound = {} /\ Deleting = {} /\ ToInsert = {}
    BY <1>4 DEF RoomFound, Deleting, ToInsert, At
  <2>2. \A d \in Queued : enqueued[d] = 0
    BY <1>1 DEF Deliveries
  <2> QED
    BY <1>0, <2>1, <2>2 DEF Puts
<1>9. RoomOK
  <2>1. Len(queue) = 0
    BY <1>1
  <2> QED
    BY <1>0, <1>8, <2>1, FS_EmptySet DEF RoomOK
<1>10. EvictionOK
  <2>1. Len(seen) \in Nat
    BY <1>2
  <2> QED
    BY <1>1, <1>8, <2>1 DEF EvictionOK
<1>11. PutsOK
  <2>1. \A d \in Queued : enqueued[d] = 0
    BY <1>1 DEF Deliveries
  <2> QED
    BY <1>0, <1>1, <1>8, <2>1, FS_EmptySet DEF PutsOK
<1>12. Accounted
  <2>1. Len(queue) = 0 /\ drain.pc = "asleep"
    BY <1>1 DEF Asleep
  <2> QED
    BY <1>1, <1>8, <2>1, FS_EmptySet DEF Accounted
<1> QED
  BY <1>3, <1>5, <1>6, <1>7, <1>9, <1>10, <1>11, <1>12 DEF WebhookInv

\* ... and every step keeps it.
LEMMA WebhookStep ==
    ASSUME TypeOK, WebhookInv, [Next]_vars
    PROVE  TypeOK' /\ WebhookInv'
<1>1. CASE Next
  BY <1>1, TypeStep, LanesStep, ClaimsStep, ReplaysStep, RoomStep, EvictionStep, PutsStep,
     AccountedStep DEF WebhookInv
<1>2. CASE UNCHANGED vars
  BY <1>2 DEF vars, TypeOK, WebhookInv, LanesOK, ClaimsOK, ReplaysOK, RoomOK, EvictionOK, PutsOK,
     Accounted, Claimed, Acting, At, RoomFound, Deleting, ToInsert, Puts
<1> QED
  BY <1>1, <1>2

\* The invariant holds in every reachable state.
THEOREM WebhookInvariant == Spec => [](TypeOK /\ WebhookInv)
<1>1. Init => TypeOK /\ WebhookInv
  BY WebhookInit
<1>2. (TypeOK /\ WebhookInv) /\ [Next]_vars => (TypeOK /\ WebhookInv)'
  BY WebhookStep
<1> QED
  BY <1>1, <1>2, PTL DEF Spec

\* The count of enqueue is no lock: the queue may exceed WEBHOOK_QUEUE_MAX, by at
\* most one row less than there are requests at a time.
THEOREM QueueBoundedHolds == Spec => []QueueBounded
<1>1. TypeOK /\ WebhookInv => QueueBounded
  <2> SUFFICES ASSUME TypeOK, RoomOK PROVE QueueBounded
    BY DEF WebhookInv
  <2>1. Len(queue) \in Nat /\ Cardinality(RoomFound) \in Nat /\ Cardinality(Tasks) \in Nat
        /\ QueueMax \in Nat
    BY WebhookAssumption, SomeTasks DEF TypeOK, RoomFound
  <2> QED
    BY <2>1 DEF RoomOK, QueueBounded
<1> QED
  BY <1>1, WebhookInvariant, PTL

\* A delivery that was answered as accepted is not queued and not acted on again
\* by a later request, unless its claim was evicted or that request could not read
\* webhook_seen.
THEOREM ReplayRefusedHolds == Spec => []ReplayRefused
<1>1. TypeOK /\ WebhookInv => ReplayRefused
  BY DEF WebhookInv, ReplaysOK, ReplayRefused
<1> QED
  BY <1>1, WebhookInvariant, PTL

\* The insert of seen_claim decides between any number of concurrent requests,
\* retries and kills: a direct lane acts at most once while the claim is kept.
THEOREM ActedOnceHolds == Spec => []ActedOnce
<1>1. TypeOK /\ WebhookInv => ActedOnce
  <2> SUFFICES ASSUME TypeOK, ClaimsOK PROVE ActedOnce
    BY DEF WebhookInv
  <2>1. \A d \in Direct : acted[d] \in Nat
    BY DEF TypeOK, Deliveries
  <2> QED
    BY <2>1 DEF ClaimsOK, ActedOnce
<1> QED
  BY <1>1, WebhookInvariant, PTL

\* Requests that all counted the same overflow each delete their share, and the
\* claims beyond those shares, the newest, are still there.
THEOREM NewestKeptHolds == Spec => []NewestKept
<1>1. TypeOK /\ WebhookInv => NewestKept
  <2> SUFFICES ASSUME TypeOK, EvictionOK PROVE NewestKept
    BY DEF WebhookInv
  <2> DEFINE k == SeenMax + 1 - Cardinality(Tasks) * SeenEvict
  <2>0. DOMAIN claims = 1 .. Len(claims) /\ DOMAIN seen = 1 .. Len(seen)
    BY DEF TypeOK
  <2>1. k \in Int /\ Len(seen) \in Nat /\ Len(claims) \in Nat
    <3>1. Cardinality(Tasks) \in Nat /\ SeenEvict \in Nat /\ SeenMax \in Nat
      BY WebhookAssumption, FS_CardinalityType
    <3>2. Cardinality(Tasks) * SeenEvict \in Nat
      BY <3>1, Shares
    <3> QED
      BY <3>1, <3>2 DEF TypeOK
  <2>2. Len(seen) <= Len(claims) /\ (Len(seen) = Len(claims) \/ Len(seen) >= k)
    BY DEF EvictionOK
  <2> HIDE DEF k
  <2>3. ASSUME NEW i \in DOMAIN claims, i > Len(claims) - k PROVE InSeq(seen, claims[i])
    <3> DEFINE j == i - (Len(claims) - Len(seen))
    <3>0. i \in 1 .. Len(claims)
      BY <2>0, <2>3
    <3>1. j \in 1 .. Len(seen) /\ Len(claims) - Len(seen) + j = i
      BY <2>1, <2>2, <2>3, <3>0
    <3>2. seen[j] = claims[Len(claims) - Len(seen) + j]
      BY <3>1 DEF EvictionOK
    <3> QED
      BY <2>0, <3>1, <3>2 DEF InSeq
  <2> QED
    BY <2>3 DEF NewestKept, k
<1> QED
  BY <1>1, WebhookInvariant, PTL

\* What enqueue put into the queue is popped once: it is queued, in the worker's
\* hands, recorded as drained or drained with its audit row failed, but for at most
\* one delivery a kill.
THEOREM AccountedHolds == Spec => []Accounted
<1>1. TypeOK /\ WebhookInv => Accounted
  BY DEF WebhookInv
<1> QED
  BY <1>1, WebhookInvariant, PTL
=============================================================================
