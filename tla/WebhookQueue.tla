---------------------------- MODULE WebhookQueue ----------------------------
(***************************************************************************)
(* The webhook queue.  A verified delivery is either queued for the drain  *)
(* worker (enqueue) or claimed and acted on by the request itself          *)
(* (seen_claim: Signal commands, kb feedback, channel messages).  Replays  *)
(* are told by the claims of webhook_seen, a table bounded by count.       *)
(* Every statement of a request commits by itself on a pooled connection,  *)
(* so the steps of several requests, of the worker and of a kill of the    *)
(* server interleave.  A delivery is its hash: the signed key that         *)
(* ClaimKey chooses.                                                       *)
(***************************************************************************)
EXTENDS Integers, FiniteSets, Sequences

CONSTANTS
    Queued,       \* deliveries of the queue's lane
    Direct,       \* deliveries of the lanes that act at once
    PastClaims,   \* the claims of earlier deliveries, by rowid
    Tasks,        \* requests served at a time
    QueueMax,     \* WEBHOOK_QUEUE_MAX
    SeenMax,      \* WEBHOOK_SEEN_MAX
    SeenEvict,    \* WEBHOOK_SEEN_EVICT
    MaxRequests,  \* bound: the requests of a behaviour
    MaxKills      \* bound: the server kills of a behaviour

Past == {PastClaims[i] : i \in DOMAIN PastClaims}

ASSUME WebhookAssumption ==
    /\ Queued \cap Direct = {} /\ Past \cap (Queued \cup Direct) = {}
    /\ IsFiniteSet(Tasks) /\ PastClaims \in Seq(Past)
    /\ \A i, j \in DOMAIN PastClaims : PastClaims[i] = PastClaims[j] => i = j
    /\ QueueMax \in Nat \ {0} /\ SeenMax \in Nat \ {0} /\ SeenEvict \in Nat \ {0}
    /\ MaxRequests \in Nat /\ MaxKills \in Nat

Deliveries == Queued \cup Direct
NoDelivery == "none"

VARIABLES
    queue,      \* webhook_queue, by id
    seen,       \* webhook_seen, by rowid
    task,       \* the requests: their next statement and their delivery
    drain,      \* the worker: asleep, popping, or holding a popped delivery
    enqueued,   \* history: delivery -> the times it was put into the queue
    acted,      \* history: delivery -> the times a direct lane acted on it
    recorded,   \* history: the number of "drained" audit rows
    unrecorded, \* history: the drained deliveries whose audit row failed
    blind,      \* history: the requests whose look at webhook_seen failed
    claims,     \* history: every claim taken, in order
    answered,   \* history: deliveries answered as accepted
    duplicate,  \* history: deliveries a direct lane answered as a duplicate
    evicted,    \* history: deliveries whose claim was evicted
    requests, kills

vars == <<queue, seen, task, drain, enqueued, acted, recorded, unrecorded, blind, claims,
          answered, duplicate, evicted, requests, kills>>

InSeq(s, d) == \E i \in DOMAIN s : s[i] = d

Idle == [pc |-> "idle", d |-> NoDelivery, replay |-> FALSE]
Asleep == [pc |-> "asleep", d |-> NoDelivery]

At(t, pc) == task[t].pc = pc
Goto(t, pc) == task' = [task EXCEPT ![t].pc = pc]
Finish(t) == task' = [task EXCEPT ![t] = Idle]

-----------------------------------------------------------------------------
(* The two doors: enqueue begins with the count of the queue, seen_claim   *)
(* with the eviction.  `replay` remembers that this delivery had been      *)
(* accepted before the request began.                                      *)

Begin(t, d, pc) ==
    /\ At(t, "idle") /\ requests < MaxRequests
    /\ requests' = requests + 1
    /\ task' = [task EXCEPT ![t] = [pc |-> pc, d |-> d, replay |-> d \in answered]]
    /\ blind' = blind \ {t}
    /\ UNCHANGED <<queue, seen, drain, enqueued, acted, recorded, unrecorded, claims,
                   answered, duplicate, evicted, kills>>

enqueue(t, d) == d \in Queued /\ Begin(t, d, "count")
seen_claim(t, d) == d \in Direct /\ Begin(t, d, "evict")

\* Mutant: the bound is checked one row late.
CountQueue_Late(t) ==
    /\ At(t, "count")
    /\ IF Len(queue) > QueueMax THEN Finish(t) ELSE Goto(t, "evict")
    /\ UNCHANGED <<queue, seen, drain, enqueued, acted, recorded, unrecorded, blind, claims,
                   answered, duplicate, evicted, requests, kills>>

\* SELECT COUNT(*) FROM webhook_queue: the answer is Full, or the request goes on.
CountQueue(t) ==
    /\ At(t, "count")
    /\ IF Len(queue) >= QueueMax THEN Finish(t) ELSE Goto(t, "evict")
    /\ UNCHANGED <<queue, seen, drain, enqueued, acted, recorded, unrecorded, blind, claims,
                   answered, duplicate, evicted, requests, kills>>

AfterEvict(t) == IF task[t].d \in Queued THEN "look" ELSE "take"

\* evict_webhook_seen counts the claims ...
EvictCount(t) ==
    /\ At(t, "evict")
    /\ Goto(t, IF Len(seen) > SeenMax THEN "delete" ELSE AfterEvict(t))
    /\ UNCHANGED <<queue, seen, drain, enqueued, acted, recorded, unrecorded, blind, claims,
                   answered, duplicate, evicted, requests, kills>>

\* Mutant: ORDER BY rowid DESC, the newest claims go.
EvictDelete_Newest(t) ==
    LET kept == SubSeq(seen, 1, Len(seen) - SeenEvict)
    IN  /\ At(t, "delete")
        /\ seen' = kept
        /\ evicted' = evicted \cup {d \in Deliveries : InSeq(seen, d) /\ ~InSeq(kept, d)}
        /\ Goto(t, AfterEvict(t))
        /\ UNCHANGED <<queue, drain, enqueued, acted, recorded, unrecorded, blind, claims,
                       answered, duplicate, requests, kills>>

\* ... and deletes the oldest, by what it counted.
EvictDelete(t) ==
    LET kept == SubSeq(seen, SeenEvict + 1, Len(seen))
    IN  /\ At(t, "delete")
        /\ seen' = kept
        /\ evicted' = evicted \cup {d \in Deliveries : InSeq(seen, d) /\ ~InSeq(kept, d)}
        /\ Goto(t, AfterEvict(t))
        /\ UNCHANGED <<queue, drain, enqueued, acted, recorded, unrecorded, blind, claims,
                       answered, duplicate, requests, kills>>

\* A count that cannot be read is zero, and a delete that fails is only logged:
\* either way the request goes on with nothing evicted.
EvictFailed(t) ==
    /\ task[t].pc \in {"evict", "delete"}
    /\ Goto(t, AfterEvict(t))
    /\ UNCHANGED <<queue, seen, drain, enqueued, acted, recorded, unrecorded, blind, claims,
                   answered, duplicate, evicted, requests, kills>>

\* SELECT 1 FROM webhook_seen: a claim makes it a duplicate, answered at once.
LookSeen(t) ==
    /\ At(t, "look")
    /\ IF InSeq(seen, task[t].d) THEN Finish(t) ELSE Goto(t, "insert")
    /\ UNCHANGED <<queue, seen, drain, enqueued, acted, recorded, unrecorded, blind, claims,
                   answered, duplicate, evicted, requests, kills>>

\* The look fails, and unwrap_or(false) takes the error for "not seen".
LookFailed(t) ==
    /\ At(t, "look")
    /\ blind' = blind \cup {t}
    /\ Goto(t, "insert")
    /\ UNCHANGED <<queue, seen, drain, enqueued, acted, recorded, unrecorded, claims, answered,
                   duplicate, evicted, requests, kills>>

\* INSERT OR IGNORE INTO webhook_queue: UNIQUE(delivery_hash) tells what is
\* still queued.  Both outcomes are recorded before the answer.
InsertQueue(t) ==
    LET d == task[t].d
    IN  /\ At(t, "insert")
        /\ IF InSeq(queue, d)
           THEN Finish(t) /\ UNCHANGED <<queue, enqueued>>
           ELSE /\ queue' = Append(queue, d)
                /\ enqueued' = [enqueued EXCEPT ![d] = @ + 1]
                /\ Goto(t, "claim")
        /\ UNCHANGED <<seen, drain, acted, recorded, unrecorded, blind, claims, answered,
                       duplicate, evicted, requests, kills>>

\* INSERT OR IGNORE INTO webhook_seen
TakeClaim(d) ==
    IF InSeq(seen, d) THEN UNCHANGED <<seen, claims>>
    ELSE seen' = Append(seen, d) /\ claims' = Append(claims, d)

\* Mutant: the claim after the queue insert is forgotten.
ClaimQueued_None(t) ==
    /\ At(t, "claim")
    /\ answered' = answered \cup {task[t].d}
    /\ Finish(t)
    /\ UNCHANGED <<queue, seen, drain, enqueued, acted, recorded, unrecorded, blind, claims,
                   duplicate, evicted, requests, kills>>

ClaimQueued(t) ==
    /\ At(t, "claim")
    /\ TakeClaim(task[t].d)
    /\ answered' = answered \cup {task[t].d}
    /\ Finish(t)
    /\ UNCHANGED <<queue, drain, enqueued, acted, recorded, unrecorded, blind, duplicate,
                   evicted, requests, kills>>

\* The claim cannot be written: the delivery is queued, the answer is an error.
ClaimFailed(t) ==
    /\ At(t, "claim")
    /\ Finish(t)
    /\ UNCHANGED <<queue, seen, drain, enqueued, acted, recorded, unrecorded, blind, claims,
                   answered, duplicate, evicted, requests, kills>>

\* Mutant: the claim is looked up, and taken whatever was found.
ClaimDirect_Blind(t) ==
    /\ At(t, "take")
    /\ TakeClaim(task[t].d)
    /\ Goto(t, "act")
    /\ UNCHANGED <<queue, drain, enqueued, acted, recorded, unrecorded, blind, answered,
                   duplicate, evicted, requests, kills>>

\* The claim of a direct lane: the insert tells first sight from replay.
ClaimDirect(t) ==
    /\ At(t, "take")
    /\ TakeClaim(task[t].d)
    /\ IF InSeq(seen, task[t].d)
       THEN Finish(t) /\ duplicate' = duplicate \cup {task[t].d}
       ELSE Goto(t, "act") /\ UNCHANGED duplicate
    /\ UNCHANGED <<queue, drain, enqueued, acted, recorded, unrecorded, blind, answered,
                   evicted, requests, kills>>

\* The lane lands the message, the feedback or the command in one transaction.
Act(t) ==
    /\ At(t, "act")
    /\ acted' = [acted EXCEPT ![task[t].d] = @ + 1]
    /\ answered' = answered \cup {task[t].d}
    /\ Finish(t)
    /\ UNCHANGED <<queue, seen, drain, enqueued, recorded, unrecorded, blind, claims,
                   duplicate, evicted, requests, kills>>

\* The hourly bound is reached (503), or the transaction is refused: nothing is
\* done, and the claim stays.
ActRefused(t) ==
    /\ At(t, "act")
    /\ Finish(t)
    /\ UNCHANGED <<queue, seen, drain, enqueued, acted, recorded, unrecorded, blind, claims,
                   answered, duplicate, evicted, requests, kills>>

-----------------------------------------------------------------------------
(* The worker *)

DrainWake ==
    /\ drain.pc = "asleep"
    /\ drain' = [drain EXCEPT !.pc = "pop"]
    /\ UNCHANGED <<queue, seen, task, enqueued, acted, recorded, unrecorded, blind, claims,
                   answered, duplicate, evicted, requests, kills>>

\* Mutant: the last row is left for the next pass, for ever.
drain_one_Last ==
    /\ drain.pc = "pop"
    /\ IF Len(queue) < 2
       THEN drain' = Asleep /\ UNCHANGED queue
       ELSE drain' = [pc |-> "record", d |-> Head(queue)] /\ queue' = Tail(queue)
    /\ UNCHANGED <<seen, task, enqueued, acted, recorded, unrecorded, blind, claims,
                   answered, duplicate, evicted, requests, kills>>

\* Mutant: the DELETE is not committed with the SELECT.
drain_one_Keep ==
    /\ drain.pc = "pop" /\ queue # <<>>
    /\ drain' = [pc |-> "record", d |-> Head(queue)]
    /\ UNCHANGED <<queue, seen, task, enqueued, acted, recorded, unrecorded, blind, claims,
                   answered, duplicate, evicted, requests, kills>>

\* The oldest row is read and deleted in one transaction; none: back to sleep.
drain_one ==
    /\ drain.pc = "pop"
    /\ IF queue = <<>>
       THEN drain' = Asleep /\ UNCHANGED queue
       ELSE drain' = [pc |-> "record", d |-> Head(queue)] /\ queue' = Tail(queue)
    /\ UNCHANGED <<seen, task, enqueued, acted, recorded, unrecorded, blind, claims,
                   answered, duplicate, evicted, requests, kills>>

\* audit::record is best effort: its row is written, or the failure is ignored.
DrainRecord ==
    /\ drain.pc = "record"
    /\ \/ recorded' = recorded + 1 /\ UNCHANGED unrecorded
       \/ unrecorded' = unrecorded + 1 /\ UNCHANGED recorded
    /\ drain' = [Asleep EXCEPT !.pc = "pop"]
    /\ UNCHANGED <<queue, seen, task, enqueued, acted, blind, claims, answered, duplicate,
                   evicted, requests, kills>>

Kill ==
    /\ kills < MaxKills /\ kills' = kills + 1
    /\ task' = [t \in Tasks |-> Idle] /\ drain' = Asleep
    /\ UNCHANGED <<queue, seen, enqueued, acted, recorded, unrecorded, blind, claims,
                   answered, duplicate, evicted, requests>>

-----------------------------------------------------------------------------
\* A store in use, with the claims of earlier deliveries.
Init == /\ queue = <<>>
        /\ seen = PastClaims /\ claims = PastClaims
        /\ task = [t \in Tasks |-> Idle] /\ drain = Asleep
        /\ enqueued = [d \in Deliveries |-> 0] /\ acted = [d \in Deliveries |-> 0]
        /\ recorded = 0 /\ unrecorded = 0 /\ blind = {}
        /\ answered = {} /\ duplicate = {} /\ evicted = {}
        /\ requests = 0 /\ kills = 0

Serve(t) ==
    \/ CountQueue(t) \/ EvictCount(t) \/ EvictDelete(t) \/ EvictFailed(t)
    \/ LookSeen(t) \/ LookFailed(t) \/ InsertQueue(t) \/ ClaimQueued(t)
    \/ ClaimFailed(t) \/ ClaimDirect(t) \/ Act(t) \/ ActRefused(t)

Drain == DrainWake \/ drain_one \/ DrainRecord

Next ==
    \/ \E t \in Tasks : (\E d \in Deliveries : enqueue(t, d) \/ seen_claim(t, d)) \/ Serve(t)
    \/ Drain \/ Kill

\* The worker is a loop that only ever sleeps for two seconds; nothing makes a
\* request go on, since its client may go away.
Spec == Init /\ [][Next]_vars /\ WF_vars(Drain)

-----------------------------------------------------------------------------
(* What the queue promises *)

TaskType == [pc : {"idle", "count", "evict", "delete", "look", "insert", "claim", "take", "act"},
             d : Deliveries \cup {NoDelivery}, replay : BOOLEAN]

\* Every variable holds a value of its kind.
TypeOK ==
    /\ queue \in Seq(Queued)
    /\ seen \in Seq(Deliveries \cup Past) /\ claims \in Seq(Deliveries \cup Past)
    /\ task \in [Tasks -> TaskType]
    /\ drain \in [pc : {"asleep", "pop", "record"}, d : Queued \cup {NoDelivery}]
    /\ enqueued \in [Deliveries -> Nat] /\ acted \in [Deliveries -> Nat]
    /\ recorded \in Nat /\ unrecorded \in Nat /\ blind \subseteq Tasks
    /\ answered \subseteq Deliveries /\ duplicate \subseteq Direct
    /\ evicted \subseteq Deliveries
    /\ requests \in 0 .. MaxRequests /\ kills \in 0 .. MaxKills

\* The bound of the queue holds up to the requests that passed the count
\* together: it is exceeded by one row less than there are requests at a time.
QueueBounded == Len(queue) <= QueueMax + Cardinality(Tasks) - 1

\* Once a delivery was answered as accepted, no later request puts it into the
\* queue again or acts on it again, unless its claim was evicted or that very
\* request could not read webhook_seen.  (A delivery the worker drained before
\* its claim was written is not answered yet; see EnqueuedOnce.)
ReplayRefused ==
    \A t \in Tasks :
        (task[t].replay /\ task[t].pc \in {"claim", "act"}) =>
            task[t].d \in evicted \/ t \in blind

\* A direct lane acts on a delivery at most once, whatever requests, retries and
\* kills there are, unless its claim was evicted.
ActedOnce == \A d \in Direct : acted[d] > 1 => d \in evicted

\* The newest claims survive requests that evict together, by a count that is no
\* longer true: each of them takes one share from what it counted.  It promises
\* something while the shares of all requests at a time stay below SeenMax + 1,
\* up to four of them with the code's 4096 and 1024.
NewestKept ==
    LET k == SeenMax + 1 - Cardinality(Tasks) * SeenEvict
    IN  \A i \in DOMAIN claims : i > Len(claims) - k => InSeq(seen, claims[i])

\* Every time a delivery was put into the queue: the n-th of delivery d.
Puts == {x \in Queued \X (1 .. MaxRequests) : x[2] <= enqueued[x[1]]}

\* Every delivery put into the queue is popped once: it is still queued, in the
\* worker's hands, recorded as drained or drained with its audit row failed, but
\* for at most one delivery a kill.  No "drained" row stands for no delivery.
Accounted ==
    LET total == Cardinality(Puts)
        held  == Len(queue) + recorded + unrecorded + (IF drain.pc = "record" THEN 1 ELSE 0)
    IN  held <= total /\ total <= held + kills

-----------------------------------------------------------------------------
(* An inductive invariant                                                  *)

Claimed(d) == InSeq(seen, d) \/ d \in evicted
Acting(t, d) == At(t, "act") /\ task[t].d = d

\* A request keeps to its lane, and what it replays was answered.
LanesOK ==
    /\ \A t \in Tasks :
          /\ task[t].pc \in {"count", "look", "insert", "claim"} => task[t].d \in Queued
          /\ task[t].pc \in {"take", "act"} => task[t].d \in Direct
          /\ ~At(t, "idle") => task[t].d \in Deliveries
          /\ task[t].replay => task[t].d \in answered
    /\ drain.pc = "record" => drain.d \in Queued

\* Nothing is answered or acted on without a claim, and a claim that was never
\* evicted is acted on by one request, once.
ClaimsOK ==
    /\ \A d \in answered : Claimed(d)
    /\ \A t \in Tasks : At(t, "act") => Claimed(task[t].d)
    /\ \A d \in Direct :
          /\ acted[d] > 0 => Claimed(d)
          /\ d \notin evicted =>
                /\ acted[d] <= 1
                /\ \A t \in Tasks : Acting(t, d) => acted[d] = 0
                /\ \A t, u \in Tasks : (Acting(t, d) /\ Acting(u, d)) => t = u

\* A replay gets past the look only when its claim is gone or the look failed.
ReplaysOK ==
    \A t \in Tasks :
        (task[t].replay /\ task[t].pc \in {"insert", "claim", "act"}) =>
            task[t].d \in evicted \/ t \in blind

\* Requests that found room in the queue and have not used it yet.
RoomFound == {t \in Tasks : task[t].d \in Queued
                            /\ task[t].pc \in {"evict", "delete", "look", "insert"}}
RoomOK == Len(queue) + Cardinality(RoomFound) <= QueueMax + Cardinality(Tasks) - 1

\* Requests that have counted too many claims and not deleted their share yet.
Deleting == {t \in Tasks : At(t, "delete")}

\* The claims kept are the newest ones; those about to be deleted were counted.
EvictionOK ==
    /\ Len(seen) <= Len(claims)
    /\ \A i \in 1 .. Len(seen) : seen[i] = claims[Len(claims) - Len(seen) + i]
    /\ Deleting # {} =>
          Len(seen) >= SeenMax + 1 - (Cardinality(Tasks) - Cardinality(Deleting)) * SeenEvict
    /\ \/ Len(seen) = Len(claims)
       \/ Len(seen) >= SeenMax + 1 - Cardinality(Tasks) * SeenEvict

\* Requests that may still put their delivery into the queue.
ToInsert == {t \in Tasks : task[t].d \in Queued
                           /\ task[t].pc \in {"count", "evict", "delete", "look", "insert"}}

\* Each request puts at most one delivery into the queue.
PutsOK ==
    /\ IsFiniteSet(Puts)
    /\ \A d \in Queued : enqueued[d] <= MaxRequests
    /\ Cardinality(Puts) + Cardinality(ToInsert) <= requests

WebhookInv == LanesOK /\ ClaimsOK /\ ReplaysOK /\ RoomOK /\ EvictionOK /\ PutsOK /\ Accounted

-----------------------------------------------------------------------------
\* Whatever is queued is drained.
QueueDrains == \A d \in Queued : InSeq(queue, d) ~> ~InSeq(queue, d)

\* handlers/webhooks.rs: "503 = back off; the relay retries later".  A retry that
\* is answered as a duplicate is one of a delivery that was acted on, or is
\* being acted on.
DuplicateWasDone ==
    \A d \in duplicate :
        acted[d] > 0 \/ \E t \in Tasks : task[t].d = d /\ task[t].pc = "act"

\* webhook.rs: "a replay [...] is a `Duplicate` no-op for as long as its claim row
\* survives eviction".
EnqueuedOnce == \A d \in Queued : enqueued[d] > 1 => d \in evicted
=============================================================================
