------------------------------ MODULE EventFeed ------------------------------
(***************************************************************************)
(* How a committed workflow event reaches a watching client: the drain     *)
(* worker of alert.rs marks it delivered and publishes it on the broadcast *)
(* bus; GET /events subscribes a client to the bus, after replaying the    *)
(* stored rows past the Last-Event-ID it sends; and the client (main.rs of *)
(* client/) keeps the largest id it has seen as that cursor, reconnecting  *)
(* for ever.  Every registered domain is a database with an outbox of its  *)
(* own, whose ids start at 1; an event is a <<domain, id>> pair.           *)
(***************************************************************************)
EXTENDS Integers, FiniteSets, Sequences

CONSTANTS
    NumDomains,    \* known_domains: 1 .. NumDomains, in the registry's order
    MaxId,         \* bound: the largest outbox id of a domain
    Batch,         \* WORKFLOW_DRAIN_BATCH: rows per drain pass and per replay
    Buffer,        \* ALERT_EVENT_BUFFER: what a lagging receiver may miss beyond
    MaxDrops,      \* bound: the connections lost in a behaviour
    MaxCrashes,    \* bound: the server kills of a behaviour
    DeliverFails,  \* may deliver fail (the write lock held past busy_timeout)?
    ReplayFails    \* may a replay find no connection, or its query fail?

ASSUME FeedAssumption ==
    /\ NumDomains \in Nat \ {0} /\ MaxId \in Nat /\ Batch \in Nat \ {0} /\ Buffer \in Nat \ {0}
    /\ MaxDrops \in Nat /\ MaxCrashes \in Nat
    /\ DeliverFails \in BOOLEAN /\ ReplayFails \in BOOLEAN

VARIABLES
    status,    \* per domain, its drained rows: id -> "pending" or "delivered"
    drain,     \* the worker: asleep or in a pass, its rows, the one to publish
    sub,       \* the client's connection: replayed rows to send, then the bus
    client,    \* what the client keeps: its cursor, and the events it has shown
    late,      \* history: events whose delivery failed at least once
    skipped,   \* history: events the bus dropped, or a replay left out
    drops,     \* connections lost so far
    crashes    \* server kills so far

vars == <<status, drain, sub, client, late, skipped, drops, crashes>>

Domains == 1 .. NumDomains
Ids(d) == DOMAIN status[d]
Stored == {e \in Domains \X (1 .. MaxId) : e[2] \in Ids(e[1])}
Pending(d) == {i \in Ids(d) : status[d][i] = "pending"}

None == 0
NoEvent == <<0, 0>>

\* The order in which the worker and the replay go through events.
Before(e, f) == e[1] < f[1] \/ (e[1] = f[1] /\ e[2] < f[2])
IsLeast(S, e) == e \in S /\ \A f \in S : f = e \/ Before(e, f)

\* ORDER BY id ASC LIMIT n, in domain d
FirstIds(d, S, n) == {<<d, i>> : i \in {i \in S : Cardinality({k \in S : k < i}) < n}}

Asleep == [pc |-> "asleep", dom |-> 1, todo |-> {}, cur |-> NoEvent]
Closed == [pc |-> "closed", dom |-> 1, prelude |-> {}, queue |-> <<>>]

-----------------------------------------------------------------------------
(* The server *)

\* A workflow/* or case/* row commits (the writers are those of Outbox).
Commit(d) ==
    /\ Len(status[d]) < MaxId
    /\ status' = [status EXCEPT ![d] = Append(@, "pending")]
    /\ UNCHANGED <<drain, sub, client, late, skipped, drops, crashes>>

\* The worker wakes up, every two seconds.
DrainWake ==
    /\ drain.pc = "asleep"
    /\ drain' = [Asleep EXCEPT !.pc = "select"]
    /\ UNCHANGED <<status, sub, client, late, skipped, drops, crashes>>

\* Mutant: the LIMIT is taken before the status filter.
DrainSelect_LimitFirst ==
    /\ drain.pc = "select"
    /\ drain' = [drain EXCEPT !.pc = "pass",
                    !.todo = FirstIds(drain.dom, Ids(drain.dom), Batch)
                               \cap FirstIds(drain.dom, Pending(drain.dom), Batch)]
    /\ UNCHANGED <<status, sub, client, late, skipped, drops, crashes>>

\* drain_workflow_events, one domain after the other: the pending rows this
\* pass will go through.
DrainSelect ==
    /\ drain.pc = "select"
    /\ drain' = [drain EXCEPT !.pc = "pass",
                              !.todo = FirstIds(drain.dom, Pending(drain.dom), Batch)]
    /\ UNCHANGED <<status, sub, client, late, skipped, drops, crashes>>

DrainDeliver ==
    /\ drain.pc = "pass" /\ drain.cur = NoEvent
    /\ \E e \in drain.todo :
         /\ IsLeast(drain.todo, e)
         /\ status' = [status EXCEPT ![e[1]][e[2]] = "delivered"]
         /\ drain' = [drain EXCEPT !.todo = @ \ {e}, !.cur = e]
    /\ UNCHANGED <<sub, client, late, skipped, drops, crashes>>

\* A failed delivery skips the publish; the row stays pending for a later pass.
DrainSkip ==
    /\ DeliverFails
    /\ drain.pc = "pass" /\ drain.cur = NoEvent
    /\ \E e \in drain.todo :
         /\ IsLeast(drain.todo, e)
         /\ drain' = [drain EXCEPT !.todo = @ \ {e}]
         /\ late' = late \cup {e}
    /\ UNCHANGED <<status, sub, client, skipped, drops, crashes>>

\* The broadcast never blocks: a receiver too far behind loses the oldest.
Send(queue, e) ==
    LET q == Append(queue, e)
    IN  IF Len(q) > Buffer THEN Tail(q) ELSE q

Dropped(queue) == IF Len(queue) >= Buffer THEN {Head(queue)} ELSE {}

publish ==
    /\ drain.cur # NoEvent
    /\ drain' = [drain EXCEPT !.cur = NoEvent]
    /\ \/ /\ sub.pc = "closed"
          /\ UNCHANGED <<sub, skipped>>
       \/ /\ sub.pc # "closed"
          /\ sub' = [sub EXCEPT !.queue = Send(@, drain.cur)]
          /\ skipped' = skipped \cup Dropped(sub.queue)
    /\ UNCHANGED <<status, client, late, drops, crashes>>

\* The rows of a domain are done: the next domain, or back to sleep.
DrainDone ==
    /\ drain.pc = "pass" /\ drain.cur = NoEvent /\ drain.todo = {}
    /\ drain' = IF drain.dom < NumDomains
                  THEN [drain EXCEPT !.pc = "select", !.dom = @ + 1]
                  ELSE Asleep
    /\ UNCHANGED <<status, sub, client, late, skipped, drops, crashes>>

\* GET /events: the receiver joins the bus first ...
Subscribe ==
    /\ sub.pc = "closed"
    /\ sub' = [Closed EXCEPT !.pc = "joined"]
    /\ UNCHANGED <<status, drain, client, late, skipped, drops, crashes>>

\* Stored rows past the cursor, whatever their status; none without a cursor.
Past(d) == {i \in Ids(d) : client.cursor # None /\ i > client.cursor}

\* The replay goes on with the next domain, or opens the stream.
ReplayNext(replayed) ==
    /\ sub.pc = "joined"
    /\ sub' = [sub EXCEPT !.prelude = @ \cup replayed,
                          !.pc = IF sub.dom < NumDomains THEN "joined" ELSE "open",
                          !.dom = IF sub.dom < NumDomains THEN @ + 1 ELSE 1]
    /\ UNCHANGED <<status, drain, client, late, drops, crashes>>

\* Mutant: only rows still pending are replayed.
workflow_replay_since_Pending ==
    LET batch == FirstIds(sub.dom, Past(sub.dom), Batch)
    IN  /\ ReplayNext(FirstIds(sub.dom, Past(sub.dom) \cap Pending(sub.dom), Batch))
        /\ skipped' = (skipped \ batch) \cup ({<<sub.dom, i>> : i \in Past(sub.dom)} \ batch)

\* Mutant: the row after the cursor is taken for one already seen.
workflow_replay_since_OffByOne ==
    LET batch == FirstIds(sub.dom, Past(sub.dom), Batch)
    IN  /\ ReplayNext(FirstIds(sub.dom, Past(sub.dom) \ {client.cursor + 1}, Batch))
        /\ skipped' = (skipped \ batch) \cup ({<<sub.dom, i>> : i \in Past(sub.dom)} \ batch)

\* ... then workflow_replay_since reads, domain by domain, a batch of the stored
\* rows past the cursor.
workflow_replay_since ==
    LET batch == FirstIds(sub.dom, Past(sub.dom), Batch)
    IN  /\ ReplayNext(batch)
        /\ skipped' = (skipped \ batch) \cup ({<<sub.dom, i>> : i \in Past(sub.dom)} \ batch)

\* A domain without a connection, or whose query fails, replays nothing, and
\* the stream opens all the same.
ReplayError ==
    /\ ReplayFails
    /\ ReplayNext({})
    /\ skipped' = skipped \cup {<<sub.dom, i>> : i \in Past(sub.dom)}

-----------------------------------------------------------------------------
(* The client *)

\* The cursor is the largest id seen.  History: the last row of each domain
\* when the client got its first cursor; it is owed the rows committed since.
Seen(e) ==
    [cursor |-> IF e[2] > client.cursor THEN e[2] ELSE client.cursor,
     shown  |-> client.shown \cup {e},
     since  |-> IF client.cursor = None THEN [d \in Domains |-> Len(status[d])]
                                        ELSE client.since]

\* The pump sends the replayed rows, then what the bus holds.
Receive ==
    /\ sub.pc = "open"
    /\ \/ \E e \in sub.prelude :
            /\ IsLeast(sub.prelude, e)
            /\ client' = Seen(e)
            /\ sub' = [sub EXCEPT !.prelude = @ \ {e}]
       \/ /\ sub.prelude = {} /\ sub.queue # <<>>
          /\ client' = Seen(Head(sub.queue))
          /\ sub' = [sub EXCEPT !.queue = Tail(@)]
    /\ UNCHANGED <<status, drain, late, skipped, drops, crashes>>

\* The connection drops with whatever it still held.
Disconnect ==
    /\ sub.pc # "closed"
    /\ drops < MaxDrops
    /\ drops' = drops + 1
    /\ sub' = Closed
    /\ UNCHANGED <<status, drain, client, late, skipped, crashes>>

\* The server is killed, possibly between deliver and publish.
Crash ==
    /\ crashes < MaxCrashes
    /\ crashes' = crashes + 1
    /\ drain' = Asleep
    /\ sub' = Closed
    /\ UNCHANGED <<status, client, late, skipped, drops>>

-----------------------------------------------------------------------------
Init ==
    /\ status = [d \in Domains |-> <<>>]
    /\ drain = Asleep
    /\ sub = Closed
    /\ client = [cursor |-> None, shown |-> {}, since |-> [d \in Domains |-> 0]]
    /\ late = {}
    /\ skipped = {}
    /\ drops = 0
    /\ crashes = 0

Next ==
    \/ \E d \in Domains : Commit(d)
    \/ DrainWake \/ DrainSelect \/ DrainDeliver \/ DrainSkip \/ publish \/ DrainDone
    \/ Subscribe \/ workflow_replay_since \/ ReplayError \/ Receive \/ Disconnect
    \/ Crash

\* The worker's loop and the client's loop never end; a delivery that is
\* tried again and again succeeds in the end, because a write lock is held for
\* one transaction only.
Fairness ==
    /\ WF_vars(DrainWake) /\ WF_vars(DrainSelect) /\ WF_vars(publish) /\ WF_vars(DrainDone)
    /\ SF_vars(DrainDeliver)
    /\ WF_vars(Subscribe) /\ WF_vars(workflow_replay_since \/ ReplayError) /\ WF_vars(Receive)

Spec == Init /\ [][Next]_vars /\ Fairness

-----------------------------------------------------------------------------
(* Properties *)

\* Every variable has its type.
TypeOK ==
    /\ status \in [Domains -> Seq({"pending", "delivered"})]
    /\ \A d \in Domains : Len(status[d]) <= MaxId
    /\ drain \in [pc : {"asleep", "select", "pass"}, dom : Domains,
                  todo : SUBSET Stored, cur : Stored \cup {NoEvent}]
    /\ sub \in [pc : {"closed", "joined", "open"}, dom : Domains,
                prelude : SUBSET Stored, queue : Seq(Stored)]
    /\ Len(sub.queue) <= Buffer
    /\ client \in [cursor : 0 .. MaxId, shown : SUBSET Stored, since : [Domains -> 0 .. MaxId]]
    /\ late \subseteq Stored /\ skipped \subseteq Stored
    /\ drops \in 0 .. MaxDrops /\ crashes \in 0 .. MaxCrashes

\* Nothing is on its way to the client any more.
Quiet ==
    /\ \A d \in Domains : Pending(d) = {}
    /\ drain = Asleep
    /\ sub.pc = "open" /\ sub.prelude = {} /\ sub.queue = <<>>

\* Committed after the client got its first cursor.
Owed(e) == e \in Stored /\ client.cursor # None /\ e[2] > client.since[e[1]]

\* The cursor has passed e and the client never got it: e is not replayed.
Missed(e) == Owed(e) /\ e[2] <= client.cursor /\ e \notin client.shown

\* "a reconnecting consumer backfills its gap instead of silently skipping it"
\* (GET /events): whatever connections and servers were lost meanwhile, once
\* nothing is under way the client has missed no event.
NoSilentGap == Quiet => \A e \in Stored : ~ Missed(e)

\* What the feed of one domain does guarantee, at every moment: the cursor
\* passes an event unseen only when its delivery failed once, when the client
\* lagged by more than the bus holds, or when the last replay left it out.  No
\* other order of commits, lost connections and kills leaves a gap.
GapsExplained == \A e \in Stored : Missed(e) => e \in late \cup skipped

\* No committed event stays pending for ever, however often delivering it
\* fails and the server is killed.
EventuallyDelivered ==
    \A e \in Domains \X (1 .. MaxId) :
        e \in Stored ~> (e \in Stored /\ status[e[1]][e[2]] = "delivered")

\* Every event committed after a client got its cursor reaches it in the end,
\* but for the reasons of GapsExplained.
EventuallyShown ==
    \A e \in Domains \X (1 .. MaxId) : Owed(e) ~> e \in client.shown \cup late \cup skipped

-----------------------------------------------------------------------------
(* The inductive invariant behind GapsExplained, for the feed of one domain *)

\* What the client is still owed and has no excuse to miss.
Unseen == {e \in Stored : Owed(e) /\ e \notin client.shown \cup late \cup skipped}

IsDelivered(e) == status[e[1]][e[2]] = "delivered"

\* A drain pass goes up: below the row it publishes nothing is pending but what
\* failed once, and below a row it has selected also what it selected.
PassOrdered ==
    /\ drain.pc # "pass" => drain.cur = NoEvent
    /\ drain.cur # NoEvent =>
         \A f \in Stored : f[2] < drain.cur[2] => f \in late \/ IsDelivered(f)
    /\ \A e \in drain.todo, f \in Stored :
         f[2] < e[2] => f \in late \/ IsDelivered(f) \/ f \in drain.todo

\* On an open stream every unseen event is still to be published or sent ...
OnTheWay ==
    sub.pc = "open" =>
        \A e \in Unseen : \/ e \in sub.prelude
                          \/ \E q \in DOMAIN sub.queue : sub.queue[q] = e
                          \/ e = drain.cur
                          \/ ~ IsDelivered(e)

\* ... and is sent before any event with a larger id.
SentInOrder ==
    sub.pc = "open" =>
        /\ \A e \in sub.prelude, f \in Unseen : f[2] < e[2] => f \in sub.prelude
        /\ \A p \in DOMAIN sub.queue, f \in Unseen :
             f[2] < sub.queue[p][2] =>
                 f \in sub.prelude \/ \E q \in 1 .. (p - 1) : sub.queue[q] = f

FeedInv ==
    /\ client.cursor <= Len(status[1])
    /\ \A e \in Unseen : e[2] > client.cursor
    /\ PassOrdered
    /\ OnTheWay
    /\ SentInOrder
=============================================================================
