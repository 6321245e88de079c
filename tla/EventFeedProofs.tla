-------------------------- MODULE EventFeedProofs --------------------------
(***************************************************************************)
(* For any number of events, any batch and buffer size and any number of   *)
(* lost connections, failed deliveries, failed replays and kills, the      *)
(* client of one domain misses an event only for a reason the feed knows:  *)
(* a delivery that failed once, a bus that overran, a replay that left the *)
(* event out.                                                              *)
(***************************************************************************)
EXTENDS EventFeed, FiniteSetTheorems, TLAPS

-----------------------------------------------------------------------------
(* Events, sequences and types *)

\* An event is a domain and a row of it.
LEMMA StoredFacts ==
    ASSUME TypeOK
    PROVE  /\ \A e \in Stored : /\ e[1] \in Domains /\ e[2] \in 1 .. Len(status[e[1]])
                                /\ e[2] \in 1 .. MaxId /\ e = <<e[1], e[2]>> /\ e # NoEvent
           /\ \A d \in Domains : \A i \in 1 .. Len(status[d]) : <<d, i>> \in Stored
<1>1. \A d \in Domains : DOMAIN status[d] = 1 .. Len(status[d]) /\ Len(status[d]) \in Nat
                         /\ Len(status[d]) <= MaxId
  BY DEF TypeOK
<1>2. ASSUME NEW e \in Stored
      PROVE  /\ e[1] \in Domains /\ e[2] \in 1 .. Len(status[e[1]])
             /\ e[2] \in 1 .. MaxId /\ e = <<e[1], e[2]>> /\ e # NoEvent
  <2>1. e \in Domains \X (1 .. MaxId) /\ e[2] \in DOMAIN status[e[1]]
    BY DEF Stored, Ids
  <2>2. e[1] \in Domains /\ e[2] \in 1 .. MaxId /\ e = <<e[1], e[2]>>
    BY <2>1
  <2>3. e[1] # 0
    BY <2>2, FeedAssumption DEF Domains
  <2> QED BY <1>1, <2>1, <2>2, <2>3 DEF NoEvent
<1>3. ASSUME NEW d \in Domains, NEW i \in 1 .. Len(status[d]) PROVE <<d, i>> \in Stored
  <2>1. i \in 1 .. MaxId /\ i \in DOMAIN status[d]
    BY <1>1, <1>3, FeedAssumption
  <2> QED BY <2>1 DEF Stored, Ids
<1> QED BY <1>2, <1>3

\* Rows are never removed: an event that is stored stays stored.
LEMMA StoredKept ==
    ASSUME TypeOK, NEW st \in [Domains -> Seq({"pending", "delivered"})],
           status' = st, \A d \in Domains : Len(status[d]) <= Len(st[d])
    PROVE  Stored \subseteq Stored'
<1>1. \A d \in Domains : /\ DOMAIN st[d] = 1 .. Len(st[d]) /\ Len(st[d]) \in Nat
                         /\ DOMAIN status[d] = 1 .. Len(status[d]) /\ Len(status[d]) \in Nat
  BY DEF TypeOK
<1>2. ASSUME NEW e \in Stored PROVE e \in Stored'
  <2>1. e \in Domains \X (1 .. MaxId) /\ e[2] \in DOMAIN status[e[1]] /\ e[1] \in Domains
    BY DEF Stored, Ids
  <2>2. e[2] \in DOMAIN status'[e[1]]
    BY <1>1, <2>1
  <2> QED BY <2>1, <2>2 DEF Stored, Ids, Domains
<1> QED BY <1>2

\* r is the queue q after e was sent to it: a receiver with room gets e at the
\* end, one that lags loses its oldest event for it.
Sent(S, q, e, r) ==
    /\ r \in Seq(S) /\ Len(r) <= Buffer
    /\ \/ /\ Len(q) < Buffer /\ Dropped(q) = {}
          /\ Len(r) = Len(q) + 1
          /\ r[Len(q) + 1] = e
          /\ \A i \in 1 .. Len(q) : r[i] = q[i]
       \/ /\ Len(q) = Buffer /\ Len(q) >= 1 /\ Dropped(q) = {q[1]}
          /\ Len(r) = Len(q)
          /\ r[Len(q)] = e
          /\ \A i \in 1 .. (Len(q) - 1) : r[i] = q[i + 1]

\* That is what the bus does.
LEMMA SendFacts ==
    ASSUME NEW S, NEW q \in Seq(S), NEW e \in S, Len(q) <= Buffer
    PROVE  Sent(S, q, e, Send(q, e))
<1> DEFINE a == Append(q, e)
<1>1. /\ a \in Seq(S) /\ Len(a) = Len(q) + 1 /\ a[Len(q) + 1] = e /\ Len(q) \in Nat
      /\ \A i \in 1 .. Len(q) : a[i] = q[i]
  OBVIOUS
<1>2. Buffer \in Nat \ {0}
  BY FeedAssumption
<1> HIDE DEF a
<1>3. CASE Len(q) < Buffer
  <2>1. Send(q, e) = a
    BY <1>1, <1>2, <1>3 DEF Send, a
  <2>2. Dropped(q) = {}
    BY <1>1, <1>2, <1>3 DEF Dropped
  <2> QED BY <1>1, <1>2, <1>3, <2>1, <2>2 DEF Sent
<1>4. CASE Len(q) = Buffer
  <2>1. Send(q, e) = Tail(a)
    BY <1>1, <1>2, <1>4 DEF Send, a
  <2>2. Dropped(q) = {q[1]}
    BY <1>1, <1>2, <1>4 DEF Dropped
  <2>3. a # <<>>
    BY <1>1
  <2>4. /\ Tail(a) \in Seq(S) /\ Len(Tail(a)) = Len(q)
        /\ \A i \in 1 .. Len(q) : Tail(a)[i] = a[i + 1]
    BY <1>1, <2>3
  <2>5. \A i \in 1 .. (Len(q) - 1) : Tail(a)[i] = q[i + 1]
    BY <1>1, <2>4
  <2>6. Tail(a)[Len(q)] = e
    BY <1>1, <1>2, <1>4, <2>4
  <2> QED BY <1>1, <1>2, <1>4, <2>1, <2>2, <2>4, <2>5, <2>6 DEF Sent
<1> QED BY <1>1, <1>2, <1>3, <1>4

\* The worker asleep, and the closed connection, have their types.
LEMMA RestType ==
    ASSUME NEW S
    PROVE  /\ Asleep \in [pc : {"asleep", "select", "pass"}, dom : Domains,
                          todo : SUBSET S, cur : S \cup {NoEvent}]
           /\ Closed \in [pc : {"closed", "joined", "open"}, dom : Domains,
                          prelude : SUBSET S, queue : Seq(S)]
           /\ Len(Closed.queue) = 0
<1>1. 1 \in Domains
  BY FeedAssumption DEF Domains
<1>2. <<>> \in Seq(S) /\ Len(<<>>) = 0
  OBVIOUS
<1> QED BY <1>1, <1>2 DEF Asleep, Closed

\* The rows of a batch are rows.
LEMMA BatchStored ==
    ASSUME TypeOK, NEW d \in Domains, NEW S, S \subseteq Ids(d), NEW n
    PROVE  /\ FirstIds(d, S, n) \subseteq Stored
           /\ {<<d, i>> : i \in S} \subseteq Stored
<1>1. Ids(d) = 1 .. Len(status[d])
  BY DEF Ids, TypeOK
<1> QED BY <1>1, StoredFacts DEF FirstIds

\* The first state is well typed.
LEMMA InitType == ASSUME Init PROVE TypeOK
<1>1. status \in [Domains -> Seq({"pending", "delivered"})]
  BY DEF Init
<1>2. \A d \in Domains : Len(status[d]) = 0
  BY DEF Init
<1>3. client \in [cursor : 0 .. MaxId, shown : SUBSET Stored, since : [Domains -> 0 .. MaxId]]
  BY FeedAssumption DEF Init, None
<1>4. drain = Asleep /\ sub = Closed /\ late = {} /\ skipped = {} /\ drops = 0 /\ crashes = 0
  BY DEF Init
<1>5. /\ drain \in [pc : {"asleep", "select", "pass"}, dom : Domains,
                    todo : SUBSET Stored, cur : Stored \cup {NoEvent}]
      /\ sub \in [pc : {"closed", "joined", "open"}, dom : Domains,
                  prelude : SUBSET Stored, queue : Seq(Stored)]
      /\ Len(sub.queue) = 0
  BY <1>4, RestType
<1>6. \A d \in Domains : Len(status[d]) <= MaxId
  BY <1>2, FeedAssumption
<1>7. Len(sub.queue) <= Buffer /\ drops \in 0 .. MaxDrops /\ crashes \in 0 .. MaxCrashes
  BY <1>4, <1>5, FeedAssumption
<1> QED BY <1>1, <1>3, <1>4, <1>5, <1>6, <1>7 DEF TypeOK

\* The client's record after an event.
LEMMA SeenType ==
    ASSUME TypeOK, NEW e \in Stored
    PROVE  /\ Seen(e) \in [cursor : 0 .. MaxId, shown : SUBSET Stored, since : [Domains -> 0 .. MaxId]]
           /\ Seen(e).cursor = IF e[2] > client.cursor THEN e[2] ELSE client.cursor
           /\ Seen(e).shown = client.shown \cup {e}
           /\ client.cursor # None => Seen(e).since = client.since
           /\ client.cursor = None => Seen(e).since = [d \in Domains |-> Len(status[d])]
<1>1. e[2] \in 0 .. MaxId
  BY StoredFacts, FeedAssumption
<1>2. client.cursor \in 0 .. MaxId /\ client.shown \subseteq Stored /\ client.since \in [Domains -> 0 .. MaxId]
  BY DEF TypeOK
<1>3. [d \in Domains |-> Len(status[d])] \in [Domains -> 0 .. MaxId]
  BY FeedAssumption DEF TypeOK
<1> QED BY <1>1, <1>2, <1>3 DEF Seen

\* The types of what a row's commit or delivery leaves alone.
LEMMA StatusType ==
    ASSUME TypeOK, status' \in [Domains -> Seq({"pending", "delivered"})],
           \A d \in Domains : Len(status[d]) <= Len(status'[d]) /\ Len(status'[d]) <= MaxId
    PROVE  /\ Stored \subseteq Stored'
           /\ sub \in [pc : {"closed", "joined", "open"}, dom : Domains,
                       prelude : SUBSET Stored', queue : Seq(Stored')]
           /\ drain \in [pc : {"asleep", "select", "pass"}, dom : Domains,
                         todo : SUBSET Stored', cur : Stored' \cup {NoEvent}]
           /\ client \in [cursor : 0 .. MaxId, shown : SUBSET Stored', since : [Domains -> 0 .. MaxId]]
           /\ late \subseteq Stored' /\ skipped \subseteq Stored'
<1>1. Stored \subseteq Stored'
  BY StoredKept
<1>2. sub.queue \in Seq(Stored')
  BY <1>1 DEF TypeOK
<1>3. ASSUME NEW T, Stored \subseteq T, sub.queue \in Seq(T)
      PROVE  /\ sub \in [pc : {"closed", "joined", "open"}, dom : Domains,
                         prelude : SUBSET T, queue : Seq(T)]
             /\ drain \in [pc : {"asleep", "select", "pass"}, dom : Domains,
                           todo : SUBSET T, cur : T \cup {NoEvent}]
             /\ client \in [cursor : 0 .. MaxId, shown : SUBSET T, since : [Domains -> 0 .. MaxId]]
             /\ late \subseteq T /\ skipped \subseteq T
  BY <1>3 DEF TypeOK
<1> QED BY <1>1, <1>2, <1>3

\* One row of a domain is marked delivered.
LEMMA DeliverStatus ==
    ASSUME TypeOK, NEW e \in Stored,
           status' = [status EXCEPT ![e[1]][e[2]] = "delivered"]
    PROVE  /\ status' \in [Domains -> Seq({"pending", "delivered"})]
           /\ \A d \in Domains : Len(status'[d]) = Len(status[d])
           /\ status'[e[1]][e[2]] = "delivered"
           /\ \A f \in Stored : status'[f[1]][f[2]] = status[f[1]][f[2]] \/ f = e
<1> DEFINE d == e[1]
           i == e[2]
<1>1. d \in Domains /\ i \in 1 .. Len(status[d])
  BY StoredFacts
<1>2. status[d] \in Seq({"pending", "delivered"})
  BY <1>1 DEF TypeOK
<1>3. status' = [status EXCEPT ![d] = [status[d] EXCEPT ![i] = "delivered"]]
  OBVIOUS
<1> HIDE DEF d, i
<1> DEFINE t == [status[d] EXCEPT ![i] = "delivered"]
<1>4. /\ t \in Seq({"pending", "delivered"}) /\ Len(t) = Len(status[d])
      /\ t[i] = "delivered" /\ \A j \in 1 .. Len(status[d]) : j # i => t[j] = status[d][j]
  BY <1>1, <1>2
<1>5. status' = [status EXCEPT ![d] = t]
  BY <1>3
<1> HIDE DEF t
<1>6. status'[d] = t /\ \A c \in Domains : c # d => status'[c] = status[c]
  BY <1>1, <1>5 DEF TypeOK
<1>7. status' \in [Domains -> Seq({"pending", "delivered"})]
  BY <1>1, <1>4, <1>5 DEF TypeOK
<1>8. \A c \in Domains : Len(status'[c]) = Len(status[c])
  BY <1>4, <1>6
<1>9. status'[e[1]][e[2]] = "delivered"
  BY <1>4, <1>6 DEF d, i
<1>10. ASSUME NEW f \in Stored, f # e PROVE status'[f[1]][f[2]] = status[f[1]][f[2]]
  <2>1. /\ f[1] \in Domains /\ f[2] \in 1 .. Len(status[f[1]]) /\ f = <<f[1], f[2]>>
        /\ e = <<d, i>>
    BY StoredFacts DEF d, i
  <2>2. CASE f[1] = d
    BY <1>4, <1>6, <1>10, <2>1, <2>2
  <2>3. CASE f[1] # d
    BY <1>6, <2>1, <2>3
  <2> QED BY <2>2, <2>3
<1> QED BY <1>7, <1>8, <1>9, <1>10

\* A row is added to a domain.
LEMMA CommitStatus ==
    ASSUME TypeOK, NEW d \in Domains, Len(status[d]) < MaxId,
           status' = [status EXCEPT ![d] = Append(@, "pending")]
    PROVE  /\ status' \in [Domains -> Seq({"pending", "delivered"})]
           /\ Len(status'[d]) = Len(status[d]) + 1
           /\ status'[d][Len(status[d]) + 1] = "pending"
           /\ \A i \in 1 .. Len(status[d]) : status'[d][i] = status[d][i]
           /\ \A c \in Domains : c # d => status'[c] = status[c]
<1> DEFINE t == Append(status[d], "pending")
<1>1. /\ t \in Seq({"pending", "delivered"}) /\ Len(t) = Len(status[d]) + 1
      /\ t[Len(status[d]) + 1] = "pending" /\ \A j \in 1 .. Len(status[d]) : t[j] = status[d][j]
  BY DEF TypeOK
<1>2. status' = [status EXCEPT ![d] = t]
  OBVIOUS
<1> HIDE DEF t
<1>3. status'[d] = t /\ \A c \in Domains : c # d => status'[c] = status[c]
  BY <1>2 DEF TypeOK
<1>4. status' \in [Domains -> Seq({"pending", "delivered"})]
  BY <1>1, <1>2 DEF TypeOK
<1> QED BY <1>1, <1>3, <1>4

\* The events on the way: what a send and a receipt leave of the queue.
LEMMA TailFacts ==
    ASSUME NEW S, NEW q \in Seq(S), q # <<>>
    PROVE  /\ Tail(q) \in Seq(S) /\ Len(Tail(q)) = Len(q) - 1 /\ Len(q) \in Nat \ {0}
           /\ Head(q) = q[1] /\ q[1] \in S
           /\ \A i \in 1 .. (Len(q) - 1) : Tail(q)[i] = q[i + 1]
OBVIOUS

\* Every step keeps the types; one step per action.
LEMMA NextType == ASSUME TypeOK, [Next]_vars PROVE TypeOK'
<1> DEFINE DrainSet(T) == [pc : {"asleep", "select", "pass"}, dom : Domains,
                           todo : SUBSET T, cur : T \cup {NoEvent}]
           SubSet(T) == [pc : {"closed", "joined", "open"}, dom : Domains,
                         prelude : SUBSET T, queue : Seq(T)]
<1>0. /\ drain \in DrainSet(Stored) /\ sub \in SubSet(Stored)
      /\ drain.dom \in Domains /\ sub.dom \in Domains /\ sub.prelude \subseteq Stored
      /\ sub.queue \in Seq(Stored) /\ Len(sub.queue) <= Buffer
      /\ drain.cur \in Stored \cup {NoEvent} /\ drain.todo \subseteq Stored
  BY DEF TypeOK
<1>1. ASSUME NEW d \in Domains, Commit(d) PROVE TypeOK'
  <2>1. /\ Len(status[d]) < MaxId /\ status' = [status EXCEPT ![d] = Append(@, "pending")]
        /\ UNCHANGED <<drain, sub, client, late, skipped, drops, crashes>>
    BY <1>1 DEF Commit
  <2>2. /\ status' \in [Domains -> Seq({"pending", "delivered"})]
        /\ \A c \in Domains : Len(status[c]) <= Len(status'[c]) /\ Len(status'[c]) <= MaxId
    BY <2>1, CommitStatus, FeedAssumption DEF TypeOK
  <2>3. Domains' = Domains
    BY DEF Domains
  <2> QED BY <2>1, <2>2, <2>3, StatusType DEF TypeOK
<1>2. ASSUME UNCHANGED status PROVE Stored' = Stored
  BY <1>2 DEF Stored, Ids
<1>3. ASSUME UNCHANGED <<status, sub, client, skipped, drops, crashes>>,
             late' \subseteq Stored, drain' \in DrainSet(Stored)
      PROVE  TypeOK'
  <2>1. Stored' = Stored
    BY <1>2, <1>3
  <2> QED BY <1>3, <2>1 DEF TypeOK
<1>4. late \subseteq Stored
  BY DEF TypeOK
<1>5. CASE DrainWake
  <2>1. drain' \in DrainSet(Stored)
    BY <1>5, RestType DEF DrainWake
  <2> QED BY <1>3, <1>4, <1>5, <2>1 DEF DrainWake
<1>6. CASE DrainSelect
  <2>1. FirstIds(drain.dom, Pending(drain.dom), Batch) \subseteq Stored
    BY <1>0, BatchStored DEF Pending
  <2>2. drain' \in DrainSet(Stored)
    BY <1>0, <1>6, <2>1 DEF DrainSelect
  <2> QED BY <1>3, <1>4, <1>6, <2>2 DEF DrainSelect
<1>7. CASE DrainDeliver
  <2>1. PICK e \in drain.todo :
          /\ status' = [status EXCEPT ![e[1]][e[2]] = "delivered"]
          /\ drain' = [drain EXCEPT !.todo = @ \ {e}, !.cur = e]
    BY <1>7 DEF DrainDeliver
  <2>2. e \in Stored
    BY <1>0
  <2>3. /\ status' \in [Domains -> Seq({"pending", "delivered"})]
        /\ \A c \in Domains : Len(status'[c]) = Len(status[c])
    BY <2>1, <2>2, DeliverStatus
  <2>4. \A c \in Domains : Len(status[c]) <= Len(status'[c]) /\ Len(status'[c]) <= MaxId
    BY <2>3 DEF TypeOK
  <2>5. drain \in DrainSet(Stored') /\ e \in Stored'
    BY <2>2, <2>3, <2>4, StatusType
  <2>6. drain' \in DrainSet(Stored')
    BY <2>1, <2>5
  <2>7. UNCHANGED <<sub, client, late, skipped, drops, crashes>> /\ Domains' = Domains
    BY <1>7 DEF DrainDeliver, Domains
  <2> QED BY <2>3, <2>4, <2>6, <2>7, StatusType DEF TypeOK
<1>8. CASE DrainSkip
  <2>1. PICK e \in drain.todo : drain' = [drain EXCEPT !.todo = @ \ {e}] /\ late' = late \cup {e}
    BY <1>8 DEF DrainSkip
  <2>2. drain' \in DrainSet(Stored) /\ late' \subseteq Stored
    BY <1>0, <1>4, <2>1
  <2> QED BY <1>3, <1>8, <2>2 DEF DrainSkip
<1>9. CASE publish
  <2>1. drain.cur \in Stored
    BY <1>0, <1>9 DEF publish
  <2>2. drain' \in DrainSet(Stored)
    BY <1>0, <1>9 DEF publish
  <2>3. /\ Send(sub.queue, drain.cur) \in Seq(Stored)
        /\ Len(Send(sub.queue, drain.cur)) <= Buffer
        /\ Dropped(sub.queue) \subseteq Stored
    <3>1. /\ Send(sub.queue, drain.cur) \in Seq(Stored)
          /\ Len(Send(sub.queue, drain.cur)) <= Buffer
          /\ Dropped(sub.queue) = {} \/ (Len(sub.queue) >= 1 /\ Dropped(sub.queue) = {sub.queue[1]})
      <4>1. Sent(Stored, sub.queue, drain.cur, Send(sub.queue, drain.cur))
        BY <1>0, <2>1, SendFacts
      <4> QED BY <4>1, Zenon DEF Sent
    <3>2. Len(sub.queue) >= 1 => sub.queue[1] \in Stored
      BY <1>0
    <3> QED BY <3>1, <3>2
  <2>4. sub' \in SubSet(Stored) /\ Len(sub'.queue) <= Buffer /\ skipped' \subseteq Stored
    BY <1>0, <1>9, <2>3 DEF publish, TypeOK
  <2>5. Stored' = Stored /\ UNCHANGED <<status, client, late, drops, crashes>>
    BY <1>2, <1>9 DEF publish
  <2> QED BY <2>2, <2>4, <2>5 DEF TypeOK
<1>10. CASE DrainDone
  <2>1. drain.dom < NumDomains => drain.dom + 1 \in Domains
    BY <1>0, FeedAssumption DEF Domains
  <2>2. drain' \in DrainSet(Stored)
    BY <1>0, <1>10, <2>1, RestType DEF DrainDone
  <2> QED BY <1>3, <1>4, <1>10, <2>2 DEF DrainDone
<1>11. ASSUME UNCHANGED <<status, drain, late>>, skipped' \subseteq Stored,
              client' \in [cursor : 0 .. MaxId, shown : SUBSET Stored,
                           since : [Domains -> 0 .. MaxId]],
              drops' \in 0 .. MaxDrops, crashes' \in 0 .. MaxCrashes,
              sub' \in SubSet(Stored), Len(sub'.queue) <= Buffer
       PROVE  TypeOK'
  <2>1. Stored' = Stored
    BY <1>2, <1>11
  <2> QED BY <1>11, <2>1 DEF TypeOK
<1>12. /\ skipped \subseteq Stored /\ drops \in 0 .. MaxDrops /\ crashes \in 0 .. MaxCrashes
       /\ client \in [cursor : 0 .. MaxId, shown : SUBSET Stored, since : [Domains -> 0 .. MaxId]]
  BY DEF TypeOK
<1>13. CASE Subscribe
  <2>1. sub' = [Closed EXCEPT !.pc = "joined"] /\ Closed \in SubSet(Stored) /\ Len(Closed.queue) = 0
    BY <1>13, RestType DEF Subscribe
  <2>2. sub' \in SubSet(Stored) /\ Len(sub'.queue) <= Buffer
    BY <2>1, FeedAssumption
  <2> QED BY <1>11, <1>12, <1>13, <2>2 DEF Subscribe
<1>14. CASE workflow_replay_since \/ ReplayError
  <2> DEFINE past == {<<sub.dom, i>> : i \in Past(sub.dom)}
             batch == FirstIds(sub.dom, Past(sub.dom), Batch)
  <2>1. past \subseteq Stored /\ batch \subseteq Stored
    BY <1>0, BatchStored DEF Past
  <2>2. PICK replayed \in {{}, batch} :
          ReplayNext(replayed) /\ skipped' \subseteq skipped \cup past
    BY <1>14 DEF workflow_replay_since, ReplayError
  <2> HIDE DEF past, batch
  <2>3. sub.dom < NumDomains => sub.dom + 1 \in Domains
    BY <1>0, FeedAssumption DEF Domains
  <2>4. 1 \in Domains
    BY FeedAssumption DEF Domains
  <2>5. sub' \in SubSet(Stored) /\ sub'.queue = sub.queue
    BY <1>0, <2>1, <2>2, <2>3, <2>4 DEF ReplayNext
  <2> QED BY <1>0, <1>11, <1>12, <2>1, <2>2, <2>5 DEF ReplayNext
<1>15. CASE Receive
  <2>1. UNCHANGED <<status, drain, late, skipped, drops, crashes>>
    BY <1>15 DEF Receive
  <2>2. ASSUME NEW e \in sub.prelude, client' = Seen(e),
               sub' = [sub EXCEPT !.prelude = @ \ {e}]
        PROVE  TypeOK'
    <3>1. e \in Stored /\ sub' \in SubSet(Stored) /\ sub'.queue = sub.queue
      BY <1>0, <2>2
    <3> QED BY <1>0, <1>11, <1>12, <2>1, <2>2, <3>1, SeenType
  <2>3. ASSUME sub.queue # <<>>, client' = Seen(Head(sub.queue)),
               sub' = [sub EXCEPT !.queue = Tail(@)]
        PROVE  TypeOK'
    <3>1. /\ Head(sub.queue) \in Stored /\ Tail(sub.queue) \in Seq(Stored)
          /\ Len(Tail(sub.queue)) <= Buffer
      BY <1>0, <2>3, TailFacts, FeedAssumption
    <3>2. sub' \in SubSet(Stored) /\ Len(sub'.queue) <= Buffer
      BY <1>0, <2>3, <3>1
    <3> QED BY <1>11, <1>12, <2>1, <2>3, <3>1, <3>2, SeenType
  <2> QED BY <1>15, <2>2, <2>3 DEF Receive
<1>16. CASE Disconnect
  <2>1. /\ sub' = Closed /\ drops' = drops + 1 /\ drops < MaxDrops
        /\ UNCHANGED <<status, drain, client, late, skipped, crashes>>
    BY <1>16 DEF Disconnect
  <2>2. sub' \in SubSet(Stored) /\ Len(sub'.queue) <= Buffer
    BY <2>1, RestType, FeedAssumption
  <2>3. drops' \in 0 .. MaxDrops
    BY <1>12, <2>1, FeedAssumption
  <2> QED BY <1>11, <1>12, <2>1, <2>2, <2>3
<1>17. CASE Crash
  <2>1. /\ sub' = Closed /\ drain' = Asleep /\ crashes' = crashes + 1 /\ crashes < MaxCrashes
        /\ UNCHANGED <<status, client, late, skipped, drops>>
    BY <1>17 DEF Crash
  <2>2. sub' \in SubSet(Stored) /\ Len(sub'.queue) = 0 /\ drain' \in DrainSet(Stored)
    BY <2>1, RestType
  <2>3. crashes' \in 0 .. MaxCrashes
    BY <1>12, <2>1, FeedAssumption
  <2>4. Stored' = Stored /\ Len(sub'.queue) <= Buffer
    BY <1>2, <2>1, <2>2, FeedAssumption
  <2> QED BY <2>1, <2>2, <2>3, <2>4 DEF TypeOK
<1>18. CASE UNCHANGED vars
  <2>1. UNCHANGED <<status, drain, sub, client, late, skipped, drops, crashes>>
    BY <1>18 DEF vars
  <2> QED BY <1>0, <1>11, <1>12, <2>1
<1> QED BY <1>1, <1>5, <1>6, <1>7, <1>8, <1>9, <1>10, <1>13, <1>14, <1>15, <1>16, <1>17,
          <1>18 DEF Next

\* Every variable keeps its type, for any number of domains.
THEOREM FeedTypeCorrect == Spec => []TypeOK
<1>1. Init => TypeOK
  BY InitType
<1>2. TypeOK /\ [Next]_vars => TypeOK'
  BY NextType
<1> QED BY <1>1, <1>2, PTL DEF Spec

-----------------------------------------------------------------------------
(* The feed of one domain *)

\* With one domain an event is its id.
LEMMA OneDomain ==
    ASSUME TypeOK, NumDomains = 1
    PROVE  /\ Domains = {1} /\ Len(status[1]) \in Nat
           /\ \A e \in Stored : e[1] = 1 /\ e[2] \in 1 .. Len(status[1]) /\ e[2] \in Nat
                                /\ e # NoEvent /\ e = <<1, e[2]>>
           /\ \A e, f \in Stored : e[2] = f[2] => e = f
           /\ \A j \in 1 .. Len(status[1]) : <<1, j>> \in Stored
           /\ client.cursor \in Nat /\ client.since[1] \in Nat
<1>1. Domains = {1}
  BY DEF Domains
<1>2. Len(status[1]) \in Nat /\ client.cursor \in Nat /\ client.since[1] \in Nat
  BY <1>1, FeedAssumption DEF TypeOK
<1>3. \A e \in Stored : e[1] = 1 /\ e[2] \in 1 .. Len(status[1]) /\ e[2] \in Nat
                        /\ e # NoEvent /\ e = <<1, e[2]>>
  BY <1>1, <1>2, StoredFacts
<1>4. \A e, f \in Stored : e[2] = f[2] => e = f
  BY <1>3
<1>5. \A j \in 1 .. Len(status[1]) : <<1, j>> \in Stored
  BY <1>1, StoredFacts
<1> QED BY <1>1, <1>2, <1>3, <1>4, <1>5

\* The events of the queue are events.
LEMMA QueueFacts ==
    ASSUME TypeOK
    PROVE  /\ sub.queue \in Seq(Stored) /\ Len(sub.queue) \in Nat
           /\ DOMAIN sub.queue = 1 .. Len(sub.queue)
           /\ \A p \in DOMAIN sub.queue : sub.queue[p] \in Stored
<1>1. sub.queue \in Seq(Stored)
  BY DEF TypeOK
<1> QED BY <1>1

\* What an unseen event is, spelled out.
LEMMA UnseenFacts ==
    ASSUME TypeOK, NumDomains = 1
    PROVE  /\ Unseen \subseteq Stored
           /\ \A e \in Stored : e \in Unseen <=>
                /\ client.cursor # None /\ e[2] > client.since[1]
                /\ e \notin client.shown /\ e \notin late /\ e \notin skipped
BY OneDomain DEF Unseen, Owed

\* What the client has not seen is the same while the table, the client and
\* the histories are.
LEMMA UnseenSame ==
    ASSUME UNCHANGED <<status, client, late, skipped>>
    PROVE  Unseen' = Unseen /\ Stored' = Stored /\ \A e : IsDelivered(e)' = IsDelivered(e)
BY DEF Unseen, Owed, Stored, Ids, Domains, IsDelivered

\* The invariant of the first state.
LEMMA InitFeed == ASSUME Init, NumDomains = 1 PROVE FeedInv
<1>1. TypeOK
  BY InitType
<1>2. client.cursor = None /\ Len(status[1]) = 0 /\ drain = Asleep /\ sub = Closed
  BY DEF Init, Domains
<1>3. Unseen = {}
  BY <1>2 DEF Unseen, Owed
<1>4. PassOrdered
  BY <1>2 DEF PassOrdered, Asleep
<1>5. OnTheWay /\ SentInOrder
  BY <1>2 DEF OnTheWay, SentInOrder, Closed
<1>6. client.cursor <= Len(status[1])
  BY <1>2 DEF None
<1> QED BY <1>3, <1>4, <1>5, <1>6 DEF FeedInv

\* A row commits: it is past every cursor and after every event on the way.
LEMMA CommitFeed ==
    ASSUME TypeOK, TypeOK', NumDomains = 1, FeedInv, NEW d \in Domains, Commit(d)
    PROVE  FeedInv'
<1> DEFINE L == Len(status[1])
           new == <<1, L + 1>>
<1>0. d = 1
  BY OneDomain
<1>1. /\ L < MaxId /\ status' = [status EXCEPT ![1] = Append(@, "pending")]
      /\ UNCHANGED <<drain, sub, client, late, skipped, drops, crashes>>
  BY <1>0 DEF Commit
<1>2. /\ Len(status'[1]) = L + 1 /\ status'[1][L + 1] = "pending"
      /\ \A j \in 1 .. L : status'[1][j] = status[1][j]
  BY <1>0, <1>1, CommitStatus
<1>3. L \in Nat /\ new[1] = 1 /\ new[2] = L + 1
  BY OneDomain
<1>4. \A f \in Stored : f[2] <= L /\ f[2] \in Nat /\ f[1] = 1 /\ f \in Stored'
  <2>1. \A f \in Stored : f[2] <= L /\ f[2] \in 1 .. L /\ f[1] = 1 /\ f = <<1, f[2]>>
    BY <1>3, OneDomain
  <2>2. ASSUME NEW j \in 1 .. (L + 1) PROVE <<1, j>> \in Stored'
    <3>1. status'[1] \in Seq({"pending", "delivered"})
      BY OneDomain DEF TypeOK, Domains
    <3>2. j \in DOMAIN status'[1]
      BY <1>2, <3>1
    <3>3. j \in 1 .. MaxId /\ 1 \in Domains
      BY <1>1, <1>3, OneDomain, FeedAssumption
    <3> QED BY <3>2, <3>3 DEF Stored, Ids, Domains
  <2> QED BY <1>3, <2>1, <2>2
<1>5. \A f \in Stored' : f \in Stored \/ f = new
  <2> SUFFICES ASSUME NEW f \in Stored' PROVE f \in Stored \/ f = new
    OBVIOUS
  <2>1. f \in Domains \X (1 .. MaxId) /\ f[2] \in DOMAIN status'[f[1]]
    BY DEF Stored, Ids, Domains
  <2>2. f[1] = 1 /\ f = <<1, f[2]>>
    BY <2>1, OneDomain
  <2>3. f[2] \in 1 .. (L + 1)
    <3>1. status'[1] \in Seq({"pending", "delivered"})
      BY OneDomain DEF TypeOK, Domains
    <3> QED BY <1>2, <2>1, <2>2, <3>1
  <2> QED BY <1>3, <2>2, <2>3, OneDomain
<1>6. \A f \in Stored : IsDelivered(f)' <=> IsDelivered(f)
  BY <1>2, <1>4, OneDomain DEF IsDelivered
<1>7. \A f : f = new => ~ IsDelivered(f)'
  BY <1>2, <1>3 DEF IsDelivered
<1> HIDE DEF L, new
<1>8. \A f \in Unseen' : f \in Unseen \/ f = new
  BY <1>1, <1>5 DEF Unseen, Owed
<1>9. Unseen \subseteq Stored
  BY DEF Unseen
<1>10. /\ client.cursor <= L /\ client.cursor \in Nat
       /\ \A e \in Unseen : e[2] > client.cursor
       /\ PassOrdered /\ OnTheWay /\ SentInOrder
  BY OneDomain DEF FeedInv, L
<1>11. /\ drain.todo \subseteq Stored /\ drain.cur \in Stored \cup {NoEvent}
       /\ sub.prelude \subseteq Stored /\ \A p \in DOMAIN sub.queue : sub.queue[p] \in Stored
  BY QueueFacts DEF TypeOK
<1>12. client'.cursor <= Len(status'[1]) /\ \A e \in Unseen' : e[2] > client'.cursor
  BY <1>1, <1>2, <1>3, <1>8, <1>10
<1>13. PassOrdered'
  <2>1. ASSUME drain.cur # NoEvent, NEW f \in Stored', f[2] < drain.cur[2]
        PROVE  f \in late \/ IsDelivered(f)'
    BY <1>3, <1>4, <1>5, <1>6, <1>10, <1>11, <2>1 DEF PassOrdered
  <2>2. ASSUME NEW e \in drain.todo, NEW f \in Stored', f[2] < e[2]
        PROVE  f \in late \/ IsDelivered(f)' \/ f \in drain.todo
    BY <1>3, <1>4, <1>5, <1>6, <1>10, <1>11, <2>2 DEF PassOrdered
  <2>3. drain.pc # "pass" => drain.cur = NoEvent
    BY <1>10 DEF PassOrdered
  <2> QED BY <1>1, <2>1, <2>2, <2>3 DEF PassOrdered
<1>14. OnTheWay'
  <2> SUFFICES ASSUME sub.pc = "open", NEW e \in Unseen'
               PROVE  \/ e \in sub.prelude
                      \/ \E q \in DOMAIN sub.queue : sub.queue[q] = e
                      \/ e = drain.cur
                      \/ ~ IsDelivered(e)'
    BY <1>1 DEF OnTheWay
  <2>1. CASE e = new
    BY <1>7, <2>1
  <2>2. CASE e \in Unseen
    <3>1. IsDelivered(e)' <=> IsDelivered(e)
      BY <1>6, <1>9, <2>2
    <3> QED BY <1>10, <2>2, <3>1 DEF OnTheWay
  <2> QED BY <1>8, <2>1, <2>2
<1>15. SentInOrder'
  <2>1. ASSUME sub.pc = "open", NEW e \in sub.prelude, NEW f \in Unseen', f[2] < e[2]
        PROVE  f \in sub.prelude
    BY <1>3, <1>4, <1>8, <1>10, <1>11, <2>1 DEF SentInOrder
  <2>2. ASSUME sub.pc = "open", NEW p \in DOMAIN sub.queue, NEW f \in Unseen',
               f[2] < sub.queue[p][2]
        PROVE  f \in sub.prelude \/ \E q \in 1 .. (p - 1) : sub.queue[q] = f
    BY <1>3, <1>4, <1>8, <1>10, <1>11, <2>2 DEF SentInOrder
  <2> QED BY <1>1, <2>1, <2>2 DEF SentInOrder
<1> QED BY <1>12, <1>13, <1>14, <1>15 DEF FeedInv

\* Steps of the worker between two rows: what the pass has selected is a
\* prefix of what is pending.
LEMMA SelectFeed ==
    ASSUME TypeOK, NumDomains = 1, FeedInv, DrainWake \/ DrainSelect \/ DrainDone
    PROVE  FeedInv'
<1>1. UNCHANGED <<status, sub, client, late, skipped>>
  BY DEF DrainWake, DrainSelect, DrainDone
<1>2. Unseen' = Unseen /\ Stored' = Stored /\ \A e : IsDelivered(e)' = IsDelivered(e)
  BY <1>1, UnseenSame
<1>3. /\ drain \in [pc : {"asleep", "select", "pass"}, dom : Domains,
                    todo : SUBSET Stored, cur : Stored \cup {NoEvent}]
      /\ drain.dom = 1
  BY OneDomain DEF TypeOK
<1>4. PassOrdered'
  <2>1. CASE DrainSelect
    <3> DEFINE S == Pending(1)
               T == FirstIds(1, S, Batch)
    <3>1. drain'.todo = T /\ drain'.cur = drain.cur /\ drain'.pc = "pass"
      BY <1>3, <2>1 DEF DrainSelect
    <3>2. S \subseteq 1 .. Len(status[1]) /\ IsFiniteSet(S)
      <4>1. S \subseteq 1 .. Len(status[1])
        BY OneDomain DEF Pending, Ids, TypeOK
      <4>2. 1 \in Int /\ Len(status[1]) \in Int
        BY OneDomain
      <4> QED BY <4>1, <4>2, FS_Interval, FS_Subset
    <3>3. ASSUME NEW e \in T, NEW f \in Stored, f[2] < e[2], ~ IsDelivered(f)
          PROVE  f \in T
      <4>1. PICK i \in S : e = <<1, i>> /\ Cardinality({k \in S : k < i}) < Batch
        BY DEF FirstIds
      <4>2. e[2] = i /\ i \in Nat /\ f = <<1, f[2]>> /\ f[2] \in Nat /\ f[1] = 1
            /\ f[2] \in 1 .. Len(status[1])
        BY <3>2, <4>1, OneDomain
      <4>3. status[1][f[2]] # "delivered"
        BY <3>3, <4>2 DEF IsDelivered
      <4>4. f[2] \in S
        BY <4>2, <4>3, OneDomain DEF Pending, Ids, TypeOK
      <4>5. {k \in S : k < f[2]} \subseteq {k \in S : k < i}
        BY <3>2, <3>3, <4>2
      <4>6. IsFiniteSet({k \in S : k < i})
        BY <3>2, FS_Subset
      <4>7. /\ Cardinality({k \in S : k < f[2]}) <= Cardinality({k \in S : k < i})
            /\ Cardinality({k \in S : k < f[2]}) \in Nat /\ Cardinality({k \in S : k < i}) \in Nat
        BY <4>5, <4>6, FS_Subset, FS_CardinalityType
      <4>8. Cardinality({k \in S : k < f[2]}) < Batch
        BY <4>1, <4>7, FeedAssumption
      <4> QED BY <4>2, <4>4, <4>8 DEF FirstIds
    <3>4. drain.cur # NoEvent =>
            \A f \in Stored : f[2] < drain.cur[2] => f \in late \/ IsDelivered(f)
      BY DEF FeedInv, PassOrdered
    <3> HIDE DEF T, S
    <3> QED BY <1>1, <1>2, <3>1, <3>3, <3>4 DEF PassOrdered
  <2>2. CASE DrainWake \/ DrainDone
    <3>1. drain'.todo = {} /\ drain'.cur = NoEvent
      BY <1>3, <2>2 DEF DrainWake, DrainDone, Asleep
    <3> QED BY <3>1 DEF PassOrdered
  <2> QED BY <2>1, <2>2
<1>5. drain'.cur = drain.cur
  <2>1. drain.pc # "pass" => drain.cur = NoEvent
    BY DEF FeedInv, PassOrdered
  <2>2. CASE DrainWake
    BY <2>1, <2>2 DEF DrainWake, Asleep
  <2>3. CASE DrainSelect
    BY <1>3, <2>3 DEF DrainSelect
  <2>4. CASE DrainDone
    BY <1>3, <2>4 DEF DrainDone, Asleep
  <2> QED BY <2>2, <2>3, <2>4
<1>6. OnTheWay' /\ SentInOrder'
  BY <1>1, <1>2, <1>5 DEF FeedInv, OnTheWay, SentInOrder
<1> QED BY <1>1, <1>2, <1>4, <1>6 DEF FeedInv

\* The worker marks a row delivered, and will publish it next; or delivering
\* it fails, and the event is late.
LEMMA DeliverFeed ==
    ASSUME TypeOK, NumDomains = 1, FeedInv, DrainDeliver \/ DrainSkip
    PROVE  FeedInv'
<1>1. PICK e \in drain.todo :
        /\ IsLeast(drain.todo, e)
        /\ \/ /\ status' = [status EXCEPT ![e[1]][e[2]] = "delivered"]
              /\ drain' = [drain EXCEPT !.todo = @ \ {e}, !.cur = e]
              /\ late' = late
           \/ /\ drain' = [drain EXCEPT !.todo = @ \ {e}]
              /\ late' = late \cup {e}
              /\ status' = status
  BY DEF DrainDeliver, DrainSkip
<1>2. UNCHANGED <<sub, client, skipped>> /\ drain.pc = "pass" /\ drain.cur = NoEvent
  BY DEF DrainDeliver, DrainSkip
<1>3. /\ drain \in [pc : {"asleep", "select", "pass"}, dom : Domains,
                    todo : SUBSET Stored, cur : Stored \cup {NoEvent}]
      /\ drain.todo \subseteq Stored /\ e \in Stored
  BY DEF TypeOK
<1>4. drain'.pc = "pass" /\ drain'.todo = drain.todo \ {e}
  BY <1>1, <1>2, <1>3
<1>5. \/ drain'.cur = e /\ late' = late
      \/ drain'.cur = NoEvent /\ late' = late \cup {e}
  BY <1>1, <1>2, <1>3
<1>6. /\ Len(status'[1]) = Len(status[1])
      /\ \A f \in Stored : (IsDelivered(f) => IsDelivered(f)') /\ (IsDelivered(f)' => IsDelivered(f) \/ f = e)
      /\ e \in late' \/ IsDelivered(e)'
  <2>1. CASE status' = status /\ late' = late \cup {e}
    BY <2>1 DEF IsDelivered
  <2>2. CASE status' = [status EXCEPT ![e[1]][e[2]] = "delivered"]
    <3>1. /\ \A c \in Domains : Len(status'[c]) = Len(status[c])
          /\ status'[e[1]][e[2]] = "delivered"
          /\ \A f \in Stored : status'[f[1]][f[2]] = status[f[1]][f[2]] \/ f = e
      BY <1>3, <2>2, DeliverStatus
    <3> QED BY <3>1, OneDomain DEF IsDelivered
  <2> QED BY <1>1, <2>1, <2>2
<1>7. Stored' = Stored
  <2>1. CASE status' = status
    BY <2>1 DEF Stored, Ids
  <2>2. CASE status' = [status EXCEPT ![e[1]][e[2]] = "delivered"]
    <3>1. \A c \in Domains : DOMAIN status'[c] = DOMAIN status[c]
      <4>1. status \in [Domains -> Seq({"pending", "delivered"})]
        BY DEF TypeOK
      <4> QED BY <2>2, <4>1
    <3>2. \A c \in Domains : Ids(c)' = Ids(c)
      BY <3>1 DEF Ids, Domains
    <3> QED BY <3>2 DEF Stored, Domains
  <2> QED BY <1>1, <2>1, <2>2
<1>8. \A f \in Unseen' : f \in Unseen /\ f \notin late'
  BY <1>2, <1>5, <1>7 DEF Unseen, Owed
<1>9. /\ client.cursor <= Len(status[1])
      /\ \A f \in Unseen : f[2] > client.cursor
      /\ PassOrdered /\ OnTheWay /\ SentInOrder
  BY DEF FeedInv
<1>10. PassOrdered'
  <2>1. ASSUME NEW f \in Stored, f[2] < e[2] PROVE f \in late' \/ IsDelivered(f)'
    <3>1. f \notin drain.todo
      <4>1. f[1] = 1 /\ e[1] = 1 /\ f[2] \in Int /\ e[2] \in Int
        BY <1>3, OneDomain
      <4>2. f # e /\ ~ Before(e, f)
        BY <2>1, <4>1 DEF Before
      <4> QED BY <1>1, <4>2 DEF IsLeast
    <3>2. f \in late \/ IsDelivered(f)
      BY <1>9, <2>1, <3>1 DEF PassOrdered
    <3> QED BY <1>5, <1>6, <3>2
  <2>2. ASSUME NEW g \in drain.todo, NEW f \in Stored, f[2] < g[2]
        PROVE  f \in late' \/ IsDelivered(f)' \/ f \in drain.todo \ {e}
    <3>1. f \in late \/ IsDelivered(f) \/ f \in drain.todo
      BY <1>9, <2>2 DEF PassOrdered
    <3> QED BY <1>5, <1>6, <3>1
  <2> QED BY <1>4, <1>5, <1>7, <2>1, <2>2 DEF PassOrdered
<1>11. OnTheWay'
  <2> SUFFICES ASSUME sub.pc = "open", NEW f \in Unseen'
               PROVE  \/ f \in sub.prelude
                      \/ \E q \in DOMAIN sub.queue : sub.queue[q] = f
                      \/ f = drain'.cur
                      \/ ~ IsDelivered(f)'
    BY <1>2 DEF OnTheWay
  <2>1. f \in Unseen /\ f \in Stored /\ f \notin late' /\ f # NoEvent
    BY <1>8, OneDomain DEF Unseen
  <2>2. CASE ~ IsDelivered(f)
    <3>1. ~ IsDelivered(f)' \/ f = e
      BY <1>6, <2>1, <2>2
    <3> QED BY <1>5, <2>1, <3>1
  <2>3. CASE IsDelivered(f)
    BY <1>2, <1>9, <2>1, <2>3 DEF OnTheWay
  <2> QED BY <2>2, <2>3
<1>12. SentInOrder'
  BY <1>2, <1>8, <1>9 DEF SentInOrder
<1>13. client'.cursor <= Len(status'[1]) /\ \A f \in Unseen' : f[2] > client'.cursor
  BY <1>2, <1>6, <1>8, <1>9
<1> QED BY <1>10, <1>11, <1>12, <1>13 DEF FeedInv

\* A published event joins the queue behind every smaller one that is unseen;
\* what the bus drops for it is skipped.
LEMMA PublishFeed ==
    ASSUME TypeOK, NumDomains = 1, FeedInv, publish
    PROVE  FeedInv'
<1> DEFINE c == drain.cur
           n == Len(sub.queue)
<1>1. /\ c # NoEvent /\ drain' = [drain EXCEPT !.cur = NoEvent]
      /\ UNCHANGED <<status, client, late>>
  BY DEF publish
<1>2. /\ drain \in [pc : {"asleep", "select", "pass"}, dom : Domains,
                    todo : SUBSET Stored, cur : Stored \cup {NoEvent}]
      /\ c \in Stored
      /\ sub \in [pc : {"closed", "joined", "open"}, dom : Domains,
                  prelude : SUBSET Stored, queue : Seq(Stored)]
      /\ n <= Buffer
  BY <1>1 DEF TypeOK
<1>3. drain'.cur = NoEvent /\ drain'.todo = drain.todo /\ drain'.pc = drain.pc
  BY <1>1, <1>2
<1>4. Stored' = Stored /\ (\A e : IsDelivered(e)' = IsDelivered(e)) /\ skipped \subseteq skipped'
  BY <1>1 DEF Stored, Ids, IsDelivered, publish
<1>5. Unseen' \subseteq Unseen /\ \A f \in Unseen' : f \notin skipped'
  BY <1>1, <1>4 DEF Unseen, Owed
<1>6. /\ client.cursor <= Len(status[1])
      /\ \A f \in Unseen : f[2] > client.cursor
      /\ PassOrdered /\ OnTheWay /\ SentInOrder
  BY DEF FeedInv
<1>7. PassOrdered'
  BY <1>1, <1>3, <1>4, <1>6 DEF PassOrdered
<1>8. client'.cursor <= Len(status'[1]) /\ \A f \in Unseen' : f[2] > client'.cursor
  BY <1>1, <1>5, <1>6
<1>9. CASE sub.pc # "open"
  <2>1. sub'.pc # "open"
    BY <1>2, <1>9 DEF publish
  <2> QED BY <1>7, <1>8, <2>1 DEF FeedInv, OnTheWay, SentInOrder
<1>10. CASE sub.pc = "open"
  <2> DEFINE q == Send(sub.queue, c)
  <2>1. /\ sub'.pc = "open" /\ sub'.prelude = sub.prelude /\ sub'.queue = q
        /\ skipped' = skipped \cup Dropped(sub.queue)
    BY <1>2, <1>10 DEF publish
  <2>2. /\ q \in Seq(Stored) /\ Len(q) <= Buffer
        /\ \/ /\ Len(q) = n + 1 /\ q[n + 1] = c
              /\ \A i \in 1 .. n : q[i] = sub.queue[i]
           \/ /\ n >= 1 /\ Dropped(sub.queue) = {sub.queue[1]}
              /\ Len(q) = n /\ q[n] = c
              /\ \A i \in 1 .. (n - 1) : q[i] = sub.queue[i + 1]
    <3>1. sub.queue \in Seq(Stored) /\ c \in Stored /\ Len(sub.queue) <= Buffer
      BY <1>2
    <3> HIDE DEF c
    <3>2. Sent(Stored, sub.queue, c, Send(sub.queue, c))
      BY <3>1, SendFacts
    <3> QED BY <3>2, Zenon DEF Sent
  <2>3. n \in Nat /\ DOMAIN sub.queue = 1 .. n /\ \A i \in 1 .. n : sub.queue[i] \in Stored
    BY QueueFacts
  <2>4. Len(q) \in Nat /\ DOMAIN q = 1 .. Len(q)
    BY <2>2
  <2> HIDE DEF q, c, n
  <2>5. ASSUME NEW f \in Unseen',
               f \notin sub.prelude, NEW i \in 1 .. n, sub.queue[i] = f
        PROVE  \E j \in 1 .. Len(q) : q[j] = f /\ (Len(q) = n + 1 => j = i) /\ (Len(q) = n => j = i - 1)
    <3>1. CASE Len(q) = n + 1 /\ \A k \in 1 .. n : q[k] = sub.queue[k]
      <4>1. i \in 1 .. Len(q) /\ q[i] = f
        BY <2>3, <2>5, <3>1
      <4> QED BY <2>3, <3>1, <4>1
    <3>2. CASE /\ n >= 1 /\ Dropped(sub.queue) = {sub.queue[1]} /\ Len(q) = n
               /\ \A k \in 1 .. (n - 1) : q[k] = sub.queue[k + 1]
      <4>1. i # 1
        BY <1>5, <2>1, <2>5, <3>2
      <4>2. i - 1 \in 1 .. (n - 1) /\ (i - 1) + 1 = i
        BY <2>3, <4>1
      <4>3. q[i - 1] = f /\ i - 1 \in 1 .. Len(q)
        BY <2>3, <2>5, <3>2, <4>2
      <4> QED BY <2>3, <3>2, <4>3
    <3> QED BY <2>2, <3>1, <3>2
  <2>6. q[Len(q)] = c /\ Len(q) \in 1 .. Len(q)
    BY <2>2, <2>3
  <2>7. OnTheWay'
    <3> SUFFICES ASSUME NEW f \in Unseen', f \notin sub.prelude, IsDelivered(f)
                 PROVE  \E j \in DOMAIN q : q[j] = f
      BY <1>4, <2>1 DEF OnTheWay
    <3>1. f = c \/ \E i \in DOMAIN sub.queue : sub.queue[i] = f
      BY <1>5, <1>6, <1>10 DEF OnTheWay, c
    <3>2. CASE f = c
      BY <2>4, <2>6, <3>2
    <3>3. CASE \E i \in DOMAIN sub.queue : sub.queue[i] = f
      BY <2>3, <2>4, <2>5, <3>3
    <3> QED BY <3>1, <3>2, <3>3
  <2>8. ASSUME NEW p \in 1 .. Len(q), NEW f \in Unseen', f[2] < q[p][2], f \notin sub.prelude
        PROVE  \E j \in 1 .. (p - 1) : q[j] = f
    <3>0. f \in Stored /\ f \in Unseen
      BY <1>5 DEF Unseen
    <3>1. CASE p = Len(q)
      <4>1. f[2] < c[2] /\ f # c
        BY <1>2, <2>6, <2>8, <3>0, <3>1, OneDomain DEF c
      <4>2. f \in late \/ IsDelivered(f)
        BY <1>1, <1>6, <3>0, <4>1 DEF PassOrdered, c
      <4>3. IsDelivered(f)
        BY <3>0, <4>2 DEF Unseen
      <4>4. PICK i \in 1 .. n : sub.queue[i] = f
        BY <1>6, <1>10, <2>3, <2>8, <3>0, <4>1, <4>3 DEF OnTheWay, c
      <4>5. PICK j \in 1 .. Len(q) : q[j] = f
        BY <2>5, <2>8, <4>4
      <4>6. j # Len(q)
        BY <2>6, <4>1, <4>5
      <4>7. j \in 1 .. (p - 1)
        <5> HIDE DEF n
        <5>1. p = Len(q) /\ Len(q) \in Nat
          BY <2>4, <3>1
        <5> QED BY ONLY <5>1, <4>6, j \in 1 .. Len(q)
      <4> QED BY <4>5, <4>7
    <3>2. CASE p # Len(q)
      <4>1. CASE Len(q) = n + 1 /\ \A k \in 1 .. n : q[k] = sub.queue[k]
        <5>1. p \in 1 .. n /\ q[p] = sub.queue[p]
          BY <2>3, <3>2, <4>1
        <5>2. PICK i \in 1 .. (p - 1) : sub.queue[i] = f
          BY <1>6, <1>10, <2>3, <2>8, <3>0, <5>1 DEF SentInOrder
        <5>3. i \in 1 .. n /\ q[i] = f
          BY <2>3, <4>1, <5>1, <5>2
        <5> QED BY <5>2, <5>3
      <4>2. CASE /\ n >= 1 /\ Dropped(sub.queue) = {sub.queue[1]} /\ Len(q) = n
                 /\ \A k \in 1 .. (n - 1) : q[k] = sub.queue[k + 1]
        <5>1. p \in 1 .. (n - 1) /\ p + 1 \in 1 .. n /\ q[p] = sub.queue[p + 1]
          BY <2>3, <3>2, <4>2
        <5>2. PICK i \in 1 .. ((p + 1) - 1) : sub.queue[i] = f
          BY <1>6, <1>10, <2>3, <2>8, <3>0, <5>1 DEF SentInOrder
        <5>3. i # 1
          BY <1>5, <2>1, <4>2, <5>2
        <5>4. i - 1 \in 1 .. (p - 1) /\ i - 1 \in 1 .. (n - 1) /\ (i - 1) + 1 = i
          BY <2>3, <5>1, <5>2, <5>3
        <5>5. q[i - 1] = f
          BY <4>2, <5>2, <5>4
        <5> QED BY <5>4, <5>5
      <4> QED BY <2>2, <4>1, <4>2
    <3> QED BY <3>1, <3>2
  <2>9. SentInOrder'
    <3>1. \A e \in sub.prelude, f \in Unseen' : f[2] < e[2] => f \in sub.prelude
      BY <1>5, <1>6, <1>10 DEF SentInOrder
    <3> QED BY <2>1, <2>4, <2>8, <3>1 DEF SentInOrder
  <2> QED BY <1>7, <1>8, <2>7, <2>9 DEF FeedInv
<1> QED BY <1>9, <1>10

\* The replay: every unseen event is among the rows it puts before the bus.
LEMMA ReplayFeed ==
    ASSUME TypeOK, NumDomains = 1, FeedInv, workflow_replay_since \/ ReplayError
    PROVE  FeedInv'
<1> DEFINE past == {<<1, i>> : i \in Past(1)}
           batch == FirstIds(1, Past(1), Batch)
<1>1. sub.dom = 1
  BY OneDomain DEF TypeOK
<1>2. PICK replayed :
        /\ ReplayNext(replayed)
        /\ \/ replayed = batch /\ skipped' = (skipped \ batch) \cup (past \ batch)
           \/ replayed = {} /\ skipped' = skipped \cup past
  BY <1>1 DEF workflow_replay_since, ReplayError
<1>3. /\ sub.pc = "joined" /\ UNCHANGED <<status, drain, client, late>>
      /\ sub'.pc = "open" /\ sub'.prelude = sub.prelude \cup replayed /\ sub'.queue = sub.queue
  BY <1>1, <1>2 DEF ReplayNext, TypeOK
<1>4. Stored' = Stored /\ \A e : IsDelivered(e)' = IsDelivered(e)
  BY <1>3 DEF Stored, Ids, IsDelivered
<1>5. \A f \in past : f[2] > client.cursor
  BY DEF Past
<1>6. batch \subseteq past
  BY DEF FirstIds
<1>7. \A f \in Stored : client.cursor # None /\ f[2] > client.cursor => f \in past
  <2> SUFFICES ASSUME NEW f \in Stored, client.cursor # None, f[2] > client.cursor
               PROVE  f \in past
    OBVIOUS
  <2>1. f = <<1, f[2]>> /\ f[2] \in Ids(1)
    BY OneDomain DEF Ids, TypeOK
  <2> QED BY <2>1 DEF Past
<1> HIDE DEF past, batch
<1>8. /\ client.cursor <= Len(status[1])
      /\ \A f \in Unseen : f[2] > client.cursor
      /\ PassOrdered
  BY DEF FeedInv
<1>9. ASSUME NEW f \in Unseen' PROVE f \in replayed /\ f[2] > client.cursor
  <2>1. /\ f \in Stored /\ client.cursor # None /\ f \notin skipped'
        /\ f \in Unseen \/ f \in skipped
    BY <1>3, <1>4, <1>9 DEF Unseen, Owed
  <2>2. f[2] > client.cursor
    BY <1>2, <1>5, <1>6, <1>8, <2>1
  <2>3. f \in past
    BY <1>7, <2>1, <2>2
  <2> QED BY <1>2, <2>1, <2>2, <2>3
<1>10. PassOrdered'
  BY <1>3, <1>4, <1>8 DEF PassOrdered
<1>11. OnTheWay' /\ SentInOrder'
  BY <1>3, <1>9 DEF OnTheWay, SentInOrder
<1> QED BY <1>3, <1>8, <1>9, <1>10, <1>11 DEF FeedInv

\* What the client shows next is the smallest unseen event, or smaller than
\* every unseen one.
LEMMA ReceiveFeed ==
    ASSUME TypeOK, NumDomains = 1, FeedInv, Receive
    PROVE  FeedInv'
<1>1. UNCHANGED <<status, drain, late, skipped>> /\ sub.pc = "open"
  BY DEF Receive
<1>2. Stored' = Stored /\ \A e : IsDelivered(e)' = IsDelivered(e)
  BY <1>1 DEF Stored, Ids, IsDelivered
<1>3. /\ client.cursor <= Len(status[1])
      /\ \A f \in Unseen : f[2] > client.cursor
      /\ PassOrdered /\ OnTheWay /\ SentInOrder
  BY DEF FeedInv
<1>4. /\ sub \in [pc : {"closed", "joined", "open"}, dom : Domains,
                  prelude : SUBSET Stored, queue : Seq(Stored)]
      /\ Len(sub.queue) \in Nat /\ DOMAIN sub.queue = 1 .. Len(sub.queue)
      /\ \A p \in DOMAIN sub.queue : sub.queue[p] \in Stored
  BY QueueFacts DEF TypeOK
<1>5. PassOrdered'
  BY <1>1, <1>2, <1>3 DEF PassOrdered
<1>6. ASSUME NEW e \in Stored, client' = Seen(e),
             \A f \in Unseen : f[2] < e[2] => f = e
      PROVE  /\ client'.cursor <= Len(status'[1])
             /\ \A f \in Unseen' : f \in Unseen /\ f # e /\ f[2] > client'.cursor
  <2>1. /\ client'.cursor = IF e[2] > client.cursor THEN e[2] ELSE client.cursor
        /\ client'.shown = client.shown \cup {e}
        /\ client.cursor # None => client'.since = client.since
        /\ client.cursor = None => client'.since = [d \in Domains |-> Len(status[d])]
    BY <1>6, SeenType
  <2>2. /\ client.cursor \in Nat /\ Len(status[1]) \in Nat
        /\ \A f \in Stored : f[1] = 1 /\ f[2] \in Nat /\ f[2] <= Len(status[1])
        /\ \A f \in Stored : f[2] = e[2] => f = e
    BY OneDomain
  <2>3. client'.cursor <= Len(status'[1])
    BY <1>1, <1>3, <1>6, <2>1, <2>2
  <2>4. ASSUME NEW f \in Unseen' PROVE f \in Unseen /\ f # e
    <3>1. /\ f \in Stored /\ f[2] > client'.since[f[1]] /\ f \notin client'.shown
          /\ f \notin late /\ f \notin skipped /\ f[1] = 1
      BY <1>1, <1>2, <2>2, <2>4 DEF Unseen, Owed
    <3>2. client.cursor # None
      BY <2>1, <2>2, <3>1, OneDomain
    <3> QED BY <2>1, <3>1, <3>2 DEF Unseen, Owed
  <2>5. ASSUME NEW f \in Unseen' PROVE f[2] > client'.cursor
    <3>1. f \in Stored /\ f \in Unseen /\ f # e /\ f[2] > client.cursor
      BY <1>3, <2>4 DEF Unseen
    <3> QED BY <1>6, <2>1, <2>2, <3>1
  <2> QED BY <2>3, <2>4, <2>5
<1>7. ASSUME NEW e \in sub.prelude, IsLeast(sub.prelude, e), client' = Seen(e),
             sub' = [sub EXCEPT !.prelude = @ \ {e}]
      PROVE  FeedInv'
  <2>1. e \in Stored /\ sub.prelude \subseteq Stored
    BY <1>4
  <2>2. \A f \in Unseen : f[2] < e[2] => f = e
    <3> SUFFICES ASSUME NEW f \in Unseen, f[2] < e[2] PROVE FALSE
      OBVIOUS
    <3>1. f \in sub.prelude
      BY <1>1, <1>3 DEF SentInOrder
    <3> QED BY <1>7, <2>1, <3>1, OneDomain DEF IsLeast, Before
  <2>3. /\ client'.cursor <= Len(status'[1])
        /\ \A f \in Unseen' : f \in Unseen /\ f # e /\ f[2] > client'.cursor
    BY <1>6, <1>7, <2>1, <2>2
  <2>4. sub'.prelude = sub.prelude \ {e} /\ sub'.queue = sub.queue /\ sub'.pc = "open"
    BY <1>1, <1>4, <1>7
  <2>5. OnTheWay'
    BY <1>1, <1>2, <1>3, <2>3, <2>4 DEF OnTheWay
  <2>6. SentInOrder'
    BY <1>1, <1>3, <2>3, <2>4 DEF SentInOrder
  <2> QED BY <1>5, <2>3, <2>5, <2>6 DEF FeedInv
<1>8. ASSUME sub.prelude = {}, sub.queue # <<>>, client' = Seen(Head(sub.queue)),
             sub' = [sub EXCEPT !.queue = Tail(@)]
      PROVE  FeedInv'
  <2> DEFINE e == sub.queue[1]
             n == Len(sub.queue)
             q == Tail(sub.queue)
  <2>1. /\ q \in Seq(Stored) /\ Len(q) = n - 1 /\ n \in Nat \ {0}
        /\ Head(sub.queue) = e /\ e \in Stored
        /\ \A i \in 1 .. (n - 1) : q[i] = sub.queue[i + 1]
    BY <1>4, <1>8, TailFacts
  <2>2. sub'.prelude = {} /\ sub'.queue = q /\ sub'.pc = "open" /\ DOMAIN q = 1 .. (n - 1)
    BY <1>1, <1>4, <1>8, <2>1
  <2>3. DOMAIN sub.queue = 1 .. n /\ 1 \in DOMAIN sub.queue
    BY <1>4, <2>1
  <2> HIDE DEF q, n
  <2>4. \A f \in Unseen : f[2] < e[2] => f = e
    <3> SUFFICES ASSUME NEW f \in Unseen, f[2] < e[2] PROVE FALSE
      OBVIOUS
    <3>1. \E i \in 1 .. (1 - 1) : sub.queue[i] = f
      BY <1>1, <1>3, <1>8, <2>3 DEF SentInOrder
    <3> QED BY <3>1
  <2> HIDE DEF e
  <2>5. /\ client'.cursor <= Len(status'[1])
        /\ \A f \in Unseen' : f \in Unseen /\ f # e /\ f[2] > client'.cursor
    BY <1>6, <1>8, <2>1, <2>4
  <2>6. ASSUME NEW f \in Unseen', NEW i \in 1 .. n, sub.queue[i] = f
        PROVE  i - 1 \in 1 .. (n - 1) /\ q[i - 1] = f
    <3>1. i # 1
      BY <2>5, <2>6 DEF e
    <3>2. i - 1 \in 1 .. (n - 1) /\ (i - 1) + 1 = i
      BY <2>1, <3>1
    <3> QED BY <2>1, <2>6, <3>2
  <2>7. OnTheWay'
    <3> SUFFICES ASSUME NEW f \in Unseen', IsDelivered(f), f # drain.cur
                 PROVE  \E j \in DOMAIN q : q[j] = f
      BY <1>1, <1>2, <2>2 DEF OnTheWay
    <3>1. PICK i \in 1 .. n : sub.queue[i] = f
      BY <1>1, <1>3, <1>8, <2>3, <2>5 DEF OnTheWay
    <3> QED BY <2>2, <2>6, <3>1
  <2>8. SentInOrder'
    <3> SUFFICES ASSUME NEW p \in 1 .. (n - 1), NEW f \in Unseen', f[2] < q[p][2]
                 PROVE  \E j \in 1 .. (p - 1) : q[j] = f
      BY <2>2 DEF SentInOrder
    <3>1. p + 1 \in 1 .. n /\ q[p] = sub.queue[p + 1]
      BY <2>1
    <3>2. PICK i \in 1 .. ((p + 1) - 1) : sub.queue[i] = f
      BY <1>1, <1>3, <1>8, <2>3, <2>5, <3>1 DEF SentInOrder
    <3>3. i \in 1 .. n
      BY <2>1, <3>2
    <3>4. i - 1 \in 1 .. (n - 1) /\ q[i - 1] = f
      BY <2>6, <3>2, <3>3
    <3>5. i - 1 \in 1 .. (p - 1)
      BY <2>1, <3>2, <3>4
    <3> QED BY <3>4, <3>5
  <2> QED BY <1>5, <2>5, <2>7, <2>8 DEF FeedInv
<1> QED BY <1>7, <1>8 DEF Receive

\* Joining the bus, losing the connection and killing the server leave the
\* table and the client: the replay of the next connection starts from them.
LEMMA CloseFeed ==
    ASSUME TypeOK, NumDomains = 1, FeedInv, Subscribe \/ Disconnect \/ Crash
    PROVE  FeedInv'
<1>1. UNCHANGED <<status, client, late, skipped>> /\ (drain' = drain \/ drain' = Asleep)
  BY DEF Subscribe, Disconnect, Crash
<1>2. sub'.pc # "open"
  BY DEF Subscribe, Disconnect, Crash, Closed
<1>3. Unseen' = Unseen /\ Stored' = Stored /\ \A e : IsDelivered(e)' = IsDelivered(e)
  BY <1>1, UnseenSame
<1>4. /\ client.cursor <= Len(status[1])
      /\ \A f \in Unseen : f[2] > client.cursor
      /\ PassOrdered
  BY DEF FeedInv
<1>5. PassOrdered'
  BY <1>1, <1>3, <1>4 DEF PassOrdered, Asleep
<1> QED BY <1>1, <1>2, <1>3, <1>4, <1>5 DEF FeedInv, OnTheWay, SentInOrder

\* Every step keeps the invariant of the feed.
LEMMA NextFeed ==
    ASSUME TypeOK, NumDomains = 1, FeedInv, [Next]_vars PROVE FeedInv'
<1>1. TypeOK'
  BY NextType
<1>2. CASE UNCHANGED vars
  <2>1. UNCHANGED <<status, drain, sub, client, late, skipped>>
    BY <1>2 DEF vars
  <2>2. Unseen' = Unseen /\ Stored' = Stored /\ \A e : IsDelivered(e)' = IsDelivered(e)
    BY <2>1, UnseenSame
  <2> QED BY <2>1, <2>2 DEF FeedInv, PassOrdered, OnTheWay, SentInOrder
<1> QED BY <1>1, <1>2, CommitFeed, SelectFeed, DeliverFeed, PublishFeed, ReplayFeed, ReceiveFeed,
          CloseFeed DEF Next

\* The client of one domain misses an event only when its delivery failed once,
\* when the client lagged by more than the bus holds, or when the last replay
\* that reached it left it out: for any number of events, any batch and buffer,
\* and any number of lost connections and kills, also between deliver and
\* publish and between joining the bus and the replay.
THEOREM GapsAlwaysExplained == ASSUME NumDomains = 1 PROVE Spec => []GapsExplained
<1>1. Init => TypeOK /\ FeedInv
  BY InitType, InitFeed
<1>2. TypeOK /\ FeedInv /\ [Next]_vars => (TypeOK /\ FeedInv)'
  BY NextType, NextFeed
<1>3. TypeOK /\ FeedInv => GapsExplained
  <2> SUFFICES ASSUME TypeOK, FeedInv, NEW e \in Stored, Missed(e), e \notin late, e \notin skipped
               PROVE  FALSE
    BY DEF GapsExplained
  <2>1. e \in Unseen
    BY DEF Unseen, Missed
  <2>2. e[2] > client.cursor /\ e[2] <= client.cursor
    BY <2>1 DEF FeedInv, Missed
  <2> QED BY <2>2, OneDomain
<1> QED BY <1>1, <1>2, <1>3, PTL DEF Spec
=============================================================================
