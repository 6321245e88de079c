---------------------------- MODULE ClientQueue ----------------------------
(***************************************************************************)
(* The desktop client's offline queue: src/client/src/queue.rs, the review *)
(* list and detail page of src/client/src/panels/review.rs that fill it,   *)
(* the replay effect of src/client/src/main.rs and the banner of           *)
(* src/client/src/replay.rs, against a server that decides proposals once. *)
(*                                                                         *)
(* A write whose call ends in a network error is queued, although the      *)
(* server may have served it, or may serve it later: the client's timeout  *)
(* takes nothing off the wire.  Approvals and rejections are replayed by   *)
(* themselves when the connection is up; erasures wait for the operator.   *)
(* The client is single-threaded: what runs between two awaits is one      *)
(* step, and the queue is saved in the step that changes it, so a reload   *)
(* finds it as it was, without the requests under way.                     *)
(***************************************************************************)
EXTENDS Naturals, Sequences, FiniteSets

CONSTANTS
    Proposals, Contents,
    Erasures,       \* purges and subject requests
    MaxTasks,       \* bound: tasks of the client at a time
    MaxQueued,      \* MAX_QUEUED_ACTIONS
    MaxRetries,     \* MAX_REPLAY_RETRIES
    MaxClicks,      \* bound: writes the operator issues
    MaxFaults,      \* bound: network errors, lost connections and reloads
    None

ASSUME ClientAssumption ==
    /\ MaxQueued \in Nat \ {0} /\ MaxRetries \in Nat \ {0}
    /\ MaxTasks \in Nat /\ MaxClicks \in Nat /\ MaxFaults \in Nat
    /\ Contents # {} /\ None \notin Contents

\* An approval names the bytes it decides by their digest, or none: the server
\* refuses the latter.
Approve == [kind : {"approve"}, id : Proposals, digest : Contents \cup {None}]
Reject == [kind : {"reject"}, id : Proposals, digest : {None}]
Erase == [kind : {"erase"}, id : Erasures, digest : {None}]
Actions == Approve \cup Reject \cup Erase
Item == [act : Actions, retries : Nat]

VARIABLES
    \* the server
    status, content,  \* of each proposal
    erased,           \* history: times each erasure was carried out
    \* the wire
    late,             \* requests whose sender has given up
    \* the client
    queue,            \* Seq(Item), in memory and in localStorage
    kept,             \* the rows of the review banner
    conn,             \* "down", "recovering" (green, writes frozen) or "up"
    task,             \* calls under way: what for, what is left, the answer
    listed,           \* digests: of each proposal in the review list, as rendered
    picked,           \* proposals approved in the list whose call is still to start
    \* history
    shown,            \* approvals of what this client has displayed
    asked,            \* proposals the operator approved
    clicks,           \* erasure -> times the operator sent it
    owed,             \* decisions queued for replay and not yet answered
    issued, faults

server == <<status, content, erased>>
list == <<listed, picked>>
client == <<queue, kept, conn, task, listed, picked>>
said == <<shown, asked>>
hist == <<shown, asked, clicks, owed>>
vars == <<status, content, erased, late, queue, kept, conn, task, listed, picked,
          shown, asked, clicks, owed, issued, faults>>

Free == [by |-> "none", rest |-> <<>>, net |-> "none"]
Running(t) == task[t].by # "none"
\* Slots are taken in order.
NextFree(t) == ~Running(t) /\ \A u \in 1 .. t - 1 : Running(u)
Slots == 1 .. MaxTasks
Current(t) == Head(task[t].rest)
Launch(t, by, items) == task' = [task EXCEPT ![t] = [by |-> by, rest |-> items, net |-> "sent"]]
Has(q, a) == \E i \in DOMAIN q : q[i].act = a
Approval(p, d) == [kind |-> "approve", id |-> p, digest |-> d]
\* An approval of p that carries the digest the list has now, if it has one.
AsListed(p) == [act |-> Approval(p, listed[p]), retries |-> 0]
Unlisted == [p \in Proposals |-> None]

-----------------------------------------------------------------------------
(* queue.rs                                                                *)

is_destructive(a) == a.kind = "erase"
\* Mutant: only a spent retry budget parks.
is_parked_Budget(item) == item.retries >= MaxRetries
is_parked(item) == is_destructive(item.act) \/ item.retries >= MaxRetries
Unparked(item) == ~is_parked(item)
\* The items of q at some positions, in their order.
Subsequence(q, at) ==
    LET Nth(n) == CHOOSE i \in at : Cardinality({j \in at : j < i}) = n - 1
    IN  [n \in 1 .. Cardinality(at) |-> q[Nth(n)]]
parked(q) == Subsequence(q, {i \in DOMAIN q : is_parked(q[i])})
replayable(q) == Subsequence(q, {i \in DOMAIN q : Unparked(q[i])})

\* The oldest goes when the queue is full; an action already there stays as it is.
queue_add(q, item) ==
    IF Has(q, item.act) THEN q
    ELSE Append(IF Len(q) >= MaxQueued THEN Tail(q) ELSE q, item)

\* The drain took the fired copy: only an action queued again meanwhile is found,
\* the first of its copies.
requeue_in(q, a) ==
    LET twins == {i \in DOMAIN q : q[i].act = a}
    IN  [i \in DOMAIN q |-> IF i \in twins /\ \A j \in twins : i <= j
                            THEN [q[i] EXCEPT !.retries = @ + 1] ELSE q[i]]

replace_parked(q, rows) ==
    LET auto == replayable(q)
        fresh == {i \in DOMAIN rows : \A j \in DOMAIN auto : auto[j] # rows[i]}
    IN  auto \o Subsequence(rows, fresh)

\* history: the oldest action, if it has to make room.
Evicted(item) ==
    IF Len(queue) >= MaxQueued /\ ~Has(queue, item.act) THEN {Head(queue).act} ELSE {}

\* The action will be replayed without the operator.
Due(q, a) == \E i \in DOMAIN q : q[i].act = a /\ Unparked(q[i])

\* The action is queued and saved; the banner goes with the last parked item.
enqueue(item) ==
    /\ queue' = queue_add(queue, item)
    /\ kept' = IF parked(queue') = <<>> THEN <<>> ELSE kept
    /\ owed' = (IF Due(queue', item.act) THEN owed \cup {item.act} ELSE owed) \ Evicted(item)

\* history: the server has answered the action, and no other copy of it is due.
Answered(q, a) == owed' = IF Due(q, a) THEN owed ELSE owed \ {a}

-----------------------------------------------------------------------------
(* The server: a proposal is decided once, by a request that carries the   *)
(* digest of what it holds (Review); any request may also be refused.      *)

Decide(p, s) == status' = [status EXCEPT ![p] = s] /\ UNCHANGED <<content, erased>>

\* Serves action a; the answer is one of "ok", "gone" (404) and "refused".
Handle(a, answer) ==
    \/ /\ a.kind = "approve" /\ status[a.id] = "pending" /\ content[a.id] = a.digest
       /\ answer = "ok"
       /\ Decide(a.id, "approved") \/ UNCHANGED server    \* the first of a quorum
    \/ /\ a.kind = "reject" /\ status[a.id] = "pending"
       /\ answer = "ok"
       /\ Decide(a.id, "rejected")
    \/ /\ a.kind \in {"approve", "reject"} /\ status[a.id] # "pending"
       /\ answer = "gone"
       /\ UNCHANGED server
    \/ /\ a.kind = "erase"
       /\ answer = "ok"
       /\ erased' = [erased EXCEPT ![a.id] = @ + 1] /\ UNCHANGED <<status, content>>
    \/ answer = "refused" /\ UNCHANGED server

\* Mutant: a replay asks for the digest of what is there now.
Wire_Fresh(t) ==
    LET a == Current(t).act
    IN  IF task[t].by = "auto" /\ a.kind = "approve" THEN [a EXCEPT !.digest = content[a.id]] ELSE a
\* The request of a call: the action as it was queued.
Wire(t) == Current(t).act

Serve(t) ==
    /\ task[t].net = "sent"
    /\ \E answer \in {"ok", "gone", "refused"} :
          /\ Handle(Wire(t), answer)
          /\ task' = [task EXCEPT ![t].net = answer]
    /\ UNCHANGED <<late, queue, kept, conn, list, hist, issued, faults>>

ServeLate(a) ==
    /\ a \in late
    /\ \E answer \in {"ok", "gone", "refused"} : Handle(a, answer)
    /\ late' = late \ {a}
    /\ UNCHANGED <<client, hist, issued, faults>>

\* Another reviewer edits or decides a pending proposal.
OtherReviewer(p) ==
    /\ status[p] = "pending"
    /\ \/ /\ \E c \in Contents \ {content[p]} : content' = [content EXCEPT ![p] = c]
          /\ UNCHANGED status
       \/ status' = [status EXCEPT ![p] = "other"] /\ UNCHANGED content
    /\ UNCHANGED <<erased, late, client, hist, issued, faults>>

-----------------------------------------------------------------------------
(* The client                                                              *)

\* The list of pending proposals is loaded again, or fails to load.
ListRefresh ==
    /\ \/ listed' = [p \in Proposals |-> IF status[p] = "pending" THEN content[p] ELSE None]
       \/ listed' = Unlisted
    /\ shown' = shown \cup {Approval(p, listed'[p]) : p \in {q \in Proposals : listed'[q] # None}}
    /\ UNCHANGED <<server, late, queue, kept, conn, task, picked, asked, clicks, owed>>
    /\ UNCHANGED <<issued, faults>>

\* The operator approves one proposal of the list, or a batch.  A key looks at the
\* list only, not at whether writes are frozen; a selection outlives the list.
ListPick(S) ==
    /\ S # {} /\ issued < MaxClicks
    /\ conn = "up" \/ \E p \in S : S = {p} /\ listed[p] # None
    /\ picked' = picked \cup S
    /\ asked' = asked \cup S
    /\ issued' = issued + 1
    /\ UNCHANGED <<server, late, queue, kept, conn, task, listed, shown, clicks, owed, faults>>

\* Each call reads the digest when it starts.
ListCall(t, p) ==
    /\ p \in picked /\ NextFree(t)
    /\ Launch(t, "list", <<AsListed(p)>>)
    /\ picked' = picked \ {p}
    /\ UNCHANGED <<server, late, queue, kept, conn, listed, hist, issued, faults>>

\* The operator approves on the detail page what it displays, edited since or not,
\* rejects, or sends an erasure.
Click(t, a) ==
    /\ conn = "up" /\ NextFree(t) /\ issued < MaxClicks
    /\ a.kind = "approve" => a.digest = content[a.id] \/ a \in shown
    /\ Launch(t, "operator", <<[act |-> a, retries |-> 0]>>)
    /\ asked' = asked \cup {b.id : b \in {a} \cap Approve} /\ shown' = shown \cup ({a} \cap Approve)
    /\ clicks' = IF a.kind = "erase" THEN [clicks EXCEPT ![a.id] = @ + 1] ELSE clicks
    /\ issued' = issued + 1
    /\ UNCHANGED <<server, late, queue, kept, conn, list, owed, faults>>

\* The effect of main.rs is subscribed to the connection and to the queue, and
\* so due whenever it finds something: it drains what replays by itself and sends
\* it, one call after the other.
ReplayEffect(t) ==
    /\ conn # "down" /\ replayable(queue) # <<>> /\ NextFree(t)
    /\ queue' = parked(queue) /\ Launch(t, "auto", replayable(queue))
    /\ UNCHANGED <<server, late, kept, conn, list, hist, issued, faults>>

\* On to the next action of the task, if there is one.
Advance(t) ==
    LET rest == task[t].rest
    IN  task' = [task EXCEPT ![t] = IF Len(rest) = 1 THEN Free
                                    ELSE [by |-> task[t].by, rest |-> Tail(rest), net |-> "sent"]]

\* The current call of the task has ended with one of these.
Ended(t, by, nets) == task[t].by = by /\ task[t].net \in nets

\* A call of a panel ends with an answer ...
PanelAnswered(t) ==
    /\ \E by \in {"operator", "list"} : Ended(t, by, {"ok", "gone", "refused"})
    /\ Answered(queue, Current(t).act)
    /\ Advance(t)
    /\ UNCHANGED <<server, late, queue, kept, conn, list, said, clicks, issued, faults>>

\* ... or with a network error, which queues the action ...
PanelOffline(t) ==
    /\ Ended(t, "operator", {"offline"})
    /\ enqueue(Current(t))
    /\ Advance(t)
    /\ UNCHANGED <<server, late, conn, list, said, clicks, issued, faults>>

\* ... or, from the list, an approval with the digest the list has by now.
ListOffline(t) ==
    /\ Ended(t, "list", {"offline"})
    /\ enqueue(AsListed(Current(t).act.id))
    /\ Advance(t)
    /\ UNCHANGED <<server, late, conn, list, said, clicks, issued, faults>>

\* A request that was sent may still be on its way when its call is gone.
Abandoned(T) ==
    \E S \in SUBSET {Wire(t) : t \in {u \in T : task[u].net = "sent"}} : late' = late \cup S

\* The operator leaves the panel, and its call is dropped without an end.
LeavePanel(t) ==
    /\ task[t].by = "operator"
    /\ Abandoned({t})
    /\ task' = [task EXCEPT ![t] = Free]
    /\ UNCHANGED <<server, queue, kept, conn, list, hist, issued, faults>>

\* The operator leaves the list, which is gone with its calls and its picks.
LeaveList ==
    LET gone == {t \in Slots : task[t].by = "list"}
    IN  /\ Abandoned(gone)
        /\ task' = [t \in Slots |-> IF t \in gone THEN Free ELSE task[t]]
        /\ listed' = Unlisted /\ picked' = {}
        /\ UNCHANGED <<server, queue, kept, conn, hist, issued, faults>>

\* A replay ends: served, or already decided.
ReplayApplied(t) ==
    /\ Ended(t, "auto", {"ok", "gone"})
    /\ Answered(queue, Current(t).act)
    /\ Advance(t)
    /\ UNCHANGED <<server, late, queue, kept, conn, list, said, clicks, issued, faults>>

\* Mutant: a network error is taken for a failed replay.
ReplayOffline_Requeue(t) ==
    /\ Ended(t, "auto", {"offline"})
    /\ queue' = requeue_in(queue, Current(t).act)
    /\ Advance(t)
    /\ UNCHANGED <<server, late, kept, conn, list, hist, issued, faults>>

\* Queued again, with the retries it has.
ReplayOffline(t) ==
    /\ Ended(t, "auto", {"offline"})
    /\ enqueue(Current(t))
    /\ Advance(t)
    /\ UNCHANGED <<server, late, conn, list, said, clicks, issued, faults>>

\* Charged to its twin in the queue, if there is one; the action itself is gone.
ReplayRefused(t) ==
    /\ Ended(t, "auto", {"refused"})
    /\ queue' = requeue_in(queue, Current(t).act)
    /\ Answered(queue', Current(t).act)
    /\ Advance(t)
    /\ UNCHANGED <<server, late, kept, conn, list, said, clicks, issued, faults>>

-----------------------------------------------------------------------------
(* The banner: shown while connected; its rows are a copy of the parked    *)
(* items, brought up to date by an effect of its own.                      *)

BannerShown == conn # "down" /\ parked(queue) # <<>>

\* Compared by key, not by retries.
kept_drifted(rows, items) ==
    LET Keys(q) == [i \in DOMAIN q |-> q[i].act] IN Keys(rows) # Keys(items)

\* The call of a row ends with the row.
RowGone(t) == task[t].by = "banner" /\ ~Has(kept, Current(t).act)

BannerSync ==
    /\ BannerShown /\ kept_drifted(kept, parked(queue))
    /\ \A t \in Slots : ~RowGone(t)
    /\ kept' = parked(queue)
    /\ UNCHANGED <<server, late, queue, conn, task, list, hist, issued, faults>>

Rows == {kept[i] : i \in DOMAIN kept}
Minus(rows, a) == Subsequence(rows, {i \in DOMAIN rows : rows[i].act # a})

\* on_update: the banner's rows replace the parked items.
Update(rows, dropped) ==
    /\ kept' = rows
    /\ queue' = replace_parked(queue, rows)
    /\ owed' = owed \ dropped

\* A row whose own call is under way has its buttons disabled.
Busy(item) == \E u \in Slots : task[u].by = "banner" /\ Current(u).act = item.act

BannerReplay(t, item) ==
    /\ BannerShown /\ item \in Rows /\ ~Busy(item) /\ NextFree(t) /\ issued < MaxClicks
    /\ Launch(t, "banner", <<item>>)
    /\ clicks' = IF item.act.kind = "erase" THEN [clicks EXCEPT ![item.act.id] = @ + 1] ELSE clicks
    /\ issued' = issued + 1
    /\ UNCHANGED <<server, late, queue, kept, conn, list, said, owed, faults>>

BannerDone(t) ==
    /\ Ended(t, "banner", {"ok", "gone"}) /\ ~RowGone(t)
    /\ Update(Minus(kept, Current(t).act), {Current(t).act})
    /\ Advance(t)
    /\ UNCHANGED <<server, late, conn, list, said, clicks, issued, faults>>

\* The row stays, with its error.
BannerFailed(t) ==
    /\ Ended(t, "banner", {"refused", "offline"}) /\ ~RowGone(t)
    /\ Advance(t)
    /\ UNCHANGED <<server, late, queue, kept, conn, list, hist, issued, faults>>

RowCancelled(t) ==
    /\ RowGone(t)
    /\ Abandoned({t})
    /\ task' = [task EXCEPT ![t] = Free]
    /\ UNCHANGED <<server, queue, kept, conn, list, hist, issued, faults>>

BannerSkip(item) ==
    /\ BannerShown /\ item \in Rows /\ ~Busy(item)
    /\ Update(Minus(kept, item.act), {item.act})
    /\ UNCHANGED <<server, late, conn, task, list, said, clicks, issued, faults>>

BannerDismiss ==
    /\ BannerShown /\ kept # <<>>
    /\ Update(<<>>, {item.act : item \in Rows})
    /\ UNCHANGED <<server, late, conn, task, list, said, clicks, issued, faults>>

-----------------------------------------------------------------------------
(* The connection                                                          *)

Fault == faults < MaxFaults /\ faults' = faults + 1

\* The call ends in a network error: its request or its answer is lost, or the
\* timeout passes while the request is still on its way.
NetworkError(t) ==
    /\ Running(t) /\ task[t].net # "offline" /\ Fault
    /\ Abandoned({t})
    /\ task' = [task EXCEPT ![t].net = "offline"]
    /\ UNCHANGED <<server, queue, kept, conn, list, hist, issued>>

ProbeDown ==
    /\ conn # "down" /\ Fault
    /\ conn' = "down" /\ kept' = <<>>
    /\ UNCHANGED <<server, late, queue, task, list, hist, issued>>

\* A probe succeeds: first the connection is green, then writes are allowed.
ProbeUp ==
    /\ conn # "up"
    /\ conn' = IF conn = "down" THEN "recovering" ELSE "up"
    /\ UNCHANGED <<server, late, queue, kept, task, list, hist, issued, faults>>

\* The page is loaded again: the queue is restored, the calls are gone.
Reload ==
    /\ Fault
    /\ Abandoned(Slots)
    /\ task' = [t \in Slots |-> Free]
    /\ owed' = {a \in owed : Has(queue, a)}
    /\ conn' = "down" /\ kept' = <<>> /\ listed' = Unlisted /\ picked' = {}
    /\ UNCHANGED <<server, queue, said, clicks, issued>>

-----------------------------------------------------------------------------
\* What an earlier session may have left: an approval whose retries are spent.
Leftover == [act : {a \in Approve : a.digest = content[a.id]}, retries : {MaxRetries}]

\* The queue is restored.  What a proposal says first is of no consequence.
Init ==
    /\ status = [p \in Proposals |-> "pending"]
    /\ content = [p \in Proposals |-> CHOOSE c \in Contents : TRUE]
    /\ queue \in {<<>>} \cup {<<item>> : item \in Leftover}
    /\ owed = {a \in Actions : Due(queue, a)}
    /\ shown = {a \in Approve : Has(queue, a)} /\ asked = {a.id : a \in shown}
    /\ clicks = [g \in Erasures |-> Cardinality({a \in Erase : a.id = g /\ Has(queue, a)})]
    /\ erased = [g \in Erasures |-> 0]
    /\ late = {} /\ kept = <<>> /\ conn = "down"
    /\ task = [t \in Slots |-> Free] /\ listed = Unlisted /\ picked = {}
    /\ issued = 0 /\ faults = 0

Work == \/ ProbeUp
        \/ \E t \in Slots : Serve(t) \/ ReplayEffect(t) \/ PanelAnswered(t) \/ PanelOffline(t)
                            \/ ListOffline(t) \/ \E p \in picked : ListCall(t, p)
        \/ \E t \in Slots : ReplayApplied(t) \/ ReplayOffline(t) \/ ReplayRefused(t)
                            \/ BannerDone(t) \/ BannerFailed(t) \/ RowCancelled(t)

Next ==
    \/ Work
    \/ ListRefresh \/ LeaveList \/ \E S \in SUBSET Proposals : ListPick(S)
    \/ \E t \in Slots, a \in Actions : Click(t, a)
    \/ \E t \in Slots : NetworkError(t) \/ LeavePanel(t) \/ \E item \in Rows : BannerReplay(t, item)
    \/ \E a \in late : ServeLate(a)
    \/ \E p \in Proposals : OtherReviewer(p)
    \/ BannerSync \/ BannerDismiss \/ \E item \in Rows : BannerSkip(item)
    \/ ProbeDown \/ Reload

\* The probe is a timer, the client's event loop runs what is due, and a call
\* ends with an answer or a timeout.
Spec == Init /\ [][Next]_vars /\ WF_vars(Work)

-----------------------------------------------------------------------------
(* Properties                                                              *)

\* Actions in the queue, or carried by a task.
Carried == {a \in Actions : Has(queue, a) \/ \E t \in Slots : Has(task[t].rest, a)}

TaskType == [by : {"none", "operator", "list", "auto", "banner"}, rest : Seq(Item),
             net : {"none", "sent", "ok", "gone", "refused", "offline"}]

\* Every field keeps its type.
TypeOK ==
    /\ status \in [Proposals -> {"pending", "approved", "rejected", "other"}]
    /\ content \in [Proposals -> Contents]
    /\ erased \in [Erasures -> Nat] /\ clicks \in [Erasures -> Nat]
    /\ listed \in [Proposals -> Contents \cup {None}] /\ picked \subseteq Proposals
    /\ late \subseteq Actions /\ owed \subseteq Actions
    /\ shown \subseteq Approve /\ asked \subseteq Proposals
    /\ queue \in Seq(Item) /\ kept \in Seq(Item)
    /\ conn \in {"down", "recovering", "up"}
    /\ task \in [Slots -> TaskType]

\* An approval is one of bytes this client has displayed: whatever was edited while
\* it was picked, under way, queued or replayed, a proposal this client approved is
\* one the operator approved, and holds what a list or a page of it has shown.  The
\* digest need not be the one of the click: the list reads it again.
ApprovedWasShown ==
    \A p \in Proposals :
        status[p] = "approved" => p \in asked /\ Approval(p, content[p]) \in shown

\* An erasure is carried out at most as often as the operator sent it: no lost
\* answer, reconnection, reload or replay repeats it.
ErasedAsAsked == \A g \in Erasures : erased[g] <= clicks[g]

\* A decision that was queued is in the queue or on its way until the server has
\* answered it, but for those a full queue or a reload has taken.
NothingForgotten == owed \subseteq Carried

-----------------------------------------------------------------------------
(* An inductive invariant                                                  *)

\* A call carries something; a panel's or a banner's carries one action, and only
\* a banner's one that is parked for its retries.
TasksOK ==
    \A t \in Slots :
        /\ task[t].by = "none" => task[t] = Free
        /\ Running(t) => task[t].rest # <<>>
        /\ task[t].by \in {"operator", "list", "banner"} => Len(task[t].rest) = 1
        /\ task[t].by = "auto" => \A i \in DOMAIN task[t].rest : Unparked(task[t].rest[i])
        /\ task[t].by = "list" => Current(t).act \in Approve
        /\ task[t].by \in {"operator", "list"} => \A i \in DOMAIN task[t].rest :
               is_destructive(task[t].rest[i].act) \/ Unparked(task[t].rest[i])

Replaying(a) == \E t \in Slots : task[t].by = "auto" /\ Has(task[t].rest, a)
HasParked(q, a) == \E i \in DOMAIN q : q[i].act = a /\ is_parked(q[i])

\* Of the copies of an action one at most replays by itself.  The banner's rows are
\* parked, and a parked copy beside one that is due is one of them, unless the
\* banner is to be filled anew.
CopiesOK ==
    /\ \A i, j \in DOMAIN queue :
          (queue[i].act = queue[j].act /\ Unparked(queue[i]) /\ Unparked(queue[j])) => i = j
    /\ \A i \in DOMAIN kept : is_parked(kept[i])
    /\ \A a \in Actions :
          (HasParked(queue, a) /\ (Due(queue, a) \/ a \in owed)) => (kept = <<>> \/ Has(kept, a))

\* What is owed is queued or being replayed by itself, and is not an erasure.
OwedOK == \A a \in owed : ~is_destructive(a) /\ (Has(queue, a) \/ Replaying(a))

\* Every approval anywhere is of a proposal the operator approved, and carries a
\* digest this client has displayed, or none; so does the list.
ShownOK ==
    /\ \A a \in Approve :
          (a \in Carried \/ Has(kept, a) \/ a \in late) =>
          a.id \in asked /\ (a \in shown \/ a.digest = None)
    /\ \A p \in Proposals : listed[p] = None \/ Approval(p, listed[p]) \in shown
    /\ picked \subseteq asked

EraseOf(g) == [kind |-> "erase", id |-> g, digest |-> None]
Sending(g) == {t \in Slots : task[t].net = "sent" /\ Current(t).act = EraseOf(g)}

\* Every request for an erasure that may still be served was sent by the operator.
ErasuresOK ==
    \A g \in Erasures :
        erased[g] + Cardinality(Sending(g)) + (IF EraseOf(g) \in late THEN 1 ELSE 0) <= clicks[g]

ClientInv == TasksOK /\ CopiesOK /\ OwedOK /\ ShownOK /\ ApprovedWasShown /\ ErasuresOK

-----------------------------------------------------------------------------
(* Statements of the code's comments that it does not keep.                *)

\* queue.rs: "replay automatically on reconnect".  A decision queued for replay
\* is answered in the end.
ReplayedInTheEnd == \A a \in Actions : a \in owed ~> a \notin owed

\* queue.rs: "The `content_digest` the operator approved against".  The approval a
\* list's call leaves in the queue carries the digest the call itself carried.
QueuedAsSent ==
    [][\A t \in Slots : ListOffline(t) => AsListed(Current(t).act.id).act = Current(t).act]_vars

\* queue.rs: "parks a persistently-failing action after five server-answered
\* failures instead of refiring forever".  An action whose replay is refused
\* stays in the queue.
FailureParks ==
    [][\A t \in Slots : (task[t].by = "auto" /\ task[t].net = "refused" /\ task'[t] # task[t])
                        => Current(t).act \in Carried']_vars

\* queue.rs: "only an explicit human decision removes them".  A parked erasure
\* leaves the queue only when its own row is decided.
ParkedStays ==
    [][\A a \in Erase : (Has(queue, a) /\ ~Has(queue', a)) => ~Has(kept', a) /\ Has(kept, a)]_vars

\* main.rs: "require chain re-verify before writes re-enable".  No replay starts
\* while the operator's own writes are frozen.
ReplayWaits ==
    [][conn = "recovering" =>
          \A t \in Slots : task'[t].by = "auto" => task[t].by = "auto"]_vars
=============================================================================
