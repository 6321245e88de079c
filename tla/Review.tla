------------------------------- MODULE Review -------------------------------
(***************************************************************************)
(* The review queue.  A proposal waits as `pending` until a reviewer       *)
(* approves, rejects or edits it, or until it is found older than its TTL. *)
(* Each verb is a request handler of its own: it reads the row and the     *)
(* clock, may expire the row by a statement of its own, decides in one     *)
(* IMMEDIATE transaction, and records what it did after the COMMIT.  Under *)
(* BRAIN_APPROVAL_QUORUM=2 the first approval only leaves a marker on the  *)
(* audit chain, keyed by the row's id.  The Signal webhook approves drafts *)
(* by a transaction of its own, under one reserved actor label.  A forget  *)
(* may scrub the bytes of a proposal, whatever its status.                 *)
(*                                                                         *)
(* A digest is its content: review_digest is a hash of what is displayed.  *)
(* The kinds stand for the branches of approve_proposal: "publish" (exempt *)
(* from the quorum, as complaint_remedy is), "remedy", "consent" (effect,  *)
(* audit row and CAS in one transaction: consent, registry, skills,        *)
(* translation, campaign, capture), "template" (the effect may be refused  *)
(* or suppressed), "user_map", "fact" (the generic promote), "draft" (a    *)
(* fact the Signal lane may also approve) and "exploratory" (a proposal of *)
(* an exploratory decision run).                                           *)
(***************************************************************************)
EXTENDS Integers, FiniteSets, Sequences

CONSTANTS
    Tasks,       \* requests served at a time
    Reviewers,   \* principals that may write and hold the approve role
    Contents,    \* what a proposal can say
    Kinds,       \* the kinds filed in a behaviour
    Quorum,      \* BRAIN_APPROVAL_QUORUM: 1 or 2
    TTL,         \* proposal_ttl_secs
    MaxTime,     \* bound: the clock
    MaxFiled,    \* bound: the proposals filed in a behaviour
    MaxRequests, \* bound: the requests of a behaviour
    MaxErased,   \* bound: the purges, erasures and forgets of a behaviour
    MaxLost      \* bound: the audit rows lost in a behaviour

AllKinds == {"publish", "remedy", "consent", "template", "user_map", "fact", "draft",
             "exploratory"}

ASSUME ReviewAssumption ==
    /\ Kinds \subseteq AllKinds /\ Quorum \in {1, 2} /\ TTL \in Nat /\ MaxTime \in Nat
    /\ MaxFiled \in Nat /\ MaxRequests \in Nat /\ MaxErased \in Nat /\ MaxLost \in Nat

Signal == "service:signal-webhook"    \* SIGNAL_QUORUM_ACTOR
Actors == Reviewers \cup {Signal}
Serials == 1 .. MaxFiled              \* history: the nth proposal filed
None == 0
Scrubbed == "[content scrubbed]"      \* the marker of scrub_proposal_content
Texts == Contents \cup {Scrubbed}

VARIABLES
    proposals,   \* the table: id -> row
    first,       \* id -> actor, the earliest quorum-first row of the audit chain
    knowledge,   \* contents of the live chunks (content_hash is UNIQUE)
    task,        \* the requests in progress
    now,
    acts,        \* history: <<id, serial, actor, digest sent>>, each approval taken
    applied,     \* history: serial -> the contents put into effect, in order
    log,         \* history: <<what, serial>>, the decision rows on the audit chain
    lost,        \* history: <<what, serial>>, the decision rows that were lost
    filed, requests, erased

vars == <<proposals, first, knowledge, task, now, acts, applied, log, lost,
          filed, requests, erased>>

Ids == DOMAIN proposals
Idle == [pc |-> "idle", verb |-> "none", id |-> None, actor |-> Signal,
         content |-> None, serial |-> None]

Without(f, k) == [x \in DOMAIN f \ {k} |-> f[x]]
With(f, k, v) == [x \in DOMAIN f \cup {k} |-> IF x = k THEN v ELSE f[x]]

Pending(id) == id \in Ids /\ proposals[id].status = "pending"
Row(t) == proposals[task[t].id]
Stale(id) == now - proposals[id].created > TTL

\* The caller approved the bytes whose digest it sent.
TakeAct(t) ==
    acts' = acts \cup {<<task[t].id, Row(t).serial, task[t].actor, task[t].content>>}

\* A best-effort audit row: written, or lost (the insert fails, or the server
\* is killed after the COMMIT of what it is about).
Record(what, serial) ==
    \/ log' = log \cup {<<what, serial>>} /\ UNCHANGED lost
    \/ /\ Cardinality(lost) < MaxLost
       /\ lost' = lost \cup {<<what, serial>>} /\ UNCHANGED log

Finish(t) == task' = [task EXCEPT ![t] = Idle]
At(t, pc, verbs) == task[t].pc = pc /\ task[t].verb \in verbs

\* What every step of a request leaves alone.
bounds == <<now, filed, requests, erased>>
tables == <<proposals, first, knowledge>>
history == <<acts, applied, log, lost>>

-----------------------------------------------------------------------------
(* Filing and erasing *)

Insert(kind, content) ==
    LET id == CHOOSE i \in Serials : (\A j \in Ids : j < i) /\ (i = 1 \/ i - 1 \in Ids)
    IN  proposals' = With(proposals, id,
            [kind |-> kind, content |-> content, status |-> "pending", created |-> now,
             serial |-> filed + 1])

\* A proposal is filed.  The id is SQLite's: one more than the largest in the
\* table, since the key is not AUTOINCREMENT.
insert_proposal(kind, content) ==
    /\ filed < MaxFiled
    /\ Insert(kind, content)
    /\ filed' = filed + 1
    /\ UNCHANGED <<first, knowledge, task, now, history, requests, erased>>

\* A purge or an erasure deletes the proposal, and the chunk it became.
erase(id) ==
    /\ erased < MaxErased
    /\ id \in Ids
    /\ proposals' = Without(proposals, id)
    /\ knowledge' = knowledge \ {proposals[id].content}
    /\ erased' = erased + 1
    /\ UNCHANGED <<first, task, now, history, filed, requests>>

\* UPDATE proposals SET content: no fence on the status.
scrub_proposal_content(row) == [row EXCEPT !.content = Scrubbed]

\* forget, in one transaction: the chunk goes and, if the caller asks for it
\* (?scrub_proposals=1), every proposal that holds the same bytes, decided or
\* not, gets the marker in their place.
forget(content, scrub_proposals) ==
    /\ erased < MaxErased
    /\ content \in knowledge
    /\ knowledge' = knowledge \ {content}
    /\ proposals' = [id \in Ids |-> IF scrub_proposals /\ proposals[id].content = content
                                      THEN scrub_proposal_content(proposals[id])
                                      ELSE proposals[id]]
    /\ erased' = erased + 1
    /\ UNCHANGED <<first, task, now, history, filed, requests>>

-----------------------------------------------------------------------------
(* The requests.  approve, reject and edit begin with the pending-fence    *)
(* read and the clock, outside any transaction.  Who edits or rejects only *)
(* names the audit row, so those requests carry no actor of their own.     *)

Begin(t, verb, id, actor, content) ==
    /\ task[t].pc = "idle"
    /\ id \in 1 .. MaxFiled
    /\ requests < MaxRequests
    /\ task' = [task EXCEPT ![t] =
          [pc |-> IF verb # "signal" /\ Pending(id) /\ Stale(id) THEN "expire" ELSE "tx",
           verb |-> verb, id |-> id, actor |-> actor, content |-> content, serial |-> None]]
    /\ requests' = requests + 1
    /\ UNCHANGED <<tables, history, now, filed, erased>>

request(t) ==
    \E id \in Ids :
        \/ \E actor \in Reviewers, content \in Texts : Begin(t, "approve", id, actor, content)
        \/ \E content \in Contents : Begin(t, "edit", id, Idle.actor, content)
        \/ Begin(t, "reject", id, Idle.actor, None)
        \/ \E content \in Texts : Begin(t, "signal", id, Signal, content)

\* Mutant: the UPDATE of expire_if_stale without AND status = 'pending'.
expire_if_stale_Blind(t) ==
    /\ At(t, "expire", {"approve", "reject", "edit"})
    /\ proposals' = IF task[t].id \in Ids
                    THEN [proposals EXCEPT ![task[t].id].status = "rejected"] ELSE proposals
    /\ task' = [task EXCEPT ![t].pc = "expired", ![t].serial = None]
    /\ UNCHANGED <<first, knowledge, history, bounds>>

\* The stale row is rejected, if it is still there and pending ...
expire_if_stale(t) ==
    /\ At(t, "expire", {"approve", "reject", "edit"})
    /\ proposals' = IF Pending(task[t].id)
                    THEN [proposals EXCEPT ![task[t].id].status = "rejected"] ELSE proposals
    /\ task' = [task EXCEPT ![t].pc = "expired",
                   ![t].serial = IF task[t].id \in Ids THEN Row(t).serial ELSE None]
    /\ UNCHANGED <<first, knowledge, history, bounds>>

\* ... and recorded as expired whatever the statement changed.
expire_record(t) ==
    /\ At(t, "expired", {"approve", "reject", "edit"})
    /\ IF task[t].serial = None THEN UNCHANGED <<log, lost>>
                                ELSE Record("expired", task[t].serial)
    /\ Finish(t)
    /\ UNCHANGED <<tables, acts, applied, bounds>>

-----------------------------------------------------------------------------
(* approve_proposal, inside its transaction *)

InApprove(t) == At(t, "tx", {"approve"})

\* Mutant: the digest the caller sent is not compared with the row.
Admitted_NoDigest(t) == Pending(task[t].id) /\ Row(t).kind # "exploratory"

\* The row is pending and the digest is the one of the bytes it now holds; an
\* exploratory proposal goes no further.
Admitted(t) == /\ Pending(task[t].id)
               /\ Row(t).content = task[t].content
               /\ Row(t).kind # "exploratory"

approve_refused(t) ==
    /\ InApprove(t) /\ ~Admitted(t)
    /\ Finish(t)
    /\ UNCHANGED <<tables, history, bounds>>

Exempt(kind) == kind \in {"publish", "remedy"}

\* Mutant: a repeat by the same principal counts as the second approval.
Passes_Repeat(id, actor) == Quorum < 2 \/ id \in DOMAIN first

\* quorum_gate returns Promote.
Passes(id, actor) == Quorum < 2 \/ (id \in DOMAIN first /\ first[id] # actor)

\* quorum_gate returns PendingSecond: the marker is the only write.
QuorumFirst(t) ==
    /\ ~Passes(task[t].id, task[t].actor) /\ task[t].id \notin DOMAIN first
    /\ first' = With(first, task[t].id, task[t].actor)
    /\ TakeAct(t)
    /\ Finish(t)
    /\ UNCHANGED <<proposals, knowledge, applied, log, lost, bounds>>

\* quorum_gate returns SamePrincipal: rolled back.
QuorumSame(t) ==
    /\ ~Passes(task[t].id, task[t].actor) /\ task[t].id \in DOMAIN first
    /\ Finish(t)
    /\ UNCHANGED <<tables, history, bounds>>

approve_first(t) == InApprove(t) /\ Admitted(t) /\ ~Exempt(Row(t).kind) /\ QuorumFirst(t)
approve_same(t) == InApprove(t) /\ Admitted(t) /\ ~Exempt(Row(t).kind) /\ QuorumSame(t)

Cleared(t) == /\ InApprove(t) /\ Admitted(t)
              /\ Exempt(Row(t).kind) \/ Passes(task[t].id, task[t].actor)

CasApproved(id) == [proposals EXCEPT ![id].status = "approved"]
Apply(t) == applied' = [applied EXCEPT ![Row(t).serial] = Append(@, Row(t).content)]

\* The branches that do everything in the transaction, the audit row included.
approve_governed(t) ==
    /\ Cleared(t) /\ Row(t).kind \in {"publish", "remedy", "consent", "template"}
    /\ proposals' = CasApproved(task[t].id)
    /\ TakeAct(t) /\ Apply(t)
    /\ Record("approved", Row(t).serial)
    /\ Finish(t)
    /\ UNCHANGED <<first, knowledge, bounds>>

\* A remedy over the approver's cap: one more proposal, a rung up; this one
\* stays pending.
approve_escalated(t) ==
    /\ Cleared(t) /\ Row(t).kind = "remedy" /\ filed < MaxFiled
    /\ Insert("remedy", Row(t).content)
    /\ filed' = filed + 1
    /\ Finish(t)
    /\ UNCHANGED <<first, knowledge, history, now, requests, erased>>

\* A template send that the outbox suppresses stays decided, with no effect.
approve_suppressed(t) ==
    /\ Cleared(t) /\ Row(t).kind = "template"
    /\ proposals' = CasApproved(task[t].id)
    /\ TakeAct(t)
    /\ Record("approved", Row(t).serial)
    /\ Finish(t)
    /\ UNCHANGED <<first, knowledge, applied, bounds>>

\* Every branch may fail before its CAS (a payload that does not parse, a state
\* that moved, no consent on file, no embedding): rolled back.
approve_failed(t) ==
    /\ Cleared(t)
    /\ Finish(t)
    /\ UNCHANGED <<tables, history, bounds>>

\* The identity map: the mapping and its audit row are written, the proposal is
\* not.
approve_user_map(t) ==
    /\ Cleared(t) /\ Row(t).kind = "user_map"
    /\ TakeAct(t) /\ Apply(t)
    /\ Record("approved", Row(t).serial)
    /\ Finish(t)
    /\ UNCHANGED <<proposals, first, knowledge, bounds>>

\* The generic promote: the chunk and the CAS, then the record after COMMIT.
approve_promote(t) ==
    /\ Cleared(t) /\ Row(t).kind \in {"fact", "draft"}
    /\ Row(t).content \notin knowledge
    /\ knowledge' = knowledge \cup {Row(t).content}
    /\ proposals' = CasApproved(task[t].id)
    /\ TakeAct(t) /\ Apply(t)
    /\ task' = [task EXCEPT ![t].pc = "after", ![t].serial = Row(t).serial]
    /\ UNCHANGED <<first, log, lost, bounds>>

-----------------------------------------------------------------------------
(* reject_proposal, edit_proposal and the Signal lane *)

reject_proposal(t) ==
    /\ At(t, "tx", {"reject"})
    /\ IF Pending(task[t].id)
       THEN /\ proposals' = [proposals EXCEPT ![task[t].id].status = "rejected"]
            /\ task' = [task EXCEPT ![t].pc = "after", ![t].serial = Row(t).serial]
       ELSE Finish(t) /\ UNCHANGED proposals
    /\ UNCHANGED <<first, knowledge, history, bounds>>

edit_proposal(t) ==
    /\ At(t, "tx", {"edit"})
    /\ IF Pending(task[t].id)
       THEN /\ proposals' = [proposals EXCEPT ![task[t].id].content = task[t].content]
            /\ task' = [task EXCEPT ![t].pc = "after", ![t].serial = Row(t).serial]
       ELSE Finish(t) /\ UNCHANGED proposals
    /\ UNCHANGED <<first, knowledge, history, bounds>>

\* [draft N] approve: no TTL, kind = 'draft' only, the quorum under one label.
InSignal(t) == At(t, "tx", {"signal"})
SignalAdmitted(t) == Admitted(t) /\ Row(t).kind = "draft"

signal_refused(t) ==
    /\ InSignal(t) /\ ~SignalAdmitted(t)
    /\ Finish(t)
    /\ UNCHANGED <<tables, history, bounds>>

signal_first(t) == InSignal(t) /\ SignalAdmitted(t) /\ QuorumFirst(t)
signal_same(t) == InSignal(t) /\ SignalAdmitted(t) /\ QuorumSame(t)

approve_draft_tx(t) ==
    /\ InSignal(t) /\ SignalAdmitted(t) /\ Passes(task[t].id, task[t].actor)
    /\ proposals' = CasApproved(task[t].id)
    /\ TakeAct(t)
    /\ task' = [task EXCEPT ![t].pc = "after", ![t].serial = Row(t).serial]
    /\ UNCHANGED <<first, knowledge, applied, log, lost, bounds>>

\* Mutant: every verb records an approval.
Outcome_Approved(verb) == "approved"

Outcome(verb) == CASE verb = "reject" -> "rejected"
                   [] verb = "edit" -> "edited"
                   [] OTHER -> "approved"

\* After the COMMIT, on the connection: the audit row of the decision.
record_decision(t) ==
    /\ task[t].pc = "after"
    /\ Record(Outcome(task[t].verb), task[t].serial)
    /\ Finish(t)
    /\ UNCHANGED <<tables, acts, applied, bounds>>

-----------------------------------------------------------------------------
Tick == /\ now < MaxTime /\ now' = now + 1
        /\ UNCHANGED <<tables, task, history, filed, requests, erased>>

Init == /\ proposals = <<>> /\ first = <<>> /\ knowledge = {}
        /\ task = [t \in Tasks |-> Idle]
        /\ now = 0 /\ acts = {} /\ applied = [s \in Serials |-> <<>>] /\ log = {} /\ lost = {}
        /\ filed = 0 /\ requests = 0 /\ erased = 0

ApproveStep(t) ==
    \/ approve_refused(t) \/ approve_first(t) \/ approve_same(t) \/ approve_governed(t)
    \/ approve_escalated(t) \/ approve_suppressed(t) \/ approve_failed(t)
    \/ approve_user_map(t) \/ approve_promote(t)

SignalStep(t) ==
    signal_refused(t) \/ signal_first(t) \/ signal_same(t) \/ approve_draft_tx(t)

Serve(t) ==
    \/ expire_if_stale(t) \/ expire_record(t) \/ ApproveStep(t) \/ reject_proposal(t)
    \/ edit_proposal(t) \/ SignalStep(t) \/ record_decision(t)

Next ==
    \/ \E kind \in Kinds, content \in Contents : insert_proposal(kind, content)
    \/ \E id \in Ids : erase(id)
    \/ \E content \in Texts, scrub \in BOOLEAN : forget(content, scrub)
    \/ \E t \in Tasks : request(t) \/ Serve(t)
    \/ Tick

Spec == Init /\ [][Next]_vars

-----------------------------------------------------------------------------
(* What the queue promises *)

RowType == [kind : Kinds, content : Texts, status : {"pending", "approved", "rejected"},
            created : 0 .. MaxTime, serial : Serials]

TaskType ==
    [pc : {"idle", "expire", "expired", "tx", "after"},
     verb : {"none", "approve", "reject", "edit", "signal"}, id : 0 .. MaxFiled,
     actor : Actors, content : Texts \cup {None}, serial : Serials \cup {None}]

Facts == {"approved", "rejected", "edited", "expired"} \X Serials

\* Every variable holds a value of its kind: the rows of the table under ids of
\* their own, the markers and acts of known actors, requests in a known step.
TypeOK ==
    /\ Ids \subseteq Serials /\ \A id \in Ids : proposals[id] \in RowType
    /\ DOMAIN first \subseteq Serials /\ \A id \in DOMAIN first : first[id] \in Actors
    /\ knowledge \subseteq Texts
    /\ task \in [Tasks -> TaskType]
    /\ acts \subseteq Serials \X Serials \X Actors \X Texts
    /\ applied \in [Serials -> Seq(Texts)]
    /\ log \subseteq Facts /\ lost \subseteq Facts
    /\ now \in 0 .. MaxTime /\ filed \in 0 .. MaxFiled /\ requests \in 0 .. MaxRequests
    /\ erased \in 0 .. MaxErased

\* A decision is final: whatever requests are under way (an expiry that read the
\* row before it was approved, an edit that waited for the write lock), a decided
\* row stays as it is.  Only the forget of the chunk with its bytes rewrites it,
\* and then nothing but the bytes, with the marker.
DecidedRowMoves(row, new) ==
    \/ new = row
    \/ /\ new = [row EXCEPT !.content = Scrubbed]
       /\ row.content \in knowledge /\ row.content \notin knowledge'

DecisionFinal ==
    [][\A id \in Ids :
          (proposals[id].status # "pending" /\ id \in DOMAIN proposals'
             /\ proposals'[id].serial = proposals[id].serial)
          => DecidedRowMoves(proposals[id], proposals'[id])]_vars

\* What a decided row says is what was done: a proposal is put into effect at
\* most once and the row is then approved; an approval under it carried the
\* digest of the very bytes put into effect, and it still holds them, unless
\* they have been scrubbed.
AppliedAs(id) ==
    LET row == proposals[id]
        done == applied[row.serial]
    IN  \/ done = <<>>
        \/ /\ row.status = "approved" /\ Len(done) = 1
           /\ row.content \in {done[1], Scrubbed}
           /\ \E a \in Actors : <<id, row.serial, a, done[1]>> \in acts

\* Except for the identity map, whose branch does not decide its row.
AppliedOnce == \A id \in Ids : proposals[id].kind # "user_map" => AppliedAs(id)

\* Under a quorum of two nothing that needs it is put into effect before two
\* principals have approved under the row's id, the last of them those very bytes.
SecondEyes ==
    Quorum = 2 => \A id \in Ids : \A k \in DOMAIN applied[proposals[id].serial] :
        Exempt(proposals[id].kind) \/
        \E a \in Actors : \E b \in Actors \ {a} :
            /\ <<id, proposals[id].serial, b, applied[proposals[id].serial][k]>> \in acts
            /\ \E s \in Serials, c \in Texts : <<id, s, a, c>> \in acts

\* The record a request still has to write.
Owes(t, what, s) ==
    /\ task[t].serial = s /\ s # None
    /\ \/ task[t].pc = "expired" /\ what = "expired"
       \/ task[t].pc = "after" /\ what = Outcome(task[t].verb)

\* The audit row is there, was lost, or a request still has to write it.
Traced(what, s) == <<what, s>> \in log \cup lost \/ \E t \in Tasks : Owes(t, what, s)

\* A decision and its own audit row agree: no row has the record of a verdict it
\* does not show, an approved row has the record of an approval and a rejected
\* one that of a rejection or an expiry.  One that is missing was lost, or is
\* what a request is about to write.
Evidenced ==
    \A id \in Ids :
        LET row == proposals[id]
            Has(what) == <<what, row.serial>> \in log
        IN  /\ row.kind # "user_map" =>
                 (Has("approved") => row.status = "approved")
            /\ Has("rejected") => row.status = "rejected"
            /\ row.status = "approved" => Traced("approved", row.serial)
            /\ row.status = "rejected" =>
                 Traced("rejected", row.serial) \/ Traced("expired", row.serial)

\* The audit row of an expiry is that of a row which expired.
ExpiryWasReal ==
    \A id \in Ids : <<"expired", proposals[id].serial>> \in log => proposals[id].status = "rejected"

\* docs/human-in-the-loop.md: "the quorum never silently degrades to one".  Two
\* principals have approved the proposal, each of them the bytes put into effect.
QuorumNeverDegrades ==
    Quorum = 2 => \A id \in Ids : \A k \in DOMAIN applied[proposals[id].serial] :
        Exempt(proposals[id].kind) \/
        \E a \in Actors : \E b \in Actors \ {a} : \A p \in {a, b} :
            <<id, proposals[id].serial, p, applied[proposals[id].serial][k]>> \in acts

\* docs/api.md: "Replay of a decided proposal is refused (404), never a second
\* approval".
NeverSecondApproval == \A s \in Serials : Len(applied[s]) <= 1

-----------------------------------------------------------------------------
(* An inductive invariant *)

\* Serials are handed out in order, one to a row; an id is never ahead of them.
SerialsOK ==
    /\ \A id \in Ids : id <= filed /\ proposals[id].serial <= filed
    /\ \A i, j \in Ids : proposals[i].serial = proposals[j].serial => i = j
    /\ \A s \in Serials : s > filed => applied[s] = <<>>
    /\ \A e \in log : e[2] <= filed

\* What a request carries to the step it stands at.  A decision that waits for its
\* record is the one the row shows, if the row is still there.
TaskOK(t) ==
    LET r == task[t]
    IN  /\ r.verb = "edit" => r.content \in Contents
        /\ r.serial <= filed
        /\ r.pc \in {"after", "expired"} => r.verb \in {"approve", "reject", "edit", "signal"}
        /\ r.pc = "after" => r.serial # None
        /\ r.pc = "after" /\ r.verb \in {"approve", "signal"} =>
              \A id \in Ids : proposals[id].serial = r.serial => proposals[id].status = "approved"
        /\ r.pc = "after" /\ r.verb = "reject" =>
              \A id \in Ids : proposals[id].serial = r.serial => proposals[id].status = "rejected"

\* A quorum-first marker is the trace of an approval under its id.
FirstBacked ==
    \A id \in DOMAIN first : \E s \in Serials, c \in Texts : <<id, s, first[id], c>> \in acts

\* The record of a decision names the status of the row.
RecordsAgree ==
    \A id \in Ids :
        /\ proposals[id].kind # "user_map" /\ <<"approved", proposals[id].serial>> \in log
              => proposals[id].status = "approved"
        /\ <<"rejected", proposals[id].serial>> \in log => proposals[id].status = "rejected"

\* Every decision has its record, has lost it, or is about to get it.
DecisionTraced(row) ==
    /\ row.status = "approved" => Traced("approved", row.serial)
    /\ row.status = "rejected" => Traced("rejected", row.serial) \/ Traced("expired", row.serial)
DecisionsTraced == \A id \in Ids : DecisionTraced(proposals[id])

ReviewInv ==
    /\ SerialsOK /\ FirstBacked /\ RecordsAgree /\ DecisionsTraced
    /\ AppliedOnce /\ SecondEyes
    /\ \A t \in Tasks : TaskOK(t)
=============================================================================
