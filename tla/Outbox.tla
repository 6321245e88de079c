------------------------------- MODULE Outbox -------------------------------
(***************************************************************************)
(* The workflow outbox of one database (src/workflow/outbox.rs), the run   *)
(* revisions beside it (state.rs), and the host an engine reaches both     *)
(* through (host.rs), whose lane is either idle, in an open unit of work,  *)
(* or failed.                                                              *)
(*                                                                         *)
(* One action is one committed transaction of SQLite, or one call that     *)
(* joins the open unit and so changes only the unit's own view.  While a   *)
(* unit is open it holds SQLite's write lock: what would write on another  *)
(* connection is refused and changes nothing.                              *)
(***************************************************************************)
EXTENDS Integers, FiniteSets

CONSTANTS
    Runs,         \* the runs, by id
    Keys,         \* idempotency keys the callers choose
    Payloads,     \* payloads, told apart only by the replay check
    SteeringCap,  \* the inbox bound (100 in the code)
    MaxId,        \* bound: the largest outbox id
    MaxRev,       \* bound: the largest run revision
    MaxCrashes,   \* bound: the process kills of a behaviour
    AuditFails,   \* may a best-effort audit row be dropped?
    Faults        \* may COMMIT and ROLLBACK fail with an uncertain outcome?

ASSUME OutboxAssumption ==
    /\ SteeringCap \in Nat \ {0} /\ MaxId \in Nat /\ MaxRev \in Nat /\ MaxCrashes \in Nat
    /\ AuditFails \in BOOLEAN /\ Faults \in BOOLEAN

\* Topics: engine lineage, case lineage, the steering inbox, and one name for
\* the other kernel-only families.
Topics == {"workflow", "case", "steering", "channel"}
topic_is_reserved(topic) == topic \in {"steering", "channel"}
Drained == {"workflow", "case"}

\* The steering key carries the second and a random word: a key no one chose.
SteeringKey(i) == <<"steering", i>>
AllKeys == Keys \cup ({"steering"} \X Nat)

NoParent == 0
Row == [run : Runs, topic : Topics, payload : Payloads, key : AllKeys,
        parent : Nat, status : {"pending", "delivered"}]
Identity(row) == [run |-> row.run, topic |-> row.topic,
                  payload |-> row.payload, key |-> row.key]

\* One database: the outbox, its next id, the run revisions, and the audit
\* rows of the substrate as <<what, run, about>> facts.
IsDb(d) ==
    /\ d = [rows |-> d.rows, nextId |-> d.nextId, rev |-> d.rev, evid |-> d.evid]
    /\ d.nextId \in Nat \ {0}
    /\ DOMAIN d.rows \subseteq 1 .. (d.nextId - 1)
    /\ d.rows \in [DOMAIN d.rows -> Row]
    /\ d.rev \in [Runs -> Nat]

EmptyDb == [rows |-> [i \in {} |-> 0], nextId |-> 1,
            rev |-> [r \in Runs |-> 0], evid |-> {}]

VARIABLES
    db,       \* the committed database
    lane,     \* the host's lane
    work,     \* what the open unit sees, EmptyDb when none is open
    tail,     \* audit rows still to be written after an autocommitted update
    acks,     \* history: deliveries acknowledged outside a unit
    sealed,   \* history: runs whose lifecycle audit was acknowledged
    swept,    \* runs whose workflow_runs row an erasure deleted
    crashes   \* process kills so far

vars == <<db, lane, work, tail, acks, sealed, swept, crashes>>

-----------------------------------------------------------------------------
(* The statements of outbox.rs and state.rs, on a database d *)

HasKey(d, key) == \E i \in DOMAIN d.rows : d.rows[i].key = key

\* Best-effort: a dropped audit row never fails the write it is about.
audit_write(d, outcome, fact) ==
    IF outcome = "written" THEN [d EXCEPT !.evid = @ \cup {fact}] ELSE d

Outcomes == {"written", "dropped"}
BestEffort == IF AuditFails THEN Outcomes ELSE {"written"}

\* Mutant: the id column has no AUTOINCREMENT, so an id follows the largest
\* one in the table.
insert_row_Rowid(d, run, parent, topic, payload, key, outcome) ==
    LET row == [run |-> run, topic |-> topic, payload |-> payload, key |-> key,
                parent |-> parent, status |-> "pending"]
        id == CHOOSE i \in 1 .. d.nextId :
                 /\ i - 1 \in DOMAIN d.rows \cup {0}
                 /\ \A k \in DOMAIN d.rows : k < i
        grown == [i \in DOMAIN d.rows \cup {id} |-> IF i = id THEN row ELSE d.rows[i]]
    IN  IF HasKey(d, key)
          THEN d
          ELSE audit_write([d EXCEPT !.rows = grown, !.nextId = id + 1], outcome,
                           <<"enqueue", run, key>>)

\* INSERT OR IGNORE on the unique key; the audit row on the first insert only.
insert_row(d, run, parent, topic, payload, key, outcome) ==
    LET row == [run |-> run, topic |-> topic, payload |-> payload, key |-> key,
                parent |-> parent, status |-> "pending"]
        grown == [i \in DOMAIN d.rows \cup {d.nextId} |->
                     IF i = d.nextId THEN row ELSE d.rows[i]]
    IN  IF HasKey(d, key)
          THEN d
          ELSE audit_write([rows |-> grown, nextId |-> d.nextId + 1,
                            rev |-> d.rev, evid |-> d.evid],
                           outcome, <<"enqueue", run, key>>)

\* enqueue_child refuses a parent that is not a row of the same run.
ParentAllowed(d, run, parent) ==
    parent # NoParent => parent \in DOMAIN d.rows /\ d.rows[parent].run = run

Room(d, key) == d.nextId <= MaxId \/ HasKey(d, key)

EnqueueAllowed(d, run, parent, topic, key) ==
    ~ topic_is_reserved(topic) /\ ParentAllowed(d, run, parent) /\ Room(d, key)

\* The tip of a run: its largest id, or none.
IsRunTip(d, run, tip) ==
    \/ tip = NoParent /\ \A i \in DOMAIN d.rows : d.rows[i].run # run
    \/ /\ tip \in DOMAIN d.rows /\ d.rows[tip].run = run
       /\ \A i \in DOMAIN d.rows : d.rows[i].run = run => i <= tip

\* UPDATE ... WHERE id = run AND state_revision = expected: a deleted run has
\* no row to match.
CasMatches(d, run, expected) == run \notin swept /\ d.rev[run] = expected
CasApplied(d, run) == [d EXCEPT !.rev[run] = @ + 1]

-----------------------------------------------------------------------------
(* The host: units of work *)

\* tx: one unit at a time, and none on a failed lane.
tx ==
    /\ lane = "idle"
    /\ lane' = "active"
    /\ work' = db
    /\ UNCHANGED <<db, tail, acks, sealed, swept, crashes>>

\* finish: committed; or rolled back, by choice or after a failed COMMIT; or
\* of unknown outcome, which quarantines the connection and fails the lane.
FinishCommit ==
    /\ lane = "active"
    /\ db' = work
    /\ lane' = "idle"
    /\ work' = EmptyDb
    /\ UNCHANGED <<tail, acks, sealed, swept, crashes>>

FinishRollback ==
    /\ lane = "active"
    /\ lane' = "idle"
    /\ work' = EmptyDb
    /\ UNCHANGED <<db, tail, acks, sealed, swept, crashes>>

FinishIndeterminate ==
    /\ Faults
    /\ lane = "active"
    /\ db' \in {db, work}
    /\ lane' = "failed"
    /\ work' = EmptyDb
    /\ UNCHANGED <<tail, acks, sealed, swept, crashes>>

\* Mutant: outside a unit the call runs in scoped, where each statement
\* commits by itself.
enqueue_with_parent_Scoped(run, parent, topic, payload, key) ==
    \/ /\ lane = "active"
       /\ EnqueueAllowed(work, run, parent, topic, key)
       /\ \E outcome \in BestEffort :
            work' = insert_row(work, run, parent, topic, payload, key, outcome)
       /\ UNCHANGED <<db, lane, tail, acks, sealed, swept, crashes>>
    \/ /\ lane = "idle"
       /\ EnqueueAllowed(db, run, parent, topic, key)
       /\ ~ HasKey(db, key)
       /\ db' = insert_row(db, run, parent, topic, payload, key, "dropped")
       /\ tail' = tail \cup {<<"enqueue", run, key>>}
       /\ acks' = acks \cup {[run |-> run, topic |-> topic, payload |-> payload, key |-> key]}
       /\ UNCHANGED <<lane, work, sealed, swept, crashes>>

\* scoped_tx: join the open unit, or run in a transaction of its own.  A
\* creation that committed by itself is an acknowledgement.
enqueue_with_parent(run, parent, topic, payload, key) ==
    \E outcome \in BestEffort :
       \/ /\ lane = "active"
          /\ EnqueueAllowed(work, run, parent, topic, key)
          /\ work' = insert_row(work, run, parent, topic, payload, key, outcome)
          /\ UNCHANGED <<db, acks>>
          /\ UNCHANGED <<lane, tail, sealed, swept, crashes>>
       \/ /\ lane = "idle"
          /\ EnqueueAllowed(db, run, parent, topic, key)
          /\ db' = insert_row(db, run, parent, topic, payload, key, outcome)
          /\ acks' = IF HasKey(db, key)
                       THEN acks
                       ELSE acks \cup {[run |-> run, topic |-> topic,
                                        payload |-> payload, key |-> key]}
          /\ UNCHANGED <<lane, work, tail, sealed, swept, crashes>>

\* cas goes through scoped: in a unit both writes join it; otherwise each
\* statement of cas_update commits by itself, the audit row after the update.
\* A stale view changes no run, nor does one of a run that is gone, and the
\* refusal is audited as denied.
cas(run, expected) ==
    /\ expected < MaxRev
    /\ \/ /\ lane = "active"
          /\ \E outcome \in BestEffort :
               work' = IF CasMatches(work, run, expected)
                         THEN audit_write(CasApplied(work, run), outcome,
                                          <<"cas", run, expected + 1>>)
                         ELSE audit_write(work, outcome, <<"denied", run, expected>>)
          /\ UNCHANGED <<db, tail>>
       \/ /\ lane = "idle"
          /\ CasMatches(db, run, expected)
          /\ db' = CasApplied(db, run)
          /\ tail' = tail \cup {<<"cas", run, expected + 1>>}
          /\ UNCHANGED work
       \/ /\ lane = "idle"
          /\ ~ CasMatches(db, run, expected)
          /\ \E outcome \in BestEffort :
               db' = audit_write(db, outcome, <<"denied", run, expected>>)
          /\ UNCHANGED <<work, tail>>
    /\ UNCHANGED <<lane, acks, sealed, swept, crashes>>

\* Mutant: any replay of a known key is a receipt.
enqueue_settlement_AnyReplay(run, topic, payload, key) ==
    /\ lane = "idle"
    /\ EnqueueAllowed(db, run, NoParent, topic, key)
    /\ db' = insert_row(db, run, NoParent, topic, payload, key, "written")
    /\ acks' = acks \cup {[run |-> run, topic |-> topic, payload |-> payload, key |-> key]}
    /\ UNCHANGED <<lane, work, tail, sealed, swept, crashes>>

\* enqueue_settlement: never joins a unit.  A new row needs its evidence; a
\* replayed key is a receipt only for the identical delivery.  When the
\* outcome of its COMMIT cannot be certified there is no receipt.
enqueue_settlement(run, topic, payload, key) ==
    LET delivery == [run |-> run, topic |-> topic, payload |-> payload, key |-> key]
    IN  /\ lane = "idle"
        /\ EnqueueAllowed(db, run, NoParent, topic, key)
        /\ \/ /\ ~ HasKey(db, key)
              /\ db' = insert_row(db, run, NoParent, topic, payload, key, "written")
           \/ /\ \E i \in DOMAIN db.rows : Identity(db.rows[i]) = delivery
              /\ UNCHANGED db
        /\ \/ acks' = acks \cup {delivery}
           \/ Faults /\ UNCHANGED acks
        /\ UNCHANGED <<lane, work, tail, sealed, swept, crashes>>

\* audit_settlement: a checked audit row in a transaction of its own; an
\* outcome that cannot be certified fails the lane.
audit_settlement(run) ==
    /\ lane = "idle"
    /\ \/ /\ db' = audit_write(db, "written", <<"settled", run, 0>>)
          /\ sealed' = sealed \cup {run}
          /\ UNCHANGED lane
       \/ /\ Faults
          /\ \E outcome \in Outcomes : db' = audit_write(db, outcome, <<"settled", run, 0>>)
          /\ lane' = "failed"
          /\ UNCHANGED sealed
    /\ UNCHANGED <<work, tail, acks, swept, crashes>>

-----------------------------------------------------------------------------
(* Writers on connections of their own: the handlers and the drain worker *)

\* Another connection writes only while no unit holds the write lock.
Unlocked == lane # "active"

\* append_lineage: the tip is read in the transaction that parents at it.
append_lineage(run, payload, key) ==
    /\ Unlocked
    /\ Room(db, key)
    /\ \E tip \in {NoParent} \cup DOMAIN db.rows, outcome \in BestEffort :
         /\ IsRunTip(db, run, tip)
         /\ db' = insert_row(db, run, tip, "case", payload, key, outcome)
    /\ UNCHANGED <<lane, work, tail, acks, sealed, swept, crashes>>

Steering(d, run) == {i \in DOMAIN d.rows : d.rows[i].run = run /\ d.rows[i].topic = "steering"}
Oldest(S, n) == {i \in S : Cardinality({k \in S : k < i}) < n}

\* Mutant: room is made for one message too few.
Dropped_TooFew(d, run) == Oldest(Steering(d, run), Cardinality(Steering(d, run)) - SteeringCap)

\* What the drop-oldest statement of a full inbox selects.
Dropped(d, run) == Oldest(Steering(d, run), Cardinality(Steering(d, run)) - (SteeringCap - 1))

\* Mutant: the connection was opened without foreign_keys=ON.
Deletable_Unchecked(d, D) == D \subseteq DOMAIN d.rows

\* PRAGMA foreign_keys=ON: a parent of a surviving row cannot be deleted.
Deletable(d, D) == \A i \in DOMAIN d.rows \ D : d.rows[i].parent \notin D

Without(d, D) == [d EXCEPT !.rows = [i \in DOMAIN d.rows \ D |-> d.rows[i]]]

\* enqueue_steering_tx: drop-oldest and enqueue in one transaction.
enqueue_steering_tx(run, payload) ==
    /\ Unlocked
    /\ db.nextId <= MaxId
    /\ Deletable(db, Dropped(db, run))
    /\ \E outcome \in BestEffort :
         db' = insert_row(Without(db, Dropped(db, run)), run, NoParent, "steering",
                          payload, SteeringKey(db.nextId), outcome)
    /\ UNCHANGED <<lane, work, tail, acks, sealed, swept, crashes>>

RowsOf(d, S) == {i \in DOMAIN d.rows : d.rows[i].run \in S}

\* sweep_subject, in the transaction of an erasure: the runs that mention the
\* subject and that no legal hold freezes are deleted, with every row of
\* theirs in the outbox.  outbox.run_id is a soft reference: nothing keeps a
\* later enqueue from adding a row for a deleted run.
sweep_subject(S) ==
    /\ Unlocked
    /\ S # {} /\ S \cap swept = {}
    /\ Deletable(db, RowsOf(db, S))
    /\ db' = Without(db, RowsOf(db, S))
    /\ swept' = swept \cup S
    /\ acks' = {a \in acks : a.run \notin S}
    /\ UNCHANGED <<lane, work, tail, sealed, crashes>>

Delivered(d, i) == [d EXCEPT !.rows[i].status = "delivered"]

\* deliver, on the drain worker's autocommit connection: the update commits,
\* its audit row is a second transaction.
deliver(i) ==
    /\ Unlocked
    /\ i \in DOMAIN db.rows
    /\ db.rows[i].topic \in Drained
    /\ db.rows[i].status = "pending"
    /\ db' = Delivered(db, i)
    /\ tail' = tail \cup {<<"delivered", db.rows[i].run, i>>}
    /\ UNCHANGED <<lane, work, acks, sealed, swept, crashes>>

\* The second commit of an autocommitted update, or its loss.
AuditLate(fact) ==
    /\ Unlocked
    /\ fact \in tail
    /\ \E outcome \in BestEffort : db' = audit_write(db, outcome, fact)
    /\ tail' = tail \ {fact}
    /\ UNCHANGED <<lane, work, acks, sealed, swept, crashes>>

\* The process is killed: the open unit is rolled back, what was still to be
\* written is not, and the next process starts with an idle lane.
Crash ==
    /\ crashes < MaxCrashes
    /\ crashes' = crashes + 1
    /\ lane' = "idle"
    /\ work' = EmptyDb
    /\ tail' = {}
    /\ UNCHANGED <<db, acks, sealed, swept>>

-----------------------------------------------------------------------------
Init ==
    /\ db = EmptyDb
    /\ lane = "idle"
    /\ work = EmptyDb
    /\ tail = {}
    /\ acks = {}
    /\ sealed = {}
    /\ swept = {}
    /\ crashes = 0

Next ==
    \/ tx \/ FinishCommit \/ FinishRollback \/ FinishIndeterminate
    \/ \E run \in Runs, topic \in Topics, payload \in Payloads, key \in Keys :
         \/ \E parent \in 0 .. MaxId : enqueue_with_parent(run, parent, topic, payload, key)
         \/ enqueue_settlement(run, topic, payload, key)
    \/ \E run \in Runs :
         \/ \E expected \in 0 .. MaxRev : cas(run, expected)
         \/ audit_settlement(run)
         \/ \E payload \in Payloads :
              \/ enqueue_steering_tx(run, payload)
              \/ \E key \in Keys : append_lineage(run, payload, key)
    \/ \E S \in SUBSET Runs : sweep_subject(S)
    \/ \E i \in 1 .. MaxId : deliver(i)
    \/ \E fact \in tail : AuditLate(fact)
    \/ Crash

Spec == Init /\ [][Next]_vars

-----------------------------------------------------------------------------
(* Properties *)

\* Every variable has its type.
TypeOK ==
    /\ IsDb(db) /\ IsDb(work)
    /\ lane \in {"idle", "active", "failed"}
    /\ acks \subseteq [run : Runs, topic : Topics, payload : Payloads, key : AllKeys]
    /\ sealed \subseteq Runs /\ swept \subseteq Runs
    /\ crashes \in Nat

\* verify_outbox_lineage for every run: a parent is an earlier row of the
\* same run.  Steering rows are deleted and may be parents (a tip is any row
\* of the run), so this rests on what a deletion may select.
verify_outbox_lineage(d) ==
    \A c \in DOMAIN d.rows :
        d.rows[c].parent # NoParent =>
            LET p == d.rows[c].parent
            IN  p \in DOMAIN d.rows /\ p < c /\ d.rows[p].run = d.rows[c].run

LineageHolds == verify_outbox_lineage(db)

\* One row per idempotency key, whoever enqueues it and through whichever arm.
OneRowPerKey(d) == \A i, j \in DOMAIN d.rows : d.rows[i].key = d.rows[j].key => i = j

\* An acknowledged delivery is the committed row of that key, with that run,
\* topic and payload, and an acknowledged lifecycle audit is on the chain: no
\* rollback, replay, failed lane or kill takes either back, and the erasure of
\* a run takes only the deliveries of that run.
ReceiptsHold ==
    /\ \A a \in acks : \E i \in DOMAIN db.rows : Identity(db.rows[i]) = a
    /\ \A run \in sealed : <<"settled", run, 0>> \in db.evid

\* A committed row keeps its identity and its parent, is never un-delivered,
\* its id never comes back once it is gone, and only a steering row goes.
RowsKept(d, e) ==
    \A i \in 1 .. (d.nextId - 1) :
        IF i \in DOMAIN d.rows
          THEN IF i \in DOMAIN e.rows
                 THEN /\ Identity(e.rows[i]) = Identity(d.rows[i])
                      /\ e.rows[i].parent = d.rows[i].parent
                      /\ d.rows[i].status = "delivered" => e.rows[i].status = "delivered"
                 ELSE d.rows[i].topic = "steering"
          ELSE i \notin DOMAIN e.rows

\* Rows are kept, no revision goes back, no audit row disappears.
Kept(d, e) ==
    /\ d.nextId <= e.nextId
    /\ RowsKept(d, e)
    /\ \A run \in Runs : d.rev[run] <= e.rev[run]
    /\ d.evid \subseteq e.evid

\* No commit, of a unit or beside one, takes back what another committed,
\* except that an erasure takes every row of the runs it deletes and nothing
\* else.  Two statements delete rows, the full inbox's and the erasure's, and
\* a reader's cursor or a delayed delivery goes by id, so no id they free may
\* name another row.
Erased(d, e) ==
    /\ e.rows = [i \in DOMAIN d.rows \ RowsOf(d, swept' \ swept) |-> d.rows[i]]
    /\ e.nextId = d.nextId /\ e.rev = d.rev /\ e.evid = d.evid
HistoryKept == [][IF swept' = swept THEN Kept(db, db') ELSE Erased(db, db')]_vars

\* The steering inbox of a run never exceeds its bound.
InboxBounded(d) == \A run \in Runs : Cardinality(Steering(d, run)) <= SteeringCap
SteeringBounded == InboxBounded(db)

\* Every committed outbox row has its enqueue audit row: the two share a
\* transaction, so no kill comes between them.
Evidenced(d) ==
    \A i \in DOMAIN d.rows : <<"enqueue", d.rows[i].run, d.rows[i].key>> \in d.evid
EnqueueEvidenced == Evidenced(db)

\* "every mutating call is atomic in itself and emits its audit row inside
\* the same transaction" (WorkflowHost), and of deliver "its audit row commits
\* in the same tx" (drain_workflow_events): once no audit row is still to be
\* written, every revision a run went through and every delivered row has one.
UpdatesEvidenced ==
    tail = {} =>
        /\ \A run \in Runs : \A r \in 1 .. db.rev[run] : <<"cas", run, r>> \in db.evid
        /\ \A i \in DOMAIN db.rows :
             db.rows[i].status = "delivered" => <<"delivered", db.rows[i].run, i>> \in db.evid

\* The sweep deletes "matched runs with their dependents" (sweep_subject): a
\* run that is gone has no row in the outbox.
SweptIsGone == RowsOf(db, swept) = {}

\* "bounded inbox drop-oldest at 100" (docs/api.md): a full inbox can always
\* drop its oldest message to take a new one.
InboxDrops ==
    \A run \in Runs : Deletable(db, Dropped(db, run))

-----------------------------------------------------------------------------
(* The inductive invariant behind lineage, receipts and history *)

\* What every database, committed or seen by a unit, satisfies.
SoundDb(d) == verify_outbox_lineage(d) /\ OneRowPerKey(d)

\* The open unit only adds to what was committed when it began.
UnitAdds == lane = "active" => Kept(db, work)

\* A delivery on a kernel topic is never acknowledged, so no acknowledged row
\* is one the steering inbox may drop.
AcksUnreserved == \A a \in acks : ~ topic_is_reserved(a.topic)

OutboxInv ==
    /\ SoundDb(db) /\ SoundDb(work)
    /\ UnitAdds
    /\ AcksUnreserved
    /\ ReceiptsHold
=============================================================================
