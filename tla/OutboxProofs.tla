----------------------------- MODULE OutboxProofs -----------------------------
(***************************************************************************)
(* For every set of runs, keys and payloads and every inbox bound: the     *)
(* lineage law, durable receipts, a history that only an erasure and the   *)
(* full inbox shorten, the bound of the steering inbox and, where no audit *)
(* write is lost, the evidence of every enqueue.  The first three follow   *)
(* from OutboxInv, which says of the open unit that it adds to what was    *)
(* committed when it began; the last two hold of the committed database    *)
(* and of the open unit's view alike, and every statement preserves them.  *)
(***************************************************************************)
EXTENDS Outbox, FiniteSetTheorems, WellFoundedInduction, TLAPS

-----------------------------------------------------------------------------
(* The statements preserve type, lineage and keys, and keep history *)

\* The empty database has its type and satisfies every law.
LEMMA EmptyDbSound == IsDb(EmptyDb) /\ SoundDb(EmptyDb)
  BY DEF EmptyDb, IsDb, SoundDb, verify_outbox_lineage, OneRowPerKey, Row

\* A database keeps its own history.
LEMMA KeptSelf == ASSUME NEW d, IsDb(d) PROVE Kept(d, d)
  BY DEF Kept, RowsKept, IsDb

\* History kept twice is history kept.
LEMMA KeptTwice ==
    ASSUME NEW d, NEW e, NEW f, IsDb(d), IsDb(e), IsDb(f), Kept(d, e), Kept(e, f)
    PROVE  Kept(d, f)
<1>1. d.nextId <= f.nextId
  BY DEF Kept, IsDb
<1>2. RowsKept(d, f)
  <2> SUFFICES ASSUME NEW i \in 1 .. (d.nextId - 1)
               PROVE  IF i \in DOMAIN d.rows
                        THEN IF i \in DOMAIN f.rows
                               THEN /\ Identity(f.rows[i]) = Identity(d.rows[i])
                                    /\ f.rows[i].parent = d.rows[i].parent
                                    /\ d.rows[i].status = "delivered"
                                         => f.rows[i].status = "delivered"
                               ELSE d.rows[i].topic = "steering"
                        ELSE i \notin DOMAIN f.rows
    BY DEF RowsKept
  <2>1. i \in 1 .. (e.nextId - 1)
    BY DEF Kept, IsDb
  <2>2. Identity(e.rows[i]) = Identity(d.rows[i]) => e.rows[i].topic = d.rows[i].topic
    BY DEF Identity
  <2> QED
    BY <2>1, <2>2 DEF Kept, RowsKept
<1>3. \A run \in Runs : d.rev[run] <= f.rev[run]
  BY DEF Kept, IsDb
<1> QED
  BY <1>1, <1>2, <1>3 DEF Kept

\* An audit row changes nothing but the evidence, which grows.
LEMMA AuditWriteSound ==
    ASSUME NEW d, IsDb(d), NEW outcome, NEW fact
    PROVE  LET e == audit_write(d, outcome, fact)
           IN  /\ IsDb(e) /\ Kept(d, e) /\ e.rows = d.rows
               /\ SoundDb(d) => SoundDb(e)
               /\ outcome = "written" => fact \in e.evid
<1> DEFINE e == audit_write(d, outcome, fact)
<1>1. CASE outcome # "written"
  BY <1>1, KeptSelf DEF audit_write
<1>2. CASE outcome = "written"
  <2>1. e = [rows |-> d.rows, nextId |-> d.nextId, rev |-> d.rev,
             evid |-> d.evid \cup {fact}]
    BY <1>2 DEF audit_write, IsDb
  <2>2. IsDb(e)
    BY <2>1 DEF IsDb
  <2>3. Kept(d, e)
    BY <2>1 DEF IsDb, Kept, RowsKept
  <2>4. SoundDb(d) => SoundDb(e)
    BY <2>1 DEF SoundDb, verify_outbox_lineage, OneRowPerKey
  <2> QED
    BY <2>1, <2>2, <2>3, <2>4
<1> QED
  BY <1>1, <1>2

\* Advancing a revision touches no row.
LEMMA CasAppliedSound ==
    ASSUME NEW d, IsDb(d), NEW run \in Runs
    PROVE  LET e == CasApplied(d, run)
           IN  IsDb(e) /\ Kept(d, e) /\ (SoundDb(d) => SoundDb(e))
<1> DEFINE e == CasApplied(d, run)
<1>1. e = [rows |-> d.rows, nextId |-> d.nextId,
           rev |-> [d.rev EXCEPT ![run] = @ + 1], evid |-> d.evid]
  BY DEF CasApplied, IsDb
<1>2. d.rev[run] \in Nat
  BY DEF IsDb
<1>3. IsDb(e)
  BY <1>1, <1>2 DEF IsDb
<1>4. Kept(d, e)
  BY <1>1, <1>2 DEF IsDb, Kept, RowsKept
<1>5. SoundDb(d) => SoundDb(e)
  BY <1>1 DEF SoundDb, verify_outbox_lineage, OneRowPerKey
<1> QED
  BY <1>3, <1>4, <1>5

\* An enqueue of any flavour: the row is new, or the database is unchanged.
LEMMA InsertSound ==
    ASSUME NEW d, IsDb(d), NEW run \in Runs, NEW parent \in Nat, NEW topic \in Topics,
           NEW payload \in Payloads, NEW key \in AllKeys, NEW outcome \in Outcomes,
           ParentAllowed(d, run, parent)
    PROVE  LET e == insert_row(d, run, parent, topic, payload, key, outcome)
           IN  /\ IsDb(e) /\ Kept(d, e)
               /\ SoundDb(d) => SoundDb(e)
               /\ ~ HasKey(d, key) =>
                    \E i \in DOMAIN e.rows :
                        Identity(e.rows[i]) = [run |-> run, topic |-> topic,
                                               payload |-> payload, key |-> key]
<1> DEFINE row == [run |-> run, topic |-> topic, payload |-> payload, key |-> key,
                   parent |-> parent, status |-> "pending"]
           grown == [i \in DOMAIN d.rows \cup {d.nextId} |->
                        IF i = d.nextId THEN row ELSE d.rows[i]]
           g == [rows |-> grown, nextId |-> d.nextId + 1, rev |-> d.rev, evid |-> d.evid]
           e == insert_row(d, run, parent, topic, payload, key, outcome)
<1>1. CASE HasKey(d, key)
  BY <1>1, KeptSelf DEF insert_row
<1>2. CASE ~ HasKey(d, key)
  <2>1. e = audit_write(g, outcome, <<"enqueue", run, key>>)
    BY <1>2 DEF insert_row, IsDb
  <2>2. IsDb(g)
    <3>1. row \in Row
      BY DEF Row
    <3>2. grown \in [DOMAIN d.rows \cup {d.nextId} -> Row]
      BY <3>1 DEF IsDb
    <3>3. DOMAIN g.rows \subseteq 1 .. (g.nextId - 1)
      BY DEF IsDb
    <3> QED
      BY <3>2, <3>3 DEF IsDb
  <2>3. Kept(d, g)
    BY DEF IsDb, Kept, RowsKept
  <2>4. SoundDb(d) => SoundDb(g)
    <3> SUFFICES ASSUME SoundDb(d) PROVE SoundDb(g)
      OBVIOUS
    <3>0. DOMAIN g.rows = DOMAIN d.rows \cup {d.nextId}
      OBVIOUS
    <3>1. verify_outbox_lineage(g)
      <4> SUFFICES ASSUME NEW c \in DOMAIN g.rows, g.rows[c].parent # NoParent
                   PROVE  LET p == g.rows[c].parent
                          IN  p \in DOMAIN g.rows /\ p < c /\ g.rows[p].run = g.rows[c].run
        BY DEF verify_outbox_lineage
      <4>1. CASE c = d.nextId
        BY <4>1 DEF ParentAllowed, IsDb
      <4>2. CASE c \in DOMAIN d.rows /\ c # d.nextId
        BY <4>2 DEF SoundDb, verify_outbox_lineage, IsDb
      <4> QED
        BY <4>1, <4>2
    <3>2. OneRowPerKey(g)
      BY <1>2 DEF SoundDb, OneRowPerKey, HasKey, IsDb
    <3> QED
      BY <3>1, <3>2 DEF SoundDb
  <2>5. /\ IsDb(e) /\ Kept(g, e) /\ e.rows = g.rows
        /\ SoundDb(g) => SoundDb(e)
    BY <2>1, <2>2, AuditWriteSound
  <2>6. Kept(d, e)
    BY <2>2, <2>3, <2>5, KeptTwice
  <2>7. d.nextId \in DOMAIN e.rows
    BY <2>5
  <2>8. Identity(e.rows[d.nextId]) = [run |-> run, topic |-> topic,
                                     payload |-> payload, key |-> key]
    BY <2>5 DEF Identity
  <2> QED
    BY <2>4, <2>5, <2>6, <2>7, <2>8
<1> QED
  BY <1>1, <1>2

\* Dropping rows that are no survivor's parent keeps the laws, and dropping
\* steering rows keeps history.
LEMMA WithoutSound ==
    ASSUME NEW d, IsDb(d), NEW D, Deletable(d, D)
    PROVE  LET e == Without(d, D)
           IN  /\ IsDb(e) /\ (SoundDb(d) => SoundDb(e))
               /\ (\A i \in D : i \in DOMAIN d.rows /\ d.rows[i].topic = "steering")
                    => Kept(d, e)
<1> DEFINE kept == [i \in DOMAIN d.rows \ D |-> d.rows[i]]
           e == Without(d, D)
<1>1. e = [rows |-> kept, nextId |-> d.nextId, rev |-> d.rev, evid |-> d.evid]
  BY DEF Without, IsDb
<1>2. IsDb(e)
  BY <1>1 DEF IsDb
<1>3. (\A i \in D : i \in DOMAIN d.rows /\ d.rows[i].topic = "steering") => Kept(d, e)
  BY <1>1 DEF IsDb, Kept, RowsKept
<1>4. SoundDb(d) => verify_outbox_lineage(e)
  <2> SUFFICES ASSUME SoundDb(d), NEW c \in DOMAIN e.rows, e.rows[c].parent # NoParent
               PROVE  LET p == e.rows[c].parent
                      IN  p \in DOMAIN e.rows /\ p < c /\ e.rows[p].run = e.rows[c].run
    BY DEF verify_outbox_lineage
  <2>1. c \in DOMAIN d.rows \ D /\ e.rows[c] = d.rows[c]
    BY <1>1
  <2>2. d.rows[c].parent \notin D
    BY <2>1 DEF Deletable
  <2> QED
    BY <1>1, <2>1, <2>2 DEF SoundDb, verify_outbox_lineage
<1>5. SoundDb(d) => OneRowPerKey(e)
  BY <1>1 DEF SoundDb, OneRowPerKey
<1> QED
  BY <1>2, <1>3, <1>4, <1>5 DEF SoundDb

\* Marking a row delivered keeps everything else of it.
LEMMA DeliveredSound ==
    ASSUME NEW d, IsDb(d), NEW i \in DOMAIN d.rows
    PROVE  LET e == Delivered(d, i)
           IN  IsDb(e) /\ Kept(d, e) /\ (SoundDb(d) => SoundDb(e))
<1> DEFINE row == [d.rows[i] EXCEPT !.status = "delivered"]
           e == Delivered(d, i)
<1>1. e = [rows |-> [d.rows EXCEPT ![i] = row], nextId |-> d.nextId,
           rev |-> d.rev, evid |-> d.evid]
  BY DEF IsDb, Delivered
<1>2. d.rows[i] \in Row
  BY DEF IsDb
<1>3. /\ row \in Row /\ row.status = "delivered"
      /\ row.run = d.rows[i].run /\ row.topic = d.rows[i].topic
      /\ row.payload = d.rows[i].payload /\ row.key = d.rows[i].key
      /\ row.parent = d.rows[i].parent
  BY <1>2 DEF Row
<1>4. IsDb(e)
  BY <1>1, <1>3 DEF IsDb
<1>5. \A j \in DOMAIN d.rows :
        /\ e.rows[j].run = d.rows[j].run /\ e.rows[j].topic = d.rows[j].topic
        /\ e.rows[j].payload = d.rows[j].payload /\ e.rows[j].key = d.rows[j].key
        /\ e.rows[j].parent = d.rows[j].parent
        /\ d.rows[j].status = "delivered" => e.rows[j].status = "delivered"
  BY <1>1, <1>3
<1>6. DOMAIN e.rows = DOMAIN d.rows
  BY <1>1
<1>7. RowsKept(d, e)
  BY <1>5, <1>6 DEF RowsKept, Identity
<1>8. Kept(d, e)
  BY <1>1, <1>7 DEF Kept, IsDb
<1>9. SoundDb(d) => SoundDb(e)
  BY <1>5, <1>6 DEF SoundDb, verify_outbox_lineage, OneRowPerKey
<1> QED
  BY <1>4, <1>8, <1>9

\* A best-effort audit row is written or dropped.
LEMMA OutcomeType == \A outcome \in BestEffort : outcome \in Outcomes
  BY OutboxAssumption DEF BestEffort, Outcomes

\* Keys the callers choose, and the steering key, are keys.
LEMMA KeyTypes == (\A key \in Keys : key \in AllKeys) /\ (\A i \in Nat : SteeringKey(i) \in AllKeys)
  BY DEF AllKeys, SteeringKey

\* The tip of a run is an allowed parent.
LEMMA TipAllowed ==
    ASSUME NEW d, IsDb(d), NEW run \in Runs, NEW tip \in {NoParent} \cup DOMAIN d.rows,
           IsRunTip(d, run, tip)
    PROVE  tip \in Nat /\ ParentAllowed(d, run, tip)
  BY DEF IsDb, IsRunTip, ParentAllowed, NoParent

-----------------------------------------------------------------------------
(* Every step takes sound databases to sound databases and keeps history *)

\* What one step does to the committed database and to the unit's view.
StepSound ==
    /\ IsDb(db') /\ IsDb(work')
    /\ SoundDb(db') /\ SoundDb(work')
    /\ Kept(db, db') \/ \E S \in SUBSET Runs : sweep_subject(S)
    /\ UnitAdds'

\* Each action in turn; only enqueues, cas, the steering inbox and the erasure
\* change rows or revisions, and each of those is one of the statements above.
LEMMA NextSound ==
    ASSUME TypeOK, OutboxInv, [Next]_vars
    PROVE  StepSound
<1> USE DEF TypeOK, OutboxInv
<1>0. Kept(db, db) /\ Kept(work, work)
  BY KeptSelf
<1>1. CASE tx
  BY <1>0, <1>1 DEF tx, StepSound, UnitAdds
<1>2. CASE FinishCommit \/ FinishRollback \/ FinishIndeterminate
  BY <1>0, <1>2, EmptyDbSound
     DEF FinishCommit, FinishRollback, FinishIndeterminate, StepSound, UnitAdds
<1>3. ASSUME NEW run \in Runs, NEW topic \in Topics, NEW payload \in Payloads,
             NEW key \in Keys, NEW parent \in 0 .. MaxId,
             enqueue_with_parent(run, parent, topic, payload, key)
      PROVE  StepSound
  <2> PICK outcome \in BestEffort :
         \/ /\ lane = "active"
            /\ EnqueueAllowed(work, run, parent, topic, key)
            /\ work' = insert_row(work, run, parent, topic, payload, key, outcome)
            /\ UNCHANGED <<db, lane>>
         \/ /\ lane = "idle"
            /\ EnqueueAllowed(db, run, parent, topic, key)
            /\ db' = insert_row(db, run, parent, topic, payload, key, outcome)
            /\ UNCHANGED <<work, lane>>
    BY <1>3 DEF enqueue_with_parent
  <2>1. outcome \in Outcomes /\ key \in AllKeys /\ parent \in Nat
    BY OutcomeType, KeyTypes, OutboxAssumption
  <2>2. CASE lane = "active"
    <3>1. ParentAllowed(work, run, parent)
      BY <2>2 DEF EnqueueAllowed
    <3>2. /\ work' = insert_row(work, run, parent, topic, payload, key, outcome)
          /\ db' = db /\ lane' = "active"
      BY <2>2
    <3>3. IsDb(work') /\ Kept(work, work') /\ SoundDb(work')
      BY <2>1, <3>1, <3>2, InsertSound
    <3>4. Kept(db, work')
      BY <2>2, <3>3, KeptTwice DEF UnitAdds
    <3> QED
      BY <1>0, <3>2, <3>3, <3>4 DEF StepSound, UnitAdds
  <2>3. CASE lane = "idle"
    <3>1. ParentAllowed(db, run, parent)
      BY <2>3 DEF EnqueueAllowed
    <3>2. /\ db' = insert_row(db, run, parent, topic, payload, key, outcome)
          /\ work' = work /\ lane' = "idle"
      BY <2>3
    <3>3. IsDb(db') /\ Kept(db, db') /\ SoundDb(db')
      BY <2>1, <3>1, <3>2, InsertSound
    <3> QED
      BY <3>2, <3>3 DEF StepSound, UnitAdds
  <2> QED
    BY <2>2, <2>3
<1>4. ASSUME NEW run \in Runs, NEW topic \in Topics, NEW payload \in Payloads,
             NEW key \in Keys, enqueue_settlement(run, topic, payload, key)
      PROVE  StepSound
  <2>1. lane' = "idle" /\ work' = work
    BY <1>4 DEF enqueue_settlement
  <2>2. CASE db' = db
    BY <1>0, <2>1, <2>2 DEF StepSound, UnitAdds
  <2>3. CASE db' = insert_row(db, run, NoParent, topic, payload, key, "written")
    <3>1. /\ ParentAllowed(db, run, NoParent) /\ NoParent \in Nat /\ key \in AllKeys
          /\ "written" \in Outcomes
      BY KeyTypes DEF ParentAllowed, NoParent, Outcomes
    <3>2. IsDb(db') /\ Kept(db, db') /\ SoundDb(db')
      BY <2>3, <3>1, InsertSound
    <3> QED
      BY <2>1, <3>2 DEF StepSound, UnitAdds
  <2> QED
    BY <1>4, <2>2, <2>3 DEF enqueue_settlement
<1>5. ASSUME NEW run \in Runs, NEW expected \in 0 .. MaxRev, cas(run, expected)
      PROVE  StepSound
  <2>0. lane' = lane
    BY <1>5 DEF cas
  <2>1. CASE lane = "active"
    <3>1. db' = db
      BY <1>5, <2>1 DEF cas
    <3>2. PICK outcome \in BestEffort :
            \/ work' = audit_write(CasApplied(work, run), outcome, <<"cas", run, expected + 1>>)
            \/ work' = audit_write(work, outcome, <<"denied", run, expected>>)
      BY <1>5, <2>1 DEF cas
    <3>3. IsDb(CasApplied(work, run)) /\ Kept(work, CasApplied(work, run))
             /\ SoundDb(CasApplied(work, run))
      BY CasAppliedSound
    <3>4. IsDb(work') /\ SoundDb(work')
      BY <3>2, <3>3, AuditWriteSound
    <3>5. Kept(work, work')
      BY <3>2, <3>3, <3>4, AuditWriteSound, KeptTwice
    <3>6. Kept(db, work')
      BY <2>1, <3>4, <3>5, KeptTwice DEF UnitAdds
    <3> QED
      BY <1>0, <2>0, <3>1, <3>4, <3>6 DEF StepSound, UnitAdds
  <2>2. CASE lane = "idle"
    <3>1. work' = work
      BY <1>5, <2>2 DEF cas
    <3>2. \/ db' = CasApplied(db, run)
          \/ \E outcome \in BestEffort : db' = audit_write(db, outcome, <<"denied", run, expected>>)
      BY <1>5, <2>2 DEF cas
    <3>3. IsDb(db') /\ Kept(db, db') /\ SoundDb(db')
      BY <3>2, CasAppliedSound, AuditWriteSound
    <3> QED
      BY <2>0, <2>2, <3>1, <3>3 DEF StepSound, UnitAdds
  <2> QED
    BY <1>5, <2>1, <2>2 DEF cas
<1>6. ASSUME NEW run \in Runs, audit_settlement(run)
      PROVE  StepSound
  <2>1. /\ lane' \in {"idle", "failed"} /\ work' = work
        /\ \E outcome \in Outcomes : db' = audit_write(db, outcome, <<"settled", run, 0>>)
    BY <1>6 DEF audit_settlement, Outcomes
  <2>2. IsDb(db') /\ Kept(db, db') /\ SoundDb(db')
    BY <2>1, AuditWriteSound
  <2> QED
    BY <2>1, <2>2 DEF StepSound, UnitAdds
<1>7. ASSUME NEW run \in Runs, NEW payload \in Payloads, enqueue_steering_tx(run, payload)
      PROVE  StepSound
  <2> DEFINE D == Dropped(db, run)
             d == Without(db, D)
  <2>1. /\ lane' # "active" /\ work' = work /\ Deletable(db, D)
        /\ \E outcome \in BestEffort :
             db' = insert_row(d, run, NoParent, "steering", payload,
                              SteeringKey(db.nextId), outcome)
    BY <1>7 DEF enqueue_steering_tx, Unlocked
  <2>2. \A i \in D : i \in DOMAIN db.rows /\ db.rows[i].topic = "steering"
    BY DEF Dropped, Oldest, Steering
  <2>3. IsDb(d) /\ Kept(db, d) /\ SoundDb(d)
    BY <2>1, <2>2, WithoutSound
  <2>4. /\ ParentAllowed(d, run, NoParent) /\ NoParent \in Nat
        /\ SteeringKey(db.nextId) \in AllKeys /\ "steering" \in Topics
    BY KeyTypes DEF ParentAllowed, NoParent, IsDb, Topics
  <2>5. IsDb(db') /\ Kept(d, db') /\ SoundDb(db')
    BY <2>1, <2>3, <2>4, OutcomeType, InsertSound
  <2>6. Kept(db, db')
    BY <2>3, <2>5, KeptTwice
  <2> QED
    BY <2>1, <2>5, <2>6 DEF StepSound, UnitAdds
<1>8. ASSUME NEW run \in Runs, NEW payload \in Payloads, NEW key \in Keys,
             append_lineage(run, payload, key)
      PROVE  StepSound
  <2>1. lane' # "active" /\ work' = work
    BY <1>8 DEF append_lineage, Unlocked
  <2>2. PICK tip \in {NoParent} \cup DOMAIN db.rows, outcome \in BestEffort :
          /\ IsRunTip(db, run, tip)
          /\ db' = insert_row(db, run, tip, "case", payload, key, outcome)
    BY <1>8 DEF append_lineage
  <2>3. tip \in Nat /\ ParentAllowed(db, run, tip)
    BY <2>2, TipAllowed
  <2>4. "case" \in Topics /\ key \in AllKeys /\ outcome \in Outcomes
    BY KeyTypes, OutcomeType DEF Topics
  <2>5. IsDb(db') /\ Kept(db, db') /\ SoundDb(db')
    BY <2>2, <2>3, <2>4, InsertSound
  <2> QED
    BY <2>1, <2>5 DEF StepSound, UnitAdds
<1>9. ASSUME NEW i \in 1 .. MaxId, deliver(i)
      PROVE  StepSound
  <2>1. /\ lane' # "active" /\ work' = work /\ i \in DOMAIN db.rows
        /\ db' = Delivered(db, i)
    BY <1>9 DEF deliver, Unlocked
  <2>2. IsDb(db') /\ Kept(db, db') /\ SoundDb(db')
    BY <2>1, DeliveredSound
  <2> QED
    BY <2>1, <2>2 DEF StepSound, UnitAdds
<1>10. ASSUME NEW fact \in tail, AuditLate(fact)
       PROVE  StepSound
  <2>1. /\ lane' # "active" /\ work' = work
        /\ \E outcome \in BestEffort : db' = audit_write(db, outcome, fact)
    BY <1>10 DEF AuditLate, Unlocked
  <2>2. IsDb(db') /\ Kept(db, db') /\ SoundDb(db')
    BY <2>1, AuditWriteSound
  <2> QED
    BY <2>1, <2>2 DEF StepSound, UnitAdds
<1>13. ASSUME NEW S \in SUBSET Runs, sweep_subject(S)
       PROVE  StepSound
  <2>1. /\ lane' # "active" /\ work' = work /\ Deletable(db, RowsOf(db, S))
        /\ db' = Without(db, RowsOf(db, S))
    BY <1>13 DEF sweep_subject, Unlocked
  <2>2. IsDb(db') /\ SoundDb(db')
    BY <2>1, WithoutSound
  <2> QED
    BY <1>13, <2>1, <2>2 DEF StepSound, UnitAdds
<1>11. CASE Crash
  BY <1>0, <1>11, EmptyDbSound DEF Crash, StepSound, UnitAdds
<1>12. CASE UNCHANGED vars
  BY <1>0, <1>12 DEF vars, StepSound, UnitAdds
<1> QED
  BY <1>1, <1>2, <1>3, <1>4, <1>5, <1>6, <1>7, <1>8, <1>9, <1>10, <1>11, <1>12, <1>13 DEF Next

\* Which actions may change the lane, the receipts and the crash count.
LEMMA Frame ==
    ASSUME [Next]_vars
    PROVE  \/ UNCHANGED <<lane, acks, sealed, crashes>>
           \/ /\ UNCHANGED <<acks, sealed>>
              /\ tx \/ FinishCommit \/ FinishRollback \/ FinishIndeterminate \/ Crash
           \/ /\ UNCHANGED <<lane, sealed, crashes>> /\ acks' \subseteq acks
              /\ \E S \in SUBSET Runs : sweep_subject(S)
           \/ /\ UNCHANGED <<lane, sealed, crashes>>
              /\ \E run \in Runs, topic \in Topics, payload \in Payloads, key \in Keys :
                   \/ \E parent \in 0 .. MaxId :
                        enqueue_with_parent(run, parent, topic, payload, key)
                   \/ enqueue_settlement(run, topic, payload, key)
           \/ /\ UNCHANGED <<acks, crashes>>
              /\ \E run \in Runs : audit_settlement(run)
<1>1. CASE tx \/ FinishCommit \/ FinishRollback \/ FinishIndeterminate \/ Crash
  BY <1>1 DEF tx, FinishCommit, FinishRollback, FinishIndeterminate, Crash
<1>2. ASSUME NEW run \in Runs, NEW topic \in Topics, NEW payload \in Payloads,
             NEW key \in Keys, NEW parent \in 0 .. MaxId,
             enqueue_with_parent(run, parent, topic, payload, key)
      PROVE  UNCHANGED <<lane, sealed, crashes>>
  BY <1>2 DEF enqueue_with_parent
<1>3. ASSUME NEW run \in Runs, NEW topic \in Topics, NEW payload \in Payloads,
             NEW key \in Keys, enqueue_settlement(run, topic, payload, key)
      PROVE  UNCHANGED <<lane, sealed, crashes>>
  BY <1>3 DEF enqueue_settlement
<1>4. ASSUME NEW run \in Runs, NEW expected \in 0 .. MaxRev, cas(run, expected)
      PROVE  UNCHANGED <<lane, acks, sealed, crashes>>
  BY <1>4 DEF cas
<1>5. ASSUME NEW run \in Runs, audit_settlement(run)
      PROVE  UNCHANGED <<acks, crashes>>
  BY <1>5 DEF audit_settlement
<1>6. ASSUME NEW run \in Runs, NEW payload \in Payloads, enqueue_steering_tx(run, payload)
      PROVE  UNCHANGED <<lane, acks, sealed, crashes>>
  BY <1>6 DEF enqueue_steering_tx
<1>7. ASSUME NEW run \in Runs, NEW payload \in Payloads, NEW key \in Keys,
             append_lineage(run, payload, key)
      PROVE  UNCHANGED <<lane, acks, sealed, crashes>>
  BY <1>7 DEF append_lineage
<1>8. ASSUME NEW i \in 1 .. MaxId, deliver(i)
      PROVE  UNCHANGED <<lane, acks, sealed, crashes>>
  BY <1>8 DEF deliver
<1>9. ASSUME NEW fact \in tail, AuditLate(fact)
      PROVE  UNCHANGED <<lane, acks, sealed, crashes>>
  BY <1>9 DEF AuditLate
<1>10. CASE UNCHANGED vars
  BY <1>10 DEF vars
<1>11. ASSUME NEW S \in SUBSET Runs, sweep_subject(S)
       PROVE  UNCHANGED <<lane, sealed, crashes>> /\ acks' \subseteq acks
  BY <1>11 DEF sweep_subject
<1> QED
  BY <1>1, <1>2, <1>3, <1>4, <1>5, <1>6, <1>7, <1>8, <1>9, <1>10, <1>11 DEF Next

\* The deleted runs are runs, and only the erasure adds to them.
LEMMA SweptFrame ==
    ASSUME [Next]_vars
    PROVE  swept' = swept \/ \E S \in SUBSET Runs : sweep_subject(S)
<1>1. CASE tx \/ FinishCommit \/ FinishRollback \/ FinishIndeterminate \/ Crash
  BY <1>1 DEF tx, FinishCommit, FinishRollback, FinishIndeterminate, Crash
<1>2. ASSUME NEW run \in Runs, NEW topic \in Topics, NEW payload \in Payloads, NEW key \in Keys,
             \/ \E parent \in 0 .. MaxId : enqueue_with_parent(run, parent, topic, payload, key)
             \/ enqueue_settlement(run, topic, payload, key)
      PROVE  swept' = swept
  BY <1>2 DEF enqueue_with_parent, enqueue_settlement
<1>3. ASSUME NEW run \in Runs,
             \/ \E expected \in 0 .. MaxRev : cas(run, expected)
             \/ audit_settlement(run)
             \/ \E payload \in Payloads :
                  \/ enqueue_steering_tx(run, payload)
                  \/ \E key \in Keys : append_lineage(run, payload, key)
      PROVE  swept' = swept
  BY <1>3 DEF cas, audit_settlement, enqueue_steering_tx, append_lineage
<1>4. CASE \/ \E i \in 1 .. MaxId : deliver(i)
           \/ \E fact \in tail : AuditLate(fact)
           \/ UNCHANGED vars
  BY <1>4 DEF deliver, AuditLate, vars
<1> QED
  BY <1>1, <1>2, <1>3, <1>4 DEF Next

\* An erasure keeps the committed row of every delivery it does not forget.
LEMMA AckSwept ==
    ASSUME TypeOK, NEW S \in SUBSET Runs, sweep_subject(S), NEW a \in acks',
           NEW i \in DOMAIN db.rows, Identity(db.rows[i]) = a
    PROVE  \E j \in DOMAIN db'.rows : Identity(db'.rows[j]) = a
<1> DEFINE kept == [j \in DOMAIN db.rows \ RowsOf(db, S) |-> db.rows[j]]
<1>1. db'.rows = kept
  BY DEF sweep_subject, Without, TypeOK, IsDb
<1>2. db.rows[i].run \notin S
  BY DEF sweep_subject, Identity
<1>3. i \in DOMAIN kept /\ kept[i] = db.rows[i]
  BY <1>2 DEF RowsOf
<1> QED BY <1>1, <1>3

\* What is acknowledged already stays true in a database that keeps history.
LEMMA AckKept ==
    ASSUME NEW d, NEW e, IsDb(d), Kept(d, e), NEW a, ~ topic_is_reserved(a.topic),
           NEW i \in DOMAIN d.rows, Identity(d.rows[i]) = a
    PROVE  \E j \in DOMAIN e.rows : Identity(e.rows[j]) = a
<1>1. d.rows[i].topic # "steering"
  BY DEF Identity, topic_is_reserved
<1>2. i \in 1 .. (d.nextId - 1)
  BY DEF IsDb
<1> QED
  BY <1>1, <1>2 DEF Kept, RowsKept

\* The delivery a step acknowledges, if any, is a committed row after it.
LEMMA NewAcks ==
    ASSUME TypeOK, OutboxInv, [Next]_vars, NEW a \in acks', a \notin acks
    PROVE  /\ a \in [run : Runs, topic : Topics, payload : Payloads, key : AllKeys]
           /\ ~ topic_is_reserved(a.topic)
           /\ \E i \in DOMAIN db'.rows : Identity(db'.rows[i]) = a
<1> USE DEF TypeOK, OutboxInv
<1> DEFINE Goal ==
           /\ a \in [run : Runs, topic : Topics, payload : Payloads, key : AllKeys]
           /\ ~ topic_is_reserved(a.topic)
           /\ \E i \in DOMAIN db'.rows : Identity(db'.rows[i]) = a
<1>1. ASSUME NEW run \in Runs, NEW topic \in Topics, NEW payload \in Payloads,
             NEW key \in Keys, NEW parent \in 0 .. MaxId,
             enqueue_with_parent(run, parent, topic, payload, key)
      PROVE  Goal
  <2>1. PICK outcome \in BestEffort :
          /\ EnqueueAllowed(db, run, parent, topic, key)
          /\ db' = insert_row(db, run, parent, topic, payload, key, outcome)
          /\ ~ HasKey(db, key)
          /\ acks' = acks \cup {[run |-> run, topic |-> topic,
                                 payload |-> payload, key |-> key]}
    BY <1>1 DEF enqueue_with_parent
  <2>2. a = [run |-> run, topic |-> topic, payload |-> payload, key |-> key]
    BY <2>1
  <2>3. /\ outcome \in Outcomes /\ key \in AllKeys /\ parent \in Nat
        /\ ParentAllowed(db, run, parent) /\ ~ topic_is_reserved(topic)
    BY <2>1, OutcomeType, KeyTypes, OutboxAssumption DEF EnqueueAllowed
  <2>4. \E i \in DOMAIN db'.rows : Identity(db'.rows[i]) = a
    BY <2>1, <2>2, <2>3, InsertSound
  <2> QED
    BY <2>2, <2>3, <2>4
<1>2. ASSUME NEW run \in Runs, NEW topic \in Topics, NEW payload \in Payloads,
             NEW key \in Keys, enqueue_settlement(run, topic, payload, key)
      PROVE  Goal
  <2>1. /\ a = [run |-> run, topic |-> topic, payload |-> payload, key |-> key]
        /\ ~ topic_is_reserved(topic)
        /\ \/ /\ ~ HasKey(db, key)
              /\ db' = insert_row(db, run, NoParent, topic, payload, key, "written")
           \/ /\ \E i \in DOMAIN db.rows : Identity(db.rows[i]) = a
              /\ db' = db
    BY <1>2 DEF enqueue_settlement, EnqueueAllowed
  <2>2. ParentAllowed(db, run, NoParent) /\ NoParent \in Nat /\ key \in AllKeys
    BY KeyTypes DEF ParentAllowed, NoParent
  <2>3. \E i \in DOMAIN db'.rows : Identity(db'.rows[i]) = a
    <3>1. CASE ~ HasKey(db, key)
               /\ db' = insert_row(db, run, NoParent, topic, payload, key, "written")
      <4>1. "written" \in Outcomes
        BY DEF Outcomes
      <4>2. \E i \in DOMAIN db'.rows :
              Identity(db'.rows[i]) = [run |-> run, topic |-> topic,
                                       payload |-> payload, key |-> key]
        BY <2>2, <3>1, <4>1, InsertSound
      <4> QED
        BY <2>1, <4>2
    <3>2. CASE db' = db /\ \E i \in DOMAIN db.rows : Identity(db.rows[i]) = a
      BY <3>2
    <3> QED
      BY <2>1, <3>1, <3>2
  <2> QED
    BY <2>1, <2>2, <2>3
<1>3. CASE acks' \subseteq acks
  BY <1>3
<1> QED
  BY <1>1, <1>2, <1>3, Frame

\* The lifecycle audit a step acknowledges, if any, is on the chain after it.
LEMMA NewSeals ==
    ASSUME TypeOK, [Next]_vars, NEW run \in sealed', run \notin sealed
    PROVE  run \in Runs /\ <<"settled", run, 0>> \in db'.evid
<1>1. run \in Runs /\ db' = audit_write(db, "written", <<"settled", run, 0>>)
  <2>2. PICK r \in Runs : audit_settlement(r)
    BY Frame
  <2> QED
    BY <2>2 DEF audit_settlement
<1>2. <<"settled", run, 0>> \in audit_write(db, "written", <<"settled", run, 0>>).evid
  BY AuditWriteSound DEF TypeOK
<1> QED
  BY <1>1, <1>2

-----------------------------------------------------------------------------
(* The induction *)

\* Init: everything is empty.
LEMMA InitInv == Init => TypeOK /\ OutboxInv
  BY EmptyDbSound DEF Init, TypeOK, OutboxInv, UnitAdds, AcksUnreserved, ReceiptsHold

\* Next: types.
LEMMA NextType == ASSUME TypeOK, OutboxInv, [Next]_vars PROVE TypeOK'
<1>1. IsDb(db') /\ IsDb(work')
  BY NextSound DEF StepSound
<1>2. lane' \in {"idle", "active", "failed"} /\ crashes' \in Nat
  <2>1. CASE UNCHANGED <<lane, crashes>>
    BY <2>1 DEF TypeOK
  <2>2. CASE tx \/ FinishCommit \/ FinishRollback \/ FinishIndeterminate \/ Crash
    BY <2>2 DEF TypeOK, tx, FinishCommit, FinishRollback, FinishIndeterminate, Crash
  <2>3. CASE crashes' = crashes /\ \E run \in Runs : audit_settlement(run)
    BY <2>3 DEF TypeOK, audit_settlement
  <2> QED
    BY <2>1, <2>2, <2>3, Frame
<1>3. acks' \subseteq [run : Runs, topic : Topics, payload : Payloads, key : AllKeys]
  BY NewAcks DEF TypeOK
<1>4. sealed' \subseteq Runs
  BY NewSeals DEF TypeOK
<1>5. swept' \subseteq Runs
  BY SweptFrame DEF TypeOK, sweep_subject
<1> QED
  BY <1>1, <1>2, <1>3, <1>4, <1>5 DEF TypeOK

\* Next: the laws, and the receipts through what the step keeps.
LEMMA NextInv == ASSUME TypeOK, OutboxInv, [Next]_vars PROVE OutboxInv'
<1>1. StepSound
  BY NextSound
<1>2. AcksUnreserved'
  BY NewAcks DEF OutboxInv, AcksUnreserved
<1>3. ASSUME NEW a \in acks'
      PROVE  \E i \in DOMAIN db'.rows : Identity(db'.rows[i]) = a
  <2>1. CASE a \in acks
    <3>1. PICK i \in DOMAIN db.rows : Identity(db.rows[i]) = a
      BY <2>1 DEF OutboxInv, ReceiptsHold
    <3>2. ~ topic_is_reserved(a.topic)
      BY <2>1 DEF OutboxInv, AcksUnreserved
    <3>3. CASE Kept(db, db')
      BY <3>1, <3>2, <3>3, AckKept DEF TypeOK
    <3>4. CASE \E S \in SUBSET Runs : sweep_subject(S)
      BY <1>3, <3>1, <3>4, AckSwept
    <3> QED
      BY <1>1, <3>3, <3>4 DEF StepSound
  <2>2. CASE a \notin acks
    BY <1>3, <2>2, NewAcks
  <2> QED
    BY <2>1, <2>2
<1>4. \A run \in sealed' : <<"settled", run, 0>> \in db'.evid
  <2> SUFFICES ASSUME NEW run \in sealed' PROVE <<"settled", run, 0>> \in db'.evid
    OBVIOUS
  <2>1. CASE run \in sealed
    <3>1. (\E S \in SUBSET Runs : sweep_subject(S)) => db'.evid = db.evid
      BY DEF sweep_subject, Without, TypeOK, IsDb
    <3> QED
      BY <1>1, <2>1, <3>1 DEF OutboxInv, ReceiptsHold, StepSound, Kept
  <2>2. CASE run \notin sealed
    BY <2>2, NewSeals
  <2> QED
    BY <2>1, <2>2
<1>5. ReceiptsHold'
  BY <1>3, <1>4 DEF ReceiptsHold
<1> QED
  BY <1>1, <1>2, <1>5 DEF OutboxInv, StepSound

\* The induction, once for all the theorems.
LEMMA Inductive == Spec => [](TypeOK /\ OutboxInv)
<1>1. TypeOK /\ OutboxInv /\ [Next]_vars => (TypeOK /\ OutboxInv)'
  BY NextType, NextInv
<1> QED
  BY InitInv, <1>1, PTL DEF Spec

-----------------------------------------------------------------------------
(* The theorems *)

\* Every variable keeps its type, in every behaviour.
THEOREM OutboxTypeCorrect == Spec => []TypeOK
  BY Inductive, PTL

\* Whatever mix of units, transient calls, handlers, faults and kills led
\* here, outbox lineage verifies: a parent is an earlier row of the same run.
THEOREM LineageAlwaysHolds == Spec => []LineageHolds
<1>1. OutboxInv => LineageHolds
  BY DEF OutboxInv, SoundDb, LineageHolds
<1> QED
  BY Inductive, <1>1, PTL

\* A receipt of enqueue_settlement, audit_settlement or a transient enqueue
\* is taken back by the erasure of its run alone.
THEOREM ReceiptsAlwaysHold == Spec => []ReceiptsHold
<1>1. OutboxInv => ReceiptsHold
  BY DEF OutboxInv
<1> QED
  BY Inductive, <1>1, PTL

\* No step, the commit of a unit included, undoes what was committed, except
\* that an erasure takes the rows of the runs it deletes and nothing else.
THEOREM HistoryAlwaysKept == Spec => HistoryKept
<1>1. TypeOK /\ OutboxInv /\ [Next]_vars
        => [IF swept' = swept THEN Kept(db, db') ELSE Erased(db, db')]_vars
  <2> SUFFICES ASSUME TypeOK, OutboxInv, [Next]_vars
               PROVE  IF swept' = swept THEN Kept(db, db') ELSE Erased(db, db')
    OBVIOUS
  <2>1. ASSUME NEW S \in SUBSET Runs, sweep_subject(S)
        PROVE  swept' # swept /\ Erased(db, db')
    <3>1. swept' \ swept = S /\ swept' # swept
      BY <2>1 DEF sweep_subject
    <3>2. db' = [rows |-> [i \in DOMAIN db.rows \ RowsOf(db, S) |-> db.rows[i]],
                 nextId |-> db.nextId, rev |-> db.rev, evid |-> db.evid]
      BY <2>1 DEF sweep_subject, Without, TypeOK, IsDb
    <3> QED BY <3>1, <3>2 DEF Erased
  <2>2. CASE \E S \in SUBSET Runs : sweep_subject(S)
    BY <2>1, <2>2
  <2>3. CASE ~ \E S \in SUBSET Runs : sweep_subject(S)
    BY <2>3, SweptFrame, NextSound DEF StepSound
  <2> QED BY <2>2, <2>3
<1> QED
  BY Inductive, <1>1, PTL DEF Spec, HistoryKept

-----------------------------------------------------------------------------
(* What a step does to one database: the statements it is made of *)

\* One commit, or one call in the open unit, runs one of these statements.
Enqueued(d, e) ==
    \E run \in Runs, parent \in Nat, topic \in Topics \ {"steering"}, payload \in Payloads,
       key \in AllKeys, outcome \in BestEffort :
         e = insert_row(d, run, parent, topic, payload, key, outcome)

Steered(d, e) ==
    \E run \in Runs, payload \in Payloads, outcome \in BestEffort :
         e = insert_row(Without(d, Dropped(d, run)), run, NoParent, "steering", payload,
                        SteeringKey(d.nextId), outcome)

Swept(d, e) == \E S \in SUBSET Runs : e = Without(d, RowsOf(d, S))

\* No statement but those adds or removes a row, or touches its identity.
SameRows(d, e) ==
    /\ DOMAIN e.rows = DOMAIN d.rows
    /\ \A i \in DOMAIN d.rows : Identity(e.rows[i]) = Identity(d.rows[i])
    /\ d.evid \subseteq e.evid

Changed(d, e) == Enqueued(d, e) \/ Steered(d, e) \/ Swept(d, e) \/ SameRows(d, e)

\* A database has the rows it has.
LEMMA SameSelf == ASSUME NEW d PROVE SameRows(d, d)
  BY DEF SameRows

\* An audit row, an advanced revision and a delivery leave the rows in place.
LEMMA SameWrites ==
    ASSUME NEW d, IsDb(d)
    PROVE  /\ \A outcome, fact : SameRows(d, audit_write(d, outcome, fact))
           /\ \A run \in Runs : SameRows(d, CasApplied(d, run))
           /\ \A run \in Runs : \A outcome, fact :
                SameRows(d, audit_write(CasApplied(d, run), outcome, fact))
           /\ \A i \in DOMAIN d.rows : SameRows(d, Delivered(d, i))
<1>1. ASSUME NEW e, IsDb(e), NEW outcome, NEW fact
      PROVE  audit_write(e, outcome, fact).rows = e.rows /\ e.evid \subseteq audit_write(e, outcome, fact).evid
  BY <1>1, AuditWriteSound DEF Kept
<1>2. ASSUME NEW run \in Runs
      PROVE  /\ IsDb(CasApplied(d, run))
             /\ CasApplied(d, run).rows = d.rows /\ CasApplied(d, run).evid = d.evid
  BY CasAppliedSound DEF CasApplied, IsDb
<1>3. ASSUME NEW i \in DOMAIN d.rows PROVE SameRows(d, Delivered(d, i))
  <2> DEFINE e == Delivered(d, i)
  <2>1. Kept(d, e)
    BY DeliveredSound
  <2>2. DOMAIN e.rows = DOMAIN d.rows
    BY DEF Delivered, IsDb
  <2>3. \A j \in DOMAIN d.rows : j \in 1 .. (d.nextId - 1)
    BY DEF IsDb
  <2> HIDE DEF e
  <2>4. SameRows(d, e)
    BY <2>1, <2>2, <2>3 DEF SameRows, Kept, RowsKept
  <2> QED
    BY <2>4 DEF e
<1> QED
  BY <1>1, <1>2, <1>3 DEF SameRows

\* The committed database takes a statement, or the unit's view of it.
LEMMA DbMoves ==
    ASSUME TypeOK, [Next]_vars
    PROVE  Changed(db, db') \/ db' = work
<1> USE DEF TypeOK
<1>1. CASE FinishCommit \/ FinishIndeterminate
  BY <1>1, SameSelf DEF FinishCommit, FinishIndeterminate, Changed
<1>2. UNCHANGED db => Changed(db, db')
  BY SameSelf DEF Changed
<1>3. ASSUME NEW run \in Runs, NEW topic \in Topics, NEW payload \in Payloads, NEW key \in Keys,
             \/ \E parent \in 0 .. MaxId : enqueue_with_parent(run, parent, topic, payload, key)
             \/ enqueue_settlement(run, topic, payload, key)
      PROVE  Changed(db, db')
  <2>1. CASE UNCHANGED db
    BY <1>2, <2>1
  <2>2. CASE db' # db
    <3>1. PICK parent \in Nat, outcome \in BestEffort :
            /\ ~ topic_is_reserved(topic)
            /\ db' = insert_row(db, run, parent, topic, payload, key, outcome)
      <4>1. "written" \in BestEffort /\ NoParent \in Nat
        BY DEF BestEffort, Outcomes, NoParent
      <4>2. \A parent \in 0 .. MaxId : parent \in Nat
        BY OutboxAssumption
      <4> QED
        BY <1>3, <2>2, <4>1, <4>2 DEF enqueue_with_parent, enqueue_settlement, EnqueueAllowed
    <3>2. key \in AllKeys /\ topic \in Topics \ {"steering"}
      BY <3>1, KeyTypes DEF topic_is_reserved
    <3> QED
      BY <3>1, <3>2 DEF Changed, Enqueued
  <2> QED BY <2>1, <2>2
<1>4. ASSUME NEW run \in Runs, NEW expected \in 0 .. MaxRev, cas(run, expected)
      PROVE  Changed(db, db')
  BY <1>2, <1>4, SameWrites DEF cas, Changed
<1>5. ASSUME NEW run \in Runs, audit_settlement(run)
      PROVE  Changed(db, db')
  BY <1>5, SameWrites DEF audit_settlement, Changed
<1>6. ASSUME NEW run \in Runs, NEW payload \in Payloads, enqueue_steering_tx(run, payload)
      PROVE  Changed(db, db')
  BY <1>6 DEF enqueue_steering_tx, Changed, Steered
<1>7. ASSUME NEW run \in Runs, NEW payload \in Payloads, NEW key \in Keys,
             append_lineage(run, payload, key)
      PROVE  Changed(db, db')
  <2>1. PICK tip \in {NoParent} \cup DOMAIN db.rows, outcome \in BestEffort :
          /\ IsRunTip(db, run, tip)
          /\ db' = insert_row(db, run, tip, "case", payload, key, outcome)
    BY <1>7 DEF append_lineage
  <2>2. tip \in Nat /\ key \in AllKeys /\ "case" \in Topics \ {"steering"}
    BY <2>1, TipAllowed, KeyTypes DEF Topics
  <2> QED
    BY <2>1, <2>2 DEF Changed, Enqueued
<1>8. ASSUME NEW i \in 1 .. MaxId, deliver(i) PROVE Changed(db, db')
  BY <1>8, SameWrites DEF deliver, Changed
<1>9. ASSUME NEW fact \in tail, AuditLate(fact) PROVE Changed(db, db')
  BY <1>9, SameWrites DEF AuditLate, Changed
<1>10. CASE tx \/ FinishRollback \/ Crash \/ UNCHANGED vars
  BY <1>2, <1>10 DEF tx, FinishRollback, Crash, vars
<1>11. ASSUME NEW S \in SUBSET Runs, sweep_subject(S) PROVE Changed(db, db')
  BY <1>11 DEF sweep_subject, Changed, Swept
<1> QED
  BY <1>1, <1>3, <1>4, <1>5, <1>6, <1>7, <1>8, <1>9, <1>10, <1>11 DEF Next

\* The unit's view takes a statement, starts from what is committed, or ends.
LEMMA WorkMoves ==
    ASSUME TypeOK, [Next]_vars
    PROVE  Changed(work, work') \/ work' = db \/ work' = EmptyDb
<1> USE DEF TypeOK
<1>1. UNCHANGED work => Changed(work, work')
  BY SameSelf DEF Changed
<1>2. CASE tx \/ FinishCommit \/ FinishRollback \/ FinishIndeterminate \/ Crash
  BY <1>2 DEF tx, FinishCommit, FinishRollback, FinishIndeterminate, Crash
<1>3. ASSUME NEW run \in Runs, NEW topic \in Topics, NEW payload \in Payloads, NEW key \in Keys,
             NEW parent \in 0 .. MaxId, enqueue_with_parent(run, parent, topic, payload, key)
      PROVE  Changed(work, work')
  <2>1. CASE work' # work
    <3>1. PICK outcome \in BestEffort :
            /\ ~ topic_is_reserved(topic)
            /\ work' = insert_row(work, run, parent, topic, payload, key, outcome)
      BY <1>3, <2>1 DEF enqueue_with_parent, EnqueueAllowed
    <3>2. key \in AllKeys /\ topic \in Topics \ {"steering"} /\ parent \in Nat
      BY <3>1, KeyTypes, OutboxAssumption DEF topic_is_reserved
    <3> QED
      BY <3>1, <3>2 DEF Changed, Enqueued
  <2> QED BY <1>1, <2>1
<1>4. ASSUME NEW run \in Runs, NEW expected \in 0 .. MaxRev, cas(run, expected)
      PROVE  Changed(work, work')
  BY <1>1, <1>4, SameWrites DEF cas, Changed
<1>5. ASSUME \/ \E run \in Runs, topic \in Topics, payload \in Payloads, key \in Keys :
                  enqueue_settlement(run, topic, payload, key)
             \/ \E run \in Runs :
                  \/ audit_settlement(run)
                  \/ \E payload \in Payloads :
                       \/ enqueue_steering_tx(run, payload)
                       \/ \E key \in Keys : append_lineage(run, payload, key)
             \/ \E S \in SUBSET Runs : sweep_subject(S)
             \/ \E i \in 1 .. MaxId : deliver(i)
             \/ \E fact \in tail : AuditLate(fact)
             \/ UNCHANGED vars
      PROVE  UNCHANGED work
  BY <1>5 DEF enqueue_settlement, audit_settlement, enqueue_steering_tx, append_lineage,
     sweep_subject, deliver, AuditLate, vars
<1> QED
  BY <1>1, <1>2, <1>3, <1>4, <1>5 DEF Next

-----------------------------------------------------------------------------
(* Every row has its audit row *)

\* What insert_row leaves: the database it found, when the key is taken, or
\* that database with one row more and, if the audit row was written, its
\* evidence.
Inserted(d, e, run, topic, key, outcome) ==
    \/ e = d
    \/ /\ DOMAIN e.rows = DOMAIN d.rows \cup {d.nextId} /\ d.nextId \notin DOMAIN d.rows
       /\ \A i \in DOMAIN d.rows : e.rows[i] = d.rows[i]
       /\ e.rows[d.nextId].run = run /\ e.rows[d.nextId].topic = topic
       /\ e.rows[d.nextId].key = key
       /\ d.evid \subseteq e.evid
       /\ outcome = "written" => <<"enqueue", run, key>> \in e.evid

\* insert_row does what Inserted says.
LEMMA InsertRows ==
    ASSUME NEW d, IsDb(d), NEW run, NEW parent, NEW topic, NEW payload, NEW key, NEW outcome
    PROVE  Inserted(d, insert_row(d, run, parent, topic, payload, key, outcome),
                    run, topic, key, outcome)
<1> DEFINE row == [run |-> run, topic |-> topic, payload |-> payload, key |-> key,
                   parent |-> parent, status |-> "pending"]
           grown == [i \in DOMAIN d.rows \cup {d.nextId} |->
                        IF i = d.nextId THEN row ELSE d.rows[i]]
           g == [rows |-> grown, nextId |-> d.nextId + 1, rev |-> d.rev, evid |-> d.evid]
           e == insert_row(d, run, parent, topic, payload, key, outcome)
<1>1. CASE HasKey(d, key)
  BY <1>1 DEF insert_row, Inserted
<1>2. CASE ~ HasKey(d, key)
  <2>1. e = audit_write(g, outcome, <<"enqueue", run, key>>)
    BY <1>2 DEF insert_row
  <2>2. /\ e.rows = grown /\ d.evid \subseteq e.evid
        /\ outcome = "written" => <<"enqueue", run, key>> \in e.evid
    <3>1. g.rows = grown /\ g.evid = d.evid
      OBVIOUS
    <3>2. CASE outcome # "written"
      BY <2>1, <3>1, <3>2 DEF audit_write
    <3>3. CASE outcome = "written"
      <4>1. e = [g EXCEPT !.evid = @ \cup {<<"enqueue", run, key>>}]
        BY <2>1, <3>3 DEF audit_write
      <4>2. e.rows = g.rows /\ e.evid = g.evid \cup {<<"enqueue", run, key>>}
        BY <4>1
      <4> QED BY <3>1, <4>2
    <3> QED BY <3>2, <3>3
  <2>3. d.nextId \notin DOMAIN d.rows
    BY DEF IsDb
  <2>4. /\ DOMAIN grown = DOMAIN d.rows \cup {d.nextId}
        /\ \A i \in DOMAIN d.rows : grown[i] = d.rows[i]
        /\ grown[d.nextId].run = run /\ grown[d.nextId].topic = topic
        /\ grown[d.nextId].key = key
    BY <2>3
  <2> HIDE DEF grown, e
  <2>5. Inserted(d, e, run, topic, key, outcome)
    BY <2>2, <2>3, <2>4 DEF Inserted
  <2> QED
    BY <2>5 DEF e
<1> QED BY <1>1, <1>2

\* Taking rows away leaves the others, and the evidence, alone.
LEMMA WithoutRows ==
    ASSUME NEW d, IsDb(d), NEW D
    PROVE  LET e == Without(d, D)
           IN  /\ IsDb(e) /\ e.nextId = d.nextId /\ e.evid = d.evid
               /\ DOMAIN e.rows = DOMAIN d.rows \ D
               /\ \A i \in DOMAIN e.rows : e.rows[i] = d.rows[i]
<1> DEFINE kept == [i \in DOMAIN d.rows \ D |-> d.rows[i]]
           e == Without(d, D)
<1>1. e = [rows |-> kept, nextId |-> d.nextId, rev |-> d.rev, evid |-> d.evid]
  BY DEF Without, IsDb
<1>2. IsDb(e)
  BY <1>1 DEF IsDb
<1> QED BY <1>1, <1>2

\* When no best-effort audit row is dropped, every statement keeps Evidenced.
LEMMA EvidencedStep ==
    ASSUME ~ AuditFails, NEW d, NEW e, IsDb(d), Evidenced(d), Changed(d, e)
    PROVE  Evidenced(e)
<1>0. \A outcome \in BestEffort : outcome = "written"
  BY DEF BestEffort
<1>1. ASSUME NEW c, IsDb(c), Evidenced(c), NEW run, NEW parent, NEW topic, NEW payload, NEW key,
             e = insert_row(c, run, parent, topic, payload, key, "written")
      PROVE  Evidenced(e)
  <2>1. CASE e = c
    BY <1>1, <2>1
  <2>2. CASE /\ DOMAIN e.rows = DOMAIN c.rows \cup {c.nextId}
             /\ \A i \in DOMAIN c.rows : e.rows[i] = c.rows[i]
             /\ e.rows[c.nextId].run = run /\ e.rows[c.nextId].key = key
             /\ c.evid \subseteq e.evid /\ <<"enqueue", run, key>> \in e.evid
    BY <1>1, <2>2 DEF Evidenced
  <2>3. Inserted(c, e, run, topic, key, "written")
    BY <1>1, InsertRows
  <2> QED
    BY <2>1, <2>2, <2>3 DEF Inserted
<1>2. CASE Enqueued(d, e)
  BY <1>0, <1>1, <1>2 DEF Enqueued
<1>3. CASE Steered(d, e)
  <2>1. PICK run \in Runs, payload \in Payloads :
          e = insert_row(Without(d, Dropped(d, run)), run, NoParent, "steering", payload,
                         SteeringKey(d.nextId), "written")
    BY <1>0, <1>3 DEF Steered
  <2>2. IsDb(Without(d, Dropped(d, run))) /\ Evidenced(Without(d, Dropped(d, run)))
    BY WithoutRows DEF Evidenced
  <2> QED
    BY <1>1, <2>1, <2>2
<1>4. CASE SameRows(d, e)
  <2>1. \A i \in DOMAIN d.rows : e.rows[i].run = d.rows[i].run /\ e.rows[i].key = d.rows[i].key
    BY <1>4 DEF SameRows, Identity
  <2> QED
    BY <1>4, <2>1 DEF SameRows, Evidenced
<1>5. CASE Swept(d, e)
  BY <1>5, WithoutRows DEF Swept, Evidenced
<1> QED BY <1>2, <1>3, <1>4, <1>5 DEF Changed

\* Where no best-effort audit row is dropped, every committed row has its
\* enqueue audit row: no unit, rollback, uncertain COMMIT or kill separates
\* the two, and no statement that rewrites a row loses its evidence.
THEOREM EnqueueAlwaysEvidenced ==
    ASSUME ~ AuditFails PROVE Spec => []EnqueueEvidenced
<1>1. Evidenced(EmptyDb)
  BY DEF Evidenced, EmptyDb
<1>2. Init => Evidenced(db) /\ Evidenced(work)
  BY <1>1 DEF Init
<1>3. TypeOK /\ Evidenced(db) /\ Evidenced(work) /\ [Next]_vars => (Evidenced(db) /\ Evidenced(work))'
  <2> SUFFICES ASSUME TypeOK, Evidenced(db), Evidenced(work), [Next]_vars
               PROVE  Evidenced(db') /\ Evidenced(work')
    BY DEF Evidenced
  <2>1. IsDb(db) /\ IsDb(work)
    BY DEF TypeOK
  <2> QED
    BY <1>1, <2>1, DbMoves, WorkMoves, EvidencedStep
<1>4. Evidenced(db) => EnqueueEvidenced
  BY DEF EnqueueEvidenced
<1> QED BY <1>2, <1>3, <1>4, Inductive, PTL DEF Spec

-----------------------------------------------------------------------------
(* The steering inbox is bounded *)

\* A non-empty set of naturals has a least element.
LEMMA LeastNatural ==
    ASSUME NEW S, S \subseteq Nat, S # {}
    PROVE  \E m \in S : \A n \in S : m <= n
<1> DEFINE R == {p \in Nat \X Nat : p[1] < p[2]}
<1>1. IsWellFoundedOn(R, Nat)
  BY NatLessThanWellFounded, Zenon DEF OpToRel
<1>2. \E m \in S : \A n \in S : <<n, m>> \notin R
  <2> HIDE DEF R
  <2> QED
    BY <1>1, WFMin, Zenon
<1>3. \A m, n \in S : n < m => <<n, m>> \in R
  OBVIOUS
<1>4. \E m \in S : \A n \in S : ~ (n < m)
  BY <1>2, <1>3, Zenon
<1> QED BY <1>4

\* An inbox is finite.
LEMMA InboxFinite ==
    ASSUME NEW d, IsDb(d), NEW run
    PROVE  /\ IsFiniteSet(Steering(d, run)) /\ Cardinality(Steering(d, run)) \in Nat
           /\ Steering(d, run) \subseteq Nat
<1>1. 1 \in Int /\ d.nextId - 1 \in Int
  BY DEF IsDb
<1>2. IsFiniteSet(1 .. (d.nextId - 1))
  BY <1>1, FS_Interval
<1>3. Steering(d, run) \subseteq 1 .. (d.nextId - 1)
  BY DEF Steering, IsDb
<1>4. IsFiniteSet(Steering(d, run))
  BY <1>2, <1>3, FS_Subset
<1>5. Steering(d, run) \subseteq Nat
  BY <1>1, <1>3
<1> QED BY <1>4, <1>5, FS_CardinalityType

\* Drop-oldest leaves room for one: an inbox within its bound is below it after.
LEMMA DropMakesRoom ==
    ASSUME NEW d, IsDb(d), InboxBounded(d), NEW run \in Runs
    PROVE  LET S == Steering(d, run) \ Dropped(d, run)
           IN  IsFiniteSet(S) /\ Cardinality(S) \in Nat /\ Cardinality(S) <= SteeringCap - 1
<1> DEFINE S == Steering(d, run)
           n == Cardinality(S) - (SteeringCap - 1)
           R == S \ Dropped(d, run)
<1>1. /\ IsFiniteSet(S) /\ Cardinality(S) \in Nat /\ S \subseteq Nat
      /\ Cardinality(S) <= SteeringCap /\ SteeringCap \in Nat /\ SteeringCap >= 1
  BY InboxFinite, OutboxAssumption DEF InboxBounded
<1>2. Dropped(d, run) = {i \in S : Cardinality({k \in S : k < i}) < n}
  BY DEF Dropped, Oldest
<1> HIDE DEF S
<1>3. R \subseteq S /\ IsFiniteSet(R) /\ Cardinality(R) \in Nat /\ Cardinality(R) <= Cardinality(S)
  BY <1>1, FS_Subset, FS_CardinalityType
<1>4. CASE Cardinality(S) <= SteeringCap - 1
  BY <1>1, <1>3, <1>4 DEF S
<1>5. CASE Cardinality(S) = SteeringCap
  <2>1. n = 1
    BY <1>1, <1>5
  <2>2. S # {}
    BY <1>1, <1>5, FS_EmptySet
  <2>3. PICK m \in S : \A i \in S : m <= i
    BY <1>1, <2>2, LeastNatural
  <2>4. {k \in S : k < m} = {}
    <3>1. \A k \in S : ~ (k < m)
      BY <1>1, <2>3
    <3> QED BY <3>1
  <2>5. Cardinality({k \in S : k < m}) = 0
    BY <2>4, FS_EmptySet
  <2>6. m \in Dropped(d, run)
    BY <1>2, <2>1, <2>5
  <2>7. R \subseteq S \ {m}
    BY <2>6
  <2>8. IsFiniteSet(S \ {m}) /\ Cardinality(S \ {m}) = Cardinality(S) - 1
    BY <1>1, FS_RemoveElement
  <2>9. Cardinality(R) <= Cardinality(S \ {m})
    BY <2>7, <2>8, FS_Subset
  <2> QED
    BY <1>1, <1>3, <1>5, <2>8, <2>9 DEF S
<1> QED
  BY <1>1, <1>4, <1>5

\* Every statement keeps every inbox within its bound.
LEMMA BoundedStep ==
    ASSUME NEW d, NEW e, IsDb(d), InboxBounded(d), Changed(d, e)
    PROVE  InboxBounded(e)
<1>1. CASE Enqueued(d, e)
  <2>1. PICK run \in Runs, parent \in Nat, topic \in Topics \ {"steering"}, payload \in Payloads,
             key \in AllKeys, outcome \in BestEffort :
               e = insert_row(d, run, parent, topic, payload, key, outcome)
    BY <1>1 DEF Enqueued
  <2>2. CASE e = d
    BY <2>2
  <2>3. CASE /\ DOMAIN e.rows = DOMAIN d.rows \cup {d.nextId}
             /\ \A i \in DOMAIN d.rows : e.rows[i] = d.rows[i]
             /\ e.rows[d.nextId].topic = topic
    <3>1. \A r \in Runs : Steering(e, r) = Steering(d, r)
      BY <2>3 DEF Steering
    <3> QED BY <3>1 DEF InboxBounded
  <2>4. Inserted(d, e, run, topic, key, outcome)
    BY <2>1, InsertRows
  <2> QED
    BY <2>2, <2>3, <2>4 DEF Inserted
<1>2. CASE SameRows(d, e)
  <2>1. \A i \in DOMAIN d.rows : e.rows[i].run = d.rows[i].run /\ e.rows[i].topic = d.rows[i].topic
    BY <1>2 DEF SameRows, Identity
  <2>2. \A r \in Runs : Steering(e, r) = Steering(d, r)
    BY <1>2, <2>1 DEF SameRows, Steering
  <2> QED BY <2>2 DEF InboxBounded
<1>4. CASE Swept(d, e)
  <2>1. PICK S \in SUBSET Runs : e = Without(d, RowsOf(d, S))
    BY <1>4 DEF Swept
  <2>2. DOMAIN e.rows \subseteq DOMAIN d.rows /\ \A i \in DOMAIN e.rows : e.rows[i] = d.rows[i]
    BY <2>1, WithoutRows
  <2>3. \A r \in Runs : Steering(e, r) \subseteq Steering(d, r)
    BY <2>2 DEF Steering
  <2> SUFFICES ASSUME NEW r \in Runs PROVE Cardinality(Steering(e, r)) <= SteeringCap
    BY DEF InboxBounded
  <2>4. /\ IsFiniteSet(Steering(d, r)) /\ Cardinality(Steering(d, r)) \in Nat
        /\ Cardinality(Steering(d, r)) <= SteeringCap /\ SteeringCap \in Nat
    BY InboxFinite, OutboxAssumption DEF InboxBounded
  <2>5. Cardinality(Steering(e, r)) <= Cardinality(Steering(d, r)) /\ Cardinality(Steering(e, r)) \in Nat
    BY <2>3, <2>4, FS_Subset, FS_CardinalityType
  <2> QED BY <2>4, <2>5
<1>3. CASE Steered(d, e)
  <2>1. PICK run \in Runs, payload \in Payloads, outcome \in BestEffort :
          e = insert_row(Without(d, Dropped(d, run)), run, NoParent, "steering", payload,
                         SteeringKey(d.nextId), outcome)
    BY <1>3 DEF Steered
  <2> DEFINE c == Without(d, Dropped(d, run))
  <2>2. /\ IsDb(c) /\ c.nextId = d.nextId
        /\ DOMAIN c.rows = DOMAIN d.rows \ Dropped(d, run)
        /\ \A i \in DOMAIN c.rows : c.rows[i] = d.rows[i]
    BY WithoutRows
  <2>3. e = insert_row(c, run, NoParent, "steering", payload, SteeringKey(d.nextId), outcome)
    BY <2>1
  <2> HIDE DEF c
  <2>4. \A r \in Runs : Steering(c, r) = Steering(d, r) \ Dropped(d, run)
    BY <2>2 DEF Steering
  <2>5. /\ IsFiniteSet(Steering(c, run)) /\ Cardinality(Steering(c, run)) \in Nat
        /\ Cardinality(Steering(c, run)) <= SteeringCap - 1 /\ SteeringCap \in Nat
    BY <2>4, DropMakesRoom, OutboxAssumption
  <2>6. \A r \in Runs : Cardinality(Steering(c, r)) <= SteeringCap
    <3> TAKE r \in Runs
    <3>1. /\ IsFiniteSet(Steering(d, r)) /\ Cardinality(Steering(d, r)) \in Nat
          /\ Cardinality(Steering(d, r)) <= SteeringCap
      BY InboxFinite DEF InboxBounded
    <3>2. Steering(c, r) \subseteq Steering(d, r)
      BY <2>4
    <3>3. Cardinality(Steering(c, r)) <= Cardinality(Steering(d, r)) /\ Cardinality(Steering(c, r)) \in Nat
      BY <3>1, <3>2, FS_Subset, FS_CardinalityType
    <3> QED BY <2>5, <3>1, <3>3
  <2>7. CASE e = c
    BY <2>6, <2>7 DEF InboxBounded
  <2>8. CASE /\ DOMAIN e.rows = DOMAIN c.rows \cup {c.nextId} /\ c.nextId \notin DOMAIN c.rows
             /\ \A i \in DOMAIN c.rows : e.rows[i] = c.rows[i]
             /\ e.rows[c.nextId].run = run /\ e.rows[c.nextId].topic = "steering"
    <3>1. Steering(e, run) = Steering(c, run) \cup {c.nextId}
      BY <2>8 DEF Steering
    <3>2. c.nextId \notin Steering(c, run)
      BY <2>8 DEF Steering
    <3>3. Cardinality(Steering(e, run)) = Cardinality(Steering(c, run)) + 1
      BY <2>5, <3>1, <3>2, FS_AddElement
    <3>4. \A r \in Runs : r # run => Steering(e, r) = Steering(c, r)
      BY <2>8 DEF Steering
    <3>5. Cardinality(Steering(e, run)) <= SteeringCap
      BY <2>5, <3>3
    <3> QED
      BY <2>6, <3>4, <3>5 DEF InboxBounded
  <2>9. Inserted(c, e, run, "steering", SteeringKey(d.nextId), outcome)
    BY <2>2, <2>3, InsertRows
  <2> QED
    BY <2>7, <2>8, <2>9 DEF Inserted
<1> QED BY <1>1, <1>2, <1>3, <1>4 DEF Changed

\* The steering inbox of every run stays within its bound, whatever the bound,
\* through any mix of steering, delivery, units and kills: one message is
\* dropped for one that comes, and never one too few.
THEOREM SteeringAlwaysBounded == Spec => []SteeringBounded
<1>1. InboxBounded(EmptyDb)
  <2>1. \A run \in Runs : Steering(EmptyDb, run) = {}
    BY DEF Steering, EmptyDb
  <2>2. Cardinality({}) = 0
    BY FS_EmptySet
  <2> QED
    BY <2>1, <2>2, OutboxAssumption DEF InboxBounded
<1>2. Init => InboxBounded(db) /\ InboxBounded(work)
  BY <1>1 DEF Init
<1>3. TypeOK /\ InboxBounded(db) /\ InboxBounded(work) /\ [Next]_vars
        => (InboxBounded(db) /\ InboxBounded(work))'
  <2> SUFFICES ASSUME TypeOK, InboxBounded(db), InboxBounded(work), [Next]_vars
               PROVE  InboxBounded(db') /\ InboxBounded(work')
    BY DEF InboxBounded, Steering
  <2>1. IsDb(db) /\ IsDb(work)
    BY DEF TypeOK
  <2> QED
    BY <1>1, <2>1, DbMoves, WorkMoves, BoundedStep
<1>4. InboxBounded(db) => SteeringBounded
  BY DEF SteeringBounded
<1> QED BY <1>2, <1>3, <1>4, Inductive, PTL DEF Spec
=============================================================================
