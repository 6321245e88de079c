---------------------------- MODULE ReviewProofs ----------------------------
(***************************************************************************)
(* For every set of requests, reviewers, contents and kinds, every quorum, *)
(* TTL and bound: a decision is final, what a decided row says is what was *)
(* done, the quorum's second approval is another principal's, and decision *)
(* and audit record agree.  They follow from ReviewInv.  The argument is   *)
(* the same for every step: of a row that is decided a step rewrites at    *)
(* most the bytes, with the marker of a scrub (RowsMove), ids are reused   *)
(* but serials are not, and a request that has decided a row carries the   *)
(* row's serial until its record is written or lost.                       *)
(***************************************************************************)
EXTENDS Review, WellFoundedInduction, TLAPS

-----------------------------------------------------------------------------
(* The id of a new row *)

\* A non-empty set of naturals has a least element.
LEMMA LeastNatural ==
    ASSUME NEW S, S \subseteq Nat, S # {}
    PROVE  \E m \in S : \A n \in S : m <= n
<1> DEFINE R == {p \in Nat \X Nat : p[1] < p[2]}
<1>1. IsWellFoundedOn(R, Nat)
  BY NatLessThanWellFounded, Zenon DEF OpToRel
<1>2. \E m \in S : \A n \in S : <<n, m>> \notin R
  <2> HIDE DEF R
  <2> QED
    BY <1>1, WFMin, Zenon
<1>3. \A m, n \in S : n < m => <<n, m>> \in R
  OBVIOUS
<1>4. \E m \in S : \A n \in S : ~(n < m)
  BY <1>2, <1>3, Zenon
<1> QED
  BY <1>4

\* SQLite's choice, one more than the largest id in the table, is a free id and
\* no greater than the number of proposals filed.
LEMMA FreeId ==
    ASSUME TypeOK, SerialsOK, filed < MaxFiled
    PROVE  LET id == CHOOSE i \in Serials : (\A j \in Ids : j < i) /\ (i = 1 \/ i - 1 \in Ids)
           IN  id \in Serials /\ id \notin Ids /\ id <= filed + 1
<1> DEFINE P(i) == (\A j \in Ids : j < i) /\ (i = 1 \/ i - 1 \in Ids)
           U == {n \in Nat : \A j \in Ids : j < n}
<1>0. filed \in Nat /\ MaxFiled \in Nat /\ Ids \subseteq 1 .. MaxFiled
      /\ \A j \in Ids : j <= filed
  BY ReviewAssumption DEF TypeOK, SerialsOK, Serials
<1>1. filed + 1 \in U
  BY <1>0
<1>2. PICK m \in U : \A n \in U : m <= n
  <2>1. U \subseteq Nat /\ U # {}
    BY <1>1
  <2> HIDE DEF U
  <2> QED
    BY <2>1, LeastNatural
<1>3. \E i \in Serials : P(i)
  <2>1. CASE m <= 1
    <3>1. P(1)
      BY <1>0, <2>1
    <3> QED
      BY <1>0, <3>1 DEF Serials
  <2>2. CASE m > 1
    <3>1. m - 1 \in Nat /\ m - 1 \notin U
      BY <1>2, <2>2
    <3>2. PICK j \in Ids : ~(j < m - 1)
      BY <3>1
    <3>3. j = m - 1
      BY <1>0, <1>2, <2>2, <3>2
    <3>4. m \in Serials
      BY <1>0, <1>1, <1>2, <2>2 DEF Serials
    <3> QED
      BY <3>2, <3>3, <3>4
  <2> QED
    BY <2>1, <2>2
<1> DEFINE id == CHOOSE i \in Serials : P(i)
<1>4. id \in Serials /\ P(id)
  BY <1>3
<1>5. id \notin Ids /\ id <= filed + 1
  <2> HIDE DEF id
  <2> QED
    BY <1>0, <1>4 DEF Serials
<1> QED
  BY <1>4, <1>5

-----------------------------------------------------------------------------
(* What a step does to the table *)

\* A row that stays keeps its serial and its kind; a decided one keeps its status,
\* and its bytes unless they are scrubbed.
Stays(id) ==
    /\ id \in Ids
    /\ proposals'[id].serial = proposals[id].serial /\ proposals'[id].kind = proposals[id].kind
    /\ \/ proposals[id].status = "pending"
       \/ /\ proposals'[id].status = proposals[id].status
          /\ proposals'[id].content \in {proposals[id].content, Scrubbed}
          /\ DecidedRowMoves(proposals[id], proposals'[id])

\* A row that is new is pending, under the next serial.
IsNew(id) ==
    /\ id \notin Ids /\ id <= filed' /\ filed' = filed + 1
    /\ proposals'[id].serial = filed' /\ proposals'[id].status = "pending"

RowsMove ==
    /\ filed' \in 0 .. MaxFiled /\ filed <= filed'
    /\ Ids' \subseteq Serials /\ \A id \in Ids' : proposals'[id] \in RowType
    /\ \A id \in Ids' : Stays(id) \/ IsNew(id)
    /\ \A i, j \in Ids' : IsNew(i) /\ IsNew(j) => i = j

\* The part of the type invariant about the table.
LEMMA RowsTyped ==
    ASSUME TypeOK
    PROVE  /\ Ids \subseteq Serials /\ \A id \in Ids : proposals[id] \in RowType
           /\ filed \in 0 .. MaxFiled /\ filed \in Nat /\ MaxFiled \in Nat
  BY ReviewAssumption DEF TypeOK

\* A step that leaves the table alone moves no row.
LEMMA KeepRows ==
    ASSUME TypeOK, UNCHANGED <<proposals, filed>>
    PROVE  RowsMove
  BY DEF TypeOK, RowsMove, Stays, IsNew, Ids, DecidedRowMoves

\* A verb decides one pending row: no other row moves, and its content stays.
LEMMA StatusRows ==
    ASSUME TypeOK, NEW id \in Ids, proposals[id].status = "pending", filed' = filed,
           NEW s \in {"pending", "approved", "rejected"},
           proposals' = [proposals EXCEPT ![id].status = s]
    PROVE  /\ RowsMove /\ Ids' = Ids
           /\ \A j \in Ids \ {id} : proposals'[j] = proposals[j]
           /\ proposals'[id].status = s /\ proposals'[id].content = proposals[id].content
<1>1. Ids' = Ids
  BY DEF Ids
<1>2. proposals'[id] = [proposals[id] EXCEPT !.status = s]
  BY DEF Ids
<1>3. \A j \in Ids \ {id} : proposals'[j] = proposals[j]
  BY DEF Ids
<1>4. /\ proposals'[id] \in RowType /\ proposals'[id].status = s
      /\ proposals'[id].serial = proposals[id].serial
      /\ proposals'[id].kind = proposals[id].kind
      /\ proposals'[id].content = proposals[id].content
  BY <1>2, RowsTyped DEF RowType
<1> QED
  BY <1>1, <1>3, <1>4, RowsTyped DEF RowsMove, Stays, IsNew, DecidedRowMoves

\* An edit of one pending row changes no status.
LEMMA ContentRows ==
    ASSUME TypeOK, NEW id \in Ids, proposals[id].status = "pending", filed' = filed,
           NEW c \in Texts, proposals' = [proposals EXCEPT ![id].content = c]
    PROVE  /\ RowsMove /\ Ids' = Ids
           /\ \A j \in Ids : proposals'[j].status = proposals[j].status
<1>1. Ids' = Ids
  BY DEF Ids
<1>2. proposals'[id] = [proposals[id] EXCEPT !.content = c]
  BY DEF Ids
<1>3. \A j \in Ids \ {id} : proposals'[j] = proposals[j]
  BY DEF Ids
<1>4. /\ proposals'[id] \in RowType /\ proposals'[id].status = proposals[id].status
      /\ proposals'[id].serial = proposals[id].serial
      /\ proposals'[id].kind = proposals[id].kind
  BY <1>2, RowsTyped DEF RowType
<1> QED
  BY <1>1, <1>3, <1>4, RowsTyped DEF RowsMove, Stays, IsNew, DecidedRowMoves

\* An erasure removes one row and moves no other.
LEMMA EraseRows ==
    ASSUME TypeOK, NEW id \in Ids, filed' = filed, proposals' = Without(proposals, id)
    PROVE  RowsMove
<1>1. Ids' = Ids \ {id} /\ \A j \in Ids' : proposals'[j] = proposals[j]
  BY DEF Ids, Without
<1> QED
  BY <1>1, RowsTyped DEF RowsMove, Stays, IsNew, DecidedRowMoves

\* A forget rewrites no more of a row than its bytes.
LEMMA ForgetRows ==
    ASSUME TypeOK, NEW content, NEW scrub, forget(content, scrub)
    PROVE  /\ RowsMove /\ Ids' = Ids
           /\ \A j \in Ids : proposals'[j].status = proposals[j].status
<1>1. /\ Ids' = Ids /\ filed' = filed
      /\ content \in knowledge /\ content \notin knowledge'
      /\ \A j \in Ids :
           \/ proposals'[j] = proposals[j]
           \/ /\ proposals'[j] = [proposals[j] EXCEPT !.content = Scrubbed]
              /\ proposals[j].content = content
  BY DEF forget, Ids, scrub_proposal_content
<1>2. ASSUME NEW j \in Ids
      PROVE  /\ proposals'[j] \in RowType /\ proposals'[j].status = proposals[j].status
             /\ proposals'[j].serial = proposals[j].serial
             /\ proposals'[j].kind = proposals[j].kind
             /\ proposals'[j].content \in {proposals[j].content, Scrubbed}
  <2>1. proposals[j] \in RowType
    BY RowsTyped
  <2> QED
    BY <1>1, <2>1 DEF RowType, Texts
<1>3. ASSUME NEW j \in Ids PROVE DecidedRowMoves(proposals[j], proposals'[j])
  BY <1>1 DEF DecidedRowMoves
<1> QED
  BY <1>1, <1>2, <1>3, RowsTyped DEF RowsMove, Stays, IsNew

\* A filing adds a row under a serial no row has had.
LEMMA InsertRows ==
    ASSUME TypeOK, SerialsOK, filed < MaxFiled, filed' = filed + 1,
           NEW kind \in Kinds, NEW content \in Texts, Insert(kind, content)
    PROVE  RowsMove
<1> DEFINE id == CHOOSE i \in Serials : (\A j \in Ids : j < i) /\ (i = 1 \/ i - 1 \in Ids)
           row == [kind |-> kind, content |-> content, status |-> "pending",
                   created |-> now, serial |-> filed + 1]
<1>1. id \in Serials /\ id \notin Ids /\ id <= filed + 1
  BY FreeId
<1>2. proposals' = With(proposals, id, row)
  BY DEF Insert
<1> HIDE DEF id
<1>3. Ids' = Ids \cup {id} /\ proposals'[id] = row /\ \A j \in Ids : proposals'[j] = proposals[j]
  BY <1>1, <1>2 DEF Ids, With
<1>4. filed \in 0 .. MaxFiled /\ filed + 1 \in Serials /\ filed + 1 \in 0 .. MaxFiled
  BY ReviewAssumption DEF TypeOK, Serials
<1>5. row \in RowType
  BY <1>4 DEF RowType, TypeOK
<1>6. row.serial = filed + 1 /\ row.status = "pending"
  OBVIOUS
<1> HIDE DEF row
<1> QED
  BY <1>1, <1>3, <1>4, <1>5, <1>6, RowsTyped DEF RowsMove, Stays, IsNew, DecidedRowMoves

\* A request inside its transaction over a pending row.
LEMMA RowOfTask ==
    ASSUME TypeOK, NEW t \in Tasks, Pending(task[t].id)
    PROVE  /\ task[t].id \in Ids /\ Row(t) = proposals[task[t].id] /\ Row(t) \in RowType
           /\ Row(t).status = "pending" /\ Row(t).serial \in Serials
           /\ Row(t).content \in Texts /\ Row(t).kind \in Kinds
  BY RowsTyped DEF Pending, Row, RowType

\* An approval changes the status of its own row, inserts the rung above, or
\* leaves the table alone.
LEMMA ApproveRows ==
    ASSUME TypeOK, SerialsOK, NEW t \in Tasks, ApproveStep(t) \/ SignalStep(t)
    PROVE  RowsMove
<1>1. CASE UNCHANGED <<proposals, filed>>
  BY <1>1, KeepRows
<1>2. CASE proposals' = CasApproved(task[t].id) /\ filed' = filed /\ Pending(task[t].id)
  BY <1>2, StatusRows, RowOfTask DEF CasApproved
<1>3. CASE approve_escalated(t)
  <2>1. /\ Pending(task[t].id) /\ filed < MaxFiled /\ filed' = filed + 1
        /\ Row(t).kind = "remedy" /\ Insert("remedy", Row(t).content)
    BY <1>3 DEF approve_escalated, Cleared, Admitted
  <2>2. Row(t).content \in Texts /\ "remedy" \in Kinds
    BY <2>1, RowOfTask
  <2> QED
    BY <2>1, <2>2, InsertRows
<1> QED
  BY <1>1, <1>2, <1>3
  DEF ApproveStep, SignalStep, approve_refused, approve_first, approve_same, approve_governed,
      approve_suppressed, approve_failed, approve_user_map, approve_promote, signal_refused,
      signal_first, signal_same, approve_draft_tx, QuorumFirst, QuorumSame, Cleared, Admitted,
      SignalAdmitted, tables, bounds

\* Every step moves rows only as RowsMove allows.
LEMMA NextRows ==
    ASSUME TypeOK, SerialsOK, \A t \in Tasks : TaskOK(t), Next
    PROVE  RowsMove
<1>1. ASSUME NEW kind \in Kinds, NEW content \in Contents, insert_proposal(kind, content)
      PROVE  RowsMove
  BY <1>1, InsertRows DEF insert_proposal, Texts
<1>2. ASSUME NEW id \in Ids, erase(id) PROVE RowsMove
  BY <1>2, EraseRows DEF erase
<1>9. ASSUME NEW content \in Texts, NEW scrub \in BOOLEAN, forget(content, scrub)
      PROVE  RowsMove
  BY <1>9, ForgetRows
<1>3. ASSUME NEW t \in Tasks, request(t) PROVE RowsMove
  BY <1>3, KeepRows DEF request, Begin, tables
<1>4. ASSUME NEW t \in Tasks, expire_if_stale(t) PROVE RowsMove
  <2>1. CASE Pending(task[t].id)
    BY <1>4, <2>1, StatusRows, RowOfTask DEF expire_if_stale, bounds
  <2>2. CASE ~Pending(task[t].id)
    BY <1>4, <2>2, KeepRows DEF expire_if_stale, bounds
  <2> QED
    BY <2>1, <2>2
<1>5. ASSUME NEW t \in Tasks, reject_proposal(t) PROVE RowsMove
  <2>1. CASE Pending(task[t].id)
    BY <1>5, <2>1, StatusRows, RowOfTask DEF reject_proposal, bounds
  <2>2. CASE ~Pending(task[t].id)
    BY <1>5, <2>2, KeepRows DEF reject_proposal, bounds
  <2> QED
    BY <2>1, <2>2
<1>6. ASSUME NEW t \in Tasks, edit_proposal(t) PROVE RowsMove
  <2>1. CASE Pending(task[t].id)
    <3>1. task[t].content \in Contents
      BY <1>6 DEF edit_proposal, At, TaskOK
    <3> QED
      BY <1>6, <2>1, <3>1, ContentRows, RowOfTask DEF edit_proposal, bounds, Texts
  <2>2. CASE ~Pending(task[t].id)
    BY <1>6, <2>2, KeepRows DEF edit_proposal, bounds
  <2> QED
    BY <2>1, <2>2
<1>7. ASSUME NEW t \in Tasks, expire_record(t) \/ record_decision(t)
      PROVE  RowsMove
  BY <1>7, KeepRows DEF expire_record, record_decision, tables, bounds
<1>8. CASE Tick
  BY <1>8, KeepRows DEF Tick, tables
<1> QED
  BY <1>1, <1>2, <1>3, <1>4, <1>5, <1>6, <1>7, <1>8, <1>9, ApproveRows DEF Next, Serve

-----------------------------------------------------------------------------
(* What a step does to the histories *)

\* The approval of the transaction that t runs: the row it approves is pending and
\* holds the bytes the caller saw.
Approves(t) ==
    /\ Pending(task[t].id) /\ Row(t).content = task[t].content
    /\ \/ proposals' = CasApproved(task[t].id)
       \/ Row(t).kind = "user_map" /\ proposals' = proposals
    /\ filed' = filed /\ task[t].pc = "tx"

\* A proposal is put into effect only by an approval that passed the quorum or is
\* exempt from it, in the transaction that records the act.
AppliedMoves ==
    \/ applied' = applied
    \/ \E t \in Tasks : /\ Approves(t) /\ Apply(t) /\ TakeAct(t)
                        /\ Exempt(Row(t).kind) \/ Passes(task[t].id, task[t].actor)

\* Every action leaves what is in effect alone, or is such an approval.
LEMMA NextApplied == ASSUME Next PROVE AppliedMoves
<1>1. ASSUME NEW t \in Tasks,
             approve_governed(t) \/ approve_user_map(t) \/ approve_promote(t)
      PROVE  AppliedMoves
  <2>1. /\ Approves(t) /\ Apply(t) /\ TakeAct(t)
        /\ Exempt(Row(t).kind) \/ Passes(task[t].id, task[t].actor)
    BY <1>1 DEF approve_governed, approve_user_map, approve_promote, Approves, Cleared, Admitted,
                InApprove, At, bounds
  <2> QED
    BY <2>1 DEF AppliedMoves
<1>2. ASSUME NEW t \in Tasks,
             request(t) \/ (Serve(t)
                /\ ~(approve_governed(t) \/ approve_user_map(t) \/ approve_promote(t)))
      PROVE  applied' = applied
  BY <1>2
  DEF Serve, ApproveStep, SignalStep, request, Begin, expire_if_stale, expire_record,
      approve_refused, approve_first, approve_same, approve_escalated, approve_suppressed,
      approve_failed, reject_proposal, edit_proposal, signal_refused, signal_first, signal_same,
      approve_draft_tx, record_decision, QuorumFirst, QuorumSame, history
<1>3. ASSUME NEW kind \in Kinds, NEW content \in Contents, insert_proposal(kind, content)
      PROVE  applied' = applied
  BY <1>3 DEF insert_proposal, history
<1>4. ASSUME NEW id \in Ids, erase(id) PROVE applied' = applied
  BY <1>4 DEF erase, history
<1>5. CASE Tick
  BY <1>5 DEF Tick, history, AppliedMoves
<1>6. ASSUME NEW content, NEW scrub, forget(content, scrub) PROVE applied' = applied
  BY <1>6 DEF forget, history
<1> QED
  BY <1>1, <1>2, <1>3, <1>4, <1>5, <1>6 DEF Next, AppliedMoves

\* The histories only grow.
LEMMA HistoriesGrow ==
    ASSUME Next
    PROVE  acts \subseteq acts' /\ log \subseteq log' /\ lost \subseteq lost'
<1>1. ASSUME NEW t \in Tasks, request(t) \/ Serve(t)
      PROVE  acts \subseteq acts' /\ log \subseteq log' /\ lost \subseteq lost'
  BY <1>1
  DEF Serve, ApproveStep, SignalStep, request, Begin, expire_if_stale, expire_record,
      approve_refused, approve_first, approve_same, approve_governed, approve_escalated,
      approve_suppressed, approve_failed, approve_user_map, approve_promote, reject_proposal,
      edit_proposal, signal_refused, signal_first, signal_same, approve_draft_tx,
      record_decision, QuorumFirst, QuorumSame, TakeAct, Record, history
<1> QED
  BY <1>1 DEF Next, insert_proposal, erase, forget, Tick, history

\* A row of the decision log is written, or lost, with the approval in its
\* transaction, or by the request that carries the serial.
LogMoves ==
    \/ log' = log /\ lost' = lost
    \/ \E t \in Tasks : Approves(t) /\ Record("approved", Row(t).serial)
    \/ \E t \in Tasks : /\ task[t].pc = "expired" /\ task[t].serial # None
                        /\ Record("expired", task[t].serial)
                        /\ UNCHANGED <<proposals, filed>>
    \/ \E t \in Tasks : /\ task[t].pc = "after"
                        /\ Record(Outcome(task[t].verb), task[t].serial)
                        /\ UNCHANGED <<proposals, filed>>

\* Every action leaves the decision log alone, or adds or loses such a row.
LEMMA NextLog == ASSUME Next PROVE LogMoves
<1>1. ASSUME NEW t \in Tasks,
             approve_governed(t) \/ approve_suppressed(t) \/ approve_user_map(t)
      PROVE  LogMoves
  <2>1. Approves(t) /\ Record("approved", Row(t).serial)
    BY <1>1 DEF approve_governed, approve_suppressed, approve_user_map, Approves, Cleared,
                Admitted, InApprove, At, bounds
  <2> QED
    BY <2>1 DEF LogMoves
<1>2. ASSUME NEW t \in Tasks, expire_record(t) PROVE LogMoves
  BY <1>2 DEF expire_record, At, LogMoves, tables, bounds
<1>3. ASSUME NEW t \in Tasks, record_decision(t) PROVE LogMoves
  BY <1>3 DEF record_decision, LogMoves, tables, bounds
<1>4. ASSUME NEW t \in Tasks,
             \/ request(t) \/ expire_if_stale(t) \/ approve_refused(t) \/ approve_first(t)
             \/ approve_same(t) \/ approve_escalated(t) \/ approve_failed(t)
             \/ approve_promote(t) \/ reject_proposal(t) \/ edit_proposal(t) \/ SignalStep(t)
      PROVE  log' = log /\ lost' = lost
  BY <1>4
  DEF SignalStep, request, Begin, expire_if_stale, approve_refused, approve_first, approve_same,
      approve_escalated, approve_failed, approve_promote, reject_proposal, edit_proposal,
      signal_refused, signal_first, signal_same, approve_draft_tx, QuorumFirst,
      QuorumSame, history
<1>5. ASSUME NEW t \in Tasks, request(t) \/ Serve(t) PROVE LogMoves
  BY <1>1, <1>2, <1>3, <1>4, <1>5 DEF Serve, ApproveStep, LogMoves
<1> QED
  BY <1>5 DEF Next, insert_proposal, erase, forget, Tick, history, LogMoves

-----------------------------------------------------------------------------
(* The parts of the invariant, one by one *)

\* The row that an approval in progress concerns, before and after.
LEMMA ApprovedRow ==
    ASSUME TypeOK, NEW t \in Tasks, Approves(t)
    PROVE  /\ task[t].id \in Ids /\ Row(t).serial \in Serials /\ Row(t).content \in Texts
           /\ proposals[task[t].id] = Row(t) /\ Row(t).status = "pending" /\ Ids' = Ids
           /\ Row(t).content = task[t].content
           /\ \A j \in Ids \ {task[t].id} : proposals'[j] = proposals[j]
           /\ proposals'[task[t].id].content = Row(t).content
           /\ proposals'[task[t].id].serial = Row(t).serial
           /\ proposals'[task[t].id].kind = Row(t).kind
           /\ proposals'[task[t].id].kind # "user_map"
                 => proposals'[task[t].id].status = "approved"
<1>1. /\ task[t].id \in Ids /\ Row(t) = proposals[task[t].id] /\ Row(t).status = "pending"
      /\ Row(t).serial \in Serials /\ Row(t).content \in Texts
      /\ Row(t).content = task[t].content
  BY RowOfTask DEF Approves
<1>2. CASE proposals' = CasApproved(task[t].id)
  <2>1. /\ RowsMove /\ Ids' = Ids
        /\ \A j \in Ids \ {task[t].id} : proposals'[j] = proposals[j]
        /\ proposals'[task[t].id].status = "approved"
        /\ proposals'[task[t].id].content = proposals[task[t].id].content
    BY <1>1, <1>2, StatusRows DEF CasApproved, Approves
  <2>2. Stays(task[t].id)
    BY <1>1, <2>1 DEF RowsMove, IsNew
  <2> QED
    BY <1>1, <2>1, <2>2 DEF Stays
<1>3. CASE Row(t).kind = "user_map" /\ proposals' = proposals
  BY <1>1, <1>3 DEF Ids
<1> QED
  BY <1>2, <1>3 DEF Approves

\* No action gives a row a serial that another row has or had.
LEMMA NextSerials ==
    ASSUME TypeOK, ReviewInv, Next
    PROVE  SerialsOK'
<1>0. RowsMove
  BY NextRows DEF ReviewInv
<1>1. filed \in Nat /\ filed' \in Nat /\ filed <= filed'
      /\ \A id \in Ids : proposals[id].serial \in Nat /\ id \in Nat
  BY <1>0, RowsTyped DEF RowsMove, RowType, Serials
<1>2. \A id \in Ids' : id <= filed' /\ proposals'[id].serial <= filed'
  BY <1>0, <1>1 DEF RowsMove, Stays, IsNew, ReviewInv, SerialsOK
<1>3. \A i, j \in Ids' : proposals'[i].serial = proposals'[j].serial => i = j
  BY <1>0, <1>1 DEF RowsMove, Stays, IsNew, ReviewInv, SerialsOK
<1>4. \A s \in Serials : s > filed' => applied'[s] = <<>>
  <2>1. CASE applied' = applied
    BY <1>1, <2>1 DEF ReviewInv, SerialsOK, Serials
  <2>2. ASSUME NEW t \in Tasks, Approves(t), Apply(t)
        PROVE  \A s \in Serials : s > filed' => applied'[s] = <<>>
    <3>1. Row(t).serial \in Serials /\ Row(t).serial <= filed
      BY <2>2, ApprovedRow DEF ReviewInv, SerialsOK
    <3> QED
      BY <1>1, <2>2, <3>1 DEF Apply, ReviewInv, SerialsOK, TypeOK, Serials
  <2> QED
    BY <2>1, <2>2, NextApplied DEF AppliedMoves
<1>5. \A e \in log' : e[2] <= filed'
  <2>1. \A e \in log : e[2] \in Nat /\ e[2] <= filed
    BY DEF TypeOK, Facts, Serials, ReviewInv, SerialsOK
  <2>2. \A t \in Tasks : task[t].serial \in Nat /\ task[t].serial <= filed
    BY DEF TypeOK, TaskType, Serials, None, ReviewInv, TaskOK
  <2>3. \A t \in Tasks : Approves(t) => Row(t).serial \in Nat /\ Row(t).serial <= filed
    BY ApprovedRow DEF Serials, ReviewInv, SerialsOK
  <2> QED
    BY <1>1, <2>1, <2>2, <2>3, NextLog DEF LogMoves, Record
<1> QED
  BY <1>2, <1>3, <1>4, <1>5 DEF SerialsOK

\* A row whose effect changes is the pending row of the approval, without an effect
\* so far; every other row keeps the effect it had, and a new row has none.
LEMMA NextAppliedOnce ==
    ASSUME TypeOK, ReviewInv, Next
    PROVE  AppliedOnce'
<1>0. RowsMove
  BY NextRows DEF ReviewInv
<1> DEFINE As(id, row, done, A) ==
               \/ done = <<>>
               \/ /\ row.status = "approved" /\ Len(done) = 1
                  /\ row.content \in {done[1], Scrubbed}
                  /\ \E a \in Actors : <<id, row.serial, a, done[1]>> \in A
<1> SUFFICES ASSUME NEW id \in Ids', proposals'[id].kind # "user_map"
             PROVE  As(id, proposals'[id], applied'[proposals'[id].serial], acts')
  BY DEF AppliedOnce, AppliedAs
<1> DEFINE Goal == As(id, proposals'[id], applied'[proposals'[id].serial], acts')
<1>3. ASSUME NEW j \in Ids, proposals[j].kind # "user_map"
      PROVE  As(j, proposals[j], applied[proposals[j].serial], acts)
  BY <1>3 DEF ReviewInv, AppliedOnce, AppliedAs
<1>4. ASSUME Stays(id), applied'[proposals[id].serial] = applied[proposals[id].serial]
      PROVE  Goal
  <2>1. acts \subseteq acts'
    BY HistoriesGrow
  <2>2. As(id, proposals[id], applied[proposals[id].serial], acts)
    BY <1>3, <1>4 DEF Stays
  <2>3. proposals'[id].serial = proposals[id].serial
    BY <1>4 DEF Stays
  <2>4. CASE proposals[id].status = "pending"
    BY <1>4, <2>2, <2>3, <2>4
  <2>5. CASE proposals[id].status # "pending"
    <3>1. /\ proposals'[id].status = proposals[id].status
          /\ proposals'[id].content \in {proposals[id].content, Scrubbed}
      BY <1>4, <2>5 DEF Stays
    <3> QED
      BY <1>4, <2>1, <2>2, <2>3, <3>1
  <2> QED
    BY <2>4, <2>5
<1>1. CASE applied' = applied
  <2>1. CASE IsNew(id)
    <3>1. proposals'[id].serial \in Serials /\ proposals'[id].serial > filed
      BY <1>0, <2>1, RowsTyped DEF IsNew, RowsMove, RowType, Serials
    <3> QED
      BY <1>1, <3>1 DEF ReviewInv, SerialsOK
  <2>2. CASE Stays(id)
    BY <1>1, <1>4, <2>2
  <2> QED
    BY <1>0, <2>1, <2>2 DEF RowsMove
<1>2. ASSUME NEW t \in Tasks, Approves(t), Apply(t), TakeAct(t) PROVE Goal
  <2> DEFINE p == task[t].id
  <2>1. /\ p \in Ids /\ Row(t).serial \in Serials /\ Row(t).content \in Texts
        /\ proposals[p] = Row(t) /\ Row(t).status = "pending" /\ Ids' = Ids
        /\ Row(t).content = task[t].content
        /\ \A j \in Ids \ {p} : proposals'[j] = proposals[j]
        /\ proposals'[p].content = Row(t).content /\ proposals'[p].serial = Row(t).serial
        /\ proposals'[p].kind = Row(t).kind
        /\ proposals'[p].kind # "user_map" => proposals'[p].status = "approved"
    BY <1>2, ApprovedRow
  <2>2. applied' = [applied EXCEPT ![Row(t).serial] = Append(@, Row(t).content)]
    BY <1>2 DEF Apply
  <2>3. CASE id = p
    <3>1. applied[Row(t).serial] = <<>>
      BY <1>3, <2>1, <2>3
    <3>2. applied'[Row(t).serial] = Append(<<>>, Row(t).content)
      BY <2>1, <2>2, <3>1 DEF TypeOK
    <3>3. LET done == Append(<<>>, Row(t).content)
          IN  Len(done) = 1 /\ done[1] = Row(t).content
      OBVIOUS
    <3>4. /\ <<p, Row(t).serial, task[t].actor, Row(t).content>> \in acts'
          /\ task[t].actor \in Actors
      BY <1>2, <2>1 DEF TakeAct, TypeOK, TaskType
    <3> QED
      BY <2>1, <2>3, <3>2, <3>3, <3>4
  <2>4. CASE id # p
    <3>1. id \in Ids /\ proposals'[id] = proposals[id] /\ proposals[id].serial # Row(t).serial
          /\ proposals[id].serial \in Serials
      BY <2>1, <2>4, RowsTyped DEF ReviewInv, SerialsOK, RowType
    <3>2. applied'[proposals[id].serial] = applied[proposals[id].serial] /\ Stays(id)
      BY <2>2, <3>1 DEF TypeOK, Stays, DecidedRowMoves
    <3> QED
      BY <1>4, <3>2
  <2> QED
    BY <2>3, <2>4
<1> QED
  BY <1>1, <1>2, NextApplied DEF AppliedMoves

\* The first approval's marker is written with its act.
LEMMA NextFirst ==
    ASSUME TypeOK, ReviewInv, Next
    PROVE  FirstBacked'
<1>0. acts \subseteq acts'
  BY HistoriesGrow
<1>1. CASE first' = first
  BY <1>0, <1>1 DEF ReviewInv, FirstBacked
<1>2. ASSUME NEW t \in Tasks, Pending(task[t].id), Row(t).content = task[t].content,
             QuorumFirst(t)
      PROVE  FirstBacked'
  <2>1. first' = With(first, task[t].id, task[t].actor)
    BY <1>2 DEF QuorumFirst
  <2>2. <<task[t].id, Row(t).serial, task[t].actor, Row(t).content>> \in acts'
    BY <1>2 DEF QuorumFirst, TakeAct
  <2>3. Row(t).serial \in Serials /\ Row(t).content \in Texts
    BY <1>2, RowOfTask
  <2> SUFFICES ASSUME NEW id \in DOMAIN first'
               PROVE  \E s \in Serials, c \in Texts : <<id, s, first'[id], c>> \in acts'
    BY DEF FirstBacked
  <2>4. CASE id = task[t].id
    BY <2>1, <2>2, <2>3, <2>4 DEF With
  <2>5. CASE id # task[t].id
    <3>1. id \in DOMAIN first /\ first'[id] = first[id]
      BY <2>1, <2>5 DEF With
    <3> QED
      BY <1>0, <3>1 DEF ReviewInv, FirstBacked
  <2> QED
    BY <2>4, <2>5
<1>3. ASSUME NEW t \in Tasks, approve_first(t) \/ signal_first(t) PROVE FirstBacked'
  BY <1>2, <1>3 DEF approve_first, signal_first, Admitted, SignalAdmitted
<1>4. ASSUME NEW t \in Tasks,
             request(t) \/ (Serve(t) /\ ~(approve_first(t) \/ signal_first(t)))
      PROVE  first' = first
  BY <1>4
  DEF Serve, ApproveStep, SignalStep, request, Begin, expire_if_stale, expire_record,
      approve_refused, approve_same, approve_governed, approve_escalated,
      approve_suppressed, approve_failed, approve_user_map, approve_promote, reject_proposal,
      edit_proposal, signal_refused, signal_same, approve_draft_tx,
      record_decision, QuorumSame, tables
<1> QED
  BY <1>1, <1>3, <1>4 DEF Next, insert_proposal, erase, forget, Tick, tables

\* Under the quorum, the marker that lets an approval pass is another principal's
\* act under the same id, and the approval is an act on the bytes it applies.
LEMMA NextSecondEyes ==
    ASSUME TypeOK, ReviewInv, Next
    PROVE  SecondEyes'
<1>0. RowsMove /\ acts \subseteq acts'
  BY NextRows, HistoriesGrow DEF ReviewInv
<1> DEFINE Seen(id, s, x, A) ==
               \E a \in Actors : \E b \in Actors \ {a} :
                   /\ <<id, s, b, x>> \in A
                   /\ \E u \in Serials, c \in Texts : <<id, u, a, c>> \in A
<1>1. ASSUME NEW id, NEW s, NEW x, Seen(id, s, x, acts) PROVE Seen(id, s, x, acts')
  BY <1>0, <1>1
<1> SUFFICES ASSUME Quorum = 2, NEW id \in Ids', ~Exempt(proposals'[id].kind),
                    NEW k \in DOMAIN applied'[proposals'[id].serial]
             PROVE  Seen(id, proposals'[id].serial, applied'[proposals'[id].serial][k], acts')
  BY DEF SecondEyes
<1> DEFINE Goal == Seen(id, proposals'[id].serial, applied'[proposals'[id].serial][k], acts')
<1>2. ASSUME Stays(id), applied'[proposals[id].serial] = applied[proposals[id].serial]
      PROVE  Goal
  <2>1. /\ id \in Ids /\ proposals'[id].serial = proposals[id].serial
        /\ proposals'[id].kind = proposals[id].kind
    BY <1>2 DEF Stays
  <2>2. Seen(id, proposals[id].serial, applied[proposals[id].serial][k], acts)
    BY <1>2, <2>1 DEF ReviewInv, SecondEyes
  <2> HIDE DEF Seen
  <2> QED
    BY <1>1, <1>2, <2>1, <2>2
<1>3. CASE applied' = applied
  <2>1. CASE IsNew(id)
    <3>1. proposals'[id].serial \in Serials /\ proposals'[id].serial > filed
      BY <1>0, <2>1, RowsTyped DEF IsNew, RowsMove, RowType, Serials
    <3>2. applied'[proposals'[id].serial] = <<>>
      BY <1>3, <3>1 DEF ReviewInv, SerialsOK
    <3> QED
      BY <3>2
  <2> QED
    BY <1>0, <1>2, <1>3, <2>1 DEF RowsMove
<1>4. ASSUME NEW t \in Tasks, Approves(t), Apply(t), TakeAct(t),
             Exempt(Row(t).kind) \/ Passes(task[t].id, task[t].actor)
      PROVE  Goal
  <2> DEFINE p == task[t].id
  <2>1. /\ p \in Ids /\ Row(t).serial \in Serials /\ Row(t).content \in Texts
        /\ proposals[p] = Row(t) /\ Ids' = Ids
        /\ \A j \in Ids \ {p} : proposals'[j] = proposals[j]
        /\ proposals'[p].serial = Row(t).serial /\ proposals'[p].kind = Row(t).kind
    BY <1>4, ApprovedRow
  <2>2. applied' = [applied EXCEPT ![Row(t).serial] = Append(@, Row(t).content)]
    BY <1>4 DEF Apply
  <2>3. CASE id # p
    <3>1. /\ id \in Ids /\ proposals'[id] = proposals[id]
          /\ proposals[id].serial # Row(t).serial /\ proposals[id].serial \in Serials
      BY <2>1, <2>3, RowsTyped DEF ReviewInv, SerialsOK, RowType
    <3>2. applied'[proposals[id].serial] = applied[proposals[id].serial] /\ Stays(id)
      BY <2>2, <3>1 DEF TypeOK, Stays, DecidedRowMoves
    <3> QED
      BY <1>2, <3>2
  <2>4. CASE id = p
    <3> DEFINE old == applied[Row(t).serial]
    <3>1. /\ old \in Seq(Texts)
          /\ applied'[proposals'[id].serial] = Append(old, Row(t).content)
      BY <2>1, <2>2, <2>4 DEF TypeOK
    <3>2. CASE k \in DOMAIN old
      <4>1. Append(old, Row(t).content)[k] = old[k]
        BY <3>1, <3>2
      <4>2. Seen(id, Row(t).serial, old[k], acts)
        <5>1. \A j \in Ids : ~Exempt(proposals[j].kind) =>
                \A m \in DOMAIN applied[proposals[j].serial] :
                  Seen(j, proposals[j].serial, applied[proposals[j].serial][m], acts)
          BY DEF ReviewInv, SecondEyes
        <5>2. id \in Ids /\ ~Exempt(proposals[id].kind) /\ proposals[id].serial = Row(t).serial
          BY <2>1, <2>4
        <5> HIDE DEF Seen
        <5> QED
          BY <3>2, <5>1, <5>2
      <4> HIDE DEF Seen, old
      <4> QED
        BY <1>1, <2>1, <2>4, <3>1, <4>1, <4>2
    <3>3. CASE k \notin DOMAIN old
      <4>1. Append(old, Row(t).content)[k] = Row(t).content
        BY <3>1, <3>3
      <4>2. <<p, Row(t).serial, task[t].actor, Row(t).content>> \in acts'
        BY <1>4, ApprovedRow DEF TakeAct
      <4>3. p \in DOMAIN first /\ first[p] # task[t].actor /\ first[p] \in Actors
            /\ task[t].actor \in Actors
        BY <1>4, <2>1, <2>4 DEF Passes, TypeOK, TaskType
      <4>4. \E u \in Serials, c \in Texts : <<p, u, first[p], c>> \in acts'
        BY <1>0, <4>3 DEF ReviewInv, FirstBacked
      <4>5. Seen(p, Row(t).serial, Row(t).content, acts')
        BY <4>2, <4>3, <4>4
      <4> HIDE DEF Seen, old
      <4> QED
        BY <2>1, <2>4, <3>1, <4>1, <4>5
    <3> QED
      BY <3>2, <3>3
  <2> QED
    BY <2>3, <2>4
<1> QED
  BY <1>3, <1>4, NextApplied DEF AppliedMoves

\* A record is written for the status its row has; no later step changes a decided
\* row, and a new row has no record yet.
LEMMA NextRecords ==
    ASSUME TypeOK, ReviewInv, Next
    PROVE  RecordsAgree'
<1>0. RowsMove
  BY NextRows DEF ReviewInv
<1> SUFFICES ASSUME NEW id \in Ids'
             PROVE  /\ (/\ proposals'[id].kind # "user_map"
                        /\ <<"approved", proposals'[id].serial>> \in log')
                         => proposals'[id].status = "approved"
                    /\ <<"rejected", proposals'[id].serial>> \in log'
                         => proposals'[id].status = "rejected"
  BY DEF RecordsAgree
<1>1. CASE IsNew(id)
  <2>1. /\ proposals'[id].serial = filed + 1 /\ filed \in Nat
        /\ \A s \in Nat, what \in {"approved", "rejected"} : <<what, s>> \in log => s <= filed
    BY <1>1, RowsTyped DEF IsNew, ReviewInv, SerialsOK
  <2>2. filed' # filed
    BY <1>1, RowsTyped DEF IsNew
  <2>3. log' = log
    BY <2>2, NextLog DEF LogMoves, Approves, Record
  <2> QED
    BY <2>1, <2>3
<1>2. CASE Stays(id)
  <2> DEFINE s == proposals[id].serial
  <2>0. id \in Ids /\ proposals'[id].serial = s /\ proposals'[id].kind = proposals[id].kind
        /\ (proposals[id].status # "pending" => proposals'[id].status = proposals[id].status)
    BY <1>2 DEF Stays
  <2>1. CASE <<"approved", s>> \notin log' \ log /\ <<"rejected", s>> \notin log' \ log
    BY <2>0, <2>1 DEF ReviewInv, RecordsAgree
  <2>2. ASSUME NEW t \in Tasks, Approves(t), log' = log \cup {<<"approved", Row(t).serial>>},
               s = Row(t).serial
        PROVE  /\ proposals'[id].kind # "user_map" => proposals'[id].status = "approved"
               /\ <<"rejected", s>> \notin log'
    <3>1. id = task[t].id
      BY <2>0, <2>2, ApprovedRow DEF ReviewInv, SerialsOK
    <3>2. <<"rejected", s>> \notin log
      BY <2>0, <2>2, <3>1, ApprovedRow DEF ReviewInv, RecordsAgree
    <3> QED
      BY <2>2, <3>1, <3>2, ApprovedRow
  <2>3. ASSUME NEW t \in Tasks, task[t].pc = "after",
               log' = log \cup {<<Outcome(task[t].verb), task[t].serial>>},
               UNCHANGED <<proposals, filed>>, s = task[t].serial
        PROVE  /\ (proposals'[id].kind # "user_map" /\ <<"approved", s>> \in log')
                    => proposals'[id].status = "approved"
               /\ <<"rejected", s>> \in log' => proposals'[id].status = "rejected"
    <3>1. task[t].verb \in {"approve", "reject", "edit", "signal"} /\ TaskOK(t)
      BY <2>3 DEF ReviewInv, TaskOK
    <3>2. CASE task[t].verb = "edit"
      BY <2>0, <2>3, <3>2 DEF Outcome, ReviewInv, RecordsAgree
    <3>3. CASE task[t].verb = "reject"
      BY <2>0, <2>3, <3>1, <3>3 DEF Outcome, ReviewInv, RecordsAgree, TaskOK
    <3>4. CASE task[t].verb \in {"approve", "signal"}
      BY <2>0, <2>3, <3>1, <3>4 DEF Outcome, ReviewInv, RecordsAgree, TaskOK
    <3> QED
      BY <3>1, <3>2, <3>3, <3>4
  <2>4. CASE \E t \in Tasks : Approves(t) /\ log' = log \cup {<<"approved", Row(t).serial>>}
    BY <2>0, <2>1, <2>2, <2>4
  <2>5. CASE \E t \in Tasks : /\ task[t].pc = "after"
                             /\ log' = log \cup {<<Outcome(task[t].verb), task[t].serial>>}
                             /\ UNCHANGED <<proposals, filed>>
    BY <2>0, <2>1, <2>3, <2>5
  <2>6. CASE \E t \in Tasks : log' = log \cup {<<"expired", task[t].serial>>}
    BY <2>1, <2>6
  <2>7. CASE log' = log
    BY <2>1, <2>7
  <2> QED
    BY <2>4, <2>5, <2>6, <2>7, NextLog DEF LogMoves, Record
<1> QED
  BY <1>0, <1>1, <1>2 DEF RowsMove

\* A request that goes on to write its record.
LEMMA AfterTask ==
    ASSUME TypeOK, NEW t \in Tasks, Pending(task[t].id),
           task' = [task EXCEPT ![t].pc = "after", ![t].serial = Row(t).serial]
    PROVE  /\ task' \in [Tasks -> TaskType]
           /\ task'[t] = [task[t] EXCEPT !.pc = "after", !.serial = Row(t).serial]
<1>1. Row(t).serial \in Serials /\ task[t] \in TaskType
  BY RowOfTask DEF TypeOK
<1>2. [task[t] EXCEPT !.pc = "after", !.serial = Row(t).serial] \in TaskType
  BY <1>1 DEF TaskType
<1> QED
  BY <1>2 DEF TypeOK

\* A request that owes a record gives it up only by writing or by losing it.
LEMMA TracesKept ==
    ASSUME TypeOK, ReviewInv, Next, NEW what, NEW s \in Serials, Traced(what, s)
    PROVE  Traced(what, s)'
<1>0. log \subseteq log' /\ lost \subseteq lost'
  BY HistoriesGrow
<1>1. CASE <<what, s>> \in log \cup lost
  BY <1>0, <1>1 DEF Traced
<1>2. ASSUME NEW u \in Tasks, Owes(u, what, s) PROVE Traced(what, s)'
  <2>1. task[u].pc \in {"after", "expired"} /\ task[u].serial = s /\ s # None
    BY <1>2 DEF Owes, Serials, None
  <2>2. CASE task'[u] = task[u]
    BY <1>2, <2>2 DEF Traced, Owes
  <2>3. CASE expire_record(u)
    <3>1. Record(what, s)
      BY <1>2, <2>1, <2>3 DEF expire_record, At, Owes
    <3> QED
      BY <3>1 DEF Record, Traced
  <2>4. CASE record_decision(u)
    <3>1. Record(what, s)
      BY <1>2, <2>1, <2>4 DEF record_decision, Owes
    <3> QED
      BY <3>1 DEF Record, Traced
  <2>6. ASSUME NEW t \in Tasks \ {u}, request(t) \/ Serve(t) PROVE task'[u] = task[u]
    BY <2>6
    DEF TypeOK, Finish, Serve, ApproveStep, SignalStep, request, Begin, expire_if_stale,
        expire_record, approve_refused, approve_first, approve_same, approve_governed,
        approve_escalated, approve_suppressed, approve_failed, approve_user_map,
        approve_promote, reject_proposal, edit_proposal, signal_refused, signal_first,
        signal_same, approve_draft_tx, record_decision, QuorumFirst, QuorumSame
  <2>7. CASE request(u) \/ Serve(u)
    <3>1. ~request(u) /\ ~ApproveStep(u) /\ ~SignalStep(u) /\ ~expire_if_stale(u)
          /\ ~reject_proposal(u) /\ ~edit_proposal(u)
      BY <2>1
      DEF request, Begin, ApproveStep, SignalStep, approve_refused, approve_first, approve_same,
          approve_governed, approve_escalated, approve_suppressed, approve_failed,
          approve_user_map, approve_promote, signal_refused, signal_first, signal_same,
          approve_draft_tx, expire_if_stale, reject_proposal, edit_proposal, Cleared, InApprove,
          InSignal, At
    <3> QED
      BY <2>3, <2>4, <2>7, <3>1 DEF Serve
  <2>8. CASE task' = task
    BY <2>2, <2>8
  <2> QED
    BY <2>2, <2>6, <2>7, <2>8 DEF Next, insert_proposal, erase, forget, Tick
<1> QED
  BY <1>1, <1>2 DEF Traced

\* The step that decides a row writes the record with it, or goes on to a point
\* where it owes the record.
LEMMA DecidedTraced ==
    ASSUME TypeOK, ReviewInv, Next, NEW id \in Ids, id \in Ids', Stays(id),
           proposals[id].status = "pending", proposals'[id].status # "pending"
    PROVE  DecisionTraced(proposals[id])'
<1>s. PICK s \in Serials : s = proposals[id].serial
  BY RowsTyped DEF RowType
<1>0. proposals'[id].serial = s /\ proposals' # proposals
  BY <1>s DEF Stays
<1> DEFINE Goal ==
             \/ proposals'[id].status = "approved" /\ Traced("approved", s)'
             \/ proposals'[id].status = "rejected" /\ Traced("rejected", s)'
             \/ proposals'[id].status = "rejected" /\ Traced("expired", s)'
<1> SUFFICES Goal
  BY <1>0, Zenon DEF DecisionTraced, Traced, Owes
<1>1. ASSUME NEW t \in Tasks, Pending(task[t].id), task[t].id # id,
             \E st : proposals' = [proposals EXCEPT ![task[t].id].status = st]
      PROVE  FALSE
  BY <1>1 DEF Ids
<1>2. ASSUME NEW t \in Tasks, task[t].id = id, proposals' = CasApproved(id),
             Record("approved", Row(t).serial)
      PROVE  Goal
  <2>1. Record("approved", s)
    BY <1>s, <1>2 DEF Row
  <2>2. Traced("approved", s)'
    BY <2>1 DEF Record, Traced
  <2>3. proposals'[id].status = "approved"
    BY <1>2, RowsTyped DEF CasApproved, Ids, RowType
  <2> QED
    BY <2>2, <2>3
<1>3. ASSUME NEW t \in Tasks, approve_governed(t) \/ approve_suppressed(t) PROVE Goal
  <2>1. /\ Pending(task[t].id) /\ proposals' = CasApproved(task[t].id)
        /\ Record("approved", Row(t).serial)
    BY <1>3 DEF approve_governed, approve_suppressed, Cleared, Admitted
  <2> QED
    BY <1>1, <1>2, <2>1 DEF CasApproved
<1>4. ASSUME NEW t \in Tasks, NEW what, task'[t].serial = s,
             \/ task'[t].pc = "expired" /\ what = "expired"
             \/ task'[t].pc = "after" /\ what = Outcome(task'[t].verb)
      PROVE  Traced(what, s)'
  <2>1. Owes(t, what, s)'
    BY <1>4 DEF Owes, Serials, None
  <2> QED
    BY <2>1 DEF Traced
<1>5. ASSUME NEW t \in Tasks, approve_promote(t) \/ approve_draft_tx(t) PROVE Goal
  <2>1. /\ Pending(task[t].id) /\ proposals' = CasApproved(task[t].id)
        /\ task' = [task EXCEPT ![t].pc = "after", ![t].serial = Row(t).serial]
        /\ task[t].verb \in {"approve", "signal"}
    BY <1>5 DEF approve_promote, approve_draft_tx, Cleared, Admitted, SignalAdmitted, InApprove,
                InSignal, At
  <2>2. id = task[t].id
    BY <1>1, <2>1 DEF CasApproved
  <2>3. task'[t].pc = "after" /\ task'[t].serial = s /\ task'[t].verb = task[t].verb
    <3>1. task'[t] = [task[t] EXCEPT !.pc = "after", !.serial = Row(t).serial]
      BY <2>1, AfterTask
    <3> QED
      BY <1>s, <2>2, <3>1 DEF Row, TypeOK, TaskType
  <2>4. Outcome(task'[t].verb) = "approved"
    BY <2>1, <2>3 DEF Outcome
  <2>5. proposals'[id].status = "approved"
    BY <2>1, <2>2, RowsTyped DEF CasApproved, Ids, RowType
  <2> QED
    BY <1>4, <2>3, <2>4, <2>5
<1>6. ASSUME NEW t \in Tasks, reject_proposal(t) PROVE Goal
  <2>1. /\ Pending(task[t].id)
        /\ proposals' = [proposals EXCEPT ![task[t].id].status = "rejected"]
        /\ task' = [task EXCEPT ![t].pc = "after", ![t].serial = Row(t).serial]
        /\ task[t].verb = "reject"
    BY <1>0, <1>6 DEF reject_proposal, At
  <2>2. id = task[t].id
    BY <1>1, <2>1
  <2>3. task'[t].pc = "after" /\ task'[t].serial = s /\ task'[t].verb = task[t].verb
    <3>1. task'[t] = [task[t] EXCEPT !.pc = "after", !.serial = Row(t).serial]
      BY <2>1, AfterTask
    <3> QED
      BY <1>s, <2>2, <3>1 DEF Row, TypeOK, TaskType
  <2>4. Outcome(task'[t].verb) = "rejected"
    BY <2>1, <2>3 DEF Outcome
  <2>5. proposals'[id].status = "rejected"
    BY <2>1, <2>2, RowsTyped DEF Ids, RowType
  <2> QED
    BY <1>4, <2>3, <2>4, <2>5
<1>7. ASSUME NEW t \in Tasks, expire_if_stale(t) PROVE Goal
  <2>1. /\ Pending(task[t].id)
        /\ proposals' = [proposals EXCEPT ![task[t].id].status = "rejected"]
        /\ task'[t].pc = "expired" /\ task'[t].serial = Row(t).serial
    <3>1. Pending(task[t].id)
      BY <1>0, <1>7 DEF expire_if_stale
    <3>2. proposals' = [proposals EXCEPT ![task[t].id].status = "rejected"]
      BY <1>7, <3>1 DEF expire_if_stale
    <3>3. task'[t].pc = "expired" /\ task'[t].serial = Row(t).serial
      BY <1>7, <3>1 DEF expire_if_stale, Pending, TypeOK, TaskType
    <3> QED
      BY <3>1, <3>2, <3>3
  <2>2. id = task[t].id
    BY <1>1, <2>1
  <2>3. proposals'[id].status = "rejected" /\ task'[t].serial = s
    BY <1>s, <2>1, <2>2, RowsTyped DEF Ids, Row, RowType
  <2> QED
    BY <1>4, <2>1, <2>3
<1>8. ASSUME NEW t \in Tasks, edit_proposal(t) PROVE FALSE
  <2>1. Pending(task[t].id) /\ task[t].content \in Contents
        /\ proposals' = [proposals EXCEPT ![task[t].id].content = task[t].content]
    BY <1>0, <1>8 DEF edit_proposal, At, ReviewInv, TaskOK
  <2>2. filed' = filed
    BY <1>8 DEF edit_proposal, bounds
  <2> QED
    BY <2>1, <2>2, ContentRows, RowOfTask
<1>9. ASSUME NEW kind, NEW content, Insert(kind, content), filed < MaxFiled PROVE FALSE
  <2> DEFINE new == CHOOSE i \in Serials : (\A j \in Ids : j < i) /\ (i = 1 \/ i - 1 \in Ids)
  <2>1. new \notin Ids
    BY <1>9, FreeId DEF ReviewInv
  <2>2. \E row : proposals' = With(proposals, new, row)
    BY <1>9 DEF Insert
  <2> HIDE DEF new
  <2>3. proposals'[id] = proposals[id]
    BY <2>1, <2>2 DEF With, Ids
  <2> QED
    BY <2>3
<1>10. ASSUME NEW e \in Ids, erase(e) PROVE FALSE
  BY <1>10 DEF erase, Without, Ids
<1>11. ASSUME NEW t \in Tasks,
              \/ request(t) \/ expire_record(t) \/ approve_refused(t) \/ approve_first(t)
              \/ approve_same(t) \/ approve_failed(t) \/ approve_user_map(t)
              \/ signal_refused(t) \/ signal_first(t) \/ signal_same(t)
              \/ record_decision(t)
       PROVE  FALSE
  BY <1>0, <1>11
  DEF request, Begin, expire_record, approve_refused, approve_first, approve_same, approve_failed,
      approve_user_map, signal_refused, signal_first, signal_same, record_decision,
      QuorumFirst, QuorumSame, tables
<1>12. ASSUME NEW t \in Tasks, approve_escalated(t) PROVE FALSE
  BY <1>9, <1>12 DEF approve_escalated
<1>13. ASSUME NEW t \in Tasks, request(t) \/ Serve(t) PROVE Goal
  BY <1>3, <1>5, <1>6, <1>7, <1>8, <1>11, <1>12, <1>13 DEF Serve, ApproveStep, SignalStep
<1>14. CASE Tick
  BY <1>0, <1>14 DEF Tick, tables
<1>15. ASSUME NEW content, NEW scrub, forget(content, scrub) PROVE FALSE
  BY <1>15, ForgetRows
<1> QED
  BY <1>9, <1>10, <1>13, <1>14, <1>15 DEF Next, insert_proposal

\* Every decided row has its record, lost it, or has a request that still owes it.
LEMMA NextTraced ==
    ASSUME TypeOK, ReviewInv, Next
    PROVE  DecisionsTraced'
<1>0. RowsMove
  BY NextRows DEF ReviewInv
<1> SUFFICES ASSUME NEW id \in Ids' PROVE DecisionTraced(proposals[id])'
  BY DEF DecisionsTraced
<1>1. CASE proposals'[id].status = "pending"
  BY <1>1 DEF DecisionTraced
<1>2. CASE proposals'[id].status # "pending"
  <2>1. Stays(id)
    BY <1>0, <1>2 DEF RowsMove, IsNew
  <2>2. id \in Ids /\ proposals'[id].serial = proposals[id].serial
    BY <2>1 DEF Stays
  <2>3. CASE proposals[id].status = "pending"
    BY <1>2, <2>1, <2>2, <2>3, DecidedTraced
  <2>4. CASE proposals[id].status # "pending"
    <3>1. PICK s \in Serials : s = proposals[id].serial
      BY <2>2, RowsTyped DEF RowType
    <3>2. proposals'[id].status = proposals[id].status
      BY <2>1, <2>4 DEF Stays
    <3>3. /\ proposals[id].status = "approved" => Traced("approved", s)
          /\ proposals[id].status = "rejected" => Traced("rejected", s) \/ Traced("expired", s)
      BY <2>2, <3>1 DEF ReviewInv, DecisionsTraced, DecisionTraced
    <3>4. ASSUME NEW what, Traced(what, s) PROVE Traced(what, s)'
      BY <3>4, TracesKept
    <3>5. /\ proposals'[id].status = "approved" => Traced("approved", s)'
          /\ proposals'[id].status = "rejected" => Traced("rejected", s)' \/ Traced("expired", s)'
      BY <3>2, <3>3, <3>4
    <3>6. proposals'[id].serial = s
      BY <2>2, <3>1
    <3> QED
      BY <3>5, <3>6, Zenon DEF DecisionTraced, Traced, Owes
  <2> QED
    BY <2>3, <2>4
<1> QED
  BY <1>1, <1>2

\* What a request carries stays true while it waits: the row it decided does not
\* change any more, and a new row has another serial.
LEMMA TaskKept ==
    ASSUME TypeOK, ReviewInv, RowsMove, NEW u \in Tasks, task'[u] = task[u]
    PROVE  TaskOK(u)'
<1>1. /\ TaskOK(u) /\ task[u].serial \in Nat /\ filed \in Nat /\ filed' \in Nat
      /\ filed <= filed' /\ task[u].serial <= filed
  <2>1. task[u] \in TaskType /\ TaskOK(u)
    BY DEF ReviewInv, TypeOK
  <2>2. task[u].serial \in Nat
    BY <2>1 DEF TaskType, None, Serials
  <2> QED
    BY <2>1, <2>2, RowsTyped DEF TaskOK, RowsMove
<1>2. ASSUME NEW id \in Ids', proposals'[id].serial = task[u].serial
      PROVE  Stays(id)
  BY <1>1, <1>2 DEF RowsMove, IsNew
<1>3. ASSUME NEW st \in {"approved", "rejected"},
             \A id \in Ids : proposals[id].serial = task[u].serial => proposals[id].status = st,
             NEW id \in Ids', proposals'[id].serial = task[u].serial
      PROVE  proposals'[id].status = st
  BY <1>2, <1>3 DEF Stays
<1> QED
  BY <1>1, <1>3 DEF TaskOK

\* A request that is over owes nothing.
LEMMA IdleOK ==
    ASSUME filed' \in Nat, NEW u \in Tasks, task'[u] = Idle
    PROVE  TaskOK(u)'
  BY DEF TaskOK, Idle, None

\* A request that has just decided its row, or edited it: the row has the status
\* the verb gave it, and no other row has its serial.
LEMMA AfterOK ==
    ASSUME TypeOK, ReviewInv, RowsMove, NEW t \in Tasks, Pending(task[t].id),
           task[t].verb \in {"approve", "reject", "edit", "signal"}, filed' = filed, Ids' = Ids,
           task'[t] = [task[t] EXCEPT !.pc = "after", !.serial = Row(t).serial],
           \/ task[t].verb = "edit"
           \/ task[t].verb = "reject" /\ proposals'[task[t].id].status = "rejected"
           \/ task[t].verb \in {"approve", "signal"} /\ proposals'[task[t].id].status = "approved"
    PROVE  TaskOK(t)'
<1>1. /\ task[t].id \in Ids /\ Row(t) = proposals[task[t].id] /\ Row(t).serial \in Serials
  BY RowOfTask
<1>2. /\ task'[t].pc = "after" /\ task'[t].serial = Row(t).serial
      /\ task'[t].verb = task[t].verb /\ task'[t].content = task[t].content
  BY DEF TypeOK, TaskType
<1>3. Row(t).serial <= filed /\ Row(t).serial # None
  BY <1>1 DEF ReviewInv, SerialsOK, Serials, None
<1>4. ASSUME NEW id \in Ids', proposals'[id].serial = Row(t).serial PROVE id = task[t].id
  <2>1. Stays(id)
    BY DEF RowsMove, IsNew
  <2>2. id \in Ids /\ proposals[id].serial = proposals[task[t].id].serial
    BY <1>1, <1>4, <2>1 DEF Stays
  <2>3. \A i, j \in Ids : proposals[i].serial = proposals[j].serial => i = j
    BY DEF ReviewInv, SerialsOK
  <2> QED
    BY <1>1, <2>2, <2>3
<1>5. task[t].verb = "edit" => task[t].content \in Contents
  BY DEF ReviewInv, TaskOK
<1> QED
  BY <1>2, <1>3, <1>4, <1>5 DEF TaskOK

\* Every step but the ones named leaves the request of t idle, and never touches
\* another's.
LEMMA TaskMoves ==
    ASSUME TypeOK, NEW t \in Tasks, request(t) \/ Serve(t)
    PROVE  /\ \A u \in Tasks \ {t} : task'[u] = task[u]
           /\ \/ Finish(t) /\ task'[t] = Idle
              \/ request(t) \/ expire_if_stale(t) \/ reject_proposal(t) \/ edit_proposal(t)
              \/ approve_promote(t) \/ approve_draft_tx(t)
<1>1. CASE request(t) \/ expire_if_stale(t) \/ reject_proposal(t) \/ edit_proposal(t)
           \/ approve_promote(t) \/ approve_draft_tx(t)
  BY <1>1 DEF TypeOK, request, Begin, expire_if_stale, reject_proposal, edit_proposal,
              approve_promote, approve_draft_tx, Finish
<1>2. CASE Finish(t)
  BY <1>2 DEF Finish, TypeOK
<1> QED
  BY <1>1, <1>2
  DEF Serve, ApproveStep, SignalStep, expire_record, approve_refused, approve_first, approve_same,
      approve_governed, approve_escalated, approve_suppressed, approve_failed,
      approve_user_map, signal_refused, signal_first, signal_same, record_decision,
      QuorumFirst, QuorumSame

\* A request as it begins.
LEMMA BeginTask ==
    ASSUME TypeOK, NEW t \in Tasks, request(t)
    PROVE  /\ task' \in [Tasks -> TaskType] /\ task'[t].serial = None
           /\ task'[t].pc \in {"expire", "tx"}
           /\ task'[t].verb = "edit" => task'[t].content \in Contents
<1>1. ASSUME NEW verb \in {"approve", "reject", "edit", "signal"}, NEW id \in Ids,
             NEW actor \in Actors, NEW content \in Texts \cup {None},
             verb = "edit" => content \in Contents, Begin(t, verb, id, actor, content)
      PROVE  /\ task' \in [Tasks -> TaskType] /\ task'[t].serial = None
             /\ task'[t].pc \in {"expire", "tx"}
             /\ task'[t].verb = "edit" => task'[t].content \in Contents
  <2> DEFINE pc == IF verb # "signal" /\ Pending(id) /\ Stale(id) THEN "expire" ELSE "tx"
             r == [pc |-> pc, verb |-> verb, id |-> id, actor |-> actor, content |-> content,
                   serial |-> None]
  <2>1. pc \in {"expire", "tx"} /\ id \in 0 .. MaxFiled
    BY RowsTyped DEF Serials
  <2>2. task' = [task EXCEPT ![t] = r]
    BY <1>1 DEF Begin
  <2> HIDE DEF pc
  <2>3. r \in TaskType
    BY <2>1 DEF TaskType
  <2>4. task'[t] = r
    BY <2>2 DEF TypeOK
  <2> QED
    BY <1>1, <2>1, <2>2, <2>3, <2>4 DEF TypeOK
<1> QED
  BY <1>1 DEF request, Idle, Actors, Signal, Texts

\* A request as an expiry leaves it.
LEMMA ExpireTask ==
    ASSUME TypeOK, NEW t \in Tasks, expire_if_stale(t)
    PROVE  /\ task' \in [Tasks -> TaskType]
           /\ task'[t].pc = "expired" /\ task'[t].verb = task[t].verb
           /\ task'[t].content = task[t].content
           /\ task[t].verb \in {"approve", "reject", "edit"}
           /\ \/ task'[t].serial = None
              \/ task[t].id \in Ids /\ task'[t].serial = proposals[task[t].id].serial
<1> DEFINE s == IF task[t].id \in Ids THEN Row(t).serial ELSE None
<1>1. task' = [task EXCEPT ![t].pc = "expired", ![t].serial = s]
      /\ task[t].verb \in {"approve", "reject", "edit"}
  BY DEF expire_if_stale, At
<1>2. \/ s = None
      \/ task[t].id \in Ids /\ s = proposals[task[t].id].serial /\ s \in Serials
  BY RowsTyped DEF Row, RowType
<1> HIDE DEF s
<1>3. task[t] \in TaskType /\ s \in Serials \cup {None}
  BY <1>2 DEF TypeOK
<1>4. task'[t] = [task[t] EXCEPT !.pc = "expired", !.serial = s]
  BY <1>1 DEF TypeOK
<1>5. /\ task'[t] \in TaskType /\ task'[t].pc = "expired" /\ task'[t].serial = s
      /\ task'[t].verb = task[t].verb /\ task'[t].content = task[t].content
  BY <1>3, <1>4 DEF TaskType
<1>6. task' \in [Tasks -> TaskType]
  BY <1>1, <1>4, <1>5 DEF TypeOK
<1> QED
  BY <1>1, <1>2, <1>5, <1>6

\* A request that finishes leaves its slot free.
LEMMA FinishTask ==
    ASSUME TypeOK, NEW t \in Tasks, Finish(t)
    PROVE  task' \in [Tasks -> TaskType]
<1>1. Idle \in TaskType
  BY ReviewAssumption DEF Idle, TaskType, Actors, None
<1> QED
  BY <1>1 DEF Finish, TypeOK

\* The requests keep their type and carry what TaskOK asks for.
LEMMA NextTasks ==
    ASSUME TypeOK, ReviewInv, Next
    PROVE  task' \in [Tasks -> TaskType] /\ \A u \in Tasks : TaskOK(u)'
<1>0. RowsMove /\ filed' \in Nat /\ filed \in Nat /\ filed <= filed'
  BY NextRows, RowsTyped DEF ReviewInv, RowsMove
<1>1. CASE task' = task
  BY <1>0, <1>1, TaskKept DEF TypeOK
<1>2. ASSUME NEW t \in Tasks, request(t) \/ Serve(t)
      PROVE  task' \in [Tasks -> TaskType] /\ \A u \in Tasks : TaskOK(u)'
  <2>1. \A u \in Tasks \ {t} : TaskOK(u)'
    BY <1>0, <1>2, TaskMoves, TaskKept
  <2>2. CASE request(t)
    <3>1. TaskOK(t)'
      BY <1>0, <2>2, BeginTask DEF TaskOK, None
    <3> QED
      BY <2>1, <2>2, <3>1, BeginTask
  <2>3. CASE expire_if_stale(t)
    <3>1. task'[t].serial <= filed'
      BY <1>0, <2>3, ExpireTask, RowsTyped DEF ReviewInv, SerialsOK, None, RowType, Serials
    <3>2. task[t].verb = "edit" => task[t].content \in Contents
      BY DEF ReviewInv, TaskOK
    <3>3. TaskOK(t)'
      BY <2>3, <3>1, <3>2, ExpireTask DEF TaskOK
    <3> QED
      BY <2>1, <2>3, <3>3, ExpireTask
  <2>4. CASE reject_proposal(t) \/ edit_proposal(t)
    <3>1. CASE Pending(task[t].id)
      <4>1. /\ task' = [task EXCEPT ![t].pc = "after", ![t].serial = Row(t).serial]
            /\ filed' = filed
        BY <2>4, <3>1 DEF reject_proposal, edit_proposal, bounds
      <4>2. TaskOK(t)'
        <5>1. CASE reject_proposal(t)
          <6>1. Ids' = Ids /\ proposals'[task[t].id].status = "rejected"
            BY <3>1, <4>1, <5>1, RowOfTask, StatusRows DEF reject_proposal
          <6>2. task[t].verb = "reject"
            BY <5>1 DEF reject_proposal, At
          <6> QED
            BY <1>0, <3>1, <4>1, <6>1, <6>2, AfterTask, AfterOK
        <5>2. CASE edit_proposal(t)
          <6>1. Ids' = Ids
            BY <3>1, <5>2 DEF edit_proposal, Ids
          <6>2. task[t].verb = "edit"
            BY <5>2 DEF edit_proposal, At
          <6> QED
            BY <1>0, <3>1, <4>1, <6>1, <6>2, AfterTask, AfterOK
        <5> QED
          BY <2>4, <5>1, <5>2
      <4> QED
        BY <2>1, <3>1, <4>1, <4>2, AfterTask
    <3>2. CASE ~Pending(task[t].id)
      <4>1. Finish(t)
        BY <2>4, <3>2 DEF reject_proposal, edit_proposal
      <4>2. task'[t] = Idle
        BY <4>1 DEF Finish, TypeOK
      <4> QED
        BY <1>0, <2>1, <4>1, <4>2, IdleOK, FinishTask
    <3> QED
      BY <3>1, <3>2
  <2>5. CASE approve_promote(t) \/ approve_draft_tx(t)
    <3>1. /\ Pending(task[t].id) /\ proposals' = CasApproved(task[t].id)
          /\ task' = [task EXCEPT ![t].pc = "after", ![t].serial = Row(t).serial]
          /\ task[t].verb \in {"approve", "signal"} /\ filed' = filed
      BY <2>5 DEF approve_promote, approve_draft_tx, Cleared, Admitted, SignalAdmitted, InApprove,
                  InSignal, At, bounds
    <3>2. Ids' = Ids /\ proposals'[task[t].id].status = "approved"
      BY <3>1, StatusRows, RowOfTask DEF CasApproved
    <3>3. TaskOK(t)'
      BY <1>0, <3>1, <3>2, AfterTask, AfterOK
    <3> QED
      BY <2>1, <3>1, <3>3, AfterTask
  <2>6. CASE Finish(t) /\ task'[t] = Idle
    BY <1>0, <2>1, <2>6, IdleOK, FinishTask
  <2> QED
    BY <1>2, <2>2, <2>3, <2>4, <2>5, <2>6, TaskMoves
<1> QED
  BY <1>1, <1>2 DEF Next, insert_proposal, erase, forget, Tick

\* The rest of the type invariant: what the transactions write is of its type.
LEMMA NextType ==
    ASSUME TypeOK, ReviewInv, Next
    PROVE  TypeOK'
<1>0. RowsMove /\ task' \in [Tasks -> TaskType]
  BY NextRows, NextTasks DEF ReviewInv
<1>1. /\ now' \in 0 .. MaxTime /\ requests' \in 0 .. MaxRequests /\ erased' \in 0 .. MaxErased
  <2>1. ASSUME NEW t \in Tasks, Serve(t)
        PROVE  now' = now /\ requests' = requests /\ erased' = erased
    BY <2>1
    DEF Serve, ApproveStep, SignalStep, expire_if_stale, expire_record, approve_refused,
        approve_first, approve_same, approve_governed, approve_escalated, approve_suppressed,
        approve_failed, approve_user_map, approve_promote, reject_proposal, edit_proposal,
        signal_refused, signal_first, signal_same, approve_draft_tx, record_decision,
        QuorumFirst, QuorumSame, bounds
  <2>2. ASSUME NEW t \in Tasks, request(t)
        PROVE  /\ now' = now /\ erased' = erased
               /\ requests < MaxRequests /\ requests' = requests + 1
    BY <2>2 DEF request, Begin
  <2>3. /\ now \in 0 .. MaxTime /\ requests \in 0 .. MaxRequests /\ erased \in 0 .. MaxErased
        /\ MaxTime \in Nat /\ MaxRequests \in Nat /\ MaxErased \in Nat
    BY ReviewAssumption DEF TypeOK
  <2>4. CASE \E t \in Tasks : Serve(t)
    BY <2>1, <2>3, <2>4
  <2>5. CASE \E t \in Tasks : request(t)
    BY <2>2, <2>3, <2>5
  <2> QED
    BY <2>3, <2>4, <2>5 DEF Next, insert_proposal, erase, forget, Tick
<1>2. applied' \in [Serials -> Seq(Texts)]
  <2>1. ASSUME NEW t \in Tasks, Approves(t), Apply(t) PROVE applied' \in [Serials -> Seq(Texts)]
    BY <2>1, ApprovedRow DEF Apply, TypeOK
  <2> QED
    BY <2>1, NextApplied DEF AppliedMoves, TypeOK
<1>3. log' \subseteq Facts /\ lost' \subseteq Facts
  <2>1. \A t \in Tasks : task[t].serial \in Serials \cup {None}
                        /\ (task[t].pc = "after" => task[t].serial # None)
    BY DEF TypeOK, TaskType, ReviewInv, TaskOK
  <2>2. \A t \in Tasks : Outcome(task[t].verb) \in {"approved", "rejected", "edited"}
    BY DEF Outcome
  <2>3. \A t \in Tasks : Approves(t) => Row(t).serial \in Serials
    BY ApprovedRow
  <2>4. ASSUME NEW what \in {"approved", "rejected", "edited", "expired"}, NEW s \in Serials,
               Record(what, s)
        PROVE  log' \subseteq Facts /\ lost' \subseteq Facts
    BY <2>4 DEF Record, Facts, TypeOK
  <2>5. CASE log' = log /\ lost' = lost
    BY <2>5 DEF TypeOK
  <2> QED
    BY <2>1, <2>2, <2>3, <2>4, <2>5, NextLog DEF LogMoves
<1>5. knowledge' \subseteq Texts
  <2>1. ASSUME NEW t \in Tasks, approve_promote(t) PROVE knowledge' \subseteq Texts
    BY <2>1, RowOfTask DEF approve_promote, Cleared, Admitted, TypeOK
  <2>2. ASSUME NEW t \in Tasks, request(t) \/ Serve(t), ~approve_promote(t)
        PROVE  knowledge' = knowledge
    BY <2>2
    DEF request, Begin, Serve, ApproveStep, SignalStep,
        expire_if_stale, expire_record, approve_refused, approve_first, approve_same,
        approve_governed, approve_escalated, approve_suppressed, approve_failed,
        approve_user_map, reject_proposal, edit_proposal, signal_refused,
        signal_first, signal_same, approve_draft_tx, record_decision,
        QuorumFirst, QuorumSame, tables
  <2> QED
    BY <2>1, <2>2 DEF Next, insert_proposal, erase, forget, Tick, tables, TypeOK
<1>6. /\ DOMAIN first' \subseteq Serials /\ \A id \in DOMAIN first' : first'[id] \in Actors
      /\ acts' \subseteq Serials \X Serials \X Actors \X Texts
  <2> DEFINE Good == /\ DOMAIN first' \subseteq Serials
                     /\ \A id \in DOMAIN first' : first'[id] \in Actors
                     /\ acts' \subseteq Serials \X Serials \X Actors \X Texts
  <2>1. ASSUME NEW t \in Tasks, Pending(task[t].id), Row(t).content = task[t].content,
               TakeAct(t)
        PROVE  acts' \subseteq Serials \X Serials \X Actors \X Texts
    <3>1. /\ task[t].id \in Serials /\ Row(t).serial \in Serials /\ task[t].actor \in Actors
          /\ task[t].content \in Texts
      BY <2>1, RowOfTask, RowsTyped DEF TypeOK, TaskType
    <3> QED
      BY <2>1, <3>1 DEF TakeAct, TypeOK
  <2>2. CASE first' = first /\ acts' = acts
    BY <2>2 DEF TypeOK
  <2>3. ASSUME NEW t \in Tasks, Pending(task[t].id), Row(t).content = task[t].content,
               TakeAct(t), first' = first
        PROVE  Good
    BY <2>1, <2>3 DEF TypeOK
  <2>4. ASSUME NEW t \in Tasks, Pending(task[t].id), Row(t).content = task[t].content,
               QuorumFirst(t)
        PROVE  Good
    <3>1. task[t].id \in Serials /\ task[t].actor \in Actors
      BY <2>4, RowOfTask, RowsTyped DEF TypeOK, TaskType
    <3>2. first' = With(first, task[t].id, task[t].actor) /\ TakeAct(t)
      BY <2>4 DEF QuorumFirst
    <3> QED
      BY <2>1, <2>4, <3>1, <3>2 DEF With, TypeOK
  <2>5. ASSUME NEW t \in Tasks, approve_first(t) \/ signal_first(t) PROVE Good
    BY <2>4, <2>5 DEF approve_first, signal_first, Admitted, SignalAdmitted
  <2>6. ASSUME NEW t \in Tasks,
               \/ approve_governed(t) \/ approve_suppressed(t) \/ approve_user_map(t)
               \/ approve_promote(t) \/ approve_draft_tx(t)
        PROVE  Good
    <3>1. /\ Pending(task[t].id) /\ Row(t).content = task[t].content
          /\ TakeAct(t) /\ first' = first
      BY <2>6 DEF approve_governed, approve_suppressed, approve_user_map, approve_promote,
                  approve_draft_tx, Cleared, Admitted, SignalAdmitted
    <3> QED
      BY <2>3, <3>1
  <2>7. ASSUME NEW t \in Tasks,
               \/ request(t) \/ expire_if_stale(t) \/ expire_record(t) \/ approve_refused(t)
               \/ approve_same(t) \/ approve_escalated(t) \/ approve_failed(t)
               \/ reject_proposal(t) \/ edit_proposal(t) \/ signal_refused(t) \/ signal_same(t)
               \/ record_decision(t)
        PROVE  first' = first /\ acts' = acts
    BY <2>7
    DEF request, Begin, expire_if_stale, expire_record, approve_refused, approve_same,
        approve_escalated, approve_failed, reject_proposal, edit_proposal, signal_refused,
        signal_same, record_decision, QuorumSame, tables, history
  <2>8. ASSUME NEW t \in Tasks, request(t) \/ Serve(t) PROVE Good
    <3>1. first' = first /\ acts' = acts => Good
      BY <2>2
    <3> HIDE DEF Good
    <3> QED
      BY <2>5, <2>6, <2>7, <2>8, <3>1 DEF Serve, ApproveStep, SignalStep
  <2> QED
    BY <2>2, <2>8 DEF Next, insert_proposal, erase, forget, Tick, tables, history
<1> QED
  BY <1>0, <1>1, <1>2, <1>3, <1>5, <1>6 DEF TypeOK, RowsMove

-----------------------------------------------------------------------------
(* The theorems *)

\* An empty table and no request satisfy the invariant.
LEMMA ReviewInit == Init => TypeOK /\ ReviewInv
<1> SUFFICES ASSUME Init PROVE TypeOK /\ ReviewInv
  OBVIOUS
<1>1. Ids = {} /\ DOMAIN first = {}
  BY DEF Init, Ids
<1>2. Idle \in TaskType /\ Idle.serial = 0 /\ Idle.pc = "idle" /\ Idle.verb = "none"
  BY ReviewAssumption DEF Idle, TaskType, Actors, None
<1>3. TypeOK
  BY <1>1, <1>2, ReviewAssumption DEF Init, TypeOK
<1>4. \A t \in Tasks : TaskOK(t)
  BY <1>2 DEF Init, TaskOK
<1>5. SerialsOK /\ FirstBacked /\ RecordsAgree /\ DecisionsTraced /\ AppliedOnce /\ SecondEyes
  BY <1>1
  DEF Init, SerialsOK, FirstBacked, RecordsAgree, DecisionsTraced, AppliedOnce, SecondEyes
<1> QED
  BY <1>3, <1>4, <1>5 DEF ReviewInv

\* Every action keeps the types and the invariant.
LEMMA ReviewNext ==
    ASSUME TypeOK, ReviewInv, [Next]_vars
    PROVE  TypeOK' /\ ReviewInv'
<1>1. CASE Next
  BY <1>1, NextType, NextSerials, NextFirst, NextRecords, NextTraced, NextAppliedOnce,
     NextSecondEyes, NextTasks
  DEF ReviewInv
<1>2. CASE UNCHANGED vars
  <2>1. TypeOK'
    BY <1>2 DEF TypeOK, Ids, vars
  <2>2. SerialsOK' /\ FirstBacked' /\ RecordsAgree' /\ AppliedOnce'
    BY <1>2 DEF ReviewInv, SerialsOK, FirstBacked, RecordsAgree, AppliedOnce, AppliedAs, Ids, vars
  <2>3. DecisionsTraced'
    BY <1>2 DEF ReviewInv, DecisionsTraced, DecisionTraced, Traced, Owes, Ids, vars
  <2>5. SecondEyes'
    <3>1. SecondEyes /\ proposals' = proposals /\ applied' = applied /\ acts' = acts
      BY <1>2 DEF ReviewInv, vars
    <3> QED
      BY <3>1 DEF SecondEyes, Ids
  <2>4. \A t \in Tasks : TaskOK(t)'
    BY <1>2 DEF ReviewInv, TaskOK, Ids, vars
  <2> QED
    BY <2>1, <2>2, <2>3, <2>4, <2>5 DEF ReviewInv
<1> QED
  BY <1>1, <1>2

\* The inductive invariant holds in every behaviour.
LEMMA ReviewInvariant == Spec => [](TypeOK /\ ReviewInv)
  BY ReviewInit, ReviewNext, PTL DEF Spec

\* Every variable keeps its type, whatever verbs, filings and erasures interleave.
THEOREM ReviewTypeCorrect == Spec => []TypeOK
  BY ReviewInvariant, PTL

\* What approve_proposal put into effect is what the caller's digest was of and
\* what the decided row says, once, unless a forget has scrubbed the row.
THEOREM AppliedOnceHolds == Spec => []AppliedOnce
<1>1. ReviewInv => AppliedOnce
  BY DEF ReviewInv
<1> QED
  BY <1>1, ReviewInvariant, PTL

\* With BRAIN_APPROVAL_QUORUM=2 what quorum_gate lets through has the approvals of
\* two principals under its id, the last of them of the bytes put into effect.
THEOREM SecondEyesHolds == Spec => []SecondEyes
<1>1. ReviewInv => SecondEyes
  BY DEF ReviewInv
<1> QED
  BY <1>1, ReviewInvariant, PTL

\* The decision log and the table agree, and a decision without a record is one
\* that a running request owes or that was lost.
THEOREM EvidencedHolds == Spec => []Evidenced
<1>1. ReviewInv => Evidenced
  BY DEF ReviewInv, Evidenced, RecordsAgree, DecisionsTraced, DecisionTraced
<1> QED
  BY <1>1, ReviewInvariant, PTL

\* No step changes a row that has been decided, except for the marker that a
\* forget puts in place of its bytes: the status fence of every verb.
THEOREM DecisionFinalHolds == Spec => DecisionFinal
<1>1. TypeOK /\ ReviewInv /\ [Next]_vars =>
        [\A id \in Ids :
            (proposals[id].status # "pending" /\ id \in DOMAIN proposals'
               /\ proposals'[id].serial = proposals[id].serial)
            => DecidedRowMoves(proposals[id], proposals'[id])]_vars
  <2> SUFFICES ASSUME TypeOK, ReviewInv, Next, NEW id \in Ids,
                      proposals[id].status # "pending", id \in DOMAIN proposals'
               PROVE  DecidedRowMoves(proposals[id], proposals'[id])
    OBVIOUS
  <2>1. RowsMove
    BY NextRows DEF ReviewInv
  <2> QED
    BY <2>1 DEF RowsMove, Stays, IsNew, Ids
<1> QED
  BY <1>1, ReviewInvariant, PTL DEF Spec, DecisionFinal
=============================================================================
