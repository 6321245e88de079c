----------------------------- MODULE AuditChain -----------------------------
(***************************************************************************)
(* The append-only audit log of one SQLite database (src/audit/mod.rs): a  *)
(* hash chain of rows, the epoch stamp that says how its links are         *)
(* computed, and the two pins that anchor its first and its last row.      *)
(*                                                                         *)
(* One action is one committed transaction, or one read of the committed   *)
(* database by a connection in autocommit mode.  A handler that reads in   *)
(* one statement and writes in a later one is therefore several actions,   *)
(* with what it read kept in the state of its task in between.             *)
(***************************************************************************)
EXTENDS Integers, FiniteSets

CONSTANTS
    Tasks,        \* the connections that run prune_audit_retention
    Seeds,        \* the databases the program may find when it starts
    Retention,    \* BRAIN_AUDIT_RETENTION_DAYS, in ticks of the clock
    MaxId,        \* bound: the largest row id
    MaxTime,      \* bound: the largest clock value
    MaxCrashes,   \* bound: the process kills of a behaviour
    ClockSteps,   \* may the wall clock be set back?
    ReAudit,      \* may the operator run the offline --re-audit?
    Tracing,      \* do read requests store replay traces?
    Watching      \* does the chain watcher run?

ASSUME ConstantsAssumption ==
    /\ Retention \in Nat /\ MaxId \in Nat /\ MaxTime \in Nat /\ MaxCrashes \in Nat
    /\ ClockSteps \in BOOLEAN /\ ReAudit \in BOOLEAN
    /\ Tracing \in BOOLEAN /\ Watching \in BOOLEAN
    /\ IsFiniteSet(Tasks)

(***************************************************************************)
(* A link hash is modelled by what it commits: the set of the (scheme, row)*)
(* pairs folded into it, so two hashes are equal exactly when they were    *)
(* computed under the same scheme over the same rows.  A row is named by   *)
(* its id, which AUTOINCREMENT never hands out twice.  The SQL NULL of a   *)
(* row without a back-reference is the hash that commits nothing, which is *)
(* also how the link functions read it (NULL is hashed as "").             *)
(***************************************************************************)
NULL == {}

Link(scheme, i, prev) == prev \cup {<<scheme, i>>}

Unstamped == "unstamped"
Schemes   == {"legacy", "sha7", "hmac256"}
Hash      == SUBSET (Schemes \X Nat)
Kinds     == {"event", "retention", "anchor"}
Row       == [ts : Nat, kind : Kinds, prev : Hash]
IsTable(t) == DOMAIN t \subseteq Nat /\ t \in [DOMAIN t -> Row]
Empty     == [i \in {} |-> 0]

NoPin == [id |-> 0, hash |-> NULL, epoch |-> Unstamped, mac |-> FALSE]
Pin   == [id : Nat, hash : Hash, epoch : Schemes \cup {Unstamped}, mac : BOOLEAN]

\* A MAC is computed over the pin's own fields with the process key, so the
\* only thing to know of one is whether the pin carries it.
PinFor(scheme, t, i) ==
    [id    |-> i,
     hash  |-> Link(scheme, i, t[i].prev),
     epoch |-> scheme,
     mac   |-> scheme = "hmac256"]

VARIABLES
    rows,       \* audit_events: row id -> row
    nextId,     \* sqlite_sequence: the id of the next row
    epoch,      \* schema_meta.audit_chain_epoch, or Unstamped
    head,       \* schema_meta.audit_chain_head
    genesis,    \* schema_meta.audit_chain_genesis
    traces,     \* recall_traces: the audit row ids that have a trace
    now,        \* the wall clock behind CURRENT_TIMESTAMP
    keyed,      \* does the process hold the chain key?
    untraced,   \* rows written by record_read_event, trace not yet inserted
    task,       \* where each pruning task is, and what it has read
    watch,      \* the chain watcher: its snapshot and its last verdict
    reaudit,    \* the offline re-anchor: where it is, and what it has read
    crashes,    \* process kills so far
    deleted     \* history: the rows the transaction of each prune deleted

db      == <<rows, nextId, epoch, head, genesis>>
vars    == <<rows, nextId, epoch, head, genesis, traces, now, keyed, untraced,
             task, watch, reaudit, crashes, deleted>>

-----------------------------------------------------------------------------
(* Reading the chain *)

IsTip(t, i)   == i \in DOMAIN t /\ \A k \in DOMAIN t : k <= i
IsFirst(t, i) == i \in DOMAIN t /\ \A k \in DOMAIN t : i <= k

Adjacent(S, p, i) == p \in S /\ i \in S /\ p < i /\ ~ \E k \in S : p < k /\ k < i

\* A database with no stamp is read as legacy.
read_epoch(e) == IF e = Unstamped THEN "legacy" ELSE e

\* The scheme is None exactly on a keyed chain whose key is not at hand.
CanCompute(e, key) == read_epoch(e) = "hmac256" => key

\* The walk: a row without a back-reference is legal only before the first
\* row that has one, and a back-reference is the link of the row before it.
Walk(scheme, t) ==
    \A p, i \in DOMAIN t :
        Adjacent(DOMAIN t, p, i) =>
            IF t[i].prev = NULL
              THEN t[p].prev = NULL
              ELSE t[i].prev = Link(scheme, p, t[p].prev)

PinsPresent(scheme, t, h, g) ==
    scheme = "hmac256" =>
        /\ DOMAIN t # {} => h # NoPin /\ g # NoPin
        /\ h # NoPin => h.mac
        /\ g # NoPin => g.mac

GenesisMatches(scheme, t, g) ==
    g # NoPin => /\ IsFirst(t, g.id)
                 /\ g.hash = Link(scheme, g.id, t[g.id].prev)

HeadMatches(scheme, t, h) ==
    h # NoPin => /\ IsTip(t, h.id)
                 /\ h.hash = Link(scheme, h.id, t[h.id].prev)

verify_chain_inner(e, t, h, g, requireMacs) ==
    LET scheme == read_epoch(e)
    IN  /\ Walk(scheme, t)
        /\ requireMacs => PinsPresent(scheme, t, h, g)
        /\ GenesisMatches(scheme, t, g)
        /\ HeadMatches(scheme, t, h)

verify_chain(key) ==
    CanCompute(epoch, key) /\ verify_chain_inner(epoch, rows, head, genesis, TRUE)

-----------------------------------------------------------------------------
(* Writing the chain *)

\* Mutant: only the head pin is refreshed.
RefreshPins_HeadOnly(scheme, t) ==
    /\ \/ DOMAIN t = {} /\ head' = NoPin
       \/ \E tip \in DOMAIN t : IsTip(t, tip) /\ head' = PinFor(scheme, t, tip)
    /\ UNCHANGED genesis

\* refresh_head_pin: both pins from the current extent, none on an empty chain.
RefreshPins(scheme, t) ==
    \/ /\ DOMAIN t = {}
       /\ head' = NoPin
       /\ genesis' = NoPin
    \/ \E tip, first \in DOMAIN t :
         /\ IsTip(t, tip)
         /\ IsFirst(t, first)
         /\ head' = PinFor(scheme, t, tip)
         /\ genesis' = PinFor(scheme, t, first)

\* record_tenant_checked: the epoch, the tip, the new row and its pins are
\* read and written in one IMMEDIATE transaction.  The first row of an
\* unstamped database chooses sha7 and stamps it.
Append(kind) ==
    LET isFirst == DOMAIN rows = {}
        scheme  == IF epoch = Unstamped /\ isFirst THEN "sha7" ELSE read_epoch(epoch)
        row(p)  == [ts |-> now, kind |-> kind, prev |-> p]
        grown(p) == [i \in DOMAIN rows \cup {nextId} |->
                        IF i = nextId THEN row(p) ELSE rows[i]]
    IN  /\ scheme = "hmac256" => keyed
        /\ epoch' = IF epoch = Unstamped /\ isFirst THEN "sha7" ELSE epoch
        /\ nextId' = nextId + 1
        /\ \/ /\ isFirst
              /\ rows' = grown(NULL)
              /\ head' = PinFor(scheme, rows', nextId)
              /\ genesis' = PinFor(scheme, rows', nextId)
           \/ /\ \E tip \in DOMAIN rows :
                   /\ IsTip(rows, tip)
                   /\ rows' = grown(Link(scheme, tip, rows[tip].prev))
              /\ head' = PinFor(scheme, rows', nextId)
              /\ UNCHANGED genesis

\* The re-link shared by the prune and the re-anchor: over the rows S of t in
\* id order, the first row and every row that had no back-reference keep
\* NULL, every other row gets the link of its new predecessor.  The link of a
\* row commits every row back to the nearest one with a NULL back-reference.
Origin(t, S, i) == t[i].prev = NULL \/ \A k \in S : i <= k

Relink(scheme, t, S) ==
    [i \in S |->
        [t[i] EXCEPT !.prev =
            IF Origin(t, S, i)
              THEN NULL
              ELSE {<<scheme, j>> : j \in {j \in S :
                       /\ j < i
                       /\ \A k \in S : j < k /\ k < i => ~ Origin(t, S, k)}}]]
-----------------------------------------------------------------------------
(* The server: requests that write audit rows *)

Idle == [pc |-> "idle", cutoff |-> 0, expired |-> 0, scheme |-> "legacy"]
Busy == {k \in Tasks : task[k] # Idle}

\* The server serves while no re-anchor runs: --re-audit runs instead of
\* serving, with writes quiesced by the operator protocol.
Serving == reaudit.pc = "off"

\* Bound: leave an id for the evidence row of every prune under way.
Room == nextId + Cardinality(Busy) <= MaxId

\* record_tenant: any audited request.
record_tenant ==
    /\ Serving /\ Room
    /\ Append("event")
    /\ UNCHANGED <<traces, now, keyed, untraced, task, watch, reaudit, crashes, deleted>>

\* record_read_event: the audit row commits first, its replay trace is a
\* second statement of its own.
record_read_event ==
    /\ Tracing
    /\ Serving /\ Room
    /\ Append("event")
    /\ untraced' = untraced \cup {nextId}
    /\ UNCHANGED <<traces, now, keyed, task, watch, reaudit, crashes, deleted>>

InsertTrace(i) ==
    /\ i \in untraced
    /\ traces' = traces \cup {i}
    /\ untraced' = untraced \ {i}
    /\ UNCHANGED <<db, now, keyed, task, watch, reaudit, crashes, deleted>>

-----------------------------------------------------------------------------
(* prune_audit_retention, step by step *)

\* Mutant: a row is expired a tick early.
Expired_Inclusive(t, cutoff) == {i \in DOMAIN t : t[i].ts <= cutoff}

Expired(t, cutoff) == {i \in DOMAIN t : t[i].ts < cutoff}

\* The cutoff and the COUNT of expired rows; nothing to do ends the prune.
PruneCount(k) ==
    /\ Serving /\ Room
    /\ task[k] = Idle
    /\ Expired(rows, now - Retention) # {}
    /\ task' = [task EXCEPT ![k] =
                   [pc |-> "counted", cutoff |-> now - Retention,
                    expired |-> Cardinality(Expired(rows, now - Retention)),
                    scheme |-> "legacy"]]
    /\ UNCHANGED <<db, traces, now, keyed, untraced, watch, reaudit, crashes, deleted>>

\* current_scheme: the epoch the re-anchor will recompute the links under.
PruneScheme(k) ==
    /\ task[k].pc = "counted"
    /\ task' = [task EXCEPT ![k] =
                   IF CanCompute(epoch, keyed)
                     THEN [@ EXCEPT !.pc = "schemed", !.scheme = read_epoch(epoch)]
                     ELSE Idle]
    /\ UNCHANGED <<db, traces, now, keyed, untraced, watch, reaudit, crashes, deleted>>

\* Verify before prune, in a read snapshot of its own.
PruneVerify(k) ==
    /\ task[k].pc = "schemed"
    /\ task' = [task EXCEPT ![k] = IF verify_chain(keyed) THEN [@ EXCEPT !.pc = "verified"]
                                                         ELSE Idle]
    /\ UNCHANGED <<db, traces, now, keyed, untraced, watch, reaudit, crashes, deleted>>

\* Mutant: the DELETE uses <= where the COUNT used <.
PruneTx_Inclusive(k) ==
    LET gone == {i \in DOMAIN rows : rows[i].ts <= task[k].cutoff}
    IN  /\ task[k].pc = "verified"
        /\ rows' = Relink(task[k].scheme, rows, DOMAIN rows \ gone)
        /\ RefreshPins(task[k].scheme, rows')
        /\ traces' = traces \cap (DOMAIN rows \ gone)
        /\ deleted' = [deleted EXCEPT ![k] = Cardinality(gone)]
        /\ task' = [task EXCEPT ![k].pc = "committed"]
        /\ UNCHANGED <<nextId, epoch, now, keyed, untraced, watch, reaudit, crashes>>

\* Mutant: the traces of the deleted rows stay.
PruneTx_NoSweep(k) ==
    LET gone == Expired(rows, task[k].cutoff)
    IN  /\ task[k].pc = "verified"
        /\ rows' = Relink(task[k].scheme, rows, DOMAIN rows \ gone)
        /\ RefreshPins(task[k].scheme, rows')
        /\ deleted' = [deleted EXCEPT ![k] = Cardinality(gone)]
        /\ task' = [task EXCEPT ![k].pc = "committed"]
        /\ UNCHANGED <<nextId, epoch, traces, now, keyed, untraced, watch, reaudit, crashes>>

\* The IMMEDIATE transaction: delete, re-link the survivors, refresh the
\* pins, sweep the traces of deleted rows.
PruneTx(k) ==
    LET gone == Expired(rows, task[k].cutoff)
    IN  /\ task[k].pc = "verified"
        /\ rows' = Relink(task[k].scheme, rows, DOMAIN rows \ gone)
        /\ RefreshPins(task[k].scheme, rows')
        /\ traces' = traces \cap (DOMAIN rows \ gone)
        /\ deleted' = [deleted EXCEPT ![k] = Cardinality(gone)]
        /\ task' = [task EXCEPT ![k].pc = "committed"]
        /\ UNCHANGED <<nextId, epoch, now, keyed, untraced, watch, reaudit, crashes>>

\* A statement of the transaction, or its COMMIT, fails: it is rolled back.
PruneAbort(k) ==
    /\ task[k].pc = "verified"
    /\ task' = [task EXCEPT ![k] = Idle]
    /\ UNCHANGED <<db, traces, now, keyed, untraced, watch, reaudit, crashes, deleted>>

\* After the commit, one evidence row states the count taken in PruneCount.
PruneEvidence(k) ==
    /\ task[k].pc = "committed"
    /\ Append("retention")
    /\ deleted' = [deleted EXCEPT ![k] = 0]
    /\ task' = [task EXCEPT ![k] = Idle]
    /\ UNCHANGED <<traces, now, keyed, untraced, watch, reaudit, crashes>>

\* The evidence row is best-effort: when its write fails the count is logged.
PruneWarn(k) ==
    /\ task[k].pc = "committed"
    /\ deleted' = [deleted EXCEPT ![k] = 0]
    /\ task' = [task EXCEPT ![k] = Idle]
    /\ UNCHANGED <<db, traces, now, keyed, untraced, watch, reaudit, crashes>>

-----------------------------------------------------------------------------
(* The chain watcher of alert.rs *)

NoSnapshot == [e |-> Unstamped, t |-> Empty, h |-> NoPin, g |-> NoPin]

\* BEGIN DEFERRED fixes what the whole verification reads.
WatchBegin ==
    /\ Watching /\ Serving
    /\ watch.pc = "idle"
    /\ watch' = [watch EXCEPT !.pc = "walking",
                              !.snap = [e |-> epoch, t |-> rows, h |-> head, g |-> genesis]]
    /\ UNCHANGED <<db, traces, now, keyed, untraced, task, reaudit, crashes, deleted>>

\* Mutant: the pins are read outside the snapshot of the walk.
Verdict_LivePins(snap) ==
    CanCompute(snap.e, keyed) /\ verify_chain_inner(snap.e, snap.t, head, genesis, TRUE)

Verdict(snap) ==
    CanCompute(snap.e, keyed) /\ verify_chain_inner(snap.e, snap.t, snap.h, snap.g, TRUE)

WatchVerdict ==
    /\ watch.pc = "walking"
    /\ watch' = [pc |-> "idle", snap |-> NoSnapshot,
                 posture |-> IF Verdict(watch.snap) THEN "ok" ELSE "broken"]
    /\ UNCHANGED <<db, traces, now, keyed, untraced, task, reaudit, crashes, deleted>>

\* No connection, or no snapshot: the posture fails closed, and /health shows
\* it as it shows a broken chain, but nothing was verified.
WatchUnavailable ==
    /\ Watching /\ Serving
    /\ watch.pc = "idle"
    /\ watch' = [watch EXCEPT !.posture = "unavailable"]
    /\ UNCHANGED <<db, traces, now, keyed, untraced, task, reaudit, crashes, deleted>>

-----------------------------------------------------------------------------
(* reanchor_to_hmac, run by the offline --re-audit *)

NoReaudit == [pc |-> "off", t |-> Empty]

\* The operator stops the server: no request, prune or watcher is under way.
ReauditBegin ==
    /\ ReAudit
    /\ Serving /\ Busy = {} /\ untraced = {} /\ watch.pc = "idle"
    /\ nextId <= MaxId
    /\ keyed
    /\ reaudit' = [NoReaudit EXCEPT !.pc = "begun"]
    /\ watch' = [watch EXCEPT !.posture = "unknown"]
    /\ UNCHANGED <<db, traces, now, keyed, untraced, task, crashes, deleted>>

\* A chain that does not verify is refused; a keyed one only has its pins
\* refreshed; any other has its rows collected before the transaction begins.
ReauditVerify ==
    /\ reaudit.pc = "begun"
    /\ \/ /\ ~ verify_chain(keyed)
          /\ reaudit' = NoReaudit
          /\ UNCHANGED <<head, genesis>>
       \/ /\ verify_chain(keyed) /\ read_epoch(epoch) = "hmac256"
          /\ RefreshPins("hmac256", rows)
          /\ reaudit' = [reaudit EXCEPT !.pc = "replayed"]
       \/ /\ verify_chain(keyed) /\ read_epoch(epoch) # "hmac256"
          /\ reaudit' = [pc |-> "collected", t |-> rows]
          /\ UNCHANGED <<head, genesis>>
    /\ UNCHANGED <<rows, nextId, epoch, traces, now, keyed, untraced, task, watch,
                   crashes, deleted>>

\* Links, epoch stamp and pins change in one transaction.  The first row keeps
\* no back-reference: the replay has no link to give it.
ReauditTx ==
    LET relinked == Relink("hmac256", reaudit.t, DOMAIN reaudit.t)
    IN  /\ reaudit.pc = "collected"
        /\ rows' = [i \in DOMAIN rows |->
                       IF i \in DOMAIN reaudit.t
                         THEN [rows[i] EXCEPT !.prev = relinked[i].prev]
                         ELSE rows[i]]
        /\ epoch' = "hmac256"
        /\ RefreshPins("hmac256", rows')
        /\ reaudit' = [NoReaudit EXCEPT !.pc = "replayed"]
        /\ UNCHANGED <<nextId, traces, now, keyed, untraced, task, watch, crashes, deleted>>

\* The post-condition check and the Anchor evidence row; then the operator
\* may start the server again.
ReauditAnchor ==
    /\ reaudit.pc = "replayed"
    /\ IF verify_chain(keyed) THEN Append("anchor") ELSE UNCHANGED db
    /\ reaudit' = NoReaudit
    /\ UNCHANGED <<traces, now, keyed, untraced, task, watch, crashes, deleted>>

\* The transaction is rolled back, or the Anchor row cannot be written: the
\* command reports the failure and ends.
ReauditAbort ==
    /\ reaudit.pc \in {"collected", "replayed"}
    /\ reaudit' = NoReaudit
    /\ UNCHANGED <<db, traces, now, keyed, untraced, task, watch, crashes, deleted>>

-----------------------------------------------------------------------------
(* The environment *)

\* A trace is inserted by the request that wrote its row, so long before the
\* row could expire.
Tick ==
    /\ now < MaxTime
    /\ \A i \in untraced \cap DOMAIN rows : rows[i].ts >= now + 1 - Retention
    /\ now' = now + 1
    /\ UNCHANGED <<db, traces, keyed, untraced, task, watch, reaudit, crashes, deleted>>

ClockSetBack ==
    /\ ClockSteps
    /\ now > 0
    /\ now' = now - 1
    /\ UNCHANGED <<db, traces, keyed, untraced, task, watch, reaudit, crashes, deleted>>

\* The process is killed: what is not committed is gone.  The next start may
\* or may not find the key.
Crash ==
    /\ crashes < MaxCrashes
    /\ crashes' = crashes + 1
    /\ task' = [k \in Tasks |-> Idle]
    /\ untraced' = {}
    /\ watch' = [pc |-> "idle", snap |-> NoSnapshot, posture |-> "unknown"]
    /\ reaudit' = NoReaudit
    /\ keyed' \in BOOLEAN
    /\ deleted' = [k \in Tasks |-> 0]
    /\ UNCHANGED <<db, traces, now>>

-----------------------------------------------------------------------------
InitFrom(seed) ==
    /\ rows = seed.rows
    /\ nextId = seed.nextId
    /\ epoch = seed.epoch
    /\ head = seed.head
    /\ genesis = seed.genesis
    /\ traces = {}
    /\ now = 1
    /\ keyed \in BOOLEAN
    /\ untraced = {}
    /\ task = [k \in Tasks |-> Idle]
    /\ watch = [pc |-> "idle", snap |-> NoSnapshot, posture |-> "unknown"]
    /\ reaudit = NoReaudit
    /\ crashes = 0
    /\ deleted = [k \in Tasks |-> 0]

Init == \E seed \in Seeds : InitFrom(seed)

Next ==
    \/ record_tenant
    \/ record_read_event
    \/ \E i \in untraced : InsertTrace(i)
    \/ \E k \in Tasks :
         \/ PruneCount(k) \/ PruneScheme(k) \/ PruneVerify(k) \/ PruneTx(k)
         \/ PruneAbort(k) \/ PruneEvidence(k) \/ PruneWarn(k)
    \/ WatchBegin \/ WatchVerdict \/ WatchUnavailable
    \/ ReauditBegin \/ ReauditVerify \/ ReauditTx \/ ReauditAnchor
    \/ ReauditAbort
    \/ Tick \/ ClockSetBack \/ Crash

Spec == Init /\ [][Next]_vars

-----------------------------------------------------------------------------
(* Properties *)

\* Every variable has its type.
TypeOK ==
    /\ IsTable(rows) /\ nextId \in Nat \ {0} /\ DOMAIN rows \subseteq 1 .. (nextId - 1)
    /\ epoch \in Schemes \cup {Unstamped}
    /\ head \in Pin /\ genesis \in Pin
    /\ traces \subseteq 1 .. (nextId - 1) /\ untraced \subseteq 1 .. (nextId - 1)
    /\ now \in Nat /\ keyed \in BOOLEAN /\ crashes \in Nat
    /\ task \in [Tasks -> [pc : {"idle", "counted", "schemed", "verified", "committed"},
                           cutoff : Int, expired : Nat, scheme : Schemes]]
    /\ watch = [pc |-> watch.pc, snap |-> watch.snap, posture |-> watch.posture]
    /\ watch.pc \in {"idle", "walking"} /\ watch.posture \in {"unknown", "ok", "broken", "unavailable"}
    /\ reaudit = [pc |-> reaudit.pc, t |-> reaudit.t] /\ IsTable(reaudit.t)
    /\ reaudit.pc \in {"off", "begun", "collected", "replayed"}
    /\ deleted \in [Tasks -> Nat]

\* Whatever interleaving of appends, prunes, re-anchors, kills and clock
\* changes led here, the committed chain verifies for a process that holds
\* the key: links, NULL prefix, genesis pin, head pin and pin MACs agree.
ChainVerifies == verify_chain(TRUE)

\* A verification finds the chain broken only when it cannot compute the links:
\* the watcher's walk, racing appends and prunes, never raises a false alarm.
NoFalseAlarm == watch.posture = "broken" => epoch = "hmac256" /\ ~ keyed

\* The deletion of evidence is never understated: a prune that has committed
\* and is about to write or log its count has deleted no more rows than it
\* counted, whatever other prunes, appends and re-anchors committed between its
\* COUNT and its transaction.
DeletionsCounted ==
    \A k \in Tasks : task[k].pc = "committed" => deleted[k] <= task[k].expired

\* The prune sweeps the replay traces of the rows it deletes, and no request
\* leaves a trace behind for a row that is already gone.
NoOrphanTrace == traces \subseteq DOMAIN rows

\* The abstract log, read off the table: the content without the links.
Content == [i \in DOMAIN rows |-> [ts |-> rows[i].ts, kind |-> rows[i].kind]]
Log == INSTANCE AuditLog WITH log <- Content, next <- nextId, clock <- now

\* The detailed chain implements the abstract log: whatever the links and the
\* pins go through, rows are only appended and only expired rows leave.
ImplementsLog == Log!LogSpec

-----------------------------------------------------------------------------
(* The inductive invariant behind ChainVerifies *)

\* Rows without a back-reference come before all rows that have one.
NullPrefix(t) == \A p, i \in DOMAIN t : p < i /\ t[i].prev = NULL => t[p].prev = NULL

\* Pins that describe exactly the first and the last row.
PinsExact(e, t, h, g) ==
    \/ DOMAIN t = {} /\ h = NoPin /\ g = NoPin
    \/ \E tip, first \in DOMAIN t :
         /\ IsTip(t, tip) /\ IsFirst(t, first)
         /\ h = PinFor(e, t, tip) /\ g = PinFor(e, t, first)

\* A chain in the format its stamp says: no rows, or a stamp.
SoundDb(e, t, h, g) ==
    /\ e = Unstamped => DOMAIN t = {}
    /\ NullPrefix(t)
    /\ Walk(read_epoch(e), t)
    /\ PinsExact(e, t, h, g)

\* Any database at all: a table below its sequence, a stamp or none, two pins.
TypedSeed(seed) ==
    /\ IsTable(seed.rows) /\ seed.nextId \in Nat \ {0}
    /\ DOMAIN seed.rows \subseteq 1 .. (seed.nextId - 1)
    /\ seed.epoch \in Schemes \cup {Unstamped}
    /\ seed.head \in Pin /\ seed.genesis \in Pin

TypedSeeds == \A seed \in Seeds : TypedSeed(seed)

\* The databases ChainVerifies is proved from: every stamped chain with its
\* pins, and the unstamped one with no rows.  (From an unstamped chain with
\* rows it does not hold: two prunes can then break it.)
StampedSeed(seed) ==
    /\ TypedSeed(seed)
    /\ SoundDb(seed.epoch, seed.rows, seed.head, seed.genesis)

StampedSeeds == \A seed \in Seeds : StampedSeed(seed)

\* A prune under way holds the scheme of the chain it is about to re-link,
\* and none is under way while the re-anchor replaces that scheme.
TasksCurrent ==
    \A k \in Tasks :
        /\ task[k] # Idle => epoch # Unstamped /\ reaudit.pc = "off"
        /\ task[k].pc \in {"schemed", "verified"} => task[k].scheme = epoch

\* What the re-anchor collected is what it replays.
ReauditCurrent == reaudit.pc = "collected" => reaudit.t = rows

ChainInv ==
    /\ SoundDb(epoch, rows, head, genesis)
    /\ TasksCurrent
    /\ ReauditCurrent

-----------------------------------------------------------------------------
(* The inductive invariants behind the other properties *)

\* What the watcher walks is a sound chain of its own, and a keyed one only
\* when the committed chain is keyed: the stamp is never taken back.
WatchCurrent ==
    watch.pc = "walking" =>
        LET s == watch.snap
        IN  /\ IsTable(s.t) /\ s.e \in Schemes \cup {Unstamped}
            /\ SoundDb(s.e, s.t, s.h, s.g)
            /\ s.e = "hmac256" => epoch = "hmac256"

\* The cutoff of a prune under way is a whole window back, or more.
CutoffsPast == \A k \in Tasks : task[k] # Idle => task[k].cutoff \in 0 .. now - Retention

\* A read whose trace is still to be inserted wrote a row no cutoff reaches.
UntracedKept == \A i \in untraced : i \in DOMAIN rows /\ rows[i].ts >= now - Retention

\* The rows a prune counted are all it will delete: nothing older than its
\* cutoff is appended, and another prune only takes some of them away.
CountsCover ==
    \A k \in Tasks :
        task[k].pc \in {"counted", "schemed", "verified"} =>
            Cardinality(Expired(rows, task[k].cutoff)) <= task[k].expired

-----------------------------------------------------------------------------
\* audit/mod.rs, prune_audit_retention: "Returns the number pruned."  It may return,
\* and record, more: of two prunes that counted the same rows, one deletes them.
DeletionsExact ==
    \A k \in Tasks : task[k].pc = "committed" => deleted[k] = task[k].expired
=============================================================================
