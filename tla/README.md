# A TLA+ model of brain-server (StewardMem)

brain-server is a self-hosted memory server for AI agents: an Axum server over
SQLite databases, one per *domain*, with a tamper-evident audit log, governed
workflow runs, and a live event feed that a desktop client follows. This
directory models the parts of it where concurrency, crashes and ordering decide
whether it is correct. TLC checks the models on small instances; TLAPS proves
the main safety results for every instance.

Paths below are those of the repository (`src/audit/mod.rs`); `PROJECT.json`
has the line ranges of every definition, the runs, the hazards and the findings.

## 1. Inventory

| Component | State it keeps | Operations | What is hard | What makes it correct |
|---|---|---|---|---|
| Audit chain (`audit/mod.rs`) | `audit_events` rows linked by hashes; epoch stamp; head and genesis pin; `recall_traces` | `record*`, `prune_audit_retention`, `verify_chain`, `reanchor_to_hmac` | a prune reads in several statements before its transaction; several prunes and appends at once; kills; the clock | the committed chain always verifies; only expired rows go, and no fewer are put on record |
| Chain start-up (`migration.rs`, `server/bootstrap.rs`, `bin/brain.rs`) | the same | migration pin stamp, `bootstrap_epoch`, `upgrade_pins` | none of the three is a transaction; CLI and server open one file | after a start the chain verifies |
| Chain watcher (`alert.rs`) | last posture | periodic `verify_chain` | verification races writers | no false alarm |
| Workflow outbox and host (`workflow/{outbox,host,state}.rs`) | `outbox` rows, run revisions, the host's lane | units of work, enqueue, `cas`, settlements, steering inbox, `deliver` | calls join another caller's open unit; retries; uncertain COMMITs; bounded inbox with foreign keys; erasures of whole runs | receipts are durable; lineage is a forest within a run; nothing else is deleted and no id reused; audit rows beside their writes |
| Event feed (`alert.rs`, `sse_reauth.rs`, `client/src/{main,api}.rs`) | row status, broadcast bus, connection, client cursor | drain pass, publish, subscribe, replay, reconnect | deliver-then-publish; bounded bus and batch; reconnects; several id sequences | no event is silently skipped; every event is delivered in the end |
| Review and quorum gate (`handlers/gate.rs`, `service/{gate,review}.rs`) | proposals; the markers of first approvals on the audit chain; promoted chunks | propose, approve (one branch per kind), reject, edit, expire, the Signal lane, erase, forget | every verb reads before its transaction and records after it; edits, expiry and scrubs race approvals; ids are reused | a decision is final; what was put into effect is what was approved, once, after the quorum; it has its own record |
| Session log, agent loop (`workflow/session_log.rs`, `agentloop/`) | claim, invocations, exchanges, tool intents and results, all rows of one log | claim, begin, admit, turn, tool, receipt, release; delegate | no lease; futures dropped with their transaction queued; tools that outlive their waiter; retries by key | one driver; no effect twice for a key; an outcome never changes |
| Webhook queue (`webhook.rs`, `handlers/webhooks.rs`) | queue, replay claims | enqueue, claim and act, evict, drain | four commits per enqueue; eviction by a count; statements that fail open; kills | bounded; no delivery acted on twice; none lost but in the worker's hands |
| Delivery (`workflow/delivery*.rs`, `releases.rs`, `crates/brain-delivery-core`) | intents, releases, attestations | mint, promote, drain | retries against remote systems | one effect per intent |
| Standby, backup (`standby.rs`, `backup.rs`) | base and checksum, WAL chunks, manifest and signature | ship cycle, verify, promote | four kinds of file replaced one by one; the source commits, checkpoints and drops its log meanwhile; promotion reads beside the shipper | an accepted follower is one cycle's; what is promoted is not older than the cycle accepted; a torn one heals |
| Desktop client's queue (`client/src/{queue,replay,main}.rs`, `panels/review.rs`) | the review list, saved queue, the banner's rows, connection state | approve, queue a failed write, replay, review parked ones | the outcome of a failed call is unknown; a request outlives its timeout; edits and list refreshes meanwhile; reloads | no approval of bytes never shown, no erasure repeated, no decision forgotten |
| Channels, relay, mesh, crew, valet, kcs, scheduler | rows over the outbox | case flows | order of offers and answers | one decision per offer |
| DSAR, purge, retention, legal hold | many tables | erase, certify | breadth rather than interleaving | nothing held is erased |
| Registry, auth, search, ingest, config, router, CLIs, connectors, the client's other panels | caches, settings | stateless or numeric | little | see §7 |

How they interact: every audited operation calls the audit chain, in its own
transaction or as a savepoint of the caller's; the workflow handlers and engines
write the outbox; the drain worker reads it and publishes to the bus; clients
follow the bus and backfill from the outbox, and send decisions and erasures, again
if they have to. A webhook delivery may decide a
proposal (the Signal lane of `Review`), and an agent-loop call works on a run whose
revisions and lineage the outbox keeps. All of it shares SQLite's single write
lock per database; the shipper copies the files underneath.

## 2. Modules

| Module | Models | Uses |
|---|---|---|
| `AuditChain` | the chain of one database, prunes, watcher, re-anchor, kills, clock; its refinement mapping to `AuditLog` | `AuditLog` |
| `AuditLog` | what the log promises: append, and trim what expired | |
| `MCAuditChain` | starting databases | `AuditChain` |
| `AuditBoot` | server and CLI start-up over the same database | `AuditChain` |
| `MCAuditBoot` | the databases a start may find | `AuditBoot` |
| `AuditChainProofs` | theorems about `AuditChain` and `AuditBoot` | `AuditBoot`, TLAPS |
| `Outbox` | outbox, run revisions, host lane | |
| `MCOutbox` | symmetry sets | `Outbox` |
| `OutboxProofs` | theorems about `Outbox` | `Outbox`, TLAPS |
| `EventFeed` | drain worker, bus, replay, client cursor, per-domain ids | |
| `Review`, `MCReview` | proposals, quorum, expiry, Signal lane; symmetry | |
| `WebhookQueue`, `MCWebhookQueue` | queue, claims, eviction, drain worker; two old claims | |
| `AgentLoop`, `MCAgentLoop` | one run, its log, the calls and tools on it; symmetry | |
| `Standby` | source, shipper and follower directory | |
| `ClientQueue` | the client's offline queue, banner and probe, a lossy wire, the server's decisions | |
| `ReviewProofs`, `WebhookQueueProofs`, `AgentLoopProofs`, `StandbyProofs`, `ClientQueueProofs`, `EventFeedProofs` | theorems about the six | the module named, TLAPS |

`X_Something` beside a definition `X`, commented "Mutant", is the definition
changed the way a plausible bug would change it. It is used in no specification;
it exists to show that a property can fail.

### AuditChain

State: the table (`rows`), SQLite's sequence, the epoch stamp, both pins, the
traces, the clock and whether the process has the key; and, for every multi-step
operation, where it is and what it has read. One action is one committed
transaction or one read in autocommit mode, so `prune_audit_retention` is
`PruneCount`, `PruneScheme`, `PruneVerify`, `PruneTx` (or `PruneAbort`),
`PruneEvidence` (or `PruneWarn`), in the order of the code; anything may happen
between two of them, a kill included.

A hash is modelled by the set of (scheme, row) pairs it commits, which is what
collision resistance gives. A MAC is the fact that a pin carries one. Expiry is
`ts < cutoff` on a clock of a few ticks.

`deleted` is a history variable: the rows a prune's transaction has deleted, until
its count is on an evidence row or, if that write fails, in the log.

### AuditBoot

Adds processes that open the file. A server runs the migration's two pin
stamps, `bootstrap_epoch` and `upgrade_pins`; a CLI only `upgrade_pins`. Reads and
the writes they decide are separate steps. `UpgradeBegin` takes the adjacent
reads at the head of `upgrade_pins` (scheme, first row, both pins) together. Once
up, a server takes the steps of `AuditChain` (`Serve`), but for the re-anchor, which
is a command run instead of a server, and for its kill, which is `Kill` here. A
process started after the last one ended may or may not find the key.

### Outbox

`db` is the committed database, `work` what the open unit of work sees, `lane`
the host's `Lane`. While a unit is open it holds the write lock
(`BEGIN IMMEDIATE`), so writers on other connections are disabled (`Unlocked`).
Calls on the host join the open unit or run in a transaction of their own
(`enqueue_with_parent`, through `scoped_tx`), or statement by statement (`cas`,
through `scoped`; `deliver`): then the audit row is still in `tail` and a kill
may lose it. `enqueue_settlement` and `audit_settlement` never join a unit.
`FinishIndeterminate` and the `Faults` disjuncts are COMMITs of unknown outcome.
`sweep_subject` is the erasure of a data subject as the outbox sees it: any set of
runs goes, with all rows of theirs, in a transaction of its own; which runs mention
the subject and which a legal hold keeps is a choice.

`acks` and `sealed` are history variables: receipts the host has given (of runs not
erased). `swept` are the runs an erasure has deleted; a `cas` on one finds no row.
A call that joins a unit gets no receipt: it goes with the unit, as its contract says.

The check of the lane and the transaction of a call outside a unit are one step:
the code drops the lane's guard in between, but a unit opened there only makes
the call wait for, or fail on, the write lock.

### EventFeed

Events are `<<domain, id>>`; ids count from 1 in each domain's database. The
worker goes domain by domain, row by row: deliver, then publish, with a kill
possible in between. A subscription first joins the bus, then replays stored
rows past the cursor domain by domain, then streams. The client keeps one
cursor, the largest id it has seen, as `client/src/main.rs` does. A bus receiver
too far behind loses the oldest events. The replay reads one batch; a domain
without a connection, or whose query fails, replays nothing and the stream opens
all the same (`ReplayError`).

`late` and `skipped` are history: events whose delivery failed once, and events the
bus dropped or the last replay to look left out (a later replay that gives an event
takes it out again).

### Review

A request is `Begin` (the read of the row and of the clock, outside a
transaction), then perhaps `expire_if_stale` and its record, or one transaction,
then the record after the COMMIT. The transaction of `approve_proposal` is one of
several actions by what it finds: refused, first approval, same principal again,
or one of the branches. Branches that differ only in the tables they write are
one kind (`consent` stands for six, see the module's head). A digest is its
content; what a request approved is the digest it sent, not what the row holds.
`forget` deletes a chunk and, on request, scrubs every proposal with the same bytes,
decided ones too. (The code scrubs the copies it lists, up to a cap.) `serial` numbers proposals in the order they were filed, since ids are
reused: `proposals.id` is no `AUTOINCREMENT` (`migration.rs:1022`).

`acts`, `applied`, `log` and `lost` are history: approvals taken, contents put into
effect, decision rows written and lost.

### WebhookQueue

One action is one statement, since each commits by itself on a pooled
connection: count, eviction count, eviction, lookup, queue insert, claim.
`ClaimFailed` and `ActRefused` are the error returns after which what was committed
stays. `EvictFailed` and `LookFailed` are errors the code passes over: no eviction, and
a lookup that fails counts as no claim. The drain worker pops in one transaction and
records in another, whose failure it ignores. A delivery is its signed key.

`blind` are the requests whose lookup failed, `unrecorded` counts the drained
deliveries without a record.

### AgentLoop

The log (`claim`, `inv`, `exch`, `intent`, `done`, `rows`) is durable; `call` is the
control point and the locals of each call, and `running` the tools that have not
returned. Every transaction of `session_log.rs` is one action, and its guards are
operators named after its functions (`verify_owner`, `check_idle`,
`tools_quiescent`, `exchange_pending`). `TxPoints` are the points at which a
transaction is queued on the blocking pool: `Drop` there leaves the transaction
to be taken and nothing after it. `Fail` is every error return that leaves the log
alone. Whether a budget is spent is a choice.

### Standby

The source is a page file and a log of commits, as SQLite's WAL mode keeps them: it
commits, checkpoints, starts the log over, and loses the log when the last connection
closes (`LastClose`; the shipper's own `audit_backup` can be that one). What a database
or a log holds is told by the numbers of the commits in it, never by pages: `VACUUM
INTO` numbers pages anew, so frames of the source mean nothing over the base, and
what SQLite makes of the pair is not modelled. A cycle is one action per file it
reads, replaces or writes. A log that is gone or cannot be read is an empty chunk. An
artifact is identified by the attempt that sealed it: the nonce makes every hash new.
`promote_check` is a process of its own (`drill`): it verifies, restores the base and
reads the chunk in three steps, with the shipper going on between them. The reads
within `verify_follower` are one step: a cycle replaces the base first, which ends the
agreement until its own manifest is there.
`begun` is history, carried into the manifest.

### ClientQueue

The client is single-threaded: what runs between two awaits is one step, and the
queue is saved in the step that changes it. `task` holds the calls under way (of a
panel, of the replay effect, of a row of the banner), what each has left to send
and how its current call stands. A call ends in an answer or in a network error;
after an error its request may still be in `late` and be served any time.
`Handle` is the server: `Review` reduced to what a client sees of it (decided once,
by the digest of what is there), with refusals possible at any time. A click on a
page that is out of date is a click followed by the other reviewer's edit. Purges
and subject requests are both `erase`: queued alike, parked at once, repeated only
by hand. A task ends with the component that spawned it (`LeavePanel`, `LeaveList`,
`RowCancelled`); the replay effect belongs to the application and stays.

Approvals come from two places. The detail page holds its digest from the click on
(`Click`, `PanelOffline`). The list keeps one digest for each proposal (`listed`), which
a refresh replaces or empties; picking proposals (`ListPick`, by key even while writes
are frozen) and calling (`ListCall`) are separate steps, since a batch calls one after
the other and each call reads the digest when it starts; a call that fails queues the
digest it reads then (`ListOffline`). The picks of several batches are one set, so calls
of one batch may overlap in the model. A refresh is one step: it loads and renders.

`shown`, `asked`, `clicks` and `owed` are history: the approvals of bytes the client has
displayed, proposals the operator approved, erasures sent by hand, decisions queued
for replay that no answer has settled.

## 3. Runs

Passing:

| Run | Instance | Shows |
|---|---|---|
| `audit_chain` | 2 prunes, fresh and keyed databases, 4 row ids, 1 kill, clock both ways, re-anchor | `ChainVerifies` |
| `audit_retention` | 2 prunes, 1 kill, fresh, keyed and filled databases of the current release, 5 ids, traces, watcher, re-anchor | `NoFalseAlarm`, `DeletionsCounted`, `NoOrphanTrace`, `ImplementsLog` (refinement of `AuditLog`) |
| `audit_boot` | 1 server and 1 CLI, one at a time, 3 kills, all four databases | `BootHeals` |
| `outbox` | 2 runs, 1 key, 2 payloads, faults, lost audit rows, erasures, 1 kill | `ReceiptsHold` |
| `outbox_audit` | 1 run, inbox of 2, 4 ids, 2 revisions, an erasure, 1 kill | `LineageHolds`, `SteeringBounded`, `EnqueueEvidenced`, `HistoryKept` |
| `event_feed` | 1 domain, 3 events, a batch of 1, a bus of 2, failing deliveries and replays, 2 lost connections, 1 kill | `GapsExplained`, `EventuallyDelivered`, `EventuallyShown` |
| `review` | quorum of 2, 2 reviewers and the Signal lane, 2 requests at a time and 3 in all, 2 proposals of 4 kinds, 1 erasure or forget, 1 lost record, 1 expiry | `AppliedOnce`, `SecondEyes`, `Evidenced`, `DecisionFinal` |
| `webhook_queue` | 3 queued and 1 direct delivery, 2 old claims, 2 requests at a time and 3 in all, queue of 1, 2 claims kept, failing statements, 1 kill | `QueueBounded`, `ReplayRefused`, `ActedOnce`, `NewestKept`, `Accounted`, `QueueDrains` |
| `agent_loop` | 2 keyed calls and a delegate with 2 invocations, 2 keys, 2 inputs, 1 turn, 1 tool, any drops, cancels and kills | `SoleDriver`, `DetachedToolKeepsRun`, `EffectsOnce`, `ReceiptFinal` |
| `standby` | 2 commits, 3 attempts, 2 faults, any number of promote-checks | `VouchedPair`, `DrillCovers`, `ChunkFresh`, `Heals` |
| `client_queue` | 1 proposal of 2 contents, 1 erasure, 2 tasks, queue of 2, 1 retry, 2 operator writes, 2 faults, any list refreshes | `ApprovedWasShown`, `ErasedAsAsked`, `NothingForgotten` |

`OrderlySpec` (`AuditBoot`) is the start-up restricted to one process at a time,
and to a server that finds a keyed chain without a genesis pin only after a CLI
has upgraded it. Both restrictions are needed, as the next tables say.

Where the code disagrees with what the repository says of it (a finding in
`PROJECT.json`, with the quoted line):

| Run | What TLC finds |
|---|---|
| `review_map` | the identity-map branch of an approval never decides its proposal, and a second approval applies it again |

More come out of the same models, by one change of a configuration (the property
named takes the place of the configuration's own, and `SYMMETRY` goes):

| Setting | What TLC finds |
|---|---|
| `AuditChain.cfg`, `Seeds <- LegacySeeds`, `MaxId = 6`, no kills, clock steps or re-anchor | `ChainVerifies` fails: two prunes of an unstamped legacy chain; the first empties it, an append stamps `sha7`, the second re-pins under the scheme it read before its transaction (`audit/mod.rs:1264`) |
| `AuditRetention.cfg`, `Seeds <- LegacySeeds`, `MaxId = 6`, no kills, traces or re-anchor | `NoFalseAlarm` fails for the same reason |
| `AuditRetention.cfg`, `DeletionsExact` | two prunes count the same expired rows before their transactions, one deletes them, both evidence them (`audit/mod.rs:1248`), where the function's comment says "Returns the number pruned" |
| `AuditBoot.cfg`, `SPECIFICATION BootSpec`, `Seeds <- BareSeeds` | `BootHeals` fails: the migration pins the first row of a keyed chain under the legacy scheme; `upgrade_pins` then refuses the chain it should upgrade |
| `AuditBoot.cfg`, `SPECIFICATION BootSpec`, `Seeds <- FreshSeeds` | `BootHeals` fails: a CLI appends the first row between the count and the stamp of `bootstrap_epoch`, its stamp is replaced (`audit/mod.rs:1757`) and the chain no longer verifies |
| `OutboxAudit.cfg`, `UpdatesEvidenced` | the audit row of a `cas` outside a unit, and of `deliver`, is a second commit, and a kill loses it, where the `WorkflowHost` contract says "inside the same transaction" |
| `OutboxAudit.cfg`, `InboxDrops` | a case note parented at a steering message makes a full inbox refuse messages, where `docs/api.md:251` says "drop-oldest" |
| `OutboxAudit.cfg`, `SweptIsGone` | `outbox.run_id` is no foreign key: an enqueue after the erasure of its run adds a row for it again, where `sweep_subject` is to delete "matched runs with their dependents" (`service/dsar/sweep.rs:92`) |
| `EventFeed.cfg`, `NoSilentGap`, `Batch = 2`, `ReplayFails = FALSE` | a row whose delivery failed is published after later ones; a client that reconnects in between never gets it (`alert.rs:415`) |
| the same with `Batch = 1`, `Buffer = 3`, `MaxId = 4`, `DeliverFails = FALSE`, no kills (`MaxCrashes = 0`) | a backlog beyond one batch is replayed in part, and live events move the cursor past the rest (`alert.rs:297`) |
| `EventFeed.cfg`, `NoSilentGap`, `Batch = 4`, `Buffer = 4`, `DeliverFails = FALSE`, no kills | a replay that gets no connection opens the stream without the rows, and the next live event moves the cursor past them (`alert.rs:289`); with `ReplayFails = FALSE` there is no gap |
| `EventFeed.cfg`, `NoSilentGap` or `GapsExplained`, `ReplayFails = FALSE`, `NumDomains = 2`, `MaxId = 2`, `Batch = 4`, `Buffer = 4`, `MaxDrops = 1`, `DeliverFails = FALSE`, no kills | ids start at 1 in every domain and the client keeps one cursor over all (`client/src/main.rs:759`): the rows of a domain whose ids are behind are never replayed, where `client/src/api.rs:471` says a dropped connection "backfills its gap instead of skipping it" |
| `Review.cfg`, `QuorumNeverDegrades` | an edit between the two approvals, or a marker inherited with a reused id, lets one principal's approval of the final bytes suffice, where `docs/human-in-the-loop.md:115` says "the quorum never silently degrades to one" |
| `Review.cfg`, `ExpiryWasReal` | a request that read the row as stale records its expiry although another one has approved it meanwhile and the statement changed nothing (`service/review.rs:483`) |
| `WebhookQueue.cfg`, `DuplicateWasDone` | a direct lane claims before it acts: a delivery refused with 503 stays claimed and its retry is a duplicate, where `handlers/webhooks.rs:822` says "503 = back off; the relay retries later" |
| `WebhookQueue.cfg`, `EnqueuedOnce` | a delivery drained before its claim is written, or whose claim or lookup failed, is queued a second time |
| `Standby.cfg`, `PreviousPairKept` | the base is replaced in place: an interrupted cycle leaves a torn follower, where `standby.rs:27` says "leaves the previous consistent pair" |
| `Standby.cfg`, `InBaseOrChunk` | commits made after the snapshot leave the log before it is copied (a checkpoint and a commit that starts the log over, or the last close), or the copy fails and is taken for empty (`standby.rs:240`): they are in neither artifact, where `standby.rs:69` says "lands in the base or the chunk" |
| `Standby.cfg`, `DrillPair` | `promote_check` verifies (`standby.rs:446`), then restores the base (`:471`), then reads the chunk (`:482`): a cycle in between replaces the base and its checksum, and the chunk of the cycle verified is put over a newer base |
| `ClientQueue.cfg`, `QueuedAsSent` | the review list reads the digest again after the call has failed (`panels/review.rs:486`, `:522`): a refresh in between queues an approval of the edited bytes, where `queue.rs:146` says the digest "the operator approved against" |
| `ClientQueue.cfg`, `ReplayedInTheEnd`, `Contents = {x}`, `MaxTasks = 1`, `MaxClicks = 3`, `MaxFaults = 4` | a full queue evicts a parked approval that a banner row still shows; it is queued again; skipping another row writes the parked copy back; the replay then goes offline and `enqueue` finds the parked twin, so the decision is never replayed, where `queue.rs:385` says such actions "replay automatically on reconnect" |
| `ClientQueue.cfg`, `FailureParks` | the drain removes the action it fires, so a refused replay finds no queued twin to charge and is dropped (`client/src/main.rs:931`), where `queue.rs:22` says it "parks a persistently-failing action after five server-answered failures" |
| `ClientQueue.cfg`, `ParkedStays` | a decision on the banner writes back the rows it shows, and takes an erasure parked since they were read with it; a full queue drops its oldest item, parked or not; `queue.rs:442` says "only an explicit human decision removes them" |
| `ClientQueue.cfg`, `ReplayWaits` | the replay effect looks at the connection, not at `writes_enabled`: it sends while the recovered chain is still to be verified, where `main.rs:852` says "require chain re-verify before writes re-enable" |

### Bounds

The bounds are those at which each hazard first appears, plus one where that is
cheap. A re-link needs a deleted row, a new origin and a survivor after it:
three rows, and a fourth for the evidence. Two prunes are enough for one to act
on what the other changed. Time needs a tick for a row to be written, one to
expire and one more for rows of mixed age. A unit of work interferes with one
other writer; a receipt needs a second payload and a second run to be confused
with. An inbox of two is the smallest in which the oldest and the newest differ.
A gap needs three events (one for the first cursor, one skipped, one after it).
With a batch of one a client that missed two events is behind by more than a
batch; with a bus of two and three events it lags by more than the bus holds. The
code's sizes are 100 and 256, which change nothing but how long it takes.

`review`: two requests at a time are what every race here takes, and three in all
let a third see what two did; two proposals, so that an id can be reused; the four
kinds are those whose branches differ (all in one transaction, suppressed,
undecided, promoted with a record after). Three kinds of the module
(`publish`, `consent`, `fact`) take the paths of `remedy`, `template` and `draft`, and
`exploratory` is refused like a wrong digest. `webhook_queue`: with a queue of one,
two requests can exceed it, and three deliveries could exceed it further if the
count let them; with two claims kept and one evicted at a time, two
requests can evict by one count. `agent_loop`: the two keyed calls retry each
other's key; the delegate shows a claim that outlives an invocation. One turn
with one tool has every control point; the second turn only repeats them. There
is no bound on drops, cancellations and kills. `standby`: two commits are one before
and one after a snapshot; three attempts are one to be whole, one to tear it and one
to heal. The shipper stops after three failures in a row in the
code and after two (`FailureLimit`) here, so that it happens.

`client_queue`: the two contents are what was shown and what is there now; two
tasks are a replay and a call that queues the same action again; a queue of two
can be full of different kinds; one retry (five in the code) lets an approval be
parked; two operator writes are one and its repetition, and two faults lose both.
The first queue is empty or holds an approval parked by an earlier session, which
would otherwise take a third write to be sent from the banner.

Deadlock is not checked where the bounds on ids and time stop the model; it is
checked in `EventFeed`, whose loops never stop. `audit_chain`, `audit_retention`,
`outbox`, `review` and `agent_loop` use symmetry (prunes; runs, keys and payloads; requests,
reviewers and contents; keyed calls, keys and inputs), and check no liveness
property; their step properties do not depend on names.

### Fairness

`EventFeed`: the worker is an endless loop with a sleep, the client an endless
reconnect loop, and the pump runs while connected: weak fairness of their steps
(of the replay: that it ends, complete or not).
`DrainDeliver` has strong fairness: it fails only when the write lock is held for
longer than the busy timeout, every holder keeps it for one transaction, and the
worker tries again in every pass. `Commit`, `Disconnect`, `DrainSkip` and `Crash`
have none.

`WebhookQueue`: weak fairness of `Drain`, a loop that only sleeps, starts again
with the server, and tries again in its next pass when a statement fails.
Requests have none: their clients may go away.

`Standby`: weak fairness of `Ship`, a loop that an operator's supervisor restarts.
Faults are bounded by `MaxFaults` and leave one attempt: `Heals` says that the next
cycle that runs to its end heals the follower, not that one will.

`ClientQueue`: weak fairness of `Work`: the probe is a timer, the event loop runs the
effects and continuations that are due, and a call ends with an answer or with the
timeout (`NetworkError`, bounded by `MaxFaults`). The operator, the other reviewer
and late requests have none. No run checks liveness here; `ReplayedInTheEnd` fails even
so (§3, last table).

## 4. Proofs

Every statement is for all values of the constants, under the `ASSUME`s of the
module (bounds are naturals, sets of tasks or requests are finite where they are
counted, the inbox bound is positive). Each component has one inductive invariant,
defined in parts in the component's own module; TLC checked it on the instances of
§3 before it was proved. A proof has one lemma or step for each action, and under
it one for each part the action can disturb.

| Module | Theorems | Inductive invariant |
|---|---|---|
| `AuditChainProofs` | `TypeCorrect`, `ChainAlwaysVerifies`, `NoFalseAlarmEver`, `NoOrphanTraceEver`, `DeletionsAlwaysCounted`, `ChainImplementsLog`; `BootAlwaysHeals` | `ChainInv`, `WatchCurrent`, `CutoffsPast`, `UntracedKept`, `CountsCover`; `BootInv` |
| `OutboxProofs` | `OutboxTypeCorrect`, `LineageAlwaysHolds`, `ReceiptsAlwaysHold`, `HistoryAlwaysKept`, `SteeringAlwaysBounded`, `EnqueueAlwaysEvidenced` | `OutboxInv`; `InboxBounded` and `Evidenced` of `db` and `work` |
| `EventFeedProofs` | `FeedTypeCorrect`, `GapsAlwaysExplained` | `FeedInv` |
| `ReviewProofs` | `ReviewTypeCorrect`, `AppliedOnceHolds`, `SecondEyesHolds`, `EvidencedHolds`, `DecisionFinalHolds` | `ReviewInv` |
| `WebhookQueueProofs` | `WebhookInvariant`, `QueueBoundedHolds`, `ReplayRefusedHolds`, `ActedOnceHolds`, `NewestKeptHolds`, `AccountedHolds` | `WebhookInv` |
| `AgentLoopProofs` | `LoopTypeCorrect`, `SoleDriverHolds`, `DetachedToolKeepsRunHolds`, `EffectsOnceHolds`, `ClaimExplainedHolds`, `ReceiptFinalHolds` | `LoopInv` |
| `StandbyProofs` | `StandbyTypeCorrect`, `VouchedPairHolds`, `DrillCoversHolds`, `ChunkFreshHolds` | `StandbyInv` |
| `ClientQueueProofs` | `ClientInvariant`, `ClientTypeCorrect`, `ApprovedWasShownHolds`, `ErasedAsAskedHolds`, `NothingForgottenHolds` | `ClientInv` |

### Audit chain

`ChainVerifies` is not inductive: a prune that holds an outdated scheme could
break a good chain in its next step. `ChainInv` adds what excludes that:

- `SoundDb`: rows without a back-reference form a prefix, the walk holds, the pins
  are exactly those of the first and last row, and a chain with rows is stamped;
- `TasksCurrent`: a prune past its read of the scheme holds the chain's own stamp,
  and no prune is under way during a re-anchor;
- `ReauditCurrent`: the rows a re-anchor has collected are the rows it replays.

The lemmas about `Relink` (the new links walk, the NULL prefix stays one),
`RefreshPins` and `Append` are where the work is. `NoFalseAlarm` needs in addition
that the snapshot the watcher walks is sound, and that the chain is still keyed if
the snapshot is (`WatchCurrent`): its verdict is about a database that has moved on.

The premises, each with what fails without it:

| Premise | Theorems | Without it |
|---|---|---|
| `TypedSeeds`: the starting database is well typed | all | |
| `StampedSeeds`: its chain is sound, and stamped unless it is empty | `ChainAlwaysVerifies`, `NoFalseAlarmEver` | two prunes break an unstamped legacy chain (§3, last table) |
| `~ClockSteps`: the clock is not set back | `NoOrphanTraceEver`, `DeletionsAlwaysCounted`, `ChainImplementsLog` | a cutoff computed before the clock went back reaches rows that are not expired by the present clock |

`SeedsAssumption` in `MCAuditChain` has TLC evaluate that real databases, with and
without rows, satisfy `StampedSeeds`, and that the unstamped legacy chain does not.

`DeletionsAlwaysCounted` is for any number of prunes and kills: `CountsCover` says that
between its count and its transaction the rows a prune would delete are among those it
counted, since appends are never older than its cutoff and other prunes only take rows
away. What it counts beyond what it deletes is `DeletionsExact` (§3, last table).

`ChainImplementsLog` maps the table to what it says (`Content`: kind and time, no
links). An append, that of evidence or of a re-anchor included, is a `LogAppend` of
`AuditLog`; the prune's transaction is a `LogTrim` with its cutoff, which `CutoffsPast`
shows to be one the present clock allows; re-linking, pins, stamps, kills and
everything the watcher does are stuttering steps.

### Start-up

`BootAlwaysHeals` starts from databases that do not verify yet: a legacy chain
without pins, a keyed one without a genesis pin or without MACs. What every step
keeps is weaker than verification (`OldDb`: the chain walks with MACs tolerated,
and a pin is missing only where an earlier release left it out), and the opener's
position says how much of the rest is done: `OpenerCurrent` says that what a process
has read is still what the database holds, at every point between a read and the
write it decides, and that a process which is up and can compute the links has left
both pins present and MACed. `PrunesCurrent` does the same for the prunes of the
server, which may run on a legacy chain that was never stamped: the case
`StampedSeeds` excludes above.

| Premise | Without it |
|---|---|
| `OldSeeds`: the chain walks under its stamp, and only pins an earlier release left out are missing | a chain that does not walk is left as it is, by design |
| in `OldSeed`: an unstamped chain with rows meets one pruning task | two prunes break it (§3, last table, first row) |
| in `Orderly`: one process at a time | an append between count and stamp (§3, last table) |
| in `Orderly`: no server first on a keyed chain without a genesis pin | the migration pins it under the legacy scheme (§3, last table) |

`OldSeedsAssumption` in `MCAuditBoot` has TLC evaluate that the four databases of the
run satisfy `OldSeeds`.

### Event feed

That the client has missed nothing says nothing about what it may miss next: the
cursor moves with whatever arrives. `FeedInv` therefore speaks of all unseen events
without an excuse. None lies below the cursor; on an open stream each is still to be
replayed, sent or published (`OnTheWay`), before any event with a larger id
(`SentInOrder`); and the worker publishes in order, because below the row it holds
nothing is pending but what failed once (`PassOrdered`). The step that matters is
the replay: the bus was joined before it, so an event published in between is in
both, and everything unseen that was delivered is past the cursor and in the batch,
or is put into `skipped`. `PublishFeed` follows one send through a queue that has
room and through one that lags.

`GapsAlwaysExplained` assumes one domain (`NumDomains = 1`). With two it is false: ids
of different databases share one cursor (§3, last table). `FeedTypeCorrect` is for
any number.

### Outbox

`OutboxInv` says the same of the open unit's view as of the committed database,
that the unit only adds to what was committed when it began (`UnitAdds`: this is
the write lock at work), and that no receipt names a kernel topic
(`AcksUnreserved`: a full steering inbox deletes rows of its own topic only). An
erasure deletes rows too; it waits for the unit, takes every row of its runs, and with
them the receipts of those runs.

`SteeringBounded` and `EnqueueEvidenced` hold of both databases alike. Two lemmas
(`DbMoves`, `WorkMoves`) reduce every step to "one becomes the other, or is
changed by one statement", and each statement keeps the bound. The step that
matters is `DropMakesRoom`: a full inbox has a least id, so drop-oldest takes at
least one row before one is inserted. `EnqueueEvidenced` assumes `~AuditFails`: the
code drops an audit row it cannot write, and says so.

### Review

Decisions are final because a step rewrites only pending rows, the scrub excepted,
which changes the bytes and nothing else. That alone gives neither `AppliedOnce` nor `Evidenced`: ids are reused, and a record is written after
the COMMIT it is about. `SerialsOK` says that serials, which are not reused, name
rows uniquely; `TaskOK` that a request which still has to write its record carries
the serial and the status of the row it decided; `DecisionsTraced` that the record
of every decision, by its own verdict, is there, owed by such a request, or lost;
`RecordsAgree` that no row has the record of the other verdict; `FirstBacked` that a
quorum marker goes back to an approval under its id.

### Webhook queue

Every check is used later than it is made, so each part counts the requests in
between: `RoomOK` those that found room in the queue, `EvictionOK` those that have
counted too many claims, `PutsOK` those still to insert. `QueueBounded` and
`NewestKept` therefore contain the number of requests at a time, and cannot be had
without it. `ClaimsOK` says that a delivery whose claim was never evicted is in the
hands of one request, once.

### Agent loop

The core is `OwnerOK`: a call inside its invocation is the claim's owner and its
invocation is open, so while one call steps every other is outside, and what it
writes concerns nobody else. `PositionOK` says that what was started under a call's
key lies before its control point, which is why nothing is started twice;
`ToolsHeld` that a tool without its result keeps the run; `ExchangesOK` that what
was answered is the outcome on the log. The properties are what is left of these
when futures are dropped and processes are killed.

### Standby

`StageOK` ties the position of the attempt to the files that bear its id.
`ManifestOK` and `NumberingOK` rest on `Paired` (the base on disk is the one the
manifest names): replacing the base ends it, the manifest of the new cycle
restores it. `BeginsOK` says that snapshot and base are not older than the cycles
they stand for: a later base is newer, which is why what `promote_check` restores after
its verification may belong to another cycle and still be no step back (`DrillOK`), and
chunks are never overwritten, which is why the chunk is the one it verified.

### Desktop client

`CopiesOK` allows one copy of an action that replays by itself, and says when the
banner shows the parked ones; without it `OwedOK` is not preserved when the banner
writes its rows back. `ErasuresOK` counts, for each erasure, what was carried out, is
under way and may still arrive late, against what the operator sent. `ShownOK` follows
the digests: whatever the list holds, is called with, queued, kept on the banner, replayed
or late was displayed, or is no digest, which the server refuses. The queue is
filtered at every step; `Subsequence` defines that by ranks, since `SelectSeq` is
recursive and closed to the provers, and the first section of the proofs says once
what it holds.

## 5. Only model-checked

- Liveness under fairness, which this prover does not reach: `EventuallyDelivered`,
  `EventuallyShown`, `QueueDrains`, `Heals`.
- `EventFeed` with several domains, where `GapsExplained` is false.
- `review_map` and the last table of §3, which are counterexamples.

## 6. Left out of the modelled components

- Audit: tenants, the key file, unrecognised epoch values, restore comparison,
  failing pin writes inside an otherwise good transaction; a kill between a
  prune's commit and its evidence row loses the count (the code calls that row
  best-effort), which `DeletionsCounted` does not deny.
- The trace of a read is inserted by the request that wrote the row, so `Tick`
  does not let a row expire with its trace still to come. Without that
  assumption an orphan trace would stay until the next prune sweeps it.
- The watcher's posture when it gets no connection (`WatchUnavailable`) is told
  apart from a broken chain in the model only; `/health` shows both as not ok.
- Outbox: opening runs, channel, valet and delivery writers, presence; which runs an
  erasure selects, and the other tables it sweeps.
- Feed: re-authorisation of streams, webhook sink, other alert kinds, the total
  replay cap of 1000 rows over all domains (one domain's batch of 100 never reaches
  it), the client's duplicate filter.
- Review: the cap on the copies a forget scrubs, its audit rows, the tables the branches write, authorisation, scoring and lint, the
  listing of the console. Two things the model has and a reader may not expect:
  the Signal lane has no TTL check, and the record of an expiry is written whether
  or not the statement changed the row.
- Webhooks: signatures and timestamps, the egress half.
- Agent loop: compaction, replay windows, the text of messages; hooks, harness and
  token accounting are choices. A delegate whose admission is refused keeps its
  claim, as in the code; the projection row `subagent_result` is not counted.
- Standby: sealing and its keys, rotation, the backup and restore commands, two
  shippers on one directory, a directory that cannot be listed when the numbering is
  resumed. What SQLite makes of the source's frames over a base whose pages `VACUUM
  INTO` has renumbered is not modelled: nothing is claimed of the promoted database but
  which base and which chunk it is made of. The runbook restores the base alone.

- Client: native builds (their preferences are not saved), two tabs over one saved
  queue, migration of older saved queues, queued edits (no panel queues one), rejections
  from the list (they carry no digest and are those of the detail page), the round trip
  of a list refresh. The
  banner's effect is taken to compare its rows with the present parked items, and
  may be late; whether the framework hands it those of the first render is not
  decided here.

## 7. Not modelled, and plan

Next, in this order:

1. delivery: intents, releases and attestations; each operation is one guarded
   transaction, but an observation of the remote system is fetched before it;
2. relay offers and answers, as a module over the units of `Outbox`;
3. the restore comparison of the audit head, and failing pin writes.

Not planned: search, embedding, chunking and linking (numerical or textual, out
of a model checker's reach); authentication and authorisation (stateless
decisions); configuration, routing, connectors and the client's panels (wiring
and presentation); DSAR and purge beyond the outbox rows and
proposals they delete (many tables, few interleavings).

## 8. Running it

    tlc -config AuditChain.cfg MCAuditChain
    tlapm AuditChainProofs.tla

and so for the other rows of §3; the module of each configuration is in
`PROJECT.json`.
